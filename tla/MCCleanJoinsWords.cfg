SPECIFICATION Spec
CONSTANTS
    MaxLength = 4
    Alnum <- MCAlnum
    Delimiter <- MCDelimiter
    CR <- MCCR
    Other <- MCOther
    Name <- MCName
    FolderNames <- MCFolderNames
    RawTrees <- MCRawTrees
INVARIANT
    DelimitersSeparate
CHECK_DEADLOCK FALSE
