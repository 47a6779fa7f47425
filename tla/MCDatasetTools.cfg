SPECIFICATION Spec
CONSTANTS
    MaxLength = 5
    Alnum <- MCAlnum
    Delimiter <- MCDelimiter
    CR <- MCCR
    Other <- MCOther
    Name <- MCName
    FolderNames <- MCFolderNames
    RawTrees <- MCRawTrees
INVARIANTS
    MirroredTree
    CleanedIsNormal
    CountsAgreeWithEngine
    SortedListsFirstOfEach
CHECK_DEADLOCK FALSE
