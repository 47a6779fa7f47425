SPECIFICATION FairEngineSpec
CONSTANTS
    short = short
    long = long
    missing = missing
    f1 = f1
    f2 = f2
    g1 = g1
    w1 = w1
    w2 = w2
    Worker = {v1, v2, v3}
    File = {f1, f2, g1}
    Quit = Quit
    MaxTasks = 3
    Dir <- MCDir
    FilesIn <- MCFilesIn
    PrefixLength <- MCPrefixLength
    PathLength <- MCPathLength
    Unreadable = {g1}
    Word = {w1, w2}
    MaxSize = 1
    Text <- MCText
    NoFile = NoFile
    MaxCommands = 2
INVARIANTS
    QueueTypeOK
    NeverPopsEmpty
    FilesBeforeQuits
    CompleteAtEnd
    StoredTextIsTrue
    OneCommandCutsRight
PROPERTIES
    QuitEnds
    IndexingReturns
CHECK_DEADLOCK FALSE
