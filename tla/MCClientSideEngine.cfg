SPECIFICATION FairSpec
CONSTANTS
    f = f
    g = g
    Words <- MCWords
    Unreadable = {g}
    BatchSize = 1
    MaxIndexes = 2
    MaxCommands = 2
INVARIANTS
    TypeOK
    NeverPopsEmpty
    OnlyLastBufferUnsent
    FreshAnswer
PROPERTIES
    NamedAfterAnswer
    QuitEnds
    IndexReturns
CHECK_DEADLOCK FALSE
