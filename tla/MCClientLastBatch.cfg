SPECIFICATION Spec
CONSTANTS
    f = f
    g = g
    Words <- MCWords
    Unreadable = {g}
    BatchSize = 1
    MaxIndexes = 1
    MaxCommands = 1
INVARIANTS
    AllWordsSent
CHECK_DEADLOCK FALSE
