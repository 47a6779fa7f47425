SPECIFICATION Spec
CONSTANTS
    Word = {w1}
    Path = {p1, p2}
    Freq <- MCFreq
    Posting <- MCPosting
    MaxSize = 2
    Thread = {t1, t2}
    NoThread = NoThread
INVARIANTS
    TypeOK
    KeepsHighestFrequencies
    ScanMissesNothingOld
    ScanStaysOnList
PROPERTIES
    EvictedNeverReturns
    ImplementsTopPostings
