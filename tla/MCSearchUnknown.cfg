SPECIFICATION SearchSpec
CONSTANTS
    w1 = w1
    w2 = w2
    p1 = p1
    p2 = p2
    p3 = p3
    Word = {w1, w2}
    Path = {p1, p2, p3}
    Freq <- MCFreq
    Posting <- MCPosting
    MaxSize = 2
    Thread = {indexer, searcher}
    NoThread = NoThread
    Searcher = {searcher}
    Query <- MCQuery
    Oversized <- MCOversized
INVARIANT
    UnknownWordMatchesNothing
