SPECIFICATION FairSpec
CONSTANTS
    Capacity = 4
    Short = 2
    BatchParts = {2, 3, 4}
    MaxBatches = 3
    MaxFinishes = 1
    MaxSearches = 2
INVARIANTS
    AcknowledgedInStep
    AcknowledgedIsStored

    
CHECK_DEADLOCK FALSE
