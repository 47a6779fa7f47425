SPECIFICATION Spec
CONSTANTS
    c1 = c1
    c2 = c2
    Asks <- MCAsks
    Client = {c1, c2}
    Crashing = {c1}
    Fd = {1, 2, 3, 4}
    Self = Self
    SelfEnd = SelfEnd
    Free = Free
    MaxRequests = 1
INVARIANT
    ServedAreListed
CHECK_DEADLOCK FALSE
