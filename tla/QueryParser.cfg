SPECIFICATION Spec
CONSTANTS
    Letter = {"a"}
    MaxLength = 7
INVARIANTS
    QueryReadAsTyped
CHECK_DEADLOCK FALSE
