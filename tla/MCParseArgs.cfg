SPECIFICATION Spec
CONSTANTS
    MaxArgs = 5
CHECK_DEADLOCK FALSE
INVARIANTS
    ReadOnce
