SPECIFICATION Spec
CONSTANTS
    Cases = {"plain"}
    MaxMishaps = 1
CHECK_DEADLOCK FALSE
INVARIANT
    StatePreservedAcrossExit
