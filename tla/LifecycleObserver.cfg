SPECIFICATION Spec
CONSTANTS
    Cases = {"plain", "hot", "replacement"}
    MaxMishaps = 1
CHECK_DEADLOCK FALSE
INVARIANTS
    ReleasedFirst
    PassedEpisode
PROPERTY RunEnds
