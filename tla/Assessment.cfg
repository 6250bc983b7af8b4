SPECIFICATION Spec
CONSTANTS
    Files <- MCFiles
    Package <- MCPackage
    Manifest = "manifest"
    Adjudicator = {"verifier"}
    ReviewFiles = {"criteria"}
    Claims <- MCClaims
    Policy <- MCPolicy
    ReviewMaxAge = 1
    Observers = {1, 2, 3, 4, 5, 6, 7, 8, 9, 10, 11, 12}
    Answer <- TheEnvelope
    Axes <- MCAxes
    Independent <- MCIndependent
    MinReviewers = 2
    Histories <- MCHistories
    Candidates <- MCCandidates
    CallBound = 12
    FileBound = 24
    ByteBound = 24
    TreeBytes = 5
    InitTime = 8
    MaxTime = 9
    MaxMoves = 2
CHECK_DEADLOCK FALSE
INVARIANTS
    TypeOK
    AcceptedOnCurrentSource
    EligibleIsComplete
