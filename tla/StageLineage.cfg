SPECIFICATION Spec
CONSTANTS
    LastGate = 2
    Replays <- MCReplays
    MigrationRef = 7
    PostReleaseDelta <- MCDelta
    MaxDepth = 8
    Histories <- MCHistories
    Revisions <- MCRevisions
    MaxCommits = 2
    MaxEdits = 2
    MaxStrays = 1
CHECK_DEADLOCK FALSE
INVARIANTS
    TypeOK
    AcceptedHistoryIsOneChain
    CloseFollowsReacceptance
    MaintenanceKeepsRelease
PROPERTY CommitKeepsAcceptance
