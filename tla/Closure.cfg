SPECIFICATION Spec
CONSTANTS
    Requests <- MCRequests
    Replayed <- MCReplayed
    Alphabet <- MCAlphabet
    MaxEvents = 4
    EnvFacts = {"provenance"}
    RouteFacts = {"available"}
    CoherenceFacts = {"interfaces"}
    ExperimentFacts = {"evaluator"}
    RetirementFacts = {"rollback"}
CHECK_DEADLOCK FALSE
INVARIANTS
    TypeOK
    CompletionMatchesHistory
    SelectionIsCanonical
    SelectedOnBoundFacts
