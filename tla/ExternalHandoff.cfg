SPECIFICATION Spec
CONSTANTS
  Scope = s1
  Transfer = t1
  Source = source
  Target = target
  Executor = executor
  Reviewer = reviewer
  None = None
  MaxRevision = 60
  MaxTokens = 60
CHECK_DEADLOCK FALSE
INVARIANTS
  TypeOK
  SettledIsQuiet
  EffectsOnRecord
  TargetWritesAlone
PROPERTIES
  NothingAfterStop
  ComesToRest
  UsesRecorder
