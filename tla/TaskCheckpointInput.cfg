\* Native input against binding and pausing: three invocations from a new, an
\* unbound or a bound session, and one input lost in transport.
CONSTANTS
  Procs = {p1, p2}
  Absent = Absent
  DeadPid = DeadPid
  NoPid = NoPid
  NoFile = NoFile
  Ops <- InputOps
  MaxCalls = 3
  Mishaps = {"loss"}
  MaxMishaps = 1
SPECIFICATION Spec
SYMMETRY Interchangeable
INVARIANTS
  TypeOK
  LossStaysQuarantined
  ReconciledMeansSeen
PROPERTIES
  BindsLatestInput
  RevisionsFollow
  PauseHolds
\* An instance stops when its invocations are used up.
CHECK_DEADLOCK FALSE
