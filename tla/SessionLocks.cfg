\* Two processes: any recovery race needs two, and a third party that takes
\* the freed lock is the first recoverer itself, back as an ordinary caller.
CONSTANTS
  Procs = {p1, p2}
  Absent = Absent
  DeadPid = DeadPid
  NoPid = NoPid
SPECIFICATION FairSpec
INVARIANT MutualExclusion
PROPERTIES
  OnlyTheOwnerLetsGo
  InvocationEnds
  RecoveryCompletes
\* Once calm and clean, nothing is left to do.
CHECK_DEADLOCK FALSE
