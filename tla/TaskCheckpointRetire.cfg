\* Retirement and recovery: three invocations from a new, an unbound or a bound
\* session, and any two of a transport loss, a crash and a failing file.
CONSTANTS
  Procs = {p1, p2}
  Absent = Absent
  DeadPid = DeadPid
  NoPid = NoPid
  NoFile = NoFile
  Ops <- RetireOps
  MaxCalls = 3
  Mishaps = {"loss", "crash", "fault"}
  MaxMishaps = 2
SPECIFICATION Spec
SYMMETRY Interchangeable
INVARIANTS
  CheckpointNotLost
PROPERTIES
  RetiresOnlySeenInput
  FollowsLockProtocol
\* An instance stops when its invocations are used up.
CHECK_DEADLOCK FALSE
