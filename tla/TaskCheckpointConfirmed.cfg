\* A loss, its replay, a cancellation, and an interrupt that waits meanwhile.
CONSTANTS
  Procs = {p1, p2}
  Absent = Absent
  DeadPid = DeadPid
  NoPid = NoPid
  NoFile = NoFile
  Ops = {"replay", "cancel", "interrupt"}
  MaxCalls = 3
  Mishaps = {"loss"}
  MaxMishaps = 1
SPECIFICATION Spec
SYMMETRY Interchangeable
INVARIANT ConfirmedStaysConfirmed
\* An instance stops when its invocations are used up.
CHECK_DEADLOCK FALSE
