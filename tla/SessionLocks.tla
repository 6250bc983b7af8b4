---------------------------- MODULE SessionLocks ----------------------------
(***************************************************************************)
(* The lock files of one Accord task session                               *)
(* (runtime/task-checkpoint.cjs, `locked` and `recover-lock`).             *)
(*                                                                         *)
(* A lock is a file created with O_EXCL that holds the pid of its creator. *)
(* Checkpoint operations take the state lock and, for the short sections   *)
(* that read or publish, the input lock.  Native input hooks take only the *)
(* input lock.  The host kills a hook that exceeds its budget, so a lock   *)
(* file can outlive its owner; `recover-lock` removes such a file under a  *)
(* third lock, the recovery gate.                                          *)
(*                                                                         *)
(* A name in Procs stands for one operating-system process at a time:      *)
(* after a crash it stands for a new process with another pid.  A pid of a *)
(* process that is gone is never mistaken for a live one (no pid reuse).   *)
(*                                                                         *)
(* A definition X_Y is a faulty variant of X: it shows that a property can *)
(* fail, and no specification uses it.                                     *)
(***************************************************************************)
EXTENDS Naturals, FiniteSets

CONSTANTS
  Procs,     \* the processes that call the helper
  Absent,    \* no lock file
  DeadPid,   \* a lock file whose pid names no running process
  NoPid      \* a lock file whose creator died before it wrote its pid

ASSUME LockValuesDistinct ==
  /\ Absent # DeadPid /\ Absent # NoPid /\ DeadPid # NoPid
  /\ {Absent, DeadPid, NoPid} \cap Procs = {}

VARIABLES
  lock,   \* what each lock file holds
  held,   \* the lock files each process will unlink on its way out
  job,    \* the entry point each process runs
  stage,  \* how far it has got
  calm    \* the host has stopped killing callers and storage has stopped failing

vars == <<lock, held, job, stage, calm>>

LockFiles == {"state", "input", "gate"}
Recoveries == {"recoverState", "recoverInput"}
Jobs == {"idle", "operation", "hook"} \cup Recoveries
Stages == {"entering", "deciding", "inspected", "confirmed", "unwinding"}

TypeOK ==
  /\ lock \in [LockFiles -> Procs \cup {Absent, DeadPid, NoPid}]
  /\ held \in [Procs -> SUBSET LockFiles]
  /\ job \in [Procs -> Jobs]
  /\ stage \in [Procs -> Stages]
  /\ calm \in BOOLEAN

Init ==
  /\ lock = [l \in LockFiles |-> Absent]
  /\ held = [p \in Procs |-> {}]
  /\ job = [p \in Procs |-> "idle"]
  /\ stage = [p \in Procs |-> "entering"]
  /\ calm = FALSE

(***************************************************************************)
(* Which lock each entry point takes next: state before input, and the     *)
(* gate before either.  State recovery never takes the input lock.         *)
(***************************************************************************)
MayTake(j, h, l) ==
  \/ j = "operation" /\ h = {} /\ l = "state"
  \/ j = "operation" /\ h = {"state"} /\ l = "input"
  \/ j = "hook" /\ h = {} /\ l = "input"
  \/ j \in Recoveries /\ h = {} /\ l = "gate"
  \/ j = "recoverInput" /\ h = {"gate"} /\ l = "state"

(* The locks under which a recovery may inspect its target. *)
GuardsOf_NoGate(j) == IF j = "recoverInput" THEN {"state"} ELSE {}
GuardsOf(j) == IF j = "recoverInput" THEN {"gate", "state"} ELSE {"gate"}
Target(j) == IF j = "recoverInput" THEN "input" ELSE "state"
Recovering(p) == job[p] \in Recoveries /\ held[p] = GuardsOf(job[p])

(* Locks nest: the last one taken is the first one its finally unlinks. *)
Innermost(h) ==
  IF "input" \in h THEN "input" ELSE IF "state" \in h THEN "state" ELSE "gate"

Working(p) == job[p] # "idle" /\ stage[p] \in {"entering", "deciding"}

(***************************************************************************)
(* One invocation.                                                         *)
(***************************************************************************)
Begin(p, j) ==
  /\ job[p] = "idle" /\ ~calm /\ j # "idle"
  /\ job' = [job EXCEPT ![p] = j]
  /\ UNCHANGED <<lock, held, stage, calm>>

(* Once calm, a surviving caller recovers what is left, state before input. *)
BeginRecovery(p, j) ==
  /\ job[p] = "idle" /\ calm
  /\ j \in Recoveries /\ lock[Target(j)] = DeadPid
  /\ j = "recoverInput" => lock["state"] = Absent
  /\ job' = [job EXCEPT ![p] = j]
  /\ UNCHANGED <<lock, held, stage, calm>>

Take(p, l) ==
  /\ Working(p) /\ MayTake(job[p], held[p], l)
  /\ lock[l] = Absent
  /\ lock' = [lock EXCEPT ![l] = p]
  /\ held' = [held EXCEPT ![p] = @ \cup {l}]
  /\ UNCHANGED <<job, stage, calm>>

(* The state lock and the gate are tried once; the input lock is retried    *)
(* until its deadline has passed.  Either way EEXIST ends the invocation.   *)
Busy_NoDeadline(l) == lock[l] # Absent /\ l # "input"
Busy(l) == lock[l] # Absent
Refuse_Unlinks(p, l) ==
  /\ Working(p) /\ MayTake(job[p], held[p], l)
  /\ Busy(l)
  /\ lock' = [lock EXCEPT ![l] = Absent]
  /\ stage' = [stage EXCEPT ![p] = "unwinding"]
  /\ UNCHANGED <<held, job, calm>>
Refuse(p, l) ==
  /\ Working(p) /\ MayTake(job[p], held[p], l)
  /\ Busy(l)
  /\ stage' = [stage EXCEPT ![p] = "unwinding"]
  /\ UNCHANGED <<lock, held, job, calm>>

(* An operation gives the input lock back after it has read its input view  *)
(* and decides, or inspects files, under the state lock alone.              *)
GiveBackInput(p) ==
  /\ job[p] = "operation" /\ stage[p] = "entering" /\ "input" \in held[p]
  /\ lock' = [lock EXCEPT !["input"] = Absent]
  /\ held' = [held EXCEPT ![p] = @ \ {"input"}]
  /\ stage' = [stage EXCEPT ![p] = "deciding"]
  /\ UNCHANGED <<job, calm>>

(* The callback under the lock returns or throws. *)
Finish(p) ==
  /\ job[p] \in {"operation", "hook"} /\ Working(p)
  /\ "input" \in held[p] \/ stage[p] = "deciding"
  /\ stage' = [stage EXCEPT ![p] = "unwinding"]
  /\ UNCHANGED <<lock, held, job, calm>>

(* An interrupt that finds input lost fails before it takes its lock.       *)
Decline(p) ==
  /\ job[p] = "hook" /\ stage[p] = "entering" /\ held[p] = {}
  /\ stage' = [stage EXCEPT ![p] = "unwinding"]
  /\ UNCHANGED <<lock, held, job, calm>>

(* finally: the lock file is unlinked by its path, whoever it names. *)
Release(p) ==
  /\ stage[p] = "unwinding" /\ job[p] # "idle" /\ held[p] # {}
  /\ lock' = [lock EXCEPT ![Innermost(held[p])] = Absent]
  /\ held' = [held EXCEPT ![p] = @ \ {Innermost(held[p])}]
  /\ UNCHANGED <<job, stage, calm>>

(* A failed input publication keeps the input lock file for recovery. *)
Retain(p) ==
  /\ stage[p] = "unwinding" /\ job[p] \in {"operation", "hook"} /\ ~calm
  /\ "input" \in held[p]
  /\ held' = [held EXCEPT ![p] = @ \ {"input"}]
  /\ UNCHANGED <<lock, job, stage, calm>>

End(p) ==
  /\ stage[p] = "unwinding" /\ job[p] # "idle" /\ held[p] = {}
  /\ job' = [job EXCEPT ![p] = "idle"]
  /\ stage' = [stage EXCEPT ![p] = "entering"]
  /\ UNCHANGED <<lock, held, calm>>

(***************************************************************************)
(* recover-lock: the owner must be provably dead, the bytes unchanged on a *)
(* second read, and the unlink is again by path.                           *)
(***************************************************************************)
Inspect(p) ==
  /\ Recovering(p) /\ stage[p] = "entering"
  /\ lock[Target(job[p])] = DeadPid
  /\ stage' = [stage EXCEPT ![p] = "inspected"]
  /\ UNCHANGED <<lock, held, job, calm>>

Confirm(p) ==
  /\ Recovering(p) /\ stage[p] = "inspected"
  /\ lock[Target(job[p])] = DeadPid
  /\ stage' = [stage EXCEPT ![p] = "confirmed"]
  /\ UNCHANGED <<lock, held, job, calm>>

Reclaim_KeepsFile(p) ==
  /\ Recovering(p) /\ stage[p] = "confirmed"
  /\ stage' = [stage EXCEPT ![p] = "unwinding"]
  /\ UNCHANGED <<lock, held, job, calm>>
Reclaim(p) ==
  /\ Recovering(p) /\ stage[p] = "confirmed"
  /\ lock' = [lock EXCEPT ![Target(job[p])] = Absent]
  /\ stage' = [stage EXCEPT ![p] = "unwinding"]
  /\ UNCHANGED <<held, job, calm>>

(* No file, a live owner, no readable pid, or a failed publication. *)
Abandon(p) ==
  /\ Recovering(p)
  /\ \/ stage[p] \in {"entering", "inspected"} /\ lock[Target(job[p])] # DeadPid
     \/ stage[p] \in {"inspected", "confirmed"} /\ ~calm
  /\ stage' = [stage EXCEPT ![p] = "unwinding"]
  /\ UNCHANGED <<lock, held, job, calm>>

(***************************************************************************)
(* The host and the operating system.                                      *)
(***************************************************************************)
Orphaned(p) == [l \in LockFiles |-> IF lock[l] = p THEN DeadPid ELSE lock[l]]

Die(p) ==
  /\ held' = [held EXCEPT ![p] = {}]
  /\ job' = [job EXCEPT ![p] = "idle"]
  /\ stage' = [stage EXCEPT ![p] = "entering"]
  /\ UNCHANGED calm

Crash(p) ==
  /\ job[p] # "idle" /\ ~calm
  /\ lock' = Orphaned(p)
  /\ Die(p)

(* Killed between creating the lock file and writing the pid into it. *)
TakeAndDie(p, l) ==
  /\ Working(p) /\ MayTake(job[p], held[p], l) /\ ~calm
  /\ lock[l] = Absent
  /\ lock' = [Orphaned(p) EXCEPT ![l] = NoPid]
  /\ Die(p)

(* A process that retained the input lock finishes and exits. *)
Exit(p) ==
  /\ job[p] = "idle" /\ \E l \in LockFiles : lock[l] = p
  /\ lock' = Orphaned(p)
  /\ UNCHANGED <<held, job, stage, calm>>

Calm ==
  /\ ~calm
  /\ calm' = TRUE
  /\ UNCHANGED <<lock, held, job, stage>>

(* What the process must do by itself, once it goes for its locks. *)
Step(p) ==
  \/ \E l \in LockFiles : Take(p, l) \/ Refuse(p, l)
  \/ GiveBackInput(p) \/ Finish(p) \/ Release(p) \/ Retain(p) \/ End(p)
  \/ Inspect(p) \/ Confirm(p) \/ Reclaim(p) \/ Abandon(p)

Next ==
  \/ Calm
  \/ \E p \in Procs :
       \/ Step(p) \/ Decline(p) \/ Crash(p) \/ Exit(p)
       \/ \E j \in Jobs : Begin(p, j) \/ BeginRecovery(p, j)
       \/ \E l \in LockFiles : TakeAndDie(p, l)

(* A running process is scheduled until it ends; after the host is calm a   *)
(* surviving caller does recover, and a finished process does exit.         *)
Fairness ==
  \A p \in Procs :
    /\ WF_vars(Step(p)) /\ WF_vars(Exit(p))
    /\ \A j \in Recoveries : WF_vars(BeginRecovery(p, j))

Spec == Init /\ [][Next]_vars
FairSpec == Spec /\ Fairness

(***************************************************************************)
(* Properties.                                                             *)
(***************************************************************************)

(* No two processes are ever inside the same lock, and the file of a lock   *)
(* somebody is inside names that process: neither an unlink by path in a    *)
(* finally nor a recovery takes a live owner's lock away.                   *)
MutualExclusion ==
  /\ \A p \in Procs : \A l \in held[p] : lock[l] = p
  /\ \A p, q \in Procs : p # q => held[p] \cap held[q] = {}

(* Only the owner, or its death, ends a lock that names a live process:     *)
(* `recover-lock` never reclaims a lock whose owner still runs.             *)
OnlyTheOwnerLetsGo ==
  [][\A l \in LockFiles : \A p \in Procs :
       (lock[l] = p /\ lock'[l] # p) =>
         \/ l \in held[p] /\ l \notin held'[p]
         \/ job'[p] = "idle" /\ lock'[l] = DeadPid]_vars

(* Every invocation ends, whatever its locks were left as: the no-wait      *)
(* locks and the deadline of the input lock leave no cycle to wait in.      *)
InvocationEnds ==
  \A p \in Procs : job[p] # "idle" ~> job[p] = "idle"

(* After the host is calm, recover-lock clears everything the dead left     *)
(* behind, unless the gate itself was orphaned or a pid never written.      *)
Recoverable == lock["gate"] # DeadPid /\ \A l \in LockFiles : lock[l] # NoPid
RecoveryCompletes ==
  (calm /\ Recoverable) ~> (\A l \in LockFiles : lock[l] = Absent)
=============================================================================
