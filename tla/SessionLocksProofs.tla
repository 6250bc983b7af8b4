------------------------- MODULE SessionLocksProofs -------------------------
(***************************************************************************)
(* Mutual exclusion of the session locks for any set of processes.         *)
(*                                                                         *)
(* MutualExclusion is not inductive: a recovery unlinks its target by      *)
(* path, so one must also know that the target still names a dead process  *)
(* when it does.  That holds because only the holder of the gate unlinks a *)
(* lock it does not own.                                                   *)
(***************************************************************************)
EXTENDS SessionLocks, TLAPS

Owned == \A p \in Procs : \A l \in held[p] : lock[l] = p

IdleIsClean ==
  \A p \in Procs : job[p] = "idle" => held[p] = {} /\ stage[p] = "entering"

(* Between its inspection and its unlink a recovery still holds the gate,   *)
(* and the lock it inspected still names a dead process.                    *)
TargetStaysDead ==
  \A p \in Procs :
    (job[p] \in Recoveries /\ stage[p] \in {"inspected", "confirmed"}) =>
      Recovering(p) /\ lock[Target(job[p])] = DeadPid

Inv == TypeOK /\ Owned /\ IdleIsClean /\ TargetStaysDead

(* Two processes inside one lock would both be named by its file. *)
LEMMA OwnedExcludes == Owned => MutualExclusion
  BY DEF Owned, MutualExclusion

LEMMA InnermostHeld ==
  ASSUME NEW h \in SUBSET LockFiles, h # {}
  PROVE  Innermost(h) \in h
  BY DEF Innermost, LockFiles

LEMMA InitInv == Init => Inv
  BY DEF Init, Inv, TypeOK, Owned, IdleIsClean, TargetStaysDead, LockFiles,
         Jobs, Stages, Recoveries

(* Every step keeps the variables in their types. *)
LEMMA StepType == TypeOK /\ [Next]_vars => TypeOK'
<1> SUFFICES ASSUME TypeOK, [Next]_vars PROVE TypeOK'
  OBVIOUS
<1> USE DEF TypeOK, Jobs, Stages, Recoveries
<1>1. CASE UNCHANGED vars
  BY <1>1 DEF vars
<1>2. CASE Calm
  BY <1>2 DEF Calm
<1>3. ASSUME NEW p \in Procs, Step(p) PROVE TypeOK'
  <2>1. ASSUME NEW l \in LockFiles, Take(p, l) PROVE TypeOK'
    BY <2>1 DEF Take
  <2>2. ASSUME NEW l \in LockFiles, Refuse(p, l) PROVE TypeOK'
    BY <2>2 DEF Refuse
  <2>3. CASE GiveBackInput(p)
    BY <2>3 DEF GiveBackInput
  <2>4. CASE Finish(p)
    BY <2>4 DEF Finish
  <2>5. CASE Release(p)
    BY <2>5 DEF Release
  <2>6. CASE Retain(p)
    BY <2>6 DEF Retain
  <2>7. CASE End(p)
    BY <2>7 DEF End
  <2>8. CASE Inspect(p) \/ Confirm(p) \/ Reclaim(p) \/ Abandon(p)
    BY <2>8 DEF Inspect, Confirm, Reclaim, Abandon
  <2> QED
    BY <1>3, <2>1, <2>2, <2>3, <2>4, <2>5, <2>6, <2>7, <2>8 DEF Step
<1>4. ASSUME NEW p \in Procs, Decline(p) \/ Crash(p) \/ Exit(p) PROVE TypeOK'
  BY <1>4 DEF Decline, Crash, Exit, Die, Orphaned
<1>5. ASSUME NEW p \in Procs, NEW j \in Jobs, Begin(p, j) \/ BeginRecovery(p, j)
      PROVE  TypeOK'
  BY <1>5 DEF Begin, BeginRecovery
<1>6. ASSUME NEW p \in Procs, NEW l \in LockFiles, TakeAndDie(p, l) PROVE TypeOK'
  BY <1>6 DEF TakeAndDie, Die, Orphaned
<1> QED
  BY <1>1, <1>2, <1>3, <1>4, <1>5, <1>6 DEF Next

(* Every step keeps the three facts about who owns what. *)
LEMMA StepOwnership ==
  Inv /\ [Next]_vars => Owned' /\ IdleIsClean' /\ TargetStaysDead'
<1> DEFINE Goal == Owned' /\ IdleIsClean' /\ TargetStaysDead'
<1> SUFFICES ASSUME Inv, [Next]_vars PROVE Goal
  OBVIOUS
<1> USE DEF Inv, TypeOK, Owned, IdleIsClean, TargetStaysDead, Recovering
<1> USE LockValuesDistinct
<1>0. \A j : Target(j) \in LockFiles /\ "gate" \in GuardsOf(j)
  BY DEF Target, GuardsOf, LockFiles
<1>1. CASE UNCHANGED vars
  BY <1>1 DEF vars
<1>2. CASE Calm
  BY <1>2 DEF Calm
<1>3. ASSUME NEW p \in Procs, Step(p) PROVE Goal
  <2>1. ASSUME NEW l \in LockFiles, Take(p, l) PROVE Goal
    BY <2>1, <1>0 DEF Take, Working
  <2>2. ASSUME NEW l \in LockFiles, Refuse(p, l) PROVE Goal
    BY <2>2 DEF Refuse, Working
  <2>3. CASE GiveBackInput(p)
    <3>1. lock["input"] = p
      BY <2>3 DEF GiveBackInput
    <3> QED
      BY <2>3, <3>1, <1>0 DEF GiveBackInput, Recoveries
  <2>4. CASE Finish(p)
    BY <2>4 DEF Finish, Recoveries
  <2>5. CASE Release(p)
    <3>1. Innermost(held[p]) \in held[p]
      BY <2>5, InnermostHeld DEF Release
    <3>2. lock[Innermost(held[p])] = p
      BY <3>1
    <3> QED
      BY <2>5, <3>1, <3>2, <1>0 DEF Release
  <2>6. CASE Retain(p)
    BY <2>6 DEF Retain
  <2>7. CASE End(p)
    BY <2>7 DEF End
  <2>8. CASE Inspect(p) \/ Confirm(p)
    BY <2>8 DEF Inspect, Confirm, Recoveries
  <2>9. CASE Reclaim(p)
    <3>1. lock[Target(job[p])] = DeadPid
      BY <2>9 DEF Reclaim, Recoveries
    <3>2. \A q \in Procs : Target(job[p]) \notin held[q]
      BY <3>1
    <3>3. \A q \in Procs : q # p => "gate" \notin held[q]
      BY <2>9, <1>0 DEF Reclaim
    <3> QED
      BY <2>9, <3>1, <3>2, <3>3, <1>0 DEF Reclaim
  <2>10. CASE Abandon(p)
    BY <2>10 DEF Abandon, Recoveries
  <2> QED
    BY <1>3, <2>1, <2>2, <2>3, <2>4, <2>5, <2>6, <2>7, <2>8, <2>9, <2>10 DEF Step
<1>4. ASSUME NEW p \in Procs, Crash(p) PROVE Goal
  BY <1>4, <1>0 DEF Crash, Die, Orphaned
<1>5. ASSUME NEW p \in Procs, Exit(p) PROVE Goal
  BY <1>5, <1>0 DEF Exit, Orphaned
<1>6. ASSUME NEW p \in Procs, NEW j \in Jobs, Begin(p, j) \/ BeginRecovery(p, j)
      PROVE  Goal
  BY <1>6 DEF Begin, BeginRecovery
<1>7. ASSUME NEW p \in Procs, NEW l \in LockFiles, TakeAndDie(p, l) PROVE Goal
  BY <1>7, <1>0 DEF TakeAndDie, Die, Orphaned, Working
<1>8. ASSUME NEW p \in Procs, Decline(p) PROVE Goal
  BY <1>8 DEF Decline, Recoveries
<1> QED
  BY <1>1, <1>2, <1>3, <1>4, <1>5, <1>6, <1>7, <1>8 DEF Next

(* The invariant holds in every reachable state. *)
THEOREM Invariance == Spec => []Inv
<1>1. Inv /\ [Next]_vars => Inv'
  BY StepType, StepOwnership DEF Inv
<1> QED
  BY InitInv, <1>1, PTL DEF Spec

(* Type correctness of the lock protocol, for any set of processes. *)
THEOREM TypeCorrect == Spec => []TypeOK
<1>1. Inv => TypeOK
  BY DEF Inv
<1> QED
  BY Invariance, <1>1, PTL

(* No two of any number of processes are ever inside the same lock, though  *)
(* callers are killed at any instruction and recoveries race each other and *)
(* the ordinary callers.                                                    *)
THEOREM Exclusion == Spec => []MutualExclusion
<1>1. Inv => MutualExclusion
  BY OwnedExcludes DEF Inv
<1> QED
  BY Invariance, <1>1, PTL

(* One step takes a live owner's lock away only if the owner lets go of it  *)
(* or dies.                                                                 *)
LEMMA StepKeepsLiveLocks ==
  ASSUME Inv, Next, NEW l \in LockFiles, NEW p \in Procs,
         lock[l] = p, lock'[l] # p
  PROVE  \/ l \in held[p] /\ l \notin held'[p]
         \/ job'[p] = "idle" /\ lock'[l] = DeadPid
<1> DEFINE Goal == \/ l \in held[p] /\ l \notin held'[p]
                   \/ job'[p] = "idle" /\ lock'[l] = DeadPid
<1> USE DEF Inv, TypeOK
<1> USE LockValuesDistinct
<1>1. lock[l] \notin {Absent, DeadPid, NoPid} /\ lock' # lock
  OBVIOUS
<1>2. ASSUME NEW q \in Procs, Step(q) PROVE Goal
  <2>1. ASSUME NEW m \in LockFiles, Take(q, m) PROVE Goal
    BY <2>1, <1>1 DEF Take
  <2>2. CASE GiveBackInput(q)
    BY <2>2, <1>1 DEF GiveBackInput, Owned
  <2>3. CASE Release(q)
    <3>1. Innermost(held[q]) \in held[q]
      BY <2>3, InnermostHeld DEF Release
    <3> QED
      BY <2>3, <3>1, <1>1 DEF Release, Owned
  <2>4. CASE Reclaim(q)
    <3>1. lock[Target(job[q])] = DeadPid
      BY <2>4 DEF Reclaim, Recovering, Recoveries, TargetStaysDead
    <3> QED
      BY <2>4, <3>1, <1>1 DEF Reclaim
  <2> QED
    BY <1>2, <1>1, <2>1, <2>2, <2>3, <2>4
       DEF Step, Refuse, Finish, Retain, End, Inspect, Confirm, Abandon
<1>3. ASSUME NEW q \in Procs, Crash(q) \/ Exit(q) PROVE Goal
  BY <1>3, <1>1 DEF Crash, Exit, Die, Orphaned
<1>4. ASSUME NEW q \in Procs, NEW m \in LockFiles, TakeAndDie(q, m) PROVE Goal
  BY <1>4, <1>1 DEF TakeAndDie, Die, Orphaned
<1> QED
  BY <1>1, <1>2, <1>3, <1>4 DEF Next, Calm, Begin, BeginRecovery, Decline

(* A recovery never reclaims a lock whose owner still runs, for any number  *)
(* of processes.                                                            *)
THEOREM LiveLocksKept == Spec => OnlyTheOwnerLetsGo
<1>1. Inv /\ [Next]_vars =>
        [\A l \in LockFiles : \A p \in Procs :
           (lock[l] = p /\ lock'[l] # p) =>
             \/ l \in held[p] /\ l \notin held'[p]
             \/ job'[p] = "idle" /\ lock'[l] = DeadPid]_vars
  BY StepKeepsLiveLocks
<1> QED
  BY Invariance, <1>1, PTL DEF Spec, OnlyTheOwnerLetsGo
=============================================================================
