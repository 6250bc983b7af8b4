------------------------ MODULE TaskCheckpointProofs ------------------------
(***************************************************************************)
(* What the checkpoint helper keeps true, for any number of processes,     *)
(* calls and mishaps.  Three parts, each resting on the one before: who    *)
(* holds which lock where, what is read from and written to the files, and *)
(* that no loss goes unnoticed.                                            *)
(***************************************************************************)
EXTENDS TaskCheckpoint, TLAPS

-----------------------------------------------------------------------------
(***************************************************************************)
(* The locks.  The entry points of TaskCheckpoint name the locks they take *)
(* but not the ones they hold: Place lists, for every entry point and      *)
(* location, the locks held there.  With the ownership argument of         *)
(* SessionLocks this gives exclusive access to the files, and then the     *)
(* types of what is written to them.                                       *)
(***************************************************************************)

Both == {"state", "input"}
Undoing == {"undoAck", "restoreState", "restoreReceipt", "compensated"}
Unlinking == {"unlinkState", "unlinkReceipt", "acknowledging", "verifying"}
Locations ==
  {"ready", "publishing", "publishedReceipt", "retaining", "failing", "marking",
   "leaving", "viewing", "viewed", "deciding", "rechecking", "committing",
   "gated", "rereading", "invalidating", "reclaiming"} \cup Unlinking \cup Undoing

(* Running j at location a, a process holds exactly the locks h. *)
Place(j, a, h) ==
  \/ j \in Jobs /\ a = "ready" /\ h = {}
  \/ j \in Hooks /\ a \in {"publishing", "publishedReceipt", "retaining"} /\ h = {"input"}
  \/ j \in Hooks /\ a \in {"leaving", "failing"} /\ h \in {{}, {"input"}}
  \/ j \in Hooks /\ a = "marking" /\ h = {}
  \/ j \in Operations /\ a \in {"viewing", "deciding"} /\ h = {"state"}
  \/ j \in Operations /\ a \in {"viewed", "rechecking"} /\ h = Both
  \/ j \in {"bind", "lift", "pause"} /\ a = "committing" /\ h = Both
  \/ j = "reconcile" /\ a \in {"publishing", "publishedReceipt"} /\ h = Both
  \/ j \in {"retire", "cancel", "sessionEnd"} /\ a \in Unlinking \cup Undoing /\ h = Both
  \/ j \in {"reconcile", "retire", "cancel", "sessionEnd"} /\ a = "retaining" /\ h = Both
  \/ j \in Operations /\ a = "leaving" /\ h \in {{}, {"state"}, Both}
  \/ j \in Recoveries /\ a = "gated" /\ h = {"gate"}
  \/ j = "recoverInput" /\ a = "gated" /\ h = {"gate", "state"}
  \/ j = "recoverState" /\ a \in {"rereading", "reclaiming"} /\ h = {"gate"}
  \/ j = "recoverInput" /\ h = {"gate", "state"}
       /\ a \in {"rereading", "invalidating", "publishedReceipt", "reclaiming"}
  \/ j \in Recoveries /\ a = "leaving" /\ h \in {{}, {"gate"}, {"gate", "state"}}

Placed == \A p \in Procs : Place(job[p], at[p], held[p])

Owned == \A p \in Procs : \A l \in held[p] : lock[l] = p

(* From its inspection to its unlink a recovery's target names a dead process. *)
TargetStaysDead ==
  \A p \in Procs :
    (job[p] \in Recoveries
       /\ at[p] \in {"rereading", "invalidating", "publishedReceipt", "reclaiming"}) =>
      lock[TargetOf(p)] = DeadPid

LockTypes ==
  /\ lock \in [LockFiles -> Procs \cup {Absent, DeadPid}]
  /\ held \in [Procs -> SUBSET LockFiles]
  /\ job \in [Procs -> Jobs]
  /\ at \in [Procs -> Locations]

LockInv == LockTypes /\ Placed /\ Owned /\ TargetStaysDead

(* A lock somebody is inside is nobody else's. *)
LEMMA Exclusive ==
  ASSUME Owned, NEW p \in Procs, NEW q \in Procs, NEW l, l \in held[p], l \in held[q]
  PROVE  p = q
  BY DEF Owned

LEMMA InitLocks == Init => LockInv
  BY DEF Init, LockInv, LockTypes, Placed, Place, Owned, TargetStaysDead,
         LockFiles, Jobs, Locations, Recoveries

(* A step of p inside its locks: only its location changes. *)
LEMMA MoveKeepsLocks ==
  ASSUME LockInv, NEW p \in Procs, NEW a \in Locations,
         at' = [at EXCEPT ![p] = a], UNCHANGED <<locks, job>>,
         Place(job[p], a, held[p]),
         (job[p] \in Recoveries
            /\ a \in {"rereading", "invalidating", "publishedReceipt", "reclaiming"}) =>
           lock[TargetOf(p)] = DeadPid
  PROVE  LockInv'
  BY DEF LockInv, LockTypes, Placed, Owned, TargetStaysDead, TargetOf, locks

(* An idle process starts, or one whose locks are gone ends. *)
LEMMA JobKeepsLocks ==
  ASSUME LockInv, NEW p \in Procs, NEW j \in Jobs, held[p] = {},
         at' = [at EXCEPT ![p] = "ready"], job' = [job EXCEPT ![p] = j],
         UNCHANGED locks
  PROVE  LockInv'
  BY DEF LockInv, LockTypes, Placed, Place, Owned, TargetStaysDead, TargetOf,
         locks, Locations

LEMMA HoldKeepsLocks ==
  ASSUME LockInv, NEW p \in Procs, NEW l \in LockFiles, NEW a \in Locations,
         Hold(p, l), at' = [at EXCEPT ![p] = a], UNCHANGED job,
         Place(job[p], a, held[p] \cup {l}),
         a \notin {"rereading", "invalidating", "publishedReceipt", "reclaiming"}
  PROVE  LockInv'
  BY LockContentsDistinct
     DEF LockInv, LockTypes, Placed, Owned, TargetStaysDead, TargetOf, Hold, LockFiles

LEMMA LetGoKeepsLocks ==
  ASSUME LockInv, NEW p \in Procs, NEW l \in LockFiles, NEW a \in Locations,
         LetGo(p, l), at' = [at EXCEPT ![p] = a], UNCHANGED job,
         Place(job[p], a, held[p] \ {l}),
         a \notin {"rereading", "invalidating", "publishedReceipt", "reclaiming"}
  PROVE  LockInv'
<1>1. lock[l] = p /\ \A q \in Procs : q # p => l \notin held[q]
  BY DEF LockInv, Owned, LetGo
<1>2. LockTypes' /\ Placed'
  BY DEF LockInv, LockTypes, Placed, LetGo
<1>3. Owned'
  BY <1>1 DEF LockInv, LockTypes, Owned, LetGo
<1>4. TargetStaysDead'
  BY <1>1, LockContentsDistinct
     DEF LockInv, LockTypes, TargetStaysDead, TargetOf, LetGo, LockFiles
<1> QED
  BY <1>2, <1>3, <1>4 DEF LockInv

(* A process exits or dies: the locks that name it name a dead process. *)
LEMMA OrphanKeepsLocks ==
  ASSUME LockInv, NEW p \in Procs, lock' = Orphaned(p),
         held' = [held EXCEPT ![p] = {}], job' = [job EXCEPT ![p] = "idle"],
         at' = [at EXCEPT ![p] = "ready"]
  PROVE  LockInv'
<1>1. LockTypes' /\ Placed'
  BY DEF LockInv, LockTypes, Placed, Place, Orphaned, Jobs, Locations
<1>2. \A q \in Procs : q # p => \A l \in held[q] : lock'[l] = lock[l]
  BY DEF LockInv, LockTypes, Owned, Orphaned
<1>3. \A l \in LockFiles : lock[l] = DeadPid => lock'[l] = DeadPid
  BY DEF LockInv, LockTypes, Orphaned
<1>4. Owned'
  BY <1>2 DEF LockInv, LockTypes, Owned
<1>5. TargetStaysDead'
  BY <1>3 DEF LockInv, LockTypes, TargetStaysDead, TargetOf, LockFiles, Recoveries
<1> QED
  BY <1>1, <1>4, <1>5 DEF LockInv
(* What a location says of the entry point and its locks. *)
LEMMA Where ==
  ASSUME NEW j, NEW a, NEW h, Place(j, a, h)
  PROVE  /\ a \in {"publishing", "publishedReceipt", "retaining"} =>
              "input" \in h \/ (j = "recoverInput" /\ h = {"gate", "state"})
         /\ a = "publishing" => Place(j, "publishedReceipt", h) /\ j \notin Recoveries
         /\ a = "ready" => j \in Jobs /\ h = {}
         /\ a = "gated" => j \in Recoveries /\ h \in {{"gate"}, {"gate", "state"}}
         /\ a = "gated" => Place(j, "leaving", h)
         /\ a = "gated" /\ (j = "recoverInput" => "state" \in h) => Place(j, "rereading", h)
         /\ a = "rereading" =>
              /\ j \in Recoveries /\ Place(j, "leaving", h)
              /\ Place(j, IF j = "recoverInput" THEN "invalidating" ELSE "reclaiming", h)
         /\ a = "invalidating" =>
              /\ j = "recoverInput"
              /\ Place(j, "publishedReceipt", h) /\ Place(j, "reclaiming", h)
         /\ a = "reclaiming" =>
              j \in Recoveries /\ "gate" \in h /\ Place(j, "leaving", h)
         /\ a = "failing" => j \in Hooks
<1> USE DEF Hooks, Operations, Recoveries
<1>1. a \in {"publishing", "publishedReceipt", "retaining"} =>
        "input" \in h \/ (j = "recoverInput" /\ h = {"gate", "state"})
  BY DEF Place, Both, Unlinking, Undoing
<1>2. a = "publishing" => Place(j, "publishedReceipt", h) /\ j \notin Recoveries
  BY DEF Place, Unlinking, Undoing
<1>3. a = "ready" => j \in Jobs /\ h = {}
  BY DEF Place, Unlinking, Undoing
<1>4. a = "gated" => j \in Recoveries /\ h \in {{"gate"}, {"gate", "state"}}
  BY DEF Place, Unlinking, Undoing
<1>5. a = "gated" => Place(j, "leaving", h)
  BY <1>4 DEF Place
<1>6. a = "gated" /\ (j = "recoverInput" => "state" \in h) => Place(j, "rereading", h)
  BY DEF Place, Unlinking, Undoing
<1>7. a = "rereading" =>
        /\ j \in Recoveries /\ Place(j, "leaving", h)
        /\ Place(j, IF j = "recoverInput" THEN "invalidating" ELSE "reclaiming", h)
  BY DEF Place, Unlinking, Undoing
<1>8. a = "invalidating" =>
        /\ j = "recoverInput"
        /\ Place(j, "publishedReceipt", h) /\ Place(j, "reclaiming", h)
  BY DEF Place, Unlinking, Undoing
<1>9. a = "reclaiming" => j \in Recoveries /\ "gate" \in h /\ Place(j, "leaving", h)
  BY DEF Place, Unlinking, Undoing
<1>10. a = "failing" => j \in Hooks
  BY DEF Place, Unlinking, Undoing
<1> QED
  BY <1>1, <1>2, <1>3, <1>4, <1>5, <1>6, <1>7, <1>8, <1>9, <1>10

LEMMA WaitingPlaces ==
  ASSUME NEW j, NEW a, NEW h, Place(j, a, h), j # "idle",
         a \in {"ready", "viewing", "deciding", "gated"}
  PROVE  Place(j, IF j \in {"submit", "interrupt", "resume"} THEN "failing" ELSE "leaving", h)
<1> USE DEF Hooks, Operations, Recoveries
<1>1. CASE a = "ready"
  BY <1>1, Where DEF Place, Jobs
<1>2. CASE a \in {"viewing", "deciding"}
  <2>1. j \in Operations /\ h = {"state"}
    BY <1>2 DEF Place, Unlinking, Undoing
  <2> QED
    BY <2>1 DEF Place
<1>3. CASE a = "gated"
  BY <1>3, Where
<1> QED
  BY <1>1, <1>2, <1>3

LEMMA LeavingPlaces ==
  ASSUME NEW j, NEW a \in {"leaving", "failing"}, NEW h, Place(j, a, h), h # {}
  PROVE  Place(j, a, h \ {Innermost(h)})
<1> USE DEF Hooks, Operations, Recoveries
<1>1. /\ Innermost({"input"}) = "input" /\ Innermost({"state"}) = "state"
      /\ Innermost({"gate"}) = "gate" /\ Innermost({"gate", "state"}) = "state"
      /\ Innermost(Both) = "input"
  BY DEF Innermost, Both
<1>2. /\ {"input"} \ {"input"} = {} /\ {"state"} \ {"state"} = {} /\ {"gate"} \ {"gate"} = {}
      /\ {"gate", "state"} \ {"state"} = {"gate"} /\ Both \ {"input"} = {"state"}
  BY DEF Both
<1>3. \/ j \in Hooks /\ h = {"input"}
      \/ j \in Operations /\ a = "leaving" /\ h \in {{"state"}, Both}
      \/ j \in Recoveries /\ a = "leaving" /\ h \in {{"gate"}, {"gate", "state"}}
  BY DEF Place, Unlinking, Undoing
<1>4. CASE j \in Hooks /\ h = {"input"}
  BY <1>1, <1>2, <1>4 DEF Place
<1>5. CASE j \in Operations /\ a = "leaving" /\ h \in {{"state"}, Both}
  BY <1>1, <1>2, <1>5 DEF Place
<1>6. CASE j \in Recoveries /\ a = "leaving" /\ h \in {{"gate"}, {"gate", "state"}}
  BY <1>1, <1>2, <1>6 DEF Place
<1> QED
  BY <1>3, <1>4, <1>5, <1>6

(* The step of every action on the locks, by kind of entry point. *)
LEMMA StartKeepsLocks ==
  ASSUME LockInv, NEW p \in Procs, NEW j \in Jobs, Prepare(p, j) \/ Deliver(p, j)
  PROVE  LockInv'
<1>1. held[p] = {} /\ at[p] = "ready"
  BY DEF Prepare, Deliver, Invoke, LockInv, Placed, Place, Hooks, Operations, Recoveries
<1>2. at' = [at EXCEPT ![p] = "ready"]
  BY <1>1 DEF Prepare, Deliver, Invoke, LockInv, LockTypes
<1> QED
  BY <1>1, <1>2, JobKeepsLocks DEF Prepare, Deliver, Invoke

LEMMA HookKeepsLocks ==
  ASSUME LockInv, NEW p \in Procs, Hook(p)
  PROVE  LockInv'
<1> USE DEF Goto, Locations
<1>0. Place(job[p], at[p], held[p])
  BY DEF LockInv, Placed
<1>1. CASE EnterHook(p)
  <2>1. Place(job[p], "publishing", held[p] \cup {"input"})
    BY <1>0, <1>1 DEF EnterHook, Place, Hooks, Operations, Recoveries
  <2> QED
    BY <1>1, <2>1, HoldKeepsLocks DEF EnterHook, LockFiles
<1>2. CASE RefuseInterrupt(p)
  <2>1. Place(job[p], "marking", held[p])
    BY <1>0, <1>2 DEF RefuseInterrupt, Place, Hooks, Operations, Recoveries
  <2> QED
    BY <1>2, <2>1, MoveKeepsLocks DEF RefuseInterrupt
<1>3. CASE Skip(p)
  <2>1. Place(job[p], "leaving", held[p])
    BY <1>0, <1>3 DEF Skip, Place, Hooks, Operations, Recoveries
  <2> QED
    BY <1>3, <2>1, MoveKeepsLocks DEF Skip
<1>4. CASE Publish(p)
  <2>1. Place(job[p], "publishedReceipt", held[p]) /\ job[p] \notin Recoveries
    BY <1>0, <1>4, Where DEF Publish
  <2> QED
    BY <1>4, <2>1, MoveKeepsLocks DEF Publish
<1>5. CASE DropAck(p)
  <2> DEFINE a == IF job[p] = "recoverInput" THEN "reclaiming" ELSE "leaving"
  <2>1. Place(job[p], a, held[p])
    BY <1>0, <1>5 DEF DropAck, Place, Hooks, Operations, Recoveries, Both
  <2>2. job[p] = "recoverInput" => lock[TargetOf(p)] = DeadPid
    BY <1>5 DEF DropAck, LockInv, TargetStaysDead, Recoveries
  <2>3. a = "reclaiming" => job[p] = "recoverInput"
    OBVIOUS
  <2> QED
    BY <1>5, <2>1, <2>2, <2>3, MoveKeepsLocks DEF DropAck
<1>6. CASE FailBeforePublish(p) \/ FailPublish(p)
  <2>1. ASSUME NEW a \in {"leaving", "failing", "retaining"},
               at' = [at EXCEPT ![p] = a], Place(job[p], a, held[p])
        PROVE  LockInv'
    BY <1>6, <2>1, MoveKeepsLocks DEF FailBeforePublish, FailPublish
  <2>2. CASE FailBeforePublish(p)
    <3>1. Place(job[p], Failed(p), held[p])
      BY <1>0, <2>2 DEF FailBeforePublish, Failed, Place, Hooks, Operations, Recoveries
    <3> QED
      BY <2>1, <2>2, <3>1 DEF FailBeforePublish, Failed
  <2>3. CASE FailPublish(p)
    <3>1. Place(job[p], "retaining", held[p])
      BY <1>0, <2>3 DEF FailPublish, Place, Hooks, Operations, Recoveries
    <3> QED
      BY <2>1, <2>3, <3>1 DEF FailPublish
  <2> QED
    BY <1>6, <2>2, <2>3
<1> QED
  BY <1>1, <1>2, <1>3, <1>4, <1>5, <1>6 DEF Hook

LEMMA OperationKeepsLocks ==
  ASSUME LockInv, NEW p \in Procs, Operation(p)
  PROVE  LockInv'
<1> USE DEF Goto, Locations
<1>0. Place(job[p], at[p], held[p])
  BY DEF LockInv, Placed
<1>1. CASE EnterOperation(p)
  <2>1. held[p] \cup {"state"} = {"state"}
    BY <1>0, <1>1, Where DEF EnterOperation
  <2>2. Place(job[p], "viewing", held[p] \cup {"state"})
    BY <1>1, <2>1 DEF EnterOperation, Place
  <2> QED
    BY <1>1, <2>2, HoldKeepsLocks DEF EnterOperation, LockFiles
<1>2. CASE View(p)
  <2>1. Place(job[p], "viewed", held[p] \cup {"input"})
    BY <1>0, <1>2 DEF View, Place, Hooks, Operations, Recoveries, Both
  <2> QED
    BY <1>2, <2>1, HoldKeepsLocks DEF View, LockFiles
<1>3. CASE GiveBack(p)
  <2>1. Place(job[p], "deciding", held[p] \ {"input"})
    BY <1>0, <1>3 DEF GiveBack, Place, Hooks, Operations, Recoveries, Both
  <2> QED
    BY <1>3, <2>1, LetGoKeepsLocks DEF GiveBack, LockFiles
<1>4. CASE Recheck(p)
  <2>1. Place(job[p], "rechecking", held[p] \cup {"input"})
    BY <1>0, <1>4 DEF Recheck, Place, Hooks, Operations, Recoveries, Both
  <2> QED
    BY <1>4, <2>1, HoldKeepsLocks DEF Recheck, LockFiles
<1>5. CASE Accept(p)
  <2> DEFINE a == IF Retiring(p) THEN "unlinkState"
                  ELSE IF job[p] = "reconcile" THEN "publishing" ELSE "committing"
  <2>1. Place(job[p], a, held[p]) /\ a \in Locations
    BY <1>0, <1>5 DEF Accept, Retiring, Place, Hooks, Operations, Recoveries, Unlinking
  <2>2. a \notin {"rereading", "invalidating", "publishedReceipt", "reclaiming"}
    OBVIOUS
  <2> QED
    BY <1>5, <2>1, <2>2, MoveKeepsLocks DEF Accept
<1>6. CASE Decline(p)
  <2>1. Place(job[p], "leaving", held[p])
    BY <1>0, <1>6 DEF Decline, Place, Hooks, Operations, Recoveries
  <2> QED
    BY <1>6, <2>1, MoveKeepsLocks DEF Decline
<1>7. CASE Commit(p)
  <2>1. Place(job[p], "leaving", held[p])
    BY <1>0, <1>7 DEF Commit, Place, Hooks, Operations, Recoveries, Unlinking, Undoing
  <2> QED
    BY <1>7, <2>1, MoveKeepsLocks DEF Commit
<1> QED
  BY <1>1, <1>2, <1>3, <1>4, <1>5, <1>6, <1>7 DEF Operation

(* The steps of a retirement lead to each other, or out of it. *)
LEMMA RetirementMoves ==
  ASSUME NEW p, Retirement(p)
  PROVE  /\ at[p] \in Unlinking \cup Undoing /\ UNCHANGED <<locks, job>>
         /\ \E a \in (Unlinking \cup Undoing) \cup {"leaving", "retaining"} :
              at' = [at EXCEPT ![p] = a]
<1> DEFINE Moves ==
      /\ at[p] \in Unlinking \cup Undoing /\ UNCHANGED <<locks, job>>
      /\ \E a \in (Unlinking \cup Undoing) \cup {"leaving", "retaining"} :
           at' = [at EXCEPT ![p] = a]
<1> USE DEF Goto, Unlinking, Undoing
<1>1. UnlinkState(p) \/ UnlinkReceipt(p) \/ Acknowledge(p) \/ Retired(p) => Moves
  BY DEF UnlinkState, UnlinkReceipt, Acknowledge, Retired
<1>2. RetireFails(p) => Moves
  BY DEF RetireFails
<1>3. UndoAck(p) \/ RestoreState(p) \/ RestoreReceipt(p) => Moves
  BY DEF UndoAck, RestoreState, RestoreReceipt
<1>4. Compensated(p) => Moves
  BY DEF Compensated
<1> QED
  BY <1>1, <1>2, <1>3, <1>4 DEF Retirement

LEMMA RetirementKeepsLocks ==
  ASSUME LockInv, NEW p \in Procs, Retirement(p)
  PROVE  LockInv'
<1>0. Place(job[p], at[p], held[p])
  BY DEF LockInv, Placed
<1>1. /\ job[p] \in {"retire", "cancel", "sessionEnd"} /\ held[p] = Both
      /\ UNCHANGED <<locks, job>>
  BY <1>0, RetirementMoves DEF Place, Unlinking, Undoing
<1>2. \E a \in (Unlinking \cup Undoing) \cup {"leaving", "retaining"} :
        at' = [at EXCEPT ![p] = a]
  BY RetirementMoves
<1>3. PICK a \in (Unlinking \cup Undoing) \cup {"leaving", "retaining"} :
        at' = [at EXCEPT ![p] = a]
  BY <1>2
<1>4. Place(job[p], a, held[p]) /\ a \in Locations
  BY <1>1, <1>3 DEF Place, Locations, Operations
<1>5. job[p] \notin Recoveries
  BY <1>1 DEF Recoveries
<1> QED
  BY <1>1, <1>3, <1>4, <1>5, MoveKeepsLocks

LEMMA RecoveryKeepsLocks ==
  ASSUME LockInv, NEW p \in Procs, Recovery(p)
  PROVE  LockInv'
<1> USE DEF Goto, Locations
<1>0. Place(job[p], at[p], held[p])
  BY DEF LockInv, Placed
<1>1. CASE EnterRecovery(p)
  <2>1. Place(job[p], "gated", held[p] \cup {"gate"})
    BY <1>0, <1>1 DEF EnterRecovery, Place, Hooks, Operations, Recoveries
  <2> QED
    BY <1>1, <2>1, HoldKeepsLocks DEF EnterRecovery, LockFiles
<1>2. CASE EnterInputRecovery(p)
  <2>1. Place(job[p], "gated", held[p] \cup {"state"})
    BY <1>0, <1>2 DEF EnterInputRecovery, Place, Hooks, Operations, Recoveries
  <2> QED
    BY <1>2, <2>1, HoldKeepsLocks DEF EnterInputRecovery, LockFiles
<1>3. CASE InspectOwner(p)
  <2> DEFINE a == IF lock[TargetOf(p)] = DeadPid THEN "rereading" ELSE "leaving"
  <2>1. Place(job[p], a, held[p])
    BY <1>0, <1>3, Where DEF InspectOwner, Admissible
  <2> QED
    BY <1>3, <2>1, MoveKeepsLocks DEF InspectOwner
<1>4. CASE RereadOwner(p)
  <2> DEFINE a == IF lock[TargetOf(p)] # DeadPid THEN "leaving"
                  ELSE IF job[p] = "recoverInput" THEN "invalidating" ELSE "reclaiming"
  <2>1. Place(job[p], a, held[p])
    BY <1>0, <1>4, Where DEF RereadOwner
  <2> QED
    BY <1>4, <2>1, MoveKeepsLocks DEF RereadOwner
<1>5. CASE Invalidate(p)
  <2>1. lock[TargetOf(p)] = DeadPid
    BY <1>0, <1>5, Where DEF Invalidate, LockInv, TargetStaysDead, Recoveries
  <2>2. \A a \in {"publishedReceipt", "reclaiming"} : Place(job[p], a, held[p])
    BY <1>0, <1>5, Where DEF Invalidate
  <2>3. PICK a \in {"publishedReceipt", "reclaiming"} : at' = [at EXCEPT ![p] = a]
    BY <1>5 DEF Invalidate
  <2> QED
    BY <1>5, <2>1, <2>2, <2>3, MoveKeepsLocks DEF Invalidate
<1>6. CASE FailInvalidate(p)
  <2>1. Place(job[p], "leaving", held[p])
    BY <1>0, <1>6 DEF FailInvalidate, Place, Hooks, Operations, Recoveries
  <2> QED
    BY <1>6, <2>1, MoveKeepsLocks DEF FailInvalidate
<1>7. CASE Reclaim(p)
  (* The target is dead and p holds the gate: nobody is inside the target,  *)
  (* and no other recovery is between its inspection and its unlink.        *)
  <2>1. /\ job[p] \in Recoveries /\ "gate" \in held[p] /\ Place(job[p], "leaving", held[p])
        /\ lock[TargetOf(p)] = DeadPid /\ TargetOf(p) \in LockFiles
    BY <1>0, <1>7, Where DEF Reclaim, LockInv, TargetStaysDead, TargetOf, LockFiles
  <2>2. /\ lock' = [lock EXCEPT ![TargetOf(p)] = Absent]
        /\ at' = [at EXCEPT ![p] = "leaving"] /\ UNCHANGED <<held, job>>
    BY <1>7 DEF Reclaim
  <2>3. LockTypes' /\ Placed'
    BY <2>1, <2>2 DEF LockInv, LockTypes, Placed
  <2>4. Owned'
    BY <2>1, <2>2, LockContentsDistinct DEF LockInv, LockTypes, Owned
  <2>5. ASSUME NEW q \in Procs, job'[q] \in Recoveries,
               at'[q] \in {"rereading", "invalidating", "publishedReceipt", "reclaiming"}
        PROVE  FALSE
    <3>1. q # p /\ at'[q] = at[q] /\ job'[q] = job[q]
      BY <2>2, <2>5 DEF LockInv, LockTypes
    <3>2. "gate" \in held[q]
      BY <2>5, <3>1 DEF LockInv, Placed, Place, Hooks, Operations, Recoveries
    <3> QED
      BY <2>1, <3>1, <3>2, Exclusive DEF LockInv
  <2> QED
    BY <2>3, <2>4, <2>5 DEF LockInv, TargetStaysDead
<1> QED
  BY <1>1, <1>2, <1>3, <1>4, <1>5, <1>6, <1>7 DEF Recovery

LEMMA ExitingKeepsLocks ==
  ASSUME LockInv, NEW p \in Procs, Exiting(p)
  PROVE  LockInv'
<1> USE DEF Goto, Locations
<1>0. Place(job[p], at[p], held[p])
  BY DEF LockInv, Placed
<1>1. CASE GiveUp(p)
  <2>0. job[p] # "idle" /\ at[p] \in {"ready", "viewing", "deciding", "gated"}
    BY <1>1 DEF GiveUp, Waiting
  <2>1. Place(job[p], Failed(p), held[p])
    BY <1>0, <2>0, WaitingPlaces DEF Failed
  <2>2. Failed(p) \in {"leaving", "failing"}
    BY DEF Failed
  <2> QED
    BY <1>1, <2>1, <2>2, MoveKeepsLocks DEF GiveUp
<1>2. CASE Leave(p)
  <2> DEFINE l == Innermost(held[p])
  <2>1. l \in held[p] /\ l \in LockFiles
    BY <1>2 DEF Leave, Innermost, LockInv, LockTypes, LockFiles
  <2>2. Place(job[p], at[p], held[p] \ {l})
    BY <1>0, <1>2, LeavingPlaces DEF Leave
  <2>3. at' = [at EXCEPT ![p] = at[p]] /\ at[p] \in {"leaving", "failing"}
    BY <1>2 DEF Leave, LockInv, LockTypes
  <2> QED
    BY <1>2, <2>1, <2>2, <2>3, LetGoKeepsLocks DEF Leave
<1>3. CASE StartMark(p)
  <2>0. job[p] \in Hooks /\ held[p] = {}
    BY <1>0, <1>3, Where DEF StartMark
  <2>1. Place(job[p], "marking", held[p])
    BY <2>0 DEF Place
  <2> QED
    BY <1>3, <2>1, MoveKeepsLocks DEF StartMark
<1>4. CASE Mark(p)
  <2>1. Place(job[p], "leaving", held[p])
    BY <1>0, <1>4 DEF Mark, Place, Hooks, Operations, Recoveries
  <2> QED
    BY <1>4, <2>1, MoveKeepsLocks DEF Mark
<1>5. CASE Retain(p)
  (* The lock file stays, but it is no longer p's to unlink. *)
  <2>1. /\ Place(job[p], Failed(p), held[p] \ {"input"})
        /\ Failed(p) \in {"leaving", "failing"}
    BY <1>0, <1>5 DEF Retain, Failed, Place, Both, Hooks, Operations, Recoveries
  <2>2. /\ held' = [held EXCEPT ![p] = @ \ {"input"}]
        /\ at' = [at EXCEPT ![p] = Failed(p)] /\ UNCHANGED <<lock, job>>
    BY <1>5 DEF Retain
  <2> QED
    BY <2>1, <2>2 DEF LockInv, LockTypes, Placed, Owned, TargetStaysDead, TargetOf
<1>6. CASE End(p)
  BY <1>6, JobKeepsLocks DEF End, Jobs
<1> QED
  BY <1>1, <1>2, <1>3, <1>4, <1>5, <1>6 DEF Exiting

LEMMA StepLocks == LockInv /\ [Next]_vars => LockInv'
<1> SUFFICES ASSUME LockInv, [Next]_vars PROVE LockInv'
  OBVIOUS
<1>1. CASE UNCHANGED vars \/ TransportLoss
  BY <1>1 DEF vars, TransportLoss, locks, LockInv, LockTypes, Placed, Owned,
              TargetStaysDead, TargetOf
<1>2. ASSUME NEW p \in Procs, Crash(p) PROVE LockInv'
  BY <1>2, OrphanKeepsLocks DEF Crash
<1>3. ASSUME NEW p \in Procs, Exit(p) PROVE LockInv'
  <2>1. held[p] = {} /\ at[p] = "ready"
    BY <1>3 DEF Exit, LockInv, Placed, Place, Hooks, Operations, Recoveries
  <2>2. /\ held' = [held EXCEPT ![p] = {}] /\ job' = [job EXCEPT ![p] = "idle"]
        /\ at' = [at EXCEPT ![p] = "ready"] /\ lock' = Orphaned(p)
    BY <1>3, <2>1 DEF Exit, LockInv, LockTypes
  <2> QED
    BY <2>2, OrphanKeepsLocks
<1> QED
  BY <1>1, <1>2, <1>3, StartKeepsLocks, HookKeepsLocks, OperationKeepsLocks,
     RetirementKeepsLocks, RecoveryKeepsLocks, ExitingKeepsLocks DEF Next
(* The helper holds its locks where Place says, in every reachable state.   *)
LEMMA LockDiscipline == Spec => []LockInv
  BY InitLocks, StepLocks, PTL DEF Spec

(***************************************************************************)
(* Every entry point goes through its lock files as SessionLocks says.     *)
(***************************************************************************)
JobIn(j) == CASE j \in Hooks -> "hook" [] j \in Operations -> "operation" [] OTHER -> j
StageIn(j, a) ==
  CASE a \in {"leaving", "failing", "marking", "retaining"} -> "unwinding"
    [] a = "rereading" -> "inspected"
    [] a \in {"invalidating", "reclaiming"} -> "confirmed"
    [] a \in {"ready", "viewing", "viewed", "gated"} -> "entering"
    [] OTHER -> IF j = "recoverInput" THEN "confirmed"
                ELSE IF j \in Hooks THEN "entering" ELSE "deciding"

LEMMA Barred ==
  /\ lockJob = [p \in Procs |-> JobIn(job[p])]
  /\ lockStage = [p \in Procs |-> StageIn(job[p], at[p])]
  /\ lockJob' = [p \in Procs |-> JobIn(job'[p])]
  /\ lockStage' = [p \in Procs |-> StageIn(job'[p], at'[p])]
  BY DEF lockJob, lockStage, JobIn, JobOf, StageIn, StageOf

LEMMA JobNames ==
  ASSUME NEW j
  PROVE  /\ j \in Hooks => JobIn(j) = "hook"
         /\ j \in Operations => JobIn(j) = "operation"
         /\ j \in Recoveries \cup {"idle"} => JobIn(j) = j
  BY DEF JobIn, Hooks, Operations, Recoveries

LEMMA StageTable ==
  ASSUME NEW j
  PROVE  /\ \A a \in {"leaving", "failing", "marking", "retaining"} :
              StageIn(j, a) = "unwinding"
         /\ StageIn(j, "rereading") = "inspected"
         /\ \A a \in {"invalidating", "reclaiming"} : StageIn(j, a) = "confirmed"
         /\ \A a \in {"ready", "viewing", "viewed", "gated"} : StageIn(j, a) = "entering"
         /\ \A a \in {"publishing", "publishedReceipt"} :
              StageIn(j, a) = IF j = "recoverInput" THEN "confirmed"
                              ELSE IF j \in Hooks THEN "entering" ELSE "deciding"
         /\ j \in Operations =>
              \A a \in {"deciding", "rechecking", "committing"} \cup Unlinking \cup Undoing :
                StageIn(j, a) = "deciding"
  BY DEF StageIn, Hooks, Operations, Unlinking, Undoing

(* One process moves: the mapped variables change in its component only. *)
LEMMA BarMove ==
  ASSUME LockInv, NEW p \in Procs, NEW a, at' = [at EXCEPT ![p] = a], UNCHANGED job
  PROVE  /\ lockJob' = lockJob /\ lockJob[p] = JobIn(job[p])
         /\ lockStage' = [lockStage EXCEPT ![p] = StageIn(job[p], a)]
         /\ lockStage[p] = StageIn(job[p], at[p])
  BY Barred DEF LockInv, LockTypes

LEMMA BarJob ==
  ASSUME LockInv, NEW p \in Procs, NEW j,
         at' = [at EXCEPT ![p] = "ready"], job' = [job EXCEPT ![p] = j]
  PROVE  /\ lockJob' = [lockJob EXCEPT ![p] = JobIn(j)]
         /\ lockJob[p] = JobIn(job[p])
         /\ lockStage' = [lockStage EXCEPT ![p] = "entering"]
         /\ lockStage[p] = StageIn(job[p], at[p])
  BY Barred, StageTable DEF LockInv, LockTypes

LEMMA InitRefines == Init => Locks!Init
<1>1. Init => /\ [p \in Procs |-> JobOf(p)] = [p \in Procs |-> "idle"]
              /\ [p \in Procs |-> StageOf(p)] = [p \in Procs |-> "entering"]
  BY Barred, JobNames, StageTable DEF Init, lockJob, lockStage
<1> QED
  BY <1>1 DEF Init, Locks!Init, LockFiles, Locks!LockFiles, lockJob, lockStage

(* A stutter: the mapped stage of the one process that moved is the same. *)
LEMMA StutterStep ==
  ASSUME LockInv, NEW p \in Procs, NEW a, at' = [at EXCEPT ![p] = a],
         UNCHANGED <<locks, job>>, StageIn(job[p], a) = StageIn(job[p], at[p])
  PROVE  Locks!vars' = Locks!vars
<1>1. lockJob' = lockJob /\ lockStage' = lockStage
  BY Barred DEF LockInv, LockTypes
<1> QED
  BY <1>1 DEF Locks!vars, locks

LEMMA StartRefines ==
  ASSUME LockInv, NEW p \in Procs, NEW j \in Jobs, Prepare(p, j) \/ Deliver(p, j)
  PROVE  Locks!Next
<1>1. /\ job[p] = "idle" /\ j # "idle" /\ job' = [job EXCEPT ![p] = j]
      /\ UNCHANGED <<locks, at>>
  BY OpsKnown DEF Prepare, Deliver, Invoke
<1>2. at[p] = "ready"
  BY <1>1 DEF LockInv, Placed, Place, Hooks, Operations, Recoveries
<1>3. at' = [at EXCEPT ![p] = "ready"]
  BY <1>1, <1>2 DEF LockInv, LockTypes
<1>4. /\ lockJob' = [lockJob EXCEPT ![p] = JobIn(j)] /\ lockJob[p] = JobIn(job[p])
      /\ lockStage' = [lockStage EXCEPT ![p] = "entering"]
      /\ lockStage[p] = StageIn(job[p], at[p])
  BY <1>1, <1>3, BarJob
<1>5. lockJob[p] = "idle" /\ lockStage[p] = "entering"
  BY <1>1, <1>2, <1>4, JobNames, StageTable
<1>6. JobIn(j) \in Locks!Jobs /\ JobIn(j) # "idle"
  BY <1>1, JobNames DEF Jobs, Locks!Jobs, Locks!Recoveries, Recoveries
<1>7. Locks!Begin(p, JobIn(j))
  <2>1. lockStage' = lockStage
    BY <1>4, <1>5, Barred
  <2> QED
    BY <1>1, <1>4, <1>5, <1>6, <2>1 DEF Locks!Begin, locks
<1> QED
  BY <1>6, <1>7 DEF Locks!Next

(* The lock an entry point takes next is one the protocol lets it take. *)
LEMMA TakeRefines ==
  ASSUME LockInv, NEW p \in Procs, NEW l \in LockFiles, NEW a,
         Hold(p, l), at' = [at EXCEPT ![p] = a], UNCHANGED job, job[p] # "idle",
         Locks!MayTake(JobIn(job[p]), held[p], l),
         StageIn(job[p], at[p]) \in {"entering", "deciding"},
         StageIn(job[p], a) = StageIn(job[p], at[p])
  PROVE  Locks!Next
<1>1. lockJob' = lockJob /\ lockJob[p] = JobIn(job[p]) /\ lockStage[p] = StageIn(job[p], at[p])
  BY BarMove
<1>2. lockStage' = lockStage
  BY Barred DEF LockInv, LockTypes
<1>3. JobIn(job[p]) # "idle"
  BY DEF JobIn
<1>4. Locks!Take(p, l)
  BY <1>1, <1>2, <1>3 DEF Locks!Take, Locks!Working, Hold
<1> QED
  BY <1>4 DEF Locks!Next, Locks!Step, LockFiles, Locks!LockFiles
(* A callback under the lock returns or throws: p unwinds. *)
LEMMA FinishRefines ==
  ASSUME LockInv, NEW p \in Procs,
         NEW a \in {"leaving", "failing", "marking", "retaining"},
         at' = [at EXCEPT ![p] = a], UNCHANGED <<locks, job>>,
         job[p] \in Hooks \cup Operations,
         \/ StageIn(job[p], at[p]) = "deciding"
         \/ StageIn(job[p], at[p]) = "entering" /\ "input" \in held[p]
  PROVE  Locks!Next
<1>1. /\ lockJob' = lockJob /\ lockJob[p] = JobIn(job[p])
      /\ lockStage[p] = StageIn(job[p], at[p])
      /\ lockStage' = [lockStage EXCEPT ![p] = StageIn(job[p], a)]
  BY BarMove
<1>2. JobIn(job[p]) \in {"operation", "hook"} /\ StageIn(job[p], a) = "unwinding"
  BY JobNames, StageTable
<1>3. Locks!Finish(p)
  BY <1>1, <1>2 DEF Locks!Finish, Locks!Working, locks
<1> QED
  BY <1>3 DEF Locks!Next, Locks!Step

LEMMA HookRefines ==
  ASSUME LockInv, NEW p \in Procs, Hook(p)
  PROVE  [Locks!Next]_(Locks!vars)
<1>0. Place(job[p], at[p], held[p])
  BY DEF LockInv, Placed
<1>1. CASE EnterHook(p)
  <2>1. job[p] \in Hooks /\ job[p] # "idle" /\ held[p] = {} /\ at[p] = "ready"
    BY <1>0, <1>1, Where DEF EnterHook, Goto
  <2>2. StageIn(job[p], at[p]) = "entering" /\ StageIn(job[p], "publishing") = "entering"
    BY <2>1, StageTable DEF Hooks
  <2>3. Locks!MayTake(JobIn(job[p]), held[p], "input")
    BY <2>1, JobNames DEF Locks!MayTake
  <2> QED
    BY <1>1, <2>1, <2>2, <2>3, TakeRefines DEF EnterHook, Goto, LockFiles
<1>2. CASE RefuseInterrupt(p)
  <2>1. job[p] \in Hooks /\ held[p] = {} /\ at[p] = "ready"
    BY <1>0, <1>2, Where DEF RefuseInterrupt, Goto, Hooks
  <2>2. /\ lockJob' = lockJob /\ lockJob[p] = "hook" /\ lockStage[p] = "entering"
        /\ lockStage' = [lockStage EXCEPT ![p] = "unwinding"]
    <3>1. /\ lockJob' = lockJob /\ lockJob[p] = JobIn(job[p])
          /\ lockStage[p] = StageIn(job[p], at[p])
          /\ lockStage' = [lockStage EXCEPT ![p] = StageIn(job[p], "marking")]
      BY <1>2, BarMove DEF RefuseInterrupt, Goto
    <3>2. JobIn(job[p]) = "hook"
      BY <2>1, JobNames
    <3>3. StageIn(job[p], at[p]) = "entering" /\ StageIn(job[p], "marking") = "unwinding"
      BY <2>1, StageTable
    <3> QED
      BY <3>1, <3>2, <3>3
  <2>3. Locks!Decline(p)
    BY <1>2, <2>1, <2>2 DEF Locks!Decline, RefuseInterrupt, locks
  <2> QED
    BY <2>3 DEF Locks!Next
<1>3. CASE Skip(p) \/ FailBeforePublish(p)
  <2>1. /\ job[p] \in Hooks /\ held[p] = {"input"} /\ at[p] = "publishing"
    BY <1>0, <1>3 DEF Skip, FailBeforePublish, NothingToDo, Goto, Place, Hooks,
                      Operations, Recoveries, Unlinking, Undoing
  <2>2. StageIn(job[p], at[p]) = "entering"
    BY <2>1, StageTable DEF Hooks
  <2>3. PICK a \in {"leaving", "failing"} : at' = [at EXCEPT ![p] = a]
    BY <1>3 DEF Skip, FailBeforePublish, Goto, Failed
  <2> QED
    BY <1>3, <2>1, <2>2, <2>3, FinishRefines DEF Skip, FailBeforePublish
<1>4. CASE Publish(p)
  <2>1. StageIn(job[p], "publishedReceipt") = StageIn(job[p], at[p])
    BY <1>4, StageTable DEF Publish, Goto
  <2> QED
    BY <1>4, <2>1, StutterStep DEF Publish, Goto
<1>5. CASE (DropAck(p) /\ job[p] # "recoverInput") \/ FailPublish(p)
  <2>1. /\ at[p] \in {"publishing", "publishedReceipt"} /\ job[p] # "recoverInput"
        /\ "input" \in held[p]
    BY <1>0, <1>5, Where DEF DropAck, FailPublish, Goto
  <2>2. job[p] \in Hooks \cup Operations
    BY <1>0, <2>1 DEF Place, Hooks, Operations, Recoveries, Unlinking, Undoing
  <2>3. StageIn(job[p], at[p]) \in {"entering", "deciding"}
    BY <2>1, StageTable
  <2>4. PICK a \in {"leaving", "retaining"} : at' = [at EXCEPT ![p] = a]
    BY <1>5 DEF DropAck, FailPublish, Goto
  <2> QED
    BY <1>5, <2>1, <2>2, <2>3, <2>4, FinishRefines DEF DropAck, FailPublish
<1>6. CASE DropAck(p) /\ job[p] = "recoverInput"
  <2>1. StageIn(job[p], "reclaiming") = StageIn(job[p], at[p])
    BY <1>6, StageTable DEF DropAck, Goto
  <2> QED
    BY <1>6, <2>1, StutterStep DEF DropAck, Goto
<1> QED
  BY <1>1, <1>2, <1>3, <1>4, <1>5, <1>6 DEF Hook

LEMMA OperationRefines ==
  ASSUME LockInv, NEW p \in Procs, Operation(p)
  PROVE  [Locks!Next]_(Locks!vars)
<1>0. Place(job[p], at[p], held[p])
  BY DEF LockInv, Placed
<1>1. CASE EnterOperation(p)
  <2>1. job[p] \in Operations /\ job[p] # "idle" /\ held[p] = {} /\ at[p] = "ready"
    BY <1>0, <1>1, Where DEF EnterOperation, Goto
  <2>2. StageIn(job[p], at[p]) = "entering" /\ StageIn(job[p], "viewing") = "entering"
    BY <2>1, StageTable
  <2>3. Locks!MayTake(JobIn(job[p]), held[p], "state")
    BY <2>1, JobNames DEF Locks!MayTake
  <2> QED
    BY <1>1, <2>1, <2>2, <2>3, TakeRefines DEF EnterOperation, Goto, LockFiles
<1>2. CASE View(p)
  <2>1. job[p] \in Operations /\ job[p] # "idle" /\ held[p] = {"state"} /\ at[p] = "viewing"
    BY <1>0, <1>2 DEF View, Goto, Place, Unlinking, Undoing
  <2>2. StageIn(job[p], at[p]) = "entering" /\ StageIn(job[p], "viewed") = "entering"
    BY <2>1, StageTable
  <2>3. Locks!MayTake(JobIn(job[p]), held[p], "input")
    BY <2>1, JobNames DEF Locks!MayTake
  <2> QED
    BY <1>2, <2>1, <2>2, <2>3, TakeRefines DEF View, Goto, LockFiles
<1>3. CASE GiveBack(p)
  <2>1. job[p] \in Operations /\ at[p] = "viewed"
    BY <1>0, <1>3 DEF GiveBack, Goto, Place, Unlinking, Undoing
  <2>2. /\ lockJob' = lockJob /\ lockJob[p] = "operation" /\ lockStage[p] = "entering"
        /\ lockStage' = [lockStage EXCEPT ![p] = "deciding"]
    <3>1. /\ lockJob' = lockJob /\ lockJob[p] = JobIn(job[p])
          /\ lockStage[p] = StageIn(job[p], at[p])
          /\ lockStage' = [lockStage EXCEPT ![p] = StageIn(job[p], "deciding")]
      BY <1>3, BarMove DEF GiveBack, Goto
    <3>2. JobIn(job[p]) = "operation"
      BY <2>1, JobNames
    <3>3. StageIn(job[p], at[p]) = "entering" /\ StageIn(job[p], "deciding") = "deciding"
      BY <2>1, StageTable
    <3> QED
      BY <3>1, <3>2, <3>3
  <2>3. Locks!GiveBackInput(p)
    BY <1>3, <2>2 DEF Locks!GiveBackInput, GiveBack, LetGo
  <2> QED
    BY <2>3 DEF Locks!Next, Locks!Step
<1>4. CASE Recheck(p)
  <2>1. job[p] \in Operations /\ job[p] # "idle" /\ held[p] = {"state"} /\ at[p] = "deciding"
    BY <1>0, <1>4 DEF Recheck, Goto, Place, Unlinking, Undoing
  <2>2. StageIn(job[p], at[p]) = "deciding" /\ StageIn(job[p], "rechecking") = "deciding"
    BY <2>1, StageTable
  <2>3. Locks!MayTake(JobIn(job[p]), held[p], "input")
    BY <2>1, JobNames DEF Locks!MayTake
  <2> QED
    BY <1>4, <2>1, <2>2, <2>3, TakeRefines DEF Recheck, Goto, LockFiles
<1>5. CASE Accept(p)
  <2>1. job[p] \in Operations /\ at[p] = "rechecking"
    BY <1>0, <1>5 DEF Accept, Goto, Place, Unlinking, Undoing
  <2>2. PICK a \in {"unlinkState", "publishing", "committing"} : at' = [at EXCEPT ![p] = a]
    BY <1>5 DEF Accept, Goto
  <2>3. StageIn(job[p], at[p]) = "deciding" /\ StageIn(job[p], a) = "deciding"
    BY <2>1, <2>2, StageTable DEF Operations, Hooks, Unlinking
  <2> QED
    BY <1>5, <2>2, <2>3, StutterStep DEF Accept
<1>6. CASE Decline(p) \/ Commit(p)
  <2>1. job[p] \in Operations /\ at[p] \in {"deciding", "rechecking", "committing"}
    BY <1>0, <1>6 DEF Decline, Commit, Goto, Place, Operations, Unlinking, Undoing
  <2>2. StageIn(job[p], at[p]) = "deciding"
    BY <2>1, StageTable
  <2>3. at' = [at EXCEPT ![p] = "leaving"] /\ UNCHANGED <<locks, job>>
    BY <1>6 DEF Decline, Commit, Goto
  <2> QED
    BY <2>1, <2>2, <2>3, FinishRefines
<1> QED
  BY <1>1, <1>2, <1>3, <1>4, <1>5, <1>6 DEF Operation

LEMMA RetirementRefines ==
  ASSUME LockInv, NEW p \in Procs, Retirement(p)
  PROVE  [Locks!Next]_(Locks!vars)
<1>0. Place(job[p], at[p], held[p])
  BY DEF LockInv, Placed
<1>1. at[p] \in Unlinking \cup Undoing /\ UNCHANGED <<locks, job>>
  BY RetirementMoves
<1>2. job[p] \in Operations
  BY <1>0, <1>1 DEF Place, Unlinking, Undoing, Operations
<1>3. StageIn(job[p], at[p]) = "deciding"
  BY <1>1, <1>2, StageTable
<1>4. PICK a \in (Unlinking \cup Undoing) \cup {"leaving", "retaining"} :
        at' = [at EXCEPT ![p] = a]
  BY RetirementMoves
<1>5. CASE a \in Unlinking \cup Undoing
  <2>0. a \in {"deciding", "rechecking", "committing"} \cup Unlinking \cup Undoing
    BY <1>5
  <2>1. StageIn(job[p], a) = "deciding"
    BY <1>2, <2>0, StageTable
  <2> QED
    BY <1>1, <1>3, <1>4, <2>1, StutterStep
<1>6. CASE a \in {"leaving", "retaining"}
  BY <1>1, <1>2, <1>3, <1>4, <1>6, FinishRefines
<1> QED
  BY <1>4, <1>5, <1>6

(* Inside its guards a recovery is Recovering in the protocol's terms. *)
LEMMA RecoveringBar ==
  ASSUME LockInv, NEW p \in Procs,
         \/ job[p] = "recoverState" /\ held[p] = {"gate"}
         \/ job[p] = "recoverInput" /\ held[p] = {"gate", "state"}
  PROVE  /\ lockJob[p] = job[p] /\ Locks!Recovering(p)
         /\ Locks!Target(lockJob[p]) = TargetOf(p)
<1>1. lockJob[p] = job[p]
  BY Barred, JobNames DEF Recoveries
<1> QED
  BY <1>1 DEF Locks!Recovering, Locks!Recoveries, Locks!GuardsOf, Locks!Target, TargetOf

LEMMA RecoveryRefines ==
  ASSUME LockInv, NEW p \in Procs, Recovery(p)
  PROVE  [Locks!Next]_(Locks!vars)
<1>0. Place(job[p], at[p], held[p])
  BY DEF LockInv, Placed
<1>1. CASE EnterRecovery(p)
  <2>1. job[p] \in Recoveries /\ job[p] # "idle" /\ held[p] = {} /\ at[p] = "ready"
    BY <1>0, <1>1, Where DEF EnterRecovery, Goto
  <2>2. StageIn(job[p], at[p]) = "entering" /\ StageIn(job[p], "gated") = "entering"
    BY <2>1, StageTable
  <2>3. Locks!MayTake(JobIn(job[p]), held[p], "gate")
    BY <2>1, JobNames DEF Locks!MayTake, Locks!Recoveries, Recoveries
  <2> QED
    BY <1>1, <2>1, <2>2, <2>3, TakeRefines DEF EnterRecovery, Goto, LockFiles
<1>2. CASE EnterInputRecovery(p)
  <2>1. job[p] = "recoverInput" /\ held[p] = {"gate"} /\ at[p] = "gated"
    <3>1. held[p] \in {{"gate"}, {"gate", "state"}}
      BY <1>0, <1>2, Where DEF EnterInputRecovery, Goto
    <3> QED
      BY <1>2, <3>1 DEF EnterInputRecovery, Goto
  <2>2. StageIn(job[p], at[p]) = "entering" /\ StageIn(job[p], "gated") = "entering"
    BY <2>1, StageTable
  <2>3. Locks!MayTake(JobIn(job[p]), held[p], "state")
    BY <2>1, JobNames DEF Locks!MayTake, Recoveries
  <2> QED
    BY <1>2, <2>1, <2>2, <2>3, TakeRefines DEF EnterInputRecovery, Goto, LockFiles
<1>3. CASE InspectOwner(p) \/ RereadOwner(p)
  <2>1. /\ \/ job[p] = "recoverState" /\ held[p] = {"gate"}
           \/ job[p] = "recoverInput" /\ held[p] = {"gate", "state"}
        /\ at[p] \in {"gated", "rereading"} /\ UNCHANGED <<locks, job>>
    <3>1. at[p] \in {"gated", "rereading"} /\ UNCHANGED <<locks, job>>
      BY <1>3 DEF InspectOwner, RereadOwner, Goto
    <3>2. CASE at[p] = "gated"
      <4>1. job[p] \in Recoveries /\ held[p] \in {{"gate"}, {"gate", "state"}}
        BY <1>0, <3>2, Where
      <4>2. job[p] = "recoverInput" => "state" \in held[p]
        BY <1>3, <3>2 DEF InspectOwner, RereadOwner, Admissible, Goto
      <4>3. job[p] = "recoverState" => held[p] = {"gate"}
        BY <1>0, <3>2 DEF Place, Hooks, Operations, Unlinking, Undoing
      <4> QED
        BY <3>1, <4>1, <4>2, <4>3 DEF Recoveries
    <3>3. CASE at[p] = "rereading"
      BY <1>0, <3>1, <3>3 DEF Place, Unlinking, Undoing
    <3> QED
      BY <3>1, <3>2, <3>3
  <2>2. /\ lockJob[p] = job[p] /\ Locks!Recovering(p)
        /\ Locks!Target(lockJob[p]) = TargetOf(p)
    BY <2>1, RecoveringBar
  <2>3. ASSUME NEW a, at' = [at EXCEPT ![p] = a]
        PROVE  /\ lockJob' = lockJob
               /\ lockStage[p] = StageIn(job[p], at[p])
               /\ lockStage' = [lockStage EXCEPT ![p] = StageIn(job[p], a)]
    BY <2>1, <2>3, BarMove
  <2>4. /\ StageIn(job[p], "gated") = "entering" /\ StageIn(job[p], "rereading") = "inspected"
        /\ StageIn(job[p], "leaving") = "unwinding"
        /\ StageIn(job[p], "invalidating") = "confirmed"
        /\ StageIn(job[p], "reclaiming") = "confirmed"
    BY StageTable
  <2>5. CASE InspectOwner(p) /\ lock[TargetOf(p)] = DeadPid
    <3>1. at[p] = "gated" /\ at' = [at EXCEPT ![p] = "rereading"]
      BY <2>5 DEF InspectOwner, Goto
    <3>2. Locks!Inspect(p)
      BY <2>1, <2>2, <2>3, <2>4, <2>5, <3>1 DEF Locks!Inspect, locks
    <3> QED
      BY <3>2 DEF Locks!Next, Locks!Step
  <2>6. CASE RereadOwner(p) /\ lock[TargetOf(p)] = DeadPid
    <3>1. /\ at[p] = "rereading"
          /\ at' = [at EXCEPT ![p] = IF job[p] = "recoverInput" THEN "invalidating"
                                     ELSE "reclaiming"]
      BY <2>6 DEF RereadOwner, Goto
    <3>2. Locks!Confirm(p)
      BY <2>1, <2>2, <2>3, <2>4, <2>6, <3>1 DEF Locks!Confirm, locks
    <3> QED
      BY <3>2 DEF Locks!Next, Locks!Step
  <2>7. CASE lock[TargetOf(p)] # DeadPid
    <3>1. at' = [at EXCEPT ![p] = "leaving"]
      BY <1>3, <2>7 DEF InspectOwner, RereadOwner, Goto
    <3>2. Locks!Abandon(p)
      BY <2>1, <2>2, <2>3, <2>4, <2>7, <3>1 DEF Locks!Abandon, locks
    <3> QED
      BY <3>2 DEF Locks!Next, Locks!Step
  <2> QED
    BY <1>3, <2>5, <2>6, <2>7
<1>4. CASE Invalidate(p)
  <2>1. job[p] = "recoverInput" /\ at[p] = "invalidating" /\ UNCHANGED <<locks, job>>
    BY <1>0, <1>4, Where DEF Invalidate, Goto
  <2>2. PICK a \in {"publishedReceipt", "reclaiming"} : at' = [at EXCEPT ![p] = a]
    BY <1>4 DEF Invalidate, Goto
  <2>3. StageIn(job[p], a) = StageIn(job[p], at[p])
    BY <2>1, <2>2, StageTable
  <2> QED
    BY <2>1, <2>2, <2>3, StutterStep
<1>5. CASE FailInvalidate(p)
  <2>1. /\ job[p] = "recoverInput" /\ held[p] = {"gate", "state"}
        /\ at[p] \in {"invalidating", "publishedReceipt"}
    BY <1>0, <1>5 DEF FailInvalidate, Place, Hooks, Operations, Unlinking, Undoing
  <2>2. lockJob[p] = job[p] /\ Locks!Recovering(p)
    BY <2>1, RecoveringBar
  <2>3. /\ lockJob' = lockJob /\ lockStage[p] = StageIn(job[p], at[p])
        /\ lockStage' = [lockStage EXCEPT ![p] = StageIn(job[p], "leaving")]
    BY <1>5, BarMove DEF FailInvalidate, Goto
  <2>4. StageIn(job[p], at[p]) = "confirmed" /\ StageIn(job[p], "leaving") = "unwinding"
    BY <2>1, StageTable
  <2>5. Locks!Abandon(p)
    BY <1>5, <2>2, <2>3, <2>4 DEF Locks!Abandon, FailInvalidate, locks
  <2> QED
    BY <2>5 DEF Locks!Next, Locks!Step
<1>6. CASE Reclaim(p)
  <2>1. /\ \/ job[p] = "recoverState" /\ held[p] = {"gate"}
           \/ job[p] = "recoverInput" /\ held[p] = {"gate", "state"}
        /\ at[p] = "reclaiming"
    BY <1>0, <1>6 DEF Reclaim, Goto, Place, Unlinking, Undoing
  <2>2. /\ lockJob[p] = job[p] /\ Locks!Recovering(p)
        /\ Locks!Target(lockJob[p]) = TargetOf(p)
    BY <2>1, RecoveringBar
  <2>3. /\ lockJob' = lockJob /\ lockStage[p] = StageIn(job[p], at[p])
        /\ lockStage' = [lockStage EXCEPT ![p] = StageIn(job[p], "leaving")]
    BY <1>6, BarMove DEF Reclaim, Goto
  <2>4. StageIn(job[p], at[p]) = "confirmed" /\ StageIn(job[p], "leaving") = "unwinding"
    BY <2>1, StageTable
  <2>5. Locks!Reclaim(p)
    BY <1>6, <2>2, <2>3, <2>4 DEF Locks!Reclaim, Reclaim
  <2> QED
    BY <2>5 DEF Locks!Next, Locks!Step
<1> QED
  BY <1>1, <1>2, <1>3, <1>4, <1>5, <1>6 DEF Recovery
LEMMA ExitingRefines ==
  ASSUME LockInv, NEW p \in Procs, Exiting(p)
  PROVE  [Locks!Next]_(Locks!vars)
<1>0. Place(job[p], at[p], held[p])
  BY DEF LockInv, Placed
<1>1. CASE GiveUp(p)
  <2>1. /\ job[p] # "idle" /\ at[p] \in {"ready", "viewing", "deciding", "gated"}
        /\ at[p] = "gated" => job[p] = "recoverInput"
        /\ Wanted(p) \notin held[p] /\ lock[Wanted(p)] # Absent
        /\ at' = [at EXCEPT ![p] = Failed(p)] /\ UNCHANGED <<locks, job>>
        /\ Failed(p) \in {"leaving", "failing"}
    BY <1>1 DEF GiveUp, Waiting, Failed
  <2>2. Locks!MayTake(JobIn(job[p]), held[p], Wanted(p)) /\ Wanted(p) \in LockFiles
    <3>1. CASE at[p] = "ready"
      <4>1. job[p] \in Jobs /\ held[p] = {}
        BY <1>0, <3>1, Where
      <4>2. CASE job[p] \in Hooks
        BY <3>1, <4>1, <4>2, JobNames DEF Wanted, LockFiles, Locks!MayTake
      <4>3. CASE job[p] \in Operations
        BY <3>1, <4>1, <4>3, JobNames DEF Wanted, LockFiles, Hooks, Operations, Locks!MayTake
      <4>4. CASE job[p] \in Recoveries
        BY <3>1, <4>1, <4>4, JobNames
           DEF Wanted, LockFiles, Hooks, Operations, Recoveries, Locks!MayTake, Locks!Recoveries
      <4> QED
        BY <2>1, <4>1, <4>2, <4>3, <4>4 DEF Jobs
    <3>2. CASE at[p] \in {"viewing", "deciding"}
      <4>1. job[p] \in Operations /\ held[p] = {"state"}
        BY <1>0, <3>2 DEF Place, Unlinking, Undoing
      <4> QED
        BY <3>2, <4>1, JobNames DEF Wanted, LockFiles, Operations, Locks!MayTake
    <3>3. CASE at[p] = "gated"
      <4>1. job[p] = "recoverInput" /\ held[p] \in {{"gate"}, {"gate", "state"}}
        BY <1>0, <2>1, <3>3, Where
      <4>2. Wanted(p) = "state" /\ held[p] = {"gate"}
        BY <2>1, <3>3, <4>1 DEF Wanted
      <4> QED
        BY <4>1, <4>2, JobNames DEF LockFiles, Recoveries, Locks!MayTake
    <3> QED
      BY <2>1, <3>1, <3>2, <3>3
  <2>3. StageIn(job[p], at[p]) \in {"entering", "deciding"}
    <3>1. at[p] = "deciding" => job[p] \in Operations
      BY <1>0 DEF Place, Unlinking, Undoing
    <3> QED
      BY <2>1, <3>1, StageTable
  <2>4. /\ lockJob' = lockJob /\ lockJob[p] = JobIn(job[p])
        /\ lockStage[p] = StageIn(job[p], at[p])
        /\ lockStage' = [lockStage EXCEPT ![p] = StageIn(job[p], Failed(p))]
    BY <2>1, BarMove
  <2>5. StageIn(job[p], Failed(p)) = "unwinding" /\ JobIn(job[p]) # "idle"
    BY <2>1, StageTable DEF JobIn
  <2>6. Locks!Refuse(p, Wanted(p))
    BY <2>1, <2>2, <2>3, <2>4, <2>5 DEF Locks!Refuse, Locks!Working, Locks!Busy, locks
  <2> QED
    BY <2>2, <2>6 DEF Locks!Next, Locks!Step, LockFiles, Locks!LockFiles
<1>2. CASE Leave(p)
  <2>1. /\ at[p] \in {"leaving", "failing"} /\ at' = [at EXCEPT ![p] = at[p]]
        /\ held[p] # {} /\ job[p] # "idle"
    BY <1>0, <1>2 DEF Leave, LockInv, LockTypes, Place, Hooks, Operations, Recoveries,
                      Unlinking, Undoing
  <2>2. /\ lockJob' = lockJob /\ lockJob[p] = JobIn(job[p])
        /\ lockStage[p] = StageIn(job[p], at[p])
    BY <1>2, <2>1, BarMove DEF Leave
  <2>3. lockStage' = lockStage
    BY <1>2, Barred DEF Leave
  <2>4. StageIn(job[p], at[p]) = "unwinding" /\ JobIn(job[p]) # "idle"
    BY <2>1, StageTable DEF JobIn
  <2>5. Locks!Release(p)
    BY <1>2, <2>1, <2>2, <2>3, <2>4
       DEF Leave, LetGo, Innermost, Locks!Release, Locks!Innermost
  <2> QED
    BY <2>5 DEF Locks!Next, Locks!Step
<1>3. CASE StartMark(p) \/ Mark(p)
  <2>1. /\ at[p] \in {"failing", "marking"} /\ UNCHANGED <<locks, job>>
    BY <1>3 DEF StartMark, Mark, Goto
  <2>2. PICK a \in {"leaving", "marking"} : at' = [at EXCEPT ![p] = a]
    BY <1>3 DEF StartMark, Mark, Goto
  <2>3. StageIn(job[p], a) = StageIn(job[p], at[p])
    BY <2>1, StageTable
  <2> QED
    BY <2>1, <2>2, <2>3, StutterStep
<1>4. CASE Retain(p)
  <2>1. /\ at[p] = "retaining" /\ at' = [at EXCEPT ![p] = Failed(p)]
        /\ Failed(p) \in {"leaving", "failing"}
    BY <1>4 DEF Retain, Goto, Failed
  <2>2. job[p] \in Hooks \cup Operations /\ "input" \in held[p]
    BY <1>0, <2>1 DEF Place, Both, Operations, Unlinking, Undoing
  <2>3. /\ lockJob' = lockJob /\ lockJob[p] = JobIn(job[p])
        /\ lockStage[p] = StageIn(job[p], at[p])
    BY <1>4, <2>1, BarMove DEF Retain
  <2>4. JobIn(job[p]) \in {"operation", "hook"} /\ StageIn(job[p], at[p]) = "unwinding"
    BY <2>1, <2>2, JobNames, StageTable
  <2>5. lockStage' = lockStage
    <3>1. \A q \in Procs : StageIn(job'[q], at'[q]) = StageIn(job[q], at[q])
      BY <1>4, <2>1, StageTable DEF Retain, LockInv, LockTypes
    <3> QED
      BY <3>1, Barred
  <2>6. Locks!Retain(p)
    BY <1>4, <2>2, <2>3, <2>4, <2>5 DEF Retain, Locks!Retain
  <2> QED
    BY <2>6 DEF Locks!Next, Locks!Step
<1>5. CASE End(p)
  <2>1. /\ job[p] # "idle" /\ at[p] = "leaving" /\ at' = [at EXCEPT ![p] = "ready"]
        /\ job' = [job EXCEPT ![p] = "idle"] /\ held[p] = {} /\ UNCHANGED locks
    BY <1>5 DEF End, Goto
  <2>2. /\ lockJob' = [lockJob EXCEPT ![p] = JobIn("idle")] /\ lockJob[p] = JobIn(job[p])
        /\ lockStage' = [lockStage EXCEPT ![p] = "entering"]
        /\ lockStage[p] = StageIn(job[p], at[p])
    BY <2>1, BarJob
  <2>3. /\ JobIn("idle") = "idle" /\ JobIn(job[p]) # "idle"
        /\ StageIn(job[p], at[p]) = "unwinding"
    BY <2>1, JobNames, StageTable DEF JobIn
  <2>4. Locks!End(p)
    BY <2>1, <2>2, <2>3 DEF Locks!End, locks
  <2> QED
    BY <2>4 DEF Locks!Next, Locks!Step
<1> QED
  BY <1>1, <1>2, <1>3, <1>4, <1>5 DEF Exiting

LEMMA HostRefines ==
  ASSUME LockInv, NEW p \in Procs, Crash(p) \/ Exit(p)
  PROVE  Locks!Next
<1>1. CASE Crash(p)
  <2>1. /\ job[p] # "idle" /\ at' = [at EXCEPT ![p] = "ready"]
        /\ job' = [job EXCEPT ![p] = "idle"]
    BY <1>1 DEF Crash
  <2>2. /\ lockJob' = [lockJob EXCEPT ![p] = JobIn("idle")] /\ lockJob[p] = JobIn(job[p])
        /\ lockStage' = [lockStage EXCEPT ![p] = "entering"]
    BY <2>1, BarJob
  <2>3. JobIn("idle") = "idle" /\ JobIn(job[p]) # "idle"
    BY <2>1, JobNames DEF JobIn
  <2>4. Locks!Crash(p)
    BY <1>1, <2>2, <2>3
       DEF Crash, Orphaned, LockFiles, Locks!Crash, Locks!Die, Locks!Orphaned, Locks!LockFiles
  <2> QED
    BY <2>4 DEF Locks!Next
<1>2. CASE Exit(p)
  <2>1. lockJob' = lockJob /\ lockStage' = lockStage /\ lockJob[p] = "idle"
    BY <1>2, Barred, JobNames DEF Exit
  <2>2. Locks!Exit(p)
    BY <1>2, <2>1
       DEF Exit, Orphaned, LockFiles, Locks!Exit, Locks!Orphaned, Locks!LockFiles
  <2> QED
    BY <2>2 DEF Locks!Next
<1> QED
  BY <1>1, <1>2

LEMMA StepRefines == LockInv /\ [Next]_vars => [Locks!Next]_(Locks!vars)
<1> SUFFICES ASSUME LockInv, [Next]_vars PROVE [Locks!Next]_(Locks!vars)
  OBVIOUS
<1>1. CASE UNCHANGED vars \/ TransportLoss
  <2>1. UNCHANGED <<locks, job, at>>
    BY <1>1 DEF vars, TransportLoss
  <2> QED
    BY <2>1, Barred DEF Locks!vars, locks
<1> QED
  BY <1>1, StartRefines, HookRefines, OperationRefines, RetirementRefines,
     RecoveryRefines, ExitingRefines, HostRefines DEF Next

(* Whatever entry points run, crash, fail or give up, the helper takes and  *)
(* leaves its lock files as the lock protocol of SessionLocks allows.       *)
THEOREM LocksRefined == Spec => FollowsLockProtocol
  BY InitRefines, StepRefines, LockDiscipline, PTL DEF Spec, FollowsLockProtocol, Locks!Spec

-----------------------------------------------------------------------------
(***************************************************************************)
(* The files: three arguments, each on top of the lock discipline.  Types  *)
(* and Decided: what is written is well-formed, because an operation past  *)
(* its decision has the view and the prior checkpoint its guards require.  *)
(* Sealed: a process inside its locks still has on disk what it read,      *)
(* because nobody else writes there.  Numbered: an epoch names one count   *)
(* of captured inputs wherever it is found, in a file or in a request a    *)
(* caller prepared long ago.                                               *)
(***************************************************************************)

Ctxs == [token : Tokens \cup {NoFile}, revision : Nat, known : SUBSET Nat, seen : Nat,
         view : Views \cup {NoFile}, prior : Checkpoints \cup {NoFile},
         raw : Receipts \cup {NoFile}, ack : Marks, acked : BOOLEAN, broken : BOOLEAN]

(* What a reader makes of receipt r, acknowledgment a and watermarks m. *)
Reading(r, a, m) ==
  LET stored == IF r = NoFile THEN Blank ELSE r
  IN  IF r = NoFile /\ m \in {NoMarks, a} THEN NoFile
      ELSE IF stored.fails = m
           THEN [stored EXCEPT !.epoch = Token(stored.epoch, NoMarks)]
           ELSE [stored EXCEPT !.epoch = Token(stored.epoch, m),
                               !.replay = TRUE, !.fails = m]

LEMMA ReadInputIs == ReadInput = Reading(receipt, ack, mark)
  BY DEF ReadInput, Reading

LEMMA ReadingFields ==
  ASSUME NEW r \in Receipts \cup {NoFile}, NEW a \in Marks, NEW m \in Marks
  PROVE  /\ Reading(r, a, m) \in Views \cup {NoFile}
         /\ Reading(r, a, m) = NoFile <=> (r = NoFile /\ m \in {NoMarks, a})
         /\ Reading(r, a, m) # NoFile =>
              /\ Reading(r, a, m).fails = m
              /\ Reading(r, a, m).epoch =
                   <<IF r = NoFile THEN 0 ELSE r.epoch,
                     IF r # NoFile /\ r.fails = m THEN NoMarks ELSE m>>
              /\ Reading(r, a, m).captured = IF r = NoFile THEN 0 ELSE r.captured
              /\ Reading(r, a, m).replay <=> (r = NoFile \/ r.fails # m \/ r.replay)
              /\ Reading(r, a, m).resume <=> (r # NoFile /\ r.resume)
              /\ Reading(r, a, m).interrupted <=> (r # NoFile /\ r.interrupted)
<1>0. NoMarks \in Marks /\ NoFile \notin Receipts /\ NoFile \notin Views
  BY NoFileIsNothing DEF NoMarks, Marks
<1>1. CASE r = NoFile /\ m \in {NoMarks, a}
  <2>1. Reading(r, a, m) = NoFile
    BY <1>1 DEF Reading
  <2> QED
    BY <1>1, <2>1
<1>2. CASE r = NoFile /\ m \notin {NoMarks, a}
  <2>1. Reading(r, a, m) = [epoch |-> <<0, m>>, fails |-> m, replay |-> TRUE,
                            resume |-> FALSE, interrupted |-> FALSE, captured |-> 0]
    BY <1>2 DEF Reading, Blank, Token
  <2>2. Reading(r, a, m) \in Views
    BY <2>1 DEF Views, Tokens
  <2>3. /\ Reading(r, a, m).replay /\ ~Reading(r, a, m).resume
        /\ ~Reading(r, a, m).interrupted /\ Reading(r, a, m).captured = 0
        /\ Reading(r, a, m).epoch = <<0, m>> /\ Reading(r, a, m).fails = m
    BY <2>1
  <2>4. <<IF r = NoFile THEN 0 ELSE r.epoch,
          IF r # NoFile /\ r.fails = m THEN NoMarks ELSE m>> = <<0, m>>
    BY <1>2
  <2> QED
    BY <1>0, <1>2, <2>2, <2>3, <2>4
<1>3. CASE r # NoFile /\ r.fails = m
  <2>1. r \in Receipts
    BY <1>3
  <2>2. Reading(r, a, m) = [r EXCEPT !.epoch = <<r.epoch, NoMarks>>]
    BY <1>3 DEF Reading, Token
  <2>3. Reading(r, a, m) =
          [epoch |-> <<r.epoch, NoMarks>>, fails |-> r.fails, replay |-> r.replay,
           resume |-> r.resume, interrupted |-> r.interrupted, captured |-> r.captured]
    BY <2>1, <2>2 DEF Receipts
  <2>4. Reading(r, a, m) \in Views
    BY <1>0, <2>1, <2>3 DEF Views, Tokens, Receipts
  <2>5. /\ Reading(r, a, m).replay <=> r.replay
        /\ Reading(r, a, m).resume <=> r.resume
        /\ Reading(r, a, m).interrupted <=> r.interrupted
        /\ Reading(r, a, m).epoch = <<r.epoch, NoMarks>> /\ Reading(r, a, m).fails = m
        /\ Reading(r, a, m).captured = r.captured
    BY <1>3, <2>3
  <2>6. <<IF r = NoFile THEN 0 ELSE r.epoch,
          IF r # NoFile /\ r.fails = m THEN NoMarks ELSE m>> = <<r.epoch, NoMarks>>
    BY <1>3
  <2> QED
    BY <1>0, <1>3, <2>1, <2>4, <2>5, <2>6
<1>4. CASE r # NoFile /\ r.fails # m
  <2>1. r \in Receipts
    BY <1>4
  <2>2. Reading(r, a, m) =
          [r EXCEPT !.epoch = <<r.epoch, m>>, !.replay = TRUE, !.fails = m]
    BY <1>4 DEF Reading, Token
  <2>3. Reading(r, a, m) =
          [epoch |-> <<r.epoch, m>>, fails |-> m, replay |-> TRUE,
           resume |-> r.resume, interrupted |-> r.interrupted, captured |-> r.captured]
    BY <2>1, <2>2 DEF Receipts
  <2>4. Reading(r, a, m) \in Views
    BY <1>0, <2>1, <2>3 DEF Views, Tokens, Receipts
  <2>5. /\ Reading(r, a, m).replay
        /\ Reading(r, a, m).resume <=> r.resume
        /\ Reading(r, a, m).interrupted <=> r.interrupted
        /\ Reading(r, a, m).epoch = <<r.epoch, m>> /\ Reading(r, a, m).fails = m
        /\ Reading(r, a, m).captured = r.captured
    BY <2>3
  <2>6. <<IF r = NoFile THEN 0 ELSE r.epoch,
          IF r # NoFile /\ r.fails = m THEN NoMarks ELSE m>> = <<r.epoch, m>>
    BY <1>4
  <2> QED
    BY <1>0, <1>4, <2>1, <2>4, <2>5, <2>6
<1> QED
  BY <1>1, <1>2, <1>3, <1>4

(***************************************************************************)
(* Types, and what an operation past its decision has seen.                *)
(***************************************************************************)
Bindable == {"bind", "lift", "reconcile"}
Justified(j, c) ==
  /\ c.view # NoFile
  /\ j \in Bindable => ~c.view.replay /\ ~c.view.resume /\ ~c.view.interrupted
  /\ j \in Bindable \cup {"retire", "cancel"} =>
       c.token = c.view.epoch /\ c.revision = Revision(c.prior)
  /\ j = "pause" => c.prior # NoFile
  /\ j = "retire" => ~c.view.replay /\ (c.prior = NoFile \/ ~c.prior.paused)
  /\ j = "cancel" /\ c.prior = NoFile => ~c.view.replay
  /\ j = "sessionEnd" =>
       /\ c.prior = NoFile
       /\ ~c.view.replay /\ ~c.view.resume /\ ~c.view.interrupted

Deciding(j, a) ==
  /\ j \in Operations
  /\ a \in {"rechecking", "committing", "publishing", "publishedReceipt"}
          \cup Unlinking \cup Undoing

Decided == \A p \in Procs : Deciding(job[p], at[p]) => Justified(job[p], ctx[p])

FileTypes == TypeOK /\ ctx \in [Procs -> Ctxs] /\ clock \in Nat
DataTypes == LockInv /\ FileTypes /\ Decided

LEMMA AdmittedIsJustified ==
  ASSUME NEW p, Admitted(p), job[p] \in Operations
  PROVE  Justified(job[p], ctx[p])
  BY DEF Admitted, SameBasis, NeedsInput, Justified, Bindable, Operations

(* p's next locals and location keep what the other processes know. *)
LEMMA OwnTypes ==
  ASSUME DataTypes, LockInv', NEW p \in Procs, NEW c \in Ctxs,
         ctx' = [ctx EXCEPT ![p] = c],
         \A q \in Procs \ {p} : job'[q] = job[q] /\ at'[q] = at[q],
         Deciding(job'[p], at'[p]) => Justified(job'[p], c),
         receipt' \in Receipts \cup {NoFile},
         checkpoint' \in Checkpoints \cup {NoFile}, bound' \in Checkpoints \cup {NoFile},
         mark' \in Marks, ack' \in Marks, clock' \in Nat, pending' \subseteq 1 .. clock'
  PROVE  DataTypes'
<1>1. FileTypes'
  BY DEF DataTypes, FileTypes, TypeOK, LockInv, LockTypes
<1>2. ASSUME NEW q \in Procs, Deciding(job'[q], at'[q])
      PROVE  Justified(job'[q], ctx'[q])
  <2>1. CASE q = p
    BY <1>2, <2>1 DEF DataTypes, FileTypes
  <2>2. CASE q # p
    <3>1. ctx'[q] = ctx[q] /\ job'[q] = job[q] /\ at'[q] = at[q]
      BY <2>2 DEF DataTypes, FileTypes
    <3> QED
      BY <1>2, <3>1 DEF DataTypes, Decided
  <2> QED
    BY <2>1, <2>2
<1> QED
  BY <1>1, <1>2 DEF DataTypes, Decided

(* The same when p's locals stay. *)
LEMMA SameCtxTypes ==
  ASSUME DataTypes, LockInv', NEW p \in Procs, UNCHANGED ctx,
         \A q \in Procs \ {p} : job'[q] = job[q] /\ at'[q] = at[q],
         Deciding(job'[p], at'[p]) => Justified(job'[p], ctx[p]),
         receipt' \in Receipts \cup {NoFile},
         checkpoint' \in Checkpoints \cup {NoFile}, bound' \in Checkpoints \cup {NoFile},
         mark' \in Marks, ack' \in Marks, clock' \in Nat, pending' \subseteq 1 .. clock'
  PROVE  DataTypes'
<1>1. ctx[p] \in Ctxs /\ ctx' = [ctx EXCEPT ![p] = ctx[p]]
  BY DEF DataTypes, FileTypes
<1> QED
  BY <1>1, OwnTypes

LEMMA NewMark ==
  ASSUME NEW m \in Marks, NEW n \in Nat
  PROVE  /\ [m EXCEPT !["session"] = n] = [session |-> n, workspace |-> m.workspace]
         /\ [m EXCEPT !["workspace"] = n] = [session |-> m.session, workspace |-> n]
<1>1. ASSUME NEW w, w = [m EXCEPT !["session"] = n]
      PROVE  w = [session |-> n, workspace |-> m.workspace]
  BY <1>1 DEF Marks
<1>2. ASSUME NEW w, w = [m EXCEPT !["workspace"] = n]
      PROVE  w = [session |-> m.session, workspace |-> n]
  BY <1>2 DEF Marks
<1> QED
  BY <1>1, <1>2

(* A loss gets a watermark no file and no request has named. *)
LEMMA MarkingTypes ==
  ASSUME DataTypes, NEW scope \in {"session", "workspace"}, MarkFailure(scope)
  PROVE  /\ mark' \in Marks
         /\ pending' = pending \cup {Fresh} /\ pending' \subseteq 1 .. Fresh
         /\ Fresh \in Nat /\ Fresh \in {mark'.session, mark'.workspace}
         /\ {mark'.session, mark'.workspace} \subseteq {mark.session, mark.workspace, Fresh}
<1>1. mark \in Marks /\ Fresh \in Nat /\ pending \subseteq 1 .. clock /\ clock \in Nat
  BY DEF DataTypes, FileTypes, TypeOK, Fresh
<1>2. \/ mark' = [session |-> Fresh, workspace |-> mark.workspace]
      \/ mark' = [session |-> mark.session, workspace |-> Fresh]
  BY <1>1, NewMark DEF MarkFailure
<1>3. mark' \in Marks
  BY <1>1, <1>2 DEF Marks
<1>4. pending' = pending \cup {Fresh} /\ pending' \subseteq 1 .. Fresh
  BY <1>1 DEF MarkFailure, Fresh
<1> QED
  BY <1>1, <1>2, <1>3, <1>4

(* What is on disk, and what p has read, has its type. *)
LEMMA Typed ==
  ASSUME DataTypes
  PROVE  /\ receipt \in Receipts \cup {NoFile}
         /\ checkpoint \in Checkpoints \cup {NoFile} /\ bound \in Checkpoints \cup {NoFile}
         /\ mark \in Marks /\ ack \in Marks /\ NoMarks \in Marks
         /\ clock \in Nat /\ Fresh \in Nat /\ pending \subseteq 1 .. clock
         /\ pending \in SUBSET Nat /\ pending \subseteq 1 .. Fresh
         /\ Captured(ReadInput) \in Nat /\ Revision(checkpoint) \in Nat
         /\ ReadInput \in Views \cup {NoFile} /\ NoCtx \in Ctxs
         /\ \A p \in Procs : ctx[p] \in Ctxs
<1>1. /\ receipt \in Receipts \cup {NoFile}
      /\ checkpoint \in Checkpoints \cup {NoFile} /\ bound \in Checkpoints \cup {NoFile}
      /\ mark \in Marks /\ ack \in Marks /\ NoMarks \in Marks
      /\ clock \in Nat /\ Fresh \in Nat /\ pending \subseteq 1 .. clock
      /\ \A p \in Procs : ctx[p] \in Ctxs
  BY DEF DataTypes, FileTypes, TypeOK, Fresh, NoMarks, Marks
<1>2. ReadInput \in Views \cup {NoFile}
  <2>1. Reading(receipt, ack, mark) \in Views \cup {NoFile}
    BY <1>1, ReadingFields
  <2> QED
    BY <2>1, ReadInputIs
<1>3. Captured(ReadInput) \in Nat
  BY <1>2 DEF Captured, Views
<1>4. Revision(checkpoint) \in Nat
  BY <1>1 DEF Revision, Checkpoints
<1>5. pending \in SUBSET Nat /\ pending \subseteq 1 .. Fresh
  BY <1>1 DEF Fresh
<1>6. NoCtx \in Ctxs
  BY <1>1 DEF NoCtx, Ctxs
<1> QED
  BY <1>1, <1>2, <1>3, <1>4, <1>5, <1>6

LEMMA StartTypes ==
  ASSUME DataTypes, LockInv', NEW p \in Procs, NEW j \in Jobs, Prepare(p, j) \/ Deliver(p, j)
  PROVE  DataTypes'
<1>1. /\ UNCHANGED <<disk, ghosts, clock, at>> /\ job' = [job EXCEPT ![p] = j]
      /\ job[p] = "idle"
  BY DEF Prepare, Deliver, Invoke
<1>2. at[p] = "ready"
  BY <1>1 DEF DataTypes, LockInv, Placed, Place, Hooks, Operations, Recoveries
<1>3. PICK c \in Ctxs : ctx' = [ctx EXCEPT ![p] = c]
  <2>1. CASE Prepare(p, j)
    <3> DEFINE c == [NoCtx EXCEPT !.token = IF ReadInput = NoFile THEN NoFile ELSE ReadInput.epoch,
                       !.revision = Revision(checkpoint), !.known = pending,
                       !.seen = Captured(ReadInput)]
    <3>0. (IF ReadInput = NoFile THEN NoFile ELSE ReadInput.epoch) \in Tokens \cup {NoFile}
      BY Typed DEF Views
    <3>1. c \in Ctxs
      BY <3>0, Typed DEF NoCtx, Ctxs
    <3> QED
      BY <2>1, <3>1 DEF Prepare
  <2>2. CASE Deliver(p, j)
    <3>1. [NoCtx EXCEPT !.raw = receipt] \in Ctxs
      BY Typed DEF NoCtx, Ctxs
    <3> QED
      BY <2>2, <3>1 DEF Deliver
  <2> QED
    BY <2>1, <2>2
<1>4. ~Deciding(job'[p], at'[p])
  BY <1>1, <1>2 DEF Deciding, Unlinking, Undoing
<1>5. \A q \in Procs \ {p} : job'[q] = job[q] /\ at'[q] = at[q]
  BY <1>1 DEF DataTypes, LockInv, LockTypes
<1> QED
  BY <1>1, <1>3, <1>4, <1>5, OwnTypes, Typed DEF disk, ghosts

(* The receipt an interrupt, a resume or a reconciliation derives from a view. *)
Rewrites(v, n, w) ==
  \/ w = [v EXCEPT !.epoch = n, !.interrupted = TRUE]
  \/ w = [v EXCEPT !.epoch = n, !.resume = TRUE]
  \/ w = [v EXCEPT !.epoch = n, !.captured = @ + 1]

LEMMA Rewritten ==
  ASSUME NEW v \in Views, NEW n \in Nat, NEW w, Rewrites(v, n, w)
  PROVE  w \in Receipts /\ w.epoch = n /\ w.fails = v.fails /\ (w.replay <=> v.replay)
<1>1. CASE w = [v EXCEPT !.epoch = n, !.interrupted = TRUE]
  <2>1. w = [epoch |-> n, fails |-> v.fails, replay |-> v.replay, resume |-> v.resume,
             interrupted |-> TRUE, captured |-> v.captured]
    BY <1>1 DEF Views
  <2> QED
    BY <2>1 DEF Views, Receipts
<1>2. CASE w = [v EXCEPT !.epoch = n, !.resume = TRUE]
  <2>1. w = [epoch |-> n, fails |-> v.fails, replay |-> v.replay, resume |-> TRUE,
             interrupted |-> v.interrupted, captured |-> v.captured]
    BY <1>2 DEF Views
  <2> QED
    BY <2>1 DEF Views, Receipts
<1>3. CASE w = [v EXCEPT !.epoch = n, !.captured = @ + 1]
  <2>1. w = [epoch |-> n, fails |-> v.fails, replay |-> v.replay, resume |-> v.resume,
             interrupted |-> v.interrupted, captured |-> v.captured + 1]
    BY <1>3 DEF Views
  <2> QED
    BY <2>1 DEF Views, Receipts
<1> QED
  BY <1>1, <1>2, <1>3 DEF Rewrites

(* Every publication has a new epoch; only a replay clears a quarantine.    *)
LEMMA PublicationFields ==
  ASSUME DataTypes, NEW p \in Procs, at[p] = "publishing", ~NothingToDo(p)
  PROVE  /\ job[p] \in Hooks \cup {"reconcile"}
         /\ Publication(p) \in Receipts /\ Publication(p).epoch = Fresh
         /\ ctx[p].view # NoFile =>
              /\ Publication(p).fails = ctx[p].view.fails
              /\ Publication(p).replay <=> (ctx[p].view.replay /\ job[p] # "replay")
         /\ ctx[p].view = NoFile =>
              /\ Publication(p).fails = IF job[p] = "interrupt" THEN NoMarks ELSE ack
              /\ ~Publication(p).replay /\ job[p] \in {"submit", "replay", "interrupt"}
<1> DEFINE v == ctx[p].view
<1>0. /\ v \in Views \cup {NoFile} /\ Fresh \in Nat /\ ack \in Marks
      /\ NoMarks \in Marks /\ NoFile \notin Views
  BY Typed, NoFileIsNothing DEF Ctxs
<1>1. job[p] \in Hooks \cup {"reconcile"}
  <2>1. Place(job[p], at[p], held[p])
    BY DEF DataTypes, LockInv, Placed
  <2> QED
    BY <2>1 DEF Place, Unlinking, Undoing
<1>2. CASE v = NoFile
  <2>1. job[p] \in {"submit", "replay", "interrupt"}
    <3>1. job[p] = "reconcile" => Deciding(job[p], at[p])
      BY DEF Deciding, Operations
    <3> QED
      BY <1>1, <1>2, <3>1 DEF NothingToDo, DataTypes, Decided, Justified, Hooks
  <2>2. \/ job[p] \in {"submit", "replay"} /\ Publication(p) \in {Submitted(v), Replayed(v)}
        \/ job[p] = "interrupt" /\ Publication(p) = Interrupted(v)
    BY <2>1 DEF Publication
  <2>3. Known(v).fails = ack /\ Captured(v) + 1 = 1
    BY <1>2 DEF Known, Captured, Blank
  <2>4. /\ Submitted(v) = [epoch |-> Fresh, fails |-> ack, replay |-> FALSE, resume |-> FALSE,
                           interrupted |-> FALSE, captured |-> 1]
        /\ Replayed(v) = Submitted(v)
    BY <1>2, <2>3 DEF Submitted, Replayed
  <2>5. CASE job[p] = "interrupt"
    <3>1. Publication(p) = [Blank EXCEPT !.epoch = Fresh, !.interrupted = TRUE]
      BY <1>2, <2>2, <2>5 DEF Interrupted
    <3>2. Publication(p) =
            [epoch |-> Fresh, fails |-> NoMarks, replay |-> FALSE, resume |-> FALSE,
             interrupted |-> TRUE, captured |-> 0]
      BY <3>1 DEF Blank
    <3> QED
      BY <1>0, <1>1, <1>2, <2>5, <3>2 DEF Receipts
  <2>6. CASE job[p] \in {"submit", "replay"}
    <3>1. Publication(p) =
            [epoch |-> Fresh, fails |-> ack, replay |-> FALSE, resume |-> FALSE,
             interrupted |-> FALSE, captured |-> 1]
      BY <2>2, <2>4, <2>6
    <3> QED
      BY <1>0, <1>1, <1>2, <2>6, <3>1 DEF Receipts
  <2> QED
    BY <2>1, <2>5, <2>6
<1>3. CASE v # NoFile
  <2>0. v \in Views
    BY <1>0, <1>3
  <2>1. /\ v.fails \in Marks /\ v.replay \in BOOLEAN /\ v.resume \in BOOLEAN
        /\ v.interrupted \in BOOLEAN /\ v.captured \in Nat
    BY <2>0 DEF Views
  <2>2. Known(v).fails = v.fails /\ Captured(v) + 1 \in Nat
    BY <1>3, <2>1 DEF Known, Captured
  <2>3. CASE job[p] = "submit"
    <3>1. Publication(p) =
            [epoch |-> Fresh, fails |-> v.fails, replay |-> v.replay,
             resume |-> v.replay /\ v.resume, interrupted |-> v.replay /\ v.interrupted,
             captured |-> Captured(v) + 1]
      BY <1>3, <2>1, <2>2, <2>3 DEF Publication, Submitted
    <3> QED
      BY <1>0, <1>1, <1>3, <2>1, <2>2, <2>3, <3>1 DEF Receipts
  <2>4. CASE job[p] = "replay"
    <3>1. Publication(p) =
            [epoch |-> Fresh, fails |-> v.fails, replay |-> FALSE, resume |-> FALSE,
             interrupted |-> FALSE, captured |-> Captured(v) + 1]
      BY <2>2, <2>4 DEF Publication, Replayed
    <3> QED
      BY <1>0, <1>1, <1>3, <2>1, <2>2, <2>4, <3>1 DEF Receipts
  <2>5. CASE job[p] \in {"interrupt", "resume", "reconcile"}
    <3>1. \/ Publication(p) = Interrupted(v)
          \/ Publication(p) = Resumed(v)
          \/ Publication(p) = Reconciled(v)
      BY <2>5 DEF Publication
    <3>2. Interrupted(v) = [v EXCEPT !.epoch = Fresh, !.interrupted = TRUE]
      BY <1>3 DEF Interrupted
    <3>3. Rewrites(v, Fresh, Publication(p))
      BY <3>1, <3>2 DEF Resumed, Reconciled, Rewrites
    <3>4. /\ Publication(p) \in Receipts /\ Publication(p).epoch = Fresh
          /\ Publication(p).fails = v.fails /\ (Publication(p).replay <=> v.replay)
      BY <1>0, <2>0, <3>3, Rewritten
    <3> QED
      BY <1>1, <1>3, <2>5, <3>4
  <2> QED
    BY <1>1, <2>3, <2>4, <2>5 DEF Hooks
<1> QED
  BY <1>2, <1>3

LEMMA Repaused ==
  ASSUME NEW c \in Checkpoints, NEW w, w = [c EXCEPT !.revision = @ + 1, !.paused = TRUE]
  PROVE  w = [epoch |-> c.epoch, revision |-> c.revision + 1, paused |-> TRUE, seen |-> c.seen]
  BY DEF Checkpoints

(* What a commit writes: the next revision, for the input it was decided on. *)
LEMMA NewCheckpointFields ==
  ASSUME DataTypes, NEW p \in Procs, at[p] = "committing"
  PROVE  /\ job[p] \in {"bind", "lift", "pause"} /\ Justified(job[p], ctx[p])
         /\ NewCheckpoint(p) \in Checkpoints
         /\ NewCheckpoint(p).revision = Revision(ctx[p].prior) + 1
         /\ job[p] = "pause" =>
              /\ NewCheckpoint(p).epoch = ctx[p].prior.epoch
              /\ NewCheckpoint(p).seen = ctx[p].prior.seen
              /\ NewCheckpoint(p).paused
         /\ job[p] # "pause" =>
              /\ NewCheckpoint(p).epoch = ctx[p].view.epoch[1]
              /\ NewCheckpoint(p).seen = ctx[p].seen
              /\ NewCheckpoint(p).paused <=>
                   (ctx[p].prior # NoFile /\ ctx[p].prior.paused /\ job[p] # "lift")
<1>0. /\ ctx[p] \in Ctxs /\ ctx[p].prior \in Checkpoints \cup {NoFile}
      /\ ctx[p].view \in Views \cup {NoFile} /\ ctx[p].seen \in Nat
  BY Typed DEF Ctxs
<1>1. job[p] \in {"bind", "lift", "pause"}
  <2>1. Place(job[p], at[p], held[p])
    BY DEF DataTypes, LockInv, Placed
  <2> QED
    BY <2>1 DEF Place, Unlinking, Undoing
<1>2. Justified(job[p], ctx[p])
  BY <1>1 DEF Deciding, Operations, DataTypes, Decided
<1>3. CASE job[p] = "pause"
  <2>1. ctx[p].prior \in Checkpoints /\ ctx[p].prior # NoFile
    BY <1>0, <1>2, <1>3 DEF Justified
  <2>2. NewCheckpoint(p) = [ctx[p].prior EXCEPT !.revision = @ + 1, !.paused = TRUE]
    BY <1>3 DEF NewCheckpoint
  <2>3. NewCheckpoint(p) = [epoch |-> ctx[p].prior.epoch, revision |-> ctx[p].prior.revision + 1,
                            paused |-> TRUE, seen |-> ctx[p].prior.seen]
    BY <2>1, <2>2, Repaused
  <2> QED
    BY <1>1, <1>2, <1>3, <2>1, <2>3 DEF Revision, Checkpoints
<1>4. CASE job[p] # "pause"
  <2>1. ctx[p].view \in Views /\ ctx[p].view.epoch[1] \in Nat
    BY <1>0, <1>2, NoFileIsNothing DEF Justified, Views, Tokens
  <2>2. Revision(ctx[p].prior) \in Nat
    BY <1>0 DEF Revision, Checkpoints
  <2> DEFINE stays == ctx[p].prior # NoFile /\ ctx[p].prior.paused /\ job[p] # "lift"
  <2>3. stays \in BOOLEAN
    BY <1>0 DEF Checkpoints
  <2>4. NewCheckpoint(p) = [epoch |-> ctx[p].view.epoch[1],
                            revision |-> Revision(ctx[p].prior) + 1,
                            paused |-> stays, seen |-> ctx[p].seen]
    BY <1>4 DEF NewCheckpoint
  <2> HIDE DEF stays
  <2>5. NewCheckpoint(p) \in Checkpoints
    BY <1>0, <2>1, <2>2, <2>3, <2>4 DEF Checkpoints
  <2>6. /\ NewCheckpoint(p).revision = Revision(ctx[p].prior) + 1
        /\ NewCheckpoint(p).epoch = ctx[p].view.epoch[1]
        /\ NewCheckpoint(p).seen = ctx[p].seen
        /\ NewCheckpoint(p).paused = stays
    BY <2>4
  <2> QED
    BY <1>1, <1>2, <1>4, <2>5, <2>6 DEF stays
<1> QED
  BY <1>3, <1>4

LEMMA HookTypes ==
  ASSUME DataTypes, LockInv', NEW p \in Procs, Hook(p)
  PROVE  DataTypes'
<1>0. /\ UNCHANGED job
      /\ \A q \in Procs \ {p} : job'[q] = job[q] /\ at'[q] = at[q]
  <2>1. UNCHANGED job /\ \E a : at' = [at EXCEPT ![p] = a]
    BY DEF Hook, EnterHook, RefuseInterrupt, Skip, Publish, DropAck, FailBeforePublish,
           FailPublish, Goto
  <2> QED
    BY <2>1 DEF DataTypes, LockInv, LockTypes
<1>1. CASE EnterHook(p)
  <2>1. PICK c \in Ctxs : ctx' = [ctx EXCEPT ![p] = c]
    <3>1. [ctx[p] EXCEPT !.view = ReadInput] \in Ctxs
      BY Typed DEF Ctxs
    <3> QED
      BY <1>1, <3>1 DEF EnterHook
  <2>2. ~Deciding(job'[p], at'[p])
    BY <1>0, <1>1 DEF EnterHook, Deciding, Hooks, Operations
  <2> QED
    BY <1>0, <1>1, <2>1, <2>2, OwnTypes, Typed DEF EnterHook, disk, ghosts, budget
<1>2. CASE RefuseInterrupt(p) \/ Skip(p) \/ FailBeforePublish(p) \/ FailPublish(p)
  <2>1. ~Deciding(job'[p], at'[p])
    BY <1>2 DEF RefuseInterrupt, Skip, FailBeforePublish, FailPublish, Goto, Deciding, Failed,
                DataTypes, LockInv, LockTypes, Unlinking, Undoing
  <2>2. UNCHANGED <<disk, ghosts, clock, ctx>>
    BY <1>2 DEF RefuseInterrupt, Skip, FailBeforePublish, FailPublish, Fault, budget
  <2> QED
    BY <1>0, <2>1, <2>2, SameCtxTypes, Typed DEF disk, ghosts
<1>3. CASE Publish(p)
  <2>1. /\ at[p] = "publishing" /\ ~NothingToDo(p) /\ receipt' = Publication(p)
        /\ clock' = Fresh /\ at' = [at EXCEPT ![p] = "publishedReceipt"]
        /\ UNCHANGED <<checkpoint, mark, ack, ctx>>
        /\ pending' \subseteq pending /\ bound' \in {bound, checkpoint}
    BY <1>3 DEF Publish, Goto, Tick, ghosts
  <2>2. receipt' \in Receipts
    BY <2>1, PublicationFields
  <2>3. Deciding(job'[p], at'[p]) => Justified(job'[p], ctx[p])
    BY <1>0, <2>1 DEF Deciding, DataTypes, Decided, LockInv, LockTypes
  <2> QED
    BY <1>0, <2>1, <2>2, <2>3, SameCtxTypes, Typed
<1>4. CASE DropAck(p)
  <2>1. /\ ack' = NoMarks /\ UNCHANGED <<receipt, checkpoint, mark, ctx, ghosts, clock>>
    BY <1>4 DEF DropAck, budget
  <2>2. ~Deciding(job'[p], at'[p])
    BY <1>4 DEF DropAck, Goto, Deciding, DataTypes, LockInv, LockTypes, Unlinking, Undoing
  <2> QED
    BY <1>0, <2>1, <2>2, SameCtxTypes, Typed DEF ghosts
<1> QED
  BY <1>1, <1>2, <1>3, <1>4 DEF Hook

LEMMA OperationTypes ==
  ASSUME DataTypes, LockInv', NEW p \in Procs, Operation(p)
  PROVE  DataTypes'
<1>0. /\ UNCHANGED job
      /\ \A q \in Procs \ {p} : job'[q] = job[q] /\ at'[q] = at[q]
  <2>1. UNCHANGED job /\ \E a : at' = [at EXCEPT ![p] = a]
    BY DEF Operation, EnterOperation, View, GiveBack, Recheck, Accept, Decline, Commit, Goto
  <2> QED
    BY <2>1 DEF DataTypes, LockInv, LockTypes
<1>1. CASE EnterOperation(p) \/ Decline(p)
  <2>1. ~Deciding(job'[p], at'[p])
    BY <1>1 DEF EnterOperation, Decline, Goto, Deciding, DataTypes, LockInv, LockTypes,
                Unlinking, Undoing
  <2>2. UNCHANGED <<disk, ghosts, budget, ctx>>
    BY <1>1 DEF EnterOperation, Decline
  <2> QED
    BY <1>0, <2>1, <2>2, SameCtxTypes, Typed DEF disk, ghosts, budget
<1>2. CASE View(p) \/ GiveBack(p)
  <2>1. PICK c \in Ctxs : ctx' = [ctx EXCEPT ![p] = c]
    <3>1. [ctx[p] EXCEPT !.view = ReadInput] \in Ctxs
      BY Typed DEF Ctxs
    <3>2. [ctx[p] EXCEPT !.prior = checkpoint] \in Ctxs
      BY Typed DEF Ctxs
    <3> QED
      BY <1>2, <3>1, <3>2 DEF View, GiveBack
  <2>2. ~Deciding(job'[p], at'[p])
    BY <1>2 DEF View, GiveBack, Goto, Deciding, DataTypes, LockInv, LockTypes,
                Unlinking, Undoing
  <2>3. UNCHANGED <<disk, ghosts, budget>>
    BY <1>2 DEF View, GiveBack
  <2> QED
    BY <1>0, <2>1, <2>2, <2>3, OwnTypes, Typed DEF disk, ghosts, budget
<1>3. CASE Recheck(p)
  <2>1. Justified(job'[p], ctx[p])
    BY <1>0, <1>3, AdmittedIsJustified DEF Recheck
  <2>2. UNCHANGED <<disk, ghosts, budget, ctx>>
    BY <1>3 DEF Recheck
  <2> QED
    BY <1>0, <2>1, <2>2, SameCtxTypes, Typed DEF disk, ghosts, budget
<1>4. CASE Accept(p)
  <2> DEFINE c == [ctx[p] EXCEPT !.raw = receipt, !.ack = ack]
  <2>1. c \in Ctxs /\ ctx' = [ctx EXCEPT ![p] = c]
    <3>1. c \in Ctxs
      BY Typed DEF Ctxs
    <3> QED
      BY <1>4, <3>1 DEF Accept
  <2>2. /\ c.view = ctx[p].view /\ c.prior = ctx[p].prior /\ c.token = ctx[p].token
        /\ c.revision = ctx[p].revision
    BY Typed DEF Ctxs
  <2>3. job[p] \in Operations
    <3>1. Place(job[p], at[p], held[p]) /\ at[p] = "rechecking"
      BY <1>4 DEF Accept, Goto, DataTypes, LockInv, Placed
    <3> QED
      BY <3>1 DEF Place, Unlinking, Undoing
  <2>4. Justified(job[p], ctx[p])
    BY <1>4, <2>3 DEF Accept, Goto, Deciding, DataTypes, Decided
  <2>5. Justified(job'[p], c)
    BY <1>0, <2>2, <2>4 DEF Justified
  <2>6. UNCHANGED <<disk, ghosts, budget>>
    BY <1>4 DEF Accept
  <2> HIDE DEF c
  <2> QED
    BY <1>0, <2>1, <2>5, <2>6, OwnTypes, Typed DEF disk, ghosts, budget
<1>5. CASE Commit(p)
  <2>1. at[p] = "committing" /\ at' = [at EXCEPT ![p] = "leaving"]
    BY <1>5 DEF Commit, Goto
  <2>2. /\ checkpoint' \in {checkpoint, NewCheckpoint(p)}
        /\ bound' \in {bound, NewCheckpoint(p)}
        /\ UNCHANGED <<receipt, mark, ack, ctx, pending, clock>>
    BY <1>5 DEF Commit, Fault, budget
  <2>3. NewCheckpoint(p) \in Checkpoints
    BY <2>1, NewCheckpointFields
  <2>4. ~Deciding(job'[p], at'[p])
    BY <2>1 DEF Deciding, DataTypes, LockInv, LockTypes, Unlinking, Undoing
  <2> QED
    BY <1>0, <2>2, <2>3, <2>4, SameCtxTypes, Typed
<1> QED
  BY <1>1, <1>2, <1>3, <1>4, <1>5 DEF Operation

(* Locals that differ only in how far a retirement has got. *)
SameLocals(c, d) ==
  /\ c.token = d.token /\ c.revision = d.revision /\ c.known = d.known /\ c.seen = d.seen
  /\ c.view = d.view /\ c.prior = d.prior /\ c.raw = d.raw /\ c.ack = d.ack
Progress(p) == \E c \in Ctxs : ctx' = [ctx EXCEPT ![p] = c] /\ SameLocals(c, ctx[p])

LEMMA Progresses ==
  ASSUME DataTypes, NEW p \in Procs,
         \/ ctx' = ctx
         \/ \E x \in BOOLEAN : ctx' = [ctx EXCEPT ![p].acked = x]
         \/ ctx' = [ctx EXCEPT ![p].broken = TRUE]
  PROVE  Progress(p)
<1>0. ctx[p] \in Ctxs /\ ctx \in [Procs -> Ctxs]
  BY DEF DataTypes, FileTypes
<1>1. CASE ctx' = ctx
  BY <1>0, <1>1 DEF Progress, SameLocals
<1>2. ASSUME NEW x \in BOOLEAN, ctx' = [ctx EXCEPT ![p].acked = x]
      PROVE  Progress(p)
  <2> DEFINE c == [ctx[p] EXCEPT !.acked = x]
  <2>1. c \in Ctxs /\ SameLocals(c, ctx[p])
    BY <1>0 DEF Ctxs, SameLocals
  <2> QED
    BY <1>2, <2>1 DEF Progress
<1>3. CASE ctx' = [ctx EXCEPT ![p].broken = TRUE]
  <2> DEFINE c == [ctx[p] EXCEPT !.broken = TRUE]
  <2>1. c \in Ctxs /\ SameLocals(c, ctx[p])
    BY <1>0 DEF Ctxs, SameLocals
  <2> QED
    BY <1>3, <2>1 DEF Progress
<1> QED
  BY <1>1, <1>2, <1>3

(* What a retirement writes. *)
LEMMA RetirementWrites ==
  ASSUME DataTypes, NEW p \in Procs, Retirement(p)
  PROVE  /\ receipt' \in {receipt, NoFile, ctx[p].raw}
         /\ checkpoint' \in {checkpoint, NoFile, ctx[p].prior}
         /\ ack' \in {ack, ctx[p].view.fails, ctx[p].ack}
         /\ bound' \in {bound, NoFile}
         /\ \/ mark' = mark /\ pending' \subseteq pending /\ clock' = clock
            \/ MarkFailure("session") /\ clock' = Fresh
         /\ Progress(p)
<1>4. CASE UnlinkState(p) \/ UnlinkReceipt(p)
  BY <1>4, Progresses DEF UnlinkState, UnlinkReceipt, ghosts, budget
<1>5. CASE Acknowledge(p)
  BY <1>5, Progresses DEF Acknowledge, ghosts, budget
<1>6. CASE Retired(p)
  BY <1>6, Progresses DEF Retired, disk, budget
<1>7. CASE RetireFails(p)
  <2>1. UNCHANGED <<disk, ghosts, clock>>
    BY <1>7 DEF RetireFails, Fault, budget
  <2>2. ctx' = ctx \/ \E x \in BOOLEAN : ctx' = [ctx EXCEPT ![p].acked = x]
    <3>1. ctx[p].acked \in BOOLEAN
      BY Typed DEF Ctxs
    <3>2. ctx' = ctx \/ ctx' = [ctx EXCEPT ![p].acked = ctx[p].acked \/ at[p] = "acknowledging"]
      BY <1>7 DEF RetireFails
    <3> QED
      BY <3>1, <3>2
  <2> QED
    BY <2>1, <2>2, Progresses DEF disk, ghosts
<1>8. CASE UndoAck(p) \/ RestoreState(p) \/ RestoreReceipt(p)
  BY <1>8, Progresses
     DEF UndoAck, RestoreState, RestoreReceipt, Broken, Fault, ghosts, budget
<1>9. CASE Compensated(p)
  BY <1>9, Progresses DEF Compensated, Fault, Tick, budget
<1> QED
  BY <1>4, <1>5, <1>6, <1>7, <1>8, <1>9 DEF Retirement

LEMMA RetirementTypes ==
  ASSUME DataTypes, LockInv', NEW p \in Procs, Retirement(p)
  PROVE  DataTypes'
<1>1. at[p] \in Unlinking \cup Undoing /\ UNCHANGED job /\ \E a : at' = [at EXCEPT ![p] = a]
  BY RetirementMoves
<1>2. \A q \in Procs \ {p} : job'[q] = job[q] /\ at'[q] = at[q]
  BY <1>1 DEF DataTypes, LockInv, LockTypes
<1>3. Justified(job[p], ctx[p])
  <2>1. Place(job[p], at[p], held[p])
    BY DEF DataTypes, LockInv, Placed
  <2>2. job[p] \in Operations
    BY <1>1, <2>1 DEF Place, Unlinking, Undoing, Operations
  <2> QED
    BY <1>1, <2>2 DEF Deciding, DataTypes, Decided
<1>4. Progress(p)
  BY RetirementWrites
<1>5. PICK c \in Ctxs : ctx' = [ctx EXCEPT ![p] = c] /\ SameLocals(c, ctx[p])
  BY <1>4 DEF Progress
<1>6. Justified(job'[p], c)
  BY <1>1, <1>3, <1>5 DEF Justified, SameLocals
<1>7. /\ ctx[p].raw \in Receipts \cup {NoFile} /\ ctx[p].prior \in Checkpoints \cup {NoFile}
      /\ ctx[p].ack \in Marks /\ ctx[p].view.fails \in Marks
  <2>1. ctx[p].view \in Views
    BY <1>3, Typed DEF Justified, Ctxs
  <2> QED
    BY <2>1, Typed DEF Ctxs, Views
<1>8. mark' \in Marks /\ clock' \in Nat /\ pending' \subseteq 1 .. clock'
  BY RetirementWrites, MarkingTypes, Typed
<1>9. /\ receipt' \in Receipts \cup {NoFile} /\ checkpoint' \in Checkpoints \cup {NoFile}
      /\ bound' \in Checkpoints \cup {NoFile} /\ ack' \in Marks
  BY <1>7, RetirementWrites, Typed
<1> QED
  BY <1>2, <1>5, <1>6, <1>8, <1>9, OwnTypes

LEMMA Flagging ==
  ASSUME NEW r \in Receipts, NEW n \in Nat, NEW w, w = [r EXCEPT !.epoch = n, !.replay = TRUE]
  PROVE  w = [epoch |-> n, fails |-> r.fails, replay |-> TRUE, resume |-> r.resume,
              interrupted |-> r.interrupted, captured |-> r.captured]
  BY DEF Receipts

(* A recovery marks what its dead owner may not have captured, on the       *)
(* receipt or, without one, on the session.                                 *)
LEMMA Invalidates ==
  ASSUME DataTypes, NEW p \in Procs, Invalidate(p)
  PROVE  /\ clock' = Fresh /\ pending' = pending \cup {Fresh}
         /\ UNCHANGED <<checkpoint, ack, locks, job, ctx, bound>>
         /\ at[p] = "invalidating"
         /\ \/ /\ receipt # NoFile /\ receipt' \in Receipts /\ UNCHANGED mark
               /\ receipt'.epoch = Fresh /\ receipt'.replay /\ receipt'.fails = receipt.fails
               /\ receipt'.captured = receipt.captured
               /\ at' = [at EXCEPT ![p] = "publishedReceipt"]
            \/ /\ receipt = NoFile /\ UNCHANGED receipt /\ MarkFailure("session")
               /\ at' = [at EXCEPT ![p] = "reclaiming"]
<1>1. CASE receipt # NoFile
  <2>1. /\ receipt \in Receipts /\ Fresh \in Nat
        /\ receipt' = [receipt EXCEPT !.epoch = Fresh, !.replay = TRUE]
    BY <1>1, Typed DEF Invalidate
  <2>2. receipt' = [epoch |-> Fresh, fails |-> receipt.fails, replay |-> TRUE,
                    resume |-> receipt.resume, interrupted |-> receipt.interrupted,
                    captured |-> receipt.captured]
    BY <2>1, Flagging
  <2>3. /\ receipt' \in Receipts /\ receipt'.epoch = Fresh /\ receipt'.replay
        /\ receipt'.fails = receipt.fails /\ receipt'.captured = receipt.captured
    BY <2>1, <2>2 DEF Receipts
  <2> QED
    BY <1>1, <2>3 DEF Invalidate, Tick, Goto
<1>2. CASE receipt = NoFile
  BY <1>2 DEF Invalidate, Tick, Goto, MarkFailure
<1> QED
  BY <1>1, <1>2

LEMMA RecoveryTypes ==
  ASSUME DataTypes, LockInv', NEW p \in Procs, Recovery(p)
  PROVE  DataTypes'
<1>0. /\ UNCHANGED <<job, ctx>>
      /\ \A q \in Procs \ {p} : job'[q] = job[q] /\ at'[q] = at[q]
  <2>1. UNCHANGED <<job, ctx>> /\ \E a : at' = [at EXCEPT ![p] = a]
    BY DEF Recovery, EnterRecovery, EnterInputRecovery, InspectOwner, RereadOwner, Invalidate,
           FailInvalidate, Reclaim, Goto
  <2> QED
    BY <2>1 DEF DataTypes, LockInv, LockTypes
<1>1. job[p] \in Recoveries
  <2>1. Place(job[p], at[p], held[p])
    BY DEF DataTypes, LockInv, Placed
  <2> QED
    BY <2>1, Where DEF Recovery, EnterRecovery, EnterInputRecovery, InspectOwner, RereadOwner,
                  Invalidate, FailInvalidate, Reclaim, Goto, Recoveries
<1>2. ~Deciding(job'[p], at'[p])
  BY <1>0, <1>1 DEF Deciding, Recoveries, Operations
<1>3. CASE Invalidate(p)
  <2>1. /\ clock' = Fresh /\ pending' = pending \cup {Fresh} /\ UNCHANGED <<checkpoint, ack, bound>>
        /\ \/ receipt' \in Receipts /\ UNCHANGED mark
           \/ UNCHANGED receipt /\ MarkFailure("session")
    BY <1>3, Invalidates
  <2>2. receipt' \in Receipts \cup {NoFile} /\ mark' \in Marks
    BY <2>1, MarkingTypes, Typed
  <2>3. clock' \in Nat /\ pending' \subseteq 1 .. clock'
    BY <2>1, Typed DEF Fresh
  <2>4. checkpoint' \in Checkpoints \cup {NoFile} /\ bound' \in Checkpoints \cup {NoFile} /\ ack' \in Marks
    BY <2>1, Typed
  <2> QED
    BY <1>0, <1>2, <2>2, <2>3, <2>4, SameCtxTypes
<1>4. CASE ~Invalidate(p)
  <2>1. UNCHANGED <<disk, ghosts, clock>>
    BY <1>4 DEF Recovery, EnterRecovery, EnterInputRecovery, InspectOwner, RereadOwner,
                FailInvalidate, Reclaim, Fault, budget
  <2> QED
    BY <1>0, <1>2, <2>1, SameCtxTypes, Typed DEF disk, ghosts
<1> QED
  BY <1>3, <1>4

LEMMA ExitingTypes ==
  ASSUME DataTypes, LockInv', NEW p \in Procs, Exiting(p)
  PROVE  DataTypes'
<1>0. /\ \A q \in Procs \ {p} : job'[q] = job[q] /\ at'[q] = at[q]
      /\ ~Deciding(job'[p], at'[p])
  <2>1. \E a \in {"leaving", "failing", "marking", "ready"} : at'[p] = a
    <3>1. \/ at' = at /\ at[p] \in {"leaving", "failing"}
          \/ \E a \in {"leaving", "failing", "marking", "ready"} : at' = [at EXCEPT ![p] = a]
      BY DEF Exiting, GiveUp, Leave, StartMark, Mark, Retain, End, Goto, Failed
    <3> QED
      BY <3>1 DEF DataTypes, LockInv, LockTypes
  <2>2. \A q \in Procs \ {p} : job'[q] = job[q] /\ at'[q] = at[q]
    <3>1. /\ \E a : at' = at \/ at' = [at EXCEPT ![p] = a]
          /\ \E j : job' = job \/ job' = [job EXCEPT ![p] = j]
      BY DEF Exiting, GiveUp, Leave, StartMark, Mark, Retain, End, Goto
    <3> QED
      BY <3>1 DEF DataTypes, LockInv, LockTypes
  <2> QED
    BY <2>1, <2>2 DEF Deciding, Unlinking, Undoing
<1>1. CASE GiveUp(p) \/ Leave(p) \/ StartMark(p) \/ Retain(p)
  <2>1. UNCHANGED <<disk, ghosts, budget, ctx>>
    BY <1>1 DEF GiveUp, Leave, StartMark, Retain
  <2> QED
    BY <1>0, <2>1, SameCtxTypes, Typed DEF disk, ghosts, budget
<1>2. CASE Mark(p)
  <2>1. /\ UNCHANGED <<receipt, checkpoint, ack, ctx, bound>>
        /\ \/ MarkFailure("session") /\ clock' = Fresh
           \/ UNCHANGED <<mark, pending, clock>>
    BY <1>2 DEF Mark, Tick, Fault
  <2>2. mark' \in Marks /\ clock' \in Nat /\ pending' \subseteq 1 .. clock'
    BY <2>1, MarkingTypes, Typed
  <2> QED
    BY <1>0, <2>1, <2>2, SameCtxTypes, Typed
<1>3. CASE End(p)
  <2>1. UNCHANGED <<disk, ghosts, budget>> /\ ctx' = [ctx EXCEPT ![p] = NoCtx]
    BY <1>3 DEF End
  <2> QED
    BY <1>0, <2>1, OwnTypes, Typed DEF disk, ghosts, budget
<1> QED
  BY <1>1, <1>2, <1>3 DEF Exiting

(* A process dies, or exits with the input lock. *)
LEMMA DeathTypes ==
  ASSUME DataTypes, LockInv', NEW p \in Procs, Crash(p) \/ Exit(p)
  PROVE  DataTypes'
<1>1. CASE Crash(p)
  <2>1. /\ ctx' = [ctx EXCEPT ![p] = NoCtx] /\ UNCHANGED <<disk, ghosts, clock>>
        /\ at' = [at EXCEPT ![p] = "ready"] /\ job' = [job EXCEPT ![p] = "idle"]
    BY <1>1 DEF Crash
  <2>2. /\ \A q \in Procs \ {p} : job'[q] = job[q] /\ at'[q] = at[q]
        /\ ~Deciding(job'[p], at'[p])
    BY <2>1 DEF DataTypes, LockInv, LockTypes, Deciding, Unlinking, Undoing
  <2> QED
    BY <2>1, <2>2, OwnTypes, Typed DEF disk, ghosts
<1>2. CASE Exit(p)
  <2>1. UNCHANGED <<disk, ghosts, clock, ctx, job, at>>
    BY <1>2 DEF Exit, budget
  <2>2. Deciding(job'[p], at'[p]) => Justified(job'[p], ctx[p])
    BY <2>1 DEF DataTypes, Decided
  <2> QED
    BY <2>1, <2>2, SameCtxTypes, Typed DEF disk, ghosts
<1> QED
  BY <1>1, <1>2

(* A loss in transport is only marked. *)
LEMMA LossTypes ==
  ASSUME DataTypes, LockInv', TransportLoss \/ UNCHANGED vars
  PROVE  DataTypes'
<1>1. /\ UNCHANGED <<receipt, checkpoint, ack, bound, ctx, job, at>>
      /\ \/ MarkFailure("workspace") /\ clock' = Fresh
         \/ UNCHANGED <<mark, pending, clock>>
  BY DEF TransportLoss, vars, disk, ghosts, budget
<1>2. mark' \in Marks /\ clock' \in Nat /\ pending' \subseteq 1 .. clock'
  BY <1>1, MarkingTypes, Typed
<1>3. FileTypes'
  BY <1>1, <1>2, Typed DEF DataTypes, FileTypes, TypeOK, LockInv, LockTypes
<1>4. Decided'
  BY <1>1 DEF DataTypes, Decided
<1> QED
  BY <1>3, <1>4 DEF DataTypes

LEMMA InitTypes == Init => DataTypes
<1> SUFFICES ASSUME Init PROVE DataTypes
  OBVIOUS
<1>1. FirstReceipt = [epoch |-> 1, fails |-> NoMarks, replay |-> FALSE, resume |-> FALSE,
                      interrupted |-> FALSE, captured |-> 1]
  <2>1. ASSUME NEW w, w = [Blank EXCEPT !.epoch = 1, !.captured = 1]
        PROVE  w = [epoch |-> 1, fails |-> NoMarks, replay |-> FALSE, resume |-> FALSE,
                    interrupted |-> FALSE, captured |-> 1]
    BY <2>1 DEF Blank
  <2> QED
    BY <2>1 DEF FirstReceipt
<1>2. NoMarks \in Marks
  BY DEF NoMarks, Marks
<1>3. FirstReceipt \in Receipts /\ FirstBinding \in Checkpoints
  BY <1>1, <1>2 DEF FirstBinding, Receipts, Checkpoints
<1>4. NoCtx \in Ctxs
  BY <1>2 DEF NoCtx, Ctxs
<1>5. LockInv
  BY InitLocks
<1>6. FileTypes
  BY <1>2, <1>3, <1>4, <1>5 DEF Init, FileTypes, TypeOK, LockInv, LockTypes
<1>7. Decided
  BY DEF Init, Decided, Deciding, Unlinking, Undoing
<1> QED
  BY <1>5, <1>6, <1>7 DEF DataTypes

LEMMA StepTypes == DataTypes /\ [Next]_vars => DataTypes'
<1> SUFFICES ASSUME DataTypes, [Next]_vars PROVE DataTypes'
  OBVIOUS
<1>1. LockInv'
  BY StepLocks DEF DataTypes
<1> QED
  BY <1>1, StartTypes, HookTypes, OperationTypes, RetirementTypes, RecoveryTypes,
     ExitingTypes, DeathTypes, LossTypes DEF Next

LEMMA TypeInvariant == Spec => []DataTypes
  BY InitTypes, StepTypes, PTL DEF Spec

(* The files, the lock files and the locations always have their types.    *)
THEOREM TypeCorrect == Spec => []TypeOK
<1>1. DataTypes => TypeOK
  BY DEF DataTypes, FileTypes
<1> QED
  BY <1>1, TypeInvariant, PTL

(***************************************************************************)
(* Sealed: what a process inside its locks has read is still on disk.      *)
(***************************************************************************)
Acks(c) == ~c.view.replay /\ c.view.fails # NoMarks

(* A process running j at a with locals c, while the receipt is r, the      *)
(* checkpoint k and the acknowledgment x.                                   *)
SealedAt(j, a, c, r, k, x) ==
  /\ j \in Hooks /\ a = "publishing" =>
       IF c.view = NoFile THEN r = NoFile ELSE c.view = Reading(r, x, c.view.fails)
  /\ a = "publishedReceipt" => r # NoFile
  /\ j \in Operations /\ a \in {"deciding", "rechecking"} => k = c.prior
  /\ j \in Operations /\ a \in {"committing", "publishing"} \cup Unlinking \cup Undoing =>
       c.view = Reading(c.raw, c.ack, c.view.fails)
  /\ j \in Operations /\ a \in {"committing", "publishing", "unlinkState"} =>
       k = c.prior /\ r = c.raw /\ x = c.ack
  /\ a = "unlinkReceipt" => k = NoFile /\ r = c.raw /\ x = c.ack
  /\ a = "acknowledging" => k = NoFile /\ r = NoFile /\ x = c.ack
  /\ a = "verifying" =>
       /\ k = NoFile /\ r = NoFile
       /\ x = IF Acks(c) THEN c.view.fails ELSE c.ack
  /\ a \in {"verifying", "undoAck"} => c.acked \/ x = c.ack
  /\ a \in Undoing => k \in {NoFile, c.prior} /\ r \in {NoFile, c.raw}
  /\ a \in {"restoreState", "restoreReceipt", "compensated"} => c.broken \/ x = c.ack
  /\ a \in {"restoreReceipt", "compensated"} => c.broken \/ k = c.prior
  /\ a = "compensated" => c.broken \/ r = c.raw

Sealed == \A p \in Procs : SealedAt(job[p], at[p], ctx[p], receipt, checkpoint, ack)

(* Locations at which a process relies on nothing it has read. *)
Unsealed == {"ready", "leaving", "failing", "marking", "retaining", "gated", "rereading",
             "invalidating", "reclaiming", "viewing", "viewed"}
LEMMA NothingSealed ==
  ASSUME NEW j, NEW a \in Unsealed, NEW c, NEW r, NEW k, NEW x
  PROVE  SealedAt(j, a, c, r, k, x)
  BY DEF SealedAt, Unsealed, Unlinking, Undoing

(* The seal concerns the receipt only under the input lock, or while an     *)
(* input recovery is under way, and the checkpoint only under the state lock. *)
LEMMA SealHolds ==
  ASSUME NEW j, NEW a, NEW h, NEW c, NEW r, NEW k, NEW x, NEW r2, NEW k2, NEW x2,
         Place(j, a, h), SealedAt(j, a, c, r, k, x),
         "input" \in h => r2 = r /\ x2 = x,
         "state" \in h /\ j \in Operations => k2 = k,
         j = "recoverInput" /\ a = "publishedReceipt" => r2 = r
  PROVE  SealedAt(j, a, c, r2, k2, x2)
<1> USE DEF Hooks, Operations, Recoveries, Both, Unlinking, Undoing
<1>1. CASE a \in Unsealed
  BY <1>1, NothingSealed
<1>2. CASE "input" \in h /\ ("state" \notin h \/ j \notin Operations)
  <2>1. r2 = r /\ x2 = x /\ (a \in {"publishing", "publishedReceipt"} \/ a \in Unsealed)
        /\ (a = "publishing" => j \in Hooks)
    BY <1>2 DEF Place, Unsealed
  <2> QED
    BY <1>1, <2>1 DEF SealedAt
<1>3. CASE "input" \in h /\ "state" \in h /\ j \in Operations
  BY <1>3
<1>4. CASE "input" \notin h
  <2>1. \/ a \in Unsealed
        \/ a = "deciding" /\ "state" \in h /\ j \in Operations
        \/ a = "publishedReceipt" /\ j = "recoverInput"
    BY <1>4 DEF Place, Unsealed
  <2> QED
    BY <1>1, <2>1 DEF SealedAt
<1> QED
  BY <1>2, <1>3, <1>4

(* Who writes: the receipt and the acknowledgment change under the input    *)
(* lock or by the recovery of a dead one, the checkpoint under the state    *)
(* lock.                                                                    *)
Writes(p) ==
  /\ <<receipt, ack>>' # <<receipt, ack>> =>
       \/ "input" \in held[p]
       \/ job[p] = "recoverInput" /\ "gate" \in held[p] /\ lock["input"] = DeadPid
  /\ checkpoint' # checkpoint => "state" \in held[p] /\ job[p] \in Operations

Acts(p) ==
  \/ \E j \in Jobs : Prepare(p, j) \/ Deliver(p, j)
  \/ Hook(p) \/ Operation(p) \/ Retirement(p) \/ Recovery(p) \/ Exiting(p)
  \/ Crash(p) \/ Exit(p)

LEMMA WritesUnderLock ==
  ASSUME LockInv, NEW p \in Procs, Acts(p)
  PROVE  Writes(p)
<1>0. Place(job[p], at[p], held[p])
  BY DEF LockInv, Placed
<1>1. CASE UNCHANGED <<receipt, checkpoint, ack>>
  BY <1>1 DEF Writes
<1>2. CASE Publish(p) \/ DropAck(p)
  <2>1. at[p] \in {"publishing", "publishedReceipt"} /\ UNCHANGED checkpoint
    BY <1>2 DEF Publish, DropAck, Goto
  <2>2. "input" \in held[p] \/ (job[p] = "recoverInput" /\ held[p] = {"gate", "state"})
    BY <1>0, <2>1, Where
  <2>3. job[p] = "recoverInput" => at[p] = "publishedReceipt"
    BY <1>0, <2>1, Where DEF Recoveries
  <2> QED
    BY <2>1, <2>2, <2>3 DEF Writes, LockInv, TargetStaysDead, TargetOf, Recoveries
<1>3. CASE Commit(p)
  <2>1. at[p] = "committing" /\ UNCHANGED <<receipt, ack>>
    BY <1>3 DEF Commit, Goto
  <2> QED
    BY <1>0, <2>1 DEF Writes, Place, Both, Operations, Unlinking, Undoing
<1>4. CASE Retirement(p)
  <2>1. at[p] \in Unlinking \cup Undoing
    BY <1>4, RetirementMoves
  <2> QED
    BY <1>0, <2>1 DEF Writes, Place, Both, Operations, Unlinking, Undoing
<1>5. CASE Invalidate(p)
  <2>1. at[p] = "invalidating" /\ UNCHANGED <<checkpoint, ack>>
    BY <1>5 DEF Invalidate, Goto
  <2>2. job[p] = "recoverInput" /\ held[p] = {"gate", "state"}
    BY <1>0, <2>1 DEF Place, Unlinking, Undoing
  <2> QED
    BY <2>1, <2>2 DEF Writes, LockInv, TargetStaysDead, TargetOf, Recoveries
<1>6. CASE \/ \E j \in Jobs : Prepare(p, j) \/ Deliver(p, j)
           \/ Crash(p) \/ Exit(p) \/ Exiting(p)
  BY <1>1, <1>6 DEF Prepare, Deliver, Invoke, Crash, Exit, Exiting, GiveUp, Leave, StartMark,
                    Mark, Retain, End, disk
<1>7. CASE Hook(p) /\ ~Publish(p) /\ ~DropAck(p)
  BY <1>1, <1>7 DEF Hook, EnterHook, RefuseInterrupt, Skip, FailBeforePublish, FailPublish, disk
<1>8. CASE Operation(p) /\ ~Commit(p)
  BY <1>1, <1>8 DEF Operation, EnterOperation, View, GiveBack, Recheck, Accept, Decline, disk
<1>9. CASE Recovery(p) /\ ~Invalidate(p)
  BY <1>1, <1>9 DEF Recovery, EnterRecovery, EnterInputRecovery, InspectOwner, RereadOwner,
                    FailInvalidate, Reclaim, disk
<1> QED
  BY <1>2, <1>3, <1>4, <1>5, <1>6, <1>7, <1>8, <1>9 DEF Acts

(* A step of p changes neither the state of another process nor what that   *)
(* process holds.                                                           *)
LEMMA OthersKeep ==
  ASSUME DataTypes, NEW p \in Procs, Acts(p), NEW q \in Procs, q # p
  PROVE  /\ job'[q] = job[q] /\ at'[q] = at[q] /\ ctx'[q] = ctx[q] /\ held'[q] = held[q]
<1>1. \E j : job' = job \/ job' = [job EXCEPT ![p] = j]
  BY RetirementMoves
     DEF Acts, Prepare, Deliver, Invoke, Hook, EnterHook, RefuseInterrupt, Skip, Publish,
         DropAck, FailBeforePublish, FailPublish, Operation, EnterOperation, View, GiveBack,
         Recheck, Accept, Decline, Commit, Recovery, EnterRecovery,
         EnterInputRecovery, InspectOwner, RereadOwner, Invalidate, FailInvalidate, Reclaim,
         Exiting, GiveUp, Leave, StartMark, Mark, Retain, End, Crash, Exit
<1>2. \E a : at' = at \/ at' = [at EXCEPT ![p] = a]
  BY RetirementMoves
     DEF Acts, Prepare, Deliver, Invoke, Hook, EnterHook, RefuseInterrupt, Skip, Publish,
         DropAck, FailBeforePublish, FailPublish, Operation, EnterOperation, View, GiveBack,
         Recheck, Accept, Decline, Commit, Recovery, EnterRecovery,
         EnterInputRecovery, InspectOwner, RereadOwner, Invalidate, FailInvalidate, Reclaim,
         Exiting, GiveUp, Leave, StartMark, Mark, Retain, End, Crash, Exit, Goto
<1>3. ctx' = ctx \/ \A r \in Procs \ {p} : ctx'[r] = ctx[r]
  <2>1. Retirement(p) => \E c : ctx' = [ctx EXCEPT ![p] = c]
    BY RetirementWrites DEF Progress
  <2>2. \E c : ctx' = ctx \/ ctx' = [ctx EXCEPT ![p] = c]
    BY <2>1
       DEF Acts, Prepare, Deliver, Invoke, Hook, EnterHook, RefuseInterrupt, Skip, Publish,
         DropAck, FailBeforePublish, FailPublish, Operation, EnterOperation, View, GiveBack,
         Recheck, Accept, Decline, Commit, Recovery, EnterRecovery,
         EnterInputRecovery, InspectOwner, RereadOwner, Invalidate, FailInvalidate, Reclaim,
         Exiting, GiveUp, Leave, StartMark, Mark, Retain, End, Crash, Exit
  <2> QED
    BY <2>2 DEF DataTypes, FileTypes
<1>4. \E h : held' = held \/ held' = [held EXCEPT ![p] = h]
  BY RetirementMoves
     DEF Acts, Prepare, Deliver, Invoke, Hook, EnterHook, RefuseInterrupt, Skip, Publish,
         DropAck, FailBeforePublish, FailPublish, Operation, EnterOperation, View, GiveBack,
         Recheck, Accept, Decline, Commit, Recovery, EnterRecovery,
         EnterInputRecovery, InspectOwner, RereadOwner, Invalidate, FailInvalidate, Reclaim,
         Exiting, GiveUp, Leave, StartMark, Mark, Retain, End, Crash, Exit, Hold, LetGo, locks
<1> QED
  BY <1>1, <1>2, <1>3, <1>4 DEF DataTypes, LockInv, LockTypes

LEMMA OthersStaySealed ==
  ASSUME DataTypes, Sealed, NEW p \in Procs, Acts(p), NEW q \in Procs, q # p
  PROVE  SealedAt(job'[q], at'[q], ctx'[q], receipt', checkpoint', ack')
<1>1. Writes(p) /\ LockInv
  BY WritesUnderLock DEF DataTypes
<1>2. Place(job[q], at[q], held[q]) /\ SealedAt(job[q], at[q], ctx[q], receipt, checkpoint, ack)
  BY <1>1 DEF LockInv, Placed, Sealed
<1>3. "input" \in held[q] => receipt' = receipt /\ ack' = ack
  BY <1>1, Exclusive, LockContentsDistinct DEF Writes, LockInv, Owned
<1>4. "state" \in held[q] /\ job[q] \in Operations => checkpoint' = checkpoint
  BY <1>1, Exclusive DEF Writes, LockInv
<1>5. job[q] = "recoverInput" /\ at[q] = "publishedReceipt" => receipt' = receipt
  <2>1. SUFFICES ASSUME job[q] = "recoverInput", at[q] = "publishedReceipt"
                 PROVE  receipt' = receipt
    OBVIOUS
  <2>2. "gate" \in held[q]
    BY <1>2, <2>1 DEF Place, Hooks, Operations, Recoveries
  <2>3. lock["input"] = DeadPid
    BY <1>1, <2>1 DEF LockInv, TargetStaysDead, TargetOf, Recoveries
  <2> QED
    BY <1>1, <2>2, <2>3, Exclusive, LockContentsDistinct DEF Writes, LockInv, Owned
<1>6. SealedAt(job[q], at[q], ctx[q], receipt', checkpoint', ack')
  BY <1>2, <1>3, <1>4, <1>5, SealHolds
<1>7. /\ job'[q] = job[q] /\ at'[q] = at[q] /\ ctx'[q] = ctx[q]
  BY OthersKeep
<1> QED
  BY <1>6, <1>7

(* Each process's own steps. *)
OwnSealed(p) == SealedAt(job[p], at[p], ctx[p], receipt, checkpoint, ack)

LEMMA HookSealed ==
  ASSUME DataTypes, NEW p \in Procs, OwnSealed(p), Hook(p)
  PROVE  OwnSealed(p)'
<1>0. Place(job[p], at[p], held[p]) /\ LockTypes /\ job' = job
  BY DEF DataTypes, LockInv, Placed, Hook, EnterHook, RefuseInterrupt, Skip, Publish, DropAck,
         FailBeforePublish, FailPublish
<1>1. CASE EnterHook(p)
  <2>1. /\ at'[p] = "publishing" /\ job'[p] \in Hooks /\ UNCHANGED disk
        /\ ctx'[p].view = ReadInput
    BY <1>0, <1>1, Typed DEF EnterHook, Goto, LockTypes, DataTypes, FileTypes, Ctxs
  <2>2. IF ReadInput = NoFile THEN receipt = NoFile
        ELSE ReadInput = Reading(receipt, ack, ReadInput.fails)
    BY Typed, ReadInputIs, ReadingFields
  <2> QED
    BY <2>1, <2>2 DEF OwnSealed, SealedAt, disk, Hooks, Operations, Unlinking, Undoing
<1>2. CASE RefuseInterrupt(p) \/ Skip(p) \/ FailBeforePublish(p) \/ FailPublish(p) \/ DropAck(p)
  <2>1. at'[p] \in Unsealed
    BY <1>0, <1>2 DEF RefuseInterrupt, Skip, FailBeforePublish, FailPublish, DropAck, Goto,
                      Failed, LockTypes, Unsealed
  <2> QED
    BY <2>1, NothingSealed DEF OwnSealed
<1>3. CASE Publish(p)
  <2>1. at'[p] = "publishedReceipt" /\ receipt' \in Receipts
    BY <1>0, <1>3, PublicationFields DEF Publish, Goto, LockTypes
  <2> QED
    BY <2>1, NoFileIsNothing DEF OwnSealed, SealedAt, Unlinking, Undoing
<1> QED
  BY <1>1, <1>2, <1>3 DEF Hook

LEMMA OperationSealed ==
  ASSUME DataTypes, NEW p \in Procs, OwnSealed(p), Operation(p)
  PROVE  OwnSealed(p)'
<1>0. Place(job[p], at[p], held[p]) /\ LockTypes /\ job' = job
  BY DEF DataTypes, LockInv, Placed, Operation, EnterOperation, View, GiveBack, Recheck,
         Accept, Decline, Commit
<1>1. CASE EnterOperation(p) \/ View(p) \/ Decline(p) \/ Commit(p)
  <2>1. at'[p] \in Unsealed
    BY <1>0, <1>1 DEF EnterOperation, View, Decline, Commit, Goto, LockTypes, Unsealed
  <2> QED
    BY <2>1, NothingSealed DEF OwnSealed
<1>2. CASE GiveBack(p)
  <2>1. at'[p] = "deciding" /\ ctx'[p].prior = checkpoint /\ checkpoint' = checkpoint
    BY <1>0, <1>2, Typed DEF GiveBack, Goto, LockTypes, disk, DataTypes, FileTypes, Ctxs
  <2> QED
    BY <2>1 DEF OwnSealed, SealedAt, Unlinking, Undoing
<1>3. CASE Recheck(p)
  <2>1. at[p] = "deciding" /\ at'[p] = "rechecking" /\ ctx' = ctx /\ UNCHANGED disk
    BY <1>0, <1>3 DEF Recheck, Goto, LockTypes
  <2> QED
    BY <1>0, <2>1 DEF OwnSealed, SealedAt, disk, Unlinking, Undoing
<1>4. CASE Accept(p)
  <2>1. /\ at[p] = "rechecking" /\ at'[p] \in {"unlinkState", "publishing", "committing"}
        /\ ReadInput = ctx[p].view /\ UNCHANGED disk
    BY <1>0, <1>4 DEF Accept, Goto, Unchanged, LockTypes
  <2>2. /\ ctx'[p].raw = receipt /\ ctx'[p].ack = ack
        /\ ctx'[p].view = ctx[p].view /\ ctx'[p].prior = ctx[p].prior
    BY <1>0, <1>4, Typed DEF Accept, DataTypes, FileTypes, Ctxs
  <2>3. job[p] \in Operations
    BY <1>0, <2>1 DEF Place, Unlinking, Undoing
  <2>4. ctx[p].view # NoFile
    BY <2>1, <2>3 DEF Deciding, DataTypes, Decided, Justified
  <2>5. ctx[p].view = Reading(receipt, ack, ctx[p].view.fails)
    BY <2>1, <2>4, Typed, ReadInputIs, ReadingFields
  <2>6. job[p] \notin Hooks /\ checkpoint = ctx[p].prior
    BY <2>1, <2>3 DEF OwnSealed, SealedAt, Hooks, Operations
  <2> QED
    BY <1>0, <2>1, <2>2, <2>5, <2>6 DEF OwnSealed, SealedAt, disk, Unlinking, Undoing
<1> QED
  BY <1>1, <1>2, <1>3, <1>4 DEF Operation

LEMMA RecoverySealed ==
  ASSUME DataTypes, NEW p \in Procs, OwnSealed(p), Recovery(p)
  PROVE  OwnSealed(p)'
<1>0. LockTypes
  BY DEF DataTypes, LockInv
<1>1. CASE Invalidate(p)
  <2>1. \/ at'[p] = "publishedReceipt" /\ receipt' \in Receipts
        \/ at'[p] \in Unsealed
    BY <1>0, <1>1, Invalidates DEF LockTypes, Unsealed
  <2>2. CASE at'[p] = "publishedReceipt" /\ receipt' \in Receipts
    BY <2>2, NoFileIsNothing DEF OwnSealed, SealedAt, Unlinking, Undoing
  <2> QED
    BY <2>1, <2>2, NothingSealed DEF OwnSealed
<1>2. CASE ~Invalidate(p)
  <2>1. at'[p] \in Unsealed
    BY <1>0, <1>2 DEF Recovery, EnterRecovery, EnterInputRecovery, InspectOwner, RereadOwner,
                      FailInvalidate, Reclaim, Goto, LockTypes, Unsealed
  <2> QED
    BY <2>1, NothingSealed DEF OwnSealed
<1> QED
  BY <1>1, <1>2

LEMMA RestSealed ==
  ASSUME DataTypes, NEW p \in Procs,
         \/ \E j \in Jobs : Prepare(p, j) \/ Deliver(p, j)
         \/ Exiting(p) \/ Crash(p) \/ Exit(p)
  PROVE  OwnSealed(p)'
<1>0. Place(job[p], at[p], held[p]) /\ LockTypes
  BY DEF DataTypes, LockInv, Placed
<1>1. CASE (\E j \in Jobs : Prepare(p, j) \/ Deliver(p, j)) \/ Exit(p)
  <2>1. job[p] = "idle" /\ at' = at
    BY <1>1 DEF Prepare, Deliver, Invoke, Exit
  <2>2. at'[p] \in Unsealed
    BY <1>0, <2>1 DEF Place, Hooks, Operations, Recoveries, Unsealed
  <2> QED
    BY <2>2, NothingSealed DEF OwnSealed
<1>2. CASE Exiting(p) \/ Crash(p)
  <2>1. \/ at' = at /\ at[p] \in {"leaving", "failing"}
        \/ \E a \in {"leaving", "failing", "marking", "ready"} : at' = [at EXCEPT ![p] = a]
    BY <1>2 DEF Exiting, GiveUp, Leave, StartMark, Mark, Retain, End, Goto, Failed, Crash
  <2>2. at'[p] \in Unsealed
    BY <1>0, <2>1 DEF LockTypes, Unsealed
  <2> QED
    BY <2>2, NothingSealed DEF OwnSealed
<1> QED
  BY <1>1, <1>2

LEMMA RetirementSealed ==
  ASSUME DataTypes, NEW p \in Procs, OwnSealed(p), Retirement(p)
  PROVE  OwnSealed(p)'
<1> USE DEF Goto, Unlinking, Undoing
<1>0. /\ job' = job /\ at[p] \in Unlinking \cup Undoing
      /\ at \in [Procs -> Locations] /\ ctx \in [Procs -> Ctxs]
  BY RetirementMoves DEF DataTypes, LockInv, LockTypes, FileTypes
<1>1. job[p] \in Operations /\ job[p] \notin Hooks
  <2>1. Place(job[p], at[p], held[p])
    BY DEF DataTypes, LockInv, Placed
  <2> QED
    BY <1>0, <2>1 DEF Place, Operations, Hooks
<1> DEFINE c == ctx[p]
           d == ctx'[p]
<1>2. d.view = c.view /\ d.raw = c.raw /\ d.prior = c.prior /\ d.ack = c.ack
  <2>1. PICK e \in Ctxs : ctx' = [ctx EXCEPT ![p] = e] /\ SameLocals(e, ctx[p])
    BY RetirementWrites DEF Progress
  <2> QED
    BY <1>0, <2>1 DEF SameLocals
<1>3. c.view = Reading(c.raw, c.ack, c.view.fails)
  BY <1>0, <1>1 DEF OwnSealed, SealedAt
<1>4. CASE UnlinkState(p)
  <2>1. at[p] = "unlinkState" /\ at'[p] = "unlinkReceipt" /\ checkpoint' = NoFile
        /\ receipt' = receipt /\ ack' = ack
    BY <1>0, <1>4 DEF UnlinkState
  <2>2. receipt = c.raw /\ ack = c.ack
    BY <1>1, <2>1 DEF OwnSealed, SealedAt
  <2> QED
    BY <1>0, <1>1, <1>2, <1>3, <2>1, <2>2 DEF OwnSealed, SealedAt
<1>5. CASE UnlinkReceipt(p)
  <2>1. at[p] = "unlinkReceipt" /\ at'[p] = "acknowledging" /\ receipt' = NoFile
        /\ checkpoint' = checkpoint /\ ack' = ack
    BY <1>0, <1>5 DEF UnlinkReceipt
  <2>2. checkpoint = NoFile /\ ack = c.ack
    BY <2>1 DEF OwnSealed, SealedAt
  <2> QED
    BY <1>0, <1>1, <1>2, <1>3, <2>1, <2>2 DEF OwnSealed, SealedAt
<1>6. CASE Acknowledge(p)
  <2>1. at[p] = "acknowledging" /\ at'[p] = "verifying"
        /\ checkpoint' = checkpoint /\ receipt' = receipt
    BY <1>0, <1>6 DEF Acknowledge
  <2>2. checkpoint = NoFile /\ receipt = NoFile /\ ack = c.ack
    BY <2>1 DEF OwnSealed, SealedAt
  <2>3. IF Acks(c) THEN ack' = c.view.fails /\ d.acked ELSE ack' = ack
    BY <1>0, <1>6 DEF Acknowledge, ToAcknowledge, Acks, Ctxs
  <2>4. Acks(d) <=> Acks(c)
    BY <1>2 DEF Acks
  <2> QED
    BY <1>0, <1>1, <1>2, <1>3, <2>1, <2>2, <2>3, <2>4 DEF OwnSealed, SealedAt
<1>7. CASE Retired(p)
  <2>1. at'[p] = "leaving"
    BY <1>0, <1>7 DEF Retired
  <2> QED
    BY <2>1, NothingSealed DEF OwnSealed, Unsealed
<1>8. CASE RetireFails(p)
  <2>1. /\ at[p] \in Unlinking /\ at'[p] = "undoAck" /\ UNCHANGED disk
        /\ at[p] # "acknowledging" => d.acked = c.acked
    BY <1>0, <1>8 DEF RetireFails, Ctxs
  <2>2. /\ checkpoint \in {NoFile, c.prior} /\ receipt \in {NoFile, c.raw}
        /\ at[p] # "verifying" => ack = c.ack
        /\ at[p] = "verifying" => c.acked \/ ack = c.ack
    BY <1>1, <2>1 DEF OwnSealed, SealedAt
  <2>3. d.acked \/ ack = c.ack
    BY <2>1, <2>2
  <2> QED
    BY <1>0, <1>1, <1>2, <1>3, <2>1, <2>2, <2>3 DEF OwnSealed, SealedAt, disk
<1>9. CASE UndoAck(p)
  <2>1. /\ at[p] = "undoAck" /\ at'[p] = "restoreState"
        /\ checkpoint' = checkpoint /\ receipt' = receipt
        /\ d.broken \/ ack' = IF c.acked THEN c.ack ELSE ack
    BY <1>0, <1>9 DEF UndoAck, Broken, Ctxs
  <2>2. /\ checkpoint \in {NoFile, c.prior} /\ receipt \in {NoFile, c.raw}
        /\ c.acked \/ ack = c.ack
    BY <2>1 DEF OwnSealed, SealedAt
  <2>3. d.broken \/ ack' = c.ack
    BY <2>1, <2>2
  <2> QED
    BY <1>0, <1>1, <1>2, <1>3, <2>1, <2>2, <2>3 DEF OwnSealed, SealedAt
<1>10. CASE RestoreState(p)
  <2>1. /\ at[p] = "restoreState" /\ at'[p] = "restoreReceipt"
        /\ receipt' = receipt /\ ack' = ack /\ checkpoint' \in {checkpoint, c.prior}
        /\ d.broken \/ (checkpoint' = c.prior /\ d.broken = c.broken)
    BY <1>0, <1>10 DEF RestoreState, Broken, Ctxs
  <2>2. /\ checkpoint \in {NoFile, c.prior} /\ receipt \in {NoFile, c.raw}
        /\ c.broken \/ ack = c.ack
    BY <2>1 DEF OwnSealed, SealedAt
  <2> QED
    BY <1>0, <1>1, <1>2, <1>3, <2>1, <2>2 DEF OwnSealed, SealedAt
<1>11. CASE RestoreReceipt(p)
  <2>1. /\ at[p] = "restoreReceipt" /\ at'[p] = "compensated"
        /\ checkpoint' = checkpoint /\ ack' = ack /\ receipt' \in {receipt, c.raw}
        /\ d.broken \/ (receipt' = c.raw /\ d.broken = c.broken)
    BY <1>0, <1>11 DEF RestoreReceipt, Broken, Ctxs
  <2>2. /\ checkpoint \in {NoFile, c.prior} /\ receipt \in {NoFile, c.raw}
        /\ c.broken \/ (ack = c.ack /\ checkpoint = c.prior)
    BY <2>1 DEF OwnSealed, SealedAt
  <2> QED
    BY <1>0, <1>1, <1>2, <1>3, <2>1, <2>2 DEF OwnSealed, SealedAt
<1>12. CASE Compensated(p)
  <2>1. at'[p] \in {"leaving", "retaining"}
    BY <1>0, <1>12 DEF Compensated
  <2> QED
    BY <2>1, NothingSealed DEF OwnSealed, Unsealed
<1> QED
  BY <1>4, <1>5, <1>6, <1>7, <1>8, <1>9, <1>10, <1>11, <1>12 DEF Retirement

LEMMA InitSealed == Init => Sealed
  BY NothingSealed DEF Init, Sealed, Unsealed

LEMMA StepSealed == DataTypes /\ Sealed /\ [Next]_vars => Sealed'
<1> SUFFICES ASSUME DataTypes, Sealed, [Next]_vars PROVE Sealed'
  OBVIOUS
<1>1. CASE UNCHANGED vars \/ TransportLoss
  <2>1. UNCHANGED <<receipt, checkpoint, ack, job, at, ctx>>
    BY <1>1 DEF vars, disk, TransportLoss
  <2> QED
    BY <2>1 DEF Sealed
<1>2. ASSUME NEW p \in Procs, Acts(p)
      PROVE  Sealed'
  <2>1. OwnSealed(p)
    BY DEF Sealed, OwnSealed
  <2>2. OwnSealed(p)'
    BY <1>2, <2>1, HookSealed, OperationSealed, RetirementSealed, RecoverySealed, RestSealed
       DEF Acts
  <2>3. ASSUME NEW q \in Procs
        PROVE  SealedAt(job'[q], at'[q], ctx'[q], receipt', checkpoint', ack')
    BY <1>2, <2>2, OthersStaySealed DEF OwnSealed
  <2> QED
    BY <2>3 DEF Sealed
<1> QED
  BY <1>1, <1>2 DEF Next, Acts

LEMMA SealInvariant == Spec => [](DataTypes /\ Sealed)
  BY InitTypes, StepTypes, InitSealed, StepSealed, PTL DEF Spec

(***************************************************************************)
(* Numbered: an epoch names one count of captured inputs.                  *)
(***************************************************************************)
(* The locals c, or a file, associate epoch e with n captured inputs. *)
Saw(c, e, n) ==
  \/ c.raw # NoFile /\ e = c.raw.epoch /\ n = c.raw.captured
  \/ c.view # NoFile /\ e = c.view.epoch[1] /\ n = c.view.captured
  \/ c.token # NoFile /\ e = c.token[1] /\ n = c.seen
  \/ c.prior # NoFile /\ e = c.prior.epoch /\ n = c.prior.seen
OnDisk(r, k, e, n) ==
  \/ e = 0 /\ n = 0
  \/ r # NoFile /\ e = r.epoch /\ n = r.captured
  \/ k # NoFile /\ e = k.epoch /\ n = k.seen
Observes(e, n) == OnDisk(receipt, checkpoint, e, n) \/ \E p \in Procs : Saw(ctx[p], e, n)

Numbered ==
  \A e, n \in Nat :
    Observes(e, n) => e <= clock /\ \A k \in Nat : Observes(e, k) => k = n

(* What one step may add: a new receipt under a new epoch, and copies. *)
NewReceipt == receipt' \in Receipts /\ receipt'.epoch = Fresh /\ clock' = Fresh
Copies(p) ==
  /\ receipt' \in {receipt, NoFile, ctx[p].raw} \/ NewReceipt
  /\ \/ checkpoint' \in {checkpoint, NoFile, ctx[p].prior}
     \/ checkpoint' # NoFile /\ Saw(ctx[p], checkpoint'.epoch, checkpoint'.seen)
  /\ \A e, n : Saw(ctx'[p], e, n) => Saw(ctx[p], e, n) \/ OnDisk(receipt, checkpoint, e, n)
  /\ clock' \in {clock, Fresh}

LEMMA ReadInputSeen ==
  ASSUME DataTypes, ReadInput # NoFile
  PROVE  /\ OnDisk(receipt, checkpoint, ReadInput.epoch[1], ReadInput.captured)
         /\ ReadInput.epoch \in Tokens /\ NoFile # ReadInput.epoch
<1>1. ReadInput \in Views
  BY Typed
<1>2. /\ ReadInput.epoch[1] = IF receipt = NoFile THEN 0 ELSE receipt.epoch
      /\ ReadInput.captured = IF receipt = NoFile THEN 0 ELSE receipt.captured
  BY Typed, ReadInputIs, ReadingFields
<1> QED
  BY <1>1, <1>2, NoFileIsNothing DEF OnDisk, Views

LEMMA EmptySaysNothing == \A e, n : ~Saw(NoCtx, e, n)
  BY DEF Saw, NoCtx

(* Locals that gain one reading of a file. *)
LEMMA StartCopies ==
  ASSUME DataTypes, NEW p \in Procs, NEW j \in Jobs, Prepare(p, j) \/ Deliver(p, j)
  PROVE  Copies(p)
<1>0. ctx \in [Procs -> Ctxs]
  BY DEF DataTypes, FileTypes
<1>1. UNCHANGED <<receipt, checkpoint, clock>>
  BY DEF Prepare, Deliver, Invoke, disk
<1>2. CASE Prepare(p, j)
  <2>1. /\ ctx'[p].raw = NoFile /\ ctx'[p].view = NoFile /\ ctx'[p].prior = NoFile
        /\ ctx'[p].token = IF ReadInput = NoFile THEN NoFile ELSE ReadInput.epoch
        /\ ctx'[p].seen = Captured(ReadInput)
    BY <1>0, <1>2 DEF Prepare, NoCtx
  <2>2. ReadInput # NoFile => Captured(ReadInput) = ReadInput.captured
    BY DEF Captured
  <2> QED
    BY <1>1, <2>1, <2>2, ReadInputSeen DEF Copies, Saw
<1>3. CASE Deliver(p, j)
  <2>1. /\ ctx'[p].raw = receipt /\ ctx'[p].view = NoFile /\ ctx'[p].prior = NoFile
        /\ ctx'[p].token = NoFile
    BY <1>0, <1>3 DEF Deliver, NoCtx
  <2> QED
    BY <1>1, <2>1 DEF Copies, Saw, OnDisk
<1> QED
  BY <1>2, <1>3

LEMMA HookCopies ==
  ASSUME DataTypes, NEW p \in Procs, Hook(p)
  PROVE  Copies(p)
<1>0. ctx \in [Procs -> Ctxs]
  BY DEF DataTypes, FileTypes
<1>1. CASE EnterHook(p)
  <2>1. UNCHANGED <<receipt, checkpoint, clock>> /\ ctx' = [ctx EXCEPT ![p].view = ReadInput]
    BY <1>1 DEF EnterHook, disk, budget
  <2>2. /\ ctx'[p].raw = ctx[p].raw /\ ctx'[p].prior = ctx[p].prior
        /\ ctx'[p].token = ctx[p].token /\ ctx'[p].seen = ctx[p].seen
        /\ ctx'[p].view = ReadInput
    BY <1>0, <2>1 DEF Ctxs
  <2> QED
    BY <2>1, <2>2, ReadInputSeen DEF Copies, Saw
<1>2. CASE Publish(p)
  <2>1. /\ at[p] = "publishing" /\ ~NothingToDo(p) /\ receipt' = Publication(p)
        /\ clock' = Fresh /\ UNCHANGED <<checkpoint, ctx>>
    BY <1>2 DEF Publish, Goto, Tick
  <2>2. NewReceipt
    BY <2>1, PublicationFields DEF NewReceipt
  <2> QED
    BY <2>1, <2>2 DEF Copies
<1>3. CASE ~EnterHook(p) /\ ~Publish(p)
  BY <1>3 DEF Hook, RefuseInterrupt, Skip, DropAck, FailBeforePublish, FailPublish, Fault,
              disk, budget, Copies
<1> QED
  BY <1>1, <1>2, <1>3

LEMMA OperationCopies ==
  ASSUME DataTypes, NEW p \in Procs, Operation(p)
  PROVE  Copies(p)
<1>0. ctx \in [Procs -> Ctxs]
  BY DEF DataTypes, FileTypes
<1>1. CASE View(p)
  <2>1. UNCHANGED <<receipt, checkpoint, clock>> /\ ctx' = [ctx EXCEPT ![p].view = ReadInput]
    BY <1>1 DEF View, disk, budget
  <2>2. /\ ctx'[p].raw = ctx[p].raw /\ ctx'[p].prior = ctx[p].prior
        /\ ctx'[p].token = ctx[p].token /\ ctx'[p].seen = ctx[p].seen
        /\ ctx'[p].view = ReadInput
    BY <1>0, <2>1 DEF Ctxs
  <2> QED
    BY <2>1, <2>2, ReadInputSeen DEF Copies, Saw
<1>2. CASE GiveBack(p)
  <2>1. UNCHANGED <<receipt, checkpoint, clock>> /\ ctx' = [ctx EXCEPT ![p].prior = checkpoint]
    BY <1>2 DEF GiveBack, disk, budget
  <2>2. /\ ctx'[p].raw = ctx[p].raw /\ ctx'[p].view = ctx[p].view
        /\ ctx'[p].token = ctx[p].token /\ ctx'[p].seen = ctx[p].seen
        /\ ctx'[p].prior = checkpoint
    BY <1>0, <2>1 DEF Ctxs
  <2> QED
    BY <2>1, <2>2 DEF Copies, Saw, OnDisk
<1>3. CASE Accept(p)
  <2>1. UNCHANGED <<receipt, checkpoint, clock>>
        /\ ctx' = [ctx EXCEPT ![p].raw = receipt, ![p].ack = ack]
    BY <1>3 DEF Accept, disk, budget
  <2>2. /\ ctx'[p].raw = receipt /\ ctx'[p].view = ctx[p].view
        /\ ctx'[p].token = ctx[p].token /\ ctx'[p].seen = ctx[p].seen
        /\ ctx'[p].prior = ctx[p].prior
    BY <1>0, <2>1 DEF Ctxs
  <2> QED
    BY <2>1, <2>2 DEF Copies, Saw, OnDisk
<1>4. CASE Commit(p)
  <2>1. /\ at[p] = "committing" /\ UNCHANGED <<receipt, ctx, clock>>
        /\ checkpoint' = NewCheckpoint(p) \/ checkpoint' = checkpoint
    BY <1>4 DEF Commit, Goto, Fault, budget
  <2>2. /\ job[p] \in {"bind", "lift", "pause"} /\ Justified(job[p], ctx[p])
        /\ NewCheckpoint(p) \in Checkpoints /\ NewCheckpoint(p) # NoFile
    BY <2>1, NewCheckpointFields, NoFileIsNothing
  <2>3. CASE job[p] = "pause"
    <3>1. /\ NewCheckpoint(p).epoch = ctx[p].prior.epoch
          /\ NewCheckpoint(p).seen = ctx[p].prior.seen
      BY <2>1, <2>3, NewCheckpointFields
    <3>2. Saw(ctx[p], NewCheckpoint(p).epoch, NewCheckpoint(p).seen)
      BY <2>2, <2>3, <3>1 DEF Saw, Justified
    <3> QED
      BY <2>1, <2>2, <3>2 DEF Copies
  <2>4. CASE job[p] # "pause"
    <3>1. /\ NewCheckpoint(p).epoch = ctx[p].view.epoch[1]
          /\ NewCheckpoint(p).seen = ctx[p].seen
      BY <2>1, <2>4, NewCheckpointFields
    <3>2. ctx[p].token = ctx[p].view.epoch /\ ctx[p].view # NoFile
      BY <2>2, <2>4 DEF Justified, Bindable
    <3>3. ctx[p].token # NoFile
      BY <1>0, <3>2, NoFileIsNothing DEF Ctxs, Views
    <3>4. Saw(ctx[p], NewCheckpoint(p).epoch, NewCheckpoint(p).seen)
      BY <3>1, <3>2, <3>3 DEF Saw
    <3> QED
      BY <2>1, <2>2, <3>4 DEF Copies
  <2> QED
    BY <2>3, <2>4
<1>5. CASE EnterOperation(p) \/ Recheck(p) \/ Decline(p)
  BY <1>5 DEF EnterOperation, Recheck, Decline, disk, budget, Copies
<1> QED
  BY <1>1, <1>2, <1>3, <1>4, <1>5 DEF Operation

LEMMA RestCopies ==
  ASSUME DataTypes, NEW p \in Procs,
         Retirement(p) \/ Recovery(p) \/ Exiting(p) \/ Crash(p) \/ Exit(p)
  PROVE  Copies(p)
<1>0. ctx \in [Procs -> Ctxs]
  BY DEF DataTypes, FileTypes
<1>1. CASE Retirement(p)
  <2>1. PICK c \in Ctxs : ctx' = [ctx EXCEPT ![p] = c] /\ SameLocals(c, ctx[p])
    BY <1>1, RetirementWrites DEF Progress
  <2>2. \A e, n : Saw(ctx'[p], e, n) => Saw(ctx[p], e, n)
    BY <1>0, <2>1 DEF SameLocals, Saw
  <2>3. /\ receipt' \in {receipt, NoFile, ctx[p].raw}
        /\ checkpoint' \in {checkpoint, NoFile, ctx[p].prior}
        /\ clock' \in {clock, Fresh}
    BY <1>1, RetirementWrites
  <2> QED
    BY <2>2, <2>3 DEF Copies
<1>2. CASE Recovery(p)
  <2>1. CASE Invalidate(p)
    <3>1. clock' = Fresh /\ UNCHANGED <<checkpoint, ctx>> /\ (receipt' = receipt \/ NewReceipt)
      BY <2>1, Invalidates DEF NewReceipt
    <3> QED
      BY <3>1 DEF Copies
  <2>2. CASE ~Invalidate(p)
    BY <1>2, <2>2 DEF Recovery, EnterRecovery, EnterInputRecovery, InspectOwner, RereadOwner,
                      FailInvalidate, Reclaim, Fault, disk, budget, Copies
  <2> QED
    BY <2>1, <2>2
<1>3. CASE End(p) \/ Crash(p)
  <2>1. UNCHANGED <<receipt, checkpoint, clock>> /\ ctx'[p] = NoCtx
    BY <1>0, <1>3 DEF End, Crash, disk, budget
  <2> QED
    BY <2>1, EmptySaysNothing DEF Copies
<1>4. CASE Exit(p) \/ (Exiting(p) /\ ~End(p))
  BY <1>4 DEF Exit, Exiting, GiveUp, Leave, StartMark, Mark, Retain, Tick, Fault, disk, budget,
              Copies
<1> QED
  BY <1>1, <1>2, <1>3, <1>4 DEF Exiting

LEMMA CopiesKeepNumbers ==
  ASSUME DataTypes, Numbered, NEW p \in Procs, Copies(p),
         \A q \in Procs \ {p} : ctx'[q] = ctx[q]
  PROVE  Numbered'
<1>0. clock \in Nat /\ Fresh = clock + 1 /\ NoFile \notin Receipts
  BY NoFileIsNothing DEF DataTypes, FileTypes, Fresh
<1>1. ASSUME NEW e \in Nat, NEW n \in Nat, Observes(e, n)'
      PROVE  \/ Observes(e, n)
             \/ NewReceipt /\ e = Fresh /\ n = receipt'.captured
  <2>1. CASE \E q \in Procs : Saw(ctx'[q], e, n)
    <3>1. PICK q \in Procs : Saw(ctx'[q], e, n)
      BY <2>1
    <3>2. CASE q = p
      BY <3>1, <3>2 DEF Copies, Observes
    <3>3. CASE q # p
      BY <3>1, <3>3 DEF Observes
    <3> QED
      BY <3>2, <3>3
  <2>2. CASE OnDisk(receipt', checkpoint', e, n)
    <3>1. CASE e = 0 /\ n = 0
      BY <3>1 DEF Observes, OnDisk
    <3>2. CASE receipt' # NoFile /\ e = receipt'.epoch /\ n = receipt'.captured
      <4>1. CASE receipt' = receipt
        BY <3>2, <4>1 DEF Observes, OnDisk
      <4>2. CASE receipt' = ctx[p].raw
        BY <3>2, <4>2 DEF Observes, Saw
      <4>3. CASE NewReceipt
        BY <3>2, <4>3 DEF NewReceipt
      <4> QED
        BY <3>2, <4>1, <4>2, <4>3 DEF Copies
    <3>3. CASE checkpoint' # NoFile /\ e = checkpoint'.epoch /\ n = checkpoint'.seen
      <4>1. CASE checkpoint' = checkpoint
        BY <3>3, <4>1 DEF Observes, OnDisk
      <4>2. CASE checkpoint' = ctx[p].prior
        BY <3>3, <4>2 DEF Observes, Saw
      <4>3. CASE Saw(ctx[p], checkpoint'.epoch, checkpoint'.seen)
        BY <3>3, <4>3 DEF Observes
      <4> QED
        BY <3>3, <4>1, <4>2, <4>3 DEF Copies
    <3> QED
      BY <2>2, <3>1, <3>2, <3>3 DEF OnDisk
  <2> QED
    BY <1>1, <2>1, <2>2 DEF Observes
<1>2. NewReceipt => clock' = Fresh
  BY DEF NewReceipt
<1>3. clock' \in Nat /\ clock' >= clock
  BY <1>0 DEF Copies
<1>4. ASSUME NEW e \in Nat, NEW n \in Nat, Observes(e, n)'
      PROVE  e <= clock' /\ \A k \in Nat : Observes(e, k)' => k = n
  <2>1. CASE Observes(e, n)
    <3>1. e <= clock /\ \A k \in Nat : Observes(e, k) => k = n
      BY <2>1 DEF Numbered
    <3>2. e # Fresh
      BY <1>0, <3>1
    <3> QED
      BY <1>0, <1>1, <1>3, <3>1, <3>2
  <2>2. CASE NewReceipt /\ e = Fresh /\ n = receipt'.captured
    <3>1. \A k \in Nat : ~Observes(e, k)
      BY <1>0, <2>2 DEF Numbered
    <3> QED
      BY <1>0, <1>1, <1>2, <2>2, <3>1
  <2> QED
    BY <1>1, <1>4, <2>1, <2>2
<1> QED
  BY <1>4 DEF Numbered

LEMMA InitNumbered == Init => Numbered
<1> SUFFICES ASSUME Init PROVE Numbered
  OBVIOUS
<1>1. FirstReceipt.epoch = 1 /\ FirstReceipt.captured = 1
  BY DEF FirstReceipt, Blank
<1>2. FirstBinding.epoch = 1 /\ FirstBinding.seen = 1
  BY DEF FirstBinding
<1>3. \A p \in Procs, e, n \in Nat : ~Saw(ctx[p], e, n)
  BY EmptySaysNothing DEF Init
<1>4. \A e, n \in Nat : Observes(e, n) => (e = 0 /\ n = 0) \/ (e = 1 /\ n = 1)
  BY <1>1, <1>2, <1>3 DEF Init, Observes, OnDisk
<1> QED
  BY <1>4 DEF Numbered, Init

LEMMA StepNumbered == DataTypes /\ Numbered /\ [Next]_vars => Numbered'
<1> SUFFICES ASSUME DataTypes, Numbered, [Next]_vars PROVE Numbered'
  OBVIOUS
<1>1. CASE UNCHANGED vars \/ TransportLoss
  <2>1. UNCHANGED <<receipt, checkpoint, ctx>> /\ clock' \in {clock, Fresh}
    BY <1>1 DEF vars, disk, budget, TransportLoss
  <2>2. \A e, n \in Nat : Observes(e, n)' <=> Observes(e, n)
    BY <2>1 DEF Observes
  <2>3. clock \in Nat /\ clock' \in Nat /\ clock' >= clock
    BY <2>1 DEF DataTypes, FileTypes, Fresh
  <2> QED
    BY <2>2, <2>3 DEF Numbered
<1>2. ASSUME NEW p \in Procs, Acts(p)
      PROVE  Numbered'
  <2>1. Copies(p)
    BY <1>2, StartCopies, HookCopies, OperationCopies, RestCopies DEF Acts
  <2>2. \A q \in Procs \ {p} : ctx'[q] = ctx[q]
    BY <1>2, OthersKeep
  <2> QED
    BY <2>1, <2>2, CopiesKeepNumbers
<1> QED
  BY <1>1, <1>2 DEF Next, Acts

(***************************************************************************)
(* What follows.                                                           *)
(***************************************************************************)
Consistent == DataTypes /\ Sealed /\ Numbered

LEMMA ConsistentInvariant == Spec => []Consistent
<1>1. Init => Consistent
  BY InitTypes, InitSealed, InitNumbered DEF Consistent
<1>2. Consistent /\ [Next]_vars => Consistent'
  BY StepTypes, StepSealed, StepNumbered DEF Consistent
<1> QED
  BY <1>1, <1>2, PTL DEF Spec

(* status calls the input reconciled only if the binding was prepared by a  *)
(* caller that had seen every input the receipt has captured.               *)
THEOREM ReconciledWasSeen == Spec => []ReconciledMeansSeen
<1>1. Consistent => ReconciledMeansSeen
  <2>1. SUFFICES ASSUME Consistent, checkpoint # NoFile, ReadInput # NoFile,
                        ~NeedsInput(ReadInput), ReadInput.epoch = Token(checkpoint.epoch, NoMarks)
                 PROVE  checkpoint.seen = receipt.captured
    BY DEF ReconciledMeansSeen
  <2>2. receipt # NoFile /\ ReadInput.epoch[1] = receipt.epoch
    BY <2>1, Typed, ReadInputIs, ReadingFields DEF Consistent, NeedsInput
  <2>3. checkpoint.epoch = receipt.epoch
    BY <2>1, <2>2 DEF Token
  <2>4. /\ receipt.epoch \in Nat /\ receipt.captured \in Nat /\ checkpoint.seen \in Nat
    BY <2>1, <2>2, Typed DEF Consistent, Receipts, Checkpoints
  <2>5. /\ Observes(receipt.epoch, receipt.captured)
        /\ Observes(receipt.epoch, checkpoint.seen)
    BY <2>1, <2>2, <2>3 DEF Observes, OnDisk
  <2> QED
    BY <2>1, <2>4, <2>5 DEF Consistent, Numbered
<1> QED
  BY <1>1, ConsistentInvariant, PTL

(* The three steps that change the checkpoint, and what they find there. *)
LEMMA CheckpointChanges ==
  ASSUME Consistent, NEW p \in Procs, Acts(p), checkpoint' # checkpoint
  PROVE  \/ /\ at[p] = "committing" /\ job[p] \in {"bind", "lift", "pause"}
            /\ checkpoint' = NewCheckpoint(p) /\ receipt' = receipt
            /\ checkpoint = ctx[p].prior /\ receipt = ctx[p].raw
            /\ ctx[p].view = Reading(ctx[p].raw, ctx[p].ack, ctx[p].view.fails)
         \/ at[p] = "unlinkState" /\ checkpoint' = NoFile
         \/ at[p] = "restoreState" /\ checkpoint = NoFile
<1>0. DataTypes /\ SealedAt(job[p], at[p], ctx[p], receipt, checkpoint, ack)
  BY DEF Consistent, Sealed
<1>1. Writes(p)
  BY <1>0, WritesUnderLock DEF DataTypes
<1>2. job[p] \in Operations
  BY <1>1 DEF Writes
<1>3. CASE Commit(p)
  <2>1. at[p] = "committing" /\ checkpoint' = NewCheckpoint(p) /\ receipt' = receipt
    BY <1>3 DEF Commit, Goto
  <2>2. job[p] \in {"bind", "lift", "pause"}
    BY <1>0, <2>1, NewCheckpointFields
  <2> QED
    BY <1>0, <1>2, <2>1, <2>2 DEF SealedAt
<1>4. CASE UnlinkState(p)
  BY <1>4 DEF UnlinkState, Goto
<1>5. CASE RestoreState(p)
  <2>1. at[p] = "restoreState" /\ checkpoint' \in {checkpoint, ctx[p].prior}
    BY <1>5 DEF RestoreState, Goto
  <2>2. checkpoint \in {NoFile, ctx[p].prior}
    BY <1>0, <2>1 DEF SealedAt, Undoing
  <2> QED
    BY <2>1, <2>2
<1>6. CASE Retirement(p) /\ ~UnlinkState(p) /\ ~RestoreState(p)
  BY <1>6 DEF Retirement, UnlinkReceipt, Acknowledge, Retired, RetireFails, UndoAck,
              RestoreReceipt, Compensated, disk
<1>7. CASE ~Commit(p) /\ ~Retirement(p)
  BY <1>7 DEF Acts, Prepare, Deliver, Invoke, Hook, EnterHook, RefuseInterrupt, Skip, Publish,
       DropAck, FailBeforePublish, FailPublish, Operation, EnterOperation, View, GiveBack,
       Recheck, Accept, Decline, Recovery, EnterRecovery, EnterInputRecovery,
       InspectOwner, RereadOwner, Invalidate, FailInvalidate, Reclaim, Exiting, GiveUp, Leave,
       StartMark, Mark, Retain, End, Crash, Exit, disk
<1> QED
  BY <1>3, <1>4, <1>5, <1>6, <1>7

(* A process committing holds both locks, so a change of the checkpoint is  *)
(* its own.                                                                 *)
LEMMA CommitterWrites ==
  ASSUME Consistent, NEW p \in Procs, NEW q \in Procs, Acts(q), checkpoint' # checkpoint,
         at[p] = "committing"
  PROVE  q = p
<1>1. Writes(q) /\ Place(job[p], at[p], held[p]) /\ Owned
  BY WritesUnderLock DEF Consistent, DataTypes, LockInv, Placed
<1>2. "state" \in held[p]
  BY <1>1 DEF Place, Both, Unlinking, Undoing
<1> QED
  BY <1>1, <1>2, Exclusive DEF Writes

(* What a binding commits for: an unflagged receipt, the one on disk. *)
LEMMA BindingBasis ==
  ASSUME Consistent, NEW p \in Procs, at[p] = "committing", job[p] \in {"bind", "lift"},
         receipt = ctx[p].raw,
         ctx[p].view = Reading(ctx[p].raw, ctx[p].ack, ctx[p].view.fails)
  PROVE  receipt # NoFile /\ NewCheckpoint(p).epoch = receipt.epoch
<1>1. /\ Justified(job[p], ctx[p]) /\ NewCheckpoint(p).epoch = ctx[p].view.epoch[1]
  BY NewCheckpointFields DEF Consistent
<1>2. /\ ctx[p].view # NoFile /\ ~ctx[p].view.replay /\ ctx[p].view \in Views
      /\ ctx[p].raw \in Receipts \cup {NoFile} /\ ctx[p].ack \in Marks
  BY <1>1, Typed DEF Consistent, Justified, Bindable, Ctxs
<1>3. ctx[p].view.fails \in Marks
  BY <1>2 DEF Views
<1>4. ctx[p].raw # NoFile /\ ctx[p].view.epoch[1] = ctx[p].raw.epoch
  BY <1>2, <1>3, ReadingFields
<1> QED
  BY <1>1, <1>4

(* A binding reaches the disk only for the receipt that is there: an input  *)
(* published while it was being decided has rejected it.                    *)
THEOREM BindingsAreCurrent == Spec => BindsLatestInput
<1>1. ASSUME Consistent, [Next]_vars, NEW p \in Procs, job[p] \in {"bind", "lift"},
             at[p] = "committing", checkpoint' # checkpoint
      PROVE  receipt # NoFile /\ checkpoint'.epoch = receipt.epoch
  <2>1. PICK q \in Procs : Acts(q)
    BY <1>1 DEF Next, Acts, vars, disk, TransportLoss
  <2>2. q = p
    BY <1>1, <2>1, CommitterWrites
  <2>3. /\ checkpoint' = NewCheckpoint(p) /\ receipt = ctx[p].raw
        /\ ctx[p].view = Reading(ctx[p].raw, ctx[p].ack, ctx[p].view.fails)
    BY <1>1, <2>1, <2>2, CheckpointChanges
  <2> QED
    BY <1>1, <2>3, BindingBasis
<1>2. Consistent /\ [Next]_vars =>
        [\A p \in Procs :
           (job[p] \in {"bind", "lift"} /\ at[p] = "committing" /\ checkpoint' # checkpoint) =>
             receipt # NoFile /\ checkpoint'.epoch = receipt.epoch]_vars
  BY <1>1
<1> QED
  BY <1>2, ConsistentInvariant, PTL DEF Spec, BindsLatestInput

(* Writers of the checkpoint never overwrite each other: a version replaces *)
(* only its direct predecessor.                                             *)
THEOREM RevisionsAreSuccessive == Spec => RevisionsFollow
<1>1. ASSUME Consistent, [Next]_vars, checkpoint # NoFile, checkpoint' # NoFile,
             checkpoint' # checkpoint
      PROVE  checkpoint'.revision = checkpoint.revision + 1
  <2>1. PICK q \in Procs : Acts(q)
    BY <1>1 DEF Next, Acts, vars, disk, TransportLoss
  <2>2. /\ at[q] = "committing" /\ checkpoint' = NewCheckpoint(q)
        /\ checkpoint = ctx[q].prior
    BY <1>1, <2>1, CheckpointChanges
  <2>3. NewCheckpoint(q).revision = Revision(ctx[q].prior) + 1
    BY <1>1, <2>2, NewCheckpointFields DEF Consistent
  <2> QED
    BY <1>1, <2>2, <2>3 DEF Revision
<1>2. Consistent /\ [Next]_vars =>
        [(checkpoint # NoFile /\ checkpoint' # NoFile /\ checkpoint' # checkpoint) =>
           checkpoint'.revision = checkpoint.revision + 1]_vars
  BY <1>1
<1> QED
  BY <1>2, ConsistentInvariant, PTL DEF Spec, RevisionsFollow

(* No retirement deletes captured input that its caller had not seen, and   *)
(* the end of a session deletes none that still needs attention.            *)
THEOREM RetirementsSawInput == Spec => RetiresOnlySeenInput
<1>1. ASSUME Consistent, NEW p \in Procs, at[p] = "unlinkReceipt", receipt # NoFile
      PROVE  \/ /\ job[p] = "sessionEnd" /\ ~receipt.interrupted /\ ~NeedsInput(receipt)
                /\ receipt.captured = ctx[p].view.captured
             \/ receipt.captured = ctx[p].seen
  <2>1. SealedAt(job[p], at[p], ctx[p], receipt, checkpoint, ack) /\ Place(job[p], at[p], held[p])
    BY <1>1 DEF Consistent, DataTypes, LockInv, Placed, Sealed
  <2>2. job[p] \in {"retire", "cancel", "sessionEnd"}
    BY <1>1, <2>1 DEF Place, Unlinking, Undoing
  <2>3. Justified(job[p], ctx[p])
    BY <1>1, <2>2 DEF Consistent, DataTypes, Decided, Deciding, Operations, Unlinking
  <2>4. /\ receipt = ctx[p].raw
        /\ ctx[p].view = Reading(ctx[p].raw, ctx[p].ack, ctx[p].view.fails)
    BY <1>1, <2>1, <2>2 DEF SealedAt, Operations, Unlinking
  <2>5. /\ ctx[p].view # NoFile /\ ctx[p].view \in Views /\ ctx[p].ack \in Marks
        /\ ctx[p].raw \in Receipts /\ ctx[p].seen \in Nat /\ ctx[p].view.fails \in Marks
    BY <1>1, <2>3, <2>4, Typed DEF Consistent, Justified, Ctxs, Views
  <2>6. /\ ctx[p].view.epoch[1] = receipt.epoch /\ ctx[p].view.captured = receipt.captured
        /\ ~ctx[p].view.replay => ~receipt.replay
        /\ ~ctx[p].view.resume => ~receipt.resume
        /\ ~ctx[p].view.interrupted => ~receipt.interrupted
    BY <1>1, <2>4, <2>5, ReadingFields
  <2>7. CASE job[p] = "sessionEnd"
    BY <2>3, <2>6, <2>7 DEF Justified, NeedsInput
  <2>8. CASE job[p] # "sessionEnd"
    <3>1. ctx[p].token = ctx[p].view.epoch
      BY <2>2, <2>3, <2>8 DEF Justified
    <3>2. ctx[p].token # NoFile /\ ctx[p].token[1] = receipt.epoch
      BY <2>5, <2>6, <3>1, NoFileIsNothing DEF Views
    <3>3. Observes(receipt.epoch, receipt.captured) /\ Observes(receipt.epoch, ctx[p].seen)
      BY <1>1, <3>2 DEF Observes, OnDisk, Saw
    <3>4. receipt.epoch \in Nat /\ receipt.captured \in Nat
      BY <2>4, <2>5 DEF Receipts
    <3> QED
      BY <1>1, <2>5, <3>3, <3>4 DEF Consistent, Numbered
  <2> QED
    BY <2>7, <2>8
<1>2. Consistent /\ [Next]_vars =>
        [\A p \in Procs :
           (at[p] = "unlinkReceipt" /\ receipt # NoFile /\ receipt' = NoFile) =>
             \/ /\ job[p] = "sessionEnd" /\ ~receipt.interrupted /\ ~NeedsInput(receipt)
                /\ receipt.captured = ctx[p].view.captured
             \/ receipt.captured = ctx[p].seen]_vars
  BY <1>1
<1> QED
  BY <1>2, ConsistentInvariant, PTL DEF Spec, RetiresOnlySeenInput

-----------------------------------------------------------------------------
(***************************************************************************)
(* The losses: a loss of native input, or a checkpoint that a broken       *)
(* retirement has taken away, never goes unnoticed.                        *)
(*                                                                         *)
(* Dated: every watermark found in a file or in a process's memory was     *)
(* handed out before now, so that a new one differs from all of them and   *)
(* flags whatever a reader finds.  Guarded: a file triple is guarded when  *)
(* it either reads as quarantined or there is nothing to report, and only  *)
(* a replay that knows of every loss can name it.  Safe: the files on disk *)
(* are guarded, unless they are torn by a retirement under way, whose      *)
(* input lock is then still there; what the retirement would put back is   *)
(* guarded too.                                                            *)
(***************************************************************************)

(***************************************************************************)
(* Dated: watermarks and requests are older than the clock.                *)
(***************************************************************************)
Aged(m, n) == m.session <= n /\ m.workspace <= n
Within(c, n) ==
  /\ Aged(c.ack, n)
  /\ c.raw # NoFile => Aged(c.raw.fails, n)
  /\ c.view # NoFile => Aged(c.view.fails, n)
  /\ c.token # NoFile => Aged(c.token[2], n)
Dated ==
  /\ Aged(mark, clock) /\ Aged(ack, clock)
  /\ receipt # NoFile => Aged(receipt.fails, clock)
  /\ \A p \in Procs : Within(ctx[p], clock)

(* Where a step of p gets what it remembers. *)
Requested(p) ==
  \/ /\ ctx'[p].token = ctx[p].token /\ ctx'[p].known = ctx[p].known
     /\ job'[p] = "replay" => job[p] = "replay"
  \/ ctx'[p].token = NoFile /\ job'[p] # "replay"
  \/ /\ ctx'[p].token = IF ReadInput = NoFile THEN NoFile ELSE ReadInput.epoch
     /\ ctx'[p].known = pending /\ UNCHANGED <<disk, ghosts>>
Remembers(p) ==
  /\ ctx'[p].ack \in {ctx[p].ack, NoMarks, ack}
  /\ ctx'[p].raw \in {ctx[p].raw, NoFile, receipt}
  /\ ctx'[p].view \in {ctx[p].view, NoFile, ReadInput}
  /\ Requested(p)

LEMMA Forgetting ==
  ASSUME DataTypes, NEW p \in Procs, ctx'[p] = NoCtx, job'[p] # "replay"
  PROVE  Remembers(p)
  BY DEF Remembers, Requested, NoCtx

LEMMA Remembering ==
  ASSUME DataTypes, NEW p \in Procs, UNCHANGED ctx, job'[p] = job[p]
  PROVE  Remembers(p)
  BY DEF Remembers, Requested

LEMMA StartRemembers ==
  ASSUME DataTypes, NEW p \in Procs, NEW j \in Jobs, Prepare(p, j) \/ Deliver(p, j)
  PROVE  Remembers(p)
<1>0. ctx \in [Procs -> Ctxs] /\ job \in [Procs -> Jobs]
  BY DEF DataTypes, FileTypes, TypeOK
<1>1. CASE Prepare(p, j)
  <2>1. /\ ctx'[p].raw = NoFile /\ ctx'[p].view = NoFile /\ ctx'[p].ack = NoMarks
        /\ ctx'[p].token = IF ReadInput = NoFile THEN NoFile ELSE ReadInput.epoch
        /\ ctx'[p].known = pending
    BY <1>0, <1>1 DEF Prepare, NoCtx
  <2>2. UNCHANGED <<disk, ghosts>>
    BY <1>1 DEF Prepare, Invoke
  <2> QED
    BY <2>1, <2>2 DEF Remembers, Requested
<1>2. CASE Deliver(p, j)
  <2>1. /\ ctx'[p].raw = receipt /\ ctx'[p].view = NoFile /\ ctx'[p].ack = NoMarks
        /\ ctx'[p].token = NoFile
    BY <1>0, <1>2 DEF Deliver, NoCtx
  <2>2. job'[p] # "replay"
    BY <1>0, <1>2 DEF Deliver, Invoke, Recoveries
  <2> QED
    BY <2>1, <2>2 DEF Remembers, Requested
<1> QED
  BY <1>1, <1>2

LEMMA StepRemembers ==
  ASSUME DataTypes, NEW p \in Procs, Acts(p)
  PROVE  Remembers(p)
<1>0. ctx \in [Procs -> Ctxs] /\ ctx[p] \in Ctxs /\ job \in [Procs -> Jobs]
  BY DEF DataTypes, FileTypes, TypeOK
<1>1. CASE \E j \in Jobs : Prepare(p, j) \/ Deliver(p, j)
  BY <1>1, StartRemembers
<1>2. CASE EnterHook(p) \/ View(p)
  <2>1. ctx' = [ctx EXCEPT ![p].view = ReadInput] /\ job' = job
    BY <1>2 DEF EnterHook, View
  <2>2. /\ ctx'[p].raw = ctx[p].raw /\ ctx'[p].ack = ctx[p].ack
        /\ ctx'[p].token = ctx[p].token /\ ctx'[p].known = ctx[p].known
        /\ ctx'[p].view = ReadInput
    BY <1>0, <2>1 DEF Ctxs
  <2> QED
    BY <2>1, <2>2 DEF Remembers, Requested
<1>3. CASE GiveBack(p)
  <2>1. ctx' = [ctx EXCEPT ![p].prior = checkpoint] /\ job' = job
    BY <1>3 DEF GiveBack
  <2>2. /\ ctx'[p].raw = ctx[p].raw /\ ctx'[p].ack = ctx[p].ack
        /\ ctx'[p].token = ctx[p].token /\ ctx'[p].known = ctx[p].known
        /\ ctx'[p].view = ctx[p].view
    BY <1>0, <2>1 DEF Ctxs
  <2> QED
    BY <2>1, <2>2 DEF Remembers, Requested
<1>4. CASE Accept(p)
  <2>1. ctx' = [ctx EXCEPT ![p].raw = receipt, ![p].ack = ack] /\ job' = job
    BY <1>4 DEF Accept
  <2>2. /\ ctx'[p].raw = receipt /\ ctx'[p].ack = ack
        /\ ctx'[p].token = ctx[p].token /\ ctx'[p].known = ctx[p].known
        /\ ctx'[p].view = ctx[p].view
    BY <1>0, <2>1 DEF Ctxs
  <2> QED
    BY <2>1, <2>2 DEF Remembers, Requested
<1>5. CASE Retirement(p)
  <2>1. PICK c \in Ctxs : ctx' = [ctx EXCEPT ![p] = c] /\ SameLocals(c, ctx[p])
    BY <1>5, RetirementWrites DEF Progress
  <2>2. job' = job
    BY <1>5, RetirementMoves
  <2> QED
    BY <1>0, <2>1, <2>2 DEF SameLocals, Remembers, Requested
<1>6. CASE End(p) \/ Crash(p)
  <2>1. ctx'[p] = NoCtx /\ job'[p] = "idle"
    BY <1>0, <1>6 DEF End, Crash
  <2> QED
    BY <2>1, Forgetting
<1>7. CASE Hook(p) /\ ~EnterHook(p)
  <2>1. UNCHANGED <<ctx, job>>
    BY <1>7 DEF Hook, RefuseInterrupt, Skip, Publish, DropAck, FailBeforePublish, FailPublish
  <2> QED
    BY <2>1, Remembering
<1>8. CASE Operation(p) /\ ~View(p) /\ ~GiveBack(p) /\ ~Accept(p)
  <2>1. UNCHANGED <<ctx, job>>
    BY <1>8 DEF Operation, EnterOperation, Recheck, Decline, Commit
  <2> QED
    BY <2>1, Remembering
<1>9. CASE Recovery(p) \/ Exit(p) \/ (Exiting(p) /\ ~End(p))
  <2>1. UNCHANGED <<ctx, job>>
    BY <1>9 DEF Recovery, EnterRecovery, EnterInputRecovery, InspectOwner, RereadOwner,
                Invalidate, FailInvalidate, Reclaim, Exit, Exiting, GiveUp, Leave, StartMark,
                Mark, Retain
  <2> QED
    BY <2>1, Remembering
<1> QED
  BY <1>1, <1>2, <1>3, <1>4, <1>5, <1>6, <1>7, <1>8, <1>9 DEF Acts, Exiting

(* Where a step of p gets the watermarks it writes. *)
Marking == \E scope \in {"session", "workspace"} : MarkFailure(scope) /\ clock' = Fresh
Republished(p) ==
  /\ at[p] = "publishing" /\ ~NothingToDo(p) /\ receipt' = Publication(p) /\ clock' = Fresh
  /\ UNCHANGED <<checkpoint, mark, ack, job, ctx>>
Reflagged == receipt # NoFile /\ receipt' # NoFile /\ receipt'.fails = receipt.fails
Redates(p) ==
  /\ \/ receipt' \in {receipt, NoFile, ctx[p].raw}
     \/ Republished(p)
     \/ Reflagged
  /\ \/ ack' \in {ack, NoMarks, ctx[p].ack}
     \/ ctx[p].view # NoFile /\ ack' = ctx[p].view.fails
  /\ Marking \/ (mark' = mark /\ clock' \in {clock, Fresh})

LEMMA RetiringViews ==
  ASSUME DataTypes, NEW p \in Procs, at[p] \in Unlinking \cup Undoing
  PROVE  /\ job[p] \in {"retire", "cancel", "sessionEnd"} /\ held[p] = Both
         /\ Justified(job[p], ctx[p]) /\ ctx[p].view \in Views
<1>1. Place(job[p], at[p], held[p])
  BY DEF DataTypes, LockInv, Placed
<1>2. job[p] \in {"retire", "cancel", "sessionEnd"} /\ held[p] = Both
  BY <1>1 DEF Place, Unlinking, Undoing
<1>3. Justified(job[p], ctx[p])
  BY <1>2 DEF DataTypes, Decided, Deciding, Operations
<1>4. ctx[p].view \in Views
  BY <1>3, Typed DEF Justified, Ctxs
<1> QED
  BY <1>2, <1>3, <1>4

LEMMA StepRedates ==
  ASSUME DataTypes, NEW p \in Procs, Acts(p)
  PROVE  Redates(p)
<1>1. CASE Publish(p)
  BY <1>1 DEF Publish, Goto, Tick, Redates, Republished
<1>2. CASE DropAck(p)
  BY <1>2 DEF DropAck, budget, Redates
<1>3. CASE Retirement(p)
  <2>1. at[p] \in Unlinking \cup Undoing
    BY <1>3, RetirementMoves
  <2>2. ctx[p].view # NoFile
    BY <2>1, RetiringViews DEF Justified
  <2> QED
    BY <1>3, <2>2, RetirementWrites DEF Redates, Marking
<1>4. CASE Invalidate(p)
  BY <1>4, Invalidates, NoFileIsNothing DEF Redates, Reflagged, Marking
<1>5. CASE Mark(p)
  BY <1>5 DEF Mark, Tick, Fault, Redates, Marking
<1>6. CASE \E j \in Jobs : Prepare(p, j) \/ Deliver(p, j)
  BY <1>6 DEF Prepare, Deliver, Invoke, disk, Redates
<1>7. CASE Hook(p) /\ ~Publish(p) /\ ~DropAck(p)
  BY <1>7 DEF Hook, EnterHook, RefuseInterrupt, Skip, FailBeforePublish, FailPublish, Fault,
              disk, budget, Redates
<1>8. CASE Operation(p)
  BY <1>8 DEF Operation, EnterOperation, View, GiveBack, Recheck, Accept, Decline, Commit,
              Fault, disk, budget, Redates
<1>9. CASE Recovery(p) /\ ~Invalidate(p)
  BY <1>9 DEF Recovery, EnterRecovery, EnterInputRecovery, InspectOwner, RereadOwner,
              FailInvalidate, Reclaim, Fault, disk, budget, Redates
<1>10. CASE Crash(p) \/ Exit(p) \/ (Exiting(p) /\ ~Mark(p))
  BY <1>10 DEF Crash, Exit, Exiting, GiveUp, Leave, StartMark, Retain, End, disk, budget, Redates
<1> QED
  BY <1>1, <1>2, <1>3, <1>4, <1>5, <1>6, <1>7, <1>8, <1>9, <1>10 DEF Acts

LEMMA AgedLater ==
  ASSUME NEW m \in Marks, NEW n \in Nat, Aged(m, n)
  PROVE  Aged(m, n + 1)
  BY DEF Aged, Marks

LEMMA NoMarksAged ==
  ASSUME NEW n \in Nat
  PROVE  NoMarks \in Marks /\ Aged(NoMarks, n)
  BY DEF NoMarks, Marks, Aged

(* A new watermark is one generation ahead of every other. *)
LEMMA MarkingAges ==
  ASSUME DataTypes, Aged(mark, clock), Marking
  PROVE  /\ mark' \in Marks /\ Aged(mark', Fresh) /\ ~Aged(mark', clock)
         /\ pending' = pending \cup {Fresh} /\ clock' = Fresh
<1>1. mark \in Marks /\ clock \in Nat /\ Fresh = clock + 1
  BY Typed DEF Fresh
<1>2. /\ mark' \in Marks /\ pending' = pending \cup {Fresh} /\ clock' = Fresh
      /\ Fresh \in {mark'.session, mark'.workspace}
      /\ {mark'.session, mark'.workspace} \subseteq {mark.session, mark.workspace, Fresh}
  BY MarkingTypes DEF Marking
<1>3. Aged(mark', Fresh)
  BY <1>1, <1>2 DEF Aged, Marks
<1>4. ~Aged(mark', clock)
  BY <1>1, <1>2 DEF Aged, Marks
<1> QED
  BY <1>2, <1>3, <1>4

(* What readers find is no newer than what is on disk. *)
LEMMA ReadingAges ==
  ASSUME DataTypes, Dated, ReadInput # NoFile
  PROVE  Aged(ReadInput.fails, clock) /\ Aged(ReadInput.epoch[2], clock)
<1>1. ReadInput.fails = mark /\ ReadInput.epoch[2] \in {NoMarks, mark}
  BY Typed, ReadInputIs, ReadingFields
<1> QED
  BY <1>1, NoMarksAged, Typed DEF Dated

(* What p remembers after its step is no newer than what was there before. *)
LEMMA RememberedAges ==
  ASSUME DataTypes, Dated, NEW p \in Procs, Remembers(p)
  PROVE  Within(ctx'[p], clock)
<1>1. Within(ctx[p], clock) /\ Aged(ack, clock) /\ Aged(NoMarks, clock)
  BY NoMarksAged, Typed DEF Dated
<1>2. Aged(ctx'[p].ack, clock)
  BY <1>1 DEF Remembers, Within
<1>3. ctx'[p].raw # NoFile => Aged(ctx'[p].raw.fails, clock)
  BY <1>1 DEF Remembers, Within, Dated
<1>4. ctx'[p].view # NoFile => Aged(ctx'[p].view.fails, clock)
  BY <1>1, ReadingAges DEF Remembers, Within
<1>5. ctx'[p].token # NoFile => Aged(ctx'[p].token[2], clock)
  BY <1>1, ReadingAges DEF Remembers, Requested, Within
<1> QED
  BY <1>2, <1>3, <1>4, <1>5 DEF Within

(* So is what p writes, a new watermark apart. *)
LEMMA RewrittenAges ==
  ASSUME DataTypes, Dated, NEW p \in Procs, Redates(p)
  PROVE  /\ Aged(ack', clock)
         /\ receipt' # NoFile => Aged(receipt'.fails, clock)
<1>1. Within(ctx[p], clock) /\ Aged(ack, clock) /\ Aged(NoMarks, clock)
  BY NoMarksAged, Typed DEF Dated
<1>2. Aged(ack', clock)
  BY <1>1 DEF Redates, Within
<1>3. CASE Republished(p)
  <2>1. Publication(p).fails \in {NoMarks, ack, ctx[p].view.fails}
        /\ (ctx[p].view # NoFile => Publication(p).fails = ctx[p].view.fails)
        /\ (ctx[p].view = NoFile => Publication(p).fails \in {NoMarks, ack})
    BY <1>3, PublicationFields DEF Republished
  <2>2. Aged(Publication(p).fails, clock)
    BY <1>1, <2>1 DEF Within
  <2> QED
    BY <1>2, <1>3, <2>2 DEF Republished
<1>4. CASE ~Republished(p)
  BY <1>1, <1>2, <1>4 DEF Redates, Reflagged, Within, Dated
<1> QED
  BY <1>3, <1>4

LEMMA WithinLater ==
  ASSUME NEW c \in Ctxs, NEW n \in Nat, Within(c, n)
  PROVE  Within(c, n + 1)
<1>1. /\ c.ack \in Marks /\ (c.raw # NoFile => c.raw.fails \in Marks)
      /\ (c.view # NoFile => c.view.fails \in Marks)
      /\ (c.token # NoFile => c.token[2] \in Marks)
  BY DEF Ctxs, Receipts, Views, Tokens
<1> QED
  BY <1>1, AgedLater DEF Within

LEMMA StepDated == DataTypes /\ Dated /\ [Next]_vars => Dated'
<1> SUFFICES ASSUME DataTypes, Dated, [Next]_vars PROVE Dated'
  OBVIOUS
<1>1. DataTypes'
  BY StepTypes
<1>2. /\ Aged(ack', clock) /\ (receipt' # NoFile => Aged(receipt'.fails, clock))
      /\ Marking \/ (mark' = mark /\ clock' \in {clock, Fresh})
      /\ \A q \in Procs : Within(ctx'[q], clock)
  <2>1. CASE UNCHANGED vars \/ TransportLoss
    <3>1. /\ UNCHANGED <<receipt, ack, ctx>>
          /\ Marking \/ (mark' = mark /\ clock' \in {clock, Fresh})
      BY <2>1 DEF vars, disk, budget, TransportLoss, Marking
    <3> QED
      BY <3>1 DEF Dated
  <2>2. ASSUME NEW p \in Procs, Acts(p)
        PROVE  /\ Aged(ack', clock) /\ (receipt' # NoFile => Aged(receipt'.fails, clock))
               /\ Marking \/ (mark' = mark /\ clock' \in {clock, Fresh})
               /\ \A q \in Procs : Within(ctx'[q], clock)
    <3>1. /\ Aged(ack', clock) /\ (receipt' # NoFile => Aged(receipt'.fails, clock))
          /\ Marking \/ (mark' = mark /\ clock' \in {clock, Fresh})
      BY <2>2, StepRedates, RewrittenAges DEF Redates
    <3>2. ASSUME NEW q \in Procs PROVE Within(ctx'[q], clock)
      <4>1. CASE q = p
        BY <2>2, <4>1, StepRemembers, RememberedAges
      <4>2. CASE q # p
        BY <2>2, <4>2, OthersKeep DEF Dated
      <4> QED
        BY <4>1, <4>2
    <3> QED
      BY <3>1, <3>2
  <2> QED
    BY <2>1, <2>2 DEF Next, Acts
<1>3. /\ ack' \in Marks /\ mark' \in Marks /\ (receipt' # NoFile => receipt'.fails \in Marks)
      /\ \A q \in Procs : ctx'[q] \in Ctxs
  BY <1>1 DEF DataTypes, FileTypes, TypeOK, Receipts
<1>4. clock \in Nat /\ Fresh = clock + 1 /\ clock' \in {clock, Fresh}
  BY <1>2, Typed DEF Fresh, Marking
<1>5. Aged(mark', clock')
  BY <1>2, <1>3, <1>4, MarkingAges, AgedLater DEF Dated
<1>6. Aged(ack', clock') /\ (receipt' # NoFile => Aged(receipt'.fails, clock'))
  BY <1>2, <1>3, <1>4, AgedLater
<1>7. \A q \in Procs : Within(ctx'[q], clock')
  BY <1>2, <1>3, <1>4, WithinLater
<1> QED
  BY <1>5, <1>6, <1>7 DEF Dated

LEMMA InitDated == Init => Dated
<1> SUFFICES ASSUME Init PROVE Dated
  OBVIOUS
<1>1. clock = 1 /\ mark = NoMarks /\ ack = NoMarks /\ Aged(NoMarks, 1)
  BY NoMarksAged DEF Init
<1>2. receipt # NoFile => receipt.fails = NoMarks
  <2>1. FirstReceipt.fails = NoMarks
    BY DEF FirstReceipt, Blank, NoMarks
  <2> QED
    BY <2>1 DEF Init
<1>3. \A p \in Procs : Within(ctx[p], 1)
  BY <1>1 DEF Init, NoCtx, Within
<1> QED
  BY <1>1, <1>2, <1>3 DEF Dated

(***************************************************************************)
(* Guarded: a receipt r, acknowledgment a and checkpoint c that report      *)
(* what there is to report.                                                *)
(***************************************************************************)
(* While a loss is pending or the checkpoint is not the one owed, the input *)
(* reads as quarantined.                                                   *)
Owed(r, a, c, m, losses, owed) ==
  (losses # {} \/ c # owed) => Reading(r, a, m) # NoFile /\ Reading(r, a, m).replay
(* A replay that names this input knows of every pending loss. *)
Answered(j, c, r, a, m, losses) ==
  (j = "replay" /\ Reading(r, a, m) # NoFile /\ c.token = Reading(r, a, m).epoch) =>
    losses \subseteq c.known
Guarded(r, a, c, m, losses, owed, jobs, locals) ==
  /\ Owed(r, a, c, m, losses, owed)
  /\ \A p \in Procs : Answered(jobs[p], locals[p], r, a, m, losses)

LEMMA AllRequested ==
  ASSUME DataTypes, NEW p \in Procs, Acts(p), NEW q \in Procs
  PROVE  Requested(q)
<1>1. CASE q = p
  BY <1>1, StepRemembers DEF Remembers
<1>2. CASE q # p
  <2>1. job'[q] = job[q] /\ ctx'[q] = ctx[q]
    BY <1>2, OthersKeep
  <2> QED
    BY <2>1 DEF Requested
<1> QED
  BY <1>1, <1>2

(* Whatever is guarded stays so while nothing is lost or settled. *)
LEMMA GuardStays ==
  ASSUME NEW r, NEW a, NEW c, UNCHANGED <<mark, pending, bound>>,
         \A q \in Procs : Requested(q),
         Guarded(r, a, c, mark, pending, bound, job, ctx)
  PROVE  Guarded(r, a, c, mark', pending', bound', job', ctx')
<1>1. Owed(r, a, c, mark', pending', bound')
  BY DEF Guarded, Owed
<1>2. ASSUME NEW q \in Procs
      PROVE  Answered(job'[q], ctx'[q], r, a, mark', pending')
  <2>1. Requested(q) /\ Answered(job[q], ctx[q], r, a, mark, pending)
    BY DEF Guarded
  <2> QED
    BY <2>1 DEF Requested, Answered
<1> QED
  BY <1>1, <1>2 DEF Guarded

(* A new watermark guards every triple there is. *)
LEMMA LossGuards ==
  ASSUME DataTypes, Dated, Marking, NEW r \in Receipts \cup {NoFile}, NEW a \in Marks,
         r # NoFile => Aged(r.fails, clock), Aged(a, clock), NEW c, NEW owed
  PROVE  Guarded(r, a, c, mark', pending', owed, job, ctx)
<1>1. mark' \in Marks /\ ~Aged(mark', clock)
  BY MarkingAges DEF Dated
<1>2. mark' # NoMarks /\ mark' # a /\ (r # NoFile => r.fails # mark')
  BY <1>1, NoMarksAged, Typed
<1>3. Reading(r, a, mark') # NoFile /\ Reading(r, a, mark').replay
  BY <1>1, <1>2, ReadingFields
<1>4. Reading(r, a, mark').epoch = <<IF r = NoFile THEN 0 ELSE r.epoch, mark'>>
  BY <1>1, <1>2, <1>3, ReadingFields
<1>5. Owed(r, a, c, mark', pending', owed)
  BY <1>3 DEF Owed
<1>6. ASSUME NEW q \in Procs PROVE ctx[q].token # Reading(r, a, mark').epoch
  <2>1. ctx[q].token # NoFile => Aged(ctx[q].token[2], clock)
    BY DEF Dated, Within
  <2>2. ctx[q].token = Reading(r, a, mark').epoch => ctx[q].token[2] = mark'
    BY <1>4
  <2>3. Reading(r, a, mark') \in Views
    BY <1>1, <1>3, ReadingFields
  <2>4. Reading(r, a, mark').epoch # NoFile
    BY <2>3, NoFileIsNothing DEF Views
  <2> QED
    BY <1>1, <2>1, <2>2, <2>4
<1>7. \A q \in Procs : Answered(job[q], ctx[q], r, a, mark', pending')
  BY <1>6 DEF Answered
<1> QED
  BY <1>5, <1>7 DEF Guarded

(* A receipt published now has a name no request carries. *)
LEMMA FreshAnswers ==
  ASSUME Consistent, NEW r \in Receipts, r.epoch = Fresh, NEW a \in Marks, NEW losses,
         NEW q \in Procs
  PROVE  Answered(job[q], ctx[q], r, a, mark, losses)
<1>1. Reading(r, a, mark) # NoFile => Reading(r, a, mark).epoch[1] = Fresh
                                     /\ Reading(r, a, mark).epoch # NoFile
  <2>1. r # NoFile /\ mark \in Marks
    BY NoFileIsNothing, Typed DEF Consistent
  <2>2. Reading(r, a, mark) \in Views /\ Reading(r, a, mark).epoch[1] = Fresh
    BY <2>1, ReadingFields
  <2> QED
    BY <2>2, NoFileIsNothing DEF Views
<1>2. ctx[q].token # NoFile => ctx[q].token[1] <= clock
  <2>1. ASSUME ctx[q].token # NoFile PROVE ctx[q].token[1] <= clock
    <3>1. ctx[q].token[1] \in Nat /\ ctx[q].seen \in Nat
      BY <2>1, Typed DEF Consistent, Ctxs, Tokens
    <3>2. Observes(ctx[q].token[1], ctx[q].seen)
      BY <2>1 DEF Observes, Saw
    <3> QED
      BY <3>1, <3>2 DEF Consistent, Numbered
  <2> QED
    BY <2>1
<1>3. clock \in Nat /\ Fresh = clock + 1
  BY Typed DEF Consistent, Fresh
<1> QED
  BY <1>1, <1>2, <1>3 DEF Answered

(* Only a missing receipt makes the acknowledgment matter. *)
LEMMA AckOfNothing ==
  ASSUME NEW r, r # NoFile, NEW a, NEW b, NEW m
  PROVE  Reading(r, a, m) = Reading(r, b, m)
  BY DEF Reading

(***************************************************************************)
(* Torn: a retirement has begun to unlink, and its input lock is there.    *)
(***************************************************************************)
Tearing == {"unlinkReceipt", "acknowledging", "verifying", "retaining"} \cup Undoing
Untorn(j, a, h) ==
  \/ "input" \in h /\ a \notin Tearing
  \/ j = "recoverInput" /\ a \in {"publishedReceipt", "reclaiming"}
Torn == lock["input"] # Absent /\ \A p \in Procs : ~Untorn(job[p], at[p], held[p])

(* The input lock has one holder, or a dead one. *)
LEMMA HolderTears ==
  ASSUME LockInv', NEW p \in Procs, "input" \in held'[p], at'[p] \in Tearing
  PROVE  Torn'
<1>1. lock'["input"] = p /\ p # Absent /\ p # DeadPid
  BY LockContentsDistinct DEF LockInv, Owned
<1>2. ASSUME NEW q \in Procs, Untorn(job'[q], at'[q], held'[q])
      PROVE  FALSE
  <2>1. CASE "input" \in held'[q] /\ at'[q] \notin Tearing
    BY <1>1, <2>1 DEF LockInv, Owned
  <2>2. CASE job'[q] = "recoverInput" /\ at'[q] \in {"publishedReceipt", "reclaiming"}
    BY <1>1, <2>2 DEF LockInv, TargetStaysDead, TargetOf, Recoveries
  <2> QED
    BY <1>2, <2>1, <2>2 DEF Untorn
<1> QED
  BY <1>1, <1>2 DEF Torn

(* Nobody frees the input lock while the files are torn. *)
LEMMA InputStaysLocked ==
  ASSUME LockInv, Torn, NEW p \in Procs, Acts(p)
  PROVE  lock'["input"] # Absent
<1>0. /\ lock["input"] # Absent /\ ~Untorn(job[p], at[p], held[p])
      /\ lock \in [LockFiles -> Procs \cup {Absent, DeadPid}] /\ "input" \in LockFiles
      /\ p # Absent /\ DeadPid # Absent
  BY LockContentsDistinct DEF Torn, LockInv, LockTypes, LockFiles
<1>1. ASSUME NEW l \in LockFiles, Hold(p, l) PROVE lock'["input"] # Absent
  BY <1>0, <1>1 DEF Hold
<1>2. CASE Leave(p)
  <2>1. at[p] \in {"leaving", "failing"} /\ LetGo(p, Innermost(held[p]))
    BY <1>2 DEF Leave
  <2>2. "input" \notin held[p]
    BY <1>0, <2>1 DEF Untorn, Tearing, Undoing
  <2>3. Innermost(held[p]) # "input"
    BY <2>2 DEF Innermost
  <2> QED
    BY <1>0, <2>1, <2>3 DEF LetGo
<1>3. CASE GiveBack(p)
  <2>1. at[p] = "viewed" /\ "input" \in held[p]
    BY <1>3 DEF GiveBack, Goto, LetGo
  <2> QED
    BY <1>0, <2>1 DEF Untorn, Tearing, Undoing
<1>4. CASE Reclaim(p)
  <2>1. at[p] = "reclaiming" /\ lock' = [lock EXCEPT ![TargetOf(p)] = Absent]
    BY <1>4 DEF Reclaim, Goto
  <2>2. TargetOf(p) # "input"
    BY <1>0, <2>1 DEF TargetOf, Untorn
  <2> QED
    BY <1>0, <2>1, <2>2
<1>5. CASE Crash(p) \/ Exit(p)
  <2>1. lock' = Orphaned(p)
    BY <1>5 DEF Crash, Exit
  <2> QED
    BY <1>0, <2>1 DEF Orphaned
<1>6. CASE EnterHook(p) \/ EnterOperation(p) \/ View(p) \/ Recheck(p) \/ EnterRecovery(p)
           \/ EnterInputRecovery(p)
  <2>1. \E l \in LockFiles : Hold(p, l)
    BY <1>6 DEF EnterHook, EnterOperation, View, Recheck, EnterRecovery, EnterInputRecovery,
                LockFiles
  <2> QED
    BY <1>1, <2>1
<1>7. CASE \/ \E j \in Jobs : Prepare(p, j) \/ Deliver(p, j)
           \/ (Exiting(p) /\ ~Leave(p))
  BY <1>0, <1>7 DEF Prepare, Deliver, Invoke, Exiting, GiveUp, StartMark, Mark, Retain, End, locks
<1>8. CASE Hook(p) /\ ~EnterHook(p)
  BY <1>0, <1>8 DEF Hook, RefuseInterrupt, Skip, Publish, DropAck, FailBeforePublish,
                    FailPublish, locks
<1>9. CASE Operation(p) /\ ~(EnterOperation(p) \/ View(p) \/ GiveBack(p) \/ Recheck(p))
  BY <1>0, <1>9 DEF Operation, Accept, Decline, Commit, locks
<1>10. CASE Retirement(p)
  BY <1>0, <1>10, RetirementMoves DEF locks
<1>11. CASE Recovery(p) /\ ~(EnterRecovery(p) \/ EnterInputRecovery(p) \/ Reclaim(p))
  BY <1>0, <1>11 DEF Recovery, InspectOwner, RereadOwner, Invalidate, FailInvalidate, locks
<1> QED
  BY <1>2, <1>3, <1>4, <1>5, <1>6, <1>7, <1>8, <1>9, <1>10, <1>11 DEF Acts, Exiting

(* Torn files stay torn but for a step of a retirement, or of the recovery  *)
(* that flags them.                                                         *)
LEMMA TornStays ==
  ASSUME DataTypes, Torn, NEW p \in Procs, Acts(p), ~Retirement(p), ~Invalidate(p)
  PROVE  Torn'
<1>0. /\ lock["input"] # Absent /\ ~Untorn(job[p], at[p], held[p])
      /\ LockInv /\ LockTypes /\ Place(job[p], at[p], held[p])
  BY DEF Torn, DataTypes, LockInv, Placed
<1>1. lock'["input"] # Absent
  BY <1>0, InputStaysLocked
<1>2. "input" \in held[p] => Retain(p) \/ Crash(p)
  <2>1. SUFFICES ASSUME "input" \in held[p] PROVE Retain(p) \/ Crash(p)
    OBVIOUS
  <2>2. at[p] \in Tearing /\ job[p] # "idle"
    BY <1>0, <2>1 DEF Untorn, Place, Hooks, Operations, Recoveries
  <2> QED
    BY <2>2 DEF Acts, Prepare, Deliver, Invoke, Hook, EnterHook, RefuseInterrupt, Skip, Publish,
         DropAck, FailBeforePublish, FailPublish, Operation, EnterOperation, View, GiveBack,
         Recheck, Accept, Decline, Commit, Recovery, EnterRecovery, EnterInputRecovery,
         InspectOwner, RereadOwner, FailInvalidate, Reclaim, Exiting, GiveUp, Waiting, Leave,
         StartMark, Mark, End, Exit, Goto, Tearing, Undoing
<1>3. Retain(p) \/ Crash(p) => "input" \notin held'[p]
  BY <1>0 DEF Retain, Crash, LockTypes
<1>4. "input" \notin held[p] => "input" \notin held'[p]
  <2>1. ASSUME NEW l, Hold(p, l) PROVE held'[p] = held[p] \cup {l} /\ l # "input"
    BY <1>0, <2>1 DEF Hold, LockTypes
  <2>2. ASSUME NEW l, LetGo(p, l) PROVE held'[p] \subseteq held[p]
    BY <1>0, <2>2 DEF LetGo, LockTypes
  <2>3. CASE EnterHook(p) \/ EnterOperation(p) \/ View(p) \/ Recheck(p) \/ EnterRecovery(p)
             \/ EnterInputRecovery(p)
    BY <2>1, <2>3 DEF EnterHook, EnterOperation, View, Recheck, EnterRecovery, EnterInputRecovery
  <2>4. CASE Leave(p) \/ GiveBack(p)
    BY <2>2, <2>4 DEF Leave, GiveBack
  <2>5. CASE Retain(p) \/ Crash(p)
    BY <1>3, <2>5
  <2>6. CASE ~(EnterHook(p) \/ EnterOperation(p) \/ View(p) \/ Recheck(p) \/ EnterRecovery(p)
              \/ EnterInputRecovery(p) \/ Leave(p) \/ GiveBack(p) \/ Retain(p) \/ Crash(p))
    BY <2>6 DEF Acts, Prepare, Deliver, Invoke, Hook, RefuseInterrupt, Skip, Publish,
         DropAck, FailBeforePublish, FailPublish, Operation, Accept, Decline, Commit, Recovery,
         InspectOwner, RereadOwner, FailInvalidate, Reclaim, Exiting, GiveUp, StartMark, Mark,
         End, Exit, locks
  <2> QED
    BY <2>3, <2>4, <2>5, <2>6
<1>5. ~(job'[p] = "recoverInput" /\ at'[p] \in {"publishedReceipt", "reclaiming"})
  <2>1. CASE \E j \in Jobs : Prepare(p, j) \/ Deliver(p, j)
    <3>1. at'[p] = at[p] /\ job[p] = "idle"
      BY <2>1 DEF Prepare, Deliver, Invoke
    <3>2. at[p] = "ready"
      BY <1>0, <3>1 DEF Place, Hooks, Operations, Recoveries
    <3> QED
      BY <3>1, <3>2
  <2>2. CASE Publish(p)
    <3>1. job[p] \in Hooks \cup {"reconcile"} /\ job' = job
      BY <2>2, PublicationFields DEF Publish, Goto
    <3> QED
      BY <3>1 DEF Hooks
  <2>3. CASE DropAck(p)
    BY <1>0, <2>3 DEF DropAck, Goto, Untorn
  <2>4. CASE RereadOwner(p)
    BY <1>0, <2>4 DEF RereadOwner, Goto, LockTypes
  <2>5. CASE Crash(p) \/ End(p)
    BY <1>0, <2>5 DEF Crash, End, LockTypes
  <2>6. CASE (Hook(p) \/ Operation(p)) /\ ~Publish(p) /\ ~DropAck(p)
    BY <1>0, <2>6 DEF Hook, EnterHook, RefuseInterrupt, Skip, FailBeforePublish, FailPublish,
         Failed, Operation, EnterOperation, View, GiveBack, Recheck, Accept, Decline, Commit,
         Goto, LockTypes
  <2>7. CASE (Exiting(p) \/ Exit(p)) /\ ~End(p)
    BY <1>0, <2>7 DEF Exiting, GiveUp, Failed, Leave, StartMark, Mark, Retain, Exit, Goto,
         LockTypes, Untorn
  <2>8. CASE Recovery(p) /\ ~RereadOwner(p)
    BY <1>0, <2>8 DEF Recovery, EnterRecovery, EnterInputRecovery, InspectOwner, FailInvalidate,
         Reclaim, Goto, LockTypes, Untorn
  <2> QED
    BY <2>1, <2>2, <2>3, <2>4, <2>5, <2>6, <2>7, <2>8 DEF Acts
<1>6. ASSUME NEW q \in Procs PROVE ~Untorn(job'[q], at'[q], held'[q])
  <2>1. CASE q = p
    BY <1>2, <1>3, <1>4, <1>5, <2>1 DEF Untorn
  <2>2. CASE q # p
    <3>1. job'[q] = job[q] /\ at'[q] = at[q] /\ held'[q] = held[q]
      BY <2>2, OthersKeep
    <3> QED
      BY <3>1 DEF Torn
  <2> QED
    BY <2>1, <2>2
<1> QED
  BY <1>1, <1>6 DEF Torn

(***************************************************************************)
(* Safe: what the disk says, and what a retirement would put back.         *)
(***************************************************************************)
Kept == Guarded(receipt, ack, checkpoint, mark, pending, bound, job, ctx)
(* No pending loss is among these watermarks. *)
Clean(m, losses) == losses \cap {m.session, m.workspace} = {}
(* The request of a replay knows the losses its token names. *)
Remembered(j, c, losses) ==
  /\ Clean(c.ack, losses)
  /\ j = "replay" /\ c.token # NoFile =>
       losses \cap {c.token[2].session, c.token[2].workspace} \subseteq c.known
Backup(c) ==
  /\ Guarded(c.raw, c.ack, c.prior, mark, pending, bound, job, ctx)
  /\ ~c.view.replay => Clean(c.view.fails, pending)
Retractable == \A p \in Procs : at[p] \in Unlinking \cup Undoing => Backup(ctx[p])
Safe ==
  /\ Kept \/ Torn
  /\ Clean(ack, pending)
  /\ \A p \in Procs : Remembered(job[p], ctx[p], pending)
  /\ Retractable
Sound == Consistent /\ Dated /\ Safe

(* What a step does to the losses and to the checkpoint owed. *)
Quiet == UNCHANGED <<mark, pending, bound>>
Loses == Marking /\ UNCHANGED <<receipt, checkpoint, ack, job, ctx, bound>>
Settles(p) ==
  \/ Publish(p) \/ Commit(p) \/ Retired(p) \/ (Invalidate(p) /\ receipt # NoFile)

LEMMA StepKinds ==
  ASSUME DataTypes, NEW p \in Procs, Acts(p)
  PROVE  Quiet \/ Loses \/ Settles(p)
<1>1. CASE Mark(p)
  BY <1>1 DEF Mark, Tick, Fault, Quiet, Loses, Marking
<1>2. CASE Compensated(p)
  BY <1>2 DEF Compensated, Tick, Quiet, Loses, Marking
<1>3. CASE Invalidate(p)
  BY <1>3, Invalidates DEF Settles, Loses, Marking
<1>4. CASE Retirement(p) /\ ~Compensated(p) /\ ~Retired(p)
  BY <1>4 DEF Retirement, UnlinkState, UnlinkReceipt, Acknowledge, RetireFails, UndoAck,
              RestoreState, RestoreReceipt, disk, ghosts, Quiet
<1>5. CASE \E j \in Jobs : Prepare(p, j) \/ Deliver(p, j)
  BY <1>5 DEF Prepare, Deliver, Invoke, disk, ghosts, Quiet
<1>6. CASE Hook(p) /\ ~Publish(p)
  BY <1>6 DEF Hook, EnterHook, RefuseInterrupt, Skip, DropAck, FailBeforePublish, FailPublish,
              disk, ghosts, Quiet
<1>7. CASE Operation(p) /\ ~Commit(p)
  BY <1>7 DEF Operation, EnterOperation, View, GiveBack, Recheck, Accept, Decline,
              disk, ghosts, Quiet
<1>8. CASE Recovery(p) /\ ~Invalidate(p)
  BY <1>8 DEF Recovery, EnterRecovery, EnterInputRecovery, InspectOwner, RereadOwner,
              FailInvalidate, Reclaim, disk, ghosts, Quiet
<1>9. CASE Crash(p) \/ Exit(p) \/ (Exiting(p) /\ ~Mark(p))
  BY <1>9 DEF Crash, Exit, Exiting, GiveUp, Leave, StartMark, Retain, End, disk, ghosts, Quiet
<1>10. CASE Publish(p) \/ Commit(p) \/ Retired(p)
  BY <1>10 DEF Settles
<1> QED
  BY <1>1, <1>2, <1>3, <1>4, <1>5, <1>6, <1>7, <1>8, <1>9, <1>10 DEF Acts

LEMMA LossesGrow ==
  ASSUME DataTypes, Dated, NEW p \in Procs, Acts(p)
  PROVE  pending' \subseteq pending \cup {Fresh}
<1>1. CASE Quiet
  BY <1>1 DEF Quiet
<1>2. CASE Loses
  BY <1>2, MarkingAges DEF Loses, Dated
<1>3. CASE Settles(p)
  <2>1. CASE Invalidate(p)
    BY <2>1, Invalidates
  <2>2. CASE Publish(p) \/ Commit(p) \/ Retired(p)
    BY <2>2 DEF Publish, Commit, Retired, ghosts
  <2> QED
    BY <1>3, <2>1, <2>2 DEF Settles
<1> QED
  BY <1>1, <1>2, <1>3, StepKinds

LEMMA CleanStays ==
  ASSUME NEW m \in Marks, NEW n \in Nat, Aged(m, n), NEW losses, NEW more,
         more \subseteq losses \cup {n + 1}
  PROVE  more \cap {m.session, m.workspace} \subseteq losses \cap {m.session, m.workspace}
<1>1. m.session # n + 1 /\ m.workspace # n + 1
  BY DEF Aged, Marks
<1> QED
  BY <1>1

LEMMA NothingClean ==
  ASSUME NEW n \in Nat, NEW losses, losses \subseteq 1 .. n
  PROVE  Clean(NoMarks, losses)
  BY DEF Clean, NoMarks

(* Watermarks that no pending loss names stay such. *)
LEMMA AckStaysClean ==
  ASSUME Sound, NEW p \in Procs, Acts(p)
  PROVE  Clean(ack', pending')
<1>1. /\ DataTypes /\ Dated /\ clock \in Nat /\ Fresh = clock + 1
      /\ Clean(ack, pending) /\ Remembered(job[p], ctx[p], pending)
  BY Typed DEF Sound, Consistent, Safe, Fresh
<1>2. pending' \subseteq pending \cup {clock + 1}
  BY <1>1, LossesGrow
<1>3. Clean(NoMarks, pending')
  <2>1. pending \subseteq 1 .. clock
    BY <1>1, Typed
  <2>2. pending' \subseteq 1 .. (clock + 1)
    BY <1>1, <1>2, <2>1
  <2>3. clock + 1 \in Nat
    BY <1>1
  <2> QED
    BY <2>2, <2>3, NothingClean
<1>4. \A m \in Marks : Aged(m, clock) /\ Clean(m, pending) => Clean(m, pending')
  BY <1>1, <1>2, CleanStays DEF Clean
<1>5. CASE ack' \in {ack, NoMarks, ctx[p].ack}
  <2>1. ack \in Marks /\ Aged(ack, clock) /\ ctx[p].ack \in Marks /\ Aged(ctx[p].ack, clock)
    BY <1>1, Typed DEF Dated, Within, Ctxs
  <2> QED
    BY <1>1, <1>3, <1>4, <1>5, <2>1 DEF Remembered
<1>6. CASE Acknowledge(p)
  <2>1. CASE ToAcknowledge(p)
    <3>1. ack' = ctx[p].view.fails /\ ~ctx[p].view.replay /\ at[p] = "acknowledging"
      BY <1>6, <2>1 DEF Acknowledge, ToAcknowledge, Goto
    <3>2. ctx[p].view \in Views /\ Clean(ctx[p].view.fails, pending)
      BY <1>1, <3>1, RetiringViews DEF Sound, Safe, Retractable, Backup, Unlinking
    <3>3. ctx[p].view.fails \in Marks /\ Aged(ctx[p].view.fails, clock)
      BY <1>1, <3>2, NoFileIsNothing DEF Views, Dated, Within
    <3> QED
      BY <1>4, <3>1, <3>2, <3>3
  <2>2. CASE ~ToAcknowledge(p)
    BY <1>5, <1>6, <2>2 DEF Acknowledge
  <2> QED
    BY <2>1, <2>2
<1>7. CASE ~Acknowledge(p)
  <2>1. Retirement(p) => ack' \in {ack, ctx[p].ack}
    BY <1>7 DEF Retirement, UnlinkState, UnlinkReceipt, Retired, RetireFails, UndoAck,
                RestoreState, RestoreReceipt, Compensated, disk
  <2>2. ~Retirement(p) => ack' \in {ack, NoMarks}
    BY DEF Acts, Prepare, Deliver, Invoke, Hook, EnterHook, RefuseInterrupt, Skip, Publish,
         DropAck, FailBeforePublish, FailPublish, Operation, EnterOperation, View, GiveBack,
         Recheck, Accept, Decline, Commit, Recovery, EnterRecovery, EnterInputRecovery,
         InspectOwner, RereadOwner, Invalidate, FailInvalidate, Reclaim, Exiting, GiveUp, Leave,
         StartMark, Mark, Retain, End, Crash, Exit, disk
  <2> QED
    BY <1>5, <2>1, <2>2
<1> QED
  BY <1>6, <1>7

LEMMA RememberedStays ==
  ASSUME Sound, NEW p \in Procs, Acts(p), NEW q \in Procs
  PROVE  Remembered(job'[q], ctx'[q], pending')
<1>1. /\ DataTypes /\ Dated /\ clock \in Nat /\ Fresh = clock + 1
      /\ Remembered(job[q], ctx[q], pending)
  BY Typed DEF Sound, Consistent, Safe, Fresh
<1>2. pending' \subseteq pending \cup {clock + 1}
  BY <1>1, LossesGrow
<1>3. Clean(ctx[q].ack, pending') /\ Clean(ack, pending') /\ Clean(NoMarks, pending')
  <2>1. ack \in Marks /\ Aged(ack, clock) /\ ctx[q].ack \in Marks /\ Aged(ctx[q].ack, clock)
    BY <1>1, Typed DEF Dated, Within, Ctxs
  <2>2. pending \subseteq 1 .. clock
    BY <1>1, Typed
  <2>3. pending' \subseteq 1 .. (clock + 1)
    BY <1>1, <1>2, <2>2
  <2>4. clock + 1 \in Nat /\ Clean(ack, pending)
    BY <1>1 DEF Sound, Safe
  <2> QED
    BY <1>1, <1>2, <2>1, <2>3, <2>4, NothingClean, CleanStays DEF Clean, Remembered
<1>4. ASSUME job[q] = "replay", ctx[q].token # NoFile
      PROVE  pending' \cap {ctx[q].token[2].session, ctx[q].token[2].workspace}
               \subseteq ctx[q].known
  <2>1. ctx[q].token[2] \in Marks /\ Aged(ctx[q].token[2], clock)
    BY <1>1, <1>4, Typed DEF Dated, Within, Ctxs, Tokens
  <2> QED
    BY <1>1, <1>2, <1>4, <2>1, CleanStays DEF Remembered
<1>5. CASE q # p
  <2>1. job'[q] = job[q] /\ ctx'[q] = ctx[q]
    BY <1>1, <1>5, OthersKeep
  <2> QED
    BY <1>3, <1>4, <2>1 DEF Remembered
<1>6. CASE q = p
  <2>1. Remembers(q)
    BY <1>1, <1>6, StepRemembers
  <2>2. Clean(ctx'[q].ack, pending')
    BY <1>3, <2>1 DEF Remembers
  <2>3. ASSUME job'[q] = "replay", ctx'[q].token # NoFile
        PROVE  pending' \cap {ctx'[q].token[2].session, ctx'[q].token[2].workspace}
                 \subseteq ctx'[q].known
    BY <1>4, <2>1, <2>3 DEF Remembers, Requested, ghosts
  <2> QED
    BY <2>2, <2>3 DEF Remembered
<1> QED
  BY <1>5, <1>6

(* While a retirement is under way, or a commit, no other process has the    *)
(* input lock or finds it dead, and so none settles anything.               *)
LEMMA RetiresAlone ==
  ASSUME LockInv, NEW q \in Procs, at[q] \in {"committing"} \cup Unlinking \cup Undoing,
         NEW p \in Procs, p # q
  PROVE  "input" \notin held[p] /\ lock["input"] # DeadPid
<1>1. Place(job[q], at[q], held[q])
  BY DEF LockInv, Placed
<1>2. "input" \in held[q]
  BY <1>1 DEF Place, Both, Unlinking, Undoing
<1> QED
  BY <1>2, LockContentsDistinct DEF LockInv, Owned

LEMMA SettlesAlone ==
  ASSUME DataTypes, NEW p \in Procs, Settles(p),
         NEW q \in Procs, at[q] \in {"committing"} \cup Unlinking \cup Undoing
  PROVE  p = q
<1> SUFFICES ASSUME p # q PROVE FALSE
  OBVIOUS
<1>0. LockInv /\ Place(job[p], at[p], held[p])
  BY DEF DataTypes, LockInv, Placed
<1>1. "input" \notin held[p] /\ lock["input"] # DeadPid
  BY <1>0, RetiresAlone
<1>2. ~Invalidate(p)
  <2>1. at[p] = "invalidating" => job[p] = "recoverInput"
    BY <1>0, Where
  <2> QED
    BY <1>0, <1>1, <2>1 DEF Invalidate, Goto, LockInv, TargetStaysDead, TargetOf, Recoveries
<1>3. ~Publish(p)
  <2>1. Publish(p) => at[p] = "publishing" /\ job[p] \in Hooks \cup {"reconcile"}
    BY PublicationFields DEF Publish, Goto
  <2> QED
    BY <1>0, <1>1, <2>1, Where DEF Hooks
<1>4. ~Commit(p) /\ ~Retired(p)
  BY <1>0, <1>1 DEF Commit, Retired, Goto, Place, Both, Unlinking, Undoing
<1> QED
  BY <1>2, <1>3, <1>4 DEF Settles

(* An accepted retirement saw guarded files, and they are what it keeps.    *)
LEMMA AcceptKeepsBackup ==
  ASSUME Sound, NEW p \in Procs, Accept(p), at'[p] \in Unlinking \cup Undoing
  PROVE  Backup(ctx[p])'
<1>1. /\ DataTypes /\ at[p] = "rechecking" /\ Unchanged(p) /\ Quiet
      /\ ctx' = [ctx EXCEPT ![p].raw = receipt, ![p].ack = ack]
  BY DEF Sound, Consistent, Accept, Goto, Quiet, disk, ghosts
<1>2. Place(job[p], at[p], held[p]) /\ SealedAt(job[p], at[p], ctx[p], receipt, checkpoint, ack)
  BY <1>1 DEF Sound, Consistent, Sealed, DataTypes, LockInv, Placed
<1>3. job[p] \in Operations /\ "input" \in held[p]
  BY <1>1, <1>2 DEF Place, Both, Unlinking, Undoing
<1>4. Kept /\ checkpoint = ctx[p].prior
  <2>1. ~Torn
    BY <1>1, <1>3 DEF Torn, Untorn, Tearing, Undoing
  <2> QED
    BY <1>1, <1>2, <1>3, <2>1 DEF Sound, Safe, SealedAt
<1>5. /\ ctx'[p].raw = receipt /\ ctx'[p].ack = ack /\ ctx'[p].prior = checkpoint
      /\ ctx'[p].view = ctx[p].view
  BY <1>1, <1>4, Typed DEF Ctxs, DataTypes, FileTypes
<1>6. Guarded(receipt, ack, checkpoint, mark', pending', bound', job', ctx')
  <2>1. \A q \in Procs : Requested(q)
    BY <1>1, AllRequested DEF Acts, Operation
  <2> QED
    BY <1>1, <1>4, <2>1, GuardStays DEF Kept, Quiet
<1>7. ~ctx[p].view.replay => Clean(ctx[p].view.fails, pending')
  <2>1. ctx[p].view # NoFile
    BY <1>1, <1>3 DEF DataTypes, Decided, Deciding, Justified
  <2>2. ctx[p].view = Reading(receipt, ack, mark)
    BY <1>1, ReadInputIs DEF Unchanged
  <2>3. ~ctx[p].view.replay => pending = {}
    BY <1>4, <2>1, <2>2 DEF Kept, Guarded, Owed
  <2> QED
    BY <1>1, <2>3 DEF Clean, Quiet
<1> QED
  BY <1>5, <1>6, <1>7 DEF Backup

(* Who is committing or retiring after a step was so before, or was accepted. *)
LEMMA StayUnderWay ==
  ASSUME DataTypes, NEW p \in Procs, Acts(p), NEW q \in Procs, ~(q = p /\ Accept(p)),
         at'[q] \in {"committing"} \cup Unlinking \cup Undoing
  PROVE  /\ at[q] \in {"committing"} \cup Unlinking \cup Undoing
         /\ SameLocals(ctx'[q], ctx[q])
         /\ q = p => Retirement(p) \/ (Exit(p) /\ UNCHANGED <<disk, ghosts>>)
         /\ at'[q] = at[q] \/ (q = p /\ Retirement(p))
<1>0. /\ LockTypes /\ Place(job[p], at[p], held[p]) /\ ctx \in [Procs -> Ctxs]
  BY DEF DataTypes, LockInv, Placed, FileTypes
<1>1. CASE q # p
  BY <1>1, OthersKeep DEF SameLocals
<1>2. CASE q = p /\ Retirement(p)
  BY <1>0, <1>2, RetirementMoves, RetirementWrites DEF Progress
<1>3. CASE q = p /\ Exit(p)
  BY <1>3 DEF Exit, SameLocals
<1>4. CASE q = p /\ ~Retirement(p) /\ ~Exit(p)
  <2>1. CASE \E j \in Jobs : Prepare(p, j) \/ Deliver(p, j)
    <3>1. at' = at /\ job[p] = "idle"
      BY <2>1 DEF Prepare, Deliver, Invoke
    <3> QED
      BY <1>0, <1>4, <3>1 DEF Place, Hooks, Operations, Recoveries, Unlinking, Undoing
  <2>2. CASE Leave(p)
    BY <1>4, <2>2 DEF Leave, Unlinking, Undoing
  <2>3. CASE ~(\E j \in Jobs : Prepare(p, j) \/ Deliver(p, j)) /\ ~Leave(p)
    BY <1>0, <1>4, <2>3
       DEF Acts, Hook, EnterHook, RefuseInterrupt, Skip, Publish, DropAck,
           FailBeforePublish, FailPublish, Failed, Operation, EnterOperation, View,
           GiveBack, Recheck, Decline, Commit, Recovery, EnterRecovery,
           EnterInputRecovery, InspectOwner, RereadOwner, Invalidate, FailInvalidate,
           Reclaim, Exiting, GiveUp, StartMark, Mark, Retain, End, Crash, Goto,
           LockTypes, Unlinking, Undoing
  <2> QED
    BY <2>1, <2>2, <2>3
<1> QED
  BY <1>1, <1>2, <1>3, <1>4

LEMMA StepRetractable ==
  ASSUME Sound, NEW p \in Procs, Acts(p), NEW q \in Procs, at'[q] \in Unlinking \cup Undoing
  PROVE  Backup(ctx[q])'
<1>0. DataTypes /\ Dated /\ LockInv /\ LockTypes
  BY DEF Sound, Consistent, DataTypes, LockInv
<1>1. CASE Accept(p) /\ q = p
  BY <1>1, AcceptKeepsBackup
<1>2. CASE ~(Accept(p) /\ q = p)
  <2>1. /\ at[q] \in Unlinking \cup Undoing /\ (q = p => Retirement(p) \/ Exit(p))
        /\ ~(q = p /\ Retired(p))
    <3>1. /\ q = p => Retirement(p) \/ Exit(p)
          /\ at'[q] = at[q] \/ (q = p /\ Retirement(p))
      BY <1>0, <1>2, StayUnderWay
    <3>2. at[q] \in Unlinking \cup Undoing
      BY <3>1, RetirementMoves
    <3>3. q = p => ~Retired(p)
      BY <1>0 DEF Retired, Goto, LockTypes, Unlinking, Undoing
    <3> QED
      BY <3>1, <3>2, <3>3
  <2>2. SameLocals(ctx'[q], ctx[q])
    BY <1>0, <1>2, StayUnderWay
  <2>3. Backup(ctx[q])
    BY <2>1 DEF Sound, Safe, Retractable
  <2>4. CASE Quiet
    <3>1. Guarded(ctx[q].raw, ctx[q].ack, ctx[q].prior, mark', pending', bound', job', ctx')
      BY <1>0, <2>3, <2>4, AllRequested, GuardStays DEF Backup, Quiet
    <3> QED
      BY <2>2, <2>3, <2>4, <3>1 DEF Backup, SameLocals, Quiet
  <2>5. CASE Loses
    <3>1. /\ ctx[q].raw \in Receipts \cup {NoFile} /\ ctx[q].ack \in Marks
          /\ ctx[q].view \in Views /\ ctx[q].view # NoFile
          /\ Within(ctx[q], clock) /\ ctx[q].view.fails \in Marks
      BY <1>0, <2>1, Typed, RetiringViews, NoFileIsNothing DEF Ctxs, Dated, Views
    <3>2. Guarded(ctx[q].raw, ctx[q].ack, ctx[q].prior, mark', pending', bound', job', ctx')
      BY <1>0, <2>5, <3>1, LossGuards DEF Loses, Within
    <3>3. ~ctx[q].view.replay => Clean(ctx[q].view.fails, pending')
      BY <1>0, <2>3, <3>1, LossesGrow, CleanStays, Typed DEF Backup, Within, Clean, Fresh
    <3> QED
      BY <2>2, <3>2, <3>3 DEF Backup, SameLocals
  <2>6. CASE Settles(p)
    <3>1. CASE q = p
      BY <2>1, <2>6, <3>1 DEF Settles, Exit, Publish, Commit, Retired, Invalidate, Goto, Unlinking,
                          Undoing
    <3>2. CASE q # p
      BY <1>0, <2>1, <2>6, <3>2, SettlesAlone
    <3> QED
      BY <3>1, <3>2
  <2> QED
    BY <1>0, <2>4, <2>5, <2>6, StepKinds
<1> QED
  BY <1>1, <1>2

(* A process publishing reads the files that are there: if no loss was      *)
(* marked meanwhile, its view is what every reader sees.                    *)
LEMMA PublisherSees ==
  ASSUME Consistent, NEW p \in Procs, at[p] = "publishing", ~NothingToDo(p)
  PROVE  /\ ctx[p].view = NoFile => receipt = NoFile
         /\ ctx[p].view # NoFile => ctx[p].view = Reading(receipt, ack, ctx[p].view.fails)
<1>1. /\ job[p] \in Hooks \cup {"reconcile"} /\ DataTypes
      /\ SealedAt(job[p], at[p], ctx[p], receipt, checkpoint, ack)
  BY PublicationFields DEF Consistent, Sealed
<1>2. CASE job[p] \in Hooks
  BY <1>1, <1>2 DEF SealedAt
<1>3. CASE job[p] = "reconcile"
  <2>1. Justified(job[p], ctx[p])
    BY <1>1, <1>3 DEF DataTypes, Decided, Deciding, Operations
  <2> QED
    BY <1>1, <1>3, <2>1 DEF SealedAt, Justified, Operations
<1> QED
  BY <1>1, <1>2, <1>3

(* A publication keeps or settles what its view reported. *)
LEMMA PublishGuards ==
  ASSUME Sound, NEW p \in Procs, Publish(p)
  PROVE  Kept'
<1>1. /\ at[p] = "publishing" /\ ~NothingToDo(p) /\ receipt' = Publication(p)
      /\ UNCHANGED <<checkpoint, mark, ack, job, ctx>>
      /\ IF job[p] = "replay" THEN pending' = pending \ ctx[p].known /\ bound' = checkpoint
         ELSE pending' = pending /\ bound' = bound
  BY DEF Publish, Goto, ghosts
<1>2. Kept
  <2>1. Place(job[p], at[p], held[p]) /\ job[p] \in Hooks \cup {"reconcile"}
    BY <1>1, PublicationFields DEF Sound, Consistent, DataTypes, LockInv, Placed
  <2>2. "input" \in held[p]
    BY <1>1, <2>1, Where DEF Hooks
  <2>3. ~Torn
    BY <1>1, <2>2 DEF Torn, Untorn, Tearing, Undoing
  <2> QED
    BY <2>3 DEF Sound, Safe
<1>3. /\ receipt' \in Receipts /\ receipt'.epoch = Fresh /\ receipt' # NoFile
      /\ mark \in Marks /\ ack \in Marks /\ receipt \in Receipts \cup {NoFile}
  BY <1>1, PublicationFields, Typed, NoFileIsNothing DEF Sound, Consistent
<1>4. \A q \in Procs : Answered(job'[q], ctx'[q], receipt', ack', mark', pending')
  BY <1>1, <1>3, FreshAnswers DEF Sound
<1>5. Reading(receipt', ack, mark) # NoFile
      /\ (Reading(receipt', ack, mark).replay <=> (receipt'.fails # mark \/ receipt'.replay))
  BY <1>3, ReadingFields
<1>6. Owed(receipt', ack', checkpoint', mark', pending', bound')
  <2>1. CASE receipt'.fails # mark
    BY <1>1, <1>5, <2>1 DEF Owed
  <2>2. CASE receipt'.fails = mark /\ ctx[p].view = NoFile
    <3>1. receipt = NoFile /\ mark \in {NoMarks, ack}
      BY <1>1, <2>2, PublisherSees, PublicationFields DEF Sound, Consistent
    <3>2. Reading(receipt, ack, mark) = NoFile
      BY <3>1 DEF Reading
    <3>3. pending = {} /\ checkpoint = bound
      BY <1>2, <3>2 DEF Kept, Guarded, Owed
    <3> QED
      BY <1>1, <3>3 DEF Owed
  <2>3. CASE receipt'.fails = mark /\ ctx[p].view # NoFile
    <3>1. ctx[p].view.fails = mark /\ ctx[p].view = Reading(receipt, ack, mark)
      BY <1>1, <2>3, PublisherSees, PublicationFields DEF Sound, Consistent
    <3>2. CASE job[p] = "replay"
      <4>1. ctx[p].token = Reading(receipt, ack, mark).epoch
        BY <1>1, <2>3, <3>1, <3>2 DEF NothingToDo, ReplayConflict
      <4>2. pending \subseteq ctx[p].known
        BY <1>2, <2>3, <3>1, <3>2, <4>1 DEF Kept, Guarded, Answered
      <4>3. pending' = {} /\ bound' = checkpoint
        BY <1>1, <3>2, <4>2
      <4> QED
        BY <1>1, <4>3 DEF Owed
    <3>3. CASE job[p] # "replay"
      <4>1. Publication(p).replay <=> ctx[p].view.replay
        BY <1>1, <2>3, <3>3, PublicationFields DEF Sound, Consistent
      <4> QED
        BY <1>1, <1>2, <1>5, <3>1, <3>3, <4>1 DEF Kept, Guarded, Owed
    <3> QED
      BY <3>2, <3>3
  <2> QED
    BY <2>1, <2>2, <2>3
<1> QED
  BY <1>4, <1>6 DEF Kept, Guarded

(* A recovery flags the receipt it found. *)
LEMMA InvalidateGuards ==
  ASSUME Sound, NEW p \in Procs, Invalidate(p), receipt # NoFile
  PROVE  Kept'
<1>1. /\ receipt' \in Receipts /\ receipt'.epoch = Fresh /\ receipt'.replay /\ receipt' # NoFile
      /\ UNCHANGED <<checkpoint, ack, job, ctx, bound, mark>> /\ mark \in Marks /\ ack \in Marks
  BY Invalidates, Typed, NoFileIsNothing DEF Sound, Consistent
<1>2. Reading(receipt', ack, mark) # NoFile /\ Reading(receipt', ack, mark).replay
  BY <1>1, ReadingFields
<1>3. \A q \in Procs : Answered(job'[q], ctx'[q], receipt', ack', mark', pending')
  BY <1>1, FreshAnswers DEF Sound
<1>4. Owed(receipt', ack', checkpoint', mark', pending', bound')
  BY <1>1, <1>2 DEF Owed
<1> QED
  BY <1>3, <1>4 DEF Kept, Guarded

(* The acknowledgment is dropped only once there is a receipt. *)
LEMMA DropAckGuards ==
  ASSUME Sound, NEW p \in Procs, DropAck(p)
  PROVE  Kept'
<1>1. /\ at[p] = "publishedReceipt" /\ UNCHANGED <<receipt, checkpoint, mark, pending, bound>>
      /\ UNCHANGED <<job, ctx>>
  BY DEF DropAck, Goto, ghosts
<1>2. receipt # NoFile /\ Place(job[p], at[p], held[p])
  BY <1>1 DEF Sound, Consistent, Sealed, SealedAt, DataTypes, LockInv, Placed
<1>3. Kept
  <2>1. "input" \in held[p] \/ job[p] = "recoverInput"
    BY <1>1, <1>2, Where
  <2>2. ~Torn
    BY <1>1, <2>1 DEF Torn, Untorn, Tearing, Undoing
  <2> QED
    BY <2>2 DEF Sound, Safe
<1>4. Reading(receipt, ack', mark) = Reading(receipt, ack, mark)
  BY <1>2, AckOfNothing
<1> QED
  BY <1>1, <1>3, <1>4 DEF Kept, Guarded, Owed, Answered

LEMMA CommitGuards ==
  ASSUME Sound, NEW p \in Procs, Commit(p)
  PROVE  Kept'
<1>1. /\ at[p] = "committing" /\ UNCHANGED <<receipt, ack, mark, pending, job, ctx>>
      /\ checkpoint' = bound' \/ UNCHANGED <<checkpoint, bound>>
  BY DEF Commit, Goto
<1>2. Place(job[p], at[p], held[p])
  BY DEF Sound, Consistent, DataTypes, LockInv, Placed
<1>3. Kept
  <2>1. "input" \in held[p]
    BY <1>1, <1>2 DEF Place, Both, Unlinking, Undoing
  <2>2. ~Torn
    BY <1>1, <2>1 DEF Torn, Untorn, Tearing, Undoing
  <2> QED
    BY <2>2 DEF Sound, Safe
<1> QED
  BY <1>1, <1>3 DEF Kept, Guarded, Owed, Answered

(* The end of a retirement: nothing it was told to keep is left behind.     *)
LEMMA RetiredGuards ==
  ASSUME Sound, NEW p \in Procs, Retired(p)
  PROVE  Kept'
<1>1. /\ at[p] = "verifying" /\ mark = ctx[p].view.fails /\ bound' = NoFile
      /\ UNCHANGED <<receipt, checkpoint, ack, mark, job, ctx>>
      /\ pending' = IF job[p] = "cancel"
                    THEN pending \cap {mark.session, mark.workspace} ELSE pending
  BY DEF Retired, Goto, Marked, disk
<1>2. /\ job[p] \in {"retire", "cancel", "sessionEnd"} /\ Justified(job[p], ctx[p])
      /\ ctx[p].view \in Views /\ mark \in Marks /\ ack \in Marks /\ pending \subseteq 1 .. clock
  BY <1>1, RetiringViews, Typed DEF Sound, Consistent, Unlinking
<1>3. /\ receipt = NoFile /\ checkpoint = NoFile
      /\ ack = IF Acks(ctx[p]) THEN ctx[p].view.fails ELSE ctx[p].ack
      /\ ctx[p].view = Reading(ctx[p].raw, ctx[p].ack, mark)
  <2>1. SealedAt(job[p], at[p], ctx[p], receipt, checkpoint, ack)
    BY DEF Sound, Consistent, Sealed
  <2>2. job[p] \in Operations /\ at[p] \in Unlinking
    BY <1>1, <1>2 DEF Operations, Unlinking
  <2> QED
    BY <1>1, <2>1, <2>2 DEF SealedAt
<1>4. Backup(ctx[p])
  BY <1>1 DEF Sound, Safe, Retractable, Unlinking
<1>5. CASE ~ctx[p].view.replay
  <2>1. pending = {}
    BY <1>3, <1>4, <1>5 DEF Backup, Guarded, Owed
  <2>2. pending' = {}
    BY <1>1, <2>1
  <2> QED
    BY <1>1, <1>3, <2>2 DEF Kept, Guarded, Owed, Answered
<1>6. CASE ctx[p].view.replay
  <2>1. job[p] = "cancel"
    BY <1>2, <1>6 DEF Justified
  <2>2. pending' = pending \cap {mark.session, mark.workspace} /\ Clean(ack, pending)
    BY <1>1, <2>1 DEF Sound, Safe
  <2>3. CASE pending' = {}
    BY <1>1, <1>3, <2>3 DEF Kept, Guarded, Owed, Answered
  <2>4. CASE pending' # {}
    <3>1. mark # ack
      BY <2>2, <2>4 DEF Clean
    <3>2. mark # NoMarks
      BY <1>2, <2>2, <2>4 DEF NoMarks
    <3>3. /\ Reading(receipt, ack, mark) # NoFile /\ Reading(receipt, ack, mark).replay
          /\ Reading(receipt, ack, mark).epoch = <<0, mark>>
      BY <1>2, <1>3, <3>1, <3>2, ReadingFields
    <3>4. Owed(receipt', ack', checkpoint', mark', pending', bound')
      BY <1>1, <3>3 DEF Owed
    <3>5. ASSUME NEW q \in Procs, job[q] = "replay", ctx[q].token = Reading(receipt, ack, mark).epoch
          PROVE  pending' \subseteq ctx[q].known
      <4>1. Remembered(job[q], ctx[q], pending) /\ ctx[q].token[2] = mark
        BY <3>3, <3>5 DEF Sound, Safe
      <4>2. ctx[q].token # NoFile
        <5>1. Reading(receipt, ack, mark) \in Views
          BY <1>2, <1>3, <3>3, ReadingFields
        <5> QED
          BY <3>5, <5>1, NoFileIsNothing DEF Views
      <4> QED
        BY <2>2, <3>5, <4>1, <4>2 DEF Remembered
    <3>6. \A q \in Procs : Answered(job'[q], ctx'[q], receipt', ack', mark', pending')
      BY <1>1, <3>5 DEF Answered
    <3> QED
      BY <3>4, <3>6 DEF Kept, Guarded
  <2> QED
    BY <2>3, <2>4
<1> QED
  BY <1>5, <1>6

(* A compensation that put every file back restores what it had; a broken   *)
(* one has marked a new loss.                                               *)
LEMMA CompensationGuards ==
  ASSUME Sound, NEW p \in Procs, Compensated(p), Quiet, ~ctx[p].broken
  PROVE  Kept'
<1>1. /\ at[p] = "compensated" /\ UNCHANGED <<receipt, checkpoint, ack, job, ctx>>
  BY DEF Compensated, Goto
<1>2. SealedAt(job[p], at[p], ctx[p], receipt, checkpoint, ack)
  BY DEF Sound, Consistent, Sealed
<1>3. receipt = ctx[p].raw /\ checkpoint = ctx[p].prior /\ ack = ctx[p].ack
  BY <1>1, <1>2 DEF SealedAt
<1>4. Backup(ctx[p])
  BY <1>1 DEF Sound, Safe, Retractable, Undoing
<1> QED
  BY <1>1, <1>3, <1>4 DEF Backup, Kept, Guarded, Owed, Answered, Quiet

LEMMA LossKeeps ==
  ASSUME Sound, Loses
  PROVE  Kept'
<1>1. /\ receipt \in Receipts \cup {NoFile} /\ ack \in Marks /\ DataTypes /\ Dated /\ Marking
      /\ (receipt # NoFile => Aged(receipt.fails, clock)) /\ Aged(ack, clock)
  BY Typed DEF Sound, Consistent, Loses, Dated
<1>2. Guarded(receipt, ack, checkpoint, mark', pending', bound, job, ctx)
  BY <1>1, LossGuards
<1> QED
  BY <1>2 DEF Kept, Loses

(* Within a retirement the files are torn from its first unlink on. *)
LEMMA RetirementTears ==
  ASSUME LockInv, LockInv', NEW p \in Procs, Retirement(p), ~Retired(p),
         Compensated(p) => at'[p] = "retaining"
  PROVE  Torn'
<1>1. Place(job[p], at[p], held[p]) /\ at[p] \in Unlinking \cup Undoing /\ held' = held
  BY RetirementMoves DEF LockInv, Placed, locks
<1>2. "input" \in held'[p]
  BY <1>1 DEF Place, Both, Unlinking, Undoing
<1>3. at'[p] \in Tearing
  BY DEF LockInv, LockTypes, Retirement, UnlinkState, UnlinkReceipt, Acknowledge, RetireFails,
         UndoAck, RestoreState, RestoreReceipt, Goto, Tearing, Undoing
<1> QED
  BY <1>2, <1>3, HolderTears

(* The steps that neither write a file nor settle or mark a loss. *)
Idles(p) ==
  /\ ~Retirement(p) /\ ~Invalidate(p) /\ ~Publish(p) /\ ~DropAck(p) /\ ~Commit(p)
  /\ Quiet
LEMMA IdleKeeps ==
  ASSUME Sound, NEW p \in Procs, Acts(p), Idles(p)
  PROVE  Kept' \/ Torn'
<1>1. UNCHANGED <<receipt, checkpoint, ack>>
  BY DEF Idles, Acts, Prepare, Deliver, Invoke, Hook, EnterHook, RefuseInterrupt, Skip,
         FailBeforePublish, FailPublish, Operation, EnterOperation, View, GiveBack, Recheck,
         Accept, Decline, Recovery, EnterRecovery, EnterInputRecovery, InspectOwner, RereadOwner,
         FailInvalidate, Reclaim, Exiting, GiveUp, Leave, StartMark, Mark, Retain, End, Crash,
         Exit, disk
<1>2. CASE Torn
  BY <1>2, TornStays DEF Sound, Consistent, Idles
<1>3. CASE Kept
  <2>1. \A q \in Procs : Requested(q)
    BY AllRequested DEF Sound, Consistent
  <2>2. Guarded(receipt, ack, checkpoint, mark', pending', bound', job', ctx')
    BY <1>3, <2>1, GuardStays DEF Kept, Idles, Quiet
  <2> QED
    BY <1>1, <2>2 DEF Kept
<1> QED
  BY <1>2, <1>3 DEF Sound, Safe

LEMMA StepKeeps ==
  ASSUME Sound, LockInv', NEW p \in Procs, Acts(p)
  PROVE  Kept' \/ Torn'
<1>1. CASE Publish(p) \/ DropAck(p) \/ Commit(p) \/ Retired(p)
  BY <1>1, PublishGuards, DropAckGuards, CommitGuards, RetiredGuards
<1>2. CASE Invalidate(p)
  <2>1. CASE receipt # NoFile
    BY <1>2, <2>1, InvalidateGuards
  <2>2. CASE receipt = NoFile
    <3>1. Loses
      BY <1>2, <2>2, Invalidates DEF Sound, Consistent, Loses, Marking
    <3> QED
      BY <3>1, LossKeeps
  <2> QED
    BY <2>1, <2>2
<1>3. CASE Compensated(p)
  <2>1. CASE Loses
    BY <2>1, LossKeeps
  <2>2. CASE ~ctx[p].broken /\ Quiet
    BY <1>3, <2>2, CompensationGuards
  <2>3. CASE at'[p] = "retaining"
    BY <1>3, <2>3, RetirementTears DEF Sound, Consistent, DataTypes, Retirement, Retired,
                                       Compensated, Goto
  <2>4. \/ Loses \/ (~ctx[p].broken /\ Quiet) \/ at'[p] = "retaining"
    BY <1>3 DEF Compensated, Tick, Goto, Loses, Marking, Quiet, Sound, Consistent, DataTypes,
                LockInv, LockTypes
  <2> QED
    BY <2>1, <2>2, <2>3, <2>4
<1>4. CASE Retirement(p) /\ ~Retired(p) /\ ~Compensated(p)
  BY <1>4, RetirementTears DEF Sound, Consistent, DataTypes
<1>5. CASE Idles(p)
  BY <1>5, IdleKeeps
<1>6. CASE ~(Publish(p) \/ DropAck(p) \/ Commit(p)) /\ ~Invalidate(p) /\ ~Retirement(p)
  <2>1. Loses \/ Quiet
    BY <1>6, StepKinds DEF Sound, Consistent, Settles, Retirement
  <2> QED
    BY <1>5, <1>6, <2>1, LossKeeps DEF Idles
<1> QED
  BY <1>1, <1>2, <1>3, <1>4, <1>6

LEMMA LossSound ==
  ASSUME Sound, TransportLoss \/ UNCHANGED vars
  PROVE  Safe'
<1>1. CASE UNCHANGED vars
  BY <1>1 DEF vars, disk, locks, ghosts, budget, Sound, Safe, Kept, Torn, Retractable, Backup
<1>2. CASE TransportLoss
  <2>1. Loses /\ UNCHANGED <<job, at, ctx>>
    BY <1>2 DEF TransportLoss, Loses, Marking
  <2>2. Kept'
    BY <2>1, LossKeeps
  <2>3. /\ DataTypes /\ Dated /\ clock \in Nat /\ Fresh = clock + 1
        /\ pending' \subseteq pending \cup {clock + 1}
    BY <2>1, MarkingAges, Typed DEF Sound, Consistent, Dated, Loses, Fresh
  <2>4. \A m \in Marks : Aged(m, clock) =>
          pending' \cap {m.session, m.workspace} \subseteq pending \cap {m.session, m.workspace}
    BY <2>3, CleanStays
  <2>5. Clean(ack', pending')
    BY <2>1, <2>3, <2>4, Typed DEF Sound, Safe, Dated, Loses, Clean
  <2>6. ASSUME NEW q \in Procs PROVE Remembered(job'[q], ctx'[q], pending')
    <3>1. /\ ctx[q].ack \in Marks /\ Aged(ctx[q].ack, clock)
          /\ Remembered(job[q], ctx[q], pending)
      BY <2>3, Typed DEF Sound, Safe, Dated, Within, Ctxs
    <3>2. ctx[q].token # NoFile => ctx[q].token[2] \in Marks /\ Aged(ctx[q].token[2], clock)
      BY <2>3, Typed DEF Dated, Within, Ctxs, Tokens
    <3>3. Remembered(job[q], ctx[q], pending')
      BY <2>4, <3>1, <3>2 DEF Remembered, Clean
    <3> QED
      BY <2>1, <3>3
  <2>7. ASSUME NEW q \in Procs, at'[q] \in Unlinking \cup Undoing PROVE Backup(ctx[q])'
    <3>1. /\ ctx[q].raw \in Receipts \cup {NoFile} /\ ctx[q].ack \in Marks
          /\ ctx[q].view \in Views /\ ctx[q].view # NoFile
          /\ Within(ctx[q], clock) /\ ctx[q].view.fails \in Marks
      BY <2>1, <2>3, <2>7, Typed, RetiringViews, NoFileIsNothing DEF Ctxs, Dated, Views
    <3>2. Guarded(ctx[q].raw, ctx[q].ack, ctx[q].prior, mark', pending', bound, job, ctx)
      BY <2>1, <2>3, <3>1, LossGuards DEF Loses, Within
    <3>3. Backup(ctx[q])
      BY <2>1, <2>7 DEF Sound, Safe, Retractable
    <3>4. ~ctx[q].view.replay => Clean(ctx[q].view.fails, pending')
      BY <2>4, <3>1, <3>3 DEF Backup, Within, Clean
    <3> QED
      BY <2>1, <3>2, <3>4 DEF Backup, Loses
  <2> QED
    BY <2>2, <2>5, <2>6, <2>7 DEF Safe, Retractable
<1> QED
  BY <1>1, <1>2

LEMMA StepSound == Sound /\ [Next]_vars => Sound'
<1> SUFFICES ASSUME Sound, [Next]_vars PROVE Sound'
  OBVIOUS
<1>1. Consistent' /\ Dated' /\ LockInv'
  BY StepTypes, StepSealed, StepNumbered, StepDated DEF Sound, Consistent, DataTypes
<1>2. CASE TransportLoss \/ UNCHANGED vars
  BY <1>1, <1>2, LossSound DEF Sound
<1>3. ASSUME NEW p \in Procs, Acts(p)
      PROVE  Safe'
  <2>1. Kept' \/ Torn'
    BY <1>1, <1>3, StepKeeps
  <2>2. Clean(ack', pending') /\ \A q \in Procs : Remembered(job'[q], ctx'[q], pending')
    BY <1>3, AckStaysClean, RememberedStays
  <2>3. Retractable'
    BY <1>3, StepRetractable DEF Retractable
  <2> QED
    BY <2>1, <2>2, <2>3 DEF Safe
<1> QED
  BY <1>1, <1>2, <1>3 DEF Sound, Next, Acts

LEMMA InitSound == Init => Sound
<1> SUFFICES ASSUME Init PROVE Sound
  OBVIOUS
<1>1. Consistent /\ Dated
  BY InitTypes, InitSealed, InitNumbered, InitDated DEF Consistent
<1>2. pending = {} /\ bound = checkpoint /\ \A p \in Procs : at[p] = "ready"
  BY DEF Init
<1>3. Kept
  BY <1>2 DEF Kept, Guarded, Owed, Answered
<1>4. Retractable
  BY <1>2 DEF Retractable, Unlinking, Undoing
<1>5. Clean(ack, pending) /\ \A p \in Procs : Remembered(job[p], ctx[p], pending)
  BY <1>2 DEF Clean, Remembered
<1> QED
  BY <1>1, <1>3, <1>4, <1>5 DEF Sound, Safe

LEMMA SoundInvariant == Spec => []Sound
  BY InitSound, StepSound, PTL DEF Spec

(* Untorn files read as quarantined while there is anything to report.      *)
LEMMA KeptReports ==
  ASSUME Kept, pending # {} \/ checkpoint # bound
  PROVE  Quarantined
  BY ReadInputIs DEF Kept, Guarded, Owed, Quarantined

(* Once a loss of native input is on disk, every reader outside the input   *)
(* lock sees quarantined input until a replay that knew of the loss, or a   *)
(* cancellation of what only the receipt recorded, disposes of it.          *)
THEOREM LossesStayQuarantined == Spec => []LossStaysQuarantined
<1>1. Sound => LossStaysQuarantined
  BY KeptReports DEF Sound, Safe, Torn, LossStaysQuarantined
<1> QED
  BY <1>1, SoundInvariant, PTL

(* A checkpoint the task is still owed never disappears from a session that *)
(* looks healthy: the input is quarantined or its lock is there.            *)
THEOREM CheckpointsAreNotLost == Spec => []CheckpointNotLost
<1>1. Sound => CheckpointNotLost
  BY KeptReports DEF Sound, Safe, Torn, CheckpointNotLost
<1> QED
  BY <1>1, SoundInvariant, PTL

(***************************************************************************)
(* Paired: what is on disk, or would be put back, is the checkpoint owed.  *)
(***************************************************************************)
Paired ==
  /\ checkpoint \in {NoFile, bound}
  /\ \A p \in Procs : at[p] \in {"committing"} \cup Unlinking \cup Undoing =>
       /\ ctx[p].prior \in {NoFile, bound}
       /\ ~ctx[p].view.replay => ctx[p].prior = bound

LEMMA UntornKept ==
  ASSUME Sound, NEW p \in Procs, Untorn(job[p], at[p], held[p])
  PROVE  Kept
  BY DEF Sound, Safe, Torn

(* An operation accepted on an unflagged view found the checkpoint owed.    *)
LEMMA AcceptPairs ==
  ASSUME Sound, Paired, NEW p \in Procs, Accept(p),
         at'[p] \in {"committing"} \cup Unlinking \cup Undoing
  PROVE  /\ bound' = bound
         /\ ctx'[p].prior \in {NoFile, bound}
         /\ ~ctx'[p].view.replay => ctx'[p].prior = bound
<1>1. /\ DataTypes /\ at[p] = "rechecking" /\ Unchanged(p) /\ bound' = bound
      /\ ctx' = [ctx EXCEPT ![p].raw = receipt, ![p].ack = ack]
  BY DEF Sound, Consistent, Accept, Goto, ghosts
<1>2. Place(job[p], at[p], held[p]) /\ SealedAt(job[p], at[p], ctx[p], receipt, checkpoint, ack)
  BY <1>1 DEF Sound, Consistent, Sealed, DataTypes, LockInv, Placed
<1>3. job[p] \in Operations /\ "input" \in held[p]
  BY <1>1, <1>2 DEF Place, Both, Unlinking, Undoing
<1>4. checkpoint = ctx[p].prior
  BY <1>1, <1>2, <1>3 DEF SealedAt
<1>5. Kept
  BY <1>1, <1>3, UntornKept DEF Untorn, Tearing, Undoing
<1>6. ctx'[p].prior = checkpoint /\ ctx'[p].view = ctx[p].view
  BY <1>1, <1>4, Typed DEF Ctxs, DataTypes, FileTypes
<1>7. ~ctx[p].view.replay => checkpoint = bound
  <2>1. ctx[p].view # NoFile
    BY <1>1, <1>3 DEF DataTypes, Decided, Deciding, Justified
  <2>2. ctx[p].view = Reading(receipt, ack, mark)
    BY <1>1, ReadInputIs DEF Unchanged
  <2> QED
    BY <1>5, <2>1, <2>2 DEF Kept, Guarded, Owed
<1> QED
  BY <1>1, <1>6, <1>7 DEF Paired

LEMMA StepPaired ==
  ASSUME Sound, Paired, NEW p \in Procs, Acts(p)
  PROVE  Paired'
<1>0. DataTypes /\ LockInv /\ Consistent
  BY DEF Sound, Consistent, DataTypes
<1>1. Settles(p) \/ bound' = bound
  BY <1>0, StepKinds DEF Quiet, Loses
<1>2. checkpoint' \in {NoFile, bound'}
  <2>1. CASE Publish(p) \/ Commit(p) \/ Retired(p)
    <3>1. CASE Publish(p)
      BY <3>1 DEF Publish, ghosts, Paired
    <3>2. CASE Commit(p)
      BY <3>2 DEF Commit, Paired
    <3>3. CASE Retired(p)
      <4>1. at[p] = "verifying" /\ checkpoint' = checkpoint
        BY <3>3 DEF Retired, Goto, disk
      <4>2. checkpoint = NoFile
        BY <1>0, <4>1 DEF Consistent, Sealed, SealedAt
      <4> QED
        BY <4>1, <4>2
    <3> QED
      BY <2>1, <3>1, <3>2, <3>3
  <2>2. CASE ~(Publish(p) \/ Commit(p) \/ Retired(p))
    <3>1. bound' = bound
      BY <1>0, <1>1, <2>2, Invalidates DEF Settles
    <3>2. CASE Retirement(p)
      <4>1. at[p] \in Unlinking \cup Undoing /\ checkpoint' \in {checkpoint, NoFile, ctx[p].prior}
        BY <1>0, <3>2, RetirementMoves, RetirementWrites
      <4> QED
        BY <3>1, <4>1 DEF Paired
    <3>3. CASE ~Retirement(p)
      <4>1. checkpoint' = checkpoint
        BY <2>2, <3>3 DEF Acts, Prepare, Deliver, Invoke, Hook, EnterHook, RefuseInterrupt, Skip,
           DropAck, FailBeforePublish, FailPublish, Operation, EnterOperation, View, GiveBack,
           Recheck, Accept, Decline, Recovery, EnterRecovery, EnterInputRecovery, InspectOwner,
           RereadOwner, Invalidate, FailInvalidate, Reclaim, Exiting, GiveUp, Leave, StartMark,
           Mark, Retain, End, Crash, Exit, disk
      <4> QED
        BY <3>1, <4>1 DEF Paired
    <3> QED
      BY <3>2, <3>3
  <2> QED
    BY <2>1, <2>2
<1>3. ASSUME NEW q \in Procs, at'[q] \in {"committing"} \cup Unlinking \cup Undoing
      PROVE  /\ ctx'[q].prior \in {NoFile, bound'}
             /\ ~ctx'[q].view.replay => ctx'[q].prior = bound'
  <2>1. CASE q = p /\ Accept(p)
    BY <1>3, <2>1, AcceptPairs
  <2>2. CASE ~(q = p /\ Accept(p))
    <3>1. /\ at[q] \in {"committing"} \cup Unlinking \cup Undoing
          /\ SameLocals(ctx'[q], ctx[q])
          /\ q = p => Retirement(p) \/ (Exit(p) /\ UNCHANGED <<disk, ghosts>>)
      BY <1>0, <1>3, <2>2, StayUnderWay
    <3>2. bound' = bound
      <4>1. CASE q # p
        BY <1>0, <1>1, <3>1, <4>1, SettlesAlone
      <4>2. CASE q = p /\ Exit(p) /\ UNCHANGED <<disk, ghosts>>
        BY <4>2 DEF ghosts
      <4>3. CASE q = p /\ Retirement(p)
        <5>1. ~Retired(p)
          BY <1>0, <1>3, <4>3 DEF Retired, Goto, LockInv, LockTypes, Unlinking, Undoing
        <5>2. at[p] \in Unlinking \cup Undoing
          BY <4>3, RetirementMoves
        <5>3. ~Publish(p) /\ ~Commit(p) /\ ~Invalidate(p)
          BY <5>2 DEF Publish, Commit, Invalidate, Goto, Unlinking, Undoing
        <5> QED
          BY <1>1, <5>1, <5>3 DEF Settles
      <4> QED
        BY <3>1, <4>1, <4>2, <4>3
    <3> QED
      BY <3>1, <3>2 DEF SameLocals, Paired
  <2> QED
    BY <2>1, <2>2
<1> QED
  BY <1>2, <1>3 DEF Paired

LEMMA PairedInvariant == Spec => [](Sound /\ Paired)
<1>1. Init => Paired
  BY DEF Init, Paired, Unlinking, Undoing
<1>2. Sound /\ Paired /\ [Next]_vars => Paired'
  <2> SUFFICES ASSUME Sound, Paired, [Next]_vars PROVE Paired'
    OBVIOUS
  <2>1. CASE TransportLoss \/ UNCHANGED vars
    BY <2>1 DEF TransportLoss, vars, disk, ghosts, Paired
  <2> QED
    BY <2>1, StepPaired DEF Next, Acts
<1> QED
  BY <1>1, <1>2, InitSound, StepSound, PTL DEF Spec

(* A pause ends only by a lift or a cancellation that read the paused       *)
(* checkpoint, or, once a failed retirement has taken it from the disk, by  *)
(* the replay that settles the quarantine this leaves.                      *)
THEOREM PausesHold == Spec => PauseHolds
<1>1. ASSUME Sound, Paired, [Next]_vars, bound # NoFile, bound.paused, bound' # bound,
             ~(bound' # NoFile /\ bound'.paused)
      PROVE  \/ \E p \in Procs : /\ job[p] \in {"lift", "cancel"}
                                 /\ at[p] \in {"committing", "verifying"}
                                 /\ ctx[p].revision = bound.revision
             \/ /\ checkpoint = NoFile /\ Quarantined
                /\ \E p \in Procs : job[p] = "replay" /\ at[p] = "publishing"
  <2>0. DataTypes /\ Consistent
    BY <1>1 DEF Sound, Consistent
  <2>1. PICK p \in Procs : Acts(p)
    BY <1>1 DEF Next, Acts, vars, ghosts, TransportLoss
  <2>2. Publish(p) \/ Commit(p) \/ Retired(p)
    BY <1>1, <2>0, <2>1, StepKinds, Invalidates DEF Quiet, Loses, Settles
  <2>3. CASE Publish(p)
    <3>1. job[p] = "replay" /\ at[p] = "publishing" /\ bound' = checkpoint /\ ~NothingToDo(p)
      BY <1>1, <2>3 DEF Publish, Goto, ghosts
    <3>2. checkpoint = NoFile /\ checkpoint # bound
      BY <1>1, <3>1 DEF Paired
    <3>3. "input" \in held[p]
      <4>1. Place(job[p], at[p], held[p])
        BY <2>0 DEF DataTypes, LockInv, Placed
      <4> QED
        BY <3>1, <4>1, Where
    <3>4. Quarantined
      BY <1>1, <3>1, <3>2, <3>3, UntornKept, KeptReports DEF Untorn, Tearing, Undoing
    <3> QED
      BY <3>1, <3>2, <3>4
  <2>4. CASE Commit(p)
    <3>1. at[p] = "committing" /\ bound' = NewCheckpoint(p)
      BY <1>1, <2>4 DEF Commit, Goto
    <3>2. /\ job[p] \in {"bind", "lift", "pause"} /\ Justified(job[p], ctx[p])
          /\ bound' \in Checkpoints /\ bound' # NoFile
          /\ job[p] = "pause" => bound'.paused
          /\ job[p] # "pause" =>
               (bound'.paused <=> ctx[p].prior # NoFile /\ ctx[p].prior.paused /\ job[p] # "lift")
      BY <2>0, <3>1, NewCheckpointFields, NoFileIsNothing
    <3>3. job[p] \in {"bind", "lift"} /\ ~ctx[p].view.replay
      BY <1>1, <3>2 DEF Justified, Bindable
    <3>4. ctx[p].prior = bound
      BY <1>1, <3>1, <3>3 DEF Paired
    <3>5. job[p] = "lift" /\ ctx[p].revision = Revision(bound)
      BY <1>1, <3>2, <3>3, <3>4 DEF Justified, Bindable
    <3> QED
      BY <1>1, <3>1, <3>5 DEF Revision
  <2>5. CASE Retired(p)
    <3>1. at[p] = "verifying" /\ at[p] \in Unlinking
      BY <2>5 DEF Retired, Goto, Unlinking
    <3>2. job[p] \in {"retire", "cancel", "sessionEnd"} /\ Justified(job[p], ctx[p])
      BY <2>0, <3>1, RetiringViews
    <3>3. /\ ctx[p].prior \in {NoFile, bound}
          /\ ~ctx[p].view.replay => ctx[p].prior = bound
      BY <1>1, <3>1 DEF Paired
    <3>4. job[p] = "cancel" /\ ctx[p].prior = bound
      BY <1>1, <3>2, <3>3 DEF Justified
    <3>5. ctx[p].revision = Revision(bound)
      BY <3>2, <3>4 DEF Justified
    <3> QED
      BY <1>1, <3>1, <3>4, <3>5 DEF Revision
  <2> QED
    BY <2>2, <2>3, <2>4, <2>5
<1>2. Sound /\ Paired /\ [Next]_vars =>
        [(bound # NoFile /\ bound.paused /\ bound' # bound
            /\ ~(bound' # NoFile /\ bound'.paused)) =>
           \/ \E p \in Procs : /\ job[p] \in {"lift", "cancel"}
                               /\ at[p] \in {"committing", "verifying"}
                               /\ ctx[p].revision = bound.revision
           \/ /\ checkpoint = NoFile /\ Quarantined
              /\ \E p \in Procs : job[p] = "replay" /\ at[p] = "publishing"]_vars
  BY <1>1
<1> QED
  BY <1>2, PairedInvariant, PTL DEF Spec, PauseHolds
=============================================================================
