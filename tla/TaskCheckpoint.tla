--------------------------- MODULE TaskCheckpoint ---------------------------
(***************************************************************************)
(* The durable state of one Accord task session                            *)
(* (runtime/task-checkpoint.cjs): the input receipt, the checkpoint, the   *)
(* failure watermarks of the session and of its workspace, and the         *)
(* acknowledgment a retirement leaves behind.  Native hooks and checkpoint *)
(* operations run as separate processes that the host may kill between any *)
(* two file operations; SessionLocks describes the locks they take.        *)
(*                                                                         *)
(* Simplifications:                                                        *)
(*  - a receipt keeps how many native inputs it captured, not their text;  *)
(*    a checkpoint keeps the epoch it reconciled, its revision and whether *)
(*    it is paused, not its contract;                                      *)
(*  - a hash of the receipt epoch and the watermarks is the pair of both;  *)
(*  - native transcript evidence and file inspection are external: they    *)
(*    may refuse an operation (Decline) and never let one through;         *)
(*  - status is one atomic read.                                           *)
(* A definition X_Y is a faulty variant of X: it shows that a property can  *)
(* fail, and no specification uses it.                                      *)
(***************************************************************************)
EXTENDS Naturals, FiniteSets

CONSTANTS
  Procs, Absent, DeadPid, NoPid,   \* as in SessionLocks
  NoFile,      \* a receipt, checkpoint or view that does not exist
  Ops,         \* the entry points this instance exercises
  MaxCalls,    \* bound: invocations of the helper
  Mishaps,     \* which mishaps happen: unattributed losses, crashes, I/O faults
  MaxMishaps   \* bound: mishaps

Hooks == {"submit", "replay", "interrupt", "resume"}
Operations == {"bind", "lift", "pause", "retire", "cancel", "reconcile", "sessionEnd"}
Recoveries == {"recoverState", "recoverInput"}
Jobs == {"idle"} \cup Hooks \cup Operations \cup Recoveries
LockFiles == {"state", "input", "gate"}

ASSUME OpsKnown == Ops \subseteq Jobs \ {"idle"}
ASSUME MishapsKnown == Mishaps \subseteq {"loss", "crash", "fault"}
ASSUME BoundsNatural == {MaxCalls, MaxMishaps} \subseteq Nat

(* What the files hold, and what a reader makes of the receipt: the epoch of *)
(* a view is a Token.                                                        *)
Marks == [session : Nat, workspace : Nat]
Receipts == [epoch : Nat, fails : Marks, replay : BOOLEAN, resume : BOOLEAN,
             interrupted : BOOLEAN, captured : Nat]
Checkpoints == [epoch : Nat, revision : Nat \ {0}, paused : BOOLEAN, seen : Nat]
Tokens == Nat \X Marks
Views == [epoch : Tokens, fails : Marks, replay : BOOLEAN, resume : BOOLEAN,
          interrupted : BOOLEAN, captured : Nat]

ASSUME LockContentsDistinct ==
  Absent # DeadPid /\ {Absent, DeadPid} \cap Procs = {}
ASSUME NoFileIsNothing ==
  /\ NoFile \notin Receipts /\ NoFile \notin Checkpoints
  /\ NoFile \notin Tokens /\ NoFile \notin Views

VARIABLES
  receipt, checkpoint, mark, ack,     \* the files
  lock, held,                         \* the lock files, as in SessionLocks
  job, at, ctx,                       \* each process: entry point, location, locals
  pending,     \* ghost: losses persisted and neither replayed nor cancelled
  bound,       \* ghost: the checkpoint owed to the task
  clock,       \* fresh identifiers handed out so far
  calls, mishaps   \* bounded counters

disk == <<receipt, checkpoint, mark, ack>>
locks == <<lock, held>>
ghosts == <<pending, bound>>
budget == <<clock, calls, mishaps>>
vars == <<disk, locks, job, at, ctx, ghosts, budget>>

(***************************************************************************)
(* Files and what a reader derives from them.                              *)
(***************************************************************************)
NoMarks == [session |-> 0, workspace |-> 0]
Blank == [epoch |-> 0, fails |-> NoMarks, replay |-> FALSE, resume |-> FALSE,
          interrupted |-> FALSE, captured |-> 0]

(* A view's epoch names the receipt and the watermarks it does not cover.   *)
Token(e, unconfirmed) == <<e, unconfirmed>>

(* What every reader takes for the current input. *)
ReadInput ==
  LET stored == IF receipt = NoFile THEN Blank ELSE receipt
  IN  IF receipt = NoFile /\ mark \in {NoMarks, ack} THEN NoFile
      ELSE IF stored.fails = mark
           THEN [stored EXCEPT !.epoch = Token(stored.epoch, NoMarks)]
           ELSE [stored EXCEPT !.epoch = Token(stored.epoch, mark),
                               !.replay = TRUE, !.fails = mark]

NeedsInput(v) == v.replay \/ v.resume
Quarantined == ReadInput # NoFile /\ ReadInput.replay
Captured(v) == IF v = NoFile THEN 0 ELSE v.captured
Revision(c) == IF c = NoFile THEN 0 ELSE c.revision
Fresh == clock + 1

(* Locals: what the caller's status read returned (token, revision, known   *)
(* losses, captured inputs), and what the invocation itself has read.       *)
NoCtx == [token |-> NoFile, revision |-> 0, known |-> {}, seen |-> 0,
          view |-> NoFile, prior |-> NoFile, raw |-> NoFile,
          ack |-> NoMarks, acked |-> FALSE, broken |-> FALSE]

(* A new session, one that captured an input, or one that bound it too. *)
FirstReceipt == [Blank EXCEPT !.epoch = 1, !.captured = 1]
FirstBinding == [epoch |-> 1, revision |-> 1, paused |-> FALSE, seen |-> 1]
Init ==
  /\ receipt \in {NoFile, FirstReceipt}
  /\ checkpoint \in IF receipt = NoFile THEN {NoFile} ELSE {NoFile, FirstBinding}
  /\ mark = NoMarks /\ ack = NoMarks
  /\ lock = [l \in LockFiles |-> Absent] /\ held = [p \in Procs |-> {}]
  /\ job = [p \in Procs |-> "idle"] /\ at = [p \in Procs |-> "ready"]
  /\ ctx = [p \in Procs |-> NoCtx]
  /\ pending = {} /\ bound = checkpoint
  /\ clock = 1 /\ calls = 0 /\ mishaps = 0

(***************************************************************************)
(* Steps shared by the entry points.                                       *)
(***************************************************************************)
Goto(p, from, to) == job[p] # "idle" /\ at[p] = from /\ at' = [at EXCEPT ![p] = to]
Hold(p, l) ==
  /\ lock[l] = Absent
  /\ lock' = [lock EXCEPT ![l] = p]
  /\ held' = [held EXCEPT ![p] = @ \cup {l}]
LetGo(p, l) ==
  /\ l \in held[p]
  /\ lock' = [lock EXCEPT ![l] = Absent]
  /\ held' = [held EXCEPT ![p] = @ \ {l}]
Tick == clock' = Fresh /\ UNCHANGED <<calls, mishaps>>
Mishap(kind) ==
  kind \in Mishaps /\ mishaps < MaxMishaps /\ mishaps' = mishaps + 1
Fault == Mishap("fault") /\ UNCHANGED <<clock, calls>>
Invoke(p, j) ==
  /\ job[p] = "idle" /\ j \in Ops /\ calls < MaxCalls
  /\ job' = [job EXCEPT ![p] = j]
  /\ calls' = calls + 1
  /\ UNCHANGED <<disk, locks, at, ghosts, clock, mishaps>>

(* markInputFailure: a new generation of one watermark, outside the locks. *)
MarkFailure(scope) ==
  /\ mark' = [mark EXCEPT ![scope] = Fresh]
  /\ pending' = pending \cup {Fresh}

(* The caller reads status and prepares a request from what it saw. *)
Prepare(p, j) ==
  /\ j \in (Operations \ {"sessionEnd"}) \cup {"replay"}
  /\ \A l \in LockFiles : lock[l] = Absent
  /\ ReadInput = NoFile => j = "replay"
  /\ Invoke(p, j)
  /\ ctx' = [ctx EXCEPT ![p] =
       [NoCtx EXCEPT !.token = IF ReadInput = NoFile THEN NoFile ELSE ReadInput.epoch,
                     !.revision = Revision(checkpoint), !.known = pending,
                     !.seen = Captured(ReadInput)]]

(* A native event arrives, or a caller asks for recovery.  Interrupt and    *)
(* SessionEnd without a receipt return at once, unless input was lost.      *)
Deliver(p, j) ==
  /\ j \in {"submit", "interrupt", "resume", "sessionEnd"} \cup Recoveries
  /\ j = "interrupt" => receipt # NoFile \/ Quarantined
  /\ j = "sessionEnd" => receipt # NoFile
  /\ Invoke(p, j)
  /\ ctx' = [ctx EXCEPT ![p] = [NoCtx EXCEPT !.raw = receipt]]

(* Interrupt that found no receipt but lost input: it fails, and marks.     *)
RefuseInterrupt(p) ==
  /\ job[p] = "interrupt" /\ ctx[p].raw = NoFile
  /\ Goto(p, "ready", "marking")
  /\ UNCHANGED <<disk, locks, job, ctx, ghosts, budget>>

(* finally: innermost lock first, each unlinked by its path. *)
Innermost(h) ==
  IF "input" \in h THEN "input" ELSE IF "state" \in h THEN "state" ELSE "gate"
Leave(p) ==
  /\ at[p] \in {"leaving", "failing"} /\ held[p] # {}
  /\ LetGo(p, Innermost(held[p]))
  /\ UNCHANGED <<disk, job, at, ctx, ghosts, budget>>

(* A failed hook marks the session only after it has left its lock.         *)
StartMark(p) ==
  /\ held[p] = {}
  /\ Goto(p, "failing", "marking")
  /\ UNCHANGED <<disk, locks, job, ctx, ghosts, budget>>

(* A watermark that cannot be written leaves only a message on stderr.      *)
Mark(p) ==
  /\ Goto(p, "marking", "leaving")
  /\ \/ MarkFailure("session") /\ Tick
     \/ Fault /\ UNCHANGED <<mark, pending>>
  /\ UNCHANGED <<receipt, checkpoint, ack, locks, job, ctx, bound>>

End(p) ==
  /\ held[p] = {} /\ Goto(p, "leaving", "ready")
  /\ job' = [job EXCEPT ![p] = "idle"]
  /\ ctx' = [ctx EXCEPT ![p] = NoCtx]
  /\ UNCHANGED <<disk, locks, ghosts, budget>>

(* Where a failure leads: replays, SessionEnd and operations are no new     *)
(* input, so only the other hooks mark a loss.                              *)
Failed(p) == IF job[p] \in {"submit", "interrupt", "resume"} THEN "failing" ELSE "leaving"

(* The input lock stayed busy beyond its deadline, or the state lock or the *)
(* gate was busy at the only attempt.                                       *)
Wanted(p) ==
  IF at[p] = "ready"
  THEN IF job[p] \in Hooks THEN "input"
       ELSE IF job[p] \in Operations THEN "state" ELSE "gate"
  ELSE IF job[p] = "recoverInput" THEN "state" ELSE "input"
Waiting(p) ==
  \/ at[p] \in {"ready", "viewing", "deciding"}
  \/ job[p] = "recoverInput" /\ at[p] = "gated"
GiveUp(p) ==
  /\ job[p] # "idle" /\ Waiting(p)
  /\ ~(job[p] = "interrupt" /\ ctx[p].raw = NoFile)
  /\ Wanted(p) \notin held[p] /\ lock[Wanted(p)] # Absent
  /\ at' = [at EXCEPT ![p] = Failed(p)]
  /\ UNCHANGED <<disk, locks, job, ctx, ghosts, budget>>

(***************************************************************************)
(* Native input hooks: read, publish, drop the acknowledgment.             *)
(***************************************************************************)
EnterHook(p) ==
  /\ job[p] \in Hooks
  /\ ~(job[p] = "interrupt" /\ ctx[p].raw = NoFile)
  /\ Goto(p, "ready", "publishing")
  /\ Hold(p, "input")
  /\ ctx' = [ctx EXCEPT ![p].view = ReadInput]
  /\ UNCHANGED <<disk, job, ghosts, budget>>

(* A replay must carry the token of the view it finds, and there must be    *)
(* something to replay; a resumed session without input has nothing to do.  *)
ReplayConflict(p) ==
  LET v == ctx[p].view
  IN  IF v = NoFile THEN ctx[p].token # NoFile
      ELSE ~NeedsInput(v) \/ ctx[p].token # v.epoch
NothingToDo(p) ==
  \/ job[p] = "replay" /\ ReplayConflict(p)
  \/ job[p] = "resume" /\ ctx[p].view = NoFile
Skip(p) ==
  /\ NothingToDo(p)
  /\ Goto(p, "publishing", "leaving")
  /\ UNCHANGED <<disk, locks, job, ctx, ghosts, budget>>

(* The receipt each entry point publishes, from the view it read. *)
Known(v) == IF v = NoFile THEN [Blank EXCEPT !.fails = ack] ELSE v
Submitted_ClearsQuarantine(v) ==
  [epoch |-> Fresh, fails |-> Known(v).fails, replay |-> FALSE, resume |-> FALSE,
   interrupted |-> FALSE, captured |-> Captured(v) + 1]
Submitted(v) ==
  LET kept == v # NoFile /\ v.replay   \* an ordinary input clears no quarantine
  IN  [epoch |-> Fresh, fails |-> Known(v).fails, replay |-> kept,
       resume |-> kept /\ v.resume, interrupted |-> kept /\ v.interrupted,
       captured |-> Captured(v) + 1]
Replayed(v) ==
  [epoch |-> Fresh, fails |-> Known(v).fails, replay |-> FALSE, resume |-> FALSE,
   interrupted |-> FALSE, captured |-> Captured(v) + 1]
Interrupted(v) ==
  LET base == IF v = NoFile THEN Blank ELSE v
  IN  [base EXCEPT !.epoch = Fresh, !.interrupted = TRUE]
Resumed(v) == [v EXCEPT !.epoch = Fresh, !.resume = TRUE]
Reconciled(v) == [v EXCEPT !.epoch = Fresh, !.captured = @ + 1]

Publication(p) ==
  LET v == ctx[p].view
  IN  CASE job[p] = "submit" -> Submitted(v)
        [] job[p] = "replay" -> Replayed(v)
        [] job[p] = "interrupt" -> Interrupted(v)
        [] job[p] = "resume" -> Resumed(v)
        [] job[p] = "reconcile" -> Reconciled(v)

Publish(p) ==
  /\ ~NothingToDo(p)
  /\ Goto(p, "publishing", "publishedReceipt")
  /\ receipt' = Publication(p)
  /\ Tick
  /\ IF job[p] = "replay"
     THEN pending' = pending \ ctx[p].known /\ bound' = checkpoint
     ELSE UNCHANGED ghosts
  /\ UNCHANGED <<checkpoint, mark, ack, locks, job, ctx>>

DropAck(p) ==
  /\ Goto(p, "publishedReceipt",
          IF job[p] = "recoverInput" THEN "reclaiming" ELSE "leaving")
  /\ ack' = NoMarks
  /\ UNCHANGED <<receipt, checkpoint, mark, locks, job, ctx, ghosts, budget>>

(* A hook that fails before it publishes leaves normally. *)
FailBeforePublish(p) ==
  /\ job[p] \in Hooks /\ Fault
  /\ Goto(p, "publishing", Failed(p))
  /\ UNCHANGED <<disk, locks, job, ctx, ghosts>>

(* A failed publication, or a failed unlink of the acknowledgment, keeps    *)
(* the input lock.                                                          *)
FailPublish(p) ==
  /\ job[p] # "recoverInput" /\ at[p] \in {"publishing", "publishedReceipt"}
  /\ Fault
  /\ Goto(p, at[p], "retaining")
  /\ UNCHANGED <<disk, locks, job, ctx, ghosts>>

Retain(p) ==
  /\ Goto(p, "retaining", Failed(p))
  /\ held' = [held EXCEPT ![p] = @ \ {"input"}]
  /\ UNCHANGED <<disk, lock, job, ctx, ghosts, budget>>

(***************************************************************************)
(* Checkpoint operations, under the state lock.                            *)
(***************************************************************************)
EnterOperation_Unlocked(p) ==
  /\ job[p] \in Operations
  /\ Goto(p, "ready", "viewing")
  /\ UNCHANGED <<disk, locks, job, ctx, ghosts, budget>>
EnterOperation(p) ==
  /\ job[p] \in Operations
  /\ Goto(p, "ready", "viewing")
  /\ Hold(p, "state")
  /\ UNCHANGED <<disk, job, ctx, ghosts, budget>>

View(p) ==
  /\ job[p] \in Operations
  /\ Goto(p, "viewing", "viewed")
  /\ Hold(p, "input")
  /\ ctx' = [ctx EXCEPT ![p].view = ReadInput]
  /\ UNCHANGED <<disk, job, ghosts, budget>>

(* The guards each operation evaluates on its view and the checkpoint. *)
SameBasis_AnyRevision(p) == ctx[p].token = ctx[p].view.epoch
SameBasis(p) ==
  /\ ctx[p].token = ctx[p].view.epoch
  /\ ctx[p].revision = Revision(ctx[p].prior)
Admitted(p) ==
  LET v == ctx[p].view
      c == ctx[p].prior
      bindable == SameBasis(p) /\ ~v.interrupted /\ ~NeedsInput(v)
  IN  /\ v # NoFile
      /\ CASE job[p] = "bind" -> bindable
           [] job[p] = "lift" -> bindable /\ c # NoFile /\ c.paused
           [] job[p] = "pause" -> c # NoFile /\ SameBasis(p)
           [] job[p] = "retire" ->
                /\ SameBasis(p) /\ ~v.replay
                /\ IF c = NoFile THEN ~v.resume
                   ELSE /\ Token(c.epoch, NoMarks) = v.epoch
                        /\ ~c.paused
           [] job[p] = "cancel" ->
                /\ SameBasis(p)
                /\ c = NoFile => ~NeedsInput(v)
           [] job[p] = "reconcile" -> SameBasis(p) /\ ~NeedsInput(v) /\ ~v.interrupted
           [] job[p] = "sessionEnd" ->
                c = NoFile /\ ~NeedsInput(v) /\ ~v.interrupted

GiveBack(p) ==
  /\ Goto(p, "viewed", "deciding")
  /\ LetGo(p, "input")
  /\ ctx' = [ctx EXCEPT ![p].prior = checkpoint]
  /\ UNCHANGED <<disk, job, ghosts, budget>>

Retiring(p) == job[p] \in {"retire", "cancel", "sessionEnd"}

Recheck(p) ==
  /\ job[p] \in Operations
  /\ Admitted(p)
  /\ Goto(p, "deciding", "rechecking")
  /\ Hold(p, "input")
  /\ UNCHANGED <<disk, job, ctx, ghosts, budget>>

(* The view must not have changed since the decision (currentEpoch). *)
Unchanged_NotReread(p) == ctx[p].view # NoFile
Unchanged(p) == ReadInput = ctx[p].view
Accept(p) ==
  /\ Unchanged(p)
  /\ Goto(p, "rechecking",
          IF Retiring(p) THEN "unlinkState"
          ELSE IF job[p] = "reconcile" THEN "publishing" ELSE "committing")
  /\ ctx' = [ctx EXCEPT ![p].raw = receipt, ![p].ack = ack]
  /\ UNCHANGED <<disk, locks, job, ghosts, budget>>

(* A guard or the recheck fails, or native evidence does not support the    *)
(* call, or the files inspected do not.                                     *)
Decline(p) ==
  /\ at[p] \in {"deciding", "rechecking"}
  /\ Goto(p, at[p], "leaving")
  /\ UNCHANGED <<disk, locks, job, ctx, ghosts, budget>>

(* bind writes a new checkpoint for the current epoch and keeps a pause it  *)
(* was not asked to lift; pause keeps the epoch the checkpoint had.         *)
NewCheckpoint_SameRevision(p) ==
  [epoch |-> ctx[p].view.epoch[1], revision |-> Revision(ctx[p].prior),
   paused |-> job[p] = "pause", seen |-> ctx[p].seen]
NewCheckpoint_PauseReconciles(p) ==
  LET prior == ctx[p].prior
  IN  IF job[p] = "pause"
      THEN [prior EXCEPT !.epoch = ctx[p].view.epoch[1], !.revision = @ + 1,
                         !.paused = TRUE]
      ELSE [epoch |-> ctx[p].view.epoch[1], revision |-> Revision(prior) + 1,
            paused |-> prior # NoFile /\ prior.paused /\ job[p] # "lift",
            seen |-> ctx[p].seen]
NewCheckpoint(p) ==
  LET prior == ctx[p].prior
      wasPaused == prior # NoFile /\ prior.paused
  IN  IF job[p] = "pause"
      THEN [prior EXCEPT !.revision = @ + 1, !.paused = TRUE]
      ELSE [epoch |-> ctx[p].view.epoch[1], revision |-> Revision(prior) + 1,
            paused |-> wasPaused /\ job[p] # "lift", seen |-> ctx[p].seen]

Commit(p) ==
  /\ Goto(p, "committing", "leaving")
  /\ \/ checkpoint' = NewCheckpoint(p) /\ bound' = NewCheckpoint(p) /\ UNCHANGED budget
     \/ Fault /\ UNCHANGED <<checkpoint, bound>>
  /\ UNCHANGED <<receipt, mark, ack, locks, job, ctx, pending>>

(***************************************************************************)
(* Retirement, under both locks (retireFiles).                             *)
(***************************************************************************)
UnlinkState(p) ==
  /\ Goto(p, "unlinkState", "unlinkReceipt")
  /\ checkpoint' = NoFile
  /\ UNCHANGED <<receipt, mark, ack, locks, job, ctx, ghosts, budget>>

UnlinkReceipt(p) ==
  /\ Goto(p, "unlinkReceipt", "acknowledging")
  /\ receipt' = NoFile
  /\ UNCHANGED <<checkpoint, mark, ack, locks, job, ctx, ghosts, budget>>

(* Only confirmed generations are acknowledged. *)
ToAcknowledge_Unconfirmed(p) == ctx[p].view.fails # NoMarks
ToAcknowledge(p) == ~ctx[p].view.replay /\ ctx[p].view.fails # NoMarks
Acknowledge(p) ==
  /\ Goto(p, "acknowledging", "verifying")
  /\ IF ToAcknowledge(p)
     THEN ack' = ctx[p].view.fails /\ ctx' = [ctx EXCEPT ![p].acked = TRUE]
     ELSE UNCHANGED <<ack, ctx>>
  /\ UNCHANGED <<receipt, checkpoint, mark, locks, job, ghosts, budget>>

Marked(p) == mark # ctx[p].view.fails

(* No failure was marked meanwhile: the task is retired.  Cancelling it     *)
(* also gives up the losses that only its receipt recorded; those that a    *)
(* watermark records stay.                                                  *)
Retired(p) ==
  /\ Goto(p, "verifying", "leaving")
  /\ ~Marked(p)
  /\ bound' = NoFile
  /\ pending' = IF job[p] = "cancel"
                 THEN pending \cap {mark.session, mark.workspace} ELSE pending
  /\ UNCHANGED <<disk, locks, job, ctx, budget>>

(* Any failure after the first unlink compensates, in this order: the       *)
(* acknowledgment, the checkpoint, the receipt.                             *)
RetireFails(p) ==
  /\ \/ Goto(p, "verifying", "undoAck") /\ Marked(p) /\ UNCHANGED <<budget, ctx>>
     \/ /\ Fault
        /\ \/ at[p] = "unlinkState" /\ ctx[p].prior # NoFile
           \/ at[p] = "unlinkReceipt" /\ ctx[p].raw # NoFile
           \/ at[p] = "acknowledging" /\ ToAcknowledge(p)
           \/ at[p] = "verifying"
        /\ Goto(p, at[p], "undoAck")
        /\ ctx' = [ctx EXCEPT ![p].acked = @ \/ at[p] = "acknowledging"]
  /\ UNCHANGED <<disk, locks, job, ghosts>>

(* One file is put back, or that fails and the compensation is broken.      *)
Broken(p) ==
  /\ Fault
  /\ ctx' = [ctx EXCEPT ![p].broken = TRUE]
UndoAck(p) ==
  /\ Goto(p, "undoAck", "restoreState")
  /\ \/ ack' = (IF ctx[p].acked THEN ctx[p].ack ELSE ack) /\ UNCHANGED <<ctx, budget>>
     \/ ctx[p].acked /\ Broken(p) /\ UNCHANGED ack
  /\ UNCHANGED <<receipt, checkpoint, mark, locks, job, ghosts>>
RestoreState_Forgotten(p) ==
  /\ Goto(p, "restoreState", "restoreReceipt")
  /\ UNCHANGED <<disk, locks, job, ctx, ghosts, budget>>
RestoreState(p) ==
  /\ Goto(p, "restoreState", "restoreReceipt")
  /\ \/ checkpoint' = ctx[p].prior /\ UNCHANGED <<ctx, budget>>
     \/ checkpoint # ctx[p].prior /\ Broken(p) /\ UNCHANGED checkpoint
  /\ UNCHANGED <<receipt, mark, ack, locks, job, ghosts>>
RestoreReceipt(p) ==
  /\ Goto(p, "restoreReceipt", "compensated")
  /\ \/ receipt' = ctx[p].raw /\ UNCHANGED <<ctx, budget>>
     \/ receipt # ctx[p].raw /\ Broken(p) /\ UNCHANGED receipt
  /\ UNCHANGED <<checkpoint, mark, ack, locks, job, ghosts>>

(* A broken compensation marks the session; if that fails too, the input    *)
(* lock is kept for recovery.                                               *)
Compensated(p) ==
  /\ \/ ~ctx[p].broken /\ Goto(p, "compensated", "leaving")
        /\ UNCHANGED <<mark, pending, budget>>
     \/ ctx[p].broken /\ Goto(p, "compensated", "leaving")
        /\ MarkFailure("session") /\ Tick
     \/ ctx[p].broken /\ Goto(p, "compensated", "retaining")
        /\ Fault /\ UNCHANGED <<mark, pending>>
  /\ UNCHANGED <<receipt, checkpoint, ack, locks, job, ctx, bound>>

(***************************************************************************)
(* recover-lock.                                                           *)
(***************************************************************************)
TargetOf(p) == IF job[p] = "recoverInput" THEN "input" ELSE "state"

EnterRecovery_Ungated(p) ==
  /\ job[p] \in Recoveries
  /\ Goto(p, "ready", "gated")
  /\ UNCHANGED <<disk, locks, job, ctx, ghosts, budget>>
EnterRecovery(p) ==
  /\ job[p] \in Recoveries
  /\ Goto(p, "ready", "gated")
  /\ Hold(p, "gate")
  /\ UNCHANGED <<disk, job, ctx, ghosts, budget>>

EnterInputRecovery(p) ==
  /\ job[p] = "recoverInput" /\ "state" \notin held[p]
  /\ Goto(p, "gated", "gated")
  /\ Hold(p, "state")
  /\ UNCHANGED <<disk, job, ctx, ghosts, budget>>

Admissible(p) == job[p] = "recoverInput" => "state" \in held[p]
InspectOwner(p) ==
  /\ Admissible(p)
  /\ Goto(p, "gated", IF lock[TargetOf(p)] = DeadPid THEN "rereading" ELSE "leaving")
  /\ UNCHANGED <<disk, locks, job, ctx, ghosts, budget>>

RereadOwner(p) ==
  /\ Goto(p, "rereading",
          IF lock[TargetOf(p)] # DeadPid THEN "leaving"
          ELSE IF job[p] = "recoverInput" THEN "invalidating" ELSE "reclaiming")
  /\ UNCHANGED <<disk, locks, job, ctx, ghosts, budget>>

(* The input behind a dead input lock may not have been captured: a receipt *)
(* is flagged under a new epoch, a missing one becomes a session failure.   *)
Invalidate(p) ==
  /\ \/ /\ receipt # NoFile
        /\ Goto(p, "invalidating", "publishedReceipt")
        /\ receipt' = [receipt EXCEPT !.epoch = Fresh, !.replay = TRUE]
        /\ pending' = pending \cup {Fresh} /\ UNCHANGED mark
     \/ /\ receipt = NoFile
        /\ Goto(p, "invalidating", "reclaiming")
        /\ MarkFailure("session") /\ UNCHANGED receipt
  /\ Tick
  /\ UNCHANGED <<checkpoint, ack, locks, job, ctx, bound>>

FailInvalidate(p) ==
  /\ job[p] = "recoverInput" /\ at[p] \in {"invalidating", "publishedReceipt"}
  /\ Fault
  /\ Goto(p, at[p], "leaving")
  /\ UNCHANGED <<disk, locks, job, ctx, ghosts>>

Reclaim(p) ==
  /\ Goto(p, "reclaiming", "leaving")
  /\ lock' = [lock EXCEPT ![TargetOf(p)] = Absent]
  /\ UNCHANGED <<disk, held, job, ctx, ghosts, budget>>

(***************************************************************************)
(* The host.                                                               *)
(***************************************************************************)
Orphaned(p) == [l \in LockFiles |-> IF lock[l] = p THEN DeadPid ELSE lock[l]]

Crash(p) ==
  /\ job[p] # "idle" /\ Mishap("crash")
  /\ lock' = Orphaned(p) /\ held' = [held EXCEPT ![p] = {}]
  /\ job' = [job EXCEPT ![p] = "idle"]
  /\ at' = [at EXCEPT ![p] = "ready"]
  /\ ctx' = [ctx EXCEPT ![p] = NoCtx]
  /\ UNCHANGED <<disk, ghosts, clock, calls>>

(* A process that kept the input lock exits. *)
Exit(p) ==
  /\ job[p] = "idle" /\ lock["input"] = p
  /\ lock' = Orphaned(p)
  /\ UNCHANGED <<disk, held, job, at, ctx, ghosts, budget>>

(* Another process of the workspace receives input it cannot attribute to a *)
(* session, and marks the whole workspace.                                  *)
TransportLoss ==
  /\ Mishap("loss")
  /\ MarkFailure("workspace")
  /\ clock' = Fresh
  /\ UNCHANGED <<receipt, checkpoint, ack, locks, job, at, ctx, bound, calls>>

Hook(p) == EnterHook(p) \/ RefuseInterrupt(p) \/ Skip(p) \/ Publish(p)
           \/ DropAck(p) \/ FailBeforePublish(p) \/ FailPublish(p)
Operation(p) == EnterOperation(p) \/ View(p) \/ GiveBack(p) \/ Recheck(p)
                \/ Accept(p) \/ Decline(p) \/ Commit(p)
Retirement(p) == UnlinkState(p) \/ UnlinkReceipt(p) \/ Acknowledge(p) \/ Retired(p)
                 \/ RetireFails(p) \/ UndoAck(p) \/ RestoreState(p)
                 \/ RestoreReceipt(p) \/ Compensated(p)
Recovery(p) == EnterRecovery(p) \/ EnterInputRecovery(p) \/ InspectOwner(p)
               \/ RereadOwner(p) \/ Invalidate(p) \/ FailInvalidate(p) \/ Reclaim(p)
Exiting(p) == GiveUp(p) \/ Leave(p) \/ StartMark(p) \/ Mark(p) \/ Retain(p) \/ End(p)

Next ==
  \/ TransportLoss
  \/ \E p \in Procs :
       \/ \E j \in Jobs : Prepare(p, j) \/ Deliver(p, j)
       \/ Hook(p) \/ Operation(p) \/ Retirement(p) \/ Recovery(p) \/ Exiting(p)
       \/ Crash(p) \/ Exit(p)

Spec == Init /\ [][Next]_vars

(***************************************************************************)
(* Properties.                                                             *)
(***************************************************************************)
TypeOK ==
  /\ receipt \in Receipts \cup {NoFile}
  /\ checkpoint \in Checkpoints \cup {NoFile} /\ bound \in Checkpoints \cup {NoFile}
  /\ mark \in Marks /\ ack \in Marks
  /\ lock \in [LockFiles -> Procs \cup {Absent, DeadPid}]
  /\ held \in [Procs -> SUBSET LockFiles]
  /\ job \in [Procs -> Jobs]
  /\ pending \subseteq 1 .. clock

(* Once a loss of native input is on disk, every reader outside the input   *)
(* lock sees quarantined input until a replay that knew of the loss         *)
(* disposes of it, or a cancellation if only the receipt recorded it: no    *)
(* ordinary input, interrupt, resume, retirement, failed write or recovered *)
(* lock makes the input look complete again.                                *)
LossStaysQuarantined ==
  (pending # {} /\ lock["input"] = Absent) => Quarantined

(* A checkpoint the task is still owed never disappears from a session that *)
(* looks healthy: a retirement that was rejected, failed or was killed half *)
(* way has put it back, or left the input locked or quarantined.            *)
CheckpointNotLost ==
  checkpoint # bound =>
    Quarantined \/ lock["input"] # Absent

(* status reports the input as reconciled only if the binding was prepared  *)
(* by a caller that had seen every input the receipt has captured.          *)
ReconciledMeansSeen ==
  (checkpoint # NoFile /\ ReadInput # NoFile /\ ~NeedsInput(ReadInput)
     /\ ReadInput.epoch = Token(checkpoint.epoch, NoMarks)) =>
    checkpoint.seen = receipt.captured

(* A binding reaches the disk only for the receipt that is there: an input  *)
(* published while it was being decided rejects it.                         *)
BindsLatestInput ==
  [][\A p \in Procs :
       (job[p] \in {"bind", "lift"} /\ at[p] = "committing" /\ checkpoint' # checkpoint) =>
         receipt # NoFile /\ checkpoint'.epoch = receipt.epoch]_vars

(* No retirement deletes captured input its caller had not seen, and the end *)
(* of a session deletes none that is interrupted or still to be recovered.  *)
RetiresOnlySeenInput ==
  [][\A p \in Procs :
       (at[p] = "unlinkReceipt" /\ receipt # NoFile /\ receipt' = NoFile) =>
         \/ /\ job[p] = "sessionEnd" /\ ~receipt.interrupted /\ ~NeedsInput(receipt)
            /\ receipt.captured = ctx[p].view.captured
         \/ receipt.captured = ctx[p].seen]_vars

(* Writers of the checkpoint never overwrite each other: every version that *)
(* replaces another is its direct successor.                                *)
RevisionsFollow ==
  [][(checkpoint # NoFile /\ checkpoint' # NoFile /\ checkpoint' # checkpoint) =>
       checkpoint'.revision = checkpoint.revision + 1]_vars

(* A pause ends only by a call that read the paused checkpoint and lifts or *)
(* cancels it; a request prepared before the pause never does.  A pause that *)
(* a failed retirement has already taken from the disk is quarantined, and   *)
(* ends with the replay that confirms the input.                             *)
PauseHolds ==
  [][(bound # NoFile /\ bound.paused /\ bound' # bound
        /\ ~(bound' # NoFile /\ bound'.paused)) =>
       \/ \E p \in Procs : /\ job[p] \in {"lift", "cancel"}
                           /\ at[p] \in {"committing", "verifying"}
                           /\ ctx[p].revision = bound.revision
       \/ /\ checkpoint = NoFile /\ Quarantined
          /\ \E p \in Procs : job[p] = "replay" /\ at[p] = "publishing"]_vars

(* The lock files go through the protocol of SessionLocks. *)
JobOf(p) == CASE job[p] \in Hooks -> "hook"
              [] job[p] \in Operations -> "operation"
              [] OTHER -> job[p]
StageOf(p) ==
  CASE at[p] \in {"leaving", "failing", "marking", "retaining"} -> "unwinding"
    [] at[p] = "rereading" -> "inspected"
    [] at[p] \in {"invalidating", "reclaiming"} -> "confirmed"
    [] at[p] \in {"ready", "viewing", "viewed", "gated"} -> "entering"
    [] OTHER -> IF job[p] = "recoverInput" THEN "confirmed"
                ELSE IF job[p] \in Hooks THEN "entering" ELSE "deciding"
lockJob == [p \in Procs |-> JobOf(p)]
lockStage == [p \in Procs |-> StageOf(p)]
Locks == INSTANCE SessionLocks WITH job <- lockJob, stage <- lockStage, calm <- FALSE
FollowsLockProtocol == Locks!Spec

(* A loss that a replay has confirmed, alone or with a retirement, needs no *)
(* recovery again.                                                          *)
ConfirmedStaysConfirmed ==
  (Quarantined /\ lock["input"] = Absent) => pending # {}
=============================================================================
