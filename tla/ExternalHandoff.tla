--------------------------- MODULE ExternalHandoff ---------------------------
(***************************************************************************)
(* The external hand-off executor, runtime/external-handoff.cjs: one task  *)
(* moves from its source thread to a fresh native target in three calls,   *)
(* prepare, commit and release, over the durable scope recorder.           *)
(*                                                                         *)
(* The executor is one event loop.  Between two awaits a call runs alone;  *)
(* at an await the deadline's timer, cancel and the process factory may    *)
(* run.  Time and other processes go on all the while.  A call is a        *)
(* sequence of instructions: a maximal run of awaited questions (the       *)
(* source's current state, a review) is one "guard", and a record that     *)
(* changes no field the recorder's settlements look at is folded into the  *)
(* next one.  Reviews, digests and policies are outcomes of their guard.   *)
(*                                                                         *)
(* A reviewer (runtime/native-task-execution.cjs) reads held transfers and *)
(* settles them: whatever the recorder lets it settle, at any moment.      *)
(***************************************************************************)
EXTENDS Naturals, Sequences

CONSTANTS
  Scope, Transfer, Source, Target, Executor, Reviewer, None,
  MaxRevision, MaxTokens  \* larger than any run of this module needs

VARIABLES
  scope, transfer, issued, view, commits, missed,  \* the recorder
  plan,       \* the sandbox asked for
  pc,         \* the next instruction of Program
  action,     \* the running call: none, one, or one that failed and is held
  over,       \* how the executor ended, if it has
  certain,    \* no record had an unknown outcome
  cancelled,
  late,       \* the deadline has passed
  stopping,
  timer,      \* the deadline's timer
  cancelling, \* how far cancel has got
  native,     \* the owned process, 0 for none
  promise,    \* the process the memoized close is about, 0 for none
  proc,       \* the first process and its replacement
  effect      \* what the last mutating request did at the target

recorderVars == <<scope, transfer, issued, view, commits, missed>>
callVars == <<pc, action, over>>
stopVars == <<cancelled, stopping, timer, cancelling>>
nativeVars == <<native, promise, proc>>
vars == <<recorderVars, plan, callVars, certain, late, stopVars, nativeVars, effect>>

Rec == INSTANCE CarrierRecorder
  WITH Scopes <- {Scope}, Transfers <- {Transfer}, Threads <- {Source, Target},
       Controllers <- {Executor, Reviewer}

ASSUME PartiesDistinct == Source # Target /\ Executor # Reviewer
ASSUME RecorderConstants ==
  /\ MaxRevision \in Nat /\ MaxTokens \in Nat
  /\ None \notin {Scope, Transfer, Source, Target}
  /\ None \notin Rec!Rows /\ None \notin Rec!Views

Plans == {"read-only", "workspace-write"}
Gone == {"closed", "killed"}  \* closed: by itself and with every proof of it
Alive == {"starting", "open", "closing"}
Handlers == {"off", "set", "closing", "waiting", "holding", "done"}

(***************************************************************************)
(* The calls as instructions.                                              *)
(***************************************************************************)
Guard == <<"guard", "none">>
Rest == <<"rest", "none">>
Note(what) == <<"record", what>>

StartNative ==
  <<<<"live", "none">>, Note("starting"), <<"start", "none">>, <<"open", "none">>, Guard,
    Note("connected")>>
Request(what) ==
  <<Guard, Note(what), <<"send", what>>, <<"answer", what>>, Guard, Note("answered")>>

(* request clears the pending effect before turn names the running turn.      *)
Turn_Unnamed ==
  Request("turn") \o <<<<"terminal", "none">>, Guard, Note("complete")>>
Turn ==
  Request("turn") \o <<Note("running"), <<"terminal", "none">>, Guard, Note("complete")>>

Prepare ==
  <<Guard, <<"bind", "none">>, <<"begin", "none">>>> \o StartNative
    \o Request("thread/start") \o <<Note("target")>> \o Turn
PrepareWritePolicy ==
  <<Guard, Note("closing"), <<"close", "none">>, <<"closed", "none">>, Note("peer-closed")>>
    \o StartNative \o Request("thread/resume")
Commit_TurnFirst(p) ==
  (IF p = "workspace-write" THEN PrepareWritePolicy ELSE <<>>)
    \o <<Guard>> \o Turn \o <<Note("writer")>>
Commit(p) ==
  (IF p = "workspace-write" THEN PrepareWritePolicy ELSE <<>>)
    \o <<Guard, Note("writer")>> \o Turn
Release_KeepsDuty ==
  <<Guard>> \o Turn
    \o <<Guard, <<"close", "none">>, <<"closed", "none">>, Guard, Note("completed"), <<"settle", "none">>>>
Release ==
  <<Guard, Note("released")>> \o Turn
    \o <<Guard, <<"close", "none">>, <<"closed", "none">>, Guard, Note("completed"), <<"settle", "none">>>>
Programs ==
  [p \in Plans |->
     <<Rest>> \o Prepare \o <<Rest>> \o Commit(p) \o <<Rest>> \o Release]

Verb == Programs[plan][pc][1]
What == Programs[plan][pc][2]

(* These follow the instruction before them without an await.                 *)
Synchronous == {"live", "bind", "begin", "record", "start", "close", "settle"}
LoopFree == ~(action = "running" /\ Verb \in Synchronous)

Init ==
  /\ Rec!Init
  /\ plan \in Plans
  /\ pc = 1 /\ action = "idle" /\ over = "no"
  /\ certain = TRUE
  /\ cancelled = FALSE /\ late = FALSE /\ stopping = FALSE
  /\ timer = "off" /\ cancelling = "off"
  /\ native = 0 /\ promise = 0
  /\ proc = <<"unborn", "unborn">>
  /\ effect = "none"

(***************************************************************************)
(* Stopping.                                                               *)
(***************************************************************************)
Live == ~cancelled /\ ~late

(* closeNative asks the owned process to close, once, and waits for its end.  *)
CloseNative ==
  IF native # 0 /\ promise = 0
  THEN /\ promise' = native
       /\ proc' = [proc EXCEPT ![native] = IF @ = "open" THEN "closing" ELSE @]
  ELSE UNCHANGED <<promise, proc>>
NativeClosed == native = 0 \/ (promise # 0 /\ proc[promise] \in Gone)
ClosedByItself == native # 0 /\ promise # 0 /\ proc[promise] = "closed"

Advance == pc' = pc + 1 /\ UNCHANGED <<action, over>>

(* The running call throws: execute goes on with hold.                        *)
Fail ==
  /\ action' = "holding" /\ stopping' = TRUE
  /\ timer' = IF timer = "set" THEN "off" ELSE timer
  /\ CloseNative
  /\ UNCHANGED <<pc, over, cancelled, cancelling, native>>

Continue == Advance /\ UNCHANGED <<stopVars, nativeVars>>

(***************************************************************************)
(* Recording.  The executor's own state is the one it last recorded.       *)
(***************************************************************************)
Joined == view[Executor] # None /\ view[Executor].transfer # None
State == view[Executor].state

Noted(s, what) ==
  CASE what \in {"starting", "thread/start", "thread/resume", "closing"} ->
         [s EXCEPT !.pending = "request"]
    [] what = "answered" -> [s EXCEPT !.pending = "none"]
    [] what = "connected" ->
         [s EXCEPT !.pending = "none",
                   !.peer = IF @ = "replacing" THEN "replaced" ELSE @]
    [] what = "turn" ->
         [s EXCEPT !.pending = "request",
                   !.intake = IF @ = "none" THEN "started" ELSE @]
    [] what \in {"sent", "running"} -> [s EXCEPT !.pending = "turn"]
    [] what = "complete" -> [s EXCEPT !.pending = "none", !.intake = "complete"]
    [] what = "target" -> [s EXCEPT !.target = Target]
    [] what = "peer-closed" -> [s EXCEPT !.pending = "none", !.peer = "replacing"]
    [] what = "writer" -> [s EXCEPT !.writer = s.target]
    [] what = "released" -> [s EXCEPT !.recovery = "controller-owned"]
    [] what = "completed" ->
         [s EXCEPT !.phase = "external-completed", !.closed = TRUE]

(* A record commits and is read back, or its outcome is unknown to its caller *)
(* whether it was committed or not.                                           *)
Record(next) ==
  /\ Rec!CompareAndSet(Executor, next) \/ UNCHANGED recorderVars
  /\ certain' = (view' # view)

(***************************************************************************)
(* The instructions.                                                       *)
(***************************************************************************)
At(verb) == action = "running" /\ Verb = verb

(* A caller makes the next call; the first one sets the deadline's timer.     *)
Call ==
  /\ action = "idle" /\ over = "no" /\ Verb = "rest"
  /\ pc' = pc + 1 /\ action' = "running"
  /\ timer' = IF pc = 1 THEN "set" ELSE timer
  /\ UNCHANGED <<recorderVars, plan, over, certain, late, cancelled, stopping,
                 cancelling, nativeVars, effect>>

ScopeUnchanged ==
  Joined => /\ scope[Scope].active = Transfer
            /\ scope[Scope].writer = view[Executor].writer
            /\ scope[Scope].token = view[Executor].token
GuardHolds_Stale ==
  /\ At("guard") /\ ScopeUnchanged
  /\ Continue
  /\ UNCHANGED <<recorderVars, plan, certain, late, effect>>
GuardHolds ==
  /\ At("guard") /\ Live /\ ScopeUnchanged
  /\ Continue
  /\ UNCHANGED <<recorderVars, plan, certain, late, effect>>

(* Any await may throw, at the latest when its deadline passes.  A start is   *)
(* awaited until its process is gone, a close until it is.                    *)
AwaitFails ==
  /\ action = "running" /\ Verb \in {"guard", "send", "open", "answer", "terminal", "closed"}
  /\ Verb = "open" => late \/ \A g \in {1, 2} : proc[g] \notin {"starting", "closing"}
  /\ Verb = "closed" => NativeClosed
  /\ Fail
  /\ UNCHANGED <<recorderVars, plan, certain, late, effect>>

Bind ==
  /\ At("bind")
  /\ \/ Rec!BindScope(Executor, Scope, Source) /\ (IF view' # view THEN Continue ELSE Fail)
     \/ /\ UNCHANGED recorderVars
        /\ IF Rec!Idle(Scope) /\ scope[Scope].writer = Source THEN Continue \/ Fail ELSE Fail
  /\ UNCHANGED <<plan, certain, late, effect>>

(* Until begin has answered there is no revision to record with.              *)
Begin ==
  /\ At("begin")
  /\ \/ Rec!Begin(Executor, Scope, Transfer, "external")
          /\ (IF view' # view THEN Continue ELSE Fail)
     \/ UNCHANGED recorderVars /\ Fail
  /\ UNCHANGED <<plan, certain, late, effect>>

RecordNext ==
  /\ At("record")
  /\ Record(Noted(State, What))
  /\ IF certain' THEN Continue ELSE Fail
  /\ UNCHANGED <<plan, late, effect>>

(* Before its replacement starts, the closed process is forgotten.            *)
ForgetNative_KeepsClose ==
  /\ At("live")
  /\ IF Live
     THEN Advance /\ native' = 0 /\ UNCHANGED <<promise, proc, stopVars>>
     ELSE Fail
  /\ UNCHANGED <<recorderVars, plan, certain, late, effect>>
ForgetNative ==
  /\ At("live")
  /\ IF Live
     THEN Advance /\ native' = 0 /\ promise' = 0 /\ UNCHANGED <<proc, stopVars>>
     ELSE Fail
  /\ UNCHANGED <<recorderVars, plan, certain, late, effect>>

Start ==
  /\ At("start")
  /\ IF Live
     THEN /\ Advance
          /\ LET g == IF proc[1] = "unborn" THEN 1 ELSE 2
             IN  proc' = [proc EXCEPT ![g] = "starting"]
          /\ UNCHANGED <<native, promise, stopVars>>
     ELSE Fail
  /\ UNCHANGED <<recorderVars, plan, certain, late, effect>>

(* The factory's continuation closes a process that comes too late.           *)
FactoryAnswers_Always(g) ==
  /\ LoopFree /\ proc[g] = "starting"
  /\ proc' = [proc EXCEPT ![g] = "open"] /\ native' = g
  /\ IF At("open") THEN Advance ELSE UNCHANGED callVars
  /\ UNCHANGED <<recorderVars, plan, certain, late, stopVars, promise, effect>>
FactoryAnswers(g) ==
  /\ LoopFree /\ proc[g] = "starting"
  /\ \/ /\ Live /\ ~stopping /\ At("open")
        /\ proc' = [proc EXCEPT ![g] = "open"] /\ native' = g
        /\ Advance
     \/ /\ ~Live \/ stopping
        /\ proc' = [proc EXCEPT ![g] = "closing"]
        /\ UNCHANGED <<native, callVars>>
     \/ /\ proc' = [proc EXCEPT ![g] = "killed"]
        /\ UNCHANGED <<native, callVars>>
  /\ UNCHANGED <<recorderVars, plan, certain, late, stopVars, promise, effect>>

(* The request's reference is recorded in the very write that sends it.       *)
Send ==
  /\ At("send") /\ Live /\ proc[native] = "open"
  /\ \/ /\ What = "turn"
        /\ Record(Noted(State, "sent"))
        /\ IF certain' THEN Continue /\ effect' = "running"
                       ELSE Fail /\ UNCHANGED effect
     \/ /\ What # "turn"
        /\ Continue /\ effect' = "request"
        /\ UNCHANGED <<recorderVars, certain>>
  /\ UNCHANGED <<plan, late>>

Answer ==
  /\ At("answer")
  /\ effect' = IF What = "turn" THEN effect ELSE "none"
  /\ Continue
  /\ UNCHANGED <<recorderVars, plan, certain, late>>

TurnCompletes ==
  /\ At("terminal") /\ effect = "completed"
  /\ effect' = "none"
  /\ Continue
  /\ UNCHANGED <<recorderVars, plan, certain, late>>

BeginClose ==
  /\ At("close")
  /\ Advance /\ CloseNative
  /\ UNCHANGED <<recorderVars, plan, certain, late, native, stopVars, effect>>
ClosedNaturally ==
  /\ At("closed") /\ ClosedByItself
  /\ Continue
  /\ UNCHANGED <<recorderVars, plan, certain, late, effect>>

CallEnds ==
  /\ action = "running" /\ Verb = "rest"
  /\ action' = "idle"
  /\ UNCHANGED <<recorderVars, plan, pc, over, certain, late, stopVars, nativeVars, effect>>

Settle ==
  /\ At("settle")
  /\ \/ /\ Rec!SettleExternal(Executor) /\ view' # view
        /\ action' = "idle" /\ over' = "completed"
        /\ timer' = IF timer = "set" THEN "off" ELSE timer
        /\ UNCHANGED <<pc, cancelled, stopping, cancelling, nativeVars>>
     \/ /\ UNCHANGED recorderVars \/ (Rec!SettleExternal(Executor) /\ view' = view)
        /\ Fail
  /\ UNCHANGED <<plan, certain, late, effect>>

(***************************************************************************)
(* hold, and the handlers of the deadline and of cancel.                   *)
(***************************************************************************)
Held(s) == [s EXCEPT !.phase = "held", !.closed = ClosedByItself]

(* hold records the stop if it still can, and is then done in any case.       *)
HoldRecords ==
  /\ NativeClosed
  /\ IF Joined /\ certain THEN Record(Held(State)) ELSE UNCHANGED <<recorderVars, certain>>
  /\ over' = "held"
HoldEnds ==
  /\ action = "holding" /\ LoopFree
  /\ HoldRecords
  /\ action' = "idle"
  /\ UNCHANGED <<plan, pc, late, stopVars, nativeVars, effect>>

Deadline ==
  /\ pc > 1 /\ ~late
  /\ late' = TRUE
  /\ UNCHANGED <<recorderVars, plan, callVars, certain, stopVars, nativeVars, effect>>

TimerFires ==
  /\ timer = "set" /\ late /\ LoopFree
  /\ timer' = "closing" /\ stopping' = TRUE
  /\ CloseNative
  /\ UNCHANGED <<recorderVars, plan, callVars, certain, late, cancelled, cancelling,
                 native, effect>>

CancelAsked ==
  /\ cancelling = "off" /\ over \in {"no", "held"} /\ LoopFree
  /\ cancelled' = TRUE /\ cancelling' = "closing"
  /\ timer' = IF timer = "set" THEN "off" ELSE timer
  /\ CloseNative
  /\ UNCHANGED <<recorderVars, plan, callVars, certain, late, stopping, native, effect>>

(* With the process closed a handler waits for a running call or holds.       *)
AfterClose(handler) ==
  IF action # "idle" THEN "waiting"
  ELSE IF handler = "timer" /\ over = "completed" THEN "done" ELSE "holding"
HandlerGoesOn(handler, at, next) ==
  \/ at = "closing" /\ NativeClosed /\ next = AfterClose(handler)
  \/ at = "waiting" /\ action = "idle" /\ next = "done"
TimerGoesOn ==
  /\ LoopFree /\ HandlerGoesOn("timer", timer, timer')
  /\ stopping' = TRUE
  /\ UNCHANGED <<recorderVars, plan, callVars, certain, late, cancelled, cancelling,
                 nativeVars, effect>>
CancelGoesOn ==
  /\ LoopFree /\ HandlerGoesOn("cancel", cancelling, cancelling')
  /\ stopping' = (stopping \/ cancelling' = "holding")
  /\ UNCHANGED <<recorderVars, plan, callVars, certain, late, cancelled, timer,
                 nativeVars, effect>>
TimerHolds ==
  /\ timer = "holding" /\ LoopFree
  /\ HoldRecords
  /\ timer' = "done"
  /\ UNCHANGED <<plan, pc, action, late, cancelled, stopping, cancelling, nativeVars, effect>>
CancelHolds ==
  /\ cancelling = "holding" /\ LoopFree
  /\ HoldRecords
  /\ cancelling' = "done"
  /\ UNCHANGED <<plan, pc, action, late, cancelled, stopping, timer, nativeVars, effect>>

(***************************************************************************)
(* The processes, the target's turn, crashes, and the reviewer.            *)
(***************************************************************************)
TurnStops == effect' = IF effect = "running" THEN "stopped" ELSE effect
Unrelated ==
  UNCHANGED <<recorderVars, plan, callVars, certain, late, stopVars, native, promise>>

ProcessEnds(g) ==
  /\ proc[g] = "closing"
  /\ \E how \in Gone : proc' = [proc EXCEPT ![g] = how]
  /\ TurnStops
  /\ Unrelated
ProcessDies(g) ==
  /\ proc[g] = "open"
  /\ \E how \in Gone : proc' = [proc EXCEPT ![g] = how]
  /\ TurnStops
  /\ Unrelated
TurnEnds ==
  /\ effect = "running"
  /\ effect' \in {"completed", "stopped"}
  /\ UNCHANGED proc
  /\ Unrelated

(* The executor is killed; its processes see their input end.                 *)
Crash ==
  /\ over # "crashed"
  /\ over' = "crashed" /\ action' = "idle"
  /\ timer' = "off" /\ cancelling' = "off"
  /\ proc' = [g \in {1, 2} |-> IF proc[g] \in Alive THEN "closing" ELSE proc[g]]
  /\ UNCHANGED <<recorderVars, plan, pc, certain, late, cancelled, stopping,
                 native, promise, effect>>

ReviewerActs ==
  /\ \/ Rec!BindScope(Reviewer, Scope, Source) \/ Rec!BindScope(Reviewer, Scope, Target)
     \/ /\ transfer[Transfer] # None /\ transfer[Transfer].state.phase = "held"
        /\ Rec!Read(Reviewer, Transfer)
     \/ Rec!SettleExternalStopped(Reviewer)
     \/ \E toSource \in BOOLEAN : Rec!SettleExternalStoppedTarget(Reviewer, toSource)
  /\ UNCHANGED <<plan, callVars, certain, late, stopVars, nativeVars, effect>>

CallSteps ==
  \/ GuardHolds \/ AwaitFails \/ Bind \/ Begin \/ RecordNext \/ ForgetNative
  \/ Start \/ Send \/ Answer \/ TurnCompletes \/ BeginClose \/ ClosedNaturally
  \/ CallEnds \/ Settle
Answers == \E g \in {1, 2} : FactoryAnswers(g)
Ends == \E g \in {1, 2} : ProcessEnds(g)

Next ==
  \/ Call \/ CallSteps \/ HoldEnds
  \/ Deadline \/ TimerFires \/ TimerGoesOn \/ TimerHolds
  \/ CancelAsked \/ CancelGoesOn \/ CancelHolds
  \/ Answers \/ Ends \/ (\E g \in {1, 2} : ProcessDies(g)) \/ TurnEnds
  \/ Crash \/ ReviewerActs

(* Time passes, the event loop runs what is ready, an await ends by its       *)
(* deadline, and starting and closing a process are bounded.                  *)
Spec ==
  /\ Init /\ [][Next]_vars
  /\ WF_vars(Deadline)
  /\ WF_vars(CallSteps) /\ WF_vars(HoldEnds)
  /\ WF_vars(TimerFires) /\ WF_vars(TimerGoesOn) /\ WF_vars(TimerHolds)
  /\ WF_vars(CancelGoesOn) /\ WF_vars(CancelHolds)
  /\ WF_vars(Answers) /\ WF_vars(Ends)

(***************************************************************************)
(* Properties.                                                             *)
(***************************************************************************)
TypeOK ==
  /\ plan \in Plans /\ pc \in 1..Len(Programs[plan])
  /\ action \in {"idle", "running", "holding"}
  /\ over \in {"no", "held", "completed", "crashed"}
  /\ {certain, cancelled, late, stopping} \subseteq BOOLEAN
  /\ timer \in Handlers /\ cancelling \in Handlers \ {"set"}
  /\ native \in 0..2 /\ promise \in {0, native}
  /\ proc \in [{1, 2} -> Alive \cup Gone \cup {"unborn"}]
  /\ effect \in {"none", "request", "running", "completed", "stopped"}

Row == transfer[Transfer]
Exists == Row # None

(* Once the transfer is settled nothing of it is left: its processes, the    *)
(* replaced one and one that started late included, have ended, so that the  *)
(* scope's next writer has no rival.  What a settlement goes by is only what *)
(* the executor could record when it stopped.                                *)
SettledIsQuiet ==
  (Exists /\ Row.settled) =>
    /\ effect # "running"
    /\ \A g \in {1, 2} : proc[g] \notin Alive

(* A held transfer never hides what was sent: if its last request may have   *)
(* had an effect, or its turn did not complete, the stored record says so.   *)
EffectsOnRecord ==
  (Exists /\ Row.state.phase = "held" /\ effect # "none") =>
    Row.state.pending = IF effect = "request" THEN "request" ELSE "turn"

(* A turn after the intake runs only while the stored scope names the target *)
(* as its writer, and in a writing plan only on the replacement, the         *)
(* read-only process being gone.                                             *)
TargetWritesAlone ==
  (Exists /\ effect = "running" /\ Row.state.intake = "complete") =>
    /\ scope[Scope].writer = Target /\ scope[Scope].active = Transfer
    /\ plan = "workspace-write" => proc[1] \in Gone /\ proc[2] \notin Gone

(* After cancel, the deadline's timer or a failure nothing new is begun:     *)
(* no process is started, no request sent, and the executor neither hands    *)
(* the scope over nor completes the transfer.                                *)
NothingAfterStop ==
  [][(cancelled \/ stopping) =>
       /\ \A g \in {1, 2} : proc'[g] = "starting" => proc[g] = "starting"
       /\ effect' \in {"request", "running"} => effect' = effect
       /\ (Exists /\ ~Row'.settled) => Row'.state.writer = Row.state.writer
       /\ over' = "completed" => over = "completed"]_vars

(* Whatever fails, comes late or is cancelled, the executor ends its call    *)
(* and its handlers, and none of its processes outlives it.                  *)
AtRest ==
  /\ action = "idle" /\ {timer, cancelling} \subseteq {"off", "done"}
  /\ \A g \in {1, 2} : proc[g] \notin Alive
ComesToRest == <>[]AtRest

(* The executor and the reviewer use the recorder as its specification says. *)
UsesRecorder == Rec!Spec

(* A stopped transfer whose one intake turn is complete, with the source     *)
(* still the writer, nothing pending and its process closed by itself, can   *)
(* be settled (native-handoff.md:154).                                       *)
StoppedIntakeSettles ==
  (Exists /\ ~Row.settled /\ Row.state.phase = "held" /\ Row.state.intake = "complete"
     /\ Row.state.writer = Source /\ Row.state.pending = "none" /\ Row.state.closed) =>
    Rec!ExternalStoppedTarget(Row.state)
=============================================================================
