--------------------------- MODULE CarrierRecorder ---------------------------
(***************************************************************************)
(* The durable scope recorder of runtime/carrier-recorder.cjs.             *)
(*                                                                         *)
(* A scope has one writing thread and at most one active transfer.  Every  *)
(* commit on a scope draws a new fence token; a controller commits on the  *)
(* lease (scope, transfer, writer, token) and revision it last saw.        *)
(*                                                                         *)
(* Every operation is one SQLite transaction, hence one action here; a     *)
(* crash inside it rolls it back.  The reply of a commit may be lost with  *)
(* its caller or its deadline, which then still holds its older view.      *)
(* Calls that return or throw without writing leave no trace and are not   *)
(* actions.  Fence tokens are 256 random bits: they are taken never to     *)
(* repeat.  Of a transfer's JSON state only the fields that a settlement   *)
(* looks at are kept, the evidence digests and receipts being taken valid. *)
(*                                                                         *)
(* A definition X_Y is a faulty variant of X: it shows that a property can *)
(* fail, and no specification uses it.                                     *)
(***************************************************************************)
EXTENDS Naturals

CONSTANTS
  Scopes, Transfers, Threads,
  Controllers,  \* processes with the recorder open
  None,         \* SQL NULL, a missing row or a missing view
  MaxRevision,  \* stands for Number.MAX_SAFE_INTEGER
  MaxTokens     \* bounds the commits of a run

ASSUME LimitsNatural == MaxRevision \in Nat /\ MaxTokens \in Nat

VARIABLES
  scope,     \* the rows of table scopes
  transfer,  \* the rows of table transfers
  issued,    \* how many fence tokens have been drawn
  view,      \* the record or scope snapshot each controller last received
  commits,   \* history: the commits made on each scope
  missed     \* history: commits its caller had not seen, at the last commit

vars == <<scope, transfer, issued, view, commits, missed>>

Kinds == {"native", "external"}
OpenPhases ==
  {"working", "held", "source-subscription-released", "external-completed"}
SettledPhases ==
  {"source-subscription-released", "external-completed",
   "failed-source-reconciled", "external-source-retained",
   "external-target-reconciled"}

(* pending: a turn/start that was sent or its turn, another effect, or        *)
(* nothing.  intake is about the first turn of the target; closed: a held or  *)
(* completed transfer saw its native process end; peer is about the process's *)
(* replacement: not begun, begun (the old connection is still named), done.   *)
States ==
  [kind : Kinds, source : Threads, target : Threads \cup {None},
   writer : Threads, phase : OpenPhases \cup SettledPhases,
   pending : {"none", "request", "turn"},
   intake : {"none", "started", "complete"},
   recovery : {"retained", "controller-owned", "current-source"},
   closed : BOOLEAN, peer : {"first", "replacing", "replaced"}]

Rows ==
  [scope : Scopes, revision : 0..MaxRevision, settled : BOOLEAN, state : States]

ScopeRows ==
  [writer : Threads \cup {None}, active : Transfers \cup {None}, token : Nat]

(* A snapshot of a scope, or of a transfer with the lease of its scope; at   *)
(* counts the commits made on the scope before it was taken.                 *)
Leases ==
  [scope : Scopes, writer : Threads \cup {None},
   active : Transfers \cup {None}, token : Nat,
   transfer : Transfers, revision : 0..MaxRevision, state : States, at : Nat]
ScopeSnapshots ==
  [scope : Scopes, writer : Threads \cup {None},
   active : Transfers \cup {None}, token : Nat,
   transfer : {None}, revision : {0}, state : {None}, at : Nat]
Views == Leases \cup ScopeSnapshots

ASSUME NoneIsNothing ==
  None \notin Scopes /\ None \notin Transfers /\ None \notin Threads
    /\ None \notin Rows /\ None \notin Views

TypeOK ==
  /\ scope \in [Scopes -> ScopeRows]
  /\ transfer \in [Transfers -> Rows \cup {None}]
  /\ issued \in Nat
  /\ view \in [Controllers -> Views \cup {None}]
  /\ commits \in [Scopes -> Nat]
  /\ missed \in Nat

Init ==
  /\ scope = [s \in Scopes |-> [writer |-> None, active |-> None, token |-> 0]]
  /\ transfer = [t \in Transfers |-> None]
  /\ issued = 0
  /\ view = [c \in Controllers |-> None]
  /\ commits = [s \in Scopes |-> 0]
  /\ missed = 0

Bound(s) == scope[s].writer # None
Idle(s) == Bound(s) /\ scope[s].active = None

Snapshot(s, row, n, t, revision, state) ==
  [scope |-> s, writer |-> row.writer, active |-> row.active,
   token |-> row.token, transfer |-> t, revision |-> revision,
   state |-> state, at |-> n]
ScopeView(s) == Snapshot(s, scope[s], commits[s], None, 0, None)
NewScopeView(s) == Snapshot(s, scope'[s], commits'[s], None, 0, None)

(* The lease names whatever transfer is active now, even when another, or a   *)
(* settled one, is read.                                                      *)
RecordView(t) ==
  LET r == transfer[t]
  IN  Snapshot(r.scope, scope[r.scope], commits[r.scope], t, r.revision, r.state)
NewRecordView(t) ==
  LET r == transfer'[t]
  IN  Snapshot(r.scope, scope'[r.scope], commits'[r.scope], t, r.revision, r.state)

(* A commit sets the scope's row with a fresh token; its reply may be lost.   *)
Commit(s, writer, active) ==
  /\ issued < MaxTokens
  /\ scope' = [scope EXCEPT ![s] =
                 [writer |-> writer, active |-> active, token |-> issued + 1]]
  /\ issued' = issued + 1
  /\ commits' = [commits EXCEPT ![s] = @ + 1]

Receives(c, v) == view' = [view EXCEPT ![c] = v]
Answers(c, v) == Receives(c, v) \/ UNCHANGED view

(***************************************************************************)
(* Scopes.                                                                 *)
(***************************************************************************)
BindScope(c, s, w) ==
  /\ ~Bound(s)
  /\ Commit(s, w, None)
  /\ Answers(c, NewScopeView(s))
  /\ missed' = 0
  /\ UNCHANGED transfer

(* Also what binding answers the writer of an idle scope that exists.         *)
ReadScope(c, s) ==
  /\ Bound(s)
  /\ Receives(c, ScopeView(s))
  /\ UNCHANGED <<scope, transfer, issued, commits, missed>>

ClaimScope_KeepsToken(c) ==
  /\ UNCHANGED <<scope, transfer, issued>>
  /\ view[c] # None /\ view[c].active = None
  /\ LET v == view[c] IN
       /\ Idle(v.scope)
       /\ scope[v.scope].writer = v.writer /\ scope[v.scope].token = v.token
       /\ commits' = [commits EXCEPT ![v.scope] = @ + 1]
       /\ Answers(c, NewScopeView(v.scope))
       /\ missed' = commits[v.scope] - v.at

ClaimScope(c) ==
  /\ view[c] # None /\ view[c].active = None
  /\ LET v == view[c] IN
       /\ Idle(v.scope)
       /\ scope[v.scope].writer = v.writer /\ scope[v.scope].token = v.token
       /\ Commit(v.scope, v.writer, None)
       /\ Answers(c, NewScopeView(v.scope))
       /\ missed' = commits[v.scope] - v.at
  /\ UNCHANGED transfer

(***************************************************************************)
(* Transfers.                                                              *)
(***************************************************************************)
InitialState(kind, w) ==
  [kind |-> kind, source |-> w, target |-> None, writer |-> w,
   phase |-> "working",
   pending |-> IF kind = "native" THEN "request" ELSE "none",
   intake |-> "none", recovery |-> "retained", closed |-> FALSE, peer |-> "first"]

(* begin checks the writer of an idle scope, not the fence token.             *)
Begin_Replaces(c, s, t, kind) ==
  /\ Idle(s)
  /\ Commit(s, scope[s].writer, t)
  /\ transfer' = [transfer EXCEPT ![t] =
       [scope |-> s, revision |-> 0, settled |-> FALSE,
        state |-> InitialState(kind, scope[s].writer)]]
  /\ Answers(c, NewRecordView(t))
  /\ missed' = 0
Begin(c, s, t, kind) ==
  /\ transfer[t] = None
  /\ Idle(s)
  /\ Commit(s, scope[s].writer, t)
  /\ transfer' = [transfer EXCEPT ![t] =
       [scope |-> s, revision |-> 0, settled |-> FALSE,
        state |-> InitialState(kind, scope[s].writer)]]
  /\ Answers(c, NewRecordView(t))
  /\ missed' = 0

Read(c, t) ==
  /\ transfer[t] # None
  /\ Receives(c, RecordView(t))
  /\ UNCHANGED <<scope, transfer, issued, commits, missed>>

(* What the hand-off controllers record next, from the state they hold: more  *)
(* than any one of them does.                                                 *)
When(condition, set) == IF condition THEN set ELSE {}
Noting(s) == {[s EXCEPT !.pending = x] : x \in {"none", "request"}}
NamingTarget(s) ==
  When(s.target = None,
       {[s EXCEPT !.target = th, !.pending = "none"] : th \in Threads \ {s.source}})
StartingTurn(s) ==
  When(s.target # None,
       {[s EXCEPT !.pending = x,
                  !.intake = IF s.intake = "none" THEN "started" ELSE s.intake] :
          x \in {"request", "turn"}})
EndingTurn(s) ==
  When(s.pending = "turn", {[s EXCEPT !.pending = "none", !.intake = "complete"]})
Transferring_Early(s) ==
  When(s.pending = "none", {[s EXCEPT !.writer = s.target]})
Transferring(s) ==
  When(s.target # None /\ s.intake = "complete" /\ s.pending = "none",
       {[s EXCEPT !.writer = s.target]})
Completing(s) ==
  When(s.writer = s.target /\ s.pending = "none",
       IF s.kind = "native"
       THEN {[s EXCEPT !.phase = "source-subscription-released"]}
       ELSE {[s EXCEPT !.phase = "external-completed",
                       !.recovery = "controller-owned", !.closed = TRUE]})
(* The external executor releases the source's duty before its last turn, and *)
(* replaces its native process before it may write.                           *)
Releasing(s) ==
  When(s.kind = "external" /\ s.writer = s.target,
       {[s EXCEPT !.recovery = "controller-owned"]})
Replacing(s) ==
  When(s.kind = "external" /\ s.intake = "complete" /\ s.peer = "first",
       {[s EXCEPT !.peer = "replacing", !.pending = "none"]})
Replaced(s) ==
  When(s.peer = "replacing", {[s EXCEPT !.peer = "replaced", !.pending = "none"]})
Holding(s) ==
  {[s EXCEPT !.phase = "held", !.closed = b] :
     b \in IF s.kind = "external" THEN BOOLEAN ELSE {FALSE}}
(* A held native transfer whose writer is the target can still be reconciled  *)
(* and finalized to its released shape.                                       *)
Reconciling(s) ==
  When(s.kind = "native" /\ s.writer = s.target,
       {[s EXCEPT !.phase = "source-subscription-released", !.pending = "none"]})
Writes(s) ==
  When(s.phase = "working",
       Noting(s) \cup NamingTarget(s) \cup StartingTurn(s) \cup EndingTurn(s)
         \cup Transferring(s) \cup Completing(s) \cup Releasing(s)
         \cup Replacing(s) \cup Replaced(s) \cup Holding(s))
  \cup When(s.phase = "external-completed", Holding(s))
  \cup When(s.phase = "held", Reconciling(s) \cup When(s.kind = "external", {s}))

(* The lease and revision of a view are still those of the stored rows.       *)
Current(v) ==
  LET r == transfer[v.transfer] IN
    /\ v.active = v.transfer
    /\ ~r.settled /\ r.revision = v.revision /\ r.scope = v.scope
    /\ scope[v.scope].active = v.transfer
    /\ scope[v.scope].writer = v.writer /\ scope[v.scope].token = v.token
    /\ r.revision < MaxRevision

Advanced(r, next) == [r EXCEPT !.revision = r.revision + 1, !.state = next]

CompareAndSet_KeepsWriter(c, next) ==
  /\ view[c] # None /\ view[c].transfer # None
  /\ LET v == view[c] IN
       /\ Current(v)
       /\ Commit(v.scope, v.writer, v.transfer)
       /\ transfer' = [transfer EXCEPT ![v.transfer] =
            Advanced(transfer[v.transfer], next)]
       /\ Answers(c, NewRecordView(v.transfer))
       /\ missed' = commits[v.scope] - v.at
CompareAndSet(c, next) ==
  /\ view[c] # None /\ view[c].transfer # None
  /\ LET v == view[c] IN
       /\ Current(v)
       /\ Commit(v.scope, next.writer, v.transfer)
       /\ transfer' = [transfer EXCEPT ![v.transfer] =
            Advanced(transfer[v.transfer], next)]
       /\ Answers(c, NewRecordView(v.transfer))
       /\ missed' = commits[v.scope] - v.at

(***************************************************************************)
(* Settlements: the stored state must have one of five shapes.             *)
(***************************************************************************)
Released(s) ==
  /\ s.kind = "native" /\ s.phase = "source-subscription-released"
  /\ s.pending = "none" /\ s.writer = s.target /\ s.recovery = "retained"
FailedSource(s) ==
  /\ s.kind = "native" /\ s.phase = "held"
  /\ s.pending = "none" /\ s.writer = s.source /\ s.recovery = "retained"
ExternalCompleted(s) ==
  /\ s.kind = "external" /\ s.phase = "external-completed"
  /\ s.pending = "none" /\ s.writer = s.target /\ s.closed
  /\ s.recovery = "controller-owned"
ExternalStopped(s) ==
  /\ s.kind = "external" /\ s.phase = "held" /\ s.closed
  /\ s.pending = "none" /\ s.intake = "none" /\ s.writer = s.source
  /\ s.recovery = "retained"
StoppedIntake(s) ==
  /\ s.writer = s.source /\ s.recovery = "retained"
  /\ s.intake = "complete" /\ s.pending = "none" /\ s.peer # "replacing"
ExternalStoppedTarget(s) ==
  /\ s.kind = "external" /\ s.phase = "held" /\ s.closed
  /\ s.target # None /\ s.intake # "none" /\ s.pending # "request"
  /\ s.writer = s.target \/ StoppedIntake(s)
  /\ s.recovery \in {"retained", "controller-owned"}

Ended(r, final) == [Advanced(r, final) EXCEPT !.settled = TRUE]
SettleAs(c, final) ==
  LET v == view[c] IN
    /\ Commit(v.scope, final.writer, None)
    /\ transfer' = [transfer EXCEPT ![v.transfer] =
         Ended(transfer[v.transfer], final)]
    /\ Answers(c, NewScopeView(v.scope))
    /\ missed' = commits[v.scope] - v.at

(* The views a settlement accepts, and the state stored for them.             *)
MaySettle(c) ==
  /\ view[c] # None /\ view[c].transfer # None
  /\ Current(view[c])
Stored(c) == transfer[view[c].transfer].state

Settle(c) ==
  /\ MaySettle(c) /\ Released(Stored(c)) /\ Stored(c).writer = view[c].writer
  /\ SettleAs(c, Stored(c))

SettleFailedTransfer(c) ==
  /\ MaySettle(c) /\ FailedSource(Stored(c))
  /\ Stored(c).writer = view[c].writer
  /\ SettleAs(c, [Stored(c) EXCEPT !.phase = "failed-source-reconciled"])

SettleExternal(c) ==
  /\ MaySettle(c) /\ ExternalCompleted(Stored(c))
  /\ Stored(c).writer = view[c].writer
  /\ SettleAs(c, Stored(c))

SettleExternalStopped(c) ==
  /\ MaySettle(c) /\ ExternalStopped(Stored(c))
  /\ Stored(c).writer = view[c].writer
  /\ SettleAs(c, [Stored(c) EXCEPT !.phase = "external-source-retained"])

(* The reviewer gives the scope back to the source or leaves it to the        *)
(* target; only a target that already writes can keep it.                     *)
SettleExternalStoppedTarget_Records(c, toSource) ==
  /\ MaySettle(c) /\ ExternalStoppedTarget(Stored(c))
  /\ Stored(c).writer = view[c].writer
  /\ Stored(c).writer = Stored(c).source => toSource
  /\ SettleAs(c, [Stored(c) EXCEPT
       !.phase = "external-target-reconciled", !.pending = "none",
       !.recovery = IF toSource THEN "current-source" ELSE @])
SettleExternalStoppedTarget(c, toSource) ==
  /\ MaySettle(c) /\ ExternalStoppedTarget(Stored(c))
  /\ Stored(c).writer = view[c].writer
  /\ Stored(c).writer = Stored(c).source => toSource
  /\ SettleAs(c, [Stored(c) EXCEPT
       !.phase = "external-target-reconciled", !.pending = "none",
       !.writer = IF toSource THEN Stored(c).source ELSE Stored(c).target,
       !.recovery = IF toSource THEN "current-source" ELSE @])

(* A controller exits; another process takes its place with no view.          *)
Restart(c) ==
  /\ view[c] # None
  /\ Receives(c, None)
  /\ UNCHANGED <<scope, transfer, issued, commits, missed>>

SettleAny(c) ==
  \/ Settle(c) \/ SettleFailedTransfer(c) \/ SettleExternal(c)
  \/ SettleExternalStopped(c)
  \/ \E toSource \in BOOLEAN : SettleExternalStoppedTarget(c, toSource)

Next ==
  \E c \in Controllers :
    \/ \E s \in Scopes :
         \/ \E w \in Threads : BindScope(c, s, w)
         \/ ReadScope(c, s)
         \/ \E t \in Transfers, kind \in Kinds : Begin(c, s, t, kind)
    \/ ClaimScope(c)
    \/ \E t \in Transfers : Read(c, t)
    \/ /\ view[c] # None /\ view[c].transfer # None
       /\ \E next \in Writes(view[c].state) : CompareAndSet(c, next)
    \/ SettleAny(c)
    \/ Restart(c)

Spec == Init /\ [][Next]_vars

(***************************************************************************)
(* Properties.                                                             *)
(***************************************************************************)

(* Whatever the calls so far, the next open of the database accepts it: the  *)
(* active transfer of a scope is stored, unsettled and records the scope's   *)
(* writer, and an unsettled transfer is active (assertStoredRows).           *)
Reopens ==
  /\ \A s \in Scopes : scope[s].active # None =>
       /\ Bound(s)
       /\ transfer[scope[s].active] # None
       /\ transfer[scope[s].active].scope = s
       /\ ~transfer[scope[s].active].settled
       /\ transfer[scope[s].active].state.writer = scope[s].writer
  /\ \A t \in Transfers : transfer[t] # None =>
       /\ Bound(transfer[t].scope)
       /\ ~transfer[t].settled => scope[transfer[t].scope].active = t

(* A claim, a compare-and-set or a settlement never overwrites a commit its  *)
(* caller has not seen: a late, repeated or stale call changes nothing.      *)
NothingMissed == missed = 0

(* A settled transfer is history: no later call reopens, rewrites or replaces*)
(* it, though its id and its last lease stay known to controllers.           *)
SettledForGood ==
  [][\A t \in Transfers :
       (transfer[t] # None /\ transfer[t].settled) =>
         transfer'[t] = transfer[t] /\ \A s \in Scopes : scope'[s].active # t]_vars

(* When a transfer ends, the scope's writer is the thread its final record   *)
(* names: the target after a completed or target-retained one, the source    *)
(* after a failed, a stopped or a returned one.                              *)
TargetWrites(s) ==
  \/ s.phase \in {"source-subscription-released", "external-completed"}
  \/ s.phase = "external-target-reconciled" /\ s.recovery # "current-source"
OutcomeNamesWriter ==
  [][\A t \in Transfers :
       (transfer[t] # None /\ ~transfer[t].settled /\ transfer'[t].settled) =>
         LET final == transfer'[t].state IN
           scope'[transfer[t].scope].writer =
             IF TargetWrites(final) THEN final.target ELSE final.source]_vars
=============================================================================
