----------------------- MODULE CarrierRecorderProofs -------------------------
(***************************************************************************)
(* The recorder's consistency for any number of scopes, transfers, threads *)
(* and controllers, any revision limit and any number of commits.          *)
(*                                                                         *)
(* Reopens is inductive with the types.  That no commit is missed needs    *)
(* more: a view whose token is still the scope's token has seen every      *)
(* commit on it, since tokens are drawn afresh for each commit.            *)
(***************************************************************************)
EXTENDS CarrierRecorder, TLAPS

TokensFresh ==
  /\ \A s \in Scopes : scope[s].token <= issued
  /\ \A c \in Controllers : view[c] # None => view[c].token <= issued

ViewsComplete ==
  \A c \in Controllers :
    (view[c] # None /\ view[c].token = scope[view[c].scope].token) =>
      view[c].at = commits[view[c].scope]

Inv == TypeOK /\ Reopens /\ TokensFresh /\ ViewsComplete /\ NothingMissed

LEMMA InitInv == Init => Inv
  BY NoneIsNothing, LimitsNatural
     DEF Init, Inv, TypeOK, Reopens, TokensFresh, ViewsComplete, NothingMissed,
         ScopeRows, Rows, Views, Bound

(* What a controller may record from a state is again a state. *)
LEMMA WritesAreStates ==
  ASSUME NEW s \in States PROVE Writes(s) \subseteq States
<1> USE DEF When, States
<1>1. Noting(s) \subseteq States
  BY DEF Noting
<1>2. NamingTarget(s) \subseteq States
  <2> DEFINE Named(th) == [s EXCEPT !.target = th, !.pending = "none"]
  <2>1. \A th \in Threads : Named(th) \in States
    OBVIOUS
  <2>2. NamingTarget(s) \subseteq {Named(th) : th \in Threads}
    BY DEF NamingTarget
  <2> HIDE DEF Named
  <2> QED
    BY <2>1, <2>2
<1>3. StartingTurn(s) \subseteq States
  <2> DEFINE begun == IF s.intake = "none" THEN "started" ELSE s.intake
  <2>1. begun \in {"none", "started", "complete"}
    OBVIOUS
  <2>2. \A x \in {"request", "turn"} :
          [s EXCEPT !.pending = x, !.intake = begun] \in States
    BY <2>1
  <2>3. ASSUME NEW n \in StartingTurn(s)
        PROVE  \E x \in {"request", "turn"} : n = [s EXCEPT !.pending = x, !.intake = begun]
    BY <2>3 DEF StartingTurn
  <2> HIDE DEF begun, States
  <2> QED
    BY <2>2, <2>3
<1>4. EndingTurn(s) \subseteq States
  BY DEF EndingTurn
<1>5. Transferring(s) \subseteq States
  BY DEF Transferring
<1>6. Completing(s) \subseteq States
  BY DEF Completing, OpenPhases
<1>7. Holding(s) \subseteq States
  <2>1. \A b \in BOOLEAN : [s EXCEPT !.phase = "held", !.closed = b] \in States
    BY DEF OpenPhases
  <2>2. ASSUME NEW n \in Holding(s)
        PROVE  \E b \in BOOLEAN : n = [s EXCEPT !.phase = "held", !.closed = b]
    BY <2>2 DEF Holding
  <2> HIDE DEF States
  <2> QED
    BY <2>1, <2>2
<1>8. Reconciling(s) \subseteq States
  BY DEF Reconciling, OpenPhases
<1>9. Releasing(s) \cup Replacing(s) \cup Replaced(s) \subseteq States
  <2>1. Releasing(s) \subseteq States
    BY DEF Releasing
  <2>2. Replacing(s) \subseteq States
    BY DEF Replacing
  <2>3. Replaced(s) \subseteq States
    BY DEF Replaced
  <2> QED
    BY <2>1, <2>2, <2>3
<1> QED
  BY <1>1, <1>2, <1>3, <1>4, <1>5, <1>6, <1>7, <1>8, <1>9 DEF Writes

LEMMA InitialStateIsState ==
  ASSUME NEW kind \in Kinds, NEW w \in Threads
  PROVE  InitialState(kind, w) \in States /\ InitialState(kind, w).writer = w
  BY DEF InitialState, States, OpenPhases, Kinds

LEMMA SnapshotsAreViews ==
  ASSUME NEW s \in Scopes, NEW row \in ScopeRows, NEW n \in Nat
  PROVE  /\ Snapshot(s, row, n, None, 0, None) \in Views
         /\ \A t \in Transfers, revision \in 0..MaxRevision, state \in States :
              Snapshot(s, row, n, t, revision, state) \in Views
  BY DEF Snapshot, Views, Leases, ScopeSnapshots, ScopeRows

(* The fields every view has. *)
LEMMA ViewFields ==
  ASSUME NEW v \in Views
  PROVE  /\ v.scope \in Scopes /\ v.token \in Nat /\ v.at \in Nat
         /\ v.transfer # None => v.transfer \in Transfers /\ v.state \in States
  BY DEF Views, Leases, ScopeSnapshots

(* The row a commit writes, and the rows it leaves alone. *)
LEMMA CommitEffect ==
  ASSUME TypeOK, NEW s \in Scopes, NEW w \in Threads \cup {None},
         NEW a \in Transfers \cup {None}, Commit(s, w, a)
  PROVE  /\ scope' \in [Scopes -> ScopeRows] /\ issued' \in Nat
         /\ commits' \in [Scopes -> Nat]
         /\ scope'[s] = [writer |-> w, active |-> a, token |-> issued + 1]
         /\ commits'[s] = commits[s] + 1 /\ issued' = issued + 1
         /\ \A r \in Scopes \ {s} :
              scope'[r] = scope[r] /\ commits'[r] = commits[r]
  BY DEF Commit, TypeOK, ScopeRows

(* A commit outdates every earlier view of its scope, and its own answer is *)
(* complete.                                                                *)
LEMMA CommitKeepsFences ==
  ASSUME TypeOK, TokensFresh, ViewsComplete,
         NEW s \in Scopes, NEW w \in Threads \cup {None},
         NEW a \in Transfers \cup {None}, Commit(s, w, a),
         NEW c \in Controllers, NEW v \in Views, Answers(c, v),
         v.scope = s, v.token = issued + 1, v.at = commits[s] + 1
  PROVE  TokensFresh' /\ ViewsComplete' /\ view' \in [Controllers -> Views \cup {None}]
<1>1. /\ scope'[s].token = issued + 1
      /\ commits'[s] = commits[s] + 1 /\ issued' = issued + 1
      /\ \A r \in Scopes \ {s} : scope'[r] = scope[r] /\ commits'[r] = commits[r]
  BY DEF Commit, TypeOK
<1>2. view' \in [Controllers -> Views \cup {None}]
  BY DEF Answers, Receives, TypeOK
<1>3. \A d \in Controllers : view'[d] = view[d] \/ view'[d] = v
  BY DEF Answers, Receives, TypeOK
<1>4. issued \in Nat /\ \A r \in Scopes : scope[r].token \in Nat
  BY DEF TypeOK, ScopeRows
<1>5. \A d \in Controllers : view[d] # None =>
        view[d].scope \in Scopes /\ view[d].token \in Nat /\ view[d].token <= issued
  BY ViewFields DEF TypeOK, TokensFresh
<1>6. TokensFresh'
  BY <1>1, <1>3, <1>4, <1>5 DEF TokensFresh
<1>7. ViewsComplete'
  BY <1>1, <1>3, <1>4, <1>5 DEF ViewsComplete
<1> QED
  BY <1>2, <1>6, <1>7

(* A view that is current names the active transfer of its scope, has seen  *)
(* every commit, and leaves room for one more revision.                     *)
LEMMA CurrentViews ==
  ASSUME Inv, NEW c \in Controllers, view[c] # None, view[c].transfer # None,
         Current(view[c])
  PROVE  LET v == view[c]
             r == transfer[v.transfer]
         IN  /\ v \in Views /\ v.scope \in Scopes /\ v.transfer \in Transfers
             /\ r \in Rows /\ r # None /\ ~r.settled /\ r.scope = v.scope
             /\ r.revision + 1 \in 0..MaxRevision
             /\ scope[v.scope].active = v.transfer
             /\ commits[v.scope] - v.at = 0
<1> DEFINE v == view[c]
<1> DEFINE r == transfer[v.transfer]
<1>1. v \in Views /\ v.scope \in Scopes /\ v.transfer \in Transfers /\ v.at \in Nat
  BY ViewFields DEF Inv, TypeOK
<1>2. /\ ~r.settled /\ r.scope = v.scope /\ r.revision < MaxRevision
      /\ scope[v.scope].active = v.transfer /\ scope[v.scope].token = v.token
  BY DEF Current
<1>3. r # None
  BY <1>1, <1>2 DEF Inv, Reopens
<1>4. r \in Rows
  BY <1>1, <1>3 DEF Inv, TypeOK
<1>5. r.revision + 1 \in 0..MaxRevision
  BY <1>2, <1>4, LimitsNatural DEF Rows
<1>6. commits[v.scope] = v.at
  BY <1>1, <1>2 DEF Inv, ViewsComplete
<1> QED
  BY <1>1, <1>2, <1>3, <1>4, <1>5, <1>6

(* One commit on scope s: from the new row of s and the one transfer it     *)
(* touches follows the whole invariant.                                     *)
LEMMA BindKeepsInv ==
  ASSUME Inv, NEW c \in Controllers, NEW s \in Scopes, NEW w \in Threads,
         Commit(s, w, None), scope[s].active = None, UNCHANGED transfer,
         Answers(c, NewScopeView(s)), missed' = 0
  PROVE  Inv'
<1>1. /\ scope' \in [Scopes -> ScopeRows] /\ issued' \in Nat
      /\ commits' \in [Scopes -> Nat]
      /\ scope'[s] = [writer |-> w, active |-> None, token |-> issued + 1]
      /\ commits'[s] = commits[s] + 1
      /\ \A r \in Scopes \ {s} : scope'[r] = scope[r]
  BY CommitEffect DEF Inv
<1>2. /\ NewScopeView(s) \in Views /\ NewScopeView(s).scope = s
      /\ NewScopeView(s).token = issued + 1
      /\ NewScopeView(s).at = commits[s] + 1
  <2>1. scope'[s] \in ScopeRows /\ commits'[s] \in Nat /\ 0 \in 0..MaxRevision
    BY <1>1, LimitsNatural
  <2>2. NewScopeView(s) \in Views
    BY <2>1, SnapshotsAreViews DEF NewScopeView
  <2> QED
    BY <1>1, <2>2 DEF NewScopeView, Snapshot
<1>3. TokensFresh' /\ ViewsComplete' /\ view' \in [Controllers -> Views \cup {None}]
  BY <1>2, CommitKeepsFences DEF Inv
<1>4. TypeOK'
  BY <1>1, <1>3 DEF Inv, TypeOK
<1>5. \A r \in Scopes : Bound(r) => Bound(r)'
  BY <1>1, NoneIsNothing DEF Bound
<1>6. \A r \in Scopes :
        scope'[r].active = scope[r].active
          /\ (scope'[r].active # None => scope'[r].writer = scope[r].writer)
  BY <1>1
<1>7. Reopens'
  BY <1>5, <1>6 DEF Inv, Reopens, TypeOK, Rows
<1> QED
  BY <1>3, <1>4, <1>7 DEF Inv, NothingMissed

(* The same for a commit that begins, advances or settles a transfer: only  *)
(* the active transfer of the scope, or one that did not exist, changes.    *)
LEMMA TransferKeepsInv ==
  ASSUME Inv, NEW c \in Controllers, NEW s \in Scopes, NEW t \in Transfers,
         NEW row \in Rows, row.scope = s,
         \/ transfer[t] = None /\ scope[s].active = None
         \/ transfer[t] # None /\ transfer[t].scope = s /\ scope[s].active = t,
         Commit(s, row.state.writer, IF row.settled THEN None ELSE t),
         transfer' = [transfer EXCEPT ![t] = row],
         NEW v \in Views, Answers(c, v),
         v.scope = s, v.token = issued + 1, v.at = commits[s] + 1,
         missed' = 0
  PROVE  Inv'
<1> DEFINE a == IF row.settled THEN None ELSE t
<1>0. row.state.writer \in Threads /\ a \in Transfers \cup {None} /\ row # None
  BY NoneIsNothing DEF Rows, States
<1>1. /\ scope' \in [Scopes -> ScopeRows] /\ issued' \in Nat
      /\ commits' \in [Scopes -> Nat]
      /\ scope'[s] = [writer |-> row.state.writer, active |-> a, token |-> issued + 1]
      /\ \A r \in Scopes \ {s} : scope'[r] = scope[r]
  BY <1>0, CommitEffect DEF Inv
<1>2. TokensFresh' /\ ViewsComplete' /\ view' \in [Controllers -> Views \cup {None}]
  BY <1>0, CommitKeepsFences DEF Inv
<1>3. /\ transfer' \in [Transfers -> Rows \cup {None}]
      /\ transfer'[t] = row
      /\ \A u \in Transfers \ {t} : transfer'[u] = transfer[u]
  BY DEF Inv, TypeOK
<1>4. TypeOK'
  BY <1>1, <1>2, <1>3 DEF Inv, TypeOK
<1>5. /\ scope'[s].writer = row.state.writer /\ scope'[s].active = a
      /\ scope'[s].writer # None
  BY <1>0, <1>1, NoneIsNothing
<1>6. \A r \in Scopes : Bound(r) => scope'[r].writer # None
  BY <1>1, <1>5 DEF Bound
<1>7. ASSUME NEW r \in Scopes, scope'[r].active # None
      PROVE  /\ scope'[r].writer # None /\ transfer'[scope'[r].active] # None
             /\ transfer'[scope'[r].active].scope = r
             /\ ~transfer'[scope'[r].active].settled
             /\ transfer'[scope'[r].active].state.writer = scope'[r].writer
  <2>1. CASE r = s
    BY <2>1, <1>0, <1>3, <1>5, <1>7 DEF Bound
  <2>2. CASE r # s
    <3>1. scope'[r] = scope[r]
      BY <2>2, <1>1
    <3>2. scope[r].active \in Transfers /\ scope[r].active # t
      BY <2>2, <3>1, <1>7 DEF Inv, Reopens, TypeOK, ScopeRows
    <3>3. transfer'[scope[r].active] = transfer[scope[r].active]
      BY <3>2, <1>3
    <3> QED
      BY <3>1, <3>3, <1>6, <1>7 DEF Inv, Reopens
  <2> QED
    BY <2>1, <2>2
<1>8. ASSUME NEW u \in Transfers, transfer'[u] # None
      PROVE  /\ scope'[transfer'[u].scope].writer # None
             /\ ~transfer'[u].settled => scope'[transfer'[u].scope].active = u
  <2>1. CASE u = t
    BY <2>1, <1>3, <1>5 DEF Bound
  <2>2. CASE u # t
    <3>1. transfer'[u] = transfer[u] /\ transfer[u].scope \in Scopes
      BY <2>2, <1>3, <1>8 DEF Inv, TypeOK, Rows
    <3>2. ~transfer[u].settled => transfer[u].scope # s
      BY <2>2, <3>1, <1>8, NoneIsNothing DEF Inv, Reopens
    <3>3. Bound(transfer[u].scope)
      BY <3>1, <1>8 DEF Inv, Reopens
    <3> QED
      BY <3>1, <3>2, <3>3, <1>1, <1>6, <1>8 DEF Inv, Reopens
  <2> QED
    BY <2>1, <2>2
<1>9. Reopens'
  BY <1>7, <1>8 DEF Reopens, Bound
<1> QED
  BY <1>2, <1>4, <1>9 DEF Inv, NothingMissed

(* Reads and restarts change no row: only what one controller has seen.     *)
LEMMA LookKeepsInv ==
  ASSUME Inv, NEW c \in Controllers, NEW v \in Views \cup {None},
         v # None => /\ v.token = scope[v.scope].token
                     /\ v.at = commits[v.scope],
         Receives(c, v), UNCHANGED <<scope, transfer, issued, commits, missed>>
  PROVE  Inv'
<1>1. /\ view' \in [Controllers -> Views \cup {None}]
      /\ \A d \in Controllers : view'[d] = view[d] \/ view'[d] = v
  BY DEF Receives, Inv, TypeOK
<1>2. TypeOK' /\ Reopens' /\ NothingMissed'
  BY <1>1 DEF Inv, TypeOK, Reopens, Bound, NothingMissed
<1>3. v # None => v.token <= issued
  BY ViewFields DEF Inv, TokensFresh
<1>4. TokensFresh' /\ ViewsComplete'
  BY <1>1, <1>3 DEF Inv, TokensFresh, ViewsComplete
<1> QED
  BY <1>2, <1>4 DEF Inv

LEMMA ReadScopeKeepsInv ==
  ASSUME Inv, NEW c \in Controllers, NEW s \in Scopes, ReadScope(c, s)
  PROVE  Inv'
<1>1. scope[s] \in ScopeRows /\ commits[s] \in Nat /\ 0 \in 0..MaxRevision
  BY LimitsNatural DEF Inv, TypeOK
<1>2. ScopeView(s) \in Views
  BY <1>1, SnapshotsAreViews DEF ScopeView
<1>3. /\ ScopeView(s).scope = s /\ ScopeView(s).token = scope[s].token
      /\ ScopeView(s).at = commits[s]
  BY DEF ScopeView, Snapshot
<1> QED
  BY <1>2, <1>3, LookKeepsInv DEF ReadScope

LEMMA ReadKeepsInv ==
  ASSUME Inv, NEW c \in Controllers, NEW t \in Transfers, Read(c, t)
  PROVE  Inv'
<1> DEFINE r == transfer[t]
<1>1. r \in Rows /\ r.scope \in Scopes /\ r.revision \in 0..MaxRevision
        /\ r.state \in States
  BY DEF Read, Inv, TypeOK, Rows
<1>2. scope[r.scope] \in ScopeRows /\ commits[r.scope] \in Nat
  BY <1>1 DEF Inv, TypeOK
<1>3. RecordView(t) \in Views
  BY <1>1, <1>2, SnapshotsAreViews DEF RecordView
<1>4. /\ RecordView(t).scope = r.scope
      /\ RecordView(t).token = scope[r.scope].token
      /\ RecordView(t).at = commits[r.scope]
  BY DEF RecordView, Snapshot
<1> QED
  BY <1>3, <1>4, LookKeepsInv DEF Read

(* A claim found its scope unchanged, so it repeats the binding's step.     *)
LEMMA ClaimKeepsInv ==
  ASSUME Inv, NEW c \in Controllers, ClaimScope(c)
  PROVE  Inv'
<1> DEFINE v == view[c]
<1>1. v \in Views /\ v.scope \in Scopes /\ v.at \in Nat
  BY ViewFields DEF ClaimScope, Inv, TypeOK
<1>2. /\ scope[v.scope].active = None /\ scope[v.scope].writer = v.writer
      /\ scope[v.scope].writer # None /\ scope[v.scope].token = v.token
      /\ Commit(v.scope, v.writer, None) /\ Answers(c, NewScopeView(v.scope))
      /\ missed' = commits[v.scope] - v.at /\ UNCHANGED transfer
  BY DEF ClaimScope, Idle, Bound
<1>3. v.writer \in Threads
  BY <1>1, <1>2 DEF Inv, TypeOK, ScopeRows
<1>4. commits[v.scope] = v.at
  BY <1>1, <1>2 DEF ClaimScope, Inv, ViewsComplete
<1>5. missed' = 0
  BY <1>1, <1>2, <1>4
<1> QED
  BY <1>1, <1>2, <1>3, <1>5, BindKeepsInv

LEMMA BeginKeepsInv ==
  ASSUME Inv, NEW c \in Controllers, NEW s \in Scopes, NEW t \in Transfers,
         NEW kind \in Kinds, Begin(c, s, t, kind)
  PROVE  Inv'
<1> DEFINE w == scope[s].writer
<1> DEFINE row == [scope |-> s, revision |-> 0, settled |-> FALSE,
                   state |-> InitialState(kind, w)]
<1>1. w \in Threads
  BY DEF Begin, Idle, Bound, Inv, TypeOK, ScopeRows
<1>2. row.state \in States /\ row.state.writer = w
  BY <1>1, InitialStateIsState
<1>3. row \in Rows /\ row.scope = s /\ ~row.settled
  BY <1>2, LimitsNatural DEF Rows
<1>4. /\ transfer' = [transfer EXCEPT ![t] = row] /\ transfer[t] = None
      /\ scope[s].active = None /\ missed' = 0
      /\ Commit(s, w, t) /\ Answers(c, NewRecordView(t))
  BY DEF Begin, Idle
<1>5. transfer'[t] = row
  BY <1>4 DEF Inv, TypeOK
<1>6. /\ scope'[s] \in ScopeRows /\ commits'[s] \in Nat
      /\ scope'[s].token = issued + 1 /\ commits'[s] = commits[s] + 1
  <2>1. /\ scope' \in [Scopes -> ScopeRows] /\ commits' \in [Scopes -> Nat]
        /\ scope'[s] = [writer |-> w, active |-> t, token |-> issued + 1]
        /\ commits'[s] = commits[s] + 1
    BY <1>1, <1>4, CommitEffect DEF Inv
  <2> QED
    BY <2>1
<1>7. NewRecordView(t) =
        Snapshot(s, scope'[s], commits'[s], t, 0, row.state)
  BY <1>5 DEF NewRecordView
<1>8. NewRecordView(t) \in Views
  BY <1>2, <1>6, <1>7, SnapshotsAreViews, LimitsNatural
<1>9. /\ NewRecordView(t).scope = s /\ NewRecordView(t).token = issued + 1
      /\ NewRecordView(t).at = commits[s] + 1
  BY <1>6, <1>7 DEF Snapshot
<1> HIDE DEF row
<1> QED
  BY <1>2, <1>3, <1>4, <1>8, <1>9, TransferKeepsInv

LEMMA CompareAndSetKeepsInv ==
  ASSUME Inv, NEW c \in Controllers, view[c] # None, view[c].transfer # None,
         NEW next \in Writes(view[c].state), CompareAndSet(c, next)
  PROVE  Inv'
<1> DEFINE v == view[c]
<1> DEFINE t == v.transfer
<1> DEFINE s == v.scope
<1> DEFINE row == Advanced(transfer[t], next)
<1>1. /\ Current(v) /\ Commit(s, next.writer, t)
      /\ transfer' = [transfer EXCEPT ![t] = row]
      /\ Answers(c, NewRecordView(t)) /\ missed' = commits[s] - v.at
  BY DEF CompareAndSet
<1>2. /\ v \in Views /\ s \in Scopes /\ t \in Transfers
      /\ transfer[t] \in Rows /\ transfer[t] # None /\ ~transfer[t].settled
      /\ transfer[t].scope = s /\ transfer[t].revision + 1 \in 0..MaxRevision
      /\ scope[s].active = t /\ missed' = 0
  BY <1>1, CurrentViews
<1>3. next \in States
  BY <1>2, ViewFields, WritesAreStates
<1>4. /\ row \in Rows /\ row.scope = s /\ ~row.settled /\ row.state = next
      /\ row.revision = transfer[t].revision + 1
  BY <1>2, <1>3 DEF Rows, Advanced
<1>5. next.writer \in Threads
  BY <1>3 DEF States
<1>6. transfer'[t] = row
  BY <1>1, <1>2 DEF Inv, TypeOK
<1> HIDE DEF row, t, s, v
<1>7. /\ scope' \in [Scopes -> ScopeRows] /\ commits' \in [Scopes -> Nat]
      /\ scope'[s] = [writer |-> next.writer, active |-> t, token |-> issued + 1]
      /\ commits'[s] = commits[s] + 1
  BY <1>1, <1>2, <1>5, CommitEffect DEF Inv
<1>8. NewRecordView(t) =
        Snapshot(s, scope'[s], commits'[s], t, row.revision, row.state)
  BY <1>4, <1>6 DEF NewRecordView
<1>9. NewRecordView(t) \in Views
  BY <1>2, <1>3, <1>4, <1>7, <1>8, SnapshotsAreViews
<1>10. /\ NewRecordView(t).scope = s /\ NewRecordView(t).token = issued + 1
       /\ NewRecordView(t).at = commits[s] + 1
  BY <1>7, <1>8 DEF Snapshot
<1> QED
  BY <1>1, <1>2, <1>4, <1>9, <1>10, TransferKeepsInv

LEMMA SettleAsKeepsInv ==
  ASSUME Inv, NEW c \in Controllers, MaySettle(c),
         NEW final \in States, SettleAs(c, final)
  PROVE  Inv'
<1> DEFINE v == view[c]
<1> DEFINE t == v.transfer
<1> DEFINE s == v.scope
<1> DEFINE row == Ended(transfer[t], final)
<1>1. /\ view[c] # None /\ view[c].transfer # None /\ Current(v)
      /\ Commit(s, final.writer, None)
      /\ transfer' = [transfer EXCEPT ![t] = row]
      /\ Answers(c, NewScopeView(s)) /\ missed' = commits[s] - v.at
  BY DEF SettleAs, MaySettle
<1>2. /\ v \in Views /\ s \in Scopes /\ t \in Transfers
      /\ transfer[t] \in Rows /\ transfer[t] # None
      /\ transfer[t].scope = s /\ transfer[t].revision + 1 \in 0..MaxRevision
      /\ scope[s].active = t /\ missed' = 0
  BY <1>1, CurrentViews
<1>3. /\ row \in Rows /\ row.scope = s /\ row.settled /\ row.state = final
  BY <1>2 DEF Rows, Advanced, Ended
<1>4. final.writer \in Threads
  BY DEF States
<1> HIDE DEF row, t, s, v
<1>5. /\ scope' \in [Scopes -> ScopeRows] /\ commits' \in [Scopes -> Nat]
      /\ scope'[s] = [writer |-> final.writer, active |-> None, token |-> issued + 1]
      /\ commits'[s] = commits[s] + 1
  BY <1>1, <1>2, <1>4, CommitEffect DEF Inv
<1>6. NewScopeView(s) \in Views
  BY <1>2, <1>5, SnapshotsAreViews DEF NewScopeView
<1>7. /\ NewScopeView(s).scope = s /\ NewScopeView(s).token = issued + 1
      /\ NewScopeView(s).at = commits[s] + 1
  BY <1>5 DEF NewScopeView, Snapshot
<1> QED
  BY <1>1, <1>2, <1>3, <1>6, <1>7, TransferKeepsInv

(* Each settlement is SettleAs of a state.  *)
LEMMA SettlementsSettle ==
  ASSUME Inv, NEW c \in Controllers, SettleAny(c)
  PROVE  MaySettle(c) /\ \E final \in States : SettleAs(c, final)
<1>1. MaySettle(c)
  BY DEF SettleAny, Settle, SettleFailedTransfer, SettleExternal,
         SettleExternalStopped, SettleExternalStoppedTarget
<1>2. Stored(c) \in States
  BY <1>1, CurrentViews DEF MaySettle, Stored, Rows
<1>3. CASE Settle(c) \/ SettleExternal(c)
  BY <1>1, <1>2, <1>3 DEF Settle, SettleExternal
<1>4. CASE SettleFailedTransfer(c)
  <2>1. [Stored(c) EXCEPT !.phase = "failed-source-reconciled"] \in States
    BY <1>2 DEF States, SettledPhases
  <2> QED
    BY <1>1, <1>4, <2>1 DEF SettleFailedTransfer
<1>5. CASE SettleExternalStopped(c)
  <2>1. [Stored(c) EXCEPT !.phase = "external-source-retained"] \in States
    BY <1>2 DEF States, SettledPhases
  <2> QED
    BY <1>1, <1>5, <2>1 DEF SettleExternalStopped
<1>6. ASSUME NEW toSource \in BOOLEAN, SettleExternalStoppedTarget(c, toSource)
      PROVE  \E final \in States : SettleAs(c, final)
  <2> DEFINE final == [Stored(c) EXCEPT
       !.phase = "external-target-reconciled", !.pending = "none",
       !.writer = IF toSource THEN Stored(c).source ELSE Stored(c).target,
       !.recovery = IF toSource THEN "current-source" ELSE @]
  <2>1. Stored(c).target # None /\ SettleAs(c, final)
    BY <1>6 DEF SettleExternalStoppedTarget, ExternalStoppedTarget
  <2>2. final \in States
    BY <1>2, <2>1 DEF States, SettledPhases
  <2> HIDE DEF final
  <2> QED
    BY <2>1, <2>2
<1> QED
  BY <1>1, <1>3, <1>4, <1>5, <1>6 DEF SettleAny

(* The invariant survives every step. *)
LEMMA StepInv == Inv /\ [Next]_vars => Inv'
<1> SUFFICES ASSUME Inv, [Next]_vars PROVE Inv'
  OBVIOUS
<1>1. CASE UNCHANGED vars
  BY <1>1 DEF vars, Inv, TypeOK, Reopens, Bound, TokensFresh, ViewsComplete,
              NothingMissed
<1>2. ASSUME NEW c \in Controllers, NEW s \in Scopes, NEW w \in Threads,
             BindScope(c, s, w)
      PROVE  Inv'
  <2>1. scope[s].active = None
    BY <1>2 DEF BindScope, Bound, Inv, Reopens
  <2> QED
    BY <1>2, <2>1, BindKeepsInv DEF BindScope
<1>3. ASSUME NEW c \in Controllers, Restart(c) PROVE Inv'
  BY <1>3, LookKeepsInv DEF Restart
<1>4. ASSUME NEW c \in Controllers, SettleAny(c) PROVE Inv'
  BY <1>4, SettlementsSettle, SettleAsKeepsInv
<1> QED
  BY <1>1, <1>2, <1>3, <1>4, ReadScopeKeepsInv, ReadKeepsInv, ClaimKeepsInv,
     BeginKeepsInv, CompareAndSetKeepsInv DEF Next

THEOREM Invariance == Spec => []Inv
  BY InitInv, StepInv, PTL DEF Spec

(* Type correctness, for any number of scopes, transfers and controllers.   *)
THEOREM TypeCorrect == Spec => []TypeOK
<1>1. Inv => TypeOK
  BY DEF Inv
<1> QED
  BY Invariance, <1>1, PTL

(* No sequence of calls, however interleaved, repeated or cut short, leaves *)
(* rows that the next open of the recorder would refuse.                    *)
THEOREM AlwaysReopens == Spec => []Reopens
<1>1. Inv => Reopens
  BY DEF Inv
<1> QED
  BY Invariance, <1>1, PTL

(* No claim, compare-and-set or settlement is made on a scope that has      *)
(* moved on since its caller looked, whatever replies were lost.            *)
THEOREM NoCommitMissed == Spec => []NothingMissed
<1>1. Inv => NothingMissed
  BY DEF Inv
<1> QED
  BY Invariance, <1>1, PTL

LEMMA StepKeepsSettled ==
  ASSUME Inv, Next, NEW t \in Transfers, transfer[t] # None, transfer[t].settled
  PROVE  transfer'[t] = transfer[t]
<1> DEFINE Kept == transfer'[t] = transfer[t]
<1>1. ASSUME NEW c \in Controllers, NEW next, CompareAndSet(c, next) PROVE Kept
  <2>1. Current(view[c]) /\ view[c] # None /\ view[c].transfer # None
    BY <1>1 DEF CompareAndSet
  <2>2. view[c].transfer \in Transfers /\ view[c].transfer # t
    BY <2>1, CurrentViews
  <2> QED
    BY <1>1, <2>2 DEF CompareAndSet, Inv, TypeOK
<1>2. ASSUME NEW c \in Controllers, SettleAny(c) PROVE Kept
  <2>1. MaySettle(c) /\ \E final \in States : SettleAs(c, final)
    BY <1>2, SettlementsSettle
  <2>2. view[c].transfer \in Transfers /\ view[c].transfer # t
    BY <2>1, CurrentViews DEF MaySettle
  <2> QED
    BY <2>1, <2>2 DEF SettleAs, Inv, TypeOK
<1>3. ASSUME NEW c \in Controllers, NEW s \in Scopes, NEW u \in Transfers,
             NEW kind \in Kinds, Begin(c, s, u, kind)
      PROVE  Kept
  BY <1>3 DEF Begin, Inv, TypeOK
<1> QED
  BY <1>1, <1>2, <1>3 DEF Next, BindScope, ReadScope, ClaimScope, Read, Restart

(* What a transfer ended with stays as it is, and it never becomes active   *)
(* again.                                                                   *)
THEOREM SettledStays == Spec => SettledForGood
<1>1. Inv /\ Inv' /\ [Next]_vars =>
        [\A t \in Transfers :
           (transfer[t] # None /\ transfer[t].settled) =>
             transfer'[t] = transfer[t] /\ \A s \in Scopes : scope'[s].active # t]_vars
  <2> SUFFICES ASSUME Inv, Inv', Next, NEW t \in Transfers,
                      transfer[t] # None, transfer[t].settled
               PROVE  transfer'[t] = transfer[t] /\ \A s \in Scopes : scope'[s].active # t
    OBVIOUS
  <2>1. transfer'[t] = transfer[t]
    BY StepKeepsSettled
  <2> QED
    BY <2>1, NoneIsNothing DEF Inv, Reopens
<1> QED
  BY Invariance, <1>1, PTL DEF Spec, SettledForGood

(* Only a settlement ends a transfer, and it ends the one its view names.   *)
LEMMA OnlySettlementsEnd ==
  ASSUME Inv, Next, NEW t \in Transfers,
         transfer[t] # None, ~transfer[t].settled, transfer'[t].settled
  PROVE  \E c \in Controllers : SettleAny(c) /\ view[c].transfer = t
<1> DEFINE Ends == \E c \in Controllers : SettleAny(c) /\ view[c].transfer = t
<1>1. transfer' # transfer
  OBVIOUS
<1>2. ASSUME NEW c \in Controllers, NEW next, CompareAndSet(c, next) PROVE FALSE
  <2>1. view[c] # None /\ view[c].transfer # None /\ Current(view[c])
    BY <1>2 DEF CompareAndSet
  <2>2. view[c].transfer = t
    BY <1>2, <2>1, CurrentViews DEF CompareAndSet, Inv, TypeOK
  <2>3. transfer'[t] = Advanced(transfer[t], next) /\ transfer[t] \in Rows
    BY <1>2, <2>1, <2>2, CurrentViews DEF CompareAndSet, Inv, TypeOK
  <2> QED
    BY <2>3 DEF Advanced, Rows
<1>3. ASSUME NEW c \in Controllers, SettleAny(c) PROVE Ends
  <2>1. MaySettle(c) /\ \E final \in States : SettleAs(c, final)
    BY <1>3, SettlementsSettle
  <2>2. view[c].transfer = t
    BY <2>1, CurrentViews DEF MaySettle, SettleAs, Inv, TypeOK
  <2> QED
    BY <1>3, <2>2
<1>4. ASSUME NEW c \in Controllers, NEW s \in Scopes, NEW u \in Transfers,
             NEW kind \in Kinds, Begin(c, s, u, kind)
      PROVE  FALSE
  BY <1>4 DEF Begin, Inv, TypeOK
<1> QED
  BY <1>1, <1>2, <1>3, <1>4 DEF Next, BindScope, ReadScope, ClaimScope, Read, Restart

(* A settlement gives the scope to the writer of the state it stores.       *)
LEMMA SettlementWrites ==
  ASSUME Inv, NEW c \in Controllers, MaySettle(c), NEW final \in States,
         SettleAs(c, final)
  PROVE  /\ transfer'[view[c].transfer].state = final
         /\ scope'[transfer[view[c].transfer].scope].writer = final.writer
<1> DEFINE v == view[c]
<1>1. /\ v.scope \in Scopes /\ v.transfer \in Transfers
      /\ transfer[v.transfer] \in Rows /\ transfer[v.transfer].scope = v.scope
  BY CurrentViews DEF MaySettle
<1>2. /\ scope'[v.scope].writer = final.writer
      /\ transfer'[v.transfer] = Ended(transfer[v.transfer], final)
  BY <1>1 DEF SettleAs, Commit, Inv, TypeOK
<1> QED
  BY <1>1, <1>2 DEF Ended, Advanced, Rows

(* Whichever of the five outcomes ends a transfer, the scope is left to the *)
(* thread that outcome names.                                               *)
THEOREM OutcomesNameWriters == Spec => OutcomeNamesWriter
<1>1. ASSUME Inv, Next, NEW t \in Transfers,
             transfer[t] # None, ~transfer[t].settled, transfer'[t].settled
      PROVE  LET final == transfer'[t].state IN
               scope'[transfer[t].scope].writer =
                 IF TargetWrites(final) THEN final.target ELSE final.source
  <2> DEFINE Named(final) ==
        final.writer = IF TargetWrites(final) THEN final.target ELSE final.source
  <2>1. PICK c \in Controllers : SettleAny(c) /\ view[c].transfer = t
    BY <1>1, OnlySettlementsEnd
  <2>2. MaySettle(c) /\ Stored(c) \in States
    <3>1. MaySettle(c)
      BY <1>1, <2>1, SettlementsSettle
    <3> QED
      BY <1>1, <3>1, CurrentViews DEF MaySettle, Stored, Rows
  <2>3. SUFFICES \E final \in States : SettleAs(c, final) /\ Named(final)
    BY <1>1, <2>1, <2>2, SettlementWrites
  <2>4. CASE Settle(c) \/ SettleExternal(c)
    BY <2>2, <2>4 DEF Settle, SettleExternal, Released, ExternalCompleted, TargetWrites
  <2>5. CASE SettleFailedTransfer(c)
    <3> DEFINE final == [Stored(c) EXCEPT !.phase = "failed-source-reconciled"]
    <3>1. final \in States /\ Named(final)
      BY <2>2, <2>5 DEF SettleFailedTransfer, FailedSource, States, SettledPhases, TargetWrites
    <3>2. SettleAs(c, final)
      BY <2>5 DEF SettleFailedTransfer
    <3> QED
      BY <3>1, <3>2
  <2>6. CASE SettleExternalStopped(c)
    <3> DEFINE final == [Stored(c) EXCEPT !.phase = "external-source-retained"]
    <3>1. final \in States /\ Named(final)
      BY <2>2, <2>6 DEF SettleExternalStopped, ExternalStopped, States, SettledPhases, TargetWrites
    <3>2. SettleAs(c, final)
      BY <2>6 DEF SettleExternalStopped
    <3> QED
      BY <3>1, <3>2
  <2>7. ASSUME NEW toSource \in BOOLEAN, SettleExternalStoppedTarget(c, toSource)
        PROVE  \E final \in States : SettleAs(c, final) /\ Named(final)
    <3> DEFINE final == [Stored(c) EXCEPT
         !.phase = "external-target-reconciled", !.pending = "none",
         !.writer = IF toSource THEN Stored(c).source ELSE Stored(c).target,
         !.recovery = IF toSource THEN "current-source" ELSE @]
    <3>1. /\ SettleAs(c, final) /\ Stored(c).target # None
          /\ Stored(c).recovery \in {"retained", "controller-owned"}
      BY <2>7 DEF SettleExternalStoppedTarget, ExternalStoppedTarget
    <3>2. final \in States
      BY <2>2, <3>1 DEF States, SettledPhases
    <3>3. Named(final)
      BY <2>2, <3>1 DEF States, TargetWrites
    <3> HIDE DEF final
    <3> QED
      BY <3>1, <3>2, <3>3
  <2> QED
    BY <2>1, <2>4, <2>5, <2>6, <2>7 DEF SettleAny
<1>2. Inv /\ [Next]_vars =>
        [\A t \in Transfers :
           (transfer[t] # None /\ ~transfer[t].settled /\ transfer'[t].settled) =>
             LET final == transfer'[t].state IN
               scope'[transfer[t].scope].writer =
                 IF TargetWrites(final) THEN final.target ELSE final.source]_vars
  BY <1>1
<1> QED
  BY Invariance, <1>2, PTL DEF Spec, OutcomeNamesWriter
=============================================================================
