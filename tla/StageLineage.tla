---------------------------- MODULE StageLineage ----------------------------
(***************************************************************************)
(* Revision-bound stage snapshots (yiyuan_accord/control.py, the closeout  *)
(* snapshot part, and stage_lifecycle.py).  Every commit of the repository *)
(* may carry one snapshot node in product/program.json.  A node says which *)
(* stage is closed or reopened and names the commit in which the previous  *)
(* node first appeared; consecutive commits with the same node are one     *)
(* run.  The validator reads the first-parent history and decides whether  *)
(* the worktree continues one legal chain of nodes.                        *)
(*                                                                         *)
(* The history and the worktree change by what a maintainer does with git; *)
(* Check is the validator.  Commits are numbered, so that a reference is   *)
(* the number of a commit and 0 is no reference.  Abstracted: JSON shapes, *)
(* fixed texts and identifiers, byte limits of the readers; a document is  *)
(* a version number, a digest the version it was taken of.                 *)
(***************************************************************************)
EXTENDS Naturals, Sequences, FiniteSets

CONSTANTS
    LastGate,           \* the release gates are 1..LastGate
    Replays,            \* the replay states a reopened node may declare
    MigrationRef,       \* the commit the maintenance cycle starts from
    PostReleaseDelta,   \* the one pair of projections a reconciliation may join
    MaxDepth,           \* longest chain of predecessors that is followed
    Histories,          \* histories a repository starts with
    Revisions,          \* sets of parts one edit rewrites
    MaxCommits,         \* bound on the commits added
    MaxEdits,           \* bound on the edits of the content
    MaxStrays           \* bound on the commits made without an accepting check

ASSUME NumbersAssumption ==
    /\ LastGate \in Nat \ {0}
    /\ {MigrationRef, MaxDepth, MaxCommits, MaxEdits, MaxStrays} \subseteq Nat

VARIABLES
    commits,   \* the first-parent history, oldest first
    work,      \* the worktree
    verdict,   \* what the validator last said of the worktree
    edits,     \* edits of the content so far
    strays,    \* commits made without an accepting verdict
    added      \* commits added

vars == <<commits, work, verdict, edits, strays, added>>

(***************************************************************************)
(* The content of a tree                                                   *)
(***************************************************************************)
Criteria == {"R1", "R3", "Q4"}
PresentationCriteria == Criteria \ {"R3"}
Docs == {"constitution", "guidance", "golden", "plan", "budget", "record", "text", "note"}
Files == {"package", "evidence", "notes", "readme", "code", "other"}
Surfaces == {"package", "notes", "readme"}
Declared == {"package", "evidence", "notes"}
MigrationPaths == {"program", "acceptance", "guidance", "code"}
PresentationPaths == {"program", "readme"}
Reaccepting == {"reaccepting", "reaccepting-correction"}
Maintenance == {"transition-contract-migration", "repository-presentation"}

NoNode == [schema |-> "none"]
NoCycle == [progress |-> "none", node |-> NoNode]

\* The node of a tree: the maintenance cycle's if there is one.
NodeOf(t) == IF t.cycle = NoCycle THEN t.legacy ELSE t.cycle.node

Following(gate) == IF gate < LastGate THEN gate + 1 ELSE 0

Digest(t) == <<t.docs["text"], t.docs["golden"]>>

Program(t) ==
    <<t.legacy, t.cycle, t.dist, t.status, t.increment, t.lifecycle, t.step,
      t.docs["plan"], t.docs["budget"], t.bound["package"]>>
Acceptance(t) ==
    <<t.docs["record"], t.docs["text"], t.docs["note"], t.verified,
      t.bound["evidence"], t.bound["notes"]>>

\* What a snapshot binds: the authority documents and the surfaces named by
\* them, not the files behind the digests.
Binding(t) == [t EXCEPT !.files = [notes |-> @["notes"]]]

Changed(a, b) ==
    {p \in {"program"} : Program(a) # Program(b)}
    \cup {p \in {"acceptance"} : Acceptance(a) # Acceptance(b)}
    \cup {d \in {"constitution", "guidance", "golden"} : a.docs[d] # b.docs[d]}
    \cup {f \in Files : a.files[f] # b.files[f]}

Criterion(t, c) ==
    <<t.verified[c], IF c = "Q4" THEN <<t.docs["text"], t.docs["note"]>> ELSE <<>> >>

\* Everything a transition can affect besides the criteria.
Projection(t) ==
    [t EXCEPT !.legacy = NoNode,
              !.verified = {}, !.docs = [@ EXCEPT !["text"] = 0, !["note"] = 0],
              !.files = [f \in Surfaces |-> @[f]]]

ActualAffected(a, b) ==
    IF Projection(a) # Projection(b) THEN Criteria
    ELSE {c \in Criteria : Criterion(a, c) # Criterion(b, c)}

\* What closing a stage may not change: everything but states and assessments.
CloseProjection(t) ==
    [t EXCEPT !.legacy = NoNode, !.status = "", !.increment = "",
              !.step = "", !.verified = {}, !.files = [f \in Surfaces |-> @[f]]]

PostReleaseProjection(t) == <<CloseProjection(t), t.files["other"]>>

PostReleaseDeltaValid(a, b) ==
    <<PostReleaseProjection(a), PostReleaseProjection(b)>> = PostReleaseDelta

(***************************************************************************)
(* Trees                                                                   *)
(***************************************************************************)
Digests == (0..2) \X (0..2)
ReplayStates ==
    [boundary : 3..7, state : {"pending", "verified"},
     correction : {"none", "privacy", "review", "agent"}]

V1Snapshots ==
    [schema : {"v1"}, state : {"closed"}, dist : Nat, digest : Digests,
     gate : 1..LastGate, next : 0..LastGate, pred : Nat,
     kind : {"snapshot-bootstrap", "unchanged", "changed"}, affected : SUBSET Criteria]
V2Snapshots ==
    [schema : {"v2"}, state : {"reopened", "closed"}, dist : Nat, digest : Digests,
     gate : 1..LastGate, next : 0..LastGate, pred : Nat,
     kind : {"changed", "post-release-reconciliation"} \cup Reaccepting, replay : ReplayStates]
V3Snapshots ==
    [schema : {"v3"}, state : {"closed"}, digest : Digests, pred : Nat, kind : Maintenance]

\* The maintenance cycle carries a v3 node, the increment an older one.
Trees ==
    [legacy : {NoNode} \cup V1Snapshots \cup V2Snapshots,
     cycle : {NoCycle} \cup [progress : Maintenance, node : V3Snapshots],
     dist : Nat, status : {"active", "ready"}, increment : {"active", "completed"},
     step : {"replay", "reaccept"},
     lifecycle : [boundary : 3..7, state : {"pending", "verified"}],
     docs : [Docs -> 0..2], verified : [Criteria -> BOOLEAN],
     files : [Files -> 0..2], bound : [Declared -> 0..2]]

ASSUME ContentAssumption ==
    /\ Histories \subseteq Seq(Trees) \ {<<>>}
    /\ Replays \subseteq ReplayStates

(***************************************************************************)
(* Replay states of a reopened stage                                       *)
(***************************************************************************)
Replay(boundary, state, correction) ==
    [boundary |-> boundary, state |-> state, correction |-> correction]
V7Verified == Replay(7, "verified", "agent")
Scope(r) == <<r.boundary, r.correction>>

ReplayTransitions ==
    {<<Replay(3, "pending", "none"), Replay(4, "pending", "none")>>,
     <<Replay(4, "pending", "none"), Replay(5, "pending", "none")>>,
     <<Replay(5, "verified", "none"), Replay(6, "pending", "none")>>,
     <<Replay(5, "verified", "none"), Replay(6, "pending", "privacy")>>,
     <<Replay(6, "pending", "none"), Replay(6, "pending", "privacy")>>,
     <<Replay(6, "pending", "privacy"), Replay(6, "pending", "review")>>,
     <<Replay(6, "verified", "review"), Replay(7, "pending", "agent")>>}

(***************************************************************************)
(* The shape of a node in its tree                                         *)
(***************************************************************************)
V1Node(t) ==
    LET n == t.legacy IN
    /\ n.dist = t.dist
    /\ n.gate \in 1..LastGate
    /\ n.next = Following(n.gate)
    /\ (n.pred = 0) <=> (n.kind = "snapshot-bootstrap")
    /\ n.affected \subseteq Criteria
    /\ n.kind = "snapshot-bootstrap" => n.affected = Criteria
    /\ n.kind = "unchanged" => n.affected = {}
    /\ n.kind = "changed" => n.affected # {}

\* The criteria a v2 node must declare.
V2Affected(n) ==
    CASE n.kind = "post-release-reconciliation" -> {}
      [] n.kind = "reaccepting-correction" -> Criteria
      [] OTHER -> Criteria \ {"R1"}

V2Reopened(t) ==
    LET n == t.legacy IN
    /\ n.next = n.gate
    /\ t.lifecycle = [boundary |-> n.replay.boundary, state |-> n.replay.state]
    /\ t.status = "active" /\ t.increment = "active"
    /\ ~t.verified["R3"]
    /\ n.kind \in Reaccepting => n.replay = V7Verified /\ t.step = "reaccept"

V2Closed(t) ==
    LET n == t.legacy IN
    /\ n.next = Following(n.gate)
    /\ n.replay.state = "verified"
    /\ t.status = "ready" /\ t.increment = "completed"
    /\ t.verified["R3"]

V2Node(t) ==
    LET n == t.legacy IN
    /\ n.dist = t.dist
    /\ n.gate \in 1..LastGate
    /\ n.pred # 0
    /\ n.replay.boundary = t.lifecycle.boundary
    /\ n.state = "reopened" => V2Reopened(t)
    /\ n.state = "closed" => V2Closed(t)

\* The maintenance cycle records how far it has come, as its node says.
MaintenanceCycle(t) == t.cycle.progress = t.cycle.node.kind

V3Shape(t) ==
    /\ NodeOf(t).schema = "v3"
    /\ MaintenanceCycle(t)
    /\ NodeOf(t).digest = Digest(t)

V3Node(t) ==
    LET n == NodeOf(t) IN
    /\ V3Shape(t)
    /\ t.increment = "completed" /\ t.status = "active"
    /\ IF n.kind = "transition-contract-migration" THEN n.pred = MigrationRef ELSE n.pred # 0

(***************************************************************************)
(* One maintenance transition, from the tree b to the tree t (the pure     *)
(* decision of stage_lifecycle.py).  The node's declared paths, criteria   *)
(* and its being no candidate are constants of the code.                   *)
(***************************************************************************)
\* A mutant: the version is left out of the basis.
ReleaseBasis_NoVersion(t) ==
    <<t.docs["record"], t.docs["plan"], t.bound["package"], t.lifecycle,
      t.increment, t.step, t.legacy>>

ReleaseBasis(t) ==
    <<t.dist, t.docs["record"], t.docs["plan"], t.bound["package"], t.lifecycle,
      t.increment, t.step, t.legacy>>

WithoutProgress(t) ==
    <<t.dist, t.status, t.increment, t.lifecycle, t.step, t.docs["plan"],
      t.docs["budget"], t.bound["package"]>>

DocumentsKept(kind, t, b) ==
    /\ \A d \in {"constitution", "golden"} : t.docs[d] = b.docs[d]
    /\ kind = "transition-contract-migration" =>
          /\ t.docs["budget"] = 1 /\ t.docs["note"] = 1
          /\ Acceptance([t EXCEPT !.docs["note"] = 0]) = Acceptance([b EXCEPT !.docs["note"] = 0])
    /\ kind = "repository-presentation" =>
          Acceptance(t) = Acceptance(b) /\ t.docs["guidance"] = b.docs["guidance"]

\* The program is no changed path when its node alone has changed.
ObservedPaths(t, b) ==
    IF t.cycle.progress = b.cycle.progress
          /\ Program([t EXCEPT !.cycle = NoCycle]) = Program([b EXCEPT !.cycle = NoCycle])
    THEN Changed(t, b) \ {"program"} ELSE Changed(t, b)

Migration(t, b) ==
    /\ NodeOf(b).schema = "v2"
    /\ NodeOf(b).state = "closed"
    /\ ObservedPaths(t, b) = MigrationPaths

Presentation(t, b) ==
    /\ V3Node(b)
    /\ NodeOf(b).kind = "transition-contract-migration"
    /\ t.files["readme"] = 1
    /\ WithoutProgress(t) = WithoutProgress(b)
    /\ ObservedPaths(t, b) = PresentationPaths

Decision(t, b) ==
    LET n == NodeOf(t) IN
    /\ V3Node(t)
    /\ IF n.kind = "transition-contract-migration" THEN Migration(t, b) ELSE Presentation(t, b)
    /\ ReleaseBasis(t) = ReleaseBasis(b)
    /\ DocumentsKept(n.kind, t, b)
    /\ NodeOf(b).digest = n.digest

(***************************************************************************)
(* The repository contract of one committed tree                           *)
(***************************************************************************)
EvidenceBound(t) == t.files["evidence"] = t.bound["evidence"]
PackageBound(t) == t.files["package"] = t.bound["package"]
NotesBound(t) == t.files["notes"] = t.bound["notes"]

V1Contract(t) ==
    V1Node(t) /\ EvidenceBound(t) /\ \A c \in Criteria : t.verified[c]

V2Contract(t) ==
    LET n == t.legacy IN
    /\ V2Node(t)
    /\ n.state = "closed" \/ n.replay.state = "verified" => EvidenceBound(t)
    /\ n.state = "closed" => \A c \in Criteria : t.verified[c]

\* The decision, on the tree in which the previous node first appeared.
V3Transition(t, origin) == origin \in DOMAIN commits /\ Decision(t, commits[origin])

V3Contract(t) == V3Transition(t, NodeOf(t).pred) /\ EvidenceBound(t)

Contract(t) ==
    LET n == NodeOf(t) IN
    /\ n # NoNode
    /\ CASE n.schema = "v1" -> V1Contract(t)
         [] n.schema = "v2" -> V2Contract(t)
         [] n.schema = "v3" -> V3Contract(t)
         [] OTHER -> FALSE
    /\ NotesBound(t)
    /\ PackageBound(t)
    /\ n.digest = Digest(t)

(***************************************************************************)
(* Runs of equal nodes in the history                                      *)
(***************************************************************************)
Tip == Len(commits)
NodeAt(i) == NodeOf(commits[i])

\* The oldest commit of the run that commit i belongs to.
RunStart(i) ==
    CHOOSE j \in 1..i :
        /\ \A k \in j..i : NodeAt(k) = NodeAt(i)
        /\ j = 1 \/ NodeAt(j - 1) # NodeAt(i)

\* Seen from commit i: where the node started, if it is the node there;
\* the last commit before its run; where the node before it started.
Origin(node, i) == IF NodeAt(i) = node THEN RunStart(i) ELSE 0
PriorEnd(node, i) == IF NodeAt(i) = node THEN RunStart(i) - 1 ELSE i
PriorOrigin(node, i) ==
    LET e == PriorEnd(node, i) IN
    IF e > 0 /\ NodeAt(e) # NoNode THEN RunStart(e) ELSE 0

\* A mutant: a hole in the chain goes unnoticed.
Replayed_NoHole(node, i) == \E j \in 1..PriorEnd(node, i) : NodeAt(j) = node

\* A node comes back after another one, or the chain has a hole.
Replayed(node, i) ==
    LET e == PriorEnd(node, i) IN
    \/ \E j \in 1..e : NodeAt(j) = node
    \/ PriorOrigin(node, i) = 0 /\ \E j \in 1..e : NodeAt(j) # NoNode

\* Every commit that carries a node has the state bound where it started.
RunFrozen(o, e) == \A i \in o..e : Binding(commits[i]) = Binding(commits[o])
RunContract(o, e) == \A i \in o..e : Contract(commits[i])
RunStatus(o, e) == RunFrozen(o, e) /\ RunContract(o, e)

(***************************************************************************)
(* The transition from one node to the next                                *)
(***************************************************************************)
V1GateTransition(t, b) ==
    LET n == t.legacy
        p == b.legacy IN
    /\ p.next = Following(p.gate)
    /\ IF t.dist = b.dist THEN n.gate \in {p.gate, p.next}
       ELSE p.next = 0 /\ n.gate = 1 /\ t.dist > b.dist

V1Transition(t, b) ==
    LET n == t.legacy
        p == NodeOf(b) IN
    /\ p.schema = "v1"
    /\ V1GateTransition(t, b)
    /\ n.kind = "unchanged" => p.digest = n.digest
    /\ n.affected = ActualAffected(b, t)

V2PostRelease(n) == n.state = "closed" /\ n.kind = "post-release-reconciliation"

PostReleaseTransition(n, p) ==
    /\ p.schema = "v2" /\ p.state = "closed"
    /\ n = [p EXCEPT !.pred = n.pred, !.kind = n.kind]

ReopensClosed(n, p) == p.state = "closed" /\ p.next # 0 /\ n.kind = "changed"

ReopenedSuccessor(n, p) ==
    /\ p.replay.state = "pending" /\ n.replay.state = "verified"
    /\ n.kind = p.kind
    /\ Scope(n.replay) = Scope(p.replay)

\* Only the transition, the reference and the evaluation digest may differ.
SameStage(n, p) ==
    n = [p EXCEPT !.pred = n.pred, !.kind = n.kind, !.digest = n.digest]

ReopenedReacceptance(n, p) ==
    /\ n.replay = V7Verified
    /\ p.kind = "changed" /\ n.kind = "reaccepting"
    /\ SameStage(n, p)

ReacceptanceCorrection(n, p) ==
    /\ n.replay = V7Verified
    /\ p.kind \in Reaccepting /\ n.kind = "reaccepting-correction"
    /\ n.pred # p.pred
    /\ SameStage(n, p)

ReopenTransition(n, p) ==
    \/ ReopensClosed(n, p)
    \/ /\ p.schema = "v2" /\ p.state = "reopened"
       /\ \/ ReopenedSuccessor(n, p)
          \/ ReopenedReacceptance(n, p)
          \/ ReacceptanceCorrection(n, p)
          \/ <<p.replay, n.replay>> \in ReplayTransitions

\* A mutant: the last boundary is closed like the ones before it.
CloseTransition_NoReacceptance(n, p) ==
    /\ p.schema = "v2" /\ p.state = "reopened"
    /\ n.replay.boundary = p.replay.boundary

CloseTransition(n, p) ==
    /\ p.schema = "v2" /\ p.state = "reopened"
    /\ IF 7 \in {n.replay.boundary, p.replay.boundary}
       THEN p.kind \in Reaccepting /\ n.kind = p.kind /\ n.replay = p.replay
       ELSE n.replay.boundary = p.replay.boundary

V2Transition(n, p) ==
    /\ p.schema \in {"v1", "v2"}
    /\ n.gate \in {p.gate} \cup (IF p.state = "closed" THEN {p.next} ELSE {})
    /\ CASE V2PostRelease(n) -> PostReleaseTransition(n, p)
         [] n.state = "reopened" -> ReopenTransition(n, p)
         [] OTHER -> CloseTransition(n, p)

(***************************************************************************)
(* A committed chain.  A run ending at commit e stands if it is legal in   *)
(* itself and continues the run before it.                                 *)
(***************************************************************************)
V1RunStands(o, e) ==
    LET n == NodeAt(o) IN
    /\ V1Node(commits[o])
    /\ RunStatus(o, e)
    /\ ~Replayed(n, o)
    /\ IF n.kind = "snapshot-bootstrap" THEN PriorOrigin(n, o) = 0
       ELSE /\ n.pred # 0 /\ n.pred = PriorOrigin(n, o)
            /\ V1Transition(commits[o], commits[n.pred])

V2RunStands(o, e) ==
    LET n == NodeAt(o) IN
    /\ V2Node(commits[o])
    /\ RunStatus(o, e)
    /\ ~Replayed(n, o)
    /\ n.pred # 0 /\ n.pred = PriorOrigin(n, o)
    /\ V2Transition(n, NodeAt(n.pred))
    /\ V2PostRelease(n) => PostReleaseDeltaValid(commits[n.pred], commits[o])

V3RunStands(o, e) ==
    LET n == NodeAt(o) IN
    /\ RunStatus(o, e)
    /\ \A i \in o..e : Changed(commits[o], commits[i]) = {}
    /\ ~Replayed(n, o)
    /\ n.pred # 0 /\ n.pred = PriorOrigin(n, o)
    /\ V3Transition(commits[o], n.pred)

RunStands(o, e) ==
    CASE NodeAt(o).schema = "v1" -> V1RunStands(o, e)
      [] NodeAt(o).schema = "v2" -> V2RunStands(o, e)
      [] NodeAt(o).schema = "v3" -> V3RunStands(o, e)
      [] OTHER -> FALSE

IsBootstrap(n) == n.schema = "v1" /\ n.kind = "snapshot-bootstrap"

\* How many runs are followed back from commit e to the bootstrap, more than
\* MaxDepth if one of them does not stand.  What has been decided of a run is
\* remembered and not decided again.
RunsBack[e \in 0..Tip] ==
    IF e = 0 \/ ~RunStands(RunStart(e), e) THEN MaxDepth + 1
    ELSE IF IsBootstrap(NodeAt(e)) THEN 1
    ELSE RunsBack[RunStart(e) - 1] + 1

LineageHolds(end) == RunsBack[end] <= MaxDepth

(***************************************************************************)
(* The worktree against the history                                        *)
(***************************************************************************)
Here == NodeOf(work)
HereOrigin == Origin(Here, Tip)
Latest == PriorOrigin(Here, Tip)
PriorHolds == LineageHolds(PriorEnd(Here, Tip))

\* Nothing bound has changed since the node of the worktree first appeared.
V1Carried ==
    HereOrigin # 0 =>
        /\ RunStatus(HereOrigin, Tip)
        /\ Binding(work) = Binding(commits[HereOrigin])

V1Predecessor ==
    /\ Latest # 0 /\ Here.pred = Latest
    /\ PriorHolds
    /\ V1Transition(work, commits[Latest])
    /\ NodeAt(Latest).digest = Digest(commits[Latest])

V1Accepts ==
    /\ V1Node(work)
    /\ V1Carried
    /\ IF Here.kind = "snapshot-bootstrap" THEN Latest = 0 ELSE V1Predecessor

\* A close after reacceptance, and a correction, touch every criterion, and
\* a close touches nothing else but states.
ReacceptanceKept ==
    LET n == Here
        b == commits[Latest] IN
    (n.state = "closed" \/ n.kind = "reaccepting-correction") /\ NodeAt(Latest).kind \in Reaccepting =>
        /\ V2Affected(n) \cup {"R1"} = ActualAffected(b, work)
        /\ n.state = "closed" => CloseProjection(b) = CloseProjection(work)

V2Accepts ==
    /\ V2Node(work)
    /\ Latest # 0 /\ Here.pred = Latest
    /\ V2Transition(Here, NodeAt(Latest))
    /\ IF V2PostRelease(Here) THEN PostReleaseDeltaValid(commits[Latest], work) ELSE ReacceptanceKept
    /\ PriorHolds
    /\ HereOrigin # 0 => V2RunStands(HereOrigin, Tip)

\* A mutant: only the bound state of the worktree is compared.
V3Unchanged_Bound == HereOrigin # 0 => Binding(commits[HereOrigin]) = Binding(work)

V3Unchanged == HereOrigin # 0 => Changed(commits[HereOrigin], work) = {}

V3Accepts ==
    /\ Latest # 0 /\ Here.pred = Latest
    /\ V3Transition(work, Latest)
    /\ V3Unchanged
    /\ PriorHolds
    /\ HereOrigin # 0 => V3RunStands(HereOrigin, Tip)

\* A mutant: the evaluation contract of the documents is not compared.
Accepts_AnyDigest ==
    /\ Here # NoNode
    /\ ~Replayed(Here, Tip)
    /\ CASE Here.schema = "v1" -> V1Accepts
         [] Here.schema = "v2" -> V2Accepts
         [] Here.schema = "v3" -> V3Accepts
         [] OTHER -> FALSE

Accepts ==
    /\ Here # NoNode
    /\ Here.digest = Digest(work)
    /\ ~Replayed(Here, Tip)
    /\ CASE Here.schema = "v1" -> V1Accepts
         [] Here.schema = "v2" -> V2Accepts
         [] Here.schema = "v3" -> V3Accepts
         [] OTHER -> FALSE

(***************************************************************************)
(* What a maintainer writes                                                *)
(***************************************************************************)
References == {RunStart(Tip), Tip}

\* Nodes of the right shape: one of another shape is refused by itself.
V1Nodes(t) ==
    LET node(gate, pred, kind, affected) ==
            [schema |-> "v1", state |-> "closed", dist |-> t.dist, digest |-> Digest(t),
             gate |-> gate, next |-> Following(gate), pred |-> pred, kind |-> kind,
             affected |-> affected]
    IN  {node(g, 0, "snapshot-bootstrap", Criteria) : g \in 1..LastGate}
        \cup {node(g, p, "unchanged", {}) : g \in 1..LastGate, p \in References}
        \cup {node(g, p, "changed", a) : g \in 1..LastGate, p \in References,
                 a \in {{"Q4"}, Criteria}}

V2Nodes(t) ==
    LET node(state, gate, pred, kind, replay) ==
            [schema |-> "v2", state |-> state, dist |-> t.dist, digest |-> Digest(t),
             gate |-> gate, next |-> IF state = "reopened" THEN gate ELSE Following(gate),
             pred |-> pred, kind |-> kind, replay |-> replay]
    IN  {node("reopened", g, p, "changed", r) : g \in 1..LastGate, p \in References, r \in Replays}
        \cup {node("reopened", g, p, k, V7Verified) :
                 g \in 1..LastGate, p \in References, k \in Reaccepting}
        \cup {node("closed", g, p, k, r) :
                 g \in 1..LastGate, p \in References,
                 k \in {"changed", "post-release-reconciliation"} \cup Reaccepting,
                 r \in {q \in Replays : q.state = "verified"}}

V3Nodes(t) ==
    [schema : {"v3"}, state : {"closed"}, digest : {Digest(t)}, pred : References,
     kind : Maintenance]

\* The node, and the states the program and the criteria declare beside it.
PlaceV1(t, n) == [t EXCEPT !.legacy = n, !.cycle = NoCycle]

PlaceV2(t, n) ==
    LET open == n.state = "reopened" IN
    [t EXCEPT !.legacy = n, !.cycle = NoCycle,
              !.status = IF open THEN "active" ELSE "ready",
              !.increment = IF open THEN "active" ELSE "completed",
              !.verified = [c \in Criteria |-> c # "R3" \/ ~open],
              !.step = IF n.kind = "changed" THEN "replay" ELSE "reaccept",
              !.lifecycle = [boundary |-> n.replay.boundary, state |-> n.replay.state]]

PlaceV3(t, n) ==
    [t EXCEPT !.cycle = [progress |-> n.kind, node |-> n],
              !.status = "active",
              !.docs = [@ EXCEPT !["budget"] = 1, !["note"] = 1]]

\* Content is edited before a node is written, one node between two commits.
Unplaced == Here = NodeAt(Tip)

Rewrite(t) ==
    /\ work' = t
    /\ verdict' = "unchecked"
    /\ UNCHANGED <<commits, strays, added>>

WriteV1Node ==
    /\ Unplaced /\ added < MaxCommits
    /\ \E n \in V1Nodes(work) : Rewrite(PlaceV1(work, n))
    /\ UNCHANGED edits

WriteV2Node ==
    /\ Unplaced /\ added < MaxCommits
    /\ \E n \in V2Nodes(work) : Rewrite(PlaceV2(work, n))
    /\ UNCHANGED edits

WriteV3Node ==
    /\ Unplaced /\ added < MaxCommits
    /\ \E n \in V3Nodes(work) : Rewrite(PlaceV3(work, n))
    /\ UNCHANGED edits

\* Content is rewritten: documents, files, or the digests declared of files.
Revised(t, parts) ==
    [t EXCEPT !.legacy = IF "node" \in parts THEN NoNode ELSE @,
              !.docs = [d \in Docs |-> IF d \in parts THEN (@[d] + 1) % 3 ELSE @[d]],
              !.files = [f \in Files |-> IF f \in parts THEN (@[f] + 1) % 3 ELSE @[f]],
              !.dist = IF "dist" \in parts THEN @ + 1 ELSE @,
              !.bound = [f \in Declared |-> IF "digests" \in parts
                                            THEN IF f \in parts THEN (t.files[f] + 1) % 3 ELSE t.files[f]
                                            ELSE @[f]]]

Revise ==
    /\ Unplaced /\ edits < MaxEdits /\ added < MaxCommits
    /\ \E parts \in Revisions : Rewrite(Revised(work, parts))
    /\ edits' = edits + 1

\* The content of an older commit is put back.
Revert ==
    /\ Unplaced /\ edits < MaxEdits /\ added < MaxCommits
    /\ \E i \in 1..Tip : commits[i] # work /\ Rewrite(commits[i])
    /\ edits' = edits + 1

Check ==
    /\ verdict = "unchecked"
    /\ verdict' = IF Accepts THEN "accepted" ELSE "refused"
    /\ UNCHANGED <<commits, work, edits, strays, added>>

\* A commit without an accepting check: one careless change, the last edit.
Stray == verdict = "unchecked" /\ strays < MaxStrays /\ (edits = 0 \/ Here \in {NodeAt(Tip), NoNode})

Commit ==
    /\ added < MaxCommits
    /\ work # commits[Tip]
    /\ verdict = "accepted" \/ Stray
    /\ commits' = Append(commits, work)
    /\ added' = added + 1
    /\ strays' = IF verdict = "accepted" THEN strays ELSE strays + 1
    /\ edits' = IF verdict = "accepted" THEN edits ELSE MaxEdits
    /\ verdict' = "unchecked"
    /\ UNCHANGED work

Init ==
    /\ commits \in Histories
    /\ work = commits[Len(commits)]
    /\ verdict = "unchecked"
    /\ edits = 0 /\ strays = 0 /\ added = 0

Next ==
    \/ WriteV1Node \/ WriteV2Node \/ WriteV3Node
    \/ Revise \/ Revert \/ Check \/ Commit

Spec == Init /\ [][Next]_vars

(***************************************************************************)
(* Properties                                                              *)
(***************************************************************************)
\* What is in the history stays in it; an accepted worktree carries a node
\* of a known schema whose reference is a commit before it, and the digest
\* the node gives is the one of the documents (the shape every caller of
\* _validate_closeout_snapshot relies on).
TypeOK ==
    /\ commits \in Seq(Trees) /\ work \in Trees
    /\ verdict \in {"unchecked", "accepted", "refused"}
    /\ Tip > 0 /\ added \in 0..MaxCommits /\ edits \in 0..MaxEdits /\ strays \in 0..MaxStrays
    /\ verdict = "accepted" =>
          /\ Here.schema \in {"v1", "v2", "v3"}
          /\ Here.pred \in 0..Tip
          /\ Here.digest = Digest(work)

\* The nodes of the history, then the one of the worktree.
Line == [i \in 1..Tip + 1 |-> IF i <= Tip THEN NodeAt(i) ELSE Here]
Starts == {i \in DOMAIN Line : i = 1 \/ Line[i] # Line[i - 1]}
Before(i) == CHOOSE j \in Starts : j < i /\ \A k \in Starts : k < i => k <= j

\* An accepted worktree ends one chain (control.py, the lineage rules, however
\* many commits, reverts and unchecked commits made the history): commits
\* without a node come only before the chain, which begins with a bootstrap
\* and has no hole; every node in it names the commit where the one before it
\* first appeared, no node comes back, the schemas never go back, and no
\* release gate is passed over.
AcceptedHistoryIsOneChain ==
    verdict = "accepted" =>
        \E b \in Starts :
            /\ \A i \in 1..b - 1 : Line[i] = NoNode
            /\ IsBootstrap(Line[b])
            /\ \A i \in DOMAIN Line : i > b => Line[i] # NoNode
            /\ \A i \in Starts : i > b =>
                  LET p == Line[Before(i)] IN
                  /\ ~IsBootstrap(Line[i])
                  /\ Line[i].pred = Before(i)
                  /\ \A j \in Starts : j < i => Line[j] # Line[i]
                  /\ Line[i].schema # "v3" =>
                        /\ p.schema \in {"v1", Line[i].schema}
                        /\ Line[i].gate \in {p.gate, p.gate + 1} \/ (p.gate = LastGate /\ Line[i].gate = 1)

\* A stage whose replay reached boundary 7 is only ever closed after its
\* evidence was verified and the whole system was accepted again, with nothing
\* but reacceptance in between (_snapshot_v2_transition_errors, "close skips
\* reacceptance"), wherever in an accepted chain the close is.
CloseFollowsReacceptance ==
    verdict = "accepted" =>
        \A i \in Starts :
            (/\ Line[i].schema = "v2" /\ Line[i].state = "closed"
             /\ Line[i].kind # "post-release-reconciliation" /\ Line[i].replay.boundary = 7) =>
                \E j \in Starts :
                    /\ j < i
                    /\ Line[j].schema = "v2" /\ Line[j].kind = "changed"
                    /\ \A k \in Starts : j <= k /\ k < i =>
                          /\ Line[k].state = "reopened" /\ Line[k].replay = V7Verified
                          /\ Line[k].gate = Line[i].gate
                          /\ k > j => Line[k].kind \in Reaccepting
                    /\ \E k \in Starts : j < k /\ k < i

\* Maintenance after a release never touches the release (stage_lifecycle.py,
\* the frozen release basis): in an accepted maintenance cycle the worktree
\* still has the release's version, record, package, declared digests, legacy
\* node, constitution and evaluation contract, and the cycle is the
\* migration from the one released commit, then at most the presentation.
MaintenanceKeepsRelease ==
    (verdict = "accepted" /\ Here.schema = "v3") =>
        LET released == commits[MigrationRef]
            cycle == {i \in Starts : Line[i].schema = "v3"} IN
        /\ released.legacy.state = "closed"
        /\ work.dist = released.dist /\ work.bound = released.bound
        /\ work.files["package"] = released.files["package"]
        /\ work.legacy = released.legacy
        /\ \A d \in {"record", "constitution", "plan"} : work.docs[d] = released.docs[d]
        /\ Digest(work) = Digest(released)
        /\ Cardinality(cycle) <= 2
        /\ \A i \in cycle : Line[i].kind = "transition-contract-migration" <=> Line[i].pred = MigrationRef

\* What was accepted before it was committed is accepted afterwards
\* (_validate_closeout_snapshot sees a node without an origin before, one
\* whose run begins at the head after), if the committed tree keeps the
\* repository contract.  A v2 node that is carried on is excepted: its bound
\* documents are compared with its origin only once they are committed.
CommitKeepsAcceptance ==
    [][(/\ verdict = "accepted" /\ added' = added + 1
        /\ Contract(work) /\ ~(Here.schema = "v2" /\ Unplaced)) => Accepts']_vars
=============================================================================
