--------------------------- MODULE MCStageLineage ---------------------------
(***************************************************************************)
(* A small instance: two gates, and the histories a repository can have    *)
(* had before its first snapshot, at each stage of one release and in the  *)
(* maintenance after it.                                                   *)
(***************************************************************************)
EXTENDS StageLineage

Root ==
    [legacy |-> NoNode, cycle |-> NoCycle, dist |-> 1, status |-> "ready",
     increment |-> "completed", step |-> "replay",
     lifecycle |-> [boundary |-> 6, state |-> "pending"],
     docs |-> [d \in Docs |-> 0], verified |-> [c \in Criteria |-> TRUE],
     files |-> [f \in Files |-> 0], bound |-> [f \in Declared |-> 0]]

V1(t, gate, pred, kind, affected) ==
    PlaceV1(t, [schema |-> "v1", state |-> "closed", dist |-> t.dist, digest |-> Digest(t),
                gate |-> gate, next |-> Following(gate), pred |-> pred, kind |-> kind,
                affected |-> affected])
V2(t, state, gate, pred, kind, replay) ==
    PlaceV2(t, [schema |-> "v2", state |-> state, dist |-> t.dist, digest |-> Digest(t),
                gate |-> gate, next |-> IF state = "reopened" THEN gate ELSE Following(gate),
                pred |-> pred, kind |-> kind, replay |-> replay])
V3(t, pred, kind) ==
    PlaceV3(t, [schema |-> "v3", state |-> "closed", digest |-> Digest(t),
                pred |-> pred, kind |-> kind])

C1 == V1(Root, 1, 0, "snapshot-bootstrap", Criteria)
C2 == V2(C1, "reopened", 2, 1, "changed", Replay(6, "verified", "review"))
C3 == V2(C2, "reopened", 2, 2, "changed", Replay(7, "pending", "agent"))
C4 == V2(C3, "reopened", 2, 3, "changed", V7Verified)
C5 == V2(C4, "reopened", 2, 4, "reaccepting", V7Verified)
C6 == V2(C5, "closed", 2, 5, "reaccepting", V7Verified)
Reconciled == Revised(C6, {"record", "other"})
C7 == V2(Reconciled, "closed", 2, 6, "post-release-reconciliation", V7Verified)
C8 == V3(Revised(C7, {"guidance", "code"}), 7, "transition-contract-migration")
C9 == V3(Revised(C8, {"readme"}), 8, "repository-presentation")

Release == <<C1, C2, C3, C4, C5, C6, C7, C8, C9>>
MCHistories == {<<Root>>} \cup {SubSeq(Release, 1, i) : i \in {1, 4, 6, 7, 8}}
MCDelta == <<PostReleaseProjection(C6), PostReleaseProjection(Reconciled)>>
MCReplays == {Replay(6, "verified", "review"), Replay(7, "pending", "agent"), V7Verified}
MCRevisions ==
    {{"text"}, {"notes", "digests"}, {"package"}, {"package", "digests"}, {"evidence"}, {"readme"},
     {"record", "other"}, {"guidance", "code"}, {"code"}, {"dist"}, {"node"}}
=============================================================================
