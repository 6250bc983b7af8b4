---------------------------- MODULE MCAssessment ----------------------------
(***************************************************************************)
(* A small instance: four cases, one of each scope an eligible candidate   *)
(* needs, the changes a second commit can make to them, and observations   *)
(* that are honest, honest with arguments of reuse, or wrong in one way.   *)
(***************************************************************************)
EXTENDS Assessment

MCFiles == {"manifest", "skill", "extra", "runner", "criteria", "verifier"}
MCPackage == {"manifest", "skill", "extra"}
MCClaims == {"function", "package-lifecycle", "impact-assessment", "incremental-value"}
MCAxes == {"specification", "implementation"}
MCIndependent == {MCAxes}

Loose == [sandbox |-> 0, limits |-> 2]
Scope(kind, claims, duties) ==
    [kind |-> kind, entry |-> "cli", claims |-> claims, duties |-> duties, conditions |-> Loose]
Obligation(id, q, s, leaf) ==
    [id |-> id, anchor |-> q, scope |-> s, claim |-> "function", leaf |-> leaf, doc |-> "criteria"]
Cover(f, p, i) ==
    [l \in MCClaims |-> CASE l = "function" -> f [] l = "package-lifecycle" -> p
                          [] l = "impact-assessment" -> i [] OTHER -> {}]
MCPolicy ==
    [scopes |->
        [routing |-> Scope("single", {"function"}, {"d1"}),
         applicability |-> Scope("applicability", {"function"}, {"d1"}),
         delivery |-> Scope("delivery", {"function"}, {"d1"}),
         cycle |-> Scope("lifecycle", {"package-lifecycle"}, {"d1"}),
         impact |-> Scope("impact", {"impact-assessment"}, {"d1"}),
         system |-> Scope("integration", {"function"}, {"d1", "d2"})],
     duties |-> {"d1", "d2"},
     required |-> Cover({"routing", "system"}, {"cycle"}, {"impact"}),
     requirements |->
        [A01 |-> [coverage |-> Cover({"routing"}, {"cycle"}, {"impact"}),
                  obligations |-> {Obligation("delegated", "A01", "routing", "x"),
                                   Obligation("policy", "A01", "routing", "y"),
                                   Obligation("corrected", "A01", "routing", "z")}],
         A08 |-> [coverage |-> Cover({"system"}, {}, {}),
                  obligations |-> {Obligation("joined", "A08", "system", "effect")}]],
     supplement |-> [model |-> {"delegated", "policy"}, goal |-> {"policy"}, correction |-> {"corrected"}]]

OneCase(s, claim, duties, files, subjects, age) ==
    [scope |-> s, entry |-> "cli", claims |-> {claim}, duties |-> duties,
     oracle |-> {"criteria", "runner"}, files |-> files, maxAge |-> age,
     conditions |-> [sandbox |-> 0, limits |-> 1], expected |-> [effect |-> TRUE], subjects |-> subjects]
MCCases ==
    [r1 |-> OneCase("routing", "function", {"d1"}, {"manifest", "skill"}, {}, 2),
     j1 |-> OneCase("system", "function", {"d1", "d2"}, {}, {"cli"}, 2),
     l1 |-> OneCase("cycle", "package-lifecycle", {"d1"}, {}, {"cli"}, 2),
     i1 |-> OneCase("impact", "impact-assessment", {"d1"}, {}, {}, 1)]

\* Commits.
Text0 == [text |-> 0, stamp |-> 0, mode |-> 0]
Stamped(files, k) == [k EXCEPT !.declared = [f \in MCPackage |-> [files[f] EXCEPT !.mode = 0]]]
At(files, k, time) ==
    [files |-> files, contract |-> Stamped(files, k), anchors |-> {"A01", "A08"}, time |-> time]
Files1 == [f \in MCFiles |-> Text0]
Contract1 ==
    [schema |-> "s5", admission |-> "v5", status |-> "in-development", version |-> [base |-> "dev", stamp |-> 1],
     declared |-> [f \in MCPackage |-> Text0], norm |-> 0, cases |-> MCCases,
     selection |-> [status |-> [cli |-> "selected", app |-> "deferred"],
                    modes |-> [app |-> [chat |-> "deferred"]], final |-> TRUE]]
C1 == At(Files1, Contract1, 0)
Stamp2 == [Contract1 EXCEPT !.version.stamp = 2]
Rebuilt == At([Files1 EXCEPT !["manifest"].stamp = 2, !["extra"].text = 1], Stamp2, 7)
Remoded == At([Files1 EXCEPT !["skill"].mode = 1], Contract1, 7)
Reran == At([Files1 EXCEPT !["runner"].text = 1], Contract1, 7)
Renormed == At([Files1 EXCEPT !["criteria"].text = 1], [Contract1 EXCEPT !.norm = 1], 7)
Pending == At(Files1, [Contract1 EXCEPT !.selection.status["app"] = "pending",
                                        !.selection.modes["app"]["chat"] = "pending"], 7)
Frozen == At(Files1, [Contract1 EXCEPT !.status = "candidate-frozen", !.version = [base |-> "final", stamp |-> 0]], 7)
Unanchored == [At([Files1 EXCEPT !["criteria"].text = 1], Contract1, 7) EXCEPT !.anchors = {"A08"}]
Undeclared == [Rebuilt EXCEPT !.contract = Contract1]
MCHistories == {<<C1, c>> : c \in {Rebuilt, Remoded, Reran, Renormed, Pending, Frozen, Unanchored, Undeclared}}
MCCandidates == {[C1 EXCEPT !.files = [@ EXCEPT !["runner"].text = 2]]}

\* Observations.
TheRecord(h, i, rev) ==
    [case |-> i, revision |-> rev, definition |-> Definition(h[rev].contract, h[rev].contract.cases[i]),
     package |-> Digest(h[rev].files), at |-> h[rev].time + 1, conditions |-> MCCases[i].conditions,
     episode |-> 1, sourced |-> TRUE, facts |-> [effect |-> [episode |-> 1, value |-> TRUE]]]
TheReview(t, id, who) ==
    [subject |-> t.subject, evidence |-> id,
     reviews |-> <<[axis |-> "specification", reviewer |-> "p", subject |-> t.subject, passed |-> TRUE, at |-> t.clock - 1],
                   [axis |-> "implementation", reviewer |-> who, subject |-> t.subject, passed |-> TRUE, at |-> t.clock - 1]>>]
Kinds == <<"authority", "single-writer", "action", "feedback", "adoption", "poststate">>
TheMaterial(h, t, w, i, version, id) ==
    LET new == h[t.subject]
        r == TheRecord(h, i, 1)
        c == MCCases[i]
        paths == IF version = 1 THEN MCPackage \cup c.oracle \cup {"verifier"} ELSE MCFiles
    IN  [id |-> id, version |-> version, parent |-> i # "r1", record |-> r, accepted |-> TRUE, qualifiedAt |-> r.at,
         subject |-> t.subject, definition |-> Definition(new.contract, new.contract.cases[i]),
         package |-> Digest(new.files), context |-> w.context,
         delta |-> Delta(h[1].files, new.files, paths), normative |-> Normative(h[1].contract, new.contract),
         contributions |-> {"effect"},
         bindings |-> [x \in {"sandbox", "limits"} |->
                          [original |-> c.conditions[x], duty |-> "continuing", current |-> c.conditions[x],
                           entry |-> "cli"]],
         roles |-> {[entry |-> "cli", mode |-> "none", duty |-> "continuing"]},
         predicates |-> [x \in {"effect"} |-> [entry |-> "cli", duty |-> "historical"]],
         edges |-> [n \in 1..6 |-> [kind |-> Kinds[n], from |-> n, to |-> n + 1]],
         derived |-> IF version = 3 /\ i = "r1"
                     THEN {[obligation |-> "delegated", episode |-> 1, chain |-> <<1, 2>>]} ELSE {},
         sourced |-> TRUE, review |-> TheReview(t, id, "q")]
TheWitness(h, t, w, kind, obligations, op, id, types) ==
    [id |-> id, kind |-> kind, base |-> "r1", record |-> TheRecord(h, "r1", 1), obligations |-> obligations,
     episode |-> 2, operation |-> op, revision |-> 1, entries |-> {"cli"}, deadline |-> 6, seconds |-> 6,
     explained |-> FALSE, sourced |-> TRUE, context |-> w.context, subject |-> t.subject,
     package |-> Digest(h[t.subject].files), observedAt |-> t.clock - 1, maxAge |-> 1,
     epochs |-> [rev \in {1} |-> [package |-> Digest(h[1].files),
                                  delta |-> Delta(h[1].files, h[t.subject].files, MCFiles),
                                  normative |-> Normative(h[1].contract, h[t.subject].contract)]],
     chain |-> [n \in DOMAIN types |-> [type |-> types[n], at |-> n, operation |-> op]],
     review |-> TheReview(t, id, "q")]
Model(h, t, w, obligations, op, id) ==
    TheWitness(h, t, w, "model", obligations, op, id, <<"binding", "select", "load", "adoption", "cleanup">>)
Correction(h, t, w, id) ==
    TheWitness(h, t, w, "correction", {"corrected"}, 9, id,
               <<"authority", "correction", "correction", "cleanup", "poststate">>)
Goal(h, t, w, id) ==
    TheWitness(h, t, w, "goal", {"policy"}, 8, id,
               <<"input", "binding", "interpretation", "applied", "adoption", "cleanup">>)

Materials(h, t, w, version) ==
    [i \in DOMAIN MCCases |-> TheMaterial(h, t, w, i, version,
        CASE i = "r1" -> 1 [] i = "j1" -> 2 [] i = "l1" -> 3 [] OTHER -> 4)]
Honest(h, t, w, materials, witnesses) ==
    [records |-> <<TheRecord(h, "r1", 1), TheRecord(h, "j1", 1), TheRecord(h, "l1", 1), TheRecord(h, "i1", 1)>>,
     materials |-> materials, witnesses |-> witnesses, review |-> TheReview(t, 0, "q")]
AllWitnesses(h, t, w) ==
    <<Model(h, t, w, {"delegated"}, 1, 11), Model(h, t, w, {"policy"}, 2, 12), Correction(h, t, w, 13)>>
Plain(h, t, w) == Honest(h, t, w, <<>>, AllWitnesses(h, t, w))
Reused(h, t, w, v) == Honest(h, t, w, Materials(h, t, w, v), AllWitnesses(h, t, w))
TheEnvelope(id, h, t, w) ==
    LET plain == Plain(h, t, w)
        first == plain.records[1]
    IN  CASE id = 1 -> plain
          [] id = 2 -> Reused(h, t, w, 1)
          [] id = 3 -> Reused(h, t, w, 2)
          [] id = 4 -> Honest(h, t, w, Materials(h, t, w, 3), Tail(AllWitnesses(h, t, w)))
          [] id = 5 -> [plain EXCEPT !.records = @ \o <<[first EXCEPT !.case = "unknown"], first>>]
          [] id = 6 -> [plain EXCEPT !.witnesses[2] = Model(h, t, w, {"policy"}, 1, 12)]
          [] id = 7 -> [plain EXCEPT !.records[1].facts["effect"].value = FALSE,
                                     !.records[2].facts["effect"].episode = 3]
          [] id = 8 -> [Reused(h, t, w, 2) EXCEPT !.review = TheReview(t, 0, "p")]
          [] id = 9 -> [Reused(h, t, w, 2) EXCEPT !.materials["r1"].delta = <<>>,
                                                  !.materials["l1"].contributions = {}]
          [] id = 10 -> [plain EXCEPT !.witnesses[1].deadline = 3, !.witnesses[2] = Goal(h, t, w, 12)]
          [] id = 11 -> [plain EXCEPT !.records = [n \in 1..4 |-> TheRecord(h, plain.records[n].case, t.subject)]]
          [] OTHER -> [plain EXCEPT !.records = Tail(@), !.materials = [x \in {"r1"} |-> TheMaterial(h, t, w, x, 1, 1)]]

=============================================================================
