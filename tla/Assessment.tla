----------------------------- MODULE Assessment -----------------------------
(***************************************************************************)
(* One assessment of development evidence: it binds a commit, asks a       *)
(* caller-owned observer for records of earlier executions, judges them,   *)
(* asks the observer again, and reports what the candidate may claim.      *)
(* Maintainers commit and edit, conditions drift and time passes between   *)
(* any two steps.  What the observer answers is the instance's to say.     *)
(***************************************************************************)
EXTENDS Admission

CONSTANTS
    Observers,
    Answer(_, _, _, _)   \* of an observer, over the commits, to a request, in the actual conditions

(* The assessment, step by step.                                            *)

NoReport == [accepted |-> {}, supplemental |-> {}, met |-> {}, functional |-> FALSE,
             value |-> FALSE, impact |-> FALSE, eligible |-> FALSE]
NoReads == [ok |-> TRUE, budget |-> [calls |-> 0, files |-> 0, bytes |-> 0], prior |-> {},
            snapshots |-> {}, deltas |-> {}]

(* Any exception of the observation withdraws everything.                   *)
Fail ==
    /\ errors' = errors \cup {"observer"}
    /\ admitted' = {} /\ supplemental' = {}
    /\ pc' = "report"
    /\ UNCHANGED <<subject, contract, started, now, data, next, seen, applicable, reuse, rejections,
                   caseErrors, reads, moves, anchors, report>>

(* The caller binds the commit, then checks the contract it reads from the  *)
(* working tree.                                                            *)
BindSubject ==
    /\ pc = "idle"
    /\ subject' = head
    /\ pc' = "bound"
    /\ UNCHANGED <<repo, env, contract, started, now, evidence, anchors, report, touched>>

ReadContract ==
    /\ pc = "bound"
    /\ contract' = work.contract
    /\ IF ContractValid(work.contract) THEN pc' = "checked" /\ UNCHANGED errors
       ELSE pc' = "report" /\ errors' = {"contract"}
    /\ UNCHANGED <<repo, env, subject, started, now, data, next, seen, admitted, applicable, reuse,
                   supplemental, rejections, caseErrors, reads, moves, anchors, report, touched>>

Tree(c) == [files |-> c.files, contract |-> c.contract]
AtSubject == head = subject /\ Tree(work) = Tree(commits[subject])
AskObserver ==
    /\ pc = "checked"
    /\ IF AtSubject /\ commits[subject].contract = contract
       THEN /\ started' = clock /\ touched' = FALSE /\ pc' = "observing"
            /\ UNCHANGED <<subject, contract, now, evidence, anchors, report>>
       ELSE Fail /\ UNCHANGED touched
    /\ UNCHANGED <<repo, env>>

(* An answer lists records and witnesses, and every time in it is one.      *)
Dated(bundle) == \A n \in DOMAIN bundle.reviews : bundle.reviews[n].at \in Nat
Parsed(e) ==
    /\ e.records \in Seq({e.records[n] : n \in DOMAIN e.records})
    /\ e.witnesses \in Seq({e.witnesses[n] : n \in DOMAIN e.witnesses})
    /\ \A i \in DOMAIN e.materials : Dated(e.materials[i].review)
    /\ \A n \in DOMAIN e.witnesses :
        LET w == e.witnesses[n]
        IN  /\ Dated(w.review) /\ w.observedAt \in Nat
            /\ w.chain \in Seq({w.chain[k] : k \in DOMAIN w.chain})
            /\ \A k \in DOMAIN w.chain : w.chain[k].at \in Nat
Observe(e) ==
    /\ pc = "observing" /\ Parsed(e)
    /\ IF ~(DOMAIN e.materials \subseteq DOMAIN contract.cases) THEN Fail
       ELSE /\ data' = e /\ now' = clock /\ pc' = "records"
            /\ UNCHANGED <<subject, contract, started, next, seen, admitted, applicable, reuse, supplemental,
                           rejections, errors, caseErrors, reads, moves, anchors, report>>
    /\ UNCHANGED <<repo, env, touched>>

NextRecord ==
    /\ pc = "records" /\ next <= Len(data.records)
    /\ LET r == data.records[next]
       IN  MalformedRecord(r) \/ DuplicateRecord(r) \/ JudgeRecord(r)
    /\ next' = next + 1
    /\ UNCHANGED <<repo, env, pc, subject, contract, started, now, data, supplemental, anchors, report,
                   touched>>

(* A witness names a commit of the subject's past; a correction's packages  *)
(* are read again, past the cache.                                          *)
ReadAnew(state, rev) ==
    [Read([state EXCEPT !.snapshots = {}], rev, FALSE) EXCEPT !.snapshots = state.snapshots]
ReadWitness(state, w) ==
    LET rev == CHOOSE x \in DOMAIN w.epochs : TRUE
        begun == [state EXCEPT !.ok = TRUE]
        both == IF Alone(w) THEN ReadAnew(ReadAnew(begun, subject), rev)
                ELSE Read(Read(begun, rev, FALSE), subject, FALSE)
    IN  IF rev \in 1..subject
        THEN ReadDelta(both, rev, Delta(commits[rev].files, commits[subject].files, Files), TRUE)
        ELSE [state EXCEPT !.ok = FALSE]
ReadWitnesses[n \in 0..Len(data.witnesses)] ==
    IF n = 0 THEN reads ELSE ReadWitness(ReadWitnesses[n - 1], data.witnesses[n])

JudgeWitness ==
    /\ pc = "records" /\ next > Len(data.records)
    /\ IF ~(DOMAIN data.materials \subseteq seen) THEN Fail
       ELSE LET valid == {i \in DOMAIN data.witnesses : WitnessSupported(data.witnesses[i]) /\ ReadWitnesses[i].ok}
            IN  /\ supplemental' = valid \ Conflicting(valid)
                /\ reads' = ReadWitnesses[Len(data.witnesses)]
                /\ errors' = errors
                     \cup Failed("review", ReviewPasses(data.review, subject, 0))
                     \cup Failed("review-time", ReviewPasses(data.review, subject, 0) =>
                                    ReviewSince(data.review, commits[subject].time, now))
                /\ pc' = "recheck"
                /\ UNCHANGED <<subject, contract, started, now, data, next, seen, admitted, applicable, reuse,
                               rejections, caseErrors, moves, anchors, report>>
    /\ UNCHANGED <<repo, env, touched>>

(* The observer looks again.  A case whose conditions or applicability are  *)
(* not what was observed loses its admission, a witness its support.        *)
Recheck ==
    /\ pc = "recheck"
    /\ LET moved == {i \in admitted \cap applicable : data.materials[i].context # world.context}
           drifted == {i \in admitted \ moved : contract.cases[i].conditions.sandbox # world.sandbox}
       IN  /\ admitted' = admitted \ (moved \cup drifted)
           /\ rejections' = rejections \cup (moved \X {"current-applicability-changed"})
                                       \cup (drifted \X {"current-conditions-changed"})
           /\ caseErrors' = caseErrors \cup moved \cup drifted
           /\ supplemental' = {i \in supplemental : data.witnesses[i].context = world.context}
    /\ pc' = "criteria"
    /\ UNCHANGED <<repo, env, subject, contract, started, now, data, next, seen, applicable, reuse,
                   errors, reads, moves, anchors, report, touched>>
ObserverFails ==
    /\ pc \in {"observing", "recheck"}
    /\ Fail
    /\ UNCHANGED <<repo, env, touched>>

Anchored(doc, anchor) == anchor \in commits[subject].anchors
ReadCriteria ==
    /\ pc = "criteria"
    /\ anchors' = {<<o.doc, o.anchor>> : o \in {p \in Obligations : Witnessed(p, supplemental)
                                                                    /\ Anchored(p.doc, p.anchor)}}
    /\ pc' = "subject"
    /\ UNCHANGED <<repo, env, subject, contract, started, now, evidence, report, touched>>

CheckSubject ==
    /\ pc = "subject"
    /\ IF AtSubject
       THEN pc' = "clean" /\ UNCHANGED <<subject, contract, started, now, evidence, anchors, report>>
       ELSE Fail
    /\ UNCHANGED <<repo, env, touched>>
CheckClean ==
    /\ pc = "clean"
    /\ IF Tree(work) = Tree(commits[head])
       THEN pc' = "qualify" /\ UNCHANGED <<subject, contract, started, now, evidence, anchors, report>>
       ELSE Fail
    /\ UNCHANGED <<repo, env, touched>>

(* Final qualification: everything admitted must still be young enough, and *)
(* any error of the whole observation withdraws what rests on an argument   *)
(* of reuse or on a supplementary execution.                                *)
Late == ReviewPasses(data.review, subject, 0) /\ ~ReviewFresh(data.review, clock)
Qualify ==
    /\ pc = "qualify"
    /\ IF head # subject THEN Fail
       ELSE LET expired == {i \in admitted : clock - started >= contract.cases[i].maxAge}
                stale == {i \in (admitted \ expired) \cap applicable : ~ReviewFresh(data.materials[i].review, clock)}
                left == admitted \ (expired \cup stale)
                final == errors \cup (IF Late THEN {"review-expired"} ELSE {})
                live == {i \in supplemental :
                            LET w == data.witnesses[i]
                                age == IF Alone(w) THEN w.maxAge ELSE contract.cases[w.base].maxAge
                            IN  /\ ~Alone(w) => w.base \in left
                                /\ clock - started < age
                                /\ Alone(w) => Fresh(w.observedAt, age, clock)
                                /\ ReviewFresh(w.review, clock)}
                revoked == IF final = {} THEN {} ELSE left \cap applicable
            IN  /\ errors' = final
                /\ admitted' = left \ revoked
                /\ supplemental' = IF final = {} THEN live ELSE {}
                /\ rejections' = rejections \cup (expired \X {"current-applicability-expired"})
                                            \cup (stale \X {"current-impact-review-expired"})
                                            \cup (revoked \X {"current-candidate-review-or-source-invalid"})
                /\ caseErrors' = caseErrors \cup expired \cup stale
                /\ pc' = "report"
                /\ UNCHANGED <<subject, contract, started, now, data, next, seen, applicable, reuse, reads,
                               moves, anchors, report>>
    /\ UNCHANGED <<repo, env, touched>>

(* A selection that is not final keeps its cases out, then coverage is      *)
(* counted from what is left.                                               *)
HoldPending ==
    /\ pc = "report"
    /\ LET pending == IF ContractValid(contract) /\ ~SelectionFinal(contract.selection)
                      THEN admitted \cap SelectionCases(contract) ELSE {}
       IN  /\ admitted' = admitted \ pending
           /\ rejections' = rejections \cup (pending \X {"entry-selection-pending"})
           /\ supplemental' = {i \in supplemental : Alone(data.witnesses[i])
                                                      \/ data.witnesses[i].base \in admitted \ pending}
    /\ pc' = "counting"
    /\ UNCHANGED <<repo, env, subject, contract, started, now, data, next, seen, applicable, reuse, errors,
                   caseErrors, reads, moves, anchors, report, touched>>
Report ==
    /\ pc = "counting"
    /\ report' = [accepted |-> admitted, supplemental |-> supplemental, met |-> Met(supplemental),
                  functional |-> Completed("function", supplemental)
                                   /\ \A o \in Obligations : Supported(o, supplemental),
                  value |-> Completed("incremental-value", supplemental),
                  impact |-> Completed("impact-assessment", supplemental),
                  eligible |-> Eligible(supplemental)]
    /\ pc' = "done"
    /\ UNCHANGED <<repo, env, subject, contract, started, now, evidence, anchors, touched>>

-----------------------------------------------------------------------------
(* Meanwhile: maintainers commit and edit, conditions drift, time passes.   *)
(* Each may happen before any step that reads what it changes.              *)

Moving == moves < MaxMoves /\ moves' = moves + 1
others == <<pc, subject, contract, started, now, data, next, seen, admitted, applicable, reuse, supplemental,
            rejections, errors, caseErrors, reads, anchors, report>>
RepoRead == {"bound", "checked", "observing", "records", "subject", "clean", "qualify"}
Commit ==
    /\ pc \in RepoRead /\ Moving
    /\ \E c \in Candidates : commits' = Append(commits, [c EXCEPT !.time = clock])
    /\ head' = Len(commits) + 1
    /\ work' = Tree(commits'[head'])
    /\ touched' = TRUE
    /\ UNCHANGED <<env, others>>
Edit ==
    /\ pc \in RepoRead /\ Moving
    /\ \E i \in DOMAIN commits : work' = Tree(commits[i]) /\ head' \in {head, i}
    /\ <<head', work'>> # <<head, work>>
    /\ touched' = TRUE
    /\ UNCHANGED <<commits, env, others>>
Tick ==
    /\ pc \in {"observing", "qualify"}
    /\ clock < MaxTime
    /\ clock' = clock + 1
    /\ UNCHANGED <<repo, world, moves, touched, others>>
Drift ==
    /\ pc \in {"observing", "recheck"} /\ Moving
    /\ \E x \in DOMAIN world : world' = [world EXCEPT ![x] = 1 - @]
    /\ UNCHANGED <<repo, clock, touched, others>>

Init ==
    /\ commits \in Histories
    /\ head = Len(commits) /\ work = Tree(commits[head])
    /\ clock = InitTime /\ world = [sandbox |-> 0, context |-> 0]
    /\ moves = 0
    /\ pc = "idle" /\ subject = head /\ contract = commits[head].contract
    /\ started = 0 /\ now = 0
    /\ data = [records |-> <<>>, materials |-> <<>>, witnesses |-> <<>>, review |-> [subject |-> 0]]
    /\ next = 1 /\ seen = {} /\ admitted = {} /\ applicable = {} /\ reuse = {} /\ supplemental = {}
    /\ rejections = {} /\ errors = {} /\ caseErrors = {}
    /\ reads = NoReads /\ anchors = {} /\ report = NoReport /\ touched = FALSE

Next ==
    \/ BindSubject \/ ReadContract \/ AskObserver
    \/ \E o \in Observers : Observe(Answer(o, commits, [subject |-> subject, clock |-> clock], world))
    \/ NextRecord \/ JudgeWitness \/ Recheck \/ ObserverFails
    \/ ReadCriteria \/ CheckSubject \/ CheckClean \/ Qualify \/ HoldPending \/ Report
    \/ Commit \/ Edit \/ Tick \/ Drift
Spec == Init /\ [][Next]_vars

-----------------------------------------------------------------------------
(* Types: what was admitted was read from a record of a declared case,      *)
(* reads stay inside the assessment's bounds, and nothing is both admitted  *)
(* and rejected.                                                            *)
ReadStates ==
    [ok : BOOLEAN, budget : [calls : 0..CallBound, files : 0..FileBound, bytes : 0..ByteBound],
     prior : SUBSET DOMAIN commits, snapshots : SUBSET DOMAIN commits, deltas : SUBSET DOMAIN commits]
TypeOK ==
    /\ commits \in Seq(Commits) /\ work \in Trees /\ contract \in Contracts
    /\ head \in DOMAIN commits /\ subject \in DOMAIN commits
    /\ clock \in Nat /\ started \in Nat /\ now \in Nat
    /\ Parsed(data) /\ next \in 1..Len(data.records) + 1
    /\ admitted \subseteq seen /\ seen \subseteq DOMAIN contract.cases /\ applicable \subseteq seen
    /\ applicable \subseteq DOMAIN data.materials /\ supplemental \subseteq DOMAIN data.witnesses
    /\ reuse \subseteq seen
    /\ reads \in ReadStates
    /\ \A i \in admitted : ~\E x \in rejections : x[1] = i
    /\ pc # "done" => report = NoReport

(* An accepted case rests on one record that saw the case's consequences,   *)
(* the conditions it ran under still held when the observer looked again,   *)
(* and what it depends on is the same in the commit under assessment, or an *)
(* error-free assessment holds a fresh independent review of the complete   *)
(* change.  An edit during the assessment that is undone before its end can *)
(* hide a changed execution file or mode: the code compares those with the  *)
(* working tree, so the property speaks of them only when nothing moved.    *)
AcceptedOnCurrentSource ==
    pc = "done" =>
        /\ report.supplemental # {} => errors = {}
        /\ \A i \in report.accepted :
            LET own == {n \in DOMAIN data.records : data.records[n].case = i}
                r == data.records[CHOOSE n \in own : TRUE]
                c == contract.cases[i]
                old == commits[r.revision].files
                new == commits[subject].files
                needed == IF c.files = {} THEN Package ELSE c.files
            IN  /\ Cardinality(own) = 1
                /\ \A x \in DOMAIN c.expected : r.facts[x].episode = r.episode /\ r.facts[x].value = c.expected[x]
                /\ world.sandbox = c.conditions.sandbox
                /\ clock - started < c.maxAge
                /\ \/ /\ \A f \in needed : old[f].text = new[f].text
                      /\ \A f \in needed : old[f].mode = new[f].mode \/ (c.files = {} /\ touched)
                      /\ \A f \in c.oracle \ ReviewFiles : old[f] = new[f] \/ touched
                   \/ /\ i \in DOMAIN data.materials /\ errors = {}
                      /\ LET m == data.materials[i]
                         IN  /\ \A f \in Package \cup c.oracle : old[f] # new[f] => f \in DOMAIN m.delta
                             /\ m.context = world.context
                             /\ \A n \in DOMAIN m.review.reviews :
                                 LET v == m.review.reviews[n]
                                 IN  v.passed /\ v.at >= commits[subject].time /\ v.at + ReviewMaxAge >= clock

(* A candidate is eligible only when every requirement is met by cases all  *)
(* of which were accepted under a final entry selection, a joint scope by   *)
(* one case alone, and every obligation by a consequence seen in its own    *)
(* scope or by a supplementary execution of its own: no operation counts    *)
(* for two of them.                                                         *)
EligibleIsComplete ==
    (pc = "done" /\ report.eligible) =>
        /\ report.met = Requirements /\ report.functional /\ CaseBindingGaps = {}
        /\ report.accepted = DOMAIN contract.cases /\ SelectionFinal(contract.selection)
        /\ \A s \in JointScopes :
            \E i \in report.accepted :
                /\ contract.cases[i].scope = s
                /\ contract.cases[i].duties = Policy.scopes[s].duties
        /\ \A i, j \in report.supplemental : i # j =>
            LET v == data.witnesses[i]
                w == data.witnesses[j]
            IN  v.obligations \cap w.obligations = {} /\ <<v.episode, v.operation>> # <<w.episode, w.operation>>
        /\ \A o \in Obligations :
            \/ \E i \in report.accepted :
                /\ contract.cases[i].scope = o.scope
                /\ \E n \in DOMAIN data.records :
                    /\ data.records[n].case = i
                    /\ (o.leaf \in DOMAIN data.records[n].facts /\ data.records[n].facts[o.leaf].value)
                         \/ (i \in DOMAIN data.materials
                                /\ \E d \in data.materials[i].derived :
                                        d.obligation = o.id /\ d.episode = data.records[n].episode)
            \/ \E i \in report.supplemental :
                LET w == data.witnesses[i]
                IN  /\ o.id \in w.obligations
                    /\ \A n \in DOMAIN w.review.reviews :
                        w.review.reviews[n].at >= Last(w.chain).at /\ w.review.reviews[n].at + ReviewMaxAge >= clock
=============================================================================
