------------------------------ MODULE Admission ------------------------------
(***************************************************************************)
(* Admission of development evidence: what a contract must declare, when a *)
(* record of an earlier execution still supports its case in the commit    *)
(* under assessment, and what the admitted cases amount to.  Assessment    *)
(* takes the steps.                                                        *)
(*                                                                         *)
(* Abstracted: JSON shapes, text and hashes.  A digest is the value it is  *)
(* taken of; the digest of a material or witness is its id.  A source is   *)
(* well referenced or not ("sourced").  Duties, quality axes and scenarios *)
(* are one set of duties.  The host is one.                                *)
(***************************************************************************)
EXTENDS Integers, Sequences, FiniteSets

CONSTANTS
    Files, Package, Manifest,   \* paths; those of the package; its manifest
    Adjudicator,                \* the paths of the verifier's own code
    ReviewFiles,                \* the criteria documents the fresh review owns
    Claims, Policy,             \* claims and the bound policy
    ReviewMaxAge,
    Axes, Independent, MinReviewers,
    Histories,                  \* initial sequences of commits
    Candidates,                 \* trees a maintainer may commit next
    CallBound, FileBound, ByteBound, TreeBytes,   \* the assessment's read bounds
    InitTime, MaxTime, MaxMoves

ASSUME PackageAssumption ==
    /\ IsFiniteSet(Files) /\ Package \subseteq Files /\ Manifest \in Package
    /\ Adjudicator \subseteq Files
ASSUME BoundAssumption ==
    {CallBound, FileBound, ByteBound, TreeBytes, ReviewMaxAge, InitTime, MaxTime, MaxMoves} \subseteq Nat

VARIABLES
    commits, head, work,        \* the repository and its working tree
    clock, world,               \* time; the actual conditions and context
    moves,                      \* commits, edits, drifts and faults so far
    pc, subject, contract, started, now,
    data, next, seen,           \* the observation and the records read so far
    admitted, applicable, reuse, supplemental,
    rejections, errors, caseErrors,
    reads, anchors, report,       \* what was read, and its cost
    touched                     \* history: the repository moved since the request

repo == <<commits, head, work>>
env == <<clock, world>>
evidence == <<data, next, seen, admitted, applicable, reuse, supplemental, rejections, errors,
              caseErrors, reads, moves>>
vars == <<repo, env, pc, subject, contract, started, now, evidence, anchors, report, touched>>

-----------------------------------------------------------------------------
(* The policy and the declarations of a contract.                          *)

Scopes == DOMAIN Policy.scopes
Requirements == DOMAIN Policy.requirements
Obligations == UNION {Policy.requirements[q].obligations : q \in Requirements}
Joined == "A08"
JointScopes == Policy.requirements[Joined].coverage["function"]
EntryParents == {"applicability", "delivery", "lifecycle"}
SelectedSubjects == {"host-lifecycle", "integration"}
SelectionKinds == EntryParents \cup SelectedSubjects \cup {"coverage"}
Lifecycles == {"lifecycle", "host-lifecycle", "sdk-lifecycle"}
ParentClaim == [k \in Lifecycles \cup {"delivery", "integration", "impact"} |->
    CASE k \in Lifecycles -> "package-lifecycle"
      [] k \in {"delivery", "integration"} -> "function"
      [] k = "impact" -> "impact-assessment"]
Kind(c) == Policy.scopes[c.scope].kind

(* The product's policy has a joint requirement, and requires the coverage  *)
(* of some scope that rests on the selection of entries.                    *)
ASSUME PolicyAssumption ==
    /\ "function" \in Claims /\ Joined \in Requirements
    /\ \A s \in Scopes : Policy.scopes[s].claims \subseteq Claims
    /\ \E l \in Claims : \E s \in Policy.required[l] \cap Scopes :
        l \in Policy.scopes[s].claims /\ Policy.scopes[s].kind \in SelectionKinds

(* What is committed: files with their text, cache stamp and mode, and a    *)
(* contract whose cases name paths and a greatest age.                      *)
Contents == [text : Nat, stamp : Nat, mode : Nat]
Contracts == UNION {{h[n].contract : n \in DOMAIN h} : h \in Histories} \cup {c.contract : c \in Candidates}
Trees == [files : [Files -> Contents], contract : Contracts]
Commits == [files : [Files -> Contents], contract : Contracts, anchors : SUBSET Requirements, time : Nat]
ASSUME HistoryAssumption ==
    /\ Histories \subseteq Seq(Commits) \ {<<>>} /\ Candidates \subseteq Commits
    /\ \A k \in Contracts : \A i \in DOMAIN k.cases :
        k.cases[i].oracle \subseteq Files /\ k.cases[i].maxAge \in Nat

(* A case's budget may be smaller than its scope's ceiling; every other     *)
(* condition binds exactly.                                                 *)
ConditionsMatch(actual, required) ==
    /\ actual.sandbox = required.sandbox
    /\ actual.limits \in 1..required.limits

(* The whole policy: each requirement maps declared scopes, together they   *)
(* are the required coverage, and every claim of value is required.         *)
CoverageMapped ==
    /\ \A q \in Requirements : UNION {Policy.requirements[q].coverage[l] : l \in Claims} # {}
    /\ \A l \in Claims :
        /\ l = "incremental-value" \/ Policy.required[l] # {}
        /\ Policy.required[l] = UNION {Policy.requirements[q].coverage[l] : q \in Requirements}
    /\ Policy.required["incremental-value"] = {s \in Scopes : "incremental-value" \in Policy.scopes[s].claims}

ObligationsBound(k) ==
    /\ \A q \in Requirements :
        /\ Policy.requirements[q].obligations # {}
        /\ \A o \in Policy.requirements[q].obligations :
            /\ o.anchor = q
            /\ o.scope \in Policy.requirements[q].coverage[o.claim] \cap Scopes
            /\ o.claim \in Policy.scopes[o.scope].claims
            /\ \A i \in DOMAIN k.cases :
                (k.cases[i].scope = o.scope /\ o.claim \in k.cases[i].claims
                    /\ o.leaf \in DOMAIN k.cases[i].expected) => k.cases[i].expected[o.leaf]
    /\ \A o, p \in Obligations : o.id = p.id => o = p

(* A case may name the package files it depends on only when it is a pure   *)
(* single-entry function case; {} stands for the whole package.             *)
SparseFiles(c) == c.files
SparseValid(c) ==
    c.files # {} =>
        /\ c.claims = {"function"} /\ Policy.scopes[c.scope].claims = {"function"}
        /\ Kind(c) \notin EntryParents /\ c.scope \notin JointScopes
        /\ Manifest \in c.files /\ c.files \subseteq Package

(* Every mode of a mixed entry is dispositioned, and the entry's own status *)
(* accounts for its modes.                                                  *)
ModesAccounted(s) ==
    \/ \A e \in DOMAIN s.modes : s.status[e] = "pending" /\ DOMAIN s.modes[e] = {}
    \/ \A e \in DOMAIN s.modes :
        LET values == {s.modes[e][m] : m \in DOMAIN s.modes[e]}
        IN  /\ (s.status[e] = "selected") = ("selected" \in values)
            /\ "selected" \in values \/ (s.status[e] = "pending") = ("pending" \in values)

Selected(s) == {e \in DOMAIN s.status : s.status[e] = "selected"}
SelectedModes(s, e) == IF e \in DOMAIN s.modes THEN {m \in DOMAIN s.modes[e] : s.modes[e][m] = "selected"} ELSE {}
SelectionCases(k) == {i \in DOMAIN k.cases : Kind(k.cases[i]) \in SelectionKinds}
SelectionFinal(s) ==
    /\ s.final
    /\ \A e \in DOMAIN s.status : s.status[e] # "pending"
    /\ \A e \in DOMAIN s.modes : \A m \in DOMAIN s.modes[e] : s.modes[e][m] # "pending"
SelectionValid(k) ==
    /\ EntryParents \subseteq {Policy.scopes[s].kind : s \in Scopes}
    /\ ModesAccounted(k.selection)
    /\ Selected(k.selection) # {}
    /\ \A i \in SelectionCases(k) : Kind(k.cases[i]) # "applicability" => k.cases[i].subjects = Selected(k.selection)

CaseValid(c) ==
    LET s == Policy.scopes[c.scope]
    IN  /\ c.entry = s.entry /\ c.claims # {} /\ c.claims \subseteq s.claims
        /\ c.duties # {} /\ c.duties \subseteq s.duties
        /\ c.maxAge > 0 /\ ReviewFiles \subseteq c.oracle
        /\ ConditionsMatch(c.conditions, s.conditions)
        /\ SparseValid(c)
ContractValid(k) ==
    /\ k.admission = "v5"
    /\ CoverageMapped
    /\ \A i \in DOMAIN k.cases : CaseValid(k.cases[i])
    /\ ObligationsBound(k)
    /\ SelectionValid(k)

(* What a stored record binds: the case and every shared part of the        *)
(* contract; a case over selected subjects also binds the selection.        *)
NoSelection == [status |-> <<>>, modes |-> <<>>, final |-> FALSE]
Definition(k, c) ==
    [case |-> c, norm |-> k.norm, status |-> k.status, version |-> k.version, declared |-> k.declared,
     selection |-> IF Kind(c) \in SelectionKinds THEN k.selection ELSE NoSelection]

(* What the meaning of a record depends on: progress notes and, for a case  *)
(* over selected files, the cache stamp and package digest drop out.        *)
Unstamped(v) == [v EXCEPT !.stamp = 0]
Digest(tree) == [f \in Package |-> [tree[f] EXCEPT !.mode = 0]]
NoDigest == [f \in Package |-> [text |-> 0, stamp |-> 0, mode |-> 0]]
ReuseDefinition(k, c) ==
    IF SparseFiles(c) = {} THEN Definition(k, c)
    ELSE Definition([k EXCEPT !.version = Unstamped(@), !.declared = NoDigest], c)
ImpactDefinition(k, c) ==
    ReuseDefinition([k EXCEPT !.version = Unstamped(@), !.declared = NoDigest], c)

(* Which reuse of an old execution a material may argue for.                *)
ImpactComparable(k0, c0, k, c) ==
    /\ c0 = c
    /\ \/ ImpactDefinition(k0, c0) = ImpactDefinition(k, c)
       \/ /\ k0.status = "in-development" /\ k.status = "candidate-frozen"
          /\ k0.version.base = "dev" /\ k.version = [base |-> "final", stamp |-> 0]
          /\ ImpactDefinition(k0, c0)
                = ImpactDefinition([k EXCEPT !.status = k0.status, !.version = k0.version], c)
ImpactEligible(c) ==
    /\ c.claims = {"function"} /\ Policy.scopes[c.scope].claims = {"function"}
    /\ Kind(c) = "single" /\ c.scope \notin JointScopes /\ c.subjects = {}

-----------------------------------------------------------------------------
(* Bounded reads of committed packages and differences.  A call is charged  *)
(* before it is made, bytes are reserved and the unused part returned.      *)

Charged(b, more, files, bytes, reserve, fault) ==
    LET whole == ~fault /\ bytes <= reserve
    IN  IF b.calls + 1 > CallBound THEN [ok |-> FALSE, budget |-> b]
        ELSE IF b.calls + 1 + more > CallBound \/ b.files + files > FileBound \/ b.bytes + reserve > ByteBound
            THEN [ok |-> FALSE, budget |-> [b EXCEPT !.calls = @ + 1]]
        ELSE [ok |-> whole,
              budget |-> [calls |-> b.calls + 1 + more, files |-> b.files + files,
                          bytes |-> b.bytes + (IF whole THEN bytes ELSE reserve)]]

(* One revision's package, read once per assessment; failures stay charged  *)
(* and are not cached.                                                      *)
Read(state, rev, fault) ==
    IF ~state.ok \/ rev \in state.snapshots THEN state
    ELSE LET paid == Charged(state.budget, 1, Cardinality(Package), Cardinality(Package), TreeBytes, fault)
         IN  [state EXCEPT !.ok = paid.ok, !.budget = paid.budget,
                           !.snapshots = IF paid.ok THEN @ \cup {rev} ELSE @]

(* The complete delta of two trees over some paths, modes included.         *)
Delta(old, new, paths) ==
    [f \in {p \in paths : old[p] # new[p]} |-> <<old[f], new[f]>>]
ReadDelta(state, rev, delta, complete) ==
    LET size == 2 * Cardinality(DOMAIN delta)
        paid == Charged(state.budget, IF size = 0 THEN 0 ELSE IF complete THEN 2 ELSE 1, size, size,
                        IF complete THEN size ELSE TreeBytes, FALSE)
    IN  IF ~state.ok \/ (complete /\ rev \in state.deltas) THEN state
        ELSE [state EXCEPT !.ok = paid.ok, !.budget = paid.budget,
                           !.deltas = IF complete /\ paid.ok THEN @ \cup {rev} ELSE @]
Normative(k0, k) == {x \in DOMAIN k : k0[x] # k[x]}

(* The manifest is compared without its cache stamp, every other selected   *)
(* file exactly, and all of them with their mode.                           *)
SelectedUnchanged_BytesOnly(old, new, files) ==
    \A f \in files : IF f = Manifest THEN old[f].text = new[f].text
                     ELSE [old[f] EXCEPT !.mode = 0] = [new[f] EXCEPT !.mode = 0]
SelectedUnchanged(old, new, files) ==
    \A f \in files : IF f = Manifest THEN Unstamped(old[f]) = Unstamped(new[f]) ELSE old[f] = new[f]

Fresh(at, age, time) == at <= time /\ time - at <= age

-----------------------------------------------------------------------------
(* Independent review: one passing review per axis, of this subject and     *)
(* material, by enough reviewers, distinct where independence is required.  *)

ReviewPasses(bundle, rev, id) ==
    LET rows == {bundle.reviews[i] : i \in DOMAIN bundle.reviews}
    IN  /\ bundle.subject = rev /\ bundle.evidence = id
        /\ Len(bundle.reviews) = Cardinality(Axes)
        /\ {r.axis : r \in rows} = Axes
        /\ \A r \in rows : r.passed /\ r.subject = rev
        /\ Cardinality({r.reviewer : r \in rows}) >= MinReviewers
        /\ \A r, t \in rows : {r.axis, t.axis} \in Independent => r.reviewer # t.reviewer
ReviewFresh(bundle, time) ==
    \A i \in DOMAIN bundle.reviews : Fresh(bundle.reviews[i].at, ReviewMaxAge, time)
ReviewSince(bundle, from, time) ==
    ReviewFresh(bundle, time) /\ \A i \in DOMAIN bundle.reviews : bundle.reviews[i].at >= from

-----------------------------------------------------------------------------
(* Current applicability: a reviewed argument that an old execution still   *)
(* supports its case although something it depends on has changed.          *)

CaseOf(r) == contract.cases[r.case]
Then(r) == commits[r.revision]
OriginalCase(r) == Then(r).contract.cases[r.case]
Contemporary(m) == m.version \in {2, 3}
ImpactPaths(c) == Package \cup c.oracle \cup Adjudicator
MaterialDelta(m, r) ==
    Delta(Then(r).files, commits[subject].files, IF Contemporary(m) THEN Files ELSE ImpactPaths(CaseOf(r)))

(* An ordinary material serves a single-entry function case; a parent one a *)
(* complete parent case of the same claim; the SDK's lifecycle is one only  *)
(* for a contemporary material of its own entry.                            *)
MaterialScope(m, r) ==
    IF m.parent
    THEN /\ Kind(CaseOf(r)) \in DOMAIN ParentClaim
         /\ Kind(CaseOf(r)) = "sdk-lifecycle" =>
                Contemporary(m) /\ {CaseOf(r).entry, OriginalCase(r).entry} = {"cx-sdk"}
         /\ {CaseOf(r).claims, OriginalCase(r).claims} = {{ParentClaim[Kind(CaseOf(r))]}}
    ELSE ImpactEligible(OriginalCase(r)) /\ ImpactEligible(CaseOf(r))

(* Every condition of the case is answered; one that must still hold has    *)
(* its original value now.                                                  *)
ConditionsBound(m, c) ==
    /\ DOMAIN m.bindings = DOMAIN c.conditions
    /\ \A x \in DOMAIN m.bindings :
        /\ m.bindings[x].original = c.conditions[x]
        /\ m.bindings[x].duty \in {"historical", "continuing"} \cup (IF m.parent THEN {"reassessed"} ELSE {})
        /\ m.bindings[x].duty = "continuing" => m.bindings[x].current = c.conditions[x]

(* The relationships of a joint episode: each kind once, each beginning at  *)
(* the event the one before it ended with.                                  *)
EdgeKinds == {"authority", "single-writer", "action", "feedback", "adoption", "poststate"}
EdgesJoined(edges) ==
    /\ {edges[i].kind : i \in DOMAIN edges} = EdgeKinds /\ Len(edges) = Cardinality(EdgeKinds)
    /\ \A i \in DOMAIN edges : edges[i].from # edges[i].to
    /\ \A i \in 2..Len(edges) : edges[i - 1].to = edges[i].from

(* A parent material binds one role per selected entry and mode, and every  *)
(* predicate and condition of the case to a role that can answer for it; no *)
(* condition has changed.                                                   *)
Answered(m, b) ==
    \E role \in m.roles : /\ role.entry = b.entry
                          /\ b.duty = "continuing" => role.duty # "historical"
ParentBound(m, r) ==
    LET c == CaseOf(r)
        entries == IF c.subjects = {} THEN {c.entry} ELSE c.subjects
        selected == {<<e, "none">> : e \in entries}
                      \cup UNION {{<<e, x>> : x \in SelectedModes(contract.selection, e)} : e \in entries}
    IN  /\ {<<role.entry, role.mode>> : role \in m.roles} = selected
        /\ Cardinality(m.roles) = Cardinality(selected)
        /\ DOMAIN m.predicates = DOMAIN c.expected
        /\ \A x \in DOMAIN m.predicates :
            /\ r.facts[x].value = c.expected[x]
            /\ Answered(m, m.predicates[x])
        /\ \A x \in DOMAIN m.bindings :
            /\ m.bindings[x].current = m.bindings[x].original
            /\ Answered(m, m.bindings[x])
        /\ Kind(c) = "integration" => EdgesJoined(m.edges)

(* A contemporary review covers every normative difference, and admits the  *)
(* case only when each original consequence is judged to apply now.         *)
ContemporaryReviewed(m, r) ==
    /\ OriginalCase(r) = CaseOf(r)
    /\ m.normative = Normative(Then(r).contract, contract)
ContributionComplete(m, r) == Contemporary(m) => m.contributions = DOMAIN OriginalCase(r).expected

(* A third-version material may derive outcomes from an ordered chain of    *)
(* the same episode, for obligations of this case.                          *)
DerivedValid(m, r) ==
    m.derived # {} =>
        /\ m.version = 3
        /\ \A d \in m.derived :
            /\ \E o \in Obligations :
                /\ o.id = d.obligation /\ o.scope = CaseOf(r).scope /\ o.claim \in CaseOf(r).claims
                /\ o.doc \in CaseOf(r).oracle
            /\ d.episode = r.episode
            /\ d.chain # <<>> /\ \A i \in 1..Len(d.chain) - 1 : d.chain[i] < d.chain[i + 1]

ImpactSupported(m, r) ==
    /\ MaterialScope(m, r)
    /\ IF Contemporary(m) THEN ContemporaryReviewed(m, r)
       ELSE ImpactComparable(Then(r).contract, OriginalCase(r), contract, CaseOf(r))
    /\ m.sourced
    /\ m.record = r /\ m.accepted /\ m.qualifiedAt \in r.at..now
    /\ m.subject = subject /\ m.package = Digest(commits[subject].files)
    /\ m.definition = Definition(contract, CaseOf(r))
    /\ m.delta = MaterialDelta(m, r)
    /\ ConditionsBound(m, CaseOf(r))
    /\ m.parent => ParentBound(m, r)
    /\ ReviewPasses(m.review, subject, m.id)
    /\ ReviewSince(m.review, commits[subject].time, now)
    /\ DerivedValid(m, r)

-----------------------------------------------------------------------------
(* Judging one record.                                                      *)

Failed(code, holds) == IF holds THEN {} ELSE {code}

(* The first group of checks to fail names the rejection.                   *)
FirstFailure(groups) ==
    LET failing == {i \in DOMAIN groups : groups[i] # {}}
    IN  IF failing = {} THEN {} ELSE groups[CHOOSE i \in failing : \A j \in failing : i <= j]

Prebound(r) ==
    /\ r.revision \in 1..Len(commits) /\ r.revision <= subject
    /\ Then(r).contract.schema = contract.schema
    /\ r.revision \in reads.prior \/ ContractValid(Then(r).contract)
    /\ r.case \in DOMAIN Then(r).contract.cases
HasMaterial(c) == c \in DOMAIN data.materials

IdentityFailures(r) ==
    Failed("record-definition-mismatch", r.definition = Definition(Then(r).contract, OriginalCase(r)))
    \cup Failed("reuse-definition-mismatch",
           HasMaterial(r.case) \/ ReuseDefinition(Then(r).contract, OriginalCase(r))
                                    = ReuseDefinition(contract, CaseOf(r)))
    \cup Failed("record-declared-package-mismatch", r.package = Then(r).contract.declared)
    \cup Failed("record-actual-package-mismatch", r.package = Digest(Then(r).files))
    \cup Failed("current-actual-package-mismatch", contract.declared = Digest(commits[subject].files))
PackageFailures(r) ==
    IF SparseFiles(CaseOf(r)) = {}
    THEN Failed("complete-package-changed", r.package = contract.declared)
    ELSE Failed("selected-package-dependency-changed",
                SelectedUnchanged(Then(r).files, commits[subject].files, SparseFiles(CaseOf(r))))

(* The execution dependencies are compared with the working tree as it is   *)
(* now; the criteria documents belong to the fresh review instead.          *)
ExecutionFiles(c) == (c.oracle \ ReviewFiles) \cup (IF SparseFiles(c) = {} THEN Package ELSE {})
ExecutionFailures(r) ==
    Failed("execution-dependency-changed",
           \A f \in ExecutionFiles(CaseOf(r)) : work.files[f] = Then(r).files[f])
ChangeFailures(r) == IF HasMaterial(r.case) THEN {} ELSE PackageFailures(r) \cup ExecutionFailures(r)

ObservationFailures(r) ==
    FirstFailure(<<
        Failed("observation-predates-candidate", r.at >= Then(r).time),
        Failed("provenance-missing", r.sourced),
        Failed("facet-shape-invalid", DOMAIN r.facts = DOMAIN CaseOf(r).expected),
        Failed("facet-episode-mismatch", \A x \in DOMAIN r.facts : r.facts[x].episode = r.episode)>>)
Unmet(r) ==
    Failed("execution-conditions-mismatch", r.conditions = CaseOf(r).conditions)
    \cup Failed("consequence-mismatch",
           \A x \in DOMAIN CaseOf(r).expected : r.facts[x].value = CaseOf(r).expected[x])
MaterialFailures(m, r) ==
    FirstFailure(<<Failed("current-applicability-unsupported", ImpactSupported(m, r)),
                   Failed("current-contribution-incomplete", ContributionComplete(m, r))>>)

(* A malformed record is an error of the whole observation; so is a second  *)
(* record of a case, which also discards the first.                         *)
MalformedRecord(r) ==
    /\ r.case \notin DOMAIN contract.cases
    /\ errors' = errors \cup {"unknown-record"}
    /\ UNCHANGED <<seen, admitted, applicable, reuse, rejections, caseErrors, reads, moves>>

DuplicateRecord_KeepsFirst(r) ==
    /\ r.case \in DOMAIN contract.cases /\ r.case \in seen
    /\ rejections' = rejections \cup {<<r.case, "duplicate-observation">>}
    /\ errors' = errors \cup {"duplicate"}
    /\ UNCHANGED <<seen, admitted, applicable, reuse, caseErrors, reads, moves>>
DuplicateRecord(r) ==
    /\ r.case \in DOMAIN contract.cases /\ r.case \in seen
    /\ admitted' = admitted \ {r.case}
    /\ rejections' = rejections \cup {<<r.case, "duplicate-observation">>}
    /\ errors' = errors \cup {"duplicate"}
    /\ UNCHANGED <<seen, applicable, reuse, caseErrors, reads, moves>>

RejectRecord(r, codes) ==
    /\ rejections' = rejections \cup {<<r.case, code>> : code \in codes}
    /\ errors' = errors \cup {"record"}
    /\ UNCHANGED <<admitted, applicable, caseErrors>>

JudgeRecord(r) ==
    /\ r.case \in DOMAIN contract.cases \ seen
    /\ seen' = seen \cup {r.case}
    /\ \E fault \in BOOLEAN :
        /\ moves' = moves + (IF fault THEN 1 ELSE 0) /\ moves' <= MaxMoves
        /\ LET early == FirstFailure(<<Failed("observation-time-invalid", r.at <= now),
                                       Failed("case-not-prebound", Prebound(r))>>)
               after == IF early # {} THEN [reads EXCEPT !.ok = TRUE]
                        ELSE Read(Read([reads EXCEPT !.ok = TRUE, !.prior = @ \cup {r.revision}], r.revision, fault),
                                  subject, FALSE)
               codes == IF early # {} THEN early
                        ELSE IF ~after.ok THEN {"source-evidence-unavailable"}
                        ELSE FirstFailure(<<IdentityFailures(r), ChangeFailures(r), ObservationFailures(r)>>)
               m == data.materials[r.case]
               final == IF codes = {} /\ Unmet(r) = {} /\ HasMaterial(r.case)
                        THEN ReadDelta(after, r.revision, MaterialDelta(m, r), Contemporary(m)) ELSE after
           IN  /\ reads' = final
               /\ reuse' = IF early = {} /\ after.ok /\ IdentityFailures(r) = {} /\ SparseFiles(CaseOf(r)) # {}
                              /\ PackageFailures(r) = {} /\ r.package # contract.declared
                           THEN reuse \cup {r.case} ELSE reuse
               /\ CASE codes # {} -> RejectRecord(r, codes)
                    [] codes = {} /\ Unmet(r) # {} ->
                        /\ rejections' = rejections \cup {<<r.case, code>> : code \in Unmet(r)}
                        /\ caseErrors' = caseErrors \cup {r.case}
                        /\ UNCHANGED <<admitted, applicable, errors>>
                    [] codes = {} /\ Unmet(r) = {} /\ ~HasMaterial(r.case) ->
                        /\ admitted' = admitted \cup {r.case}
                        /\ UNCHANGED <<applicable, rejections, errors, caseErrors>>
                    [] OTHER ->
                        IF ~final.ok THEN RejectRecord(r, {"source-evidence-unavailable"})
                        ELSE IF MaterialFailures(m, r) # {} THEN RejectRecord(r, MaterialFailures(m, r))
                        ELSE /\ admitted' = admitted \cup {r.case}
                             /\ applicable' = applicable \cup {r.case}
                             /\ UNCHANGED <<rejections, errors, caseErrors>>

-----------------------------------------------------------------------------
(* Supplementary executions: evidence of an obligation beside its case.  A  *)
(* "model" or "goal" witness rests on an admitted base case; a "correction" *)
(* stands alone and is only ever evidence of its one obligation.            *)

Alone(w) == w.kind = "correction"
WitnessObligation(w, o) == o.id \in w.obligations
ObligationNamed(id) == CHOOSE o \in Obligations : o.id = id
Last(s) == s[Len(s)]

ChainTypes(w) ==
    CASE w.kind = "model" -> {<<"binding", "select", "load", "adoption", "cleanup">>}
      [] w.kind = "goal" ->
            {first \o <<"interpretation", "applied", "adoption", "cleanup">> :
                first \in {<<"binding", "input">>, <<"input", "binding">>}}
      [] OTHER ->
            {<<"authority">> \o [i \in 1..Len(w.chain) - 3 |-> "correction"] \o last :
                last \in {<<"poststate", "cleanup">>, <<"cleanup", "poststate">>}}
ChainOrdered(w) ==
    /\ [i \in DOMAIN w.chain |-> w.chain[i].type] \in ChainTypes(w)
    /\ \A i \in DOMAIN w.chain : w.chain[i].at <= now /\ w.chain[i].operation = w.operation
    /\ \A i, j \in DOMAIN w.chain : i < j => w.chain[i].at < w.chain[j].at

(* The binding opens a window no longer than its declared seconds, and      *)
(* every claimed effect lies in it; only cleanup may be late, and then the  *)
(* lateness is accounted for.                                               *)
WindowKept(w) ==
    \E b \in DOMAIN w.chain :
        /\ w.chain[b].type = "binding"
        /\ w.chain[b].at >= commits[w.revision].time
        /\ w.deadline - w.chain[b].at \in 1..w.seconds
        /\ \A i \in DOMAIN w.chain : w.chain[i].type \notin {"binding", "cleanup"} => w.chain[i].at <= w.deadline
        /\ Last(w.chain).at <= w.deadline \/ w.explained

EpochKept(w, rev) ==
    /\ rev \in 1..subject
    /\ commits[rev].contract.schema = contract.schema /\ ContractValid(commits[rev].contract)
    /\ w.epochs[rev].package = Digest(commits[rev].files)
    /\ w.epochs[rev].package = commits[rev].contract.declared
    /\ w.epochs[rev].delta = Delta(commits[rev].files, commits[subject].files, Files)
    /\ w.epochs[rev].normative = Normative(commits[rev].contract, contract)

CurrentKept(w) ==
    /\ w.subject = subject
    /\ w.package = Digest(commits[subject].files) /\ w.package = contract.declared
EntriesSelected(w, k) == w.entries \subseteq Selected(k.selection)

BaseSupported(w) ==
    LET c == contract.cases[w.base]
    IN  /\ w.base \in admitted
        /\ ImpactEligible(c)
        /\ w.obligations # {} /\ w.obligations \subseteq Policy.supplement[w.kind]
        /\ \A id \in w.obligations :
            LET o == ObligationNamed(id)
            IN  o.scope = c.scope /\ o.claim = "function" /\ o.doc \in c.oracle
        /\ w.record.case = w.base /\ w.episode # w.record.episode
        /\ w.record \in {data.records[i] : i \in DOMAIN data.records}
        /\ DOMAIN w.epochs = {w.revision}
        /\ EntriesSelected(w, contract) /\ EntriesSelected(w, commits[w.revision].contract)
        /\ WindowKept(w)
CorrectionSupported(w) ==
    /\ w.obligations = Policy.supplement["correction"]
    /\ EntriesSelected(w, contract)
    /\ \A rev \in DOMAIN w.epochs : EntriesSelected(w, commits[rev].contract)
    /\ w.maxAge \in 1..ReviewMaxAge
    /\ Fresh(w.observedAt, w.maxAge, now) /\ w.observedAt >= commits[subject].time
    /\ Last(w.chain).at <= w.observedAt

WitnessSupported(w) ==
    /\ w.sourced
    /\ CurrentKept(w)
    /\ DOMAIN w.epochs # {} /\ \A rev \in DOMAIN w.epochs : EpochKept(w, rev)
    /\ ChainOrdered(w)
    /\ IF Alone(w) THEN CorrectionSupported(w) ELSE BaseSupported(w)
    /\ ReviewPasses(w.review, subject, w.id)
    /\ ReviewSince(w.review, IF Alone(w) THEN w.observedAt
                             ELSE IF Last(w.chain).at > commits[subject].time THEN Last(w.chain).at
                             ELSE commits[subject].time, now)

(* Two witnesses of one obligation, or of one operation of one episode,     *)
(* conflict: none of them counts.                                           *)
Conflicting_ObligationOnly(ids) ==
    {i \in ids : \E j \in ids \ {i} : data.witnesses[i].obligations \cap data.witnesses[j].obligations # {}}
Conflicting(ids) ==
    {i \in ids : \E j \in ids \ {i} :
        LET v == data.witnesses[i]
            w == data.witnesses[j]
        IN  \/ v.obligations \cap w.obligations # {}
            \/ <<v.episode, v.operation>> = <<w.episode, w.operation>>}

-----------------------------------------------------------------------------
(* Coverage: what the admitted cases and witnesses amount to.               *)

Bound(l) == {s \in Policy.required[l] \cap Scopes : l \in Policy.scopes[s].claims}
Relevant(s, l) == {i \in DOMAIN contract.cases : contract.cases[i].scope = s /\ l \in contract.cases[i].claims}
MissingDuties(s, l) ==
    Policy.scopes[s].duties \ UNION {contract.cases[i].duties : i \in Relevant(s, l) \cap admitted}
Joint(s) ==
    \E i \in Relevant(s, "function") \cap admitted : Policy.scopes[s].duties \subseteq contract.cases[i].duties
Unbindable(s, l) ==
    /\ s \in Bound(l)
    /\ \/ UNION {contract.cases[i].duties : i \in Relevant(s, l)} # Policy.scopes[s].duties
       \/ /\ l = "function" /\ s \in JointScopes
          /\ \A i \in Relevant(s, l) : ~(Policy.scopes[s].duties \subseteq contract.cases[i].duties)
CaseBindingGaps == {gap \in Scopes \X Claims : Unbindable(gap[1], gap[2])}

Derived(i) == IF i \in applicable THEN {d.obligation : d \in data.materials[i].derived} ELSE {}
Observed(i, o) == o.leaf \in DOMAIN contract.cases[i].expected /\ contract.cases[i].expected[o.leaf]
Candidate(o, ids) ==
    {i \in Relevant(o.scope, o.claim) \cap admitted :
        \/ Observed(i, o) \/ o.id \in Derived(i)
        \/ \E w \in ids : ~Alone(data.witnesses[w]) /\ data.witnesses[w].base = i
                            /\ WitnessObligation(data.witnesses[w], o)}
Witnessed(o, ids) ==
    \/ \E i \in Candidate(o, ids) : o.doc \in contract.cases[i].oracle
    \/ \E w \in ids : Alone(data.witnesses[w]) /\ WitnessObligation(data.witnesses[w], o)
Supported(o, ids) == Witnessed(o, ids) /\ <<o.doc, o.anchor>> \in anchors

ScopeCovered(s, l) ==
    /\ s \in Bound(l)
    /\ Relevant(s, l) # {} /\ Relevant(s, l) \subseteq admitted
    /\ MissingDuties(s, l) = {}
    /\ (l = "function" /\ s \in JointScopes) => Joint(s)
Completed(l, ids) ==
    /\ errors = {}
    /\ Bound(l) = Policy.required[l] /\ Bound(l) # {}
    /\ \A s \in Bound(l) : ScopeCovered(s, l)
    /\ \A o \in Obligations : o.claim = l => Supported(o, ids)
Eligible(ids) ==
    /\ errors = {} /\ caseErrors = {}
    /\ \A l \in Claims : Policy.required[l] # {} => Completed(l, ids)
    /\ admitted = DOMAIN contract.cases
    /\ UNION {Policy.scopes[s].duties : s \in UNION {Bound(l) : l \in Claims}} = Policy.duties
RequirementMet(q, ids) ==
    /\ errors = {}
    /\ \A l \in Claims : \A s \in Policy.requirements[q].coverage[l] : ScopeCovered(s, l)
    /\ \A o \in Policy.requirements[q].obligations : Supported(o, ids)
Met(ids) ==
    LET alone == {q \in Requirements : RequirementMet(q, ids)}
    IN  IF Requirements \ {Joined} \subseteq alone THEN alone ELSE alone \ {Joined}
=============================================================================
