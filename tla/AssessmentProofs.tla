-------------------------- MODULE AssessmentProofs --------------------------
(***************************************************************************)
(* What an assessment accepts and what it takes for complete, for any      *)
(* histories, policy, observers and bounds, with commits, edits, drift and *)
(* time between any two steps.                                             *)
(*                                                                         *)
(* Each fact a report rests on is established at one step and must survive *)
(* until the report: Judged what the records showed when they were read,   *)
(* Weighed what the witnesses did, Rechecked the conditions at the second  *)
(* observation, Qualified ages and reviews at the end, Held the pending    *)
(* selection.  Commits only ever add to the history, so that what was true *)
(* of a revision up to the subject stays true.                             *)
(***************************************************************************)
EXTENDS Assessment, FiniteSetTheorems, WellFoundedInduction, TLAPS

(* Nothing is judged before the first answer.                               *)
Untouched ==
    /\ next = 1 /\ seen = {} /\ admitted = {} /\ applicable = {} /\ reuse = {}
    /\ supplemental = {} /\ rejections = {}
Early == {"idle", "bound", "checked", "observing"}
Begun == /\ pc \in Early => Untouched
         /\ pc \in {"observing", "records"} /\ ~touched => work.files = commits[subject].files

(* The subject has what case c depends on as revision rev had it.           *)
Same(c, rev, sub, cs, moved) ==
    LET old == cs[rev].files
        new == cs[sub].files
        needed == IF c.files = {} THEN Package ELSE c.files
    IN  /\ \A f \in needed : old[f].text = new[f].text
        /\ \A f \in needed : old[f].mode = new[f].mode \/ (c.files = {} /\ moved)
        /\ \A f \in c.oracle \ ReviewFiles : old[f] = new[f] \/ moved

(* Material m answers for the complete change since record r, under a       *)
(* review of it.                                                            *)
Argued(r, c, m, sub, cs) ==
    /\ \A f \in Package \cup c.oracle : cs[r.revision].files[f] # cs[sub].files[f] => f \in DOMAIN m.delta
    /\ \A n \in DOMAIN m.review.reviews :
        m.review.reviews[n].passed /\ m.review.reviews[n].at >= cs[sub].time
    /\ \A d \in m.derived : d.episode = r.episode

(* Record r showed its case of contract k, and what the case depends on is  *)
(* unchanged in sub, or argued for by a material of the observation d.      *)
Supports(r, k, d, sub, app, cs, moved) ==
    /\ r.revision \in 1..sub
    /\ DOMAIN r.facts = DOMAIN k.cases[r.case].expected
    /\ \A x \in DOMAIN k.cases[r.case].expected :
        r.facts[x].episode = r.episode /\ r.facts[x].value = k.cases[r.case].expected[x]
    /\ \/ r.case \notin app /\ Same(k.cases[r.case], r.revision, sub, cs, moved)
       \/ r.case \in app /\ Argued(r, k.cases[r.case], d.materials[r.case], sub, cs)
OnlyRecord(n, i, rows, upto) == rows[n].case = i /\ \A k \in 1..upto : rows[k].case = i => k = n
Judged ==
    /\ \A n \in 1..next - 1 : data.records[n].case \in DOMAIN contract.cases => data.records[n].case \in seen
    /\ \A x \in rejections : x[1] \in seen
    /\ pc # "records" /\ admitted # {} => next = Len(data.records) + 1
    /\ \A i \in admitted :
        \E n \in 1..next - 1 :
            /\ OnlyRecord(n, i, data.records, next - 1)
            /\ Supports(data.records[n], contract, data, subject, applicable, commits, touched)

(* A witness was reviewed after its last event, and stands alone in what it *)
(* shows.                                                                   *)
Reviewed(w) == \A n \in DOMAIN w.review.reviews : w.review.reviews[n].at >= Last(w.chain).at
Apart(v, w) ==
    v.obligations \cap w.obligations = {} /\ <<v.episode, v.operation>> # <<w.episode, w.operation>>
Weighed ==
    /\ \A i \in supplemental : i \in DOMAIN data.witnesses /\ Reviewed(data.witnesses[i])
    /\ \A i, j \in supplemental : i # j => Apart(data.witnesses[i], data.witnesses[j])

Final == {"report", "counting", "done"}
Checked == {"criteria", "subject", "clean", "qualify"} \cup Final
Rechecked ==
    pc \in Checked =>
        \A i \in admitted :
            /\ contract.cases[i].conditions.sandbox = world.sandbox
            /\ i \in applicable => data.materials[i].context = world.context
Contracted ==
    /\ pc \in {"checked", "observing", "records", "recheck", "criteria", "subject", "clean", "qualify"}
        => ContractValid(contract)
    /\ pc \in Final /\ errors = {} => ContractValid(contract)
Qualified ==
    pc \in Final =>
        /\ \A i \in admitted :
            /\ clock - started < contract.cases[i].maxAge
            /\ i \in applicable => errors = {} /\ ReviewFresh(data.materials[i].review, clock)
        /\ \A i \in supplemental : errors = {} /\ ReviewFresh(data.witnesses[i].review, clock)
Held ==
    pc \in {"counting", "done"} =>
        \/ ~ContractValid(contract) \/ SelectionFinal(contract.selection)
        \/ admitted \cap SelectionCases(contract) = {}

(* Contract k is covered whole: each required scope by cases that show all  *)
(* its duties together, a joint one by a single case, each obligation by a  *)
(* case of its scope or by a witness.                                       *)
Covering(k, s, l) == {i \in DOMAIN k.cases : k.cases[i].scope = s /\ l \in k.cases[i].claims}
Shown(o, k, d, app, i) ==
    /\ k.cases[i].scope = o.scope
    /\ \/ o.leaf \in DOMAIN k.cases[i].expected /\ k.cases[i].expected[o.leaf]
       \/ i \in app /\ \E x \in d.materials[i].derived : x.obligation = o.id
Whole(k, d, app, ids) ==
    /\ ContractValid(k) /\ SelectionFinal(k.selection)
    /\ \A l \in Claims : \A s \in Policy.required[l] :
        \A x \in Policy.scopes[s].duties : \E i \in Covering(k, s, l) : x \in k.cases[i].duties
    /\ \A s \in JointScopes : \E i \in Covering(k, s, "function") : Policy.scopes[s].duties \subseteq k.cases[i].duties
    /\ \A o \in Obligations :
        \/ \E i \in DOMAIN k.cases : Shown(o, k, d, app, i)
        \/ \E w \in ids : o.id \in d.witnesses[w].obligations
Reported ==
    pc = "done" =>
        /\ report.accepted = admitted /\ report.supplemental = supplemental
        /\ report.eligible =>
            /\ admitted = DOMAIN contract.cases /\ report.met = Requirements /\ report.functional
            /\ Whole(contract, data, applicable, supplemental)

Steps == {"idle", "bound", "checked", "observing", "records", "recheck"} \cup Checked
IInv ==
    /\ pc \in Steps
    /\ TypeOK /\ Begun /\ Judged /\ Weighed /\ Rechecked /\ Contracted /\ Qualified /\ Held /\ Reported

-----------------------------------------------------------------------------
(* Helpers.                                                                 *)

Below == {p \in Nat \X Nat : p[1] < p[2]}
LEMMA BelowIsWellFounded == IsWellFoundedOn(Below, Nat)
  BY NatLessThanWellFounded DEF OpToRel, Below

(* A nonempty set of naturals has a least element. *)
LEMMA LeastNat ==
  ASSUME NEW T \in SUBSET Nat, T # {}
  PROVE  \E x \in T : \A y \in T : x <= y
<1>1. PICK x \in T : \A y \in T : ~ (<<y, x>> \in Below)
  BY BelowIsWellFounded, WFMin
<1>2. \A y \in T : x <= y
  <2> SUFFICES ASSUME NEW y \in T PROVE x <= y
    OBVIOUS
  <2>1. x \in Nat /\ y \in Nat
    OBVIOUS
  <2>2. <<y, x>> \in Nat \X Nat /\ <<y, x>>[1] = y /\ <<y, x>>[2] = x
    BY <2>1
  <2>3. ~ (y < x)
    BY <1>1, <2>2 DEF Below
  <2> QED BY <2>1, <2>3
<1> QED BY <1>2

(* No failure means that every group of checks passed. *)
LEMMA NoFailure ==
  ASSUME NEW groups, DOMAIN groups \subseteq Nat, FirstFailure(groups) = {}
  PROVE  \A i \in DOMAIN groups : groups[i] = {}
<1> DEFINE failing == {i \in DOMAIN groups : groups[i] # {}}
<1>1. SUFFICES ASSUME failing # {} PROVE FALSE
  OBVIOUS
<1>2. failing \in SUBSET Nat
  OBVIOUS
<1>3. \E i \in failing : \A j \in failing : i <= j
  <2> HIDE DEF failing
  <2> QED BY <1>1, <1>2, LeastNat
<1>4. FirstFailure(groups) = groups[CHOOSE i \in failing : \A j \in failing : i <= j]
  BY <1>1 DEF FirstFailure
<1>5. (CHOOSE i \in failing : \A j \in failing : i <= j) \in failing
  BY <1>3
<1> QED BY <1>4, <1>5

LEMMA Passed ==
  ASSUME NEW code, NEW holds, Failed(code, holds) = {}
  PROVE  holds
  BY DEF Failed

LEMMA DomainOfSeq ==
  ASSUME NEW S, NEW s \in Seq(S)
  PROVE  DOMAIN s = 1..Len(s) /\ Len(s) \in Nat /\ \A i \in 1..Len(s) : s[i] \in S
  OBVIOUS

-----------------------------------------------------------------------------
(* The reads stay inside their bounds.                                      *)

Budgets == [calls : 0..CallBound, files : 0..FileBound, bytes : 0..ByteBound]
LEMMA Bounds ==
  /\ CallBound \in Nat /\ FileBound \in Nat /\ ByteBound \in Nat /\ TreeBytes \in Nat
  /\ ReviewMaxAge \in Nat /\ InitTime \in Nat /\ MaxTime \in Nat
  BY BoundAssumption

LEMMA ChargedBounded ==
  ASSUME NEW b \in Budgets, NEW more \in Nat, NEW files \in Nat, NEW bytes \in Nat,
         NEW reserve \in Nat, NEW fault \in BOOLEAN
  PROVE  /\ Charged(b, more, files, bytes, reserve, fault).ok \in BOOLEAN
         /\ Charged(b, more, files, bytes, reserve, fault).budget \in Budgets
<1> DEFINE whole == ~fault /\ bytes <= reserve
           spent == IF whole THEN bytes ELSE reserve
<1>1. b.calls \in Nat /\ b.files \in Nat /\ b.bytes \in Nat
  BY Bounds DEF Budgets
<1>2. spent \in Nat /\ spent <= reserve
  OBVIOUS
<1>3. CASE b.calls + 1 > CallBound
  BY <1>3 DEF Charged
<1>4. CASE /\ ~(b.calls + 1 > CallBound)
           /\ b.calls + 1 + more > CallBound \/ b.files + files > FileBound \/ b.bytes + reserve > ByteBound
  <2>1. b.calls + 1 \in 0..CallBound
    BY <1>1, <1>4, Bounds
  <2>2. [b EXCEPT !.calls = @ + 1] \in Budgets
    BY <2>1 DEF Budgets
  <2> QED BY <1>4, <2>2 DEF Charged
<1>5. CASE /\ ~(b.calls + 1 > CallBound)
           /\ ~(b.calls + 1 + more > CallBound \/ b.files + files > FileBound \/ b.bytes + reserve > ByteBound)
  <2>1. /\ b.calls + 1 + more \in 0..CallBound /\ b.files + files \in 0..FileBound
        /\ b.bytes + spent \in 0..ByteBound
    <3> HIDE DEF spent
    <3> QED BY <1>1, <1>2, <1>5, Bounds
  <2>2. [calls |-> b.calls + 1 + more, files |-> b.files + files, bytes |-> b.bytes + spent] \in Budgets
    <3> HIDE DEF spent
    <3> QED BY <2>1 DEF Budgets
  <2>3. Charged(b, more, files, bytes, reserve, fault)
          = [ok |-> whole, budget |-> [calls |-> b.calls + 1 + more, files |-> b.files + files,
                                       bytes |-> b.bytes + spent]]
    BY <1>5 DEF Charged
  <2> QED BY <2>2, <2>3
<1> QED BY <1>3, <1>4, <1>5

LEMMA PackageCounted == Cardinality(Package) \in Nat
<1>1. IsFiniteSet(Package)
  BY PackageAssumption, FS_Subset
<1> QED BY <1>1, FS_CardinalityType

LEMMA ReadBounded ==
  ASSUME NEW state \in ReadStates, NEW rev \in DOMAIN commits, NEW fault \in BOOLEAN
  PROVE  Read(state, rev, fault) \in ReadStates
<1> DEFINE paid == Charged(state.budget, 1, Cardinality(Package), Cardinality(Package), TreeBytes, fault)
<1>1. state.budget \in Budgets
  BY DEF ReadStates, Budgets
<1>2. paid.ok \in BOOLEAN /\ paid.budget \in Budgets
  BY <1>1, PackageCounted, Bounds, ChargedBounded
<1>3. CASE ~state.ok \/ rev \in state.snapshots
  BY <1>3 DEF Read
<1>4. CASE ~(~state.ok \/ rev \in state.snapshots)
  <2> DEFINE cached == IF paid.ok THEN state.snapshots \cup {rev} ELSE state.snapshots
  <2>1. cached \in SUBSET DOMAIN commits
    BY DEF ReadStates
  <2>2. Read(state, rev, fault)
          = [state EXCEPT !.ok = paid.ok, !.budget = paid.budget, !.snapshots = cached]
    BY <1>4 DEF Read
  <2> HIDE DEF paid, cached
  <2> QED BY <1>2, <2>1, <2>2 DEF ReadStates, Budgets
<1> QED BY <1>3, <1>4

LEMMA DeltaCounted ==
  ASSUME NEW old, NEW new, NEW paths, IsFiniteSet(paths)
  PROVE  Cardinality(DOMAIN Delta(old, new, paths)) \in Nat
<1>1. DOMAIN Delta(old, new, paths) \subseteq paths
  BY DEF Delta
<1> QED BY <1>1, FS_Subset, FS_CardinalityType

LEMMA ReadDeltaBounded ==
  ASSUME NEW state \in ReadStates, NEW rev \in DOMAIN commits, NEW delta,
         Cardinality(DOMAIN delta) \in Nat, NEW complete \in BOOLEAN
  PROVE  ReadDelta(state, rev, delta, complete) \in ReadStates
<1> DEFINE size == 2 * Cardinality(DOMAIN delta)
           more == IF size = 0 THEN 0 ELSE IF complete THEN 2 ELSE 1
           reserve == IF complete THEN size ELSE TreeBytes
           paid == Charged(state.budget, more, size, size, reserve, FALSE)
<1>1. state.budget \in Budgets
  BY DEF ReadStates, Budgets
<1>2. size \in Nat /\ more \in Nat /\ reserve \in Nat
  BY Bounds
<1>3. paid.ok \in BOOLEAN /\ paid.budget \in Budgets
  <2> HIDE DEF size, more, reserve
  <2> QED BY <1>1, <1>2, ChargedBounded
<1>4. CASE ~state.ok \/ (complete /\ rev \in state.deltas)
  BY <1>4 DEF ReadDelta
<1>5. CASE ~(~state.ok \/ (complete /\ rev \in state.deltas))
  <2> DEFINE known == IF complete /\ paid.ok THEN state.deltas \cup {rev} ELSE state.deltas
  <2>1. known \in SUBSET DOMAIN commits
    BY DEF ReadStates
  <2>2. ReadDelta(state, rev, delta, complete)
          = [state EXCEPT !.ok = paid.ok, !.budget = paid.budget, !.deltas = known]
    BY <1>5 DEF ReadDelta
  <2> HIDE DEF paid, known
  <2> QED BY <1>3, <2>1, <2>2 DEF ReadStates, Budgets
<1> QED BY <1>4, <1>5

LEMMA ReadAnewBounded ==
  ASSUME NEW state \in ReadStates, NEW rev \in DOMAIN commits
  PROVE  ReadAnew(state, rev) \in ReadStates
<1>1. [state EXCEPT !.snapshots = {}] \in ReadStates
  BY DEF ReadStates
<1>2. Read([state EXCEPT !.snapshots = {}], rev, FALSE) \in ReadStates
  BY <1>1, ReadBounded
<1>3. \A t \in ReadStates : [t EXCEPT !.snapshots = state.snapshots] \in ReadStates
  BY DEF ReadStates
<1> QED BY <1>2, <1>3 DEF ReadAnew

LEMMA ReadWitnessBounded ==
  ASSUME NEW state \in ReadStates, NEW w, subject \in DOMAIN commits, commits \in Seq(Commits)
  PROVE  ReadWitness(state, w) \in ReadStates
<1> DEFINE rev == CHOOSE x \in DOMAIN w.epochs : TRUE
           begun == [state EXCEPT !.ok = TRUE]
           both == IF Alone(w) THEN ReadAnew(ReadAnew(begun, subject), rev)
                   ELSE Read(Read(begun, rev, FALSE), subject, FALSE)
           delta == Delta(commits[rev].files, commits[subject].files, Files)
<1>1. begun \in ReadStates /\ [state EXCEPT !.ok = FALSE] \in ReadStates
  BY DEF ReadStates
<1>2. CASE rev \in 1..subject
  <2>1. rev \in DOMAIN commits
    BY <1>2
  <2>2. both \in ReadStates
    <3> HIDE DEF begun, rev
    <3> QED BY <1>1, <2>1, ReadAnewBounded, ReadBounded
  <2>3. Cardinality(DOMAIN delta) \in Nat
    BY PackageAssumption, DeltaCounted
  <2>4. ReadDelta(both, rev, delta, TRUE) \in ReadStates
    <3> HIDE DEF both, delta, rev
    <3> QED BY <2>1, <2>2, <2>3, ReadDeltaBounded
  <2> QED BY <1>2, <2>4 DEF ReadWitness
<1>3. CASE rev \notin 1..subject
  BY <1>1, <1>3 DEF ReadWitness
<1> QED BY <1>2, <1>3

(* What is read for the witnesses is read one after the other.              *)
WitnessRead(f, n) == IF n = 0 THEN reads ELSE ReadWitness(f[n - 1], data.witnesses[n])
LEMMA ReadWitnessesExist ==
  ASSUME Len(data.witnesses) \in Nat
  PROVE  \E f : f = [n \in 0..Len(data.witnesses) |-> WitnessRead(f, n)]
<1> DEFINE Has(n) == \E f : f = [k \in 0..n |-> WitnessRead(f, k)]
           T == {n \in 0..Len(data.witnesses) : ~Has(n)}
<1>1. SUFFICES ASSUME T # {} PROVE FALSE
  <2>1. Len(data.witnesses) \in 0..Len(data.witnesses)
    OBVIOUS
  <2> QED BY <1>1, <2>1
<1>2. T \in SUBSET Nat
  OBVIOUS
<1>3. PICK m \in T : \A y \in T : m <= y
  <2> HIDE DEF T
  <2> QED BY <1>1, <1>2, LeastNat
<1>4. m \in 0..Len(data.witnesses) /\ ~Has(m)
  BY <1>3
<1>5. \A f : WitnessRead(f, 0) = reads
  BY DEF WitnessRead
<1>6. CASE m = 0
  <2> DEFINE f == [k \in 0..0 |-> reads]
  <2>1. \A k \in 0..0 : WitnessRead(f, k) = reads
    <3> HIDE DEF f
    <3> QED BY <1>5
  <2>2. f = [k \in 0..0 |-> WitnessRead(f, k)]
    BY <2>1
  <2> QED BY <2>2, <1>4, <1>6
<1>7. CASE m > 0
  <2>1. m - 1 \in 0..Len(data.witnesses) /\ ~(m <= m - 1)
    BY <1>4, <1>7
  <2>2. PICK g : g = [k \in 0..m - 1 |-> WitnessRead(g, k)]
    BY <1>3, <2>1
  <2> DEFINE f == [k \in 0..m |-> IF k < m THEN g[k] ELSE WitnessRead(g, m)]
  <2>3. ASSUME NEW k \in 0..m PROVE WitnessRead(f, k) = WitnessRead(g, k)
    <3>1. CASE k = 0
      BY <3>1, <1>5
    <3>2. CASE k > 0
      <4>1. f[k - 1] = g[k - 1]
        BY <3>2, <1>4
      <4> HIDE DEF f
      <4> QED BY <4>1 DEF WitnessRead
    <3> QED BY <3>1, <3>2, <1>4
  <2>4. ASSUME NEW k \in 0..m PROVE f[k] = WitnessRead(g, k)
    <3>1. CASE k < m
      <4>1. k \in 0..m - 1
        BY <3>1, <1>4
      <4>2. g[k] = WitnessRead(g, k)
        BY <2>2, <4>1
      <4> QED BY <4>2, <3>1
    <3>2. CASE k = m
      BY <3>2, <1>4
    <3> QED BY <3>1, <3>2, <1>4
  <2>5. f = [k \in 0..m |-> WitnessRead(f, k)]
    BY <2>3, <2>4
  <2> QED BY <2>5, <1>4
<1> QED BY <1>4, <1>6, <1>7

LEMMA ReadWitnessesAre ==
  ASSUME Len(data.witnesses) \in Nat
  PROVE  \A n \in 0..Len(data.witnesses) : ReadWitnesses[n] = WitnessRead(ReadWitnesses, n)
<1>1. ReadWitnesses = [n \in 0..Len(data.witnesses) |-> WitnessRead(ReadWitnesses, n)]
  BY ReadWitnessesExist, Zenon DEF ReadWitnesses, WitnessRead
<1> QED BY <1>1

LEMMA ReadWitnessesBounded ==
  ASSUME TypeOK
  PROVE  ReadWitnesses[Len(data.witnesses)] \in ReadStates
<1>1. Len(data.witnesses) \in Nat
  BY DEF TypeOK, Parsed
<1> DEFINE T == {n \in 0..Len(data.witnesses) : ReadWitnesses[n] \notin ReadStates}
<1>2. SUFFICES ASSUME T # {} PROVE FALSE
  BY <1>1
<1>3. T \in SUBSET Nat
  OBVIOUS
<1>4. PICK m \in T : \A y \in T : m <= y
  <2> HIDE DEF T
  <2> QED BY <1>2, <1>3, LeastNat
<1>5. m \in 0..Len(data.witnesses) /\ ReadWitnesses[m] = WitnessRead(ReadWitnesses, m)
  BY <1>1, <1>4, ReadWitnessesAre
<1>6. m # 0
  BY <1>4, <1>5 DEF WitnessRead, TypeOK
<1>7. m - 1 \in 0..Len(data.witnesses) /\ ~(m <= m - 1)
  BY <1>1, <1>5, <1>6
<1>8. ReadWitnesses[m - 1] \in ReadStates
  BY <1>4, <1>7
<1>9. ReadWitness(ReadWitnesses[m - 1], data.witnesses[m]) \in ReadStates
  BY <1>8, ReadWitnessBounded DEF TypeOK
<1> QED BY <1>4, <1>5, <1>6, <1>9 DEF WitnessRead

-----------------------------------------------------------------------------
(* What a record's checks establish.                                        *)

LEMMA SubjectCommits ==
  ASSUME TypeOK, NEW rev \in 1..subject
  PROVE  /\ rev \in DOMAIN commits /\ commits[rev] \in Commits
         /\ \A f \in Files : commits[rev].files[f] \in Contents
<1>1. rev \in DOMAIN commits
  BY DEF TypeOK
<1>2. commits[rev] \in Commits
  BY <1>1 DEF TypeOK
<1> QED BY <1>1, <1>2 DEF Commits

LEMMA CaseTyped ==
  ASSUME TypeOK, NEW i \in DOMAIN contract.cases
  PROVE  contract.cases[i].oracle \subseteq Files /\ contract.cases[i].maxAge \in Nat
  BY HistoryAssumption DEF TypeOK

(* The files a case depends on are the subject's when no check of a record  *)
(* without a material failed.                                               *)
LEMMA SourceSame ==
  ASSUME TypeOK, ContractValid(contract), NEW r, r.case \in DOMAIN contract.cases,
         r.revision \in 1..subject, ~HasMaterial(r.case),
         IdentityFailures(r) = {}, ChangeFailures(r) = {},
         ~touched => work.files = commits[subject].files
  PROVE  Same(CaseOf(r), r.revision, subject, commits, touched)
<1> DEFINE c == CaseOf(r)
           old == commits[r.revision].files
           new == commits[subject].files
           needed == IF c.files = {} THEN Package ELSE c.files
<1>1. \A f \in Files : old[f] \in Contents /\ new[f] \in Contents
  <2>1. subject \in 1..subject
    BY DEF TypeOK
  <2> QED BY <2>1, SubjectCommits
<1>2. c = contract.cases[r.case] /\ c.oracle \subseteq Files /\ Package \subseteq Files
  BY CaseTyped, PackageAssumption DEF CaseOf
<1>3. PackageFailures(r) = {} /\ ExecutionFailures(r) = {}
  BY DEF ChangeFailures
<1>4. \A f \in ExecutionFiles(c) : work.files[f] = old[f]
  BY <1>3, Passed DEF ExecutionFailures, Then
<1>5. \A f \in ExecutionFiles(c) : touched \/ old[f] = new[f]
  BY <1>4
<1>6. \A f \in c.oracle \ ReviewFiles : old[f] = new[f] \/ touched
  BY <1>5 DEF ExecutionFiles
<1>7. CASE c.files = {}
  <2>1. r.package = contract.declared
    BY <1>3, <1>7, Passed DEF PackageFailures, SparseFiles
  <2>2. r.package = Digest(old)
    <3>1. Failed("record-actual-package-mismatch", r.package = Digest(Then(r).files)) = {}
      BY DEF IdentityFailures
    <3> QED BY <3>1, Passed DEF Then
  <2>3. contract.declared = Digest(new)
    <3>1. Failed("current-actual-package-mismatch", contract.declared = Digest(commits[subject].files)) = {}
      BY DEF IdentityFailures
    <3> QED BY <3>1, Passed
  <2>4. ASSUME NEW f \in Package PROVE old[f].text = new[f].text
    <3>1. Digest(old)[f] = Digest(new)[f]
      BY <2>1, <2>2, <2>3
    <3>2. [old[f] EXCEPT !.mode = 0] = [new[f] EXCEPT !.mode = 0]
      BY <3>1 DEF Digest
    <3>3. old[f] \in Contents /\ new[f] \in Contents
      BY <1>1, <1>2
    <3>4. /\ [old[f] EXCEPT !.mode = 0].text = old[f].text
          /\ [new[f] EXCEPT !.mode = 0].text = new[f].text
      BY <3>3 DEF Contents
    <3> QED BY <3>2, <3>4
  <2>5. \A f \in Package : old[f].mode = new[f].mode \/ touched
    BY <1>5, <1>7 DEF ExecutionFiles, SparseFiles
  <2> HIDE DEF c
  <2> QED BY <1>6, <1>7, <2>4, <2>5 DEF Same, c
<1>8. CASE c.files # {}
  <2>1. SelectedUnchanged(old, new, c.files)
    BY <1>3, <1>8, Passed DEF PackageFailures, SparseFiles, Then
  <2>2. c.files \subseteq Package
    BY <1>2, <1>8 DEF ContractValid, CaseValid, SparseValid
  <2>3. ASSUME NEW f \in c.files PROVE old[f].text = new[f].text /\ old[f].mode = new[f].mode
    <3>1. old[f] \in Contents /\ new[f] \in Contents
      BY <1>1, <1>2, <2>2
    <3>2. CASE f = Manifest
      <4>1. Unstamped(old[f]) = Unstamped(new[f])
        BY <2>1, <3>2 DEF SelectedUnchanged
      <4>2. \A v \in Contents : Unstamped(v).text = v.text /\ Unstamped(v).mode = v.mode
        BY DEF Unstamped, Contents
      <4>3. /\ Unstamped(old[f]).text = old[f].text /\ Unstamped(old[f]).mode = old[f].mode
            /\ Unstamped(new[f]).text = new[f].text /\ Unstamped(new[f]).mode = new[f].mode
        BY <3>1, <4>2
      <4> QED BY <4>1, <4>3
    <3>3. CASE f # Manifest
      BY <2>1, <3>3 DEF SelectedUnchanged
    <3> QED BY <3>2, <3>3
  <2> HIDE DEF c
  <2> QED BY <1>6, <1>8, <2>3 DEF Same, c
<1> QED BY <1>7, <1>8

(* A material that passes answers for every change of what the case depends *)
(* on, with a review of its own subject.                                    *)
LEMMA MaterialArgues ==
  ASSUME TypeOK, NEW r, r.case \in DOMAIN contract.cases, r.revision \in 1..subject,
         r.case \in DOMAIN data.materials,
         ImpactSupported(data.materials[r.case], r)
  PROVE  Argued(r, CaseOf(r), data.materials[r.case], subject, commits)
<1> DEFINE m == data.materials[r.case]
           old == commits[r.revision].files
           new == commits[subject].files
           paths == IF Contemporary(m) THEN Files ELSE ImpactPaths(CaseOf(r))
<1>1. ASSUME NEW f \in Package \cup CaseOf(r).oracle, old[f] # new[f]
      PROVE  f \in DOMAIN m.delta
  <2>1. m.delta = Delta(old, new, paths)
    BY DEF ImpactSupported, MaterialDelta, Then
  <2>2. f \in paths
    BY CaseTyped, PackageAssumption DEF ImpactPaths, CaseOf
  <2> HIDE DEF paths
  <2> QED BY <1>1, <2>1, <2>2 DEF Delta
<1>2. ASSUME NEW n \in DOMAIN m.review.reviews
      PROVE  m.review.reviews[n].passed /\ m.review.reviews[n].at >= commits[subject].time
  BY DEF ImpactSupported, ReviewPasses, ReviewSince
<1>3. ASSUME NEW d \in m.derived PROVE d.episode = r.episode
  BY DEF ImpactSupported, DerivedValid
<1> QED BY <1>1, <1>2, <1>3 DEF Argued

LEMMA ChainNotEmpty ==
  ASSUME NEW w, [i \in DOMAIN w.chain |-> w.chain[i].type] \in ChainTypes(w), w.chain = <<>>
  PROVE  FALSE
<1> DEFINE Words == {"binding", "input", "interpretation", "applied", "adoption", "cleanup",
                     "authority", "poststate"}
           types == [i \in DOMAIN w.chain |-> w.chain[i].type]
<1>1. types = <<>> /\ Len(w.chain) = 0
  BY DEF types
<1>2. \A s, t \in Seq(Words) : t # <<>> => s \o t # <<>>
  OBVIOUS
<1>3. CASE w.kind = "model"
  BY <1>1, <1>3 DEF ChainTypes
<1>4. CASE w.kind = "goal"
  <2>1. PICK first \in {<<"binding", "input">>, <<"input", "binding">>} :
          types = first \o <<"interpretation", "applied", "adoption", "cleanup">>
    BY <1>4 DEF ChainTypes
  <2>2. <<"binding", "input">> \in Seq(Words)
    OBVIOUS
  <2>3. <<"input", "binding">> \in Seq(Words)
    OBVIOUS
  <2>4. <<"interpretation", "applied", "adoption", "cleanup">> \in Seq(Words)
    OBVIOUS
  <2>5. <<"interpretation", "applied", "adoption", "cleanup">> # <<>>
    OBVIOUS
  <2>6. first \in Seq(Words)
    BY <2>1, <2>2, <2>3, Zenon
  <2> HIDE DEF types
  <2> QED BY <1>1, <1>2, <2>1, <2>4, <2>5, <2>6, Zenon
<1>5. CASE w.kind # "model" /\ w.kind # "goal"
  <2>1. PICK last \in {<<"poststate", "cleanup">>, <<"cleanup", "poststate">>} :
          types = <<"authority">> \o [i \in 1..Len(w.chain) - 3 |-> "correction"] \o last
    BY <1>5 DEF ChainTypes
  <2>2. [i \in 1..Len(w.chain) - 3 |-> "correction"] = <<>>
    BY <1>1
  <2>3. <<"authority">> \o <<>> \in Seq(Words)
    OBVIOUS
  <2>4. <<"poststate", "cleanup">> \in Seq(Words) /\ <<"poststate", "cleanup">> # <<>>
    OBVIOUS
  <2>5. <<"cleanup", "poststate">> \in Seq(Words) /\ <<"cleanup", "poststate">> # <<>>
    OBVIOUS
  <2>6. last \in Seq(Words) /\ last # <<>>
    BY <2>1, <2>4, <2>5, Zenon
  <2>7. (<<"authority">> \o <<>>) \o last # <<>>
    BY <1>2, <2>3, <2>6, Zenon
  <2>8. types = (<<"authority">> \o <<>>) \o last
    BY <2>1, <2>2, Zenon
  <2> QED BY <1>1, <2>7, <2>8, Zenon
<1> QED BY <1>3, <1>4, <1>5

LEMMA WitnessReviewed ==
  ASSUME TypeOK, NEW n \in DOMAIN data.witnesses, WitnessSupported(data.witnesses[n])
  PROVE  Reviewed(data.witnesses[n])
<1> DEFINE w == data.witnesses[n]
           last == Last(w.chain).at
           time == commits[subject].time
<1>1. /\ Dated(w.review) /\ w.observedAt \in Nat
      /\ w.chain \in Seq({w.chain[k] : k \in DOMAIN w.chain})
      /\ \A k \in DOMAIN w.chain : w.chain[k].at \in Nat
  BY DEF TypeOK, Parsed
<1>2. last \in Nat
  <2>1. w.chain # <<>>
    BY ChainNotEmpty DEF WitnessSupported, ChainOrdered
  <2>2. Len(w.chain) \in DOMAIN w.chain
    BY <1>1, <2>1
  <2> QED BY <1>1, <2>2 DEF Last
<1>3. time \in Nat
  <2>1. subject \in 1..subject
    BY DEF TypeOK
  <2> QED BY <2>1, SubjectCommits DEF Commits
<1>4. ASSUME NEW k \in DOMAIN w.review.reviews PROVE w.review.reviews[k].at >= last
  <2>1. w.review.reviews[k].at \in Nat
    BY <1>1 DEF Dated
  <2>2. CASE Alone(w)
    <3>1. w.review.reviews[k].at >= w.observedAt /\ last <= w.observedAt
      BY <2>2 DEF WitnessSupported, CorrectionSupported, ReviewSince
    <3> QED BY <1>1, <1>2, <2>1, <3>1
  <2>3. CASE ~Alone(w)
    <3>1. w.review.reviews[k].at >= (IF last > time THEN last ELSE time)
      BY <2>3 DEF WitnessSupported, ReviewSince
    <3> QED BY <1>2, <1>3, <2>1, <3>1
  <2> QED BY <2>2, <2>3
<1> QED BY <1>4 DEF Reviewed

(* Judging a record: what was read stays within the bounds, and either the  *)
(* case stays out, or every check of the record passed.                     *)
Excluded(r) ==
    /\ admitted' = admitted /\ applicable' = applicable
    /\ \A x \in rejections' : x \in rejections \/ x[1] = r.case
Accepted(r) ==
    /\ admitted' = admitted \cup {r.case} /\ rejections' = rejections
    /\ Prebound(r) /\ IdentityFailures(r) = {} /\ ChangeFailures(r) = {}
    /\ ObservationFailures(r) = {} /\ Unmet(r) = {}
    /\ \/ ~HasMaterial(r.case) /\ applicable' = applicable
       \/ /\ HasMaterial(r.case) /\ applicable' = applicable \cup {r.case}
          /\ MaterialFailures(data.materials[r.case], r) = {}

LEMMA FirstOfThree ==
  ASSUME NEW a, NEW b, NEW c, FirstFailure(<<a, b, c>>) = {}
  PROVE  a = {} /\ b = {} /\ c = {}
<1>1. DOMAIN <<a, b, c>> = 1..3 /\ <<a, b, c>>[1] = a /\ <<a, b, c>>[2] = b /\ <<a, b, c>>[3] = c
  OBVIOUS
<1>2. DOMAIN <<a, b, c>> \subseteq Nat
  BY <1>1
<1> DEFINE groups == <<a, b, c>>
<1>3. \A i \in DOMAIN groups : groups[i] = {}
  <2> HIDE DEF groups
  <2> QED BY <1>2, NoFailure DEF groups
<1> QED BY <1>1, <1>3

LEMMA FirstOfTwo ==
  ASSUME NEW a, NEW b, FirstFailure(<<a, b>>) = {}
  PROVE  a = {} /\ b = {}
<1>1. DOMAIN <<a, b>> = 1..2 /\ <<a, b>>[1] = a /\ <<a, b>>[2] = b
  OBVIOUS
<1>2. DOMAIN <<a, b>> \subseteq Nat
  BY <1>1
<1> DEFINE groups == <<a, b>>
<1>3. \A i \in DOMAIN groups : groups[i] = {}
  <2> HIDE DEF groups
  <2> QED BY <1>2, NoFailure DEF groups
<1> QED BY <1>1, <1>3

LEMMA FirstOfFour ==
  ASSUME NEW a, NEW b, NEW c, NEW d, FirstFailure(<<a, b, c, d>>) = {}
  PROVE  a = {} /\ b = {} /\ c = {} /\ d = {}
<1>1. /\ DOMAIN <<a, b, c, d>> = 1..4 /\ <<a, b, c, d>>[1] = a /\ <<a, b, c, d>>[2] = b
      /\ <<a, b, c, d>>[3] = c /\ <<a, b, c, d>>[4] = d
  OBVIOUS
<1>2. DOMAIN <<a, b, c, d>> \subseteq Nat
  BY <1>1
<1> DEFINE groups == <<a, b, c, d>>
<1>3. \A i \in DOMAIN groups : groups[i] = {}
  <2> HIDE DEF groups
  <2> QED BY <1>2, NoFailure DEF groups
<1> QED BY <1>1, <1>3

LEMMA RejectExcludes ==
  ASSUME NEW r, NEW codes, RejectRecord(r, codes)
  PROVE  Excluded(r)
  BY DEF RejectRecord, Excluded

LEMMA MaterialCounted ==
  ASSUME TypeOK, NEW r, r.case \in DOMAIN contract.cases, NEW m
  PROVE  Cardinality(DOMAIN MaterialDelta(m, r)) \in Nat
<1> DEFINE paths == IF Contemporary(m) THEN Files ELSE ImpactPaths(CaseOf(r))
<1>1. paths \subseteq Files
  BY CaseTyped, PackageAssumption DEF ImpactPaths, CaseOf
<1>2. IsFiniteSet(paths)
  <2> HIDE DEF paths
  <2> QED BY <1>1, PackageAssumption, FS_Subset
<1>3. MaterialDelta(m, r) = Delta(Then(r).files, commits[subject].files, paths)
  BY DEF MaterialDelta
<1> HIDE DEF paths
<1> QED BY <1>2, <1>3, DeltaCounted

LEMMA JudgeFacts ==
  ASSUME TypeOK, NEW r, JudgeRecord(r)
  PROVE  /\ r.case \in DOMAIN contract.cases \ seen
         /\ seen' = seen \cup {r.case}
         /\ reads' \in ReadStates /\ reuse' \subseteq reuse \cup {r.case}
         /\ Excluded(r) \/ Accepted(r)
<1>1. PICK fault \in BOOLEAN :
     /\ moves' = moves + (IF fault THEN 1 ELSE 0) /\ moves' <= MaxMoves
     /\ LET early == FirstFailure(<<Failed("observation-time-invalid", r.at <= now),
                                    Failed("case-not-prebound", Prebound(r))>>)
            after == IF early # {} THEN [reads EXCEPT !.ok = TRUE]
                     ELSE Read(Read([reads EXCEPT !.ok = TRUE, !.prior = @ \cup {r.revision}], r.revision, fault),
                               subject, FALSE)
            codes == IF early # {} THEN early
                     ELSE IF ~after.ok THEN {"source-evidence-unavailable"}
                     ELSE FirstFailure(<<IdentityFailures(r), ChangeFailures(r), ObservationFailures(r)>>)
            m == data.materials[r.case]
            final == IF codes = {} /\ Unmet(r) = {} /\ HasMaterial(r.case)
                     THEN ReadDelta(after, r.revision, MaterialDelta(m, r), Contemporary(m)) ELSE after
        IN  /\ reads' = final
            /\ reuse' = IF early = {} /\ after.ok /\ IdentityFailures(r) = {} /\ SparseFiles(CaseOf(r)) # {}
                           /\ PackageFailures(r) = {} /\ r.package # contract.declared
                        THEN reuse \cup {r.case} ELSE reuse
            /\ CASE codes # {} -> RejectRecord(r, codes)
                 [] codes = {} /\ Unmet(r) # {} ->
                     /\ rejections' = rejections \cup {<<r.case, code>> : code \in Unmet(r)}
                     /\ caseErrors' = caseErrors \cup {r.case}
                     /\ UNCHANGED <<admitted, applicable, errors>>
                 [] codes = {} /\ Unmet(r) = {} /\ ~HasMaterial(r.case) ->
                     /\ admitted' = admitted \cup {r.case}
                     /\ UNCHANGED <<applicable, rejections, errors, caseErrors>>
                 [] OTHER ->
                     IF ~final.ok THEN RejectRecord(r, {"source-evidence-unavailable"})
                     ELSE IF MaterialFailures(m, r) # {} THEN RejectRecord(r, MaterialFailures(m, r))
                     ELSE /\ admitted' = admitted \cup {r.case}
                          /\ applicable' = applicable \cup {r.case}
                          /\ UNCHANGED <<rejections, errors, caseErrors>>
  BY Zenon DEF JudgeRecord
<1> DEFINE early == FirstFailure(<<Failed("observation-time-invalid", r.at <= now),
                                   Failed("case-not-prebound", Prebound(r))>>)
           begun == [reads EXCEPT !.ok = TRUE, !.prior = @ \cup {r.revision}]
           after == IF early # {} THEN [reads EXCEPT !.ok = TRUE]
                    ELSE Read(Read(begun, r.revision, fault), subject, FALSE)
           codes == IF early # {} THEN early
                    ELSE IF ~after.ok THEN {"source-evidence-unavailable"}
                    ELSE FirstFailure(<<IdentityFailures(r), ChangeFailures(r), ObservationFailures(r)>>)
           m == data.materials[r.case]
           final == IF codes = {} /\ Unmet(r) = {} /\ HasMaterial(r.case)
                    THEN ReadDelta(after, r.revision, MaterialDelta(m, r), Contemporary(m)) ELSE after
<1>2. r.case \in DOMAIN contract.cases \ seen /\ seen' = seen \cup {r.case}
  BY DEF JudgeRecord
<1>3. /\ reads' = final
      /\ \/ reuse' = reuse \cup {r.case}
         \/ reuse' = reuse
  BY <1>1
<1>4. early = {} => Prebound(r)
  <2>1. ASSUME early = {} PROVE Failed("case-not-prebound", Prebound(r)) = {}
    BY <2>1, FirstOfTwo
  <2> QED BY <2>1, Passed
<1>5. early = {} => r.revision \in DOMAIN commits
  <2>1. DOMAIN commits = 1..Len(commits)
    BY DEF TypeOK
  <2> HIDE DEF early
  <2> QED BY <1>4, <2>1 DEF Prebound
<1>6. after \in ReadStates
  <2>1. [reads EXCEPT !.ok = TRUE] \in ReadStates
    BY DEF TypeOK, ReadStates
  <2>2. ASSUME early = {} PROVE begun \in ReadStates
    <3> HIDE DEF early
    <3> QED BY <2>2, <1>5 DEF TypeOK, ReadStates
  <2>3. ASSUME early = {} PROVE Read(begun, r.revision, fault) \in ReadStates
    <3> HIDE DEF early, begun
    <3> QED BY <2>3, <2>2, <1>5, ReadBounded
  <2>4. ASSUME early = {} PROVE Read(Read(begun, r.revision, fault), subject, FALSE) \in ReadStates
    <3>1. subject \in DOMAIN commits
      BY DEF TypeOK
    <3> HIDE DEF early, begun
    <3> QED BY <2>4, <2>3, <3>1, ReadBounded
  <2> HIDE DEF early, begun
  <2> QED BY <2>1, <2>4 DEF after
<1>7. codes = {} => early = {}
  <2> HIDE DEF early, after
  <2> QED BY DEF codes
<1>8. final \in ReadStates
  <2>1. Cardinality(DOMAIN MaterialDelta(m, r)) \in Nat
    <3> HIDE DEF m
    <3> QED BY <1>2, MaterialCounted
  <2>2. Contemporary(m) \in BOOLEAN
    BY DEF Contemporary
  <2>3. ASSUME codes = {}
        PROVE  ReadDelta(after, r.revision, MaterialDelta(m, r), Contemporary(m)) \in ReadStates
    <3> HIDE DEF codes, after, early, m
    <3> QED BY <2>3, <1>5, <1>6, <1>7, <2>1, <2>2, ReadDeltaBounded
  <2> HIDE DEF codes, after, early, m
  <2> QED BY <1>6, <2>3 DEF final
<1>9. codes = {} => /\ Prebound(r) /\ IdentityFailures(r) = {} /\ ChangeFailures(r) = {}
                    /\ ObservationFailures(r) = {}
  <2>1. ASSUME codes = {}
        PROVE  FirstFailure(<<IdentityFailures(r), ChangeFailures(r), ObservationFailures(r)>>) = {}
    <3> HIDE DEF early, after
    <3> QED BY <2>1, <1>7 DEF codes
  <2> HIDE DEF early, after, codes
  <2> QED BY <2>1, <1>4, <1>7, FirstOfThree
<1>10. \/ RejectRecord(r, codes)
       \/ /\ rejections' = rejections \cup {<<r.case, code>> : code \in Unmet(r)}
          /\ UNCHANGED <<admitted, applicable>>
       \/ /\ codes = {} /\ Unmet(r) = {} /\ ~HasMaterial(r.case)
          /\ admitted' = admitted \cup {r.case} /\ UNCHANGED <<applicable, rejections>>
       \/ RejectRecord(r, {"source-evidence-unavailable"})
       \/ RejectRecord(r, MaterialFailures(m, r))
       \/ /\ codes = {} /\ Unmet(r) = {} /\ HasMaterial(r.case) /\ MaterialFailures(m, r) = {}
          /\ admitted' = admitted \cup {r.case}
          /\ applicable' = applicable \cup {r.case} /\ UNCHANGED rejections
  <2>1. (CASE codes # {} -> RejectRecord(r, codes)
          [] codes = {} /\ Unmet(r) # {} ->
              /\ rejections' = rejections \cup {<<r.case, code>> : code \in Unmet(r)}
              /\ caseErrors' = caseErrors \cup {r.case}
              /\ UNCHANGED <<admitted, applicable, errors>>
          [] codes = {} /\ Unmet(r) = {} /\ ~HasMaterial(r.case) ->
              /\ admitted' = admitted \cup {r.case}
              /\ UNCHANGED <<applicable, rejections, errors, caseErrors>>
          [] OTHER ->
              IF ~final.ok THEN RejectRecord(r, {"source-evidence-unavailable"})
              ELSE IF MaterialFailures(m, r) # {} THEN RejectRecord(r, MaterialFailures(m, r))
              ELSE /\ admitted' = admitted \cup {r.case}
                   /\ applicable' = applicable \cup {r.case}
                   /\ UNCHANGED <<rejections, errors, caseErrors>>)
    BY <1>1
  <2> HIDE DEF codes, final, m
  <2>2. CASE codes # {}
    BY <2>1, <2>2
  <2>3. CASE codes = {} /\ Unmet(r) # {}
    BY <2>1, <2>3
  <2>4. CASE codes = {} /\ Unmet(r) = {} /\ ~HasMaterial(r.case)
    BY <2>1, <2>4
  <2>5. CASE codes = {} /\ Unmet(r) = {} /\ HasMaterial(r.case)
    BY <2>1, <2>5
  <2> QED BY <2>2, <2>3, <2>4, <2>5
<1>11. Excluded(r) \/ Accepted(r)
  <2> HIDE DEF codes, final
  <2>1. CASE RejectRecord(r, codes) \/ RejectRecord(r, {"source-evidence-unavailable"})
               \/ RejectRecord(r, MaterialFailures(m, r))
    BY <2>1, RejectExcludes
  <2>2. CASE /\ rejections' = rejections \cup {<<r.case, code>> : code \in Unmet(r)}
             /\ UNCHANGED <<admitted, applicable>>
    BY <2>2 DEF Excluded
  <2>3. CASE /\ codes = {} /\ Unmet(r) = {} /\ ~HasMaterial(r.case)
             /\ admitted' = admitted \cup {r.case} /\ UNCHANGED <<applicable, rejections>>
    BY <2>3, <1>9 DEF Accepted
  <2>4. CASE /\ codes = {} /\ Unmet(r) = {} /\ HasMaterial(r.case) /\ MaterialFailures(m, r) = {}
             /\ admitted' = admitted \cup {r.case}
             /\ applicable' = applicable \cup {r.case} /\ UNCHANGED rejections
    BY <2>4, <1>9 DEF Accepted
  <2> QED BY <1>10, <2>1, <2>2, <2>3, <2>4
<1>12. reads' \in ReadStates /\ reuse' \subseteq reuse \cup {r.case}
  <2> HIDE DEF final
  <2> QED BY <1>3, <1>8
<1> QED BY <1>2, <1>11, <1>12

(* An accepted record supports its case.                                    *)
LEMMA AcceptedSupports ==
  ASSUME TypeOK, ContractValid(contract), NEW r, r.case \in DOMAIN contract.cases \ seen, Accepted(r),
         ~touched => work.files = commits[subject].files
  PROVE  Supports(r, contract, data, subject, applicable', commits, touched)
<1>1. r.revision \in 1..subject
  BY DEF Accepted, Prebound, TypeOK
<1>2. /\ DOMAIN r.facts = DOMAIN CaseOf(r).expected
      /\ \A x \in DOMAIN r.facts : r.facts[x].episode = r.episode
  <2>1. /\ Failed("facet-shape-invalid", DOMAIN r.facts = DOMAIN CaseOf(r).expected) = {}
        /\ Failed("facet-episode-mismatch", \A x \in DOMAIN r.facts : r.facts[x].episode = r.episode) = {}
    <3> DEFINE a == Failed("observation-predates-candidate", r.at >= Then(r).time)
               b == Failed("provenance-missing", r.sourced)
               c == Failed("facet-shape-invalid", DOMAIN r.facts = DOMAIN CaseOf(r).expected)
               d == Failed("facet-episode-mismatch", \A x \in DOMAIN r.facts : r.facts[x].episode = r.episode)
    <3>1. FirstFailure(<<a, b, c, d>>) = {}
      BY Zenon DEF Accepted, ObservationFailures
    <3>2. c = {} /\ d = {}
      <4> HIDE DEF a, b, c, d
      <4> QED BY <3>1, FirstOfFour
    <3> QED BY <3>2
  <2> QED BY <2>1, Passed
<1>3. \A x \in DOMAIN CaseOf(r).expected : r.facts[x].value = CaseOf(r).expected[x]
  <2>1. Failed("consequence-mismatch",
           \A x \in DOMAIN CaseOf(r).expected : r.facts[x].value = CaseOf(r).expected[x]) = {}
    BY DEF Accepted, Unmet
  <2> QED BY <2>1, Passed
<1>4. CASE ~HasMaterial(r.case) /\ applicable' = applicable
  <2>1. Same(CaseOf(r), r.revision, subject, commits, touched)
    BY <1>1, <1>4, SourceSame DEF Accepted
  <2>2. r.case \notin applicable
    BY DEF TypeOK
  <2> QED BY <1>1, <1>2, <1>3, <1>4, <2>1, <2>2 DEF Supports, CaseOf
<1>5. CASE /\ HasMaterial(r.case) /\ applicable' = applicable \cup {r.case}
           /\ MaterialFailures(data.materials[r.case], r) = {}
  <2>1. Failed("current-applicability-unsupported", ImpactSupported(data.materials[r.case], r)) = {}
    BY <1>5, FirstOfTwo DEF MaterialFailures
  <2>2. Argued(r, CaseOf(r), data.materials[r.case], subject, commits)
    BY <1>1, <1>5, <2>1, Passed, MaterialArgues DEF HasMaterial
  <2> QED BY <1>1, <1>2, <1>3, <1>5, <2>2 DEF Supports, CaseOf
<1> QED BY <1>4, <1>5 DEF Accepted

-----------------------------------------------------------------------------
(* The steps that read a record.                                            *)

LEMMA RecordKeepsTypes ==
  ASSUME IInv, NextRecord
  PROVE  TypeOK'
<1> DEFINE r == data.records[next]
<1>1. /\ pc = "records" /\ pc' = pc /\ next <= Len(data.records) /\ next' = next + 1
      /\ MalformedRecord(r) \/ DuplicateRecord(r) \/ JudgeRecord(r)
      /\ UNCHANGED <<repo, env, pc, subject, contract, started, now, data, supplemental, anchors, report, touched>>
  BY DEF NextRecord
<1>2. next' \in 1..Len(data.records) + 1
  <2>1. Len(data.records) \in Nat
    BY DEF IInv, TypeOK, Parsed
  <2> QED BY <1>1, <2>1 DEF IInv, TypeOK
<1>3. /\ admitted' \subseteq seen' /\ seen' \subseteq DOMAIN contract.cases /\ applicable' \subseteq seen'
      /\ applicable' \subseteq DOMAIN data.materials /\ reuse' \subseteq seen' /\ reads' \in ReadStates
      /\ \A i \in admitted' : ~\E x \in rejections' : x[1] = i
  <2> HIDE DEF r
  <2>1. CASE MalformedRecord(r)
    BY <2>1 DEF MalformedRecord, IInv, TypeOK
  <2>2. CASE DuplicateRecord(r)
    <3>1. \A code : <<r.case, code>>[1] = r.case
      OBVIOUS
    <3>2. \A x \in rejections' : x \in rejections \/ x[1] = r.case
      BY <2>2, <3>1 DEF DuplicateRecord
    <3> QED BY <2>2, <3>2 DEF DuplicateRecord, IInv, TypeOK
  <2>3. CASE JudgeRecord(r)
    <3>1. /\ r.case \in DOMAIN contract.cases \ seen /\ seen' = seen \cup {r.case}
          /\ reads' \in ReadStates /\ reuse' \subseteq reuse \cup {r.case}
          /\ Excluded(r) \/ Accepted(r)
      BY <2>3, JudgeFacts DEF IInv
    <3>2. CASE Excluded(r)
      BY <3>1, <3>2 DEF Excluded, IInv, TypeOK
    <3>3. CASE Accepted(r)
      <4>1. \A x \in rejections : x[1] \in seen
        BY DEF IInv, Judged
      <4>2. \A i \in admitted' : ~\E x \in rejections' : x[1] = i
        BY <3>1, <3>3, <4>1 DEF Accepted, IInv, TypeOK
      <4> QED BY <3>1, <3>3, <4>2 DEF Accepted, HasMaterial, IInv, TypeOK
    <3> QED BY <3>1, <3>2, <3>3
  <2> QED BY <1>1, <2>1, <2>2, <2>3
<1>4. ReadStates' = ReadStates
  BY <1>1 DEF ReadStates, repo
<1> QED BY <1>1, <1>2, <1>3, <1>4 DEF IInv, TypeOK, repo, env

LEMMA RecordKeepsJudged ==
  ASSUME IInv, NextRecord
  PROVE  Judged'
<1> DEFINE r == data.records[next]
           Backed(n, i, upto, app) ==
             /\ OnlyRecord(n, i, data.records, upto)
             /\ Supports(data.records[n], contract, data, subject, app, commits, touched)
<1>1. /\ pc = "records" /\ pc' = pc /\ next <= Len(data.records) /\ next' = next + 1
      /\ MalformedRecord(r) \/ DuplicateRecord(r) \/ JudgeRecord(r)
      /\ commits' = commits /\ subject' = subject /\ contract' = contract /\ data' = data /\ touched' = touched
  BY DEF NextRecord, repo
<1>2. next \in Nat /\ next >= 1 /\ Len(data.records) \in Nat
  BY DEF IInv, TypeOK, Parsed
<1>3. \A n \in 1..next' - 1 : n \in 1..next - 1 \/ n = next
  BY <1>1, <1>2
<1>4. next \in 1..next' - 1 /\ \A n \in 1..next - 1 : n \in 1..next' - 1 /\ n # next
  BY <1>1, <1>2
<1>5. /\ \A n \in 1..next - 1 : data.records[n].case \in DOMAIN contract.cases => data.records[n].case \in seen
      /\ \A x \in rejections : x[1] \in seen
      /\ \A i \in admitted : \E n \in 1..next - 1 : Backed(n, i, next - 1, applicable)
      /\ admitted \subseteq seen /\ applicable \subseteq seen /\ seen \subseteq DOMAIN contract.cases
  BY DEF IInv, Judged, TypeOK
<1>6. ASSUME NEW i \in admitted, i # r.case, NEW app, i \in app <=> i \in applicable
      PROVE  \E n \in 1..next' - 1 : Backed(n, i, next' - 1, app)
  <2>1. PICK n \in 1..next - 1 : Backed(n, i, next - 1, applicable)
    BY <1>5
  <2>2. OnlyRecord(n, i, data.records, next' - 1)
    BY <1>3, <1>6, <2>1 DEF OnlyRecord
  <2>3. data.records[n].case = i
    BY <2>1 DEF OnlyRecord
  <2>4. Supports(data.records[n], contract, data, subject, app, commits, touched)
    BY <1>6, <2>1, <2>3 DEF Supports
  <2> QED BY <1>4, <2>2, <2>4
<1>7. /\ \A n \in 1..next' - 1 : data.records[n].case \in DOMAIN contract.cases => data.records[n].case \in seen'
      /\ \A x \in rejections' : x[1] \in seen'
      /\ \A i \in admitted' : \E n \in 1..next' - 1 : Backed(n, i, next' - 1, applicable')
  <2> HIDE DEF Backed
  <2>1. CASE MalformedRecord(r)
    <3>1. /\ seen' = seen /\ rejections' = rejections /\ admitted' = admitted /\ applicable' = applicable
          /\ r.case \notin DOMAIN contract.cases
      BY <2>1 DEF MalformedRecord
    <3>2. \A i \in admitted : i # r.case
      BY <1>5, <3>1
    <3>3. \A i \in admitted' : \E n \in 1..next' - 1 : Backed(n, i, next' - 1, applicable')
      BY <1>6, <3>1, <3>2
    <3> QED BY <1>3, <1>5, <3>1, <3>3
  <2>2. CASE DuplicateRecord(r)
    <3>1. /\ seen' = seen /\ rejections' = rejections \cup {<<r.case, "duplicate-observation">>}
          /\ admitted' = admitted \ {r.case} /\ applicable' = applicable /\ r.case \in seen
      BY <2>2 DEF DuplicateRecord
    <3>2. <<r.case, "duplicate-observation">>[1] = r.case
      OBVIOUS
    <3>3. \A i \in admitted' : \E n \in 1..next' - 1 : Backed(n, i, next' - 1, applicable')
      BY <1>6, <3>1
    <3> QED BY <1>3, <1>5, <3>1, <3>2, <3>3
  <2>3. CASE JudgeRecord(r)
    <3>1. /\ r.case \in DOMAIN contract.cases \ seen /\ seen' = seen \cup {r.case}
          /\ Excluded(r) \/ Accepted(r)
      BY <2>3, JudgeFacts DEF IInv
    <3>2. \A i \in admitted : i # r.case
      BY <1>5, <3>1
    <3>3. CASE Excluded(r)
      <4>1. \A i \in admitted' : \E n \in 1..next' - 1 : Backed(n, i, next' - 1, applicable')
        BY <1>6, <3>2, <3>3 DEF Excluded
      <4> QED BY <1>3, <1>5, <3>1, <3>3, <4>1 DEF Excluded
    <3>4. CASE Accepted(r)
      <4>1. admitted' = admitted \cup {r.case} /\ rejections' = rejections
            /\ (applicable' = applicable \/ applicable' = applicable \cup {r.case})
        BY <3>4 DEF Accepted
      <4>2. Supports(r, contract, data, subject, applicable', commits, touched)
        <5>1. ContractValid(contract)
          BY <1>1 DEF IInv, Contracted
        <5>2. ~touched => work.files = commits[subject].files
          BY <1>1 DEF IInv, Begun
        <5> QED BY <3>1, <3>4, <5>1, <5>2, AcceptedSupports DEF IInv
      <4>3. OnlyRecord(next, r.case, data.records, next' - 1)
        BY <1>3, <1>5, <3>1 DEF OnlyRecord
      <4>4. Backed(next, r.case, next' - 1, applicable')
        BY <4>2, <4>3 DEF Backed
      <4>5. \A i \in admitted : \E n \in 1..next' - 1 : Backed(n, i, next' - 1, applicable')
        BY <1>6, <3>2, <4>1
      <4>6. \A i \in admitted' : \E n \in 1..next' - 1 : Backed(n, i, next' - 1, applicable')
        BY <1>4, <4>1, <4>4, <4>5
      <4> QED BY <1>3, <1>5, <3>1, <4>1, <4>6
    <3> QED BY <3>1, <3>3, <3>4
  <2> QED BY <1>1, <2>1, <2>2, <2>3
<1> QED BY <1>1, <1>7 DEF Judged

LEMMA RecordKeeps ==
  ASSUME IInv, NextRecord
  PROVE  IInv'
<1>1. /\ pc = "records" /\ pc' = pc
      /\ UNCHANGED <<repo, env, pc, subject, contract, started, now, data, supplemental, anchors, report, touched>>
  BY DEF NextRecord
<1>2. TypeOK' /\ Judged'
  BY RecordKeepsTypes, RecordKeepsJudged
<1>3. Begun'
  BY <1>1 DEF IInv, Begun, Early, repo
<1>4. Weighed'
  BY <1>1 DEF IInv, Weighed
<1>5. Contracted'
  BY <1>1 DEF IInv, Contracted, Final
<1>6. Rechecked' /\ Qualified' /\ Held' /\ Reported'
  BY <1>1 DEF Rechecked, Qualified, Held, Reported, Checked, Final
<1> QED BY <1>1, <1>2, <1>3, <1>4, <1>5, <1>6 DEF IInv, Steps

-----------------------------------------------------------------------------
(* The steps after the records: what was admitted may only shrink.          *)

Settling ==
    /\ UNCHANGED <<repo, env, subject, contract, started, now, data, next, seen, applicable, reuse, touched>>
    /\ pc' \in {"recheck"} \cup Checked
    /\ pc = "records" => next > Len(data.records)
    /\ admitted' \subseteq admitted /\ supplemental' \subseteq DOMAIN data.witnesses
    /\ \A x \in rejections' : x \in rejections \/ x[1] \in admitted \ admitted'
    /\ reads' \in ReadStates
    /\ pc' # "done" => report' = NoReport

LEMMA SettlingKeeps ==
  ASSUME IInv, Settling
  PROVE  TypeOK' /\ Begun' /\ Judged'
<1>1. /\ commits' = commits /\ head' = head /\ work' = work /\ clock' = clock
      /\ subject' = subject /\ contract' = contract /\ started' = started /\ now' = now /\ data' = data
      /\ next' = next /\ seen' = seen /\ applicable' = applicable /\ reuse' = reuse /\ touched' = touched
      /\ pc' \in {"recheck"} \cup Checked
      /\ admitted' \subseteq admitted /\ supplemental' \subseteq DOMAIN data.witnesses
      /\ \A x \in rejections' : x \in rejections \/ x[1] \in admitted \ admitted'
      /\ reads' \in ReadStates
      /\ pc' # "done" => report' = NoReport
  BY DEF Settling, repo, env
<1>2. ReadStates' = ReadStates
  BY <1>1 DEF ReadStates
<1>3. \A i \in admitted' : ~\E x \in rejections' : x[1] = i
  BY <1>1 DEF IInv, TypeOK
<1>4. TypeOK'
  <2>1. TypeOK
    BY DEF IInv
  <2>2. admitted' \subseteq seen'
    BY <1>1, <2>1 DEF TypeOK
  <2> QED BY <1>1, <1>2, <1>3, <2>1, <2>2 DEF TypeOK
<1>5. Begun'
  BY <1>1 DEF Begun, Early, Checked, Final
<1>6. \A x \in rejections' : x[1] \in seen'
  BY <1>1 DEF IInv, TypeOK, Judged
<1>7. admitted' # {} => next' = Len(data'.records) + 1
  <2>1. Len(data.records) \in Nat
    BY DEF IInv, TypeOK, Parsed
  <2>2. next \in 1..Len(data.records) + 1
    BY DEF IInv, TypeOK
  <2>3. CASE pc = "records"
    <3>1. next > Len(data.records)
      BY <2>3 DEF Settling
    <3> QED BY <1>1, <2>1, <2>2, <3>1
  <2>4. CASE pc # "records"
    BY <1>1, <2>4 DEF IInv, Judged
  <2> QED BY <2>3, <2>4
<1>8. Judged'
  BY <1>1, <1>6, <1>7 DEF IInv, Judged
<1> QED BY <1>4, <1>5, <1>8

LEMMA WeighedShrinks ==
  ASSUME Weighed, data' = data, supplemental' \subseteq supplemental
  PROVE  Weighed'
  BY DEF Weighed

(* A failure withdraws everything.                                          *)
LEMMA FailKeeps ==
  ASSUME IInv, Fail, UNCHANGED <<repo, env, touched>>, pc # "done",
         pc = "records" => next > Len(data.records)
  PROVE  IInv'
<1>1. /\ admitted' = {} /\ supplemental' = {} /\ pc' = "report" /\ errors' # {} /\ data' = data
      /\ report' = report
  BY DEF Fail
<1>2. Settling
  <2>1. reads' \in ReadStates /\ report' = NoReport
    BY DEF Fail, IInv, TypeOK
  <2> QED BY <2>1 DEF Fail, Settling, Checked, Final
<1>3. TypeOK' /\ Begun' /\ Judged'
  BY <1>2, SettlingKeeps
<1>4. Weighed'
  BY <1>1, WeighedShrinks DEF IInv
<1>5. Rechecked' /\ Contracted' /\ Qualified' /\ Held' /\ Reported'
  BY <1>1 DEF Rechecked, Contracted, Qualified, Held, Reported, Final
<1> QED BY <1>1, <1>3, <1>4, <1>5 DEF IInv, Steps, Checked, Final

LEMMA WitnessKeeps ==
  ASSUME IInv, JudgeWitness
  PROVE  IInv'
<1>1. /\ pc = "records" /\ next > Len(data.records) /\ UNCHANGED <<repo, env, touched>>
  BY DEF JudgeWitness
<1>2. CASE Fail
  BY <1>1, <1>2, FailKeeps
<1> DEFINE valid == {i \in DOMAIN data.witnesses : WitnessSupported(data.witnesses[i]) /\ ReadWitnesses[i].ok}
<1>3. CASE /\ supplemental' = valid \ Conflicting(valid)
           /\ reads' = ReadWitnesses[Len(data.witnesses)]
           /\ pc' = "recheck"
           /\ UNCHANGED <<subject, contract, started, now, data, next, seen, admitted, applicable, reuse,
                          rejections, report>>
  <2>1. ContractValid(contract)
    BY <1>1 DEF IInv, Contracted
  <2>2. Settling
    <3>1. reads' \in ReadStates
      BY <1>3, ReadWitnessesBounded DEF IInv
    <3>2. report' = NoReport
      BY <1>1, <1>3 DEF IInv, TypeOK
    <3> QED BY <1>1, <1>3, <3>1, <3>2 DEF Settling
  <2>3. TypeOK' /\ Begun' /\ Judged'
    BY <2>2, SettlingKeeps
  <2>4. \A i \in supplemental' : i \in DOMAIN data.witnesses /\ Reviewed(data.witnesses[i])
    BY <1>3, WitnessReviewed DEF IInv
  <2>5. \A i, j \in supplemental' : i # j => Apart(data.witnesses[i], data.witnesses[j])
    <3> SUFFICES ASSUME NEW i \in supplemental', NEW j \in supplemental', i # j
                 PROVE  Apart(data.witnesses[i], data.witnesses[j])
      OBVIOUS
    <3>1. i \in valid /\ j \in valid \ {i} /\ i \notin Conflicting(valid)
      BY <1>3
    <3> HIDE DEF valid
    <3> QED BY <3>1 DEF Conflicting, Apart
  <2>6. Weighed'
    BY <1>3, <2>4, <2>5 DEF Weighed
  <2>7. Rechecked' /\ Contracted' /\ Qualified' /\ Held' /\ Reported'
    BY <1>3, <2>1 DEF Rechecked, Contracted, Qualified, Held, Reported, Final, Checked
  <2> QED BY <1>3, <2>3, <2>6, <2>7 DEF IInv, Steps
<1> QED BY <1>2, <1>3, Zenon DEF JudgeWitness

LEMMA RecheckKeeps ==
  ASSUME IInv, Recheck
  PROVE  IInv'
<1> DEFINE moved == {i \in admitted \cap applicable : data.materials[i].context # world.context}
           drifted == {i \in admitted \ moved : contract.cases[i].conditions.sandbox # world.sandbox}
<1>1. /\ pc = "recheck" /\ pc' = "criteria"
      /\ admitted' = admitted \ (moved \cup drifted)
      /\ rejections' = rejections \cup (moved \X {"current-applicability-changed"})
                                  \cup (drifted \X {"current-conditions-changed"})
      /\ supplemental' = {i \in supplemental : data.witnesses[i].context = world.context}
      /\ UNCHANGED <<repo, env, subject, contract, started, now, data, next, seen, applicable, reuse,
                     reads, report, touched>>
  BY DEF Recheck
<1>2. ContractValid(contract)
  BY <1>1 DEF IInv, Contracted
<1>3. Settling
  <2>1. \A x \in rejections' : x \in rejections \/ x[1] \in admitted \ admitted'
    <3>1. moved \subseteq admitted /\ drifted \subseteq admitted
      OBVIOUS
    <3>2. \A s, code : \A x \in s \X {code} : x[1] \in s
      OBVIOUS
    <3> HIDE DEF moved, drifted
    <3> QED BY <1>1, <3>1, <3>2
  <2>2. admitted' \subseteq admitted /\ supplemental' \subseteq DOMAIN data.witnesses
    BY <1>1 DEF IInv, TypeOK
  <2>3. reads' \in ReadStates /\ report' = NoReport
    BY <1>1 DEF IInv, TypeOK
  <2> QED BY <1>1, <2>1, <2>2, <2>3 DEF Settling, Checked
<1>4. TypeOK' /\ Begun' /\ Judged'
  BY <1>3, SettlingKeeps
<1>5. Weighed'
  BY <1>1, WeighedShrinks DEF IInv
<1>6. Rechecked'
  BY <1>1 DEF Rechecked, env
<1>7. Contracted' /\ Qualified' /\ Held' /\ Reported'
  BY <1>1, <1>2 DEF Contracted, Qualified, Held, Reported, Final
<1> QED BY <1>1, <1>4, <1>5, <1>6, <1>7 DEF IInv, Steps, Checked

(* A step between the second observation and the qualification that leaves  *)
(* the evidence alone.                                                      *)
Passing ==
    /\ pc \in {"criteria", "subject", "clean"} /\ pc' \in {"subject", "clean", "qualify"}
    /\ UNCHANGED <<repo, env, subject, contract, started, now, evidence, report, touched>>
LEMMA PassingKeeps ==
  ASSUME IInv, Passing
  PROVE  IInv'
<1>1. /\ pc \in {"criteria", "subject", "clean"} /\ pc' \in {"subject", "clean", "qualify"}
      /\ UNCHANGED <<repo, env, subject, contract, started, now, evidence, report, touched>>
  BY DEF Passing
<1>2. Settling
  <2>1. reads' \in ReadStates /\ report' = NoReport /\ supplemental' \subseteq DOMAIN data.witnesses
    BY <1>1 DEF evidence, IInv, TypeOK
  <2> QED BY <1>1, <2>1 DEF Settling, Checked, evidence
<1>3. TypeOK' /\ Begun' /\ Judged'
  BY <1>2, SettlingKeeps
<1>4. Weighed'
  BY <1>1, WeighedShrinks DEF IInv, evidence
<1>5. Rechecked' /\ Contracted' /\ Qualified' /\ Held' /\ Reported'
  BY <1>1 DEF IInv, Rechecked, Contracted, Qualified, Held, Reported, Checked, Final, evidence, env
<1> QED BY <1>1, <1>3, <1>4, <1>5 DEF IInv, Steps, Checked, Final

LEMMA QualifyKeeps ==
  ASSUME IInv, Qualify
  PROVE  IInv'
<1>1. pc = "qualify" /\ UNCHANGED <<repo, env, touched>>
  BY DEF Qualify
<1>2. CASE Fail
  BY <1>1, <1>2, FailKeeps
<1> DEFINE expired == {i \in admitted : clock - started >= contract.cases[i].maxAge}
           stale == {i \in (admitted \ expired) \cap applicable : ~ReviewFresh(data.materials[i].review, clock)}
           left == admitted \ (expired \cup stale)
           final == errors \cup (IF Late THEN {"review-expired"} ELSE {})
           live == {i \in supplemental :
                       LET w == data.witnesses[i]
                           age == IF Alone(w) THEN w.maxAge ELSE contract.cases[w.base].maxAge
                       IN  /\ ~Alone(w) => w.base \in left
                           /\ clock - started < age
                           /\ Alone(w) => Fresh(w.observedAt, age, clock)
                           /\ ReviewFresh(w.review, clock)}
           revoked == IF final = {} THEN {} ELSE left \cap applicable
<1>3. CASE /\ errors' = final
           /\ admitted' = left \ revoked
           /\ supplemental' = IF final = {} THEN live ELSE {}
           /\ rejections' = rejections \cup (expired \X {"current-applicability-expired"})
                                       \cup (stale \X {"current-impact-review-expired"})
                                       \cup (revoked \X {"current-candidate-review-or-source-invalid"})
           /\ pc' = "report"
           /\ UNCHANGED <<subject, contract, started, now, data, next, seen, applicable, reuse, reads, report>>
  <2>1. /\ errors' = final /\ admitted' = left \ revoked /\ pc' = "report"
        /\ supplemental' \subseteq supplemental
        /\ final # {} => supplemental' = {}
        /\ final = {} => supplemental' = live
    <3> HIDE DEF expired, stale, left, revoked, final
    <3> QED BY <1>3
  <2>2. expired \subseteq admitted /\ stale \subseteq admitted /\ revoked \subseteq admitted
    <3>1. left \subseteq admitted
      OBVIOUS
    <3> HIDE DEF left, final
    <3> QED BY <3>1
  <2>3. admitted' \subseteq admitted /\ admitted' \cap (expired \cup stale \cup revoked) = {}
    <3> HIDE DEF expired, stale, revoked
    <3> QED BY <2>1
  <2>4. Settling
    <3>1. \A x \in rejections' : x \in rejections \/ x[1] \in admitted \ admitted'
      <4>1. \A s, code : \A x \in s \X {code} : x[1] \in s
        OBVIOUS
      <4> HIDE DEF expired, stale, revoked
      <4> QED BY <1>3, <2>2, <2>3, <4>1
    <3>2. reads' \in ReadStates /\ report' = NoReport /\ supplemental' \subseteq DOMAIN data.witnesses
      BY <1>1, <1>3, <2>1 DEF IInv, TypeOK
    <3> HIDE DEF expired, stale, left, revoked, final
    <3> QED BY <1>1, <1>3, <2>3, <3>1, <3>2 DEF Settling, Checked, Final
  <2>5. TypeOK' /\ Begun' /\ Judged'
    BY <2>4, SettlingKeeps
  <2>6. Weighed'
    BY <1>3, <2>1, WeighedShrinks DEF IInv
  <2>7. \A i \in admitted' : i \in admitted
    BY <2>3
  <2>8. Rechecked'
    <3> HIDE DEF expired, stale, left, revoked, final
    <3> QED BY <1>1, <1>3, <2>7 DEF IInv, Rechecked, Checked, env
  <2>9. Contracted'
    <3> HIDE DEF expired, stale, left, revoked, final
    <3> QED BY <1>1, <1>3 DEF IInv, Contracted
  <2>10. Qualified'
    <3>1. ASSUME NEW i \in admitted' PROVE clock - started < contract.cases[i].maxAge
      <4>1. i \in admitted /\ i \notin expired
        BY <2>3, <3>1
      <4>2. ~(clock - started >= contract.cases[i].maxAge)
        BY <4>1
      <4>3. clock \in Nat /\ started \in Nat /\ i \in DOMAIN contract.cases
        BY <4>1 DEF IInv, TypeOK
      <4>4. contract.cases[i].maxAge \in Nat
        BY <4>3, CaseTyped DEF IInv
      <4> QED BY <4>2, <4>3, <4>4
    <3>2. ASSUME NEW i \in admitted', i \in applicable
          PROVE  errors' = {} /\ ReviewFresh(data.materials[i].review, clock)
      <4>1. i \in admitted /\ i \notin expired /\ i \notin stale /\ i \notin revoked /\ i \in left
        <5> HIDE DEF expired, stale, revoked
        <5> QED BY <2>1, <2>3, <3>2 DEF left
      <4>2. ReviewFresh(data.materials[i].review, clock)
        <5> HIDE DEF expired
        <5> QED BY <3>2, <4>1 DEF stale
      <4>3. final = {}
        <5> HIDE DEF left, final
        <5> QED BY <3>2, <4>1 DEF revoked
      <4> QED BY <2>1, <4>2, <4>3
    <3>3. ASSUME NEW i \in supplemental'
          PROVE  errors' = {} /\ ReviewFresh(data.witnesses[i].review, clock)
      <4>1. final = {} /\ i \in live
        <5> HIDE DEF final, live
        <5> QED BY <2>1, <3>3
      <4>2. ReviewFresh(data.witnesses[i].review, clock)
        <5> HIDE DEF left
        <5> QED BY <4>1 DEF live
      <4> QED BY <2>1, <4>1, <4>2
    <3>4. clock' = clock /\ started' = started /\ contract' = contract /\ data' = data /\ applicable' = applicable
      BY <1>1, <1>3 DEF env
    <3> QED BY <3>1, <3>2, <3>3, <3>4 DEF Qualified
  <2>11. Held' /\ Reported'
    BY <2>1 DEF Held, Reported
  <2> QED BY <2>1, <2>5, <2>6, <2>8, <2>9, <2>10, <2>11 DEF IInv, Steps, Checked, Final
<1> QED BY <1>2, <1>3, Zenon DEF Qualify

LEMMA HoldKeeps ==
  ASSUME IInv, HoldPending
  PROVE  IInv'
<1> DEFINE pending == IF ContractValid(contract) /\ ~SelectionFinal(contract.selection)
                      THEN admitted \cap SelectionCases(contract) ELSE {}
<1>1. /\ pc = "report" /\ pc' = "counting"
      /\ admitted' = admitted \ pending
      /\ rejections' = rejections \cup (pending \X {"entry-selection-pending"})
      /\ supplemental' \subseteq supplemental
      /\ UNCHANGED <<repo, env, subject, contract, started, now, data, next, seen, applicable, reuse, errors,
                     reads, report, touched>>
  BY DEF HoldPending
<1>2. Settling
  <2>1. \A x \in rejections' : x \in rejections \/ x[1] \in admitted \ admitted'
    <3>1. pending \subseteq admitted
      OBVIOUS
    <3>2. \A s, code : \A x \in s \X {code} : x[1] \in s
      OBVIOUS
    <3> HIDE DEF pending
    <3> QED BY <1>1, <3>1, <3>2
  <2>2. reads' \in ReadStates /\ report' = NoReport /\ supplemental' \subseteq DOMAIN data.witnesses
    BY <1>1 DEF IInv, TypeOK
  <2> HIDE DEF pending
  <2> QED BY <1>1, <2>1, <2>2 DEF Settling, Checked, Final
<1>3. TypeOK' /\ Begun' /\ Judged'
  BY <1>2, SettlingKeeps
<1>4. Weighed'
  BY <1>1, WeighedShrinks DEF IInv
<1>5. \A i \in admitted' : i \in admitted
  BY <1>1
<1>6. Rechecked' /\ Contracted' /\ Qualified' /\ Reported'
  <2> HIDE DEF pending
  <2> QED BY <1>1, <1>5 DEF IInv, Rechecked, Contracted, Qualified, Reported, Checked, Final, env
<1>7. Held'
  BY <1>1 DEF Held
<1> QED BY <1>1, <1>3, <1>4, <1>6, <1>7 DEF IInv, Steps, Checked, Final

-----------------------------------------------------------------------------
(* What an eligible report amounts to.                                      *)

LEMMA RelevantCovers ==
  ASSUME NEW s, NEW l
  PROVE  Relevant(s, l) = Covering(contract, s, l)
  BY DEF Relevant, Covering

(* Under a valid contract an eligible candidate completes each claim that   *)
(* anything is required for.                                                *)
LEMMA EligibleCompletes ==
  ASSUME ContractValid(contract), Eligible(supplemental), NEW l \in Claims, Policy.required[l] # {}
  PROVE  /\ \A s \in Policy.required[l] :
             /\ s \in Scopes /\ Relevant(s, l) # {} /\ Relevant(s, l) \subseteq admitted
             /\ MissingDuties(s, l) = {} /\ ScopeCovered(s, l)
             /\ (l = "function" /\ s \in JointScopes) => Joint(s)
         /\ \A o \in Obligations : o.claim = l => Supported(o, supplemental)
<1>1. Completed(l, supplemental)
  BY DEF Eligible
<1>2. \A s \in Policy.required[l] : s \in Scopes /\ ScopeCovered(s, l)
  BY <1>1 DEF Completed, Bound
<1> QED BY <1>1, <1>2 DEF Completed, ScopeCovered

(* Every obligation and every joint scope belongs to such a claim.          *)
LEMMA ObligationRequired ==
  ASSUME ContractValid(contract), NEW q \in Requirements, NEW o \in Policy.requirements[q].obligations
  PROVE  o.claim \in Claims /\ Policy.required[o.claim] # {}
<1>1. ObligationsBound(contract) /\ CoverageMapped
  BY DEF ContractValid
<1>2. o.scope \in Policy.requirements[q].coverage[o.claim] \cap Scopes /\ o.claim \in Policy.scopes[o.scope].claims
  BY <1>1 DEF ObligationsBound
<1>3. o.claim \in Claims
  BY <1>2, PolicyAssumption
<1>4. Policy.required[o.claim] = UNION {Policy.requirements[p].coverage[o.claim] : p \in Requirements}
  BY <1>1, <1>3 DEF CoverageMapped
<1> QED BY <1>2, <1>3, <1>4

LEMMA FunctionRequired ==
  ASSUME ContractValid(contract)
  PROVE  /\ "function" \in Claims /\ Policy.required["function"] # {}
         /\ JointScopes \subseteq Policy.required["function"]
<1>1. CoverageMapped
  BY DEF ContractValid
<1>2. "function" \in Claims /\ Joined \in Requirements
  BY PolicyAssumption
<1>3. Policy.required["function"] # {}
  BY <1>1, <1>2 DEF CoverageMapped
<1>4. Policy.required["function"] = UNION {Policy.requirements[p].coverage["function"] : p \in Requirements}
  BY <1>1, <1>2 DEF CoverageMapped
<1> QED BY <1>2, <1>3, <1>4 DEF JointScopes

LEMMA EligibleSupports ==
  ASSUME ContractValid(contract), Eligible(supplemental), NEW o \in Obligations
  PROVE  Supported(o, supplemental)
<1>1. PICK q \in Requirements : o \in Policy.requirements[q].obligations
  BY DEF Obligations
<1>2. o.claim \in Claims /\ Policy.required[o.claim] # {}
  BY <1>1, ObligationRequired
<1> QED BY <1>2, EligibleCompletes

LEMMA EligibleMeets ==
  ASSUME ContractValid(contract), Eligible(supplemental)
  PROVE  Met(supplemental) = Requirements
<1>1. errors = {} /\ CoverageMapped
  BY DEF Eligible, ContractValid
<1>2. ASSUME NEW q \in Requirements PROVE RequirementMet(q, supplemental)
  <2>1. ASSUME NEW l \in Claims, NEW s \in Policy.requirements[q].coverage[l]
        PROVE  ScopeCovered(s, l)
    <3>1. s \in Policy.required[l]
      <4>1. Policy.required[l] = UNION {Policy.requirements[p].coverage[l] : p \in Requirements}
        BY <1>1 DEF CoverageMapped
      <4> QED BY <4>1
    <3> QED BY <3>1, EligibleCompletes
  <2>2. \A o \in Policy.requirements[q].obligations : Supported(o, supplemental)
    BY EligibleSupports DEF Obligations
  <2> QED BY <1>1, <2>1, <2>2 DEF RequirementMet
<1> QED BY <1>2 DEF Met

LEMMA EligibleFunctional ==
  ASSUME ContractValid(contract), Eligible(supplemental)
  PROVE  Completed("function", supplemental) /\ \A o \in Obligations : Supported(o, supplemental)
<1>1. Completed("function", supplemental)
  BY FunctionRequired DEF Eligible
<1> QED BY <1>1, EligibleSupports

(* The selection was held open for no case of it.                           *)
LEMMA EligibleSelects ==
  ASSUME IInv, pc = "counting", ContractValid(contract), Eligible(supplemental)
  PROVE  SelectionFinal(contract.selection)
<1>1. PICK l \in Claims : \E s \in Policy.required[l] \cap Scopes :
        l \in Policy.scopes[s].claims /\ Policy.scopes[s].kind \in SelectionKinds
  BY PolicyAssumption
<1>2. PICK s \in Policy.required[l] \cap Scopes :
        l \in Policy.scopes[s].claims /\ Policy.scopes[s].kind \in SelectionKinds
  BY <1>1
<1>3. Relevant(s, l) # {} /\ Relevant(s, l) \subseteq admitted
  BY <1>2, EligibleCompletes
<1>4. PICK i : i \in Relevant(s, l)
  BY <1>3
<1>5. i \in DOMAIN contract.cases /\ contract.cases[i].scope = s
  BY <1>4 DEF Relevant
<1>6. i \in SelectionCases(contract)
  BY <1>2, <1>5 DEF SelectionCases, Kind
<1>7. admitted \cap SelectionCases(contract) # {}
  BY <1>3, <1>4, <1>6
<1> QED BY <1>7 DEF IInv, Held

LEMMA EligibleWhole ==
  ASSUME IInv, pc = "counting", Eligible(supplemental)
  PROVE  /\ admitted = DOMAIN contract.cases /\ Met(supplemental) = Requirements
         /\ Completed("function", supplemental) /\ \A o \in Obligations : Supported(o, supplemental)
         /\ Whole(contract, data, applicable, supplemental)
<1>1. admitted = DOMAIN contract.cases /\ errors = {}
  BY DEF Eligible
<1>2. ContractValid(contract)
  BY <1>1 DEF IInv, Contracted, Final
<1>3. SelectionFinal(contract.selection)
  BY <1>2, EligibleSelects
<1>4. ASSUME NEW l \in Claims, NEW s \in Policy.required[l], NEW x \in Policy.scopes[s].duties
      PROVE  \E i \in Covering(contract, s, l) : x \in contract.cases[i].duties
  <2>1. MissingDuties(s, l) = {}
    BY <1>2, EligibleCompletes
  <2>2. PICK i \in Relevant(s, l) : x \in contract.cases[i].duties
    BY <2>1 DEF MissingDuties
  <2> QED BY <2>2, RelevantCovers
<1>5. ASSUME NEW s \in JointScopes
      PROVE  \E i \in Covering(contract, s, "function") : Policy.scopes[s].duties \subseteq contract.cases[i].duties
  <2>1. Joint(s)
    BY <1>2, FunctionRequired, EligibleCompletes
  <2> QED BY <2>1, RelevantCovers DEF Joint
<1>6. ASSUME NEW o \in Obligations
      PROVE  \/ \E i \in DOMAIN contract.cases : Shown(o, contract, data, applicable, i)
             \/ \E w \in supplemental : o.id \in data.witnesses[w].obligations
  <2>1. Witnessed(o, supplemental)
    BY <1>2, EligibleSupports DEF Supported
  <2>2. CASE \E w \in supplemental : Alone(data.witnesses[w]) /\ WitnessObligation(data.witnesses[w], o)
    BY <2>2 DEF WitnessObligation
  <2>3. CASE \E i \in Candidate(o, supplemental) : o.doc \in contract.cases[i].oracle
    <3>1. PICK i \in Candidate(o, supplemental) : TRUE
      BY <2>3
    <3>2. i \in DOMAIN contract.cases /\ contract.cases[i].scope = o.scope
      BY <3>1 DEF Candidate, Relevant
    <3>3. \/ Observed(i, o) \/ o.id \in Derived(i)
          \/ \E w \in supplemental : WitnessObligation(data.witnesses[w], o)
      BY <3>1 DEF Candidate
    <3>4. CASE Observed(i, o)
      BY <3>2, <3>4 DEF Observed, Shown
    <3>5. CASE o.id \in Derived(i)
      <4>1. i \in applicable /\ \E x \in data.materials[i].derived : x.obligation = o.id
        BY <3>5 DEF Derived
      <4> QED BY <3>2, <4>1 DEF Shown
    <3>6. CASE \E w \in supplemental : WitnessObligation(data.witnesses[w], o)
      BY <3>6 DEF WitnessObligation
    <3> QED BY <3>3, <3>4, <3>5, <3>6
  <2> QED BY <2>1, <2>2, <2>3 DEF Witnessed
<1>7. Whole(contract, data, applicable, supplemental)
  BY <1>2, <1>3, <1>4, <1>5, <1>6 DEF Whole
<1> QED BY <1>1, <1>2, <1>7, EligibleMeets, EligibleFunctional

LEMMA ReportKeeps ==
  ASSUME IInv, Report
  PROVE  IInv'
<1>1. /\ pc = "counting" /\ pc' = "done"
      /\ UNCHANGED <<repo, env, subject, contract, started, now, evidence, anchors, touched>>
      /\ report'.accepted = admitted /\ report'.supplemental = supplemental /\ report'.met = Met(supplemental)
      /\ report'.functional = (Completed("function", supplemental)
                                 /\ \A o \in Obligations : Supported(o, supplemental))
      /\ report'.eligible = Eligible(supplemental)
  BY Zenon DEF Report
<1>2. Settling
  <2>1. reads' \in ReadStates /\ supplemental' \subseteq DOMAIN data.witnesses
    BY <1>1 DEF evidence, IInv, TypeOK
  <2> QED BY <1>1, <2>1 DEF Settling, Checked, Final, evidence
<1>3. TypeOK' /\ Begun' /\ Judged'
  BY <1>2, SettlingKeeps
<1>4. Weighed'
  BY <1>1, WeighedShrinks DEF IInv, evidence
<1>5. Rechecked' /\ Contracted' /\ Qualified' /\ Held'
  BY <1>1 DEF IInv, Rechecked, Contracted, Qualified, Held, Checked, Final, evidence, env
<1>6. Reported'
  <2>1. ASSUME report'.eligible
        PROVE  /\ admitted = DOMAIN contract.cases /\ report'.met = Requirements /\ report'.functional
               /\ Whole(contract, data, applicable, supplemental)
    <3>1. Eligible(supplemental)
      BY <1>1, <2>1
    <3>2. /\ admitted = DOMAIN contract.cases /\ Met(supplemental) = Requirements
          /\ Completed("function", supplemental) /\ \A o \in Obligations : Supported(o, supplemental)
          /\ Whole(contract, data, applicable, supplemental)
      BY <1>1, <3>1, EligibleWhole
    <3> QED BY <1>1, <3>2
  <2>2. /\ admitted' = admitted /\ supplemental' = supplemental /\ applicable' = applicable
        /\ contract' = contract /\ data' = data
    BY <1>1 DEF evidence
  <2> QED BY <1>1, <2>1, <2>2 DEF Reported
<1> QED BY <1>1, <1>3, <1>4, <1>5, <1>6 DEF IInv, Steps, Checked, Final

-----------------------------------------------------------------------------
(* The steps before the records, and the environment.                       *)

(* Until the first answer nothing depends on what the assessment bound.     *)
Starting ==
    /\ pc \in Early /\ Untouched /\ Untouched'
    /\ UNCHANGED <<repo, env, reads, report>>
LEMMA StartingKeeps ==
  ASSUME IInv, Starting, pc' \in Steps \ {"counting", "done"},
         subject' \in DOMAIN commits, contract' \in Contracts, started' \in Nat, now' \in Nat,
         Parsed(data'), Begun', Contracted'
  PROVE  IInv'
<1>1. /\ admitted' = {} /\ seen' = {} /\ applicable' = {} /\ reuse' = {} /\ supplemental' = {}
      /\ rejections' = {} /\ next' = 1 /\ commits' = commits /\ head' = head /\ work' = work /\ clock' = clock
      /\ reads' = reads /\ report' = NoReport
  BY DEF Starting, Untouched, repo, env, IInv, TypeOK, Early
<1>2. ReadStates' = ReadStates
  BY <1>1 DEF ReadStates
<1>3. Len(data'.records) \in Nat
  BY DEF Parsed
<1>4. TypeOK'
  BY <1>1, <1>2, <1>3 DEF IInv, TypeOK
<1>5. Judged'
  BY <1>1 DEF Judged
<1>6. Weighed' /\ Rechecked' /\ Qualified' /\ Held' /\ Reported'
  BY <1>1 DEF Weighed, Rechecked, Qualified, Held, Reported
<1> QED BY <1>1, <1>4, <1>5, <1>6 DEF IInv

LEMMA BindKeeps ==
  ASSUME IInv, BindSubject
  PROVE  IInv'
<1>1. /\ pc = "idle" /\ pc' = "bound" /\ subject' = head
      /\ UNCHANGED <<repo, env, contract, started, now, evidence, report>>
  BY DEF BindSubject
<1>2. Untouched
  BY <1>1 DEF IInv, Begun, Early
<1>3. Starting
  BY <1>1, <1>2 DEF Starting, Early, Untouched, evidence
<1>4. Begun' /\ Contracted'
  BY <1>1, <1>3 DEF Starting, Begun, Contracted, Early, Final
<1>5. /\ subject' \in DOMAIN commits /\ contract' \in Contracts /\ started' \in Nat /\ now' \in Nat
      /\ Parsed(data')
  BY <1>1 DEF evidence, IInv, TypeOK
<1> QED BY <1>1, <1>3, <1>4, <1>5, StartingKeeps DEF Steps

LEMMA ReadContractKeeps ==
  ASSUME IInv, ReadContract
  PROVE  IInv'
<1>1. /\ pc = "bound" /\ contract' = work.contract
      /\ \/ ContractValid(work.contract) /\ pc' = "checked"
         \/ pc' = "report" /\ errors' = {"contract"}
      /\ UNCHANGED <<repo, env, subject, started, now, data, next, seen, admitted, applicable, reuse,
                     supplemental, rejections, reads, report, touched>>
  BY DEF ReadContract
<1>2. Untouched
  BY <1>1 DEF IInv, Begun, Early
<1>3. Starting
  BY <1>1, <1>2 DEF Starting, Early, Untouched
<1>4. Begun' /\ Contracted'
  BY <1>1, <1>3 DEF Starting, Begun, Contracted, Early, Final
<1>5. /\ subject' \in DOMAIN commits /\ started' \in Nat /\ now' \in Nat /\ Parsed(data')
  BY <1>1 DEF IInv, TypeOK
<1>6. contract' \in Contracts
  BY <1>1 DEF IInv, TypeOK, Trees
<1> QED BY <1>1, <1>3, <1>4, <1>5, <1>6, StartingKeeps DEF Steps, Checked, Final

LEMMA AskKeeps ==
  ASSUME IInv, AskObserver
  PROVE  IInv'
<1>1. pc = "checked" /\ UNCHANGED <<repo, env>>
  BY DEF AskObserver
<1>2. CASE Fail /\ UNCHANGED touched
  BY <1>1, <1>2, FailKeeps
<1>3. CASE /\ AtSubject
           /\ started' = clock /\ touched' = FALSE /\ pc' = "observing"
           /\ UNCHANGED <<subject, contract, now, evidence, anchors, report>>
  <2>1. Untouched
    BY <1>1 DEF IInv, Begun, Early
  <2>2. Starting
    BY <1>1, <1>3, <2>1 DEF Starting, Early, Untouched, evidence
  <2>3. work'.files = commits'[subject'].files
    BY <1>1, <1>3 DEF AtSubject, Tree, repo
  <2>4. Begun' /\ Contracted'
    BY <1>1, <1>3, <2>2, <2>3 DEF Starting, Begun, Contracted, Early, Final, IInv
  <2>5. /\ subject' \in DOMAIN commits /\ contract' \in Contracts /\ started' \in Nat /\ now' \in Nat
        /\ Parsed(data')
    BY <1>3 DEF evidence, IInv, TypeOK
  <2> QED BY <1>3, <2>2, <2>4, <2>5, StartingKeeps DEF Steps
<1> QED BY <1>2, <1>3 DEF AskObserver

LEMMA ObserveKeeps ==
  ASSUME IInv, NEW e, Observe(e)
  PROVE  IInv'
<1>1. pc = "observing" /\ Parsed(e) /\ UNCHANGED <<repo, env, touched>>
  BY DEF Observe
<1>2. CASE Fail
  BY <1>1, <1>2, FailKeeps
<1>3. CASE /\ data' = e /\ now' = clock /\ pc' = "records"
           /\ UNCHANGED <<subject, contract, started, next, seen, admitted, applicable, reuse, supplemental,
                          rejections, errors, reads, report>>
  <2>1. Untouched
    BY <1>1 DEF IInv, Begun, Early
  <2>2. Starting
    BY <1>1, <1>3, <2>1 DEF Starting, Early, Untouched
  <2>3. Begun' /\ Contracted'
    BY <1>1, <1>3, <2>2 DEF Starting, Begun, Contracted, Early, Final, IInv, repo
  <2>4. /\ subject' \in DOMAIN commits /\ contract' \in Contracts /\ started' \in Nat /\ now' \in Nat
        /\ Parsed(data')
    BY <1>1, <1>3 DEF IInv, TypeOK
  <2> QED BY <1>3, <2>2, <2>3, <2>4, StartingKeeps DEF Steps
<1> QED BY <1>2, <1>3 DEF Observe

LEMMA ObserverFailsKeeps ==
  ASSUME IInv, ObserverFails
  PROVE  IInv'
  BY FailKeeps DEF ObserverFails

LEMMA PassKeeps ==
  ASSUME IInv, ReadCriteria \/ CheckSubject \/ CheckClean
  PROVE  IInv'
<1>1. CASE ReadCriteria
  BY <1>1, PassingKeeps DEF ReadCriteria, Passing
<1>2. CASE CheckSubject
  <2>1. \/ Fail /\ UNCHANGED <<repo, env, touched>> /\ pc = "subject"
        \/ Passing
    BY <1>2 DEF CheckSubject, Passing
  <2> QED BY <2>1, FailKeeps, PassingKeeps
<1>3. CASE CheckClean
  <2>1. \/ Fail /\ UNCHANGED <<repo, env, touched>> /\ pc = "clean"
        \/ Passing
    BY <1>3 DEF CheckClean, Passing
  <2> QED BY <2>1, FailKeeps, PassingKeeps
<1> QED BY <1>1, <1>2, <1>3

(* What the environment may do at a step: the history grows, and nothing a  *)
(* record was compared with changes unseen.                                 *)
Surrounding ==
    /\ UNCHANGED others /\ pc \in Steps \ Final
    /\ commits' \in Seq(Commits) /\ Len(commits) <= Len(commits')
    /\ \A n \in DOMAIN commits : commits'[n] = commits[n]
    /\ head' \in DOMAIN commits' /\ work' \in Trees /\ clock' \in Nat
    /\ touched => touched'
    /\ touched' \/ work' = work
    /\ pc \in Checked => world' = world

LEMMA SupportsKept ==
  ASSUME NEW r, NEW k, NEW d, NEW sub, NEW app, NEW cs, NEW ds, NEW moved, NEW later,
         Supports(r, k, d, sub, app, cs, moved), \A n \in 1..sub : ds[n] = cs[n], sub \in Nat,
         moved => later
  PROVE  Supports(r, k, d, sub, app, ds, later)
<1>1. r.revision \in 1..sub
  BY DEF Supports
<1>2. ds[r.revision] = cs[r.revision] /\ ds[sub] = cs[sub]
  BY <1>1
<1>3. Same(k.cases[r.case], r.revision, sub, cs, moved) => Same(k.cases[r.case], r.revision, sub, ds, later)
  BY <1>2 DEF Same
<1>4. Argued(r, k.cases[r.case], d.materials[r.case], sub, cs)
        => Argued(r, k.cases[r.case], d.materials[r.case], sub, ds)
  BY <1>2 DEF Argued
<1> QED BY <1>3, <1>4 DEF Supports

LEMMA SurroundingKeeps ==
  ASSUME IInv, Surrounding
  PROVE  IInv'
<1>1. /\ pc' = pc /\ subject' = subject /\ contract' = contract /\ started' = started /\ now' = now
      /\ data' = data /\ next' = next /\ seen' = seen /\ admitted' = admitted /\ applicable' = applicable
      /\ reuse' = reuse /\ supplemental' = supplemental /\ rejections' = rejections /\ errors' = errors
      /\ reads' = reads /\ report' = report
  BY DEF Surrounding, others
<1>2. DOMAIN commits = 1..Len(commits) /\ DOMAIN commits' = 1..Len(commits') /\ Len(commits) \in Nat
      /\ Len(commits') \in Nat
  BY DEF Surrounding, IInv, TypeOK
<1>3. DOMAIN commits \subseteq DOMAIN commits'
  BY <1>2 DEF Surrounding
<1>4. reads' \in ReadStates'
  <2>1. reads \in ReadStates
    BY DEF IInv, TypeOK
  <2> QED BY <1>1, <1>3, <2>1 DEF ReadStates
<1>5. TypeOK'
  <2>1. TypeOK
    BY DEF IInv
  <2>2. subject' \in DOMAIN commits'
    BY <1>1, <1>3, <2>1 DEF TypeOK
  <2> QED BY <1>1, <1>4, <2>1, <2>2 DEF TypeOK, Surrounding
<1>6. Begun'
  <2>1. subject \in DOMAIN commits
    BY DEF IInv, TypeOK
  <2>2. commits'[subject'] = commits[subject]
    BY <1>1, <2>1 DEF Surrounding
  <2>3. ~touched' => ~touched /\ work' = work
    BY DEF Surrounding
  <2>4. pc' \in Early => Untouched'
    BY <1>1 DEF IInv, Begun, Untouched
  <2>5. pc' \in {"observing", "records"} /\ ~touched' => work'.files = commits'[subject'].files
    BY <1>1, <2>2, <2>3 DEF IInv, Begun
  <2> QED BY <2>4, <2>5 DEF Begun
<1>7. Judged'
  <2>1. subject \in Nat /\ \A n \in 1..subject : commits'[n] = commits[n]
    BY <1>2 DEF Surrounding, IInv, TypeOK
  <2>2. touched => touched'
    BY DEF Surrounding
  <2>3. \A i \in admitted : \E n \in 1..next - 1 :
            /\ OnlyRecord(n, i, data.records, next - 1)
            /\ Supports(data.records[n], contract, data, subject, applicable, commits', touched')
    <3> SUFFICES ASSUME NEW i \in admitted
                 PROVE  \E n \in 1..next - 1 :
                          /\ OnlyRecord(n, i, data.records, next - 1)
                          /\ Supports(data.records[n], contract, data, subject, applicable, commits', touched')
      OBVIOUS
    <3>1. PICK n \in 1..next - 1 :
            /\ OnlyRecord(n, i, data.records, next - 1)
            /\ Supports(data.records[n], contract, data, subject, applicable, commits, touched)
      BY DEF IInv, Judged
    <3>2. Supports(data.records[n], contract, data, subject, applicable, commits', touched')
      BY <2>1, <2>2, <3>1, SupportsKept
    <3> QED BY <3>1, <3>2
  <2> QED BY <1>1, <2>3 DEF IInv, Judged
<1>8. Weighed'
  BY <1>1, WeighedShrinks DEF IInv
<1>9. Rechecked'
  BY <1>1 DEF IInv, Rechecked, Surrounding
<1>10. Contracted'
  BY <1>1 DEF IInv, Contracted
<1>11. Qualified' /\ Held' /\ Reported'
  BY <1>1 DEF Qualified, Held, Reported, Surrounding, Final
<1> QED BY <1>1, <1>5, <1>6, <1>7, <1>8, <1>9, <1>10, <1>11 DEF IInv

LEMMA TreeTyped ==
  ASSUME NEW c \in Commits
  PROVE  Tree(c) \in Trees
  BY DEF Tree, Trees, Commits

LEMMA WorkSteps == RepoRead \cup {"observing", "recheck"} \subseteq Steps \ Final
  BY DEF RepoRead, Steps, Checked, Final

LEMMA CommitKeeps ==
  ASSUME IInv, Commit
  PROVE  IInv'
<1>1. /\ pc \in RepoRead /\ head' = Len(commits) + 1 /\ work' = Tree(commits'[head'])
      /\ touched' = TRUE /\ UNCHANGED <<env, others>>
  BY DEF Commit
<1>2. PICK c \in Candidates : commits' = Append(commits, [c EXCEPT !.time = clock])
  BY DEF Commit
<1>3. commits \in Seq(Commits) /\ clock \in Nat
  BY DEF IInv, TypeOK
<1>4. [c EXCEPT !.time = clock] \in Commits
  <2>1. c \in Commits
    BY HistoryAssumption
  <2> QED BY <1>3, <2>1 DEF Commits
<1>5. /\ commits' \in Seq(Commits) /\ Len(commits') = Len(commits) + 1 /\ Len(commits) \in Nat
      /\ \A n \in DOMAIN commits : commits'[n] = commits[n]
  BY <1>2, <1>3, <1>4
<1>6. head' \in DOMAIN commits' /\ commits'[head'] \in Commits
  BY <1>1, <1>5
<1>7. Surrounding
  BY <1>1, <1>3, <1>5, <1>6, TreeTyped, WorkSteps DEF Surrounding, env
<1> QED BY <1>7, SurroundingKeeps

LEMMA EditKeeps ==
  ASSUME IInv, Edit
  PROVE  IInv'
<1>1. /\ pc \in RepoRead /\ touched' = TRUE /\ UNCHANGED <<commits, env, others>>
  BY DEF Edit
<1>2. PICK i \in DOMAIN commits : work' = Tree(commits[i]) /\ head' \in {head, i}
  BY DEF Edit
<1>3. commits \in Seq(Commits) /\ clock \in Nat /\ head \in DOMAIN commits
  BY DEF IInv, TypeOK
<1>4. work' \in Trees /\ head' \in DOMAIN commits
  BY <1>2, <1>3, TreeTyped
<1>5. Surrounding
  BY <1>1, <1>3, <1>4, WorkSteps DEF Surrounding, env
<1> QED BY <1>5, SurroundingKeeps

LEMMA TickKeeps ==
  ASSUME IInv, Tick
  PROVE  IInv'
<1>1. /\ pc \in {"observing", "qualify"} /\ clock' = clock + 1 /\ UNCHANGED <<repo, world, touched, others>>
  BY DEF Tick
<1>2. /\ commits \in Seq(Commits) /\ clock \in Nat /\ head \in DOMAIN commits /\ work \in Trees
      /\ Len(commits) \in Nat
  BY DEF IInv, TypeOK
<1>3. pc \in Steps \ Final
  BY <1>1 DEF Steps, Checked, Final
<1>4. Surrounding
  BY <1>1, <1>2, <1>3 DEF Surrounding, repo
<1> QED BY <1>4, SurroundingKeeps

LEMMA DriftKeeps ==
  ASSUME IInv, Drift
  PROVE  IInv'
<1>1. /\ pc \in {"observing", "recheck"} /\ UNCHANGED <<repo, clock, touched, others>>
  BY DEF Drift
<1>2. /\ commits \in Seq(Commits) /\ clock \in Nat /\ head \in DOMAIN commits /\ work \in Trees
      /\ Len(commits) \in Nat
  BY DEF IInv, TypeOK
<1>3. pc \in Steps \ Final /\ pc \notin Checked
  BY <1>1 DEF Steps, Checked, Final
<1>4. Surrounding
  BY <1>1, <1>2, <1>3 DEF Surrounding, repo
<1> QED BY <1>4, SurroundingKeeps

LEMMA StutterKeeps ==
  ASSUME IInv, UNCHANGED vars
  PROVE  IInv'
<1>1. UNCHANGED <<commits, head, work, clock, world, pc, subject, contract, started, now, data, next, seen,
                  admitted, applicable, reuse, supplemental, rejections, errors, reads, report, touched>>
  BY DEF vars, repo, env, evidence
<1>2. ReadStates' = ReadStates
  BY <1>1 DEF ReadStates
<1>3. TypeOK'
  BY <1>1, <1>2 DEF IInv, TypeOK
<1>4. Begun'
  BY <1>1 DEF IInv, Begun, Untouched
<1>5. Judged' /\ Weighed'
  BY <1>1 DEF IInv, Judged, Weighed
<1>6. Rechecked' /\ Contracted' /\ Qualified' /\ Held' /\ Reported'
  BY <1>1 DEF IInv, Rechecked, Contracted, Qualified, Held, Reported
<1> QED BY <1>1, <1>3, <1>4, <1>5, <1>6 DEF IInv

LEMMA InitHolds ==
  ASSUME Init
  PROVE  IInv
<1>1. PICK h \in Histories : commits = h
  BY DEF Init
<1>2. h \in Seq(Commits) /\ h # <<>>
  BY <1>1, HistoryAssumption
<1>3. /\ head = Len(h) /\ work = Tree(h[head]) /\ clock = InitTime /\ pc = "idle" /\ subject = head
      /\ contract = h[head].contract /\ started = 0 /\ now = 0
      /\ data = [records |-> <<>>, materials |-> <<>>, witnesses |-> <<>>, review |-> [subject |-> 0]]
      /\ next = 1 /\ seen = {} /\ admitted = {} /\ applicable = {} /\ reuse = {} /\ supplemental = {}
      /\ rejections = {} /\ reads = NoReads /\ report = NoReport
  BY <1>1 DEF Init
<1>4. head \in DOMAIN h /\ h[head] \in Commits
  BY <1>2, <1>3
<1>5. work \in Trees
  BY <1>3, <1>4, TreeTyped
<1>6. contract \in Contracts
  <2> DEFINE declared(g) == {g[n].contract : n \in DOMAIN g}
  <2>1. contract \in declared(h)
    BY <1>3, <1>4
  <2>2. declared(h) \in {declared(g) : g \in Histories}
    OBVIOUS
  <2>3. Contracts = UNION {declared(g) : g \in Histories} \cup {c.contract : c \in Candidates}
    BY DEF Contracts
  <2> HIDE DEF declared
  <2> QED BY <2>1, <2>2, <2>3
<1>7. Parsed(data)
  <2>1. data.records = <<>> /\ data.materials = <<>> /\ data.witnesses = <<>>
    BY <1>3
  <2>2. \A S : <<>> \in Seq(S)
    OBVIOUS
  <2>3. DOMAIN <<>> = {}
    OBVIOUS
  <2> QED BY <2>1, <2>2, <2>3 DEF Parsed
<1>8. reads \in ReadStates
  <2>1. 0 \in 0..CallBound /\ 0 \in 0..FileBound /\ 0 \in 0..ByteBound
    BY Bounds
  <2> QED BY <1>3, <2>1 DEF NoReads, ReadStates
<1>9. TypeOK
  <2>1. clock \in Nat /\ next \in 1..Len(data.records) + 1
    <3>1. Len(data.records) = 0
      BY <1>3
    <3> QED BY <1>3, <3>1, Bounds
  <2> QED BY <1>1, <1>2, <1>3, <1>4, <1>5, <1>6, <1>7, <1>8, <2>1 DEF TypeOK
<1>10. Begun
  BY <1>3 DEF Begun, Untouched
<1>11. Judged /\ Weighed
  BY <1>3 DEF Judged, Weighed
<1>12. Rechecked /\ Contracted /\ Qualified /\ Held /\ Reported
  BY <1>3 DEF Rechecked, Contracted, Qualified, Held, Reported, Checked, Final
<1> QED BY <1>3, <1>9, <1>10, <1>11, <1>12 DEF IInv, Steps

LEMMA StepKeeps ==
  ASSUME IInv, [Next]_vars
  PROVE  IInv'
<1>1. CASE BindSubject
  BY <1>1, BindKeeps
<1>2. CASE ReadContract
  BY <1>2, ReadContractKeeps
<1>3. CASE AskObserver
  BY <1>3, AskKeeps
<1>4. CASE \E o \in Observers : Observe(Answer(o, commits, [subject |-> subject, clock |-> clock], world))
  BY <1>4, ObserveKeeps
<1>5. CASE NextRecord
  BY <1>5, RecordKeeps
<1>6. CASE JudgeWitness
  BY <1>6, WitnessKeeps
<1>7. CASE Recheck
  BY <1>7, RecheckKeeps
<1>8. CASE ObserverFails
  BY <1>8, ObserverFailsKeeps
<1>9. CASE ReadCriteria \/ CheckSubject \/ CheckClean
  BY <1>9, PassKeeps
<1>10. CASE Qualify
  BY <1>10, QualifyKeeps
<1>11. CASE HoldPending
  BY <1>11, HoldKeeps
<1>12. CASE Report
  BY <1>12, ReportKeeps
<1>13. CASE Commit
  BY <1>13, CommitKeeps
<1>14. CASE Edit
  BY <1>14, EditKeeps
<1>15. CASE Tick
  BY <1>15, TickKeeps
<1>16. CASE Drift
  BY <1>16, DriftKeeps
<1>17. CASE UNCHANGED vars
  BY <1>17, StutterKeeps
<1> QED
  BY <1>1, <1>2, <1>3, <1>4, <1>5, <1>6, <1>7, <1>8, <1>9, <1>10, <1>11, <1>12, <1>13, <1>14, <1>15,
     <1>16, <1>17 DEF Next

-----------------------------------------------------------------------------
(* What an assessment keeps, for every history, policy, observer and bound. *)

LEMMA InvariantHolds == Spec => []IInv
<1>1. Init => IInv
  BY InitHolds
<1>2. IInv /\ [Next]_vars => IInv'
  BY StepKeeps
<1> QED BY <1>1, <1>2, PTL DEF Spec

(* Types: reads stay inside the assessment's bounds whatever is judged, in  *)
(* whatever order, nothing is both admitted and rejected, and there is no   *)
(* report before the end.                                                   *)
THEOREM TypeCorrect == Spec => []TypeOK
<1>1. IInv => TypeOK
  BY DEF IInv
<1> QED BY <1>1, InvariantHolds, PTL

LEMMA ReviewedFor ==
  ASSUME IInv, NEW bundle, Dated(bundle), ReviewFresh(bundle, clock), NEW n \in DOMAIN bundle.reviews
  PROVE  bundle.reviews[n].at + ReviewMaxAge >= clock
<1>1. bundle.reviews[n].at \in Nat /\ clock \in Nat /\ ReviewMaxAge \in Nat
  BY Bounds DEF Dated, IInv, TypeOK
<1>2. bundle.reviews[n].at <= clock /\ clock - bundle.reviews[n].at <= ReviewMaxAge
  BY DEF ReviewFresh, Fresh
<1> QED BY <1>1, <1>2

(* An accepted case rests on the one record that supports it.               *)
LEMMA AcceptedOwn ==
  ASSUME IInv, pc = "done", NEW i \in admitted
  PROVE  \E n \in DOMAIN data.records :
           /\ {k \in DOMAIN data.records : data.records[k].case = i} = {n}
           /\ Supports(data.records[n], contract, data, subject, applicable, commits, touched)
<1>1. next = Len(data.records) + 1
  BY DEF IInv, Judged
<1>2. Len(data.records) \in Nat /\ DOMAIN data.records = 1..Len(data.records)
  BY DEF IInv, TypeOK, Parsed
<1>3. 1..next - 1 = DOMAIN data.records
  BY <1>1, <1>2
<1>4. PICK n \in DOMAIN data.records :
        /\ OnlyRecord(n, i, data.records, next - 1)
        /\ Supports(data.records[n], contract, data, subject, applicable, commits, touched)
  BY <1>3 DEF IInv, Judged
<1>5. {k \in DOMAIN data.records : data.records[k].case = i} = {n}
  BY <1>3, <1>4 DEF OnlyRecord
<1> QED BY <1>4, <1>5

LEMMA AcceptedStands ==
  ASSUME IInv
  PROVE  AcceptedOnCurrentSource
<1>1. SUFFICES ASSUME pc = "done"
               PROVE  AcceptedOnCurrentSource
  BY DEF AcceptedOnCurrentSource
<1>2. report.accepted = admitted /\ report.supplemental = supplemental
  BY <1>1 DEF IInv, Reported
<1>3. report.supplemental # {} => errors = {}
  BY <1>1, <1>2 DEF IInv, Qualified, Final
<1>4. ASSUME NEW i \in report.accepted
      PROVE  LET own == {n \in DOMAIN data.records : data.records[n].case = i}
                 r == data.records[CHOOSE n \in own : TRUE]
                 c == contract.cases[i]
                 old == commits[r.revision].files
                 new == commits[subject].files
                 needed == IF c.files = {} THEN Package ELSE c.files
             IN  /\ Cardinality(own) = 1
                 /\ \A x \in DOMAIN c.expected :
                        r.facts[x].episode = r.episode /\ r.facts[x].value = c.expected[x]
                 /\ world.sandbox = c.conditions.sandbox
                 /\ clock - started < c.maxAge
                 /\ \/ /\ \A f \in needed : old[f].text = new[f].text
                       /\ \A f \in needed : old[f].mode = new[f].mode \/ (c.files = {} /\ touched)
                       /\ \A f \in c.oracle \ ReviewFiles : old[f] = new[f] \/ touched
                    \/ /\ i \in DOMAIN data.materials /\ errors = {}
                       /\ LET m == data.materials[i]
                          IN  /\ \A f \in Package \cup c.oracle : old[f] # new[f] => f \in DOMAIN m.delta
                              /\ m.context = world.context
                              /\ \A n \in DOMAIN m.review.reviews :
                                  LET v == m.review.reviews[n]
                                  IN  v.passed /\ v.at >= commits[subject].time /\ v.at + ReviewMaxAge >= clock
  <2> DEFINE own == {n \in DOMAIN data.records : data.records[n].case = i}
             r == data.records[CHOOSE n \in own : TRUE]
             c == contract.cases[i]
             old == commits[r.revision].files
             new == commits[subject].files
             needed == IF c.files = {} THEN Package ELSE c.files
  <2>1. i \in admitted /\ i \in DOMAIN contract.cases
    BY <1>2, <1>4 DEF IInv, TypeOK
  <2>2. PICK n \in DOMAIN data.records :
          /\ own = {n}
          /\ Supports(data.records[n], contract, data, subject, applicable, commits, touched)
    BY <1>1, <2>1, AcceptedOwn
  <2>3. Cardinality(own) = 1
    BY <2>2, FS_Singleton
  <2>4. r = data.records[n] /\ r.case = i
    <3>1. data.records[n].case = i
      BY <2>2
    <3>2. (CHOOSE k \in {n} : TRUE) = n
      OBVIOUS
    <3> HIDE DEF own
    <3> QED BY <2>2, <3>1, <3>2 DEF r
  <2>5. Supports(r, contract, data, subject, applicable, commits, touched)
    BY <2>2, <2>4
  <2>6. \A x \in DOMAIN c.expected : r.facts[x].episode = r.episode /\ r.facts[x].value = c.expected[x]
    <3> HIDE DEF r
    <3> QED BY <2>4, <2>5 DEF Supports
  <2>7. world.sandbox = c.conditions.sandbox
    BY <1>1, <2>1 DEF IInv, Rechecked, Checked, Final
  <2>8. clock - started < c.maxAge
    BY <1>1, <2>1 DEF IInv, Qualified, Final
  <2>9. CASE i \notin applicable
    <3>1. Same(c, r.revision, subject, commits, touched)
      <4> HIDE DEF r
      <4> QED BY <2>4, <2>5, <2>9 DEF Supports
    <3>2. /\ \A f \in needed : old[f].text = new[f].text
          /\ \A f \in needed : old[f].mode = new[f].mode \/ (c.files = {} /\ touched)
          /\ \A f \in c.oracle \ ReviewFiles : old[f] = new[f] \/ touched
      <4> HIDE DEF r
      <4> QED BY <3>1 DEF Same
    <3> HIDE DEF r, own, c, old, new, needed
    <3> QED BY <2>3, <2>6, <2>7, <2>8, <3>2 DEF r, own, c, old, new, needed
  <2>10. CASE i \in applicable
    <3>1. Argued(r, c, data.materials[i], subject, commits)
      <4> HIDE DEF r
      <4> QED BY <2>4, <2>5, <2>10 DEF Supports
    <3>2. i \in DOMAIN data.materials
      BY <2>10 DEF IInv, TypeOK
    <3>3. errors = {} /\ ReviewFresh(data.materials[i].review, clock)
      BY <1>1, <2>1, <2>10 DEF IInv, Qualified, Final
    <3>4. data.materials[i].context = world.context
      BY <1>1, <2>1, <2>10 DEF IInv, Rechecked, Checked, Final
    <3>5. Dated(data.materials[i].review)
      BY <3>2 DEF IInv, TypeOK, Parsed
    <3>6. \A k \in DOMAIN data.materials[i].review.reviews :
            LET v == data.materials[i].review.reviews[k]
            IN  v.passed /\ v.at >= commits[subject].time /\ v.at + ReviewMaxAge >= clock
      <4> HIDE DEF r
      <4> QED BY <3>1, <3>3, <3>5, ReviewedFor DEF Argued
    <3>7. \A f \in Package \cup c.oracle : old[f] # new[f] => f \in DOMAIN data.materials[i].delta
      <4> HIDE DEF r
      <4> QED BY <3>1 DEF Argued
    <3> HIDE DEF r, own, c, old, new, needed
    <3> QED BY <2>3, <2>6, <2>7, <2>8, <3>2, <3>3, <3>4, <3>6, <3>7 DEF r, own, c, old, new, needed
  <2> QED BY <2>9, <2>10
<1> QED BY <1>1, <1>3, <1>4 DEF AcceptedOnCurrentSource

(* An accepted case rests on one record that saw its consequences, under    *)
(* conditions that still held at the second observation, over source that   *)
(* is the subject's or argued for by a fresh independent review.            *)
THEOREM AcceptedOnSource == Spec => []AcceptedOnCurrentSource
<1>1. IInv => AcceptedOnCurrentSource
  BY AcceptedStands
<1> QED BY <1>1, InvariantHolds, PTL

(* A contract covered whole has no gap in what its cases bind.              *)
LEMMA WholeBinds ==
  ASSUME Whole(contract, data, applicable, supplemental)
  PROVE  CaseBindingGaps = {}
<1>1. SUFFICES ASSUME NEW s \in Scopes, NEW l \in Claims, s \in Bound(l)
               PROVE  /\ UNION {contract.cases[i].duties : i \in Relevant(s, l)} = Policy.scopes[s].duties
                      /\ (l = "function" /\ s \in JointScopes)
                           => \E i \in Relevant(s, l) : Policy.scopes[s].duties \subseteq contract.cases[i].duties
  <2>1. \A s \in Scopes : \A l \in Claims : ~Unbindable(s, l)
    BY <1>1 DEF Unbindable
  <2>2. \A gap \in Scopes \X Claims : gap[1] \in Scopes /\ gap[2] \in Claims
    OBVIOUS
  <2> QED BY <2>1, <2>2 DEF CaseBindingGaps
<1>2. s \in Policy.required[l]
  BY <1>1 DEF Bound
<1>3. \A i \in Relevant(s, l) : contract.cases[i].duties \subseteq Policy.scopes[s].duties
  BY DEF Whole, ContractValid, CaseValid, Relevant
<1>4. \A x \in Policy.scopes[s].duties : \E i \in Relevant(s, l) : x \in contract.cases[i].duties
  BY <1>2, RelevantCovers DEF Whole
<1>5. UNION {contract.cases[i].duties : i \in Relevant(s, l)} = Policy.scopes[s].duties
  BY <1>3, <1>4
<1>6. ASSUME l = "function", s \in JointScopes
      PROVE  \E i \in Relevant(s, l) : Policy.scopes[s].duties \subseteq contract.cases[i].duties
  BY <1>6, RelevantCovers DEF Whole
<1> QED BY <1>5, <1>6

LEMMA EligibleStands ==
  ASSUME IInv
  PROVE  EligibleIsComplete
<1>1. SUFFICES ASSUME pc = "done", report.eligible
               PROVE  EligibleIsComplete
  BY DEF EligibleIsComplete
<1>2. /\ report.accepted = admitted /\ report.supplemental = supplemental
      /\ admitted = DOMAIN contract.cases /\ report.met = Requirements /\ report.functional
      /\ Whole(contract, data, applicable, supplemental)
  BY <1>1 DEF IInv, Reported
<1>3. CaseBindingGaps = {} /\ SelectionFinal(contract.selection)
  BY <1>2, WholeBinds DEF Whole
<1>4. ASSUME NEW s \in JointScopes
      PROVE  \E i \in report.accepted :
               contract.cases[i].scope = s /\ contract.cases[i].duties = Policy.scopes[s].duties
  <2>1. PICK i \in Covering(contract, s, "function") : Policy.scopes[s].duties \subseteq contract.cases[i].duties
    BY <1>2 DEF Whole
  <2>2. i \in DOMAIN contract.cases /\ contract.cases[i].scope = s
    BY DEF Covering
  <2>3. contract.cases[i].duties \subseteq Policy.scopes[s].duties
    BY <1>2, <2>2 DEF Whole, ContractValid, CaseValid
  <2>4. contract.cases[i].duties = Policy.scopes[s].duties
    BY <2>1, <2>3
  <2> QED BY <1>2, <2>2, <2>4
<1>5. \A i, j \in report.supplemental : i # j => Apart(data.witnesses[i], data.witnesses[j])
  BY <1>2 DEF IInv, Weighed
<1>6. ASSUME NEW o \in Obligations
      PROVE  \/ \E i \in report.accepted :
                 /\ contract.cases[i].scope = o.scope
                 /\ \E n \in DOMAIN data.records :
                     /\ data.records[n].case = i
                     /\ (o.leaf \in DOMAIN data.records[n].facts /\ data.records[n].facts[o.leaf].value)
                          \/ (i \in DOMAIN data.materials
                                 /\ \E d \in data.materials[i].derived :
                                         d.obligation = o.id /\ d.episode = data.records[n].episode)
             \/ \E i \in report.supplemental :
                 LET w == data.witnesses[i]
                 IN  /\ o.id \in w.obligations
                     /\ \A n \in DOMAIN w.review.reviews :
                         w.review.reviews[n].at >= Last(w.chain).at /\ w.review.reviews[n].at + ReviewMaxAge >= clock
  <2>1. CASE \E i \in DOMAIN contract.cases : Shown(o, contract, data, applicable, i)
    <3>1. PICK i \in admitted : Shown(o, contract, data, applicable, i)
      BY <1>2, <2>1
    <3>2. PICK n \in DOMAIN data.records :
            /\ {k \in DOMAIN data.records : data.records[k].case = i} = {n}
            /\ Supports(data.records[n], contract, data, subject, applicable, commits, touched)
      BY <1>1, AcceptedOwn
    <3>3. data.records[n].case = i
      BY <3>2
    <3>4. CASE o.leaf \in DOMAIN contract.cases[i].expected /\ contract.cases[i].expected[o.leaf]
      <4>1. /\ DOMAIN data.records[n].facts = DOMAIN contract.cases[i].expected
            /\ data.records[n].facts[o.leaf].value = contract.cases[i].expected[o.leaf]
        BY <3>2, <3>3, <3>4 DEF Supports
      <4>2. o.leaf \in DOMAIN data.records[n].facts
        BY <3>4, <4>1
      <4>3. data.records[n].facts[o.leaf].value
        BY <3>4, <4>1
      <4> QED BY <1>2, <3>1, <3>3, <4>2, <4>3 DEF Shown
    <3>5. CASE i \in applicable /\ \E d \in data.materials[i].derived : d.obligation = o.id
      <4>1. i \in DOMAIN data.materials
        BY <3>5 DEF IInv, TypeOK
      <4>2. \A d \in data.materials[i].derived : d.episode = data.records[n].episode
        BY <3>2, <3>3, <3>5 DEF Supports, Argued
      <4> QED BY <1>2, <3>1, <3>3, <3>5, <4>1, <4>2 DEF Shown
    <3> QED BY <3>1, <3>4, <3>5 DEF Shown
  <2>2. CASE \E w \in supplemental : o.id \in data.witnesses[w].obligations
    <3>1. PICK i \in supplemental : o.id \in data.witnesses[i].obligations
      BY <2>2
    <3>2. i \in DOMAIN data.witnesses /\ Reviewed(data.witnesses[i])
      BY DEF IInv, Weighed
    <3>3. ReviewFresh(data.witnesses[i].review, clock)
      BY <1>1 DEF IInv, Qualified, Final
    <3>4. Dated(data.witnesses[i].review)
      BY <3>2 DEF IInv, TypeOK, Parsed
    <3> QED BY <1>2, <3>1, <3>2, <3>3, <3>4, ReviewedFor DEF Reviewed
  <2> QED BY <1>2, <2>1, <2>2 DEF Whole
<1> QED BY <1>1, <1>2, <1>3, <1>4, <1>5, <1>6 DEF EligibleIsComplete, Apart

(* Eligible means complete: every requirement met by accepted cases under a *)
(* final selection, and no operation counted for two obligations.           *)
THEOREM EligibleComplete == Spec => []EligibleIsComplete
<1>1. IInv => EligibleIsComplete
  BY EligibleStands
<1> QED BY <1>1, InvariantHolds, PTL
=============================================================================
