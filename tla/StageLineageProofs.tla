------------------------- MODULE StageLineageProofs -------------------------
(***************************************************************************)
(* What an accepting verdict says of the whole history, for every history, *)
(* edit and number of commits.                                             *)
(*                                                                         *)
(* The validator looks at the worktree and then goes back run by run.      *)
(* Chain states what that amounts to without any recursion: from the       *)
(* bootstrap on, every place where the node changes is linked to the start *)
(* of the run before it.  Chain is a relation of a history and a worktree  *)
(* alone, so that it is kept as long as they stay; the properties of the   *)
(* runs follow from it, and whatever is said of a node further back is     *)
(* found by taking the least commit where it could fail.                   *)
(***************************************************************************)
EXTENDS StageLineage, FiniteSetTheorems, WellFoundedInduction, TLAPS

(***************************************************************************)
(* Least numbers                                                           *)
(***************************************************************************)

\* The order of the numbers as a relation, for the library's theorem on least elements.
Below == {p \in Nat \X Nat : p[1] < p[2]}
\* The order of the numbers is well founded.
LEMMA BelowIsWellFounded == IsWellFoundedOn(Below, Nat)
  BY NatLessThanWellFounded DEF OpToRel, Below

\* A set of numbers that has an element has a least one.
LEMMA LeastNat ==
  ASSUME NEW T \in SUBSET Nat, T # {}
  PROVE  \E x \in T : \A y \in T : x <= y
<1>1. PICK x \in T : \A y \in T : ~ (<<y, x>> \in Below)
  BY BelowIsWellFounded, WFMin
<1>2. \A y \in T : x <= y
  <2> SUFFICES ASSUME NEW y \in T PROVE x <= y
    OBVIOUS
  <2>1. x \in Nat /\ y \in Nat
    OBVIOUS
  <2>2. <<y, x>> \in Nat \X Nat /\ <<y, x>>[1] = y /\ <<y, x>>[2] = x
    BY <2>1
  <2>3. ~ (y < x)
    BY <1>1, <2>2 DEF Below
  <2> QED BY <2>1, <2>3
<1> QED BY <1>2

(***************************************************************************)
(* Runs of equal nodes                                                     *)
(***************************************************************************)

\* Commit s is the oldest one of its run.
BeginsRun(s) == s = 1 \/ NodeAt(s - 1) # NodeAt(s)

\* Every commit belongs to a run, and RunStart finds the oldest commit of it.
LEMMA RunStartFacts ==
  ASSUME NEW i \in Nat, i > 0
  PROVE  /\ RunStart(i) \in 1..i
         /\ \A k \in RunStart(i)..i : NodeAt(k) = NodeAt(i)
         /\ RunStart(i) = 1 \/ NodeAt(RunStart(i) - 1) # NodeAt(i)
<1> DEFINE T == {j \in 1..i : \A k \in j..i : NodeAt(k) = NodeAt(i)}
<1>1. i \in T /\ T \in SUBSET Nat
  OBVIOUS
<1>2. PICK j \in T : \A y \in T : j <= y
  BY <1>1, LeastNat
<1>3. j = 1 \/ NodeAt(j - 1) # NodeAt(i)
  <2> SUFFICES ASSUME j # 1, NodeAt(j - 1) = NodeAt(i) PROVE FALSE
    OBVIOUS
  <2>1. j \in 1..i /\ j - 1 \in 1..i /\ ~(j <= j - 1)
    OBVIOUS
  <2>2. \A k \in (j - 1)..i : k = j - 1 \/ k \in j..i
    BY <2>1
  <2>3. j - 1 \in T
    BY <2>1, <2>2
  <2> QED BY <1>2, <2>1, <2>3
<1>4. \E x \in 1..i : /\ \A k \in x..i : NodeAt(k) = NodeAt(i)
                      /\ x = 1 \/ NodeAt(x - 1) # NodeAt(i)
  BY <1>3
<1> HIDE DEF T
<1> QED BY <1>4, Zenon DEF RunStart

\* There is only one such commit.
LEMMA RunStartIs ==
  ASSUME NEW e \in Nat, NEW s \in 1..e, BeginsRun(s),
         \A k \in s..e : NodeAt(k) = NodeAt(e)
  PROVE  RunStart(e) = s
<1>1. /\ RunStart(e) \in 1..e
      /\ \A k \in RunStart(e)..e : NodeAt(k) = NodeAt(e)
      /\ RunStart(e) = 1 \/ NodeAt(RunStart(e) - 1) # NodeAt(e)
  BY RunStartFacts
<1> DEFINE r == RunStart(e)
<1> HIDE DEF r
<1>2. ~(r < s)
  <2> SUFFICES ASSUME r < s PROVE FALSE
    OBVIOUS
  <2>1. s # 1 /\ s - 1 \in r..e /\ s \in s..e
    BY <1>1 DEF r
  <2> QED BY <2>1, <1>1 DEF r, BeginsRun
<1>3. ~(s < r)
  <2> SUFFICES ASSUME s < r PROVE FALSE
    OBVIOUS
  <2>1. r # 1 /\ r - 1 \in s..e
    BY <1>1 DEF r
  <2> QED BY <2>1, <1>1 DEF r
<1> QED BY <1>1, <1>2, <1>3 DEF r

\* The run of an oldest commit starts there.
LEMMA StartOfStart ==
  ASSUME NEW s \in Nat, s > 0, BeginsRun(s)
  PROVE  RunStart(s) = s
<1>1. s \in 1..s /\ \A k \in s..s : k = s
  OBVIOUS
<1> QED BY <1>1, RunStartIs

\* The oldest commit of a run is one, and has the node of the run.
LEMMA RunStartBegins ==
  ASSUME NEW e \in Nat, e > 0
  PROVE  /\ RunStart(e) \in 1..e /\ BeginsRun(RunStart(e))
         /\ NodeAt(RunStart(e)) = NodeAt(e)
<1>1. RunStart(e) \in 1..e /\ RunStart(e) \in RunStart(e)..e
  BY RunStartFacts
<1> QED BY <1>1, RunStartFacts DEF BeginsRun

\* Seen from the oldest commit of a run, the run before it ends right before.
LEMMA PriorOfStart ==
  ASSUME NEW s \in Nat, s > 0, BeginsRun(s)
  PROVE  /\ PriorEnd(NodeAt(s), s) = s - 1
         /\ PriorOrigin(NodeAt(s), s) =
              IF s - 1 > 0 /\ NodeAt(s - 1) # NoNode THEN RunStart(s - 1) ELSE 0
  BY StartOfStart DEF PriorEnd, PriorOrigin

\* What every schema requires of the oldest commit of a run: a known schema,
\* a node that was not there before, no hole, and, for all but a bootstrap,
\* the start of the run before it as reference.
LEMMA RunStandsFacts ==
  ASSUME NEW s \in Nat, s > 0, BeginsRun(s), NEW e, RunStands(s, e)
  PROVE  /\ NodeAt(s).schema \in {"v1", "v2", "v3"}
         /\ \A j \in 1..s - 1 : NodeAt(j) # NodeAt(s)
         /\ IsBootstrap(NodeAt(s)) => \A j \in 1..s - 1 : NodeAt(j) = NoNode
         /\ ~IsBootstrap(NodeAt(s)) =>
              /\ s > 1 /\ NodeAt(s - 1) # NoNode
              /\ NodeAt(s).pred = RunStart(s - 1)
<1> DEFINE n == NodeAt(s)
           o == PriorOrigin(n, s)
<1>1. /\ n.schema \in {"v1", "v2", "v3"}
      /\ ~Replayed(n, s)
      /\ IsBootstrap(n) => o = 0
      /\ ~IsBootstrap(n) => n.pred # 0 /\ n.pred = o
  BY DEF RunStands, V1RunStands, V2RunStands, V3RunStands, IsBootstrap
<1>2. /\ PriorEnd(n, s) = s - 1
      /\ o = IF s - 1 > 0 /\ NodeAt(s - 1) # NoNode THEN RunStart(s - 1) ELSE 0
  BY PriorOfStart
<1> HIDE DEF o
<1>3. /\ \A j \in 1..s - 1 : NodeAt(j) # n
      /\ o = 0 => \A j \in 1..s - 1 : NodeAt(j) = NoNode
  BY <1>1, <1>2 DEF Replayed, o
<1> QED BY <1>1, <1>2, <1>3

(***************************************************************************)
(* The lineage of a commit, without recursion                              *)
(***************************************************************************)

\* The body of RunsBack, with the function it refers to as a parameter.
Back(f, e) ==
    IF e = 0 \/ ~RunStands(RunStart(e), e) THEN MaxDepth + 1
    ELSE IF IsBootstrap(NodeAt(e)) THEN 1
    ELSE f[RunStart(e) - 1] + 1

\* There is a function that satisfies the recursion up to every commit: the
\* run before one ends at an earlier commit.
LEMMA RunsBackExists ==
  ASSUME Tip \in Nat
  PROVE  \E f : f = [e \in 0..Tip |-> Back(f, e)]
<1> DEFINE Has(n) == \E f : f = [e \in 0..n |-> Back(f, e)]
           T == {n \in 0..Tip : ~Has(n)}
<1>1. SUFFICES T = {}
  <2>1. Tip \in 0..Tip
    OBVIOUS
  <2> QED BY <1>1, <2>1
<1>2. SUFFICES ASSUME T # {} PROVE FALSE
  OBVIOUS
<1>3. T \in SUBSET Nat
  OBVIOUS
<1>4. PICK m \in T : \A y \in T : m <= y
  <2> HIDE DEF T
  <2> QED BY <1>2, <1>3, LeastNat
<1>5. m \in 0..Tip /\ ~Has(m)
  BY <1>4
<1>6. \A f, e : e = 0 => Back(f, e) = MaxDepth + 1
  BY DEF Back
<1>7. CASE m = 0
  <2> DEFINE f == [e \in 0..0 |-> MaxDepth + 1]
  <2>1. \A e \in 0..0 : Back(f, e) = MaxDepth + 1
    <3> HIDE DEF f
    <3> QED BY <1>6
  <2>2. f = [e \in 0..0 |-> Back(f, e)]
    BY <2>1
  <2> QED BY <2>2, <1>5, <1>7
<1>8. CASE m > 0
  <2>1. m - 1 \in 0..Tip /\ ~(m <= m - 1)
    BY <1>5, <1>8
  <2>2. Has(m - 1)
    BY <1>4, <2>1
  <2>3. PICK g : g = [e \in 0..m - 1 |-> Back(g, e)]
    BY <2>2
  <2> DEFINE f == [e \in 0..m |-> IF e < m THEN g[e] ELSE Back(g, m)]
  <2>4. \A e \in 0..m : Back(f, e) = Back(g, e)
    <3> SUFFICES ASSUME NEW e \in 0..m PROVE Back(f, e) = Back(g, e)
      OBVIOUS
    <3>1. CASE e = 0
      BY <3>1, <1>6
    <3>2. CASE e > 0
      <4>1. RunStart(e) \in 1..e
        BY <3>2, RunStartFacts
      <4>2. RunStart(e) - 1 \in 0..m /\ RunStart(e) - 1 < m
        BY <4>1, <1>5
      <4>3. f[RunStart(e) - 1] = g[RunStart(e) - 1]
        BY <4>2
      <4> HIDE DEF f
      <4> QED BY <4>3 DEF Back
    <3> QED BY <3>1, <3>2, <1>5
  <2>5. \A e \in 0..m : f[e] = Back(f, e)
    <3> SUFFICES ASSUME NEW e \in 0..m PROVE f[e] = Back(g, e)
      BY <2>4
    <3>1. CASE e < m
      <4>1. e \in 0..m - 1
        BY <3>1, <1>5
      <4>2. g[e] = Back(g, e)
        BY <2>3, <4>1
      <4> QED BY <4>2, <3>1
    <3>2. CASE e = m
      BY <3>2
    <3> QED BY <3>1, <3>2, <1>5
  <2>6. f = [e \in 0..m |-> f[e]]
    OBVIOUS
  <2> HIDE DEF f
  <2>7. [e \in 0..m |-> f[e]] = [e \in 0..m |-> Back(f, e)]
    BY <2>5
  <2>8. f = [e \in 0..m |-> Back(f, e)]
    BY <2>6, <2>7
  <2> QED BY <2>8, <1>5
<1> QED BY <1>5, <1>7, <1>8

\* RunsBack is what its definition says.
LEMMA RunsBackIs ==
  ASSUME Tip \in Nat
  PROVE  \A e \in 0..Tip : RunsBack[e] = Back(RunsBack, e)
<1>1. RunsBack = [e \in 0..Tip |-> Back(RunsBack, e)]
  BY RunsBackExists, Zenon DEF RunsBack, Back
<1> QED BY <1>1


\* From the bootstrap to commit end, every oldest commit of a run stands, and
\* only the first one is a bootstrap.
StandsFrom(b, end) ==
    \A s \in b..end :
        BeginsRun(s) => (\E e : RunStands(s, e)) /\ (s > b => ~IsBootstrap(NodeAt(s)))

\* A run has one oldest commit.
LEMMA OneStartPerRun ==
  ASSUME NEW e \in Nat, e > 0, NEW k \in RunStart(e)..e, BeginsRun(k)
  PROVE  k = RunStart(e)
<1>1. /\ RunStart(e) \in 1..e
      /\ \A j \in RunStart(e)..e : NodeAt(j) = NodeAt(e)
  BY RunStartFacts
<1>2. k > RunStart(e) => k # 1 /\ k - 1 \in RunStart(e)..e
  BY <1>1
<1> QED BY <1>1, <1>2 DEF BeginsRun

\* RunsBack counts.
LEMMA RunsBackType ==
  ASSUME Tip \in Nat
  PROVE  \A e \in 0..Tip : RunsBack[e] \in Nat
<1> DEFINE T == {e \in 0..Tip : RunsBack[e] \notin Nat}
<1>1. SUFFICES ASSUME T # {} PROVE FALSE
  OBVIOUS
<1>2. T \in SUBSET Nat
  OBVIOUS
<1>3. PICK m \in T : \A y \in T : m <= y
  <2> HIDE DEF T
  <2> QED BY <1>1, <1>2, LeastNat
<1>4. MaxDepth + 1 \in Nat /\ 1 \in Nat
  BY NumbersAssumption
<1>5. CASE m = 0 \/ ~RunStands(RunStart(m), m) \/ IsBootstrap(NodeAt(m))
  BY <1>3, <1>4, <1>5, RunsBackIs DEF Back
<1>6. CASE m # 0 /\ RunStands(RunStart(m), m) /\ ~IsBootstrap(NodeAt(m))
  <2>1. m \in Nat /\ m > 0 /\ m \in 0..Tip
    BY <1>3, <1>6
  <2>2. RunStart(m) \in 1..m
    BY <2>1, RunStartFacts
  <2>3. RunStart(m) - 1 \in 0..Tip /\ ~(m <= RunStart(m) - 1)
    BY <2>1, <2>2
  <2>4. RunsBack[RunStart(m) - 1] \in Nat
    BY <1>3, <2>3
  <2>5. RunsBack[m] = RunsBack[RunStart(m) - 1] + 1
    BY <2>1, <1>6, RunsBackIs DEF Back
  <2> QED BY <1>3, <2>4, <2>5
<1> QED BY <1>5, <1>6

\* A lineage that holds goes back to a bootstrap over runs that stand.
LEMMA LineageFromBootstrap ==
  ASSUME Tip \in Nat, NEW end \in 0..Tip, LineageHolds(end)
  PROVE  \E b \in 1..end : BeginsRun(b) /\ IsBootstrap(NodeAt(b)) /\ StandsFrom(b, end)
<1> DEFINE Reached(s) == /\ s \in 1..end /\ BeginsRun(s) /\ StandsFrom(s, end)
                         /\ \E e \in 1..end : RunStart(e) = s /\ RunsBack[e] <= MaxDepth
           T == {s \in 1..end : Reached(s)}
<1>1. \A e \in 0..Tip : RunsBack[e] <= MaxDepth =>
        /\ e > 0 /\ RunStands(RunStart(e), e)
        /\ ~IsBootstrap(NodeAt(e)) => RunsBack[RunStart(e) - 1] <= MaxDepth
  <2> SUFFICES ASSUME NEW e \in 0..Tip, RunsBack[e] <= MaxDepth
               PROVE  /\ e > 0 /\ RunStands(RunStart(e), e)
                      /\ ~IsBootstrap(NodeAt(e)) => RunsBack[RunStart(e) - 1] <= MaxDepth
    OBVIOUS
  <2>1. RunsBack[e] = Back(RunsBack, e) /\ MaxDepth \in Nat
    BY RunsBackIs, NumbersAssumption
  <2>2. e > 0 /\ RunStands(RunStart(e), e)
    BY <2>1 DEF Back
  <2>3. RunStart(e) \in 1..e
    BY <2>2, RunStartFacts
  <2>4. RunsBack[RunStart(e) - 1] \in Nat
    BY <2>3, RunsBackType
  <2> QED BY <2>1, <2>2, <2>4 DEF Back
<1>2. end > 0 /\ RunsBack[end] <= MaxDepth
  BY <1>1 DEF LineageHolds
<1>3. Reached(RunStart(end))
  <2>1. /\ RunStart(end) \in 1..end /\ BeginsRun(RunStart(end))
        /\ RunStands(RunStart(end), end)
    BY <1>1, <1>2, RunStartBegins
  <2>2. StandsFrom(RunStart(end), end)
    BY <2>1, <1>2, OneStartPerRun DEF StandsFrom
  <2> QED BY <2>1, <2>2, <1>2
<1>4. T # {} /\ T \in SUBSET Nat
  BY <1>3
<1>5. PICK s \in T : \A y \in T : s <= y
  <2> HIDE DEF T
  <2> QED BY <1>4, LeastNat
<1>6. Reached(s)
  BY <1>5
<1>7. IsBootstrap(NodeAt(s))
  <2> SUFFICES ASSUME ~IsBootstrap(NodeAt(s)) PROVE FALSE
    OBVIOUS
  <2>1. PICK e \in 1..end : RunStart(e) = s /\ RunsBack[e] <= MaxDepth
    BY <1>6
  <2>2. NodeAt(s) = NodeAt(e) /\ e \in 0..Tip
    BY <2>1, RunStartBegins
  <2>3. RunStands(s, e) /\ RunsBack[s - 1] <= MaxDepth
    BY <1>1, <2>1, <2>2
  <2>4. s > 1 /\ s \in 1..end
    BY <1>6, <2>3, RunStandsFacts
  <2> DEFINE r == RunStart(s - 1)
  <2>5. r \in 1..s - 1 /\ BeginsRun(r) /\ NodeAt(r) = NodeAt(s - 1)
    BY <2>4, RunStartBegins
  <2>6. RunStands(r, s - 1)
    BY <1>1, <2>3, <2>4
  <2>7. \A k \in r..s - 1 : BeginsRun(k) => k = r
    BY <2>4, OneStartPerRun
  <2> HIDE DEF r
  <2>8. StandsFrom(r, end)
    <3> SUFFICES ASSUME NEW k \in r..end, BeginsRun(k)
                 PROVE  (\E x : RunStands(k, x)) /\ (k > r => ~IsBootstrap(NodeAt(k)))
      BY DEF StandsFrom
    <3>1. CASE k <= s - 1
      BY <3>1, <2>5, <2>6, <2>7
    <3>2. CASE k = s
      BY <3>2, <2>3
    <3>3. CASE k > s
      <4>1. k \in s..end
        BY <3>3, <2>4
      <4> QED BY <4>1, <3>3, <1>6 DEF StandsFrom
    <3> QED BY <3>1, <3>2, <3>3, <2>4, <2>5
  <2>9. s - 1 \in 1..end /\ r \in 1..end /\ ~(s <= r)
    BY <2>4, <2>5
  <2>10. Reached(r)
    BY <2>3, <2>5, <2>8, <2>9 DEF r
  <2> QED BY <1>5, <2>9, <2>10
<1> QED BY <1>6, <1>7

(***************************************************************************)
(* The chain of a history c and a worktree w                               *)
(***************************************************************************)

\* The trees of the history, then the worktree, and their nodes.
TreeIn(c, w, i) == IF i <= Len(c) THEN c[i] ELSE w
NodeIn(c, w, i) == NodeOf(TreeIn(c, w, i))
BeginsIn(c, w, i) == i = 1 \/ NodeIn(c, w, i) # NodeIn(c, w, i - 1)

\* Tree t continues tree b by the rules of its node's schema.
Continues(t, b) ==
    \/ NodeOf(t).schema = "v1" /\ V1Node(t) /\ V1Transition(t, b)
    \/ NodeOf(t).schema = "v2" /\ V2Node(t) /\ V2Transition(NodeOf(t), NodeOf(b))
    \/ NodeOf(t).schema = "v3" /\ Decision(t, b)

\* Position i begins a run, right after the run that begins at q.  The rules
\* were applied where the node first appeared or to the worktree.
Link(c, w, q, i) ==
    /\ q \in 1..i - 1 /\ BeginsIn(c, w, q)
    /\ \A k \in q..i - 1 : NodeIn(c, w, k) = NodeIn(c, w, q)
    /\ NodeIn(c, w, i).pred = q
    /\ \A j \in 1..i - 1 : NodeIn(c, w, j) # NodeIn(c, w, i)
    /\ \E t \in {TreeIn(c, w, i), w} : NodeOf(t) = NodeIn(c, w, i) /\ Continues(t, c[q])

\* The chain begins at b.
ChainFrom(c, w, b) ==
    /\ \A j \in 1..b - 1 : NodeIn(c, w, j) = NoNode
    /\ BeginsIn(c, w, b) /\ IsBootstrap(NodeIn(c, w, b))
    /\ \E t \in {TreeIn(c, w, b), w} : NodeOf(t) = NodeIn(c, w, b) /\ V1Node(t)
    /\ \A i \in b + 1..Len(c) + 1 :
          BeginsIn(c, w, i) => /\ ~IsBootstrap(NodeIn(c, w, i))
                               /\ \E q \in b..i - 1 : Link(c, w, q, i)

Chain(c, w) == \E b \in 1..Len(c) + 1 : ChainFrom(c, w, b)

\* In the history, positions are commits.
LEMMA InHistory ==
  ASSUME Tip \in Nat, NEW i \in 1..Tip
  PROVE  /\ TreeIn(commits, work, i) = commits[i]
         /\ NodeIn(commits, work, i) = NodeAt(i)
         /\ BeginsIn(commits, work, i) <=> BeginsRun(i)
  BY DEF TreeIn, NodeIn, BeginsIn, BeginsRun, NodeAt, Tip

\* After the history comes the worktree.
LEMMA AfterHistory ==
  ASSUME Tip \in Nat
  PROVE  TreeIn(commits, work, Tip + 1) = work /\ NodeIn(commits, work, Tip + 1) = Here
  BY DEF TreeIn, NodeIn, Here, Tip

\* A run that stands is linked to the one before it.
LEMMA StandsLinked ==
  ASSUME Tip \in Nat, NEW i \in 1..Tip, BeginsRun(i), NEW e, RunStands(i, e),
         ~IsBootstrap(NodeAt(i))
  PROVE  i > 1 /\ Link(commits, work, RunStart(i - 1), i)
<1>1. /\ i > 1 /\ NodeAt(i - 1) # NoNode
      /\ NodeAt(i).pred = RunStart(i - 1)
      /\ \A j \in 1..i - 1 : NodeAt(j) # NodeAt(i)
      /\ NodeAt(i).schema \in {"v1", "v2", "v3"}
  BY RunStandsFacts
<1> DEFINE q == RunStart(i - 1)
<1>2. i - 1 \in 1..Tip /\ i - 1 \in Nat /\ i - 1 > 0
  BY <1>1
<1>3. /\ q \in 1..i - 1 /\ q \in 1..Tip /\ BeginsRun(q)
      /\ \A k \in q..i - 1 : NodeAt(k) = NodeAt(q)
  BY <1>2, RunStartFacts, RunStartBegins
<1>4. Continues(commits[i], commits[q])
  <2>1. CASE NodeAt(i).schema = "v1"
    BY <2>1, <1>1 DEF RunStands, V1RunStands, Continues, IsBootstrap, NodeAt
  <2>2. CASE NodeAt(i).schema = "v2"
    BY <2>2, <1>1 DEF RunStands, V2RunStands, Continues, NodeAt
  <2>3. CASE NodeAt(i).schema = "v3"
    BY <2>3, <1>1 DEF RunStands, V3RunStands, V3Transition, Continues, NodeAt
  <2> QED BY <1>1, <2>1, <2>2, <2>3
<1>5. \A k \in 1..i : k \in 1..Tip
  OBVIOUS
<1> HIDE DEF q
<1>6. /\ BeginsIn(commits, work, q)
      /\ \A k \in 1..i : NodeIn(commits, work, k) = NodeAt(k)
      /\ TreeIn(commits, work, i) = commits[i]
  BY <1>3, <1>5, InHistory
<1>7. /\ \A k \in q..i - 1 : NodeIn(commits, work, k) = NodeIn(commits, work, q)
      /\ NodeIn(commits, work, i).pred = q
      /\ \A j \in 1..i - 1 : NodeIn(commits, work, j) # NodeIn(commits, work, i)
  <2>1. \A k \in q..i - 1 : k \in 1..i
    BY <1>3
  <2>2. i \in 1..i /\ q \in 1..i /\ \A j \in 1..i - 1 : j \in 1..i
    BY <1>3
  <2> QED BY <1>1, <1>3, <1>6, <2>1, <2>2 DEF q
<1>8. \E t \in {TreeIn(commits, work, i), work} :
         NodeOf(t) = NodeIn(commits, work, i) /\ Continues(t, commits[q])
  BY <1>4, <1>6 DEF NodeAt, NodeIn
<1>9. Link(commits, work, q, i)
  BY <1>3, <1>6, <1>7, <1>8 DEF Link
<1> QED BY <1>1, <1>9 DEF q

\* Where the run of the worktree begins, and what is before it.
LEMMA RunOfWork ==
  ASSUME Tip \in Nat, Tip > 0, NEW p, p = PriorEnd(Here, Tip)
  PROVE  /\ p \in 0..Tip
         /\ \A k \in p + 1..Tip + 1 : NodeIn(commits, work, k) = Here
         /\ p > 0 => NodeAt(p) # Here
         /\ Latest = IF p > 0 /\ NodeAt(p) # NoNode THEN RunStart(p) ELSE 0
<1>1. Latest = IF p > 0 /\ NodeAt(p) # NoNode THEN RunStart(p) ELSE 0
  BY DEF Latest, PriorOrigin
<1>2. NodeIn(commits, work, Tip + 1) = Here
  BY AfterHistory
<1>3. CASE NodeAt(Tip) = Here
  <2> DEFINE r == RunStart(Tip)
  <2>1. /\ r \in 1..Tip
        /\ \A k \in r..Tip : NodeAt(k) = Here
        /\ r = 1 \/ NodeAt(r - 1) # Here
    BY <1>3, RunStartFacts
  <2>2. p = r - 1
    BY <1>3 DEF PriorEnd
  <2> HIDE DEF r
  <2>3. p \in 0..Tip /\ p + 1 = r /\ (p > 0 => NodeAt(p) # Here)
    BY <2>1, <2>2
  <2>4. \A k \in r..Tip + 1 : k = Tip + 1 \/ (k \in r..Tip /\ k \in 1..Tip)
    BY <2>1
  <2>5. \A k \in r..Tip + 1 : NodeIn(commits, work, k) = Here
    BY <2>1, <2>4, <1>2, InHistory
  <2> QED BY <1>1, <2>3, <2>5
<1>4. CASE NodeAt(Tip) # Here
  <2>1. p = Tip
    BY <1>4 DEF PriorEnd
  <2>2. \A k \in p + 1..Tip + 1 : k = Tip + 1
    BY <2>1
  <2> QED BY <1>1, <1>2, <1>4, <2>1, <2>2
<1> QED BY <1>3, <1>4

\* What an accepting verdict requires of the worktree itself.
LEMMA AcceptsFacts ==
  ASSUME Accepts
  PROVE  /\ Here.schema \in {"v1", "v2", "v3"} /\ Here.digest = Digest(work)
         /\ ~Replayed(Here, Tip)
         /\ IsBootstrap(Here) => Latest = 0 /\ V1Node(work)
         /\ ~IsBootstrap(Here) =>
              /\ Latest # 0 /\ Here.pred = Latest /\ PriorHolds
              /\ Continues(work, commits[Latest])
<1>1. /\ Here.schema \in {"v1", "v2", "v3"} /\ Here.digest = Digest(work)
      /\ ~Replayed(Here, Tip)
      /\ Here.schema = "v1" => V1Accepts
      /\ Here.schema = "v2" => V2Accepts
      /\ Here.schema = "v3" => V3Accepts
  BY DEF Accepts
<1>2. CASE Here.schema = "v1"
  BY <1>1, <1>2 DEF V1Accepts, V1Predecessor, Continues, IsBootstrap, Here
<1>3. CASE Here.schema = "v2"
  BY <1>1, <1>3 DEF V2Accepts, Continues, IsBootstrap, Here, NodeAt
<1>4. CASE Here.schema = "v3"
  BY <1>1, <1>4 DEF V3Accepts, V3Transition, Continues, IsBootstrap, Here
<1> QED BY <1>1, <1>2, <1>3, <1>4

\* A worktree that is accepted ends a chain.
LEMMA AcceptsChain ==
  ASSUME Tip \in Nat, Tip > 0, Accepts
  PROVE  Chain(commits, work)
<1> DEFINE p == PriorEnd(Here, Tip)
<1>1. /\ p \in 0..Tip
      /\ \A k \in p + 1..Tip + 1 : NodeIn(commits, work, k) = Here
      /\ p > 0 => NodeAt(p) # Here
      /\ Latest = IF p > 0 /\ NodeAt(p) # NoNode THEN RunStart(p) ELSE 0
  BY RunOfWork
<1>2. /\ \A j \in 1..p : NodeAt(j) # Here
      /\ Latest = 0 => \A j \in 1..p : NodeAt(j) = NoNode
  BY AcceptsFacts DEF Replayed, Latest
<1>3. \A j \in 1..p : j \in 1..Tip
  BY <1>1
<1>4. PriorHolds => LineageHolds(p)
  BY DEF PriorHolds
<1> HIDE DEF p
<1>5. \A j \in 1..p : NodeIn(commits, work, j) = NodeAt(j)
  BY <1>3, InHistory
<1>6. /\ p + 1 \in 1..Tip + 1 /\ p + 1 \in p + 1..Tip + 1
      /\ Len(commits) = Tip
  BY <1>1 DEF Tip
<1>7. BeginsIn(commits, work, p + 1)
  <2>1. p > 0 => p \in 1..p /\ (p + 1) - 1 = p
    BY <1>1
  <2>2. p = 0 => p + 1 = 1
    OBVIOUS
  <2> QED BY <1>1, <1>5, <1>6, <2>1, <2>2 DEF BeginsIn
<1>8. \A i \in (p + 1) + 1..Tip + 1 : ~BeginsIn(commits, work, i)
  <2> SUFFICES ASSUME NEW i \in (p + 1) + 1..Tip + 1 PROVE ~BeginsIn(commits, work, i)
    OBVIOUS
  <2>1. i # 1 /\ i \in p + 1..Tip + 1 /\ i - 1 \in p + 1..Tip + 1
    BY <1>1
  <2> QED BY <1>1, <2>1 DEF BeginsIn
<1>9. CASE IsBootstrap(Here)
  <2>1. Latest = 0 /\ V1Node(work)
    BY <1>9, AcceptsFacts
  <2>2. \A j \in 1..(p + 1) - 1 : j \in 1..p
    BY <1>1
  <2>3. \A j \in 1..(p + 1) - 1 : NodeIn(commits, work, j) = NoNode
    BY <1>2, <1>5, <2>1, <2>2
  <2>4. NodeIn(commits, work, p + 1) = Here /\ NodeOf(work) = Here
    BY <1>1, <1>6 DEF Here
  <2>5. ChainFrom(commits, work, p + 1)
    BY <1>6, <1>7, <1>8, <1>9, <2>1, <2>3, <2>4 DEF ChainFrom
  <2> QED BY <2>5, <1>6 DEF Chain
<1>10. CASE ~IsBootstrap(Here)
  <2>1. /\ Latest # 0 /\ Here.pred = Latest /\ LineageHolds(p)
        /\ Continues(work, commits[Latest])
    BY <1>4, <1>10, AcceptsFacts
  <2> DEFINE q == Latest
  <2>2. p > 0 /\ p \in 1..Tip /\ q = RunStart(p) /\ NodeAt(p) # NoNode
    BY <1>1, <2>1
  <2>3. /\ q \in 1..p /\ q \in 1..Tip /\ BeginsRun(q)
        /\ \A k \in q..p : NodeAt(k) = NodeAt(q)
    <3>1. /\ RunStart(p) \in 1..p /\ BeginsRun(RunStart(p))
          /\ \A k \in RunStart(p)..p : NodeAt(k) = NodeAt(RunStart(p))
      BY <2>2, RunStartFacts, RunStartBegins
    <3>2. \A k \in 1..p : k \in 1..Tip
      BY <2>2
    <3> QED BY <2>2, <3>1, <3>2
  <2> HIDE DEF q
  <2>4. PICK b \in 1..p : BeginsRun(b) /\ IsBootstrap(NodeAt(b)) /\ StandsFrom(b, p)
    <3>1. \E b \in 1..p : BeginsRun(b) /\ IsBootstrap(NodeAt(b)) /\ StandsFrom(b, p)
      BY <1>1, <2>1, LineageFromBootstrap
    <3> QED BY <3>1
  <2>5. PICK e : RunStands(b, e)
    <3>1. b \in b..p
      BY <2>4
    <3> QED BY <2>4, <3>1 DEF StandsFrom
  <2>6. \A j \in 1..b - 1 : NodeAt(j) = NoNode
    BY <2>4, <2>5, RunStandsFacts
  <2>7. b <= q
    <3> SUFFICES ASSUME q < b PROVE FALSE
      BY <2>3, <2>4
    <3>1. q \in 1..b - 1 /\ p \in q..p
      BY <1>1, <2>3, <2>4
    <3> QED BY <3>1, <2>2, <2>3, <2>6
  <2>8. V1Node(commits[b]) /\ b \in 1..Tip
    <3>1. NodeAt(b).schema = "v1" /\ b \in 1..Tip
      BY <2>4, <1>3 DEF IsBootstrap
    <3> QED BY <3>1, <2>5 DEF RunStands, V1RunStands
  <2>9. Link(commits, work, q, p + 1)
    <3>1. q \in 1..(p + 1) - 1 /\ BeginsIn(commits, work, q)
      BY <2>3, InHistory, <1>1
    <3>2. \A k \in 1..(p + 1) - 1 : k \in 1..p
      BY <1>1
    <3>3. \A k \in q..(p + 1) - 1 : k \in q..p /\ k \in 1..p
      BY <2>3, <1>1
    <3>4. \A k \in q..(p + 1) - 1 : NodeIn(commits, work, k) = NodeIn(commits, work, q)
      BY <3>3, <2>3, <1>5
    <3>5. NodeIn(commits, work, p + 1) = Here /\ NodeOf(work) = Here
      BY <1>1, <1>6 DEF Here
    <3>6. \A j \in 1..(p + 1) - 1 : NodeIn(commits, work, j) # NodeIn(commits, work, p + 1)
      BY <1>2, <1>5, <3>2, <3>5
    <3> QED BY <2>1, <3>1, <3>4, <3>5, <3>6 DEF Link, q
  <2>10. \A i \in b + 1..Tip + 1 :
           BeginsIn(commits, work, i) => /\ ~IsBootstrap(NodeIn(commits, work, i))
                                         /\ \E x \in b..i - 1 : Link(commits, work, x, i)
    <3> SUFFICES ASSUME NEW i \in b + 1..Tip + 1, BeginsIn(commits, work, i)
                 PROVE  /\ ~IsBootstrap(NodeIn(commits, work, i))
                        /\ \E x \in b..i - 1 : Link(commits, work, x, i)
      OBVIOUS
    <3>1. i <= p \/ i = p + 1 \/ i \in (p + 1) + 1..Tip + 1
      BY <1>1, <2>4
    <3>2. CASE i <= p
      <4>1. i \in b..p /\ i \in 1..p /\ i \in 1..Tip /\ i > b
        BY <3>2, <2>4, <2>2
      <4>2. BeginsRun(i) /\ NodeIn(commits, work, i) = NodeAt(i)
        BY <4>1, InHistory
      <4>3. ~IsBootstrap(NodeAt(i)) /\ \E x : RunStands(i, x)
        BY <4>1, <4>2, <2>4 DEF StandsFrom
      <4>4. i > 1 /\ Link(commits, work, RunStart(i - 1), i)
        BY <4>1, <4>2, <4>3, StandsLinked
      <4> DEFINE x == RunStart(i - 1)
      <4>5. x \in 1..i - 1 /\ NodeAt(x) = NodeAt(i - 1) /\ \A k \in x..i - 1 : NodeAt(k) = NodeAt(i - 1)
        <5>1. i - 1 \in Nat /\ i - 1 > 0
          BY <4>1, <4>4
        <5> QED BY <5>1, RunStartFacts, RunStartBegins
      <4> HIDE DEF x
      <4>6. b <= x
        <5> SUFFICES ASSUME x < b PROVE FALSE
          BY <4>5, <2>4
        <5>1. x \in 1..b - 1 /\ b \in x..i - 1
          BY <4>1, <4>5
        <5>2. NodeAt(b) = NoNode
          BY <5>1, <4>5, <2>6
        <5> QED BY <5>2, <2>4 DEF IsBootstrap, NoNode
      <4>7. x \in b..i - 1
        BY <4>5, <4>6, <2>4
      <4> QED BY <4>2, <4>3, <4>4, <4>7 DEF x
    <3>3. CASE i = p + 1
      <4>1. NodeIn(commits, work, i) = Here /\ q \in b..i - 1
        BY <3>3, <1>1, <1>6, <2>3, <2>4, <2>7
      <4> QED BY <4>1, <3>3, <2>9, <1>10
    <3> QED BY <3>1, <3>2, <3>3, <1>8
  <2>11. \A j \in 1..b - 1 : j \in 1..p
    BY <1>1, <2>4
  <2>12. /\ NodeIn(commits, work, b) = NodeAt(b) /\ TreeIn(commits, work, b) = commits[b]
         /\ BeginsIn(commits, work, b)
    BY <2>4, <2>8, InHistory
  <2>13. ChainFrom(commits, work, b)
    BY <1>5, <1>6, <2>4, <2>6, <2>8, <2>10, <2>11, <2>12 DEF ChainFrom, NodeAt
  <2>14. b \in 1..Len(commits) + 1
    BY <1>6, <2>8
  <2> QED BY <2>13, <2>14 DEF Chain
<1> QED BY <1>9, <1>10

(***************************************************************************)
(* What the chain means for the nodes in it                                *)
(***************************************************************************)

Snapshots == V1Snapshots \cup V2Snapshots \cup V3Snapshots

\* The node of a tree, and where a node of each schema is found.
LEMMA NodeTypes ==
  ASSUME NEW t \in Trees
  PROVE  /\ NodeOf(t) \in {NoNode} \cup Snapshots
         /\ NodeOf(t).schema \in {"v1", "v2"} => NodeOf(t) = t.legacy
         /\ NodeOf(t).schema = "v1" => NodeOf(t) \in V1Snapshots
         /\ NodeOf(t).schema = "v2" => NodeOf(t) \in V2Snapshots
         /\ NodeOf(t).schema = "v3" => NodeOf(t) \in V3Snapshots /\ NodeOf(t) = t.cycle.node
<1>1. /\ \A n \in V1Snapshots : n.schema = "v1"
      /\ \A n \in V2Snapshots : n.schema = "v2"
      /\ \A n \in V3Snapshots : n.schema = "v3"
      /\ NoNode.schema = "none"
  BY DEF V1Snapshots, V2Snapshots, V3Snapshots, NoNode
<1>2. t.legacy \in {NoNode} \cup V1Snapshots \cup V2Snapshots
  BY DEF Trees
<1>3. t.cycle = NoCycle \/ t.cycle.node \in V3Snapshots
  BY DEF Trees
<1>4. CASE t.cycle = NoCycle
  BY <1>1, <1>2, <1>4 DEF NodeOf, Snapshots
<1>5. CASE t.cycle # NoCycle
  BY <1>1, <1>3, <1>5 DEF NodeOf, Snapshots
<1> QED BY <1>4, <1>5

\* Every position of the line is a tree.
LEMMA LineTypes ==
  ASSUME commits \in Seq(Trees), work \in Trees
  PROVE  /\ Tip \in Nat /\ DOMAIN Line = 1..Tip + 1
         /\ \A i \in 1..Tip + 1 :
              /\ TreeIn(commits, work, i) \in Trees
              /\ Line[i] = NodeIn(commits, work, i)
         /\ \A i \in 1..Tip : commits[i] \in Trees /\ Line[i] = NodeOf(commits[i])
         /\ \A i \in 1..Tip + 1 : i \in Starts <=> BeginsIn(commits, work, i)
         /\ Starts \subseteq 1..Tip + 1
<1>1. Tip \in Nat /\ \A i \in 1..Tip : commits[i] \in Trees
  BY DEF Tip
<1>2. Line = [i \in 1..Tip + 1 |-> NodeIn(commits, work, i)]
  BY <1>1 DEF Line, NodeIn, TreeIn, NodeAt, Here, Tip
<1>3. \A i \in 1..Tip + 1 : TreeIn(commits, work, i) \in Trees
  BY <1>1 DEF TreeIn, Tip
<1>4. \A i \in 1..Tip : i \in 1..Tip + 1 /\ NodeIn(commits, work, i) = NodeOf(commits[i])
  BY <1>1 DEF NodeIn, TreeIn, Tip
<1>5. \A i \in 1..Tip + 1 : i # 1 => i - 1 \in 1..Tip + 1
  BY <1>1
<1>6. \A i \in 1..Tip + 1 : i \in Starts <=> BeginsIn(commits, work, i)
  BY <1>2, <1>5 DEF Starts, BeginsIn
<1> QED BY <1>1, <1>2, <1>3, <1>4, <1>6 DEF Starts

\* A link names the last start before.
LEMMA LinkBefore ==
  ASSUME commits \in Seq(Trees), work \in Trees,
         NEW i \in 1..Tip + 1, NEW q, Link(commits, work, q, i)
  PROVE  /\ q \in Starts /\ q < i /\ q \in 1..Tip
         /\ \A k \in Starts : k < i => k <= q
         /\ Before(i) = q
         /\ Line[i].pred = q
         /\ \A j \in 1..i - 1 : Line[j] # Line[i]
         /\ \A k \in q..i - 1 : Line[k] = Line[q]
<1>1. /\ q \in 1..i - 1 /\ q \in 1..Tip /\ q \in 1..Tip + 1
      /\ \A j \in 1..i - 1 : j \in 1..Tip + 1
      /\ \A j \in q..i - 1 : j \in 1..Tip + 1
  BY LineTypes DEF Link
<1>2. /\ Line[i].pred = q
      /\ \A j \in 1..i - 1 : Line[j] # Line[i]
      /\ \A k \in q..i - 1 : Line[k] = Line[q]
      /\ q \in Starts
  BY <1>1, LineTypes DEF Link
<1>3. \A k \in Starts : k < i => k <= q
  <2> SUFFICES ASSUME NEW k \in Starts, k < i, q < k PROVE FALSE
    BY <1>1, LineTypes
  <2>1. k \in 1..Tip + 1
    BY LineTypes
  <2>2. k # 1 /\ k \in q..i - 1 /\ k - 1 \in q..i - 1
    BY <2>1, <1>1
  <2> QED BY <2>2, <1>2 DEF Starts
<1>4. q < i
  BY <1>1
<1>5. \A j \in Starts : (j < i /\ \A k \in Starts : k < i => k <= j) => j = q
  <2> SUFFICES ASSUME NEW j \in Starts, j < i, \A k \in Starts : k < i => k <= j PROVE j = q
    OBVIOUS
  <2>1. j <= q /\ q <= j /\ j \in 1..Tip + 1
    BY <1>2, <1>3, <1>4, LineTypes
  <2> QED BY <2>1, <1>1
<1>6. \E j \in Starts : j < i /\ \A k \in Starts : k < i => k <= j
  BY <1>2, <1>3, <1>4
<1>7. Before(i) = q
  BY <1>5, <1>6 DEF Before
<1> QED BY <1>1, <1>2, <1>3, <1>4, <1>7

\* What the rules of its schema say of the start i of a run that is linked to q.
Linked(q, i) ==
    \E t \in {TreeIn(commits, work, i), work} :
        /\ t \in Trees
        /\ NodeOf(t) = Line[i] /\ q \in 1..Tip /\ Line[q] = NodeOf(commits[q])
        /\ Continues(t, commits[q])

\* The same chain, over the line and its starts.
LineFrom(b) ==
    /\ b \in Starts /\ IsBootstrap(Line[b])
    /\ \A j \in 1..b - 1 : Line[j] = NoNode
    /\ \E t \in Trees : NodeOf(t) = Line[b] /\ V1Node(t)
    /\ \A i \in Starts : i > b =>
          /\ ~IsBootstrap(Line[i])
          /\ Before(i) \in Starts /\ b <= Before(i) /\ Before(i) < i
          /\ \A k \in Starts : k < i => k <= Before(i)
          /\ Line[i].pred = Before(i)
          /\ \A j \in 1..i - 1 : Line[j] # Line[i]
          /\ \A k \in Before(i)..i - 1 : Line[k] = Line[Before(i)]
          /\ Linked(Before(i), i)

\* A chain is one over the line.
LEMMA ChainLine ==
  ASSUME commits \in Seq(Trees), work \in Trees, Chain(commits, work)
  PROVE  \E b \in Starts : LineFrom(b)
<1>1. PICK b \in 1..Tip + 1 : ChainFrom(commits, work, b)
  BY DEF Chain, Tip
<1>2. b \in Starts /\ IsBootstrap(Line[b])
  BY <1>1, LineTypes DEF ChainFrom
<1>3. \A j \in 1..b - 1 : Line[j] = NoNode
  <2>1. \A j \in 1..b - 1 : j \in 1..Tip + 1
    BY LineTypes
  <2> QED BY <1>1, <2>1, LineTypes DEF ChainFrom
<1>4. \E t \in Trees : NodeOf(t) = Line[b] /\ V1Node(t)
  <2>1. TreeIn(commits, work, b) \in Trees /\ Line[b] = NodeIn(commits, work, b)
    BY LineTypes
  <2> QED BY <1>1, <2>1 DEF ChainFrom
<1>5. ASSUME NEW i \in Starts, i > b
      PROVE  /\ ~IsBootstrap(Line[i])
             /\ Before(i) \in Starts /\ b <= Before(i) /\ Before(i) < i
             /\ \A k \in Starts : k < i => k <= Before(i)
             /\ Line[i].pred = Before(i)
             /\ \A j \in 1..i - 1 : Line[j] # Line[i]
             /\ \A k \in Before(i)..i - 1 : Line[k] = Line[Before(i)]
             /\ Linked(Before(i), i)
  <2>1. i \in 1..Tip + 1 /\ i \in b + 1..Len(commits) + 1 /\ BeginsIn(commits, work, i)
    BY <1>5, LineTypes DEF Tip
  <2>2. ~IsBootstrap(Line[i]) /\ \E q \in b..i - 1 : Link(commits, work, q, i)
    BY <1>1, <2>1, LineTypes DEF ChainFrom
  <2>3. PICK q \in b..i - 1 : Link(commits, work, q, i)
    BY <2>2
  <2>4. /\ q \in Starts /\ q < i /\ q \in 1..Tip
        /\ \A k \in Starts : k < i => k <= q
        /\ Before(i) = q
        /\ Line[i].pred = q
        /\ \A j \in 1..i - 1 : Line[j] # Line[i]
        /\ \A k \in q..i - 1 : Line[k] = Line[q]
    BY <2>1, <2>3, LinkBefore
  <2>5. Linked(q, i)
    <3>1. PICK t \in {TreeIn(commits, work, i), work} :
             NodeOf(t) = NodeIn(commits, work, i) /\ Continues(t, commits[q])
      BY <2>3 DEF Link
    <3>2. t \in Trees /\ Line[i] = NodeIn(commits, work, i) /\ Line[q] = NodeOf(commits[q])
      BY <2>1, <2>4, <3>1, LineTypes
    <3> QED BY <3>1, <3>2, <2>4 DEF Linked
  <2>6. b <= q
    BY <1>2, <2>3, LineTypes
  <2> QED BY <2>2, <2>4, <2>5, <2>6
<1>6. LineFrom(b)
  BY <1>2, <1>3, <1>4, <1>5 DEF LineFrom
<1> QED BY <1>2, <1>6

\* What the rules say, schema by schema.
LEMMA LinkedFacts ==
  ASSUME NEW q, NEW i, Linked(q, i)
  PROVE  /\ Line[i].schema \in {"v1", "v2", "v3"}
         /\ Line[i].schema = "v1" =>
              \E t \in Trees : /\ NodeOf(t) = Line[i] /\ Line[i] = t.legacy
                               /\ V1Node(t) /\ V1Transition(t, commits[q])
         /\ Line[i].schema = "v2" =>
              \E t \in Trees : /\ NodeOf(t) = Line[i] /\ Line[i] = t.legacy
                               /\ V2Node(t) /\ V2Transition(Line[i], Line[q])
         /\ Line[i].schema = "v3" =>
              \E t \in {TreeIn(commits, work, i), work} :
                  t \in Trees /\ NodeOf(t) = Line[i] /\ Decision(t, commits[q])
<1>1. PICK t \in {TreeIn(commits, work, i), work} :
                         /\ t \in Trees
                         /\ NodeOf(t) = Line[i] /\ q \in 1..Tip /\ Line[q] = NodeOf(commits[q])
                         /\ Continues(t, commits[q])
  BY DEF Linked
<1>2. Line[i].schema \in {"v1", "v2"} => Line[i] = t.legacy
  BY <1>1, NodeTypes
<1> QED BY <1>1, <1>2 DEF Continues

\* The node at the start of a run of the chain has the shape of its schema.
LEMMA NodesShaped ==
  ASSUME commits \in Seq(Trees), work \in Trees,
         NEW b \in Starts, LineFrom(b), NEW i \in Starts, b <= i
  PROVE  /\ Line[i].schema \in {"v1", "v2", "v3"}
         /\ Line[i].schema = "v1" => \E t \in Trees : Line[i] = t.legacy /\ V1Node(t)
         /\ Line[i].schema = "v2" => i # b /\ \E t \in Trees : Line[i] = t.legacy /\ V2Node(t)
         /\ Line[i].schema = "v3" => i # b
<1>1. CASE i = b
  <2>1. PICK t \in Trees : NodeOf(t) = Line[b] /\ V1Node(t)
    BY DEF LineFrom
  <2>2. Line[b].schema = "v1"
    BY DEF LineFrom, IsBootstrap
  <2>3. Line[b] = t.legacy
    BY <2>1, <2>2, NodeTypes
  <2> QED BY <1>1, <2>1, <2>2, <2>3
<1>2. CASE i # b
  <2>1. i > b
    BY <1>2, LineTypes
  <2>2. Linked(Before(i), i)
    BY <2>1 DEF LineFrom
  <2> QED BY <1>2, <2>2, LinkedFacts
<1> QED BY <1>1, <1>2

\* Before maintenance the schemas never go back, and a node is at the gate of
\* the one before it or at the next.
LEMMA GateStep ==
  ASSUME commits \in Seq(Trees), work \in Trees, NEW b \in Starts, LineFrom(b),
         NEW i \in Starts, i > b, Line[i].schema # "v3",
         NEW q, q = Before(i), NEW n, n = Line[i], NEW p, p = Line[q]
  PROVE  /\ p.schema \in {"v1", n.schema}
         /\ n.gate \in {p.gate, p.gate + 1} \/ (p.gate = LastGate /\ n.gate = 1)
<1>1. q \in Starts /\ b <= q /\ Linked(q, i) /\ n.schema \in {"v1", "v2"}
  BY LinkedFacts DEF LineFrom
<1>2. \A g \in 1..LastGate, h \in 1..LastGate :
         h = Following(g) => h = g + 1
  BY NumbersAssumption DEF Following
<1>3. \A g \in 1..LastGate : Following(g) = 0 => g = LastGate
  BY NumbersAssumption DEF Following
<1>4. p.schema = "v1" => p \in V1Snapshots /\ p.next = Following(p.gate)
  <2> SUFFICES ASSUME p.schema = "v1" PROVE p \in V1Snapshots /\ p.next = Following(p.gate)
    OBVIOUS
  <2>1. PICK t \in Trees : p = t.legacy /\ V1Node(t)
    BY <1>1, NodesShaped
  <2>2. p \in Snapshots \cup {NoNode}
    BY <2>1 DEF Trees, Snapshots
  <2>3. p \in V1Snapshots
    BY <2>2 DEF Snapshots, V1Snapshots, V2Snapshots, V3Snapshots, NoNode
  <2> QED BY <2>1, <2>3 DEF V1Node
<1>5. p.schema = "v2" => /\ p \in V2Snapshots
                         /\ p.state = "closed" => p.next = Following(p.gate)
  <2> SUFFICES ASSUME p.schema = "v2"
               PROVE  p \in V2Snapshots /\ (p.state = "closed" => p.next = Following(p.gate))
    OBVIOUS
  <2>1. PICK t \in Trees : p = t.legacy /\ V2Node(t)
    BY <1>1, NodesShaped
  <2>2. p \in Snapshots \cup {NoNode}
    BY <2>1 DEF Trees, Snapshots
  <2>3. p \in V2Snapshots
    BY <2>2 DEF Snapshots, V1Snapshots, V2Snapshots, V3Snapshots, NoNode
  <2> QED BY <2>1, <2>3 DEF V2Node, V2Closed
<1>6. CASE n.schema = "v1"
  <2>1. PICK t \in Trees : /\ n = t.legacy /\ V1Node(t) /\ V1Transition(t, commits[q])
    BY <1>1, <1>6, LinkedFacts
  <2>2. commits[q] \in Trees /\ p = NodeOf(commits[q])
    <3>1. q \in 1..Tip /\ p = NodeOf(commits[q])
      BY <1>1 DEF Linked
    <3> QED BY <3>1, LineTypes
  <2>3. p.schema = "v1" /\ p = commits[q].legacy
    BY <2>1, <2>2, NodeTypes DEF V1Transition
  <2>4. /\ n.gate \in 1..LastGate
        /\ n.gate \in {p.gate, p.next} \/ (p.next = 0 /\ n.gate = 1)
    BY <2>1, <2>3 DEF V1Node, V1Transition, V1GateTransition
  <2>5. p.gate \in 1..LastGate /\ p.next = Following(p.gate)
    BY <1>4, <2>3 DEF V1Snapshots
  <2>6. CASE n.gate = p.gate
    BY <2>3, <2>6
  <2>7. CASE n.gate = p.next
    BY <2>3, <2>4, <2>5, <2>7, <1>2
  <2>8. CASE p.next = 0 /\ n.gate = 1
    BY <2>3, <2>5, <2>8, <1>3
  <2> QED BY <2>4, <2>6, <2>7, <2>8
<1>7. CASE n.schema = "v2"
  <2>1. PICK t \in Trees : /\ n = t.legacy /\ V2Node(t) /\ V2Transition(n, p)
    BY <1>1, <1>7, LinkedFacts
  <2>2. /\ p.schema \in {"v1", "v2"}
        /\ n.gate = p.gate \/ (p.state = "closed" /\ n.gate = p.next)
        /\ n.gate \in 1..LastGate
    BY <2>1 DEF V2Transition, V2Node
  <2>3. CASE n.gate = p.gate
    BY <2>2, <2>3, <1>7
  <2>4. CASE p.state = "closed" /\ n.gate = p.next
    <3>1. p.gate \in 1..LastGate /\ p.next = Following(p.gate)
      BY <1>4, <1>5, <2>2, <2>4 DEF V1Snapshots, V2Snapshots
    <3> QED BY <2>2, <2>4, <3>1, <1>2, <1>7
  <2> QED BY <2>2, <2>3, <2>4
<1> QED BY <1>1, <1>6, <1>7

\* A chain over the line is what the property of that name says.
LEMMA ChainIsOne ==
  ASSUME commits \in Seq(Trees), work \in Trees, Chain(commits, work)
  PROVE  AcceptedHistoryIsOneChain
<1>1. PICK b \in Starts : LineFrom(b)
  BY ChainLine
<1>2. /\ \A i \in 1..b - 1 : Line[i] = NoNode
      /\ IsBootstrap(Line[b])
  BY <1>1 DEF LineFrom
<1>3. \A i \in Starts : b <= i => Line[i] # NoNode
  BY <1>1, NodesShaped DEF NoNode
<1>4. ASSUME NEW i \in DOMAIN Line, i > b PROVE Line[i] # NoNode
  <2> DEFINE T == {j \in 1..Tip + 1 : j > b /\ Line[j] = NoNode}
  <2>1. T \in SUBSET Nat
    BY LineTypes
  <2>2. SUFFICES ASSUME T # {} PROVE FALSE
    BY <1>4, LineTypes
  <2>3. PICK m \in T : \A y \in T : m <= y
    <3> HIDE DEF T
    <3> QED BY <2>1, <2>2, LeastNat
  <2>4. m \in 1..Tip + 1 /\ m > b /\ Line[m] = NoNode
    BY <2>3
  <2>5. b \in 1..Tip + 1 /\ Tip \in Nat
    BY LineTypes
  <2>6. m \notin Starts
    BY <1>3, <2>4, <2>5
  <2>7. m - 1 \in 1..Tip + 1 /\ ~(m <= m - 1) /\ b <= m - 1
    BY <2>4, <2>5
  <2>8. Line[m - 1] = NoNode
    BY <2>4, <2>6, LineTypes DEF Starts
  <2>9. m - 1 = b
    BY <2>3, <2>5, <2>7, <2>8
  <2> QED BY <1>3, <2>5, <2>8, <2>9
<1>5. ASSUME NEW i \in Starts, i > b
      PROVE  LET p == Line[Before(i)] IN
             /\ ~IsBootstrap(Line[i])
             /\ Line[i].pred = Before(i)
             /\ \A j \in Starts : j < i => Line[j] # Line[i]
             /\ Line[i].schema # "v3" =>
                   /\ p.schema \in {"v1", Line[i].schema}
                   /\ Line[i].gate \in {p.gate, p.gate + 1} \/ (p.gate = LastGate /\ Line[i].gate = 1)
  <2>1. /\ ~IsBootstrap(Line[i]) /\ Line[i].pred = Before(i)
        /\ \A j \in 1..i - 1 : Line[j] # Line[i]
    BY <1>1, <1>5 DEF LineFrom
  <2>2. \A j \in Starts : j < i => j \in 1..i - 1
    BY LineTypes
  <2>3. Line[i].schema # "v3" =>
          /\ Line[Before(i)].schema \in {"v1", Line[i].schema}
          /\ \/ Line[i].gate \in {Line[Before(i)].gate, Line[Before(i)].gate + 1}
             \/ (Line[Before(i)].gate = LastGate /\ Line[i].gate = 1)
    BY <1>1, <1>5, GateStep
  <2> QED BY <2>1, <2>2, <2>3
<1> QED BY <1>2, <1>4, <1>5 DEF AcceptedHistoryIsOneChain

\* A v2 node in the chain has the type and the shape of one.
LEMMA V2Shaped ==
  ASSUME commits \in Seq(Trees), work \in Trees, NEW b \in Starts, LineFrom(b),
         NEW i \in Starts, b <= i, Line[i].schema = "v2"
  PROVE  /\ i > b /\ Line[i] \in V2Snapshots
         /\ \E t \in Trees : /\ Line[i] = t.legacy /\ V2Node(t)
                             /\ V2Transition(Line[i], Line[Before(i)])
         /\ Line[i].state = "reopened" /\ Line[i].kind \in Reaccepting => Line[i].replay = V7Verified
<1>1. i # b
  BY NodesShaped
<1>2. i > b
  BY <1>1, LineTypes
<1>3. PICK t \in Trees : /\ Line[i] = t.legacy /\ V2Node(t)
                         /\ V2Transition(Line[i], Line[Before(i)])
  BY <1>2, LinkedFacts DEF LineFrom
<1>4. Line[i] \in Snapshots \cup {NoNode}
  BY <1>3 DEF Trees, Snapshots
<1>5. Line[i] \in V2Snapshots
  BY <1>4 DEF Snapshots, V1Snapshots, V2Snapshots, V3Snapshots, NoNode
<1>6. Line[i].state = "reopened" /\ Line[i].kind \in Reaccepting => Line[i].replay = V7Verified
  BY <1>3 DEF V2Node, V2Reopened
<1> QED BY <1>2, <1>3, <1>5, <1>6

\* A stage of gate g that was reopened and verified up to boundary 7.
Verified(n, g) ==
    /\ n.schema = "v2" /\ n.state = "reopened" /\ n.replay = V7Verified /\ n.gate = g

\* Before a reacceptance is another one, or the verification itself.
LEMMA ReacceptanceStep ==
  ASSUME NEW n \in V2Snapshots, NEW p, p.schema = "v2" => p \in V2Snapshots,
         p.state = "reopened" /\ p.kind \in Reaccepting => p.replay = V7Verified,
         NEW g, Verified(n, g), n.kind \in Reaccepting, V2Transition(n, p)
  PROVE  Verified(p, g) /\ p.kind \in Reaccepting \cup {"changed"}
<1>1. ReopenTransition(n, p) /\ n.kind # "changed" /\ n.state = "reopened" /\ n.replay = V7Verified
  BY DEF V2Transition, V2PostRelease, Verified, Reaccepting
<1>2. p.schema = "v2" /\ p.state = "reopened" /\ p \in V2Snapshots
  BY <1>1 DEF ReopenTransition, ReopensClosed
<1>3. p.gate = g
  BY <1>2 DEF V2Transition, Verified
<1>4. V7Verified.state = "verified" /\ V7Verified.boundary = 7 /\ V7Verified.correction = "agent"
  BY DEF V7Verified, Replay
<1>5. CASE ReopenedSuccessor(n, p)
  BY <1>1, <1>2, <1>4, <1>5 DEF ReopenedSuccessor
<1>6. SameStage(n, p) => n.replay = p.replay
  <2> SUFFICES ASSUME SameStage(n, p) PROVE n.replay = p.replay
    OBVIOUS
  <2>1. n = [p EXCEPT !.pred = n.pred, !.kind = n.kind, !.digest = n.digest]
    BY DEF SameStage
  <2>2. p = [x \in DOMAIN p |-> p[x]] /\ "replay" \in DOMAIN p
    BY <1>2 DEF V2Snapshots
  <2> QED BY <2>1, <2>2
<1>7. CASE ReopenedReacceptance(n, p)
  BY <1>1, <1>2, <1>3, <1>6, <1>7 DEF ReopenedReacceptance, Verified
<1>8. CASE ReacceptanceCorrection(n, p)
  BY <1>1, <1>2, <1>3, <1>6, <1>8 DEF ReacceptanceCorrection, Verified
<1>9. CASE <<p.replay, n.replay>> \in ReplayTransitions
  BY <1>1, <1>9 DEF ReplayTransitions, V7Verified, Replay
<1>10. p.state # "closed"
  BY <1>2
<1> QED BY <1>1, <1>5, <1>7, <1>8, <1>9, <1>10 DEF ReopenTransition, ReopensClosed

\* In a chain, a close of the last boundary follows reacceptance.
LEMMA ChainReaccepted ==
  ASSUME commits \in Seq(Trees), work \in Trees, Chain(commits, work)
  PROVE  CloseFollowsReacceptance
<1>1. PICK b \in Starts : LineFrom(b)
  BY ChainLine
<1>2. SUFFICES ASSUME NEW i \in Starts,
                      Line[i].schema = "v2", Line[i].state = "closed",
                      Line[i].kind # "post-release-reconciliation", Line[i].replay.boundary = 7
               PROVE  \E j \in Starts :
                        /\ j < i
                        /\ Line[j].schema = "v2" /\ Line[j].kind = "changed"
                        /\ \A k \in Starts : j <= k /\ k < i =>
                              /\ Line[k].state = "reopened" /\ Line[k].replay = V7Verified
                              /\ Line[k].gate = Line[i].gate
                              /\ k > j => Line[k].kind \in Reaccepting
                        /\ \E k \in Starts : j < k /\ k < i
  BY DEF CloseFollowsReacceptance
<1> DEFINE g == Line[i].gate
           Again(k) == Verified(Line[k], g) /\ Line[k].kind \in Reaccepting
           T == {k \in Starts : b <= k /\ k < i /\ \A m \in Starts : k <= m /\ m < i => Again(m)}
<1>3. b \in Nat /\ i \in Nat /\ Starts \subseteq Nat
  BY LineTypes
<1>4. i > b
  <2>1. ~(i < b)
    <3> SUFFICES ASSUME i < b PROVE FALSE
      OBVIOUS
    <3>1. i \in 1..b - 1
      BY LineTypes
    <3> QED BY <1>1, <1>2, <3>1 DEF LineFrom, NoNode
  <2>2. Line[b].schema = "v1"
    BY <1>1 DEF LineFrom, IsBootstrap
  <2> QED BY <1>2, <1>3, <2>1, <2>2
<1>5. ASSUME NEW k \in Starts, b < k
      PROVE  /\ Before(k) \in Starts /\ b <= Before(k) /\ Before(k) < k
             /\ \A m \in Starts : m < k => m <= Before(k)
  BY <1>1, <1>5 DEF LineFrom
<1>6. ASSUME NEW k \in Starts, b <= k, Line[k].schema = "v2"
      PROVE  /\ b < k /\ Line[k] \in V2Snapshots
             /\ V2Transition(Line[k], Line[Before(k)])
             /\ Line[k].state = "reopened" /\ Line[k].kind \in Reaccepting => Line[k].replay = V7Verified
  BY <1>1, <1>6, V2Shaped
<1> DEFINE q == Before(i)
<1>7. q \in Starts /\ b <= q /\ q < i /\ \A m \in Starts : m < i => m <= q
  BY <1>4, <1>5
<1>8. V2Transition(Line[i], Line[q])
  BY <1>2, <1>3, <1>4, <1>6
<1> HIDE DEF q
<1>9. Again(q)
  <2>1. CloseTransition(Line[i], Line[q]) /\ Line[q].state # "closed" /\ g = Line[q].gate
    BY <1>2, <1>8 DEF V2Transition, V2PostRelease, CloseTransition
  <2>2. /\ Line[q].schema = "v2" /\ Line[q].state = "reopened"
        /\ Line[q].kind \in Reaccepting
    BY <1>2, <2>1 DEF CloseTransition
  <2>3. Line[q].replay = V7Verified
    BY <1>6, <1>7, <2>2
  <2> QED BY <2>1, <2>2, <2>3 DEF Verified
<1>10. q \in T
  <2>1. \A m \in Starts : q <= m /\ m < i => m = q
    BY <1>3, <1>7
  <2> HIDE DEF Again
  <2> QED BY <1>7, <1>9, <2>1
<1>11. T \in SUBSET Nat /\ T # {}
  <2> HIDE DEF Again
  <2> QED BY <1>3, <1>10
<1>12. PICK k \in T : \A y \in T : k <= y
  <2> HIDE DEF T
  <2> QED BY <1>11, LeastNat
<1>13. /\ k \in Starts /\ b <= k /\ k < i
       /\ \A m \in Starts : k <= m /\ m < i => Again(m)
       /\ Again(k)
  <2>1. /\ k \in Starts /\ b <= k /\ k < i
        /\ \A m \in Starts : k <= m /\ m < i => Again(m)
    BY <1>12
  <2>2. k <= k
    BY <1>3, <2>1
  <2> QED BY <2>1, <2>2
<1> DEFINE j == Before(k)
<1>14. b < k /\ Line[k] \in V2Snapshots /\ V2Transition(Line[k], Line[j])
  BY <1>6, <1>13 DEF Verified
<1>15. j \in Starts /\ b <= j /\ j < k /\ \A m \in Starts : m < k => m <= j
  BY <1>5, <1>13, <1>14
<1> HIDE DEF j
<1>16. Verified(Line[j], g) /\ Line[j].kind \in Reaccepting \cup {"changed"}
  <2>1. /\ Line[j].schema = "v2" => Line[j] \in V2Snapshots
        /\ Line[j].state = "reopened" /\ Line[j].kind \in Reaccepting => Line[j].replay = V7Verified
    <3>1. Line[j].schema = "v2"
      <4>1. ReopenTransition(Line[k], Line[j]) /\ Line[k].kind # "changed"
        BY <1>13, <1>14 DEF V2Transition, V2PostRelease, Verified, Reaccepting
      <4> QED BY <4>1 DEF ReopenTransition, ReopensClosed
    <3> QED BY <1>6, <1>15, <3>1
  <2> QED BY <1>13, <1>14, <2>1, ReacceptanceStep
<1>17. ASSUME NEW m \in Starts, j <= m, m < i PROVE m = j \/ (m > j /\ Again(m))
  <2>1. m < k => m = j
    BY <1>3, <1>15, <1>17
  <2>2. k <= m => m > j /\ Again(m)
    BY <1>3, <1>13, <1>15, <1>17
  <2> QED BY <1>3, <1>13, <2>1, <2>2
<1>18. Line[j].kind = "changed"
  <2> SUFFICES ASSUME Line[j].kind \in Reaccepting PROVE FALSE
    BY <1>16
  <2>1. \A m \in Starts : j <= m /\ m < i => Again(m)
    BY <1>16, <1>17
  <2>2. j < i
    BY <1>3, <1>13, <1>15
  <2> HIDE DEF Again
  <2>3. j \in T
    BY <1>15, <2>1, <2>2
  <2> QED BY <1>3, <1>12, <1>13, <1>15, <2>3
<1>19. j < i
  BY <1>3, <1>13, <1>15
<1>20. ASSUME NEW m \in Starts, j <= m, m < i
       PROVE  /\ Line[m].state = "reopened" /\ Line[m].replay = V7Verified
              /\ Line[m].gate = Line[i].gate
              /\ m > j => Line[m].kind \in Reaccepting
  <2>1. CASE m = j
    <3>1. ~(m > j)
      BY <2>1, <1>3, <1>15
    <3>2. Verified(Line[m], g)
      BY <2>1, <1>16
    <3> QED BY <3>1, <3>2 DEF Verified
  <2>2. CASE m > j /\ Again(m)
    BY <2>2 DEF Verified
  <2> QED BY <1>17, <1>20, <2>1, <2>2
<1> QED BY <1>13, <1>15, <1>16, <1>18, <1>19, <1>20 DEF Verified

(***************************************************************************)
(* Maintenance after a release                                             *)
(***************************************************************************)

\* What one maintenance transition leaves as it was.
Kept(t, b) ==
    /\ t.dist = b.dist /\ t.bound = b.bound
    /\ t.files["package"] = b.files["package"]
    /\ t.legacy = b.legacy
    /\ \A d \in {"record", "constitution", "plan"} : t.docs[d] = b.docs[d]
    /\ Digest(t) = Digest(b)

\* The decision of a maintenance transition keeps the release.
LEMMA DecisionKeeps ==
  ASSUME NEW t \in Trees, NEW b \in Trees, Decision(t, b)
  PROVE  Kept(t, b)
<1> DEFINE n == NodeOf(t)
<1>1. n.kind \in Maintenance
  BY NodeTypes DEF Decision, V3Node, V3Shape, V3Snapshots
<1>2. /\ t.dist = b.dist /\ t.legacy = b.legacy
      /\ t.docs["record"] = b.docs["record"] /\ t.docs["plan"] = b.docs["plan"]
      /\ t.bound["package"] = b.bound["package"]
  BY DEF Decision, ReleaseBasis
<1>3. t.docs["constitution"] = b.docs["constitution"] /\ t.docs["golden"] = b.docs["golden"]
  BY DEF Decision, DocumentsKept
<1>4. t.docs["text"] = b.docs["text"] /\ \A f \in {"evidence", "notes"} : t.bound[f] = b.bound[f]
  <2>1. CASE n.kind = "transition-contract-migration"
    <3>1. Acceptance([t EXCEPT !.docs["note"] = 0]) = Acceptance([b EXCEPT !.docs["note"] = 0])
      BY <2>1 DEF Decision, DocumentsKept
    <3>2. \A x \in Trees : /\ [x EXCEPT !.docs["note"] = 0].docs["text"] = x.docs["text"]
                           /\ [x EXCEPT !.docs["note"] = 0].bound = x.bound
      BY DEF Trees, Docs
    <3> QED BY <3>1, <3>2 DEF Acceptance
  <2>2. CASE n.kind = "repository-presentation"
    BY <2>2 DEF Decision, DocumentsKept, Acceptance
  <2> QED BY <1>1, <2>1, <2>2 DEF Maintenance
<1>5. t.files["package"] = b.files["package"]
  <2>1. "package" \notin ObservedPaths(t, b)
    BY DEF Decision, Migration, Presentation, MigrationPaths, PresentationPaths
  <2>2. "package" \notin Changed(t, b)
    BY <2>1 DEF ObservedPaths
  <2> QED BY <2>2 DEF Changed, Files
<1>6. t.bound = b.bound
  BY <1>2, <1>4 DEF Trees, Declared
<1> QED BY <1>2, <1>3, <1>4, <1>5, <1>6 DEF Kept, Digest

\* Once it has begun, maintenance does not end in the chain: before a node of
\* an older schema there is no v3 node.
LEMMA OlderBeforeMaintenance ==
  ASSUME commits \in Seq(Trees), work \in Trees, NEW b \in Starts, LineFrom(b),
         NEW s \in Starts, b <= s, Line[s].schema \in {"v1", "v2"},
         NEW m \in Starts, m <= s
  PROVE  Line[m].schema # "v3"
<1>1. SUFFICES ASSUME Line[m].schema = "v3" PROVE FALSE
  OBVIOUS
<1>2. Starts \subseteq Nat /\ b \in Nat /\ s \in Nat /\ m \in Nat
  BY LineTypes
<1>3. b < m
  <2>1. ~(m < b)
    <3> SUFFICES ASSUME m < b PROVE FALSE
      OBVIOUS
    <3>1. m \in 1..b - 1
      BY LineTypes
    <3> QED BY <1>1, <3>1 DEF LineFrom, NoNode
  <2>2. Line[b].schema = "v1"
    BY DEF LineFrom, IsBootstrap
  <2> QED BY <1>1, <1>2, <2>1, <2>2
<1> DEFINE T == {k \in Starts : m < k /\ Line[k].schema \in {"v1", "v2"}}
<1>4. s \in T
  BY <1>1, <1>2
<1>5. PICK k \in T : \A y \in T : k <= y
  <2>1. T \in SUBSET Nat
    BY <1>2
  <2> HIDE DEF T
  <2> QED BY <1>4, <2>1, LeastNat
<1>6. k \in Starts /\ m < k /\ k > b /\ Line[k].schema \in {"v1", "v2"}
  BY <1>2, <1>3, <1>5
<1> DEFINE r == Before(k)
<1>7. r \in Starts /\ r < k /\ m <= r
  BY <1>6 DEF LineFrom
<1>8. Line[r].schema \in {"v1", "v2"}
  BY <1>6, GateStep
<1> HIDE DEF r
<1>9. r \in T
  BY <1>1, <1>2, <1>7, <1>8
<1> QED BY <1>2, <1>5, <1>6, <1>7, <1>9

\* What a verdict of acceptance is worth, of a history and a worktree alone.
Judged(c, w) ==
    /\ Chain(c, w)
    /\ NodeOf(w).schema \in {"v1", "v2", "v3"}
    /\ NodeOf(w).pred \in 0..Len(c)
    /\ NodeOf(w).digest = Digest(w)
    /\ NodeOf(w).schema = "v3" => Decision(w, c[NodeOf(w).pred])

\* The worktree's run in a chain.
LEMMA WorkInLine ==
  ASSUME commits \in Seq(Trees), work \in Trees, NEW b \in Starts, LineFrom(b),
         Here.schema = "v3"
  PROVE  \E o \in Starts : /\ b < o /\ Line[o] = Here
                           /\ \A k \in Starts : k <= o
<1>1. /\ Tip \in Nat /\ Starts \subseteq 1..Tip + 1 /\ Starts \subseteq Nat
      /\ Line[Tip + 1] = Here
  <2>1. Tip + 1 \in 1..Tip + 1
    BY LineTypes
  <2> QED BY <2>1, LineTypes, AfterHistory
<1> DEFINE D == {i \in 1..Tip + 1 : \A k \in i..Tip + 1 : Line[k] = Here}
<1>2. PICK o \in D : \A y \in D : o <= y
  <2>1. Tip + 1 \in D /\ D \in SUBSET Nat
    BY <1>1
  <2> HIDE DEF D
  <2> QED BY <2>1, LeastNat
<1>3. o \in 1..Tip + 1 /\ \A k \in o..Tip + 1 : Line[k] = Here
  BY <1>2
<1>4. o \in Starts
  <2> SUFFICES ASSUME o # 1, Line[o] = Line[o - 1] PROVE FALSE
    BY <1>3, LineTypes DEF Starts
  <2>1. o - 1 \in 1..Tip + 1 /\ ~(o <= o - 1) /\ o \in o..Tip + 1
    BY <1>1, <1>3
  <2>2. \A k \in o - 1..Tip + 1 : k = o - 1 \/ k \in o..Tip + 1
    BY <1>1, <1>3
  <2>3. o - 1 \in D
    BY <1>3, <2>1, <2>2
  <2> QED BY <1>2, <2>1, <2>3
<1>5. Line[o] = Here
  BY <1>1, <1>3
<1>6. \A k \in Starts : k <= o
  <2> SUFFICES ASSUME NEW k \in Starts, o < k PROVE FALSE
    BY <1>1, <1>3
  <2>1. k # 1 /\ k \in o..Tip + 1 /\ k - 1 \in o..Tip + 1
    BY <1>1, <1>3
  <2> QED BY <1>3, <2>1 DEF Starts
<1>7. b < o
  <2>1. b <= o /\ Line[b].schema = "v1"
    BY <1>6 DEF LineFrom, IsBootstrap
  <2>2. b # o
    BY <1>5, <2>1
  <2> QED BY <2>1, <2>2, <1>1, <1>3
<1> QED BY <1>4, <1>5, <1>6, <1>7

\* A set inside a pair has at most two elements.
LEMMA AtMostTwo ==
  ASSUME NEW x, NEW y, NEW S \in SUBSET {x, y}
  PROVE  Cardinality(S) <= 2
<1>1. IsFiniteSet({x}) /\ Cardinality({x}) = 1
  BY FS_Singleton
<1>2. IsFiniteSet({x} \cup {y}) /\ Cardinality({x} \cup {y}) <= 2
  BY <1>1, FS_AddElement
<1>3. {x} \cup {y} = {x, y}
  OBVIOUS
<1>4. IsFiniteSet(S) /\ Cardinality(S) <= Cardinality({x} \cup {y})
  BY <1>2, <1>3, FS_Subset
<1>5. Cardinality(S) \in Nat /\ Cardinality({x} \cup {y}) \in Nat
  BY <1>2, <1>4, FS_CardinalityType
<1> QED BY <1>2, <1>4, <1>5

\* An accepted maintenance cycle is the migration, then at most the
\* presentation, and the release is as it was when the migration found it.
LEMMA JudgedKeepsRelease ==
  ASSUME commits \in Seq(Trees), work \in Trees, Judged(commits, work)
  PROVE  MaintenanceKeepsRelease
<1> SUFFICES ASSUME Here.schema = "v3" PROVE MaintenanceKeepsRelease
  BY DEF MaintenanceKeepsRelease
<1>1. PICK b \in Starts : LineFrom(b)
  BY ChainLine DEF Judged
<1>2. PICK o \in Starts : b < o /\ Line[o] = Here /\ \A k \in Starts : k <= o
  BY <1>1, WorkInLine
<1>3. Starts \subseteq Nat /\ Tip \in Nat /\ Starts \subseteq 1..Tip + 1
  BY LineTypes
<1> DEFINE q == Before(o)
<1>4. /\ q \in Starts /\ b <= q /\ q < o /\ \A k \in Starts : k < o => k <= q
      /\ Here.pred = q
      /\ \A j \in 1..o - 1 : Line[j] # Here
      /\ Linked(q, o)
  BY <1>1, <1>2 DEF LineFrom
<1>5. q \in 1..Tip /\ Line[q] = NodeOf(commits[q]) /\ commits[q] \in Trees
  BY <1>4, LineTypes DEF Linked
<1>6. Decision(work, commits[q])
  BY <1>4 DEF Judged, Here
<1> HIDE DEF q
<1>7. Kept(work, commits[q]) /\ Here.kind \in Maintenance
  BY <1>5, <1>6, DecisionKeeps, NodeTypes DEF V3Snapshots, Here
<1> DEFINE released == commits[MigrationRef]
           cycle == {i \in Starts : Line[i].schema = "v3"}
<1>8. ASSUME NEW t \in Trees, NEW x \in 1..Tip, Decision(t, commits[x]),
             NodeOf(t).kind = "transition-contract-migration", NodeOf(t).pred = x
      PROVE  /\ x = MigrationRef /\ released.legacy.state = "closed"
             /\ NodeOf(released).schema = "v2"
  <2>1. x = MigrationRef /\ Migration(t, commits[x])
    BY <1>8 DEF Decision, V3Node
  <2>2. NodeOf(released).schema = "v2" /\ NodeOf(released).state = "closed"
    BY <2>1 DEF Migration
  <2>3. released \in Trees
    BY <1>8, <2>1, LineTypes
  <2> QED BY <2>1, <2>2, <2>3, NodeTypes
<1>9. SUFFICES /\ released.legacy.state = "closed"
               /\ Kept(work, released)
               /\ Cardinality(cycle) <= 2
               /\ \A i \in cycle : Line[i].kind = "transition-contract-migration" <=> Line[i].pred = MigrationRef
  BY DEF MaintenanceKeepsRelease, Kept
<1>10. CASE Here.kind = "transition-contract-migration"
  <2>1. /\ q = MigrationRef /\ released.legacy.state = "closed"
        /\ NodeOf(released).schema = "v2"
    BY <1>4, <1>5, <1>6, <1>8, <1>10 DEF Here
  <2>2. cycle \subseteq {o}
    <3> SUFFICES ASSUME NEW i \in Starts, Line[i].schema = "v3", i # o PROVE FALSE
      OBVIOUS
    <3>1. i <= q
      BY <1>2, <1>3, <1>4
    <3>2. Line[q].schema = "v2"
      BY <1>5, <2>1
    <3> QED BY <1>1, <1>4, <3>1, <3>2, OlderBeforeMaintenance
  <2>3. Cardinality(cycle) <= 2
    <3> HIDE DEF cycle
    <3> QED BY <2>2, AtMostTwo
  <2>4. \A i \in cycle : Line[i] = Here
    BY <1>2, <2>2
  <2> QED BY <1>4, <1>7, <1>10, <2>1, <2>3, <2>4
<1>11. CASE Here.kind = "repository-presentation"
  <2>1. Presentation(work, commits[q])
    BY <1>6, <1>11 DEF Decision, Here
  <2>2. /\ Line[q].kind = "transition-contract-migration" /\ Line[q].schema = "v3"
        /\ Line[q].pred = MigrationRef
    BY <1>5, <2>1 DEF Presentation, V3Node, V3Shape
  <2> DEFINE r == Before(q)
  <2>3. b < q
    <3>1. Line[b].schema = "v1"
      BY <1>1 DEF LineFrom, IsBootstrap
    <3> QED BY <1>3, <1>4, <2>2, <3>1
  <2>4. /\ r \in Starts /\ b <= r /\ r < q /\ \A k \in Starts : k < q => k <= r
        /\ Line[q].pred = r
        /\ Linked(r, q)
    BY <1>1, <1>4, <2>3 DEF LineFrom
  <2>5. r \in 1..Tip /\ Line[r] = NodeOf(commits[r])
    BY <2>4 DEF Linked
  <2> HIDE DEF r
  <2>6. PICK t \in {TreeIn(commits, work, q), work} :
           t \in Trees /\ NodeOf(t) = Line[q] /\ Decision(t, commits[r])
    BY <2>2, <2>4, LinkedFacts
  <2>7. t = commits[q]
    <3>1. TreeIn(commits, work, q) = commits[q]
      BY <1>3, <1>5, InHistory
    <3>2. Line[q] # Here
      BY <1>2, <2>2, <1>11
    <3> QED BY <2>6, <3>1, <3>2 DEF Here
  <2>8. /\ r = MigrationRef /\ released.legacy.state = "closed"
        /\ NodeOf(released).schema = "v2"
    BY <2>2, <2>4, <2>5, <2>6, <1>8
  <2>9. Kept(commits[q], released)
    <3>1. commits[r] \in Trees
      BY <2>5, LineTypes
    <3> QED BY <1>5, <2>6, <2>7, <2>8, <3>1, DecisionKeeps
  <2>10. Kept(work, released)
    BY <1>7, <2>9 DEF Kept
  <2>11. cycle \subseteq {o, q}
    <3> SUFFICES ASSUME NEW i \in Starts, Line[i].schema = "v3", i # o, i # q PROVE FALSE
      OBVIOUS
    <3>1. i <= r
      <4>1. i <= o /\ i \in Nat /\ o \in Nat /\ q \in Nat
        BY <1>2, <1>3, <1>4
      <4>2. i < o
        BY <4>1
      <4>3. i <= q
        BY <1>4, <4>2
      <4>4. i < q
        BY <4>1, <4>3
      <4> QED BY <2>4, <4>4
    <3>2. Line[r].schema = "v2"
      BY <2>5, <2>8
    <3> QED BY <1>1, <2>4, <3>1, <3>2, OlderBeforeMaintenance
  <2>12. Cardinality(cycle) <= 2
    <3> HIDE DEF cycle
    <3> QED BY <2>11, AtMostTwo
  <2>13. Line[o].kind # "transition-contract-migration" /\ Line[o].pred # MigrationRef
    BY <1>2, <1>3, <1>4, <1>11, <2>4, <2>8
  <2>14. \A i \in cycle : i = o \/ i = q
    BY <2>11
  <2> QED BY <2>2, <2>8, <2>10, <2>12, <2>13, <2>14
<1> QED BY <1>7, <1>10, <1>11 DEF Maintenance

(***************************************************************************)
(* What a maintainer writes is a tree                                      *)
(***************************************************************************)

\* A digest is one, and the gate after a gate is one or none.
LEMMA SmallTypes ==
  /\ \A t \in Trees : Digest(t) \in Digests
  /\ \A g \in 1..LastGate : Following(g) \in 0..LastGate
<1>1. \A t \in Trees : Digest(t) \in Digests
  BY DEF Digest, Digests, Trees, Docs
<1>2. \A g \in 1..LastGate : Following(g) \in 0..LastGate
  BY NumbersAssumption DEF Following
<1> QED BY <1>1, <1>2

\* References are commits of the history.
LEMMA ReferencesAreCommits ==
  ASSUME Tip \in Nat, Tip > 0
  PROVE  References \subseteq 1..Tip
  BY RunStartFacts DEF References

\* A v1 node in a tree makes a tree.
LEMMA PlaceV1Type ==
  ASSUME Tip \in Nat, Tip > 0, work \in Trees, NEW n \in V1Nodes(work)
  PROVE  PlaceV1(work, n) \in Trees
<1>1. n \in V1Snapshots
  <2>1. /\ work.dist \in Nat /\ Digest(work) \in Digests
        /\ \A g \in 1..LastGate : Following(g) \in 0..LastGate
        /\ \A r \in References : r \in Nat
    BY SmallTypes, ReferencesAreCommits DEF Trees
  <2>2. {"Q4"} \in SUBSET Criteria /\ {} \in SUBSET Criteria /\ Criteria \in SUBSET Criteria
    BY DEF Criteria
  <2> QED BY <2>1, <2>2 DEF V1Nodes, V1Snapshots
<1> QED BY <1>1 DEF PlaceV1, Trees

\* A v2 node in a tree makes a tree.
LEMMA PlaceV2Type ==
  ASSUME Tip \in Nat, Tip > 0, work \in Trees, NEW n \in V2Nodes(work)
  PROVE  PlaceV2(work, n) \in Trees
<1>1. n \in V2Snapshots
  <2>1. /\ work.dist \in Nat /\ Digest(work) \in Digests
        /\ \A g \in 1..LastGate : g \in 0..LastGate /\ Following(g) \in 0..LastGate
        /\ \A r \in References : r \in Nat
    BY SmallTypes, ReferencesAreCommits DEF Trees
  <2>2. V7Verified \in ReplayStates /\ Replays \subseteq ReplayStates
    BY ContentAssumption DEF V7Verified, Replay, ReplayStates
  <2>3. \A k \in Reaccepting : k \in {"changed", "post-release-reconciliation"} \cup Reaccepting
    OBVIOUS
  <2> QED BY <2>1, <2>2, <2>3 DEF V2Nodes, V2Snapshots
<1>2. n.replay.boundary \in 3..7 /\ n.replay.state \in {"pending", "verified"}
  BY <1>1 DEF V2Snapshots, ReplayStates
<1> DEFINE open == n.state = "reopened"
           v == [c \in Criteria |-> c # "R3" \/ ~open]
           l == [boundary |-> n.replay.boundary, state |-> n.replay.state]
<1>3. v \in [Criteria -> BOOLEAN]
  OBVIOUS
<1>4. l \in [boundary : 3..7, state : {"pending", "verified"}]
  BY <1>2
<1> HIDE DEF v, l
<1>5. PICK s, c, p :
        /\ s = (IF n.state = "reopened" THEN "active" ELSE "ready")
        /\ c = (IF n.state = "reopened" THEN "active" ELSE "completed")
        /\ p = (IF n.kind = "changed" THEN "replay" ELSE "reaccept")
  OBVIOUS
<1>6. s \in {"active", "ready"} /\ c \in {"active", "completed"} /\ p \in {"replay", "reaccept"}
  BY <1>5
<1>7. n \in {NoNode} \cup V1Snapshots \cup V2Snapshots
  BY <1>1
<1>8. NoCycle \in {NoCycle} \cup [progress : Maintenance, node : V3Snapshots]
  OBVIOUS
<1>9. [work EXCEPT !.legacy = n, !.cycle = NoCycle, !.status = s, !.increment = c,
                   !.verified = v, !.step = p, !.lifecycle = l] \in Trees
  BY <1>3, <1>4, <1>6, <1>7, <1>8 DEF Trees
<1> QED BY <1>5, <1>9 DEF PlaceV2, v, l

\* A v3 node in a tree makes a tree.
LEMMA PlaceV3Type ==
  ASSUME Tip \in Nat, Tip > 0, work \in Trees, NEW n \in V3Nodes(work)
  PROVE  PlaceV3(work, n) \in Trees
<1>1. n \in V3Snapshots
  BY SmallTypes, ReferencesAreCommits DEF V3Nodes, V3Snapshots
<1>2. [work.docs EXCEPT !["budget"] = 1, !["note"] = 1] \in [Docs -> 0..2]
  <2>1. work.docs \in [Docs -> 0..2] /\ 1 \in 0..2
    BY DEF Trees
  <2> QED BY <2>1
<1>3. [progress |-> n.kind, node |-> n] \in [progress : Maintenance, node : V3Snapshots]
  BY <1>1 DEF V3Snapshots
<1> QED BY <1>2, <1>3 DEF PlaceV3, Trees

\* Rewriting parts of a tree makes a tree.
LEMMA RevisedType ==
  ASSUME NEW t \in Trees, NEW parts
  PROVE  Revised(t, parts) \in Trees
<1>1. \A v \in 0..2 : (v + 1) % 3 \in 0..2
  OBVIOUS
<1> DEFINE docs == [d \in Docs |-> IF d \in parts THEN (t.docs[d] + 1) % 3 ELSE t.docs[d]]
           files == [f \in Files |-> IF f \in parts THEN (t.files[f] + 1) % 3 ELSE t.files[f]]
           bound == [f \in Declared |-> IF "digests" \in parts
                                        THEN IF f \in parts THEN (t.files[f] + 1) % 3 ELSE t.files[f]
                                        ELSE t.bound[f]]
<1>2. /\ \A d \in Docs : t.docs[d] \in 0..2
      /\ \A f \in Files : t.files[f] \in 0..2
      /\ \A f \in Declared : t.bound[f] \in 0..2 /\ f \in Files
  BY DEF Trees, Declared, Files
<1>3. docs \in [Docs -> 0..2]
  BY <1>1, <1>2
<1>4. files \in [Files -> 0..2]
  BY <1>1, <1>2
<1>5. bound \in [Declared -> 0..2]
  BY <1>1, <1>2
<1> HIDE DEF docs, files, bound
<1>6. PICK n, v : /\ n = (IF "node" \in parts THEN NoNode ELSE t.legacy)
                 /\ v = (IF "dist" \in parts THEN t.dist + 1 ELSE t.dist)
  OBVIOUS
<1>7. n \in {NoNode} \cup V1Snapshots \cup V2Snapshots /\ v \in Nat
  BY <1>6 DEF Trees
<1>8. [t EXCEPT !.legacy = n, !.docs = docs, !.files = files, !.dist = v,
                !.bound = bound] \in Trees
  BY <1>3, <1>4, <1>5, <1>7 DEF Trees
<1> QED BY <1>6, <1>8 DEF Revised, docs, files, bound

(***************************************************************************)
(* The invariant                                                           *)
(***************************************************************************)

\* An accepting verdict is worth what Judged says.
LEMMA AcceptsJudged ==
  ASSUME commits \in Seq(Trees), work \in Trees, Tip > 0, Accepts
  PROVE  Judged(commits, work)
<1>1. Tip \in Nat
  BY DEF Tip
<1>2. Chain(commits, work)
  BY <1>1, AcceptsChain
<1>3. /\ Here.schema \in {"v1", "v2", "v3"} /\ Here.digest = Digest(work)
      /\ IsBootstrap(Here) => Latest = 0 /\ V1Node(work)
      /\ ~IsBootstrap(Here) =>
           /\ Latest # 0 /\ Here.pred = Latest
           /\ Continues(work, commits[Latest])
  BY AcceptsFacts
<1>4. Here.pred \in 0..Tip
  <2>1. CASE IsBootstrap(Here)
    <3>1. Here = work.legacy
      BY <2>1, NodeTypes DEF IsBootstrap, Here
    <3>2. Here.pred = 0
      BY <1>3, <2>1, <3>1 DEF V1Node, IsBootstrap
    <3> QED BY <3>2, <1>1
  <2>2. CASE ~IsBootstrap(Here)
    <3> DEFINE p == PriorEnd(Here, Tip)
    <3>1. /\ p \in 0..Tip
          /\ Latest = IF p > 0 /\ NodeAt(p) # NoNode THEN RunStart(p) ELSE 0
      BY <1>1, RunOfWork
    <3>2. p \in Nat /\ p > 0 /\ Latest = RunStart(p)
      BY <1>3, <2>2, <3>1
    <3>3. Latest \in 1..p
      BY <3>2, RunStartFacts
    <3> HIDE DEF p
    <3> QED BY <1>1, <1>3, <2>2, <3>1, <3>3
  <2> QED BY <2>1, <2>2
<1>5. Here.schema = "v3" => Decision(work, commits[Here.pred])
  BY <1>3 DEF IsBootstrap, Continues, Here
<1> QED BY <1>2, <1>3, <1>4, <1>5 DEF Judged, Here, Tip

\* The inductive invariant: types, and what an accepting verdict is worth.
IInv ==
    /\ commits \in Seq(Trees) /\ Len(commits) > 0 /\ work \in Trees
    /\ verdict \in {"unchecked", "accepted", "refused"}
    /\ added \in 0..MaxCommits /\ edits \in 0..MaxEdits /\ strays \in 0..MaxStrays
    /\ verdict = "accepted" => Judged(commits, work)

\* A repository starts with a history of trees and nothing judged.
LEMMA InitIInv == Init => IInv
<1> SUFFICES ASSUME Init PROVE IInv
  OBVIOUS
<1>1. commits \in Seq(Trees) /\ commits # <<>>
  BY ContentAssumption DEF Init
<1>2. Len(commits) \in Nat /\ Len(commits) > 0 /\ commits[Len(commits)] \in Trees
  BY <1>1
<1> QED BY <1>1, <1>2, NumbersAssumption DEF Init, IInv

\* Every step keeps it: an edit or a commit withdraws the verdict, and a check
\* gives it on what Accepts says.
LEMMA NextIInv == IInv /\ [Next]_vars => IInv'
<1> SUFFICES ASSUME IInv, [Next]_vars PROVE IInv'
  OBVIOUS
<1> USE NumbersAssumption
<1>1. Tip \in Nat /\ Tip > 0 /\ Tip = Len(commits)
  BY DEF IInv, Tip
<1>2. ASSUME NEW t \in Trees, Rewrite(t), edits' \in 0..MaxEdits PROVE IInv'
  BY <1>2 DEF IInv, Rewrite
<1>3. CASE WriteV1Node
  <2>1. PICK n \in V1Nodes(work) : Rewrite(PlaceV1(work, n))
    BY <1>3 DEF WriteV1Node
  <2>2. PlaceV1(work, n) \in Trees /\ edits' \in 0..MaxEdits
    BY <1>1, <1>3, PlaceV1Type DEF WriteV1Node, IInv
  <2> QED BY <1>2, <2>1, <2>2
<1>4. CASE WriteV2Node
  <2>1. PICK n \in V2Nodes(work) : Rewrite(PlaceV2(work, n))
    BY <1>4 DEF WriteV2Node
  <2>2. PlaceV2(work, n) \in Trees /\ edits' \in 0..MaxEdits
    BY <1>1, <1>4, PlaceV2Type DEF WriteV2Node, IInv
  <2> QED BY <1>2, <2>1, <2>2
<1>5. CASE WriteV3Node
  <2>1. PICK n \in V3Nodes(work) : Rewrite(PlaceV3(work, n))
    BY <1>5 DEF WriteV3Node
  <2>2. PlaceV3(work, n) \in Trees /\ edits' \in 0..MaxEdits
    BY <1>1, <1>5, PlaceV3Type DEF WriteV3Node, IInv
  <2> QED BY <1>2, <2>1, <2>2
<1>6. CASE Revise
  <2>1. PICK parts \in Revisions : Rewrite(Revised(work, parts))
    BY <1>6 DEF Revise
  <2>2. Revised(work, parts) \in Trees
    BY RevisedType DEF IInv
  <2>3. edits' \in 0..MaxEdits
    BY <1>6 DEF Revise, IInv
  <2> QED BY <1>2, <2>1, <2>2, <2>3
<1>7. CASE Revert
  <2>1. PICK i \in 1..Tip : Rewrite(commits[i])
    BY <1>7 DEF Revert
  <2>2. commits[i] \in Trees
    BY <1>1 DEF IInv
  <2>3. edits' \in 0..MaxEdits
    BY <1>7 DEF Revert, IInv
  <2> QED BY <1>2, <2>1, <2>2, <2>3
<1>8. CASE Check
  <2>1. verdict' = "accepted" => Judged(commits, work)
    BY <1>1, <1>8, AcceptsJudged DEF Check, IInv
  <2>2. verdict' \in {"accepted", "refused"}
    BY <1>8 DEF Check
  <2> QED BY <1>8, <2>1, <2>2 DEF Check, IInv
<1>9. CASE Commit
  <2>1. commits' \in Seq(Trees) /\ Len(commits') > 0
    BY <1>9 DEF Commit, IInv
  <2>2. added' \in 0..MaxCommits /\ edits' \in 0..MaxEdits /\ verdict' = "unchecked" /\ work' = work
    BY <1>9 DEF Commit, IInv
  <2>3. strays' \in 0..MaxStrays
    BY <1>9 DEF Commit, IInv, Stray
  <2> QED BY <2>1, <2>2, <2>3 DEF IInv
<1>10. CASE UNCHANGED vars
  BY <1>10 DEF IInv, vars
<1> QED BY <1>3, <1>4, <1>5, <1>6, <1>7, <1>8, <1>9, <1>10 DEF Next

\* The invariant holds in every reachable state.
LEMMA IInvHolds == Spec => []IInv
  BY InitIInv, NextIInv, PTL DEF Spec

\* The worktree and every commit stay trees of the right types, and an
\* accepted worktree carries a node of a known schema that refers to a commit
\* of the history and gives the digest of the documents.
THEOREM TypeCorrect == Spec => []TypeOK
<1>1. IInv => TypeOK
  BY DEF IInv, Judged, TypeOK, Here, Tip
<1> QED BY <1>1, IInvHolds, PTL

\* Whatever edits, reverts and unchecked commits made the history, a worktree
\* that the validator accepts ends one chain from a bootstrap to its node.
THEOREM OneChain == Spec => []AcceptedHistoryIsOneChain
<1>1. IInv => AcceptedHistoryIsOneChain
  <2>1. CASE verdict = "accepted"
    BY <2>1, ChainIsOne DEF IInv, Judged
  <2>2. CASE verdict # "accepted"
    BY <2>2 DEF AcceptedHistoryIsOneChain
  <2> QED BY <2>1, <2>2
<1> QED BY <1>1, IInvHolds, PTL

\* In an accepted history, a close of boundary 7 is always preceded by the
\* verification of that boundary and by reacceptance with nothing in between.
THEOREM ReacceptedBeforeClose == Spec => []CloseFollowsReacceptance
<1>1. IInv => CloseFollowsReacceptance
  <2>1. CASE verdict = "accepted"
    BY <2>1, ChainReaccepted DEF IInv, Judged
  <2>2. CASE verdict # "accepted"
    BY <2>2 DEF CloseFollowsReacceptance
  <2> QED BY <2>1, <2>2
<1> QED BY <1>1, IInvHolds, PTL

\* An accepted maintenance cycle has at most two steps and leaves the release
\* as it was.
THEOREM ReleaseKept == Spec => []MaintenanceKeepsRelease
<1>1. IInv => MaintenanceKeepsRelease
  <2>1. CASE verdict = "accepted"
    BY <2>1, JudgedKeepsRelease DEF IInv
  <2>2. CASE verdict # "accepted"
    BY <2>2 DEF MaintenanceKeepsRelease
  <2> QED BY <2>1, <2>2
<1> QED BY <1>1, IInvHolds, PTL
=============================================================================
