--------------------------- MODULE ClosureProofs ---------------------------
(***************************************************************************)
(* The closure decision for every set of requests and events: what may be  *)
(* selected, on which facts, and when completion may be said.              *)
(*                                                                         *)
(* The first half is about the selection, a function of the request alone: *)
(* that its minima exist, that dominance is an order, and that turning the *)
(* list round turns its frontier round.  Least elements come from the well *)
(* foundedness of the order of the numbers.  The second half is about the  *)
(* replay: IInv says that everything kept mirrors the list of events, and  *)
(* one lemma per kind of event shows that it stays so.  Experiments are    *)
(* mirrored through an order-preserving numbering (Numbered) of those kept *)
(* by the events that evaluated them.                                      *)
(***************************************************************************)
EXTENDS Closure, FiniteSetTheorems, WellFoundedInduction, TLAPS

(*****************************************************************************)
(* Least elements, and failures                                              *)
(*****************************************************************************)

\* The order of the numbers as a relation, for the library's theorem on least elements.
Below == {p \in Nat \X Nat : p[1] < p[2]}
\* The order of the numbers is well founded.
LEMMA BelowIsWellFounded == IsWellFoundedOn(Below, Nat)
  BY NatLessThanWellFounded DEF OpToRel, Below

\* A set of numbers that has an element has a least one.
LEMMA LeastNat ==
  ASSUME NEW T \in SUBSET Nat, T # {}
  PROVE  \E x \in T : \A y \in T : x <= y
<1>1. PICK x \in T : \A y \in T : ~ (<<y, x>> \in Below)
  BY BelowIsWellFounded, WFMin
<1>2. \A y \in T : x <= y
  <2> SUFFICES ASSUME NEW y \in T PROVE x <= y
    OBVIOUS
  <2>1. x \in Nat /\ y \in Nat
    OBVIOUS
  <2>2. <<y, x>> \in Nat \X Nat /\ <<y, x>>[1] = y /\ <<y, x>>[2] = x
    BY <2>1
  <2>3. ~ (y < x)
    BY <1>1, <2>2 DEF Below
  <2> QED BY <2>1, <2>3
<1> QED BY <1>2

\* A conditional failure is there exactly under its condition.
LEMMA FailsIf ==
  ASSUME NEW c, NEW code, NEW state
  PROVE  (FailIf(c, code, state) = {}) <=> ~c
  BY DEF FailIf

\* Facts fail nothing exactly when every required one is observed.
LEMMA FactsHold ==
  ASSUME NEW facts, NEW required
  PROVE  (FactFailures(facts, required) = {}) <=>
            \A f \in required : Value(facts, f) = "observed"
  BY DEF FactFailures

\* A fact that reads observed is there.
LEMMA Observed ==
  ASSUME NEW facts, NEW f, Value(facts, f) = "observed"
  PROVE  f \in DOMAIN facts /\ facts[f] = "observed" /\ Held(facts, f) = "observed"
  BY DEF Value, Held

(*****************************************************************************)
(* Routes, the frontier and the best of it                                   *)
(*****************************************************************************)

\* What the assumption on requests says of the routes, the costs and the policy's lists.
LEMMA RoutesAreListed ==
  ASSUME request \in Requests
  PROVE  /\ request.routes \in Seq(Routes)
         /\ \A r \in Routes : r.id \in Nat \ {0}
         /\ \A q, o \in Routes : q.cost \in [DOMAIN o.cost -> Nat]
         /\ Policy.preferred \in Seq(Nat)
         /\ Policy.sources \in Seq(ToSet(Policy.sources))
         /\ Routes = {request.routes[i] : i \in DOMAIN request.routes}
  BY RequestAssumption DEF Routes, Policy, ToSet

\* An admitted route fails nothing: the environment holds and so do its facts.
LEMMA AdmittedRoute ==
  ASSUME NEW r, Admitted(r)
  PROVE  /\ EnvironmentFailures = {}
         /\ \A f \in RequiredRoute : Value(r.facts, f) = "observed"
         /\ Cardinality(r.forms) > 1 => \A f \in RequiredCoherence : Value(r.coherence, f) = "observed"
  BY FactsHold DEF Admitted, RouteFailures

\* Identifiers are unique in a valid request: RouteOf finds the route.
LEMMA RouteById ==
  ASSUME request \in Requests, ValidRequest, NEW r \in Routes
  PROVE  RouteOf(r.id) = r
<1>1. \A i, j \in DOMAIN request.routes :
         request.routes[i].id = request.routes[j].id => i = j
  BY DEF ValidRequest
<1>2. \A q \in Routes : q.id = r.id => q = r
  <2> SUFFICES ASSUME NEW q \in Routes, q.id = r.id PROVE q = r
    OBVIOUS
  <2>1. PICK i \in DOMAIN request.routes : request.routes[i] = q
    BY RoutesAreListed
  <2>2. PICK j \in DOMAIN request.routes : request.routes[j] = r
    BY RoutesAreListed
  <2> QED BY <1>1, <2>1, <2>2
<1> QED BY <1>2 DEF RouteOf

\* An admitted identifier is that of an admitted route.
LEMMA AdmittedById ==
  ASSUME request \in Requests, ValidRequest, NEW id \in AdmittedIds
  PROVE  RouteOf(id) \in Routes /\ Admitted(RouteOf(id)) /\ RouteOf(id).id = id /\ id # NoRoute
<1>1. PICK r \in Routes : Admitted(r) /\ id = r.id
  BY DEF AdmittedIds
<1>2. RouteOf(id) = r
  BY <1>1, RouteById
<1> QED BY <1>1, <1>2, RoutesAreListed DEF NoRoute

\* A list of the request's routes, in either order.
ListOfRoutes(list) ==
    /\ list \in Seq(Routes)
    /\ \A r \in Routes : \E i \in DOMAIN list : list[i] = r
    /\ \A i, j \in DOMAIN list : list[i].id = list[j].id => i = j

\* The frontier holds positions of admitted routes.
LEMMA FrontierAdmitted ==
  ASSUME request \in Requests, NEW list, ListOfRoutes(list)
  PROVE  /\ Frontier(list) \subseteq DOMAIN list
         /\ \A i \in Frontier(list) : list[i] \in Routes /\ Admitted(list[i]) /\ list[i].id \in AdmittedIds
  BY DEF Frontier, ListOfRoutes, AdmittedIds

\* The rank of a source is a number, listed or not.
LEMMA RanksAreNumbers ==
  ASSUME request \in Requests, NEW source
  PROVE  SourceRank(source) \in Nat
<1>1. Policy.sources \in Seq(ToSet(Policy.sources))
  BY RoutesAreListed
<1>2. CASE Contains(Policy.sources, source)
  <2>1. PICK i \in DOMAIN Policy.sources : Policy.sources[i] = source
    BY <1>2 DEF Contains
  <2>2. SourceRank(source) \in DOMAIN Policy.sources
    BY <1>2, <2>1 DEF SourceRank
  <2> QED BY <1>1, <2>2
<1>3. CASE ~Contains(Policy.sources, source)
  <2>1. Len(Policy.sources) \in Nat
    BY <1>1
  <2> QED BY <1>3, <2>1 DEF SourceRank
<1> QED BY <1>2, <1>3

\* There is a best position by source rank and identifier.
LEMMA BestExists ==
  ASSUME request \in Requests, NEW list, ListOfRoutes(list),
         NEW front \in SUBSET DOMAIN list, front # {}
  PROVE  LET best == BestSource(list, front)
         IN  /\ best \in front
             /\ \A j \in front :
                   \/ SourceRank(list[best].source) < SourceRank(list[j].source)
                   \/ /\ SourceRank(list[best].source) = SourceRank(list[j].source)
                      /\ list[best].id <= list[j].id
<1> DEFINE ranks == {SourceRank(list[i].source) : i \in front}
<1>1. ranks \in SUBSET Nat /\ ranks # {}
  BY RanksAreNumbers
<1>2. PICK i \in front : \A j \in front : SourceRank(list[i].source) <= SourceRank(list[j].source)
  <2> HIDE DEF ranks
  <2>1. PICK x \in ranks : \A y \in ranks : x <= y
    BY <1>1, LeastNat
  <2> QED BY <2>1 DEF ranks
<1> DEFINE mine == {k \in front : SourceRank(list[k].source) = SourceRank(list[i].source)}
           ids == {list[k].id : k \in mine}
<1>3. \A k \in DOMAIN list : list[k].id \in Nat
  <2>1. \A r \in Routes : r.id \in Nat
    BY RoutesAreListed
  <2>2. \A k \in DOMAIN list : list[k] \in Routes
    BY DEF ListOfRoutes
  <2> QED BY <2>1, <2>2
<1>4. ids \in SUBSET Nat /\ ids # {}
  BY <1>2, <1>3
<1>5. PICK k \in mine : \A l \in mine : list[k].id <= list[l].id
  <2> HIDE DEF ids
  <2>1. PICK x \in ids : \A y \in ids : x <= y
    BY <1>4, LeastNat
  <2> QED BY <2>1 DEF ids
<1>6. \A j \in front : \/ SourceRank(list[k].source) < SourceRank(list[j].source)
                      \/ /\ SourceRank(list[k].source) = SourceRank(list[j].source)
                         /\ list[k].id <= list[j].id
  <2> SUFFICES ASSUME NEW j \in front
               PROVE  \/ SourceRank(list[k].source) < SourceRank(list[j].source)
                      \/ /\ SourceRank(list[k].source) = SourceRank(list[j].source)
                         /\ list[k].id <= list[j].id
    OBVIOUS
  <2>1. SourceRank(list[k].source) \in Nat /\ SourceRank(list[j].source) \in Nat
    BY RanksAreNumbers
  <2>2. SourceRank(list[k].source) <= SourceRank(list[j].source)
    BY <1>2, <1>5
  <2>3. CASE SourceRank(list[k].source) = SourceRank(list[j].source)
    BY <2>3, <1>5
  <2> QED BY <2>1, <2>2, <2>3
<1> QED BY <1>5, <1>6 DEF BestSource

\* What the selection says of a list.
LEMMA SelectionMeans ==
  ASSUME request \in Requests, NEW list, ListOfRoutes(list)
  PROVE  LET s == Select(list)
             ids == {list[i].id : i \in Frontier(list)}
         IN  /\ s = Choice(s.route, ids, s.disposition)
             /\ s.route \in ids \cup {NoRoute}
<1> DEFINE front == Frontier(list)
           ids == {list[i].id : i \in front}
           single == \A i, j \in front : i = j
           taken(i) == Choice(list[i].id, ids, IF list[i].forms = {} THEN "no-op" ELSE "admit")
<1>0. front \subseteq DOMAIN list
  BY FrontierAdmitted
<1> HIDE DEF front
<1>1. CASE front = {}
  <2>1. PICK d : Select(list) = Choice(NoRoute, {}, d)
    BY <1>1 DEF Select, front
  <2> QED BY <1>1, <2>1 DEF Choice, front
<1>2. ASSUME \E i \in front : Select(list) = taken(i)
      PROVE  /\ Select(list) = Choice(Select(list).route, ids, Select(list).disposition)
             /\ Select(list).route \in ids \cup {NoRoute}
  BY <1>2 DEF Choice
<1>3. CASE front # {} /\ single
  <2>1. Select(list) = taken(CHOOSE i \in front : TRUE)
    BY <1>3 DEF Select, front
  <2>2. (CHOOSE i \in front : TRUE) \in front
    BY <1>3
  <2> HIDE DEF taken
  <2>3. \E i \in front : Select(list) = taken(i)
    BY <2>1, <2>2
  <2> QED BY <2>3, <1>2 DEF front, taken
<1>4. CASE ~single /\ Preferred(ids) # {}
  <2>1. Select(list) = taken(CHOOSE i \in front : list[i].id = FirstPreferred(ids))
    BY <1>4 DEF Select, front
  <2>2. FirstPreferred(ids) \in ids
    <3>1. Policy.preferred \in Seq(Nat)
      BY RoutesAreListed
    <3>2. Preferred(ids) \in SUBSET Nat
      BY <3>1 DEF Preferred
    <3>3. PICK k \in Preferred(ids) : \A l \in Preferred(ids) : k <= l
      BY <1>4, <3>2, LeastNat
    <3>4. (CHOOSE m \in Preferred(ids) : \A l \in Preferred(ids) : m <= l) \in Preferred(ids)
      BY <3>3
    <3> QED BY <3>4 DEF FirstPreferred, Preferred
  <2>3. (CHOOSE i \in front : list[i].id = FirstPreferred(ids)) \in front
    BY <2>2
  <2> HIDE DEF taken
  <2>4. \E i \in front : Select(list) = taken(i)
    BY <2>1, <2>3
  <2> QED BY <2>4, <1>2 DEF front, taken
<1>5. CASE ~single /\ Preferred(ids) = {}
  <2>1. CASE \A i, j \in front : list[i].cost = list[j].cost
    <3>1. Select(list) = taken(BestSource(list, front))
      BY <1>5, <2>1 DEF Select, front
    <3>2. BestSource(list, front) \in front
      BY <1>0, <1>5, BestExists
    <3> HIDE DEF taken
    <3>3. \E i \in front : Select(list) = taken(i)
      BY <3>1, <3>2
    <3> QED BY <3>3, <1>2 DEF front, taken
  <2>2. CASE ~ \A i, j \in front : list[i].cost = list[j].cost
    <3>1. Select(list) = Choice(NoRoute, ids, "hold-unknown")
      BY <1>5, <2>2 DEF Select, front
    <3> QED BY <3>1 DEF Choice, front
  <2> QED BY <2>1, <2>2
<1> QED BY <1>1, <1>3, <1>4, <1>5

(*****************************************************************************)
(* Dominance, and a list turned round                                        *)
(*****************************************************************************)

\* To be no worse and somewhere better is a strict order on costs.
LEMMA DominanceIsAnOrder ==
  ASSUME request \in Requests, NEW a \in Routes, NEW b \in Routes, NEW c \in Routes
  PROVE  /\ ~Dominates(a.cost, a.cost)
         /\ Dominates(a.cost, b.cost) /\ Dominates(b.cost, c.cost) => Dominates(a.cost, c.cost)
<1>1. \A q, o \in Routes : q.cost \in [DOMAIN o.cost -> Nat]
  BY RoutesAreListed
<1>2. PICK dims : dims = DOMAIN a.cost
  OBVIOUS
<1>3. a.cost \in [dims -> Nat] /\ b.cost \in [dims -> Nat] /\ c.cost \in [dims -> Nat]
  BY <1>1, <1>2
<1>4. ~Dominates(a.cost, a.cost)
  BY <1>3 DEF Dominates
<1>5. ASSUME Dominates(a.cost, b.cost), Dominates(b.cost, c.cost)
      PROVE  Dominates(a.cost, c.cost)
  <2>1. \A d \in dims : /\ a.cost[d] \in Nat /\ b.cost[d] \in Nat /\ c.cost[d] \in Nat
                        /\ a.cost[d] <= b.cost[d] /\ b.cost[d] <= c.cost[d]
    BY <1>3, <1>5 DEF Dominates
  <2>2. PICK d \in dims : a.cost[d] < b.cost[d]
    BY <1>3, <1>5 DEF Dominates
  <2>3. a.cost[d] < c.cost[d]
    BY <2>1, <2>2
  <2>4. \A x \in dims : a.cost[x] <= c.cost[x]
    BY <2>1
  <2> QED BY <1>3, <2>3, <2>4 DEF Dominates
<1> QED BY <1>4, <1>5

\* Of finitely many admitted routes one with the fewest dominators has none.
LEMMA SomeRouteSurvives ==
  ASSUME request \in Requests, NEW list, ListOfRoutes(list),
         NEW m \in DOMAIN list, Admitted(list[m])
  PROVE  Frontier(list) # {}
<1> DEFINE admitted == {i \in DOMAIN list : Admitted(list[i])}
           Over(i) == {j \in admitted : Dominates(list[j].cost, list[i].cost)}
           sizes == {Cardinality(Over(i)) : i \in admitted}
<1>1. /\ IsFiniteSet(DOMAIN list)
      /\ \A i \in DOMAIN list : list[i] \in Routes
  <2>1. list \in Seq(Routes)
    BY DEF ListOfRoutes
  <2>2. DOMAIN list = 1..Len(list) /\ Len(list) \in Nat
    BY <2>1
  <2> QED BY <2>1, <2>2, FS_Interval
<1>2. \A i \in admitted : IsFiniteSet(Over(i)) /\ Cardinality(Over(i)) \in Nat
  BY <1>1, FS_Subset, FS_CardinalityType
<1>3. sizes \in SUBSET Nat /\ sizes # {}
  BY <1>2
<1>4. PICK i \in admitted : \A j \in admitted : Cardinality(Over(i)) <= Cardinality(Over(j))
  <2> HIDE DEF sizes
  <2>1. PICK x \in sizes : \A y \in sizes : x <= y
    BY <1>3, LeastNat
  <2> QED BY <2>1 DEF sizes
<1>5. ~ \E j \in admitted : Dominates(list[j].cost, list[i].cost)
  <2> SUFFICES ASSUME NEW j \in admitted, Dominates(list[j].cost, list[i].cost)
               PROVE  FALSE
    OBVIOUS
  <2>1. Over(j) \subseteq Over(i)
    <3> SUFFICES ASSUME NEW k \in Over(j) PROVE k \in Over(i)
      OBVIOUS
    <3>1. list[i] \in Routes /\ list[j] \in Routes /\ list[k] \in Routes
      BY <1>1
    <3> QED BY <3>1, DominanceIsAnOrder
  <2>2. j \in Over(i) /\ j \notin Over(j)
    <3>1. list[j] \in Routes
      BY <1>1
    <3> QED BY <3>1, DominanceIsAnOrder
  <2>3. Over(j) # Over(i)
    BY <2>2
  <2>4. Cardinality(Over(j)) <= Cardinality(Over(i)) /\ Cardinality(Over(j)) # Cardinality(Over(i))
    <3> HIDE DEF Over
    <3> QED BY <1>2, <2>1, <2>3, FS_Subset
  <2>5. Cardinality(Over(i)) \in Nat /\ Cardinality(Over(j)) \in Nat
    BY <1>2
  <2>6. Cardinality(Over(i)) <= Cardinality(Over(j))
    BY <1>4
  <2> HIDE DEF Over
  <2> QED BY <2>4, <2>5, <2>6
<1>6. i \in Frontier(list)
  BY <1>5 DEF Frontier
<1> QED BY <1>6

\* Turning a list round moves its frontier with it.
LEMMA Reversed ==
  ASSUME request \in Requests, NEW list, ListOfRoutes(list)
  PROVE  LET n == Len(list)
             back == Reverse(list)
         IN  /\ ListOfRoutes(back)
             /\ n \in Nat /\ DOMAIN list = 1..n /\ DOMAIN back = 1..n
             /\ \A i \in 1..n : n - i + 1 \in 1..n /\ back[i] = list[n - i + 1]
             /\ \A i \in 1..n : list[i] = back[n - i + 1]
             /\ \A i \in 1..n : i \in Frontier(back) <=> n - i + 1 \in Frontier(list)
<1> DEFINE n == Len(list)
           back == Reverse(list)
<1>1. list \in Seq(Routes) /\ n \in Nat /\ DOMAIN list = 1..n
  BY DEF ListOfRoutes
<1>2. back = [i \in 1..n |-> list[(n - i) + 1]]
  BY DEF Reverse
<1> HIDE DEF back
<1>3. \A i \in 1..n : n - i + 1 \in 1..n /\ n - (n - i + 1) + 1 = i
  BY <1>1
<1>4. back \in Seq(Routes) /\ DOMAIN back = 1..n
  BY <1>1, <1>2, <1>3
<1> HIDE DEF n
<1>5. \A i \in 1..n : back[i] = list[n - i + 1]
  BY <1>2
<1>6. \A i \in 1..n : list[i] = back[n - i + 1]
  BY <1>3, <1>5
<1>7. ListOfRoutes(back)
  <2>1. \A r \in Routes : \E i \in DOMAIN back : back[i] = r
    BY <1>1, <1>3, <1>4, <1>6 DEF ListOfRoutes
  <2>2. \A i, j \in DOMAIN back : back[i].id = back[j].id => i = j
    <3> SUFFICES ASSUME NEW i \in 1..n, NEW j \in 1..n, back[i].id = back[j].id
                 PROVE  i = j
      BY <1>4
    <3>1. list[n - i + 1].id = list[n - j + 1].id
      BY <1>5
    <3>2. n - i + 1 = n - j + 1
      BY <1>1, <1>3, <3>1 DEF ListOfRoutes
    <3> QED BY <1>1, <3>2
  <2> QED BY <1>4, <2>1, <2>2 DEF ListOfRoutes
<1>8. ASSUME NEW i \in 1..n
      PROVE  i \in Frontier(back) <=> n - i + 1 \in Frontier(list)
  <2> DEFINE j == n - i + 1
  <2>1. j \in 1..n /\ back[i] = list[j]
    BY <1>3, <1>5
  <2> HIDE DEF j
  <2>2. (\E k \in 1..n : Admitted(back[k]) /\ back[k].id # back[i].id /\ Dominates(back[k].cost, back[i].cost))
          <=> (\E k \in 1..n : Admitted(list[k]) /\ list[k].id # list[j].id /\ Dominates(list[k].cost, list[j].cost))
    BY <1>3, <1>5, <1>6, <2>1
  <2>3. i \in Frontier(back) <=>
          /\ Admitted(back[i])
          /\ ~ \E k \in 1..n : Admitted(back[k]) /\ back[k].id # back[i].id /\ Dominates(back[k].cost, back[i].cost)
    BY <1>4 DEF Frontier
  <2>4. j \in Frontier(list) <=>
          /\ Admitted(list[j])
          /\ ~ \E k \in 1..n : Admitted(list[k]) /\ list[k].id # list[j].id /\ Dominates(list[k].cost, list[j].cost)
    BY <1>1, <2>1 DEF Frontier
  <2> QED BY <2>1, <2>2, <2>3, <2>4 DEF j
<1> QED BY <1>1, <1>3, <1>4, <1>5, <1>6, <1>7, <1>8 DEF n, back

(*****************************************************************************)
(* Selection and the order of the list                                       *)
(*****************************************************************************)

\* What a selection returns for the position it takes.
Taking(list, ids, i) == Choice(list[i].id, ids, IF list[i].forms = {} THEN "no-op" ELSE "admit")

\* The first preferred route is one of those asked about.
LEMMA PreferredIsThere ==
  ASSUME request \in Requests, NEW ids, Preferred(ids) # {}
  PROVE  FirstPreferred(ids) \in ids
<1>1. Policy.preferred \in Seq(Nat)
  BY RoutesAreListed
<1>2. Preferred(ids) \in SUBSET Nat
  BY <1>1 DEF Preferred
<1>3. PICK k \in Preferred(ids) : \A l \in Preferred(ids) : k <= l
  BY <1>2, LeastNat
<1>4. (CHOOSE m \in Preferred(ids) : \A l \in Preferred(ids) : m <= l) \in Preferred(ids)
  BY <1>3
<1> QED BY <1>4 DEF FirstPreferred, Preferred

\* _select gives the same answer for the routes listed backwards.
LEMMA SelectionIgnoresOrder ==
  ASSUME request \in Requests, NEW list, ListOfRoutes(list)
  PROVE  Select(Reverse(list)) = Select(list)
<1> DEFINE n == Len(list)
           back == Reverse(list)
           front == Frontier(list)
           bfront == Frontier(back)
           ids == {list[i].id : i \in front}
           bids == {back[i].id : i \in bfront}
<1>0. /\ ListOfRoutes(back)
      /\ n \in Nat /\ DOMAIN list = 1..n /\ DOMAIN back = 1..n
      /\ \A i \in 1..n : n - i + 1 \in 1..n /\ back[i] = list[n - i + 1]
      /\ \A i \in 1..n : list[i] = back[n - i + 1]
      /\ \A i \in 1..n : i \in bfront <=> n - i + 1 \in front
  BY Reversed
<1>f. front \subseteq 1..n /\ bfront \subseteq 1..n
  BY <1>0, FrontierAdmitted
<1> HIDE DEF n, back, front, bfront
<1>b. /\ \A i \in front : n - i + 1 \in bfront /\ list[i] = back[n - i + 1]
      /\ \A i \in bfront : n - i + 1 \in front /\ back[i] = list[n - i + 1]
  <2>1. ASSUME NEW i \in front PROVE n - i + 1 \in bfront /\ list[i] = back[n - i + 1]
    <3>1. i \in 1..n /\ n - i + 1 \in 1..n
      BY <1>0, <1>f
    <3>2. n - (n - i + 1) + 1 = i
      BY <1>0, <3>1
    <3> QED BY <1>0, <3>1, <3>2
  <2>2. ASSUME NEW i \in bfront PROVE n - i + 1 \in front /\ back[i] = list[n - i + 1]
    BY <1>0, <1>f
  <2> QED BY <2>1, <2>2
<1>i. ids = bids
  BY <1>b
<1>s. /\ front = {} <=> bfront = {}
      /\ (\A i, j \in front : i = j) <=> (\A i, j \in bfront : i = j)
  <2>1. ASSUME \A i, j \in front : i = j PROVE \A i, j \in bfront : i = j
    <3> SUFFICES ASSUME NEW i \in bfront, NEW j \in bfront PROVE i = j
      OBVIOUS
    <3>1. n - i + 1 = n - j + 1
      BY <1>b, <2>1
    <3> QED BY <1>0, <1>f, <3>1
  <2>2. ASSUME \A i, j \in bfront : i = j PROVE \A i, j \in front : i = j
    <3> SUFFICES ASSUME NEW i \in front, NEW j \in front PROVE i = j
      OBVIOUS
    <3>1. n - i + 1 = n - j + 1
      BY <1>b, <2>2
    <3> QED BY <1>0, <1>f, <3>1
  <2>3. front = {} <=> bfront = {}
    BY <1>b
  <2> QED BY <2>1, <2>2, <2>3
<1>u. /\ \A i, j \in 1..n : list[i].id = list[j].id => i = j
      /\ \A i, j \in 1..n : back[i].id = back[j].id => i = j
  BY <1>0 DEF ListOfRoutes
<1>t. ASSUME NEW i \in 1..n, NEW j \in 1..n, back[j] = list[i]
      PROVE  Taking(back, bids, j) = Taking(list, ids, i)
  BY <1>t, <1>i DEF Taking
<1> HIDE DEF ids, bids
<1>1. CASE front = {}
  <2>1. ToSet(list) = ToSet(back)
    BY <1>0 DEF ToSet
  <2>2. Select(list) = Choice(NoRoute, {},
              IF \E r \in ToSet(list) : \E f \in RouteFailures(r) : f.state = "unknown"
              THEN "hold-unknown" ELSE "honest-stop")
    BY <1>1 DEF Select, front
  <2>3. Select(back) = Choice(NoRoute, {},
              IF \E r \in ToSet(back) : \E f \in RouteFailures(r) : f.state = "unknown"
              THEN "hold-unknown" ELSE "honest-stop")
    BY <1>1, <1>s DEF Select, bfront
  <2> QED BY <2>1, <2>2, <2>3 DEF back
<1>2. CASE front # {} /\ (\A i, j \in front : i = j)
  <2> DEFINE i == CHOOSE k \in front : TRUE
             j == CHOOSE k \in bfront : TRUE
  <2>1. Select(list) = Taking(list, ids, i)
    BY <1>2 DEF Select, Taking, front, ids
  <2>2. Select(back) = Taking(back, bids, j)
    BY <1>2, <1>s DEF Select, Taking, bfront, bids
  <2>3. i \in front /\ j \in bfront
    BY <1>2, <1>s
  <2> HIDE DEF i, j
  <2>4. n - j + 1 = i
    BY <1>2, <1>b, <2>3
  <2>5. back[j] = list[i]
    BY <1>b, <2>3, <2>4
  <2>6. i \in 1..n /\ j \in 1..n
    BY <1>f, <2>3
  <2>7. Taking(back, bids, j) = Taking(list, ids, i)
    BY <1>t, <2>5, <2>6
  <2> QED BY <2>1, <2>2, <2>7 DEF back
<1>3. CASE ~(\A i, j \in front : i = j) /\ Preferred(ids) # {}
  <2> DEFINE p == FirstPreferred(ids)
             i == CHOOSE k \in front : list[k].id = p
             j == CHOOSE k \in bfront : back[k].id = p
  <2>1. Select(list) = Taking(list, ids, i)
    BY <1>3 DEF Select, Taking, front, ids
  <2>2. Select(back) = Taking(back, bids, j)
    <3>1. ~(\A x, y \in bfront : x = y) /\ Preferred(bids) # {} /\ p = FirstPreferred(bids)
      BY <1>3, <1>s, <1>i
    <3> HIDE DEF p
    <3>2. Select(back) = Taking(back, bids, CHOOSE k \in bfront : back[k].id = FirstPreferred(bids))
      BY <3>1 DEF Select, Taking, bfront, bids
    <3> QED BY <3>1, <3>2
  <2>3. p \in ids /\ p \in bids
    BY <1>3, <1>i, PreferredIsThere
  <2> HIDE DEF p
  <2>4. i \in front /\ list[i].id = p
    BY <2>3 DEF ids
  <2>5. j \in bfront /\ back[j].id = p
    BY <2>3 DEF bids
  <2> HIDE DEF i, j
  <2>6. n - j + 1 \in front /\ back[j] = list[n - j + 1]
    BY <1>b, <2>5
  <2>7. n - j + 1 = i
    BY <1>f, <1>u, <2>4, <2>5, <2>6
  <2>8. i \in 1..n /\ j \in 1..n /\ back[j] = list[i]
    BY <1>f, <2>4, <2>5, <2>6, <2>7
  <2>9. Taking(back, bids, j) = Taking(list, ids, i)
    BY <1>t, <2>8
  <2> QED BY <2>1, <2>2, <2>9 DEF back
<1>4. CASE ~(\A i, j \in front : i = j) /\ Preferred(ids) = {}
  <2>c. (\A x, y \in front : list[x].cost = list[y].cost)
           <=> (\A x, y \in bfront : back[x].cost = back[y].cost)
    <3>1. ASSUME \A x, y \in front : list[x].cost = list[y].cost, NEW x \in bfront, NEW y \in bfront
          PROVE  back[x].cost = back[y].cost
      BY <1>b, <3>1
    <3>2. ASSUME \A x, y \in bfront : back[x].cost = back[y].cost, NEW x \in front, NEW y \in front
          PROVE  list[x].cost = list[y].cost
      BY <1>b, <3>2
    <3> QED BY <3>1, <3>2
  <2>b. ~(\A x, y \in bfront : x = y) /\ Preferred(bids) = {} /\ front # {} /\ bfront # {}
    BY <1>4, <1>s, <1>i
  <2>1. CASE \A x, y \in front : list[x].cost = list[y].cost
    <3> DEFINE i == BestSource(list, front)
               j == BestSource(back, bfront)
    <3>1. Select(list) = Taking(list, ids, i)
      BY <1>4, <2>1 DEF Select, Taking, front, ids
    <3>2. Select(back) = Taking(back, bids, j)
      BY <2>b, <2>c, <2>1 DEF Select, Taking, bfront, bids
    <3>3. /\ i \in front
          /\ \A k \in front :
                \/ SourceRank(list[i].source) < SourceRank(list[k].source)
                \/ /\ SourceRank(list[i].source) = SourceRank(list[k].source)
                   /\ list[i].id <= list[k].id
      BY <1>0, <1>f, <2>b, BestExists
    <3>4. /\ j \in bfront
          /\ \A k \in bfront :
                \/ SourceRank(back[j].source) < SourceRank(back[k].source)
                \/ /\ SourceRank(back[j].source) = SourceRank(back[k].source)
                   /\ back[j].id <= back[k].id
      BY <1>0, <1>f, <2>b, BestExists
    <3> HIDE DEF i, j
    <3> DEFINE k == n - j + 1
               l == n - i + 1
    <3>5. k \in front /\ back[j] = list[k] /\ l \in bfront /\ list[i] = back[l]
      BY <1>b, <3>3, <3>4
    <3> HIDE DEF k, l
    <3>6. \/ SourceRank(list[i].source) < SourceRank(list[k].source)
          \/ SourceRank(list[i].source) = SourceRank(list[k].source) /\ list[i].id <= list[k].id
      BY <3>3, <3>5
    <3>7. \/ SourceRank(list[k].source) < SourceRank(list[i].source)
          \/ SourceRank(list[k].source) = SourceRank(list[i].source) /\ list[k].id <= list[i].id
      BY <3>4, <3>5
    <3>8. /\ SourceRank(list[i].source) \in Nat /\ SourceRank(list[k].source) \in Nat
          /\ i \in 1..n /\ k \in 1..n /\ j \in 1..n
          /\ list[i].id \in Nat /\ list[k].id \in Nat
      <4>1. i \in 1..n /\ k \in 1..n /\ j \in 1..n
        BY <1>f, <3>3, <3>4, <3>5
      <4>2. list[i] \in Routes /\ list[k] \in Routes
        <5>1. \A x \in DOMAIN list : list[x] \in Routes
          BY DEF ListOfRoutes
        <5> QED BY <1>0, <4>1, <5>1
      <4> QED BY <4>1, <4>2, RanksAreNumbers, RoutesAreListed
    <3>9. list[i].id = list[k].id
      BY <3>6, <3>7, <3>8
    <3>10. i = k
      BY <1>u, <3>8, <3>9
    <3>11. Taking(back, bids, j) = Taking(list, ids, i)
      BY <1>t, <3>5, <3>8, <3>10
    <3> QED BY <3>1, <3>2, <3>11 DEF back
  <2>2. CASE ~ (\A x, y \in front : list[x].cost = list[y].cost)
    <3>1. Select(list) = Choice(NoRoute, ids, "hold-unknown")
      BY <1>4, <2>2 DEF Select, front, ids
    <3>2. Select(back) = Choice(NoRoute, bids, "hold-unknown")
      BY <2>b, <2>c, <2>2 DEF Select, bfront, bids
    <3> QED BY <3>1, <3>2, <1>i DEF back
  <2> QED BY <2>1, <2>2
<1>5. front = {} => \A i, j \in front : i = j
  OBVIOUS
<1> QED BY <1>1, <1>2, <1>3, <1>4, <1>5

(*****************************************************************************)
(* The assessment                                                            *)
(*****************************************************************************)

\* The request and its assessment, which the replay never touches.
ChosenOK == request \in Requests /\ choice = Assessed /\ (~rejected => ValidRequest)

\* The routes of a valid request are such a list.
LEMMA TheRoutes ==
  ASSUME request \in Requests, ValidRequest
  PROVE  ListOfRoutes(request.routes)
<1>1. \A i, j \in DOMAIN request.routes :
         request.routes[i].id = request.routes[j].id => i = j
  BY DEF ValidRequest
<1> QED BY <1>1, RoutesAreListed DEF ListOfRoutes

\* The assessment selects an admitted route or none, and its frontier is admitted.
LEMMA AssessmentShape ==
  ASSUME ChosenOK
  PROVE  /\ choice.route \in choice.admitted \cup {NoRoute}
         /\ choice.frontier \subseteq choice.admitted
         /\ choice = [route |-> choice.route, frontier |-> choice.frontier,
                      disposition |-> choice.disposition, admitted |-> choice.admitted]
<1>1. CASE ValidRequest
  <2> DEFINE s == Select(request.routes)
             ids == {request.routes[i].id : i \in Frontier(request.routes)}
  <2>1. /\ s = Choice(s.route, ids, s.disposition)
        /\ s.route \in ids \cup {NoRoute}
    BY <1>1, TheRoutes, SelectionMeans DEF ChosenOK
  <2>2. ids \subseteq AdmittedIds
    BY <1>1, TheRoutes, FrontierAdmitted DEF ChosenOK
  <2>3. s.frontier = ids
    BY <2>1 DEF Choice
  <2>4. /\ choice.route = s.route /\ choice.frontier = s.frontier
        /\ choice.admitted = AdmittedIds
    BY <1>1 DEF ChosenOK, Assessed
  <2> HIDE DEF s, ids
  <2>5. choice.route \in choice.admitted \cup {NoRoute} /\ choice.frontier \subseteq choice.admitted
    BY <2>1, <2>2, <2>3, <2>4
  <2> QED BY <2>5 DEF ChosenOK, Assessed
<1>2. CASE ~ValidRequest
  BY <1>2 DEF ChosenOK, Assessed, Choice
<1> QED BY <1>1, <1>2

\* In a valid request the assessment is that of the routes listed.
LEMMA AssessmentMeans ==
  ASSUME ChosenOK, ValidRequest
  PROVE  /\ choice.admitted = AdmittedIds
         /\ choice.frontier = {request.routes[i].id : i \in Frontier(request.routes)}
         /\ Selected # NoRoute => Selected \in choice.frontier
<1> DEFINE s == Select(request.routes)
           ids == {request.routes[i].id : i \in Frontier(request.routes)}
<1>1. /\ s = Choice(s.route, ids, s.disposition)
      /\ s.route \in ids \cup {NoRoute}
  BY TheRoutes, SelectionMeans DEF ChosenOK
<1>2. s.frontier = ids
  BY <1>1 DEF Choice
<1>3. /\ choice.route = s.route /\ choice.frontier = s.frontier
      /\ choice.admitted = AdmittedIds
  BY DEF ChosenOK, Assessed
<1> HIDE DEF s
<1> QED BY <1>1, <1>2, <1>3 DEF Selected

\* A selected route is an admitted route of the request.
LEMMA SelectedIsAdmitted ==
  ASSUME ChosenOK, ValidRequest, Selected # NoRoute
  PROVE  /\ Selected \in AdmittedIds
         /\ RouteOf(Selected) \in Routes /\ Admitted(RouteOf(Selected))
         /\ RouteOf(Selected).id = Selected
<1>1. Selected \in AdmittedIds
  BY AssessmentMeans, TheRoutes, FrontierAdmitted DEF ChosenOK
<1> QED BY <1>1, AdmittedById DEF ChosenOK

\* The selection of every request is canonical.
LEMMA CanonicalHolds ==
  ASSUME ChosenOK
  PROVE  SelectionIsCanonical
<1> SUFFICES ASSUME ~rejected PROVE SelectionIsCanonical
  BY DEF SelectionIsCanonical
<1>0. ValidRequest /\ request \in Requests
  BY DEF ChosenOK
<1>1. ListOfRoutes(request.routes)
  BY <1>0, TheRoutes
<1>2. Select(request.routes) = Select(Reverse(request.routes))
  BY <1>0, <1>1, SelectionIgnoresOrder
<1> DEFINE list == request.routes
           front == Frontier(list)
<1>3. choice.admitted = AdmittedIds /\ choice.frontier = {list[i].id : i \in front}
  BY <1>0, AssessmentMeans
<1>4. (choice.frontier = {}) <=> (choice.admitted = {})
  <2>1. ASSUME choice.admitted # {} PROVE choice.frontier # {}
    <3>1. PICK r \in Routes : Admitted(r)
      BY <1>3, <2>1 DEF AdmittedIds
    <3>2. PICK m \in DOMAIN list : list[m] = r
      BY <1>1 DEF ListOfRoutes
    <3>3. front # {}
      BY <1>0, <1>1, <3>1, <3>2, SomeRouteSurvives
    <3> QED BY <1>3, <3>3
  <2>2. choice.frontier \subseteq choice.admitted
    BY AssessmentShape
  <2> QED BY <2>1, <2>2
<1>5. ASSUME Selected # NoRoute
      PROVE  /\ Selected \in choice.admitted
             /\ \A o \in choice.admitted : ~Dominates(RouteOf(o).cost, RouteOf(Selected).cost)
  <2>1. Selected \in choice.admitted
    BY <1>0, <1>3, <1>5, SelectedIsAdmitted
  <2>2. PICK i \in front : list[i].id = Selected
    BY <1>0, <1>3, <1>5, AssessmentMeans
  <2>3. i \in DOMAIN list /\ list[i] \in Routes
    BY <1>0, <1>1, <2>2, FrontierAdmitted
  <2>4. RouteOf(Selected) = list[i]
    BY <1>0, <2>2, <2>3, RouteById
  <2>5. ASSUME NEW o \in choice.admitted PROVE ~Dominates(RouteOf(o).cost, RouteOf(Selected).cost)
    <3>1. RouteOf(o) \in Routes /\ Admitted(RouteOf(o)) /\ RouteOf(o).id = o
      BY <1>0, <1>3, AdmittedById
    <3>2. PICK j \in DOMAIN list : list[j] = RouteOf(o)
      BY <1>1, <3>1 DEF ListOfRoutes
    <3>3. CASE o = Selected
      BY <1>0, <2>3, <2>4, <3>3, DominanceIsAnOrder
    <3>4. CASE o # Selected
      <4>1. list[j].id # list[i].id
        BY <2>2, <3>1, <3>2, <3>4
      <4>2. ~Dominates(list[j].cost, list[i].cost)
        BY <2>2, <2>3, <3>1, <3>2, <4>1 DEF Frontier
      <4> QED BY <2>4, <3>2, <4>2
    <3> QED BY <3>3, <3>4
  <2> QED BY <2>1, <2>5
<1> QED BY <1>2, <1>4, <1>5 DEF SelectionIsCanonical

\* A fact that decided is bound once, with the value the request gives it.
LEMMA Bound ==
  ASSUME ValidRequest, EnvironmentFailures = {}, NEW t \in RequiredTargets
  PROVE  \E b \in Obs.bindings :
            /\ TargetOf(b) = t /\ b.value = TargetValue(b) /\ b.generation = Obs.generation
            /\ \A c \in Obs.bindings : TargetOf(c) = t => c = b
<1>1. /\ ~ \E b, c \in Obs.bindings : b # c /\ TargetOf(b) = TargetOf(c)
      /\ ~ \E b \in Obs.bindings : TargetValue(b) # b.value
      /\ RequiredTargets \subseteq {TargetOf(b) : b \in Obs.bindings}
  <2> DEFINE twice == \E b, c \in Obs.bindings : b # c /\ TargetOf(b) = TargetOf(c)
             differs == \E b \in Obs.bindings : TargetValue(b) # b.value
             missing == ~(RequiredTargets \subseteq {TargetOf(b) : b \in Obs.bindings})
  <2>1. /\ FailIf(twice, "target-conflict", "unknown") = {}
        /\ FailIf(differs, "binding-mismatch", "not-observed") = {}
        /\ FailIf(missing, "binding-missing", "unknown") = {}
    BY DEF EnvironmentFailures, BindingFailures
  <2> HIDE DEF twice, differs, missing
  <2>2. ~twice /\ ~differs /\ ~missing
    BY <2>1, FailsIf
  <2> QED BY <2>2 DEF twice, differs, missing
<1>2. PICK b \in Obs.bindings : TargetOf(b) = t
  BY <1>1
<1>3. b.generation = Obs.generation
  BY DEF ValidRequest, ValidObservation
<1> QED BY <1>1, <1>2, <1>3

\* The selection of every request rests on bound facts.
LEMMA BoundFactsHold ==
  ASSUME ChosenOK
  PROVE  SelectedOnBoundFacts
<1> SUFFICES ASSUME ~rejected PROVE SelectedOnBoundFacts
  BY DEF SelectedOnBoundFacts
<1>0. ValidRequest /\ request \in Requests
  BY DEF ChosenOK
<1>1. ASSUME Selected # NoRoute
      PROVE  /\ EnvironmentFailures = {}
             /\ \A f \in RequiredRoute : Value(RouteOf(Selected).facts, f) = "observed"
             /\ Cardinality(RouteOf(Selected).forms) > 1 =>
                   \A f \in RequiredCoherence : Value(RouteOf(Selected).coherence, f) = "observed"
  BY <1>0, <1>1, SelectedIsAdmitted, AdmittedRoute
<1>2. ASSUME Selected # NoRoute
      PROVE  Obs.captured <= Obs.decision /\ Obs.decision <= Obs.validUntil /\ ~Obs.invalidated
  <2> DEFINE future == Obs.captured > Obs.decision
             expired == Obs.decision > Obs.validUntil
  <2>1. /\ FailIf(future, "future", "not-observed") = {}
        /\ FailIf(expired, "expired", "not-observed") = {}
        /\ FailIf(Obs.invalidated, "invalidated", "not-observed") = {}
    BY <1>1, <1>2 DEF EnvironmentFailures, ObservationFailures
  <2> HIDE DEF future, expired
  <2>2. ~future /\ ~expired /\ ~Obs.invalidated
    BY <2>1, FailsIf
  <2>3. Obs.captured \in Nat /\ Obs.decision \in Nat /\ Obs.validUntil \in Nat
    BY <1>0, RequestAssumption DEF Obs
  <2> QED BY <2>2, <2>3 DEF future, expired
<1>3. ASSUME Selected # NoRoute, NEW t \in RequiredTargets, t[1] = "environment" \/ t[2] = Selected
      PROVE  TargetValue([kind |-> t[1], subject |-> t[2], fact |-> t[3]]) = "observed"
  <2> DEFINE b == [kind |-> t[1], subject |-> t[2], fact |-> t[3]]
  <2>0. b.kind = t[1] /\ b.subject = t[2] /\ b.fact = t[3]
    OBVIOUS
  <2> HIDE DEF b
  <2>1. CASE t \in {<<"environment", Env.composition, f>> : f \in RequiredEnv}
    <3>1. PICK f \in RequiredEnv : t = <<"environment", Env.composition, f>>
      BY <2>1
    <3>2. FactFailures(Env.facts, RequiredEnv) = {}
      BY <1>1, <1>3 DEF EnvironmentFailures
    <3>3. Held(Env.facts, f) = "observed"
      BY <3>1, <3>2, FactsHold, Observed
    <3>4. b.kind = "environment" /\ b.subject = Env.composition /\ b.fact = f
      BY <2>0, <3>1
    <3> QED BY <3>3, <3>4 DEF TargetValue, b
  <2>2. CASE t \in {<<"route", r, f>> : r \in RouteIds, f \in RequiredRoute}
    <3>1. PICK r \in RouteIds, f \in RequiredRoute : t = <<"route", r, f>>
      BY <2>2
    <3>2. b.kind = "route" /\ b.subject = Selected /\ b.fact = f /\ Selected \in RouteIds
      BY <1>3, <2>0, <3>1
    <3>3. Held(RouteOf(Selected).facts, f) = "observed"
      BY <1>1, <1>3, Observed
    <3> QED BY <3>2, <3>3 DEF TargetValue, b
  <2>3. CASE t \in {<<"coherence", r.id, f>> :
              r \in {q \in Routes : Cardinality(q.forms) > 1}, f \in RequiredCoherence}
    <3>1. PICK r \in Routes, f \in RequiredCoherence :
             t = <<"coherence", r.id, f>> /\ Cardinality(r.forms) > 1
      BY <2>3
    <3>2. b.kind = "coherence" /\ b.subject = Selected /\ b.fact = f /\ r.id = Selected
      BY <1>3, <2>0, <3>1
    <3>3. RouteOf(Selected) = r /\ Selected \in RouteIds
      BY <1>0, <3>2, RouteById DEF RouteIds
    <3>4. Held(r.coherence, f) = "observed"
      BY <1>1, <1>3, <3>1, <3>3, Observed
    <3> QED BY <3>2, <3>3, <3>4 DEF TargetValue, b
  <2> QED BY <1>3, <2>1, <2>2, <2>3 DEF RequiredTargets
<1>4. ASSUME Selected # NoRoute, NEW t \in RequiredTargets, t[1] = "environment" \/ t[2] = Selected
      PROVE  \E b \in Obs.bindings :
                /\ TargetOf(b) = t /\ b.value = "observed" /\ b.generation = Obs.generation
                /\ \A c \in Obs.bindings : TargetOf(c) = t => c = b
  <2>1. PICK b \in Obs.bindings :
            /\ TargetOf(b) = t /\ b.value = TargetValue(b) /\ b.generation = Obs.generation
            /\ \A c \in Obs.bindings : TargetOf(c) = t => c = b
    BY <1>0, <1>1, <1>4, Bound
  <2>2. t[1] = b.kind /\ t[2] = b.subject /\ t[3] = b.fact
    BY <2>1 DEF TargetOf
  <2>3. TargetValue(b) = TargetValue([kind |-> t[1], subject |-> t[2], fact |-> t[3]])
    BY <2>2 DEF TargetValue
  <2>4. b.value = "observed"
    BY <1>3, <1>4, <2>1, <2>3
  <2> QED BY <2>1, <2>4
<1>5. ASSUME Preserved # NoRoute
      PROVE  /\ Selected = NoRoute
             /\ Env.lastSafe.generation = Obs.generation
             /\ Obs.composition = Env.composition
             /\ Obs.captured <= Obs.decision /\ Obs.decision <= Obs.validUntil
             /\ \A f \in RequiredEnv : Value(Env.facts, f) = "observed"
             /\ \A b, c \in Obs.bindings : TargetOf(b) = TargetOf(c) => b = c
  <2> DEFINE codes == {f.code : f \in EnvironmentFailures}
             future == Obs.captured > Obs.decision
             expired == Obs.decision > Obs.validUntil
             moved == Obs.composition # Env.composition
             twice == \E b, c \in Obs.bindings : b # c /\ TargetOf(b) = TargetOf(c)
  <2>1. /\ Selected = NoRoute /\ Env.lastSafe.route # NoRoute
        /\ codes \subseteq {"invalidated", "binding-field", "binding-mismatch", "binding-missing"}
    BY <1>5 DEF Preserved
  <2>2. Env.lastSafe.generation = Obs.generation
    BY <1>0, <2>1 DEF ValidRequest, ValidLastSafe
  <2>3. \A f \in EnvironmentFailures : f.code \notin {"future", "expired", "composition", "target-conflict", "fact"}
    BY <2>1
  <2>4. ~future /\ ~expired /\ ~moved /\ ~twice
    <3>1. ASSUME future PROVE FALSE
      <4>1. Fail("future", "not-observed") \in EnvironmentFailures
        BY <3>1 DEF EnvironmentFailures, ObservationFailures, FailIf
      <4> QED BY <2>3, <4>1 DEF Fail
    <3>2. ASSUME expired PROVE FALSE
      <4>1. Fail("expired", "not-observed") \in EnvironmentFailures
        BY <3>2 DEF EnvironmentFailures, ObservationFailures, FailIf
      <4> QED BY <2>3, <4>1 DEF Fail
    <3>3. ASSUME moved PROVE FALSE
      <4>1. Fail("composition", "not-observed") \in EnvironmentFailures
        BY <3>3 DEF EnvironmentFailures, ObservationFailures, FailIf
      <4> QED BY <2>3, <4>1 DEF Fail
    <3>4. ASSUME twice PROVE FALSE
      <4>1. Fail("target-conflict", "unknown") \in EnvironmentFailures
        BY <3>4 DEF EnvironmentFailures, BindingFailures, FailIf
      <4> QED BY <2>3, <4>1 DEF Fail
    <3> QED BY <3>1, <3>2, <3>3, <3>4
  <2>5. Obs.captured \in Nat /\ Obs.decision \in Nat /\ Obs.validUntil \in Nat
    BY <1>0, RequestAssumption DEF Obs
  <2>6. ASSUME NEW f \in RequiredEnv PROVE Value(Env.facts, f) = "observed"
    <3> SUFFICES ASSUME Value(Env.facts, f) # "observed" PROVE FALSE
      OBVIOUS
    <3>1. Fail("fact", Value(Env.facts, f)) \in EnvironmentFailures
      BY <2>6 DEF EnvironmentFailures, FactFailures
    <3> QED BY <2>3, <3>1 DEF Fail
  <2> QED BY <2>1, <2>2, <2>4, <2>5, <2>6
<1> QED BY <1>2, <1>4, <1>5 DEF SelectedOnBoundFacts

(*****************************************************************************)
(* What the events say of a fact                                             *)
(*****************************************************************************)

\* One more event is listed; the request and its assessment stay.
Grows(e) ==
    /\ e \in Alphabet /\ events \in Seq(Alphabet)
    /\ events' = Append(events, e)
    /\ request' = request /\ choice' = choice

\* Event e says something of fact f of the selected route.
Concerns(e, f) ==
    /\ e.kind \in {"fact", "resources"}
    /\ e.route = Selected
    /\ f = IF e.kind = "fact" THEN e.fact ELSE "cleanup"

\* What one more event changes of the list, and what it does not.
LEMMA GrownList ==
  ASSUME NEW e, Grows(e)
  PROVE  /\ Len(events) \in Nat /\ Len(events') = Len(events) + 1
         /\ DOMAIN events = 1..Len(events) /\ DOMAIN events' = 1..(Len(events) + 1)
         /\ \A i \in 1..Len(events) : events'[i] = events[i] /\ events[i] \in Alphabet
         /\ events'[Len(events) + 1] = e
         /\ events' \in Seq(Alphabet)
         /\ Selected' = Selected /\ RequiredRoute' = RequiredRoute
         /\ Policy' = Policy /\ RouteIds' = RouteIds
  BY DEF Grows, Selected, RequiredRoute, Policy, RouteIds, Routes

\* One more event changes nothing of what the earlier ones are about.
LEMMA AboutBefore ==
  ASSUME NEW e, Grows(e), NEW f, NEW m \in 0..Len(events)
  PROVE  About(m, f)' = About(m, f) /\ LastAbout(m, f)' = LastAbout(m, f)
<1>1. \A i \in 1..m : events'[i] = events[i]
  BY GrownList
<1>2. About(m, f)' = About(m, f)
  BY <1>1, GrownList DEF About
<1> QED BY <1>2 DEF LastAbout

\* If it concerns the fact it is the last word on it, else the last word stays.
LEMMA AboutNow ==
  ASSUME NEW e, Grows(e), NEW f, NEW n \in Nat, n = Len(events)
  PROVE  /\ ~Concerns(e, f) => LastAbout(n + 1, f)' = LastAbout(n, f)
         /\ Concerns(e, f) => LastAbout(n + 1, f)' = {n + 1}
<1>0. /\ n \in Nat /\ \A i \in 1..n : events'[i] = events[i]
      /\ events'[n + 1] = e /\ Selected' = Selected
  BY GrownList
<1>1. \A i \in 1..(n + 1) : i \in 1..n \/ i = n + 1
  BY <1>0
<1>2. \A i \in 1..n : i \in 1..(n + 1) /\ i # n + 1 /\ i <= n + 1
  BY <1>0
<1>3. CASE ~Concerns(e, f)
  <2>1. \A i : i \in About(n + 1, f)' <=> i \in About(n, f)
    <3> SUFFICES ASSUME NEW i PROVE i \in About(n + 1, f)' <=> i \in About(n, f)
      OBVIOUS
    <3>1. CASE i = n + 1
      <4>1. i \notin About(n, f)
        BY <1>2, <3>1 DEF About
      <4>2. i \notin About(n + 1, f)'
        BY <1>0, <1>3, <3>1 DEF About, Concerns
      <4> QED BY <4>1, <4>2
    <3>2. CASE i # n + 1
      BY <1>0, <1>1, <1>2, <3>2 DEF About
    <3> QED BY <3>1, <3>2
  <2>2. About(n + 1, f)' = About(n, f)
    <3>1. About(n + 1, f)' \subseteq 1..(n + 1) /\ About(n, f) \subseteq 1..n
      BY DEF About
    <3> QED BY <2>1
  <2> QED BY <2>2, <1>3 DEF LastAbout
<1>4. CASE Concerns(e, f)
  <2>1. About(n + 1, f)' = About(n, f) \cup {n + 1}
    <3> SUFFICES ASSUME NEW i PROVE i \in About(n + 1, f)' <=> i \in About(n, f) \/ i = n + 1
      OBVIOUS
    <3>1. CASE i = n + 1
      <4>1. i \in About(n + 1, f)'
        BY <1>0, <1>4, <3>1 DEF About, Concerns
      <4> QED BY <3>1, <4>1
    <3>2. CASE i # n + 1
      BY <1>0, <1>1, <1>2, <3>2 DEF About
    <3> QED BY <3>1, <3>2
  <2>2. \A i \in About(n, f) : i \in 1..n
    BY DEF About
  <2>3. LastAbout(n + 1, f)' = {n + 1}
    BY <1>0, <1>2, <2>1, <2>2 DEF LastAbout
  <2> QED BY <2>3, <1>4
<1> QED BY <1>3, <1>4

\* The last word on a fact is one listed event that concerns it.
LEMMA LastIsListed ==
  ASSUME events \in Seq(Alphabet), NEW m \in 0..Len(events), NEW f
  PROVE  /\ LastAbout(m, f) \subseteq 1..m
         /\ \A i, j \in LastAbout(m, f) : i = j
         /\ \A i \in LastAbout(m, f) : Concerns(events[i], f)
<1>1. LastAbout(m, f) \subseteq 1..m /\ \A i \in LastAbout(m, f) : Concerns(events[i], f)
  BY DEF LastAbout, About, Concerns
<1>2. \A i, j \in LastAbout(m, f) : i <= j /\ j <= i
  BY DEF LastAbout
<1>3. m \in Nat
  OBVIOUS
<1> QED BY <1>1, <1>2, <1>3

\* What was said up to an earlier event stays said.
LEMMA SaidBefore ==
  ASSUME NEW e, Grows(e), NEW f, NEW m \in 0..Len(events)
  PROVE  /\ SaidObserved(m, f)' <=> SaidObserved(m, f)
         /\ SaidIndependently(m, f)' <=> SaidIndependently(m, f)
         /\ LostFact(m, f)' <=> LostFact(m, f)
<1>1. LastAbout(m, f)' = LastAbout(m, f)
  BY AboutBefore
<1>2. \A i \in LastAbout(m, f) : events'[i] = events[i]
  <2>1. events \in Seq(Alphabet)
    BY DEF Grows
  <2>2. \A i \in 1..m : events'[i] = events[i]
    BY GrownList
  <2> QED BY <2>1, <2>2, LastIsListed
<1> QED BY <1>1, <1>2 DEF SaidObserved, SaidIndependently, LostFact

\* What is said of a fact after one more event: what the event says, if it concerns it.
LEMMA SaidNow ==
  ASSUME NEW e, Grows(e), NEW f, NEW n \in Nat, n = Len(events)
  PROVE  /\ ~Concerns(e, f) =>
               /\ SaidObserved(n + 1, f)' <=> SaidObserved(n, f)
               /\ SaidIndependently(n + 1, f)' <=> SaidIndependently(n, f)
               /\ LostFact(n + 1, f)' <=> LostFact(n, f)
         /\ Concerns(e, f) =>
               /\ SaidObserved(n + 1, f)' <=> SaysObserved(e)
               /\ SaidIndependently(n + 1, f)' <=> SaysObserved(e) /\ Independent(e)
               /\ LostFact(n + 1, f)' <=> e.kind = "fact" /\ e.state # "observed"
<1>0. /\ n \in Nat /\ \A i \in 1..n : events'[i] = events[i]
      /\ events'[n + 1] = e /\ events \in Seq(Alphabet)
  BY GrownList DEF Grows
<1>1. /\ ~Concerns(e, f) => LastAbout(n + 1, f)' = LastAbout(n, f)
      /\ Concerns(e, f) => LastAbout(n + 1, f)' = {n + 1}
  BY AboutNow
<1>2. \A i \in LastAbout(n, f) : events'[i] = events[i]
  BY <1>0, LastIsListed
<1>3. CASE ~Concerns(e, f)
  BY <1>1, <1>2, <1>3 DEF SaidObserved, SaidIndependently, LostFact
<1>4. CASE Concerns(e, f)
  <2>1. LastAbout(n + 1, f)' = {n + 1}
    BY <1>1, <1>4
  <2>2. /\ SaidObserved(n + 1, f)' <=> SaysObserved(e)
        /\ SaidIndependently(n + 1, f)' <=> SaysObserved(e) /\ Independent(e)
        /\ LostFact(n + 1, f)' <=> e.kind = "fact" /\ e.state # "observed"
    BY <1>0, <2>1 DEF SaidObserved, SaidIndependently, LostFact, SaysObserved, Independent
  <2> QED BY <1>4, <2>2
<1> QED BY <1>3, <1>4

(*****************************************************************************)
(* The inductive invariant                                                   *)
(*****************************************************************************)

\* The records and values the replay keeps.
LifeFields == {"facts", "experiments", "retired", "residue", "selectedRetired", "routeFacts"}
\* What an experiment kept may hold.
ExperimentEvents == {e \in Alphabet : e.kind = "experiment"}
ExperimentRecords ==
    [baseline : {e.baseline : e \in ExperimentEvents},
     candidate : {e.candidate : e \in ExperimentEvents},
     decision : {"hold", "discard", "keep"},
     observer : {e.evidence.observer : e \in ExperimentEvents},
     boundary : {e.evidence.boundary : e \in ExperimentEvents},
     closed : BOOLEAN]
\* What a fact kept may hold.
FactRecords == [state : FactValues, independent : FactValues]

\* The types of what the replay keeps.
ReplayTypes ==
    /\ events \in Seq(Alphabet) /\ Len(events) <= MaxEvents
    /\ rejected \in BOOLEAN
    /\ DOMAIN life = LifeFields
    /\ life.experiments \in Seq(ExperimentRecords)
    /\ life.selectedRetired \in BOOLEAN
    /\ \A a \in life.retired : a.route \in RouteIds
    /\ \A f \in DOMAIN life.facts : life.facts[f] \in FactRecords

\* The facts kept are the last word of the events on them.
FactsMirrored ==
    \A f \in CompletionFacts \cup Policy.completion :
        /\ Seen(life.facts, f).state = "observed" <=> SaidObserved(Len(events), f)
        /\ Confirmed(life.facts, f) <=> SaidIndependently(Len(events), f)
\* The route's own facts are kept until an event loses one.
RouteFactsMirrored ==
    Selected # NoRoute =>
        \A f \in RequiredRoute :
            Value(life.routeFacts, f) = "observed" <=> ~LostFact(Len(events), f)
\* A clean last word leaves no residue, and no fact event speaks of the cleanup.
ResidueMirrored ==
    /\ SaidObserved(Len(events), "cleanup") => life.residue = {}
    /\ ~LostFact(Len(events), "cleanup")

\* The experiments kept are those of the events, in their order.
Numbered(at) ==
    /\ at \in [DOMAIN life.experiments -> DOMAIN events]
    /\ \A k, l \in DOMAIN life.experiments : k < l => at[k] < at[l]
    /\ \A i \in DOMAIN events : events[i].kind = "experiment" =>
          \E k \in DOMAIN life.experiments : at[k] = i
    /\ \A k \in DOMAIN life.experiments :
          LET x == life.experiments[k]
              e == events[at[k]]
          IN  /\ e.kind = "experiment"
              /\ x.baseline = e.baseline /\ x.candidate = e.candidate
              /\ x.decision = ExperimentDecision(e)
              /\ x.observer = e.evidence.observer /\ x.boundary = e.evidence.boundary
              /\ x.closed <=> ExperimentSettled(at[k])
\* Every experiment kept is one of the events', in their order.
ExperimentsMirrored == \E at \in [DOMAIN life.experiments -> DOMAIN events] : Numbered(at)

\* The allocations kept as retired are those an event retired as the policy asks.
RetiredMirrored ==
    /\ \A a \in Policy.retirements :
          a \in life.retired <=> \E i \in DOMAIN events : RetiredAt(i, a)
    /\ life.selectedRetired <=> SelfRetired

\* Everything kept is what the list of events, read as a whole, says.
HistoryOK ==
    /\ FactsMirrored /\ RouteFactsMirrored /\ ResidueMirrored
    /\ ExperimentsMirrored /\ RetiredMirrored

\* The inductive invariant.
IInv == ChosenOK /\ ReplayTypes /\ (~rejected => HistoryOK)

\* An event that concerns no fact leaves the facts as they are.
LEMMA FactsStay ==
  ASSUME NEW e, Grows(e), \A f : ~Concerns(e, f),
         life'.facts = life.facts, life'.routeFacts = life.routeFacts, life'.residue = life.residue,
         FactsMirrored, RouteFactsMirrored, ResidueMirrored
  PROVE  FactsMirrored' /\ RouteFactsMirrored' /\ ResidueMirrored'
<1>0. PICK n \in Nat : n = Len(events)
  BY GrownList
<1>1. Len(events') = n + 1 /\ Policy' = Policy /\ Selected' = Selected /\ RequiredRoute' = RequiredRoute
  BY <1>0, GrownList
<1>2. ASSUME NEW f
      PROVE  /\ SaidObserved(n + 1, f)' <=> SaidObserved(n, f)
             /\ SaidIndependently(n + 1, f)' <=> SaidIndependently(n, f)
             /\ LostFact(n + 1, f)' <=> LostFact(n, f)
  BY <1>0, SaidNow
<1>3. FactsMirrored'
  BY <1>0, <1>1, <1>2 DEF FactsMirrored, Seen, Confirmed, Unseen
<1>4. RouteFactsMirrored'
  BY <1>0, <1>1, <1>2 DEF RouteFactsMirrored, Value
<1>5. ResidueMirrored'
  BY <1>0, <1>1, <1>2 DEF ResidueMirrored
<1> QED BY <1>3, <1>4, <1>5

\* The decision on an experiment is read from the request and its assessment.
LEMMA DecisionStays ==
  ASSUME NEW e, Grows(e), NEW x
  PROVE  ExperimentDecision(x)' = ExperimentDecision(x)
  BY DEF ExperimentDecision, Grows, Selected, Policy

\* An event that is no poststate settles and unsettles nothing.
LEMMA SettledStays ==
  ASSUME NEW e, Grows(e), NEW i \in DOMAIN events,
         ~ \E n \in {Len(events) + 1} : Closes(n, i)'
  PROVE  ExperimentSettled(i)' <=> ExperimentSettled(i)
<1>0. PICK n \in Nat : n = Len(events)
  BY GrownList
<1>1. /\ Len(events') = n + 1 /\ DOMAIN events' = 1..(n + 1) /\ DOMAIN events = 1..n
      /\ \A j \in 1..n : events'[j] = events[j]
      /\ i \in 1..n
  BY <1>0, GrownList
<1>2. \A j \in 1..n : j \in 1..(n + 1) /\ \A k \in (i + 1)..(j - 1) : k \in 1..n
  BY <1>0, <1>1
<1>3. ASSUME NEW j \in 1..n PROVE Closes(j, i)' <=> Closes(j, i)
  BY <1>1, <1>2 DEF Closes
<1>4. ~ Closes(n + 1, i)'
  BY <1>0
<1>5. \A j \in 1..(n + 1) : j \in 1..n \/ j = n + 1
  BY <1>0
<1>6. ExperimentDecision(events[i])' = ExperimentDecision(events[i])
  BY <1>1, DecisionStays
<1> QED BY <1>1, <1>2, <1>3, <1>4, <1>5, <1>6 DEF ExperimentSettled

\* An event about no experiment leaves the experiments as they are.
LEMMA ExperimentsStay ==
  ASSUME NEW e, Grows(e), e.kind \notin {"experiment", "poststate"},
         life'.experiments = life.experiments, ExperimentsMirrored
  PROVE  ExperimentsMirrored'
<1>1. PICK at \in [DOMAIN life.experiments -> DOMAIN events] : Numbered(at)
  BY DEF ExperimentsMirrored
<1>2. PICK n \in Nat : n = Len(events)
  BY GrownList
<1>3. /\ DOMAIN events' = 1..(n + 1) /\ DOMAIN events = 1..n
      /\ \A j \in 1..n : events'[j] = events[j]
      /\ events'[n + 1] = e
  BY <1>2, GrownList
<1>4. ASSUME NEW i \in 1..n PROVE ExperimentSettled(i)' <=> ExperimentSettled(i)
  <2>1. ~ Closes(n + 1, i)'
    BY <1>3 DEF Closes
  <2> QED BY <1>2, <1>3, <2>1, SettledStays
<1>5. ASSUME NEW k \in DOMAIN life.experiments
      PROVE  /\ at[k] \in 1..n /\ events'[at[k]] = events[at[k]]
             /\ ExperimentDecision(events[at[k]])' = ExperimentDecision(events[at[k]])
  BY <1>3, DecisionStays
<1>6. Numbered(at)'
  <2>1. at \in [DOMAIN life'.experiments -> DOMAIN events']
    BY <1>3, <1>5
  <2>2. \A i \in 1..(n + 1) : i \in 1..n \/ i = n + 1
    BY <1>2
  <2> QED BY <1>1, <1>3, <1>4, <1>5, <2>1, <2>2 DEF Numbered
<1>7. at \in [DOMAIN life'.experiments -> DOMAIN events']
  BY <1>3, <1>5
<1> QED BY <1>6, <1>7 DEF ExperimentsMirrored

\* What retired an allocation before still does.
LEMMA RetirementStays ==
  ASSUME NEW e, Grows(e), NEW i \in DOMAIN events, NEW a
  PROVE  RetiredAt(i, a)' <=> RetiredAt(i, a)
<1>1. PICK n \in Nat : n = Len(events)
  BY GrownList
<1>2. /\ events'[i] = events[i] /\ Selected' = Selected /\ Policy' = Policy
      /\ i \in 1..n
  BY <1>1, GrownList
<1>3. PICK m \in 0..n : m = i - 1
  BY <1>2
<1>4. ASSUME NEW f PROVE SaidIndependently(m, f)' <=> SaidIndependently(m, f)
  BY <1>1, SaidBefore
<1> QED BY <1>2, <1>3, <1>4 DEF RetiredAt, Independent

\* An event that retires nothing leaves the retirements as they are.
LEMMA RetiredStay ==
  ASSUME NEW e, Grows(e), e.kind # "retired",
         life'.retired = life.retired, life'.selectedRetired = life.selectedRetired, RetiredMirrored
  PROVE  RetiredMirrored'
<1>1. PICK n \in Nat : n = Len(events)
  BY GrownList
<1>2. /\ DOMAIN events' = 1..(n + 1) /\ DOMAIN events = 1..n
      /\ \A j \in 1..n : events'[j] = events[j]
      /\ events'[n + 1] = e /\ Selected' = Selected /\ Policy' = Policy
      /\ \A i \in 1..(n + 1) : i \in 1..n \/ i = n + 1
      /\ \A i \in 1..n : i \in 1..(n + 1)
  BY <1>1, GrownList
<1>3. ASSUME NEW a, NEW i \in 1..n PROVE RetiredAt(i, a)' <=> RetiredAt(i, a)
  BY <1>2, RetirementStays
<1>4. ASSUME NEW a PROVE ~RetiredAt(n + 1, a)'
  BY <1>2 DEF RetiredAt
<1>5. ASSUME NEW a PROVE (\E i \in DOMAIN events' : RetiredAt(i, a)') <=> \E i \in DOMAIN events : RetiredAt(i, a)
  BY <1>2, <1>3, <1>4
<1>6. SelfRetired' <=> SelfRetired
  BY <1>2 DEF SelfRetired
<1> QED BY <1>2, <1>5, <1>6 DEF RetiredMirrored

(*****************************************************************************)
(* The request is never touched                                              *)
(*****************************************************************************)

\* What is read from the request alone stays with it.
LEMMA AssessmentStays ==
  ASSUME request' = request
  PROVE  Assessed' = Assessed /\ (ValidRequest' <=> ValidRequest) /\ RouteIds' = RouteIds
<1>1. Routes' = Routes /\ Policy' = Policy /\ Env' = Env /\ Obs' = Obs /\ RouteIds' = RouteIds
  BY DEF Policy, Env, Obs, Routes, RouteIds
<1>2. ASSUME NEW id PROVE RouteOf(id)' = RouteOf(id)
  BY <1>1 DEF RouteOf
<1>3. RequiredEnv' = RequiredEnv /\ RequiredRoute' = RequiredRoute /\ RequiredCoherence' = RequiredCoherence
  BY <1>1 DEF RequiredEnv, RequiredRoute, RequiredCoherence
<1>4. ObservationFailures' = ObservationFailures
  BY <1>1 DEF ObservationFailures
<1>5. ASSUME NEW b PROVE TargetValue(b)' = TargetValue(b)
  BY <1>1, <1>2 DEF TargetValue
<1>6. RequiredTargets' = RequiredTargets
  BY <1>1, <1>3 DEF RequiredTargets
<1>7. BindingFailures' = BindingFailures
  <2>1. (\E b \in Obs.bindings : TargetValue(b) # b.value)' <=> \E b \in Obs.bindings : TargetValue(b) # b.value
    BY <1>1, <1>5
  <2>2. (RequiredTargets \subseteq {TargetOf(b) : b \in Obs.bindings})'
           <=> (RequiredTargets \subseteq {TargetOf(b) : b \in Obs.bindings})
    BY <1>1, <1>6
  <2>3. (\E b, c \in Obs.bindings : b # c /\ b.field = c.field)'
           <=> \E b, c \in Obs.bindings : b # c /\ b.field = c.field
    BY <1>1
  <2>4. (\E b, c \in Obs.bindings : b # c /\ TargetOf(b) = TargetOf(c))'
           <=> \E b, c \in Obs.bindings : b # c /\ TargetOf(b) = TargetOf(c)
    BY <1>1
  <2> QED BY <2>1, <2>2, <2>3, <2>4 DEF BindingFailures, FailIf
<1>8. EnvironmentFailures' = EnvironmentFailures
  BY <1>1, <1>3, <1>4, <1>7 DEF EnvironmentFailures
<1>9. ASSUME NEW r PROVE RouteFailures(r)' = RouteFailures(r) /\ (Admitted(r)' <=> Admitted(r))
  <2>1. RouteFailures(r)' = RouteFailures(r)
    BY <1>3, <1>8 DEF RouteFailures
  <2> QED BY <2>1 DEF Admitted
<1>10. AdmittedIds' = AdmittedIds
  BY <1>1, <1>9 DEF AdmittedIds
<1>11. ASSUME NEW list PROVE Frontier(list)' = Frontier(list)
  BY <1>9 DEF Frontier
<1>12. ASSUME NEW source PROVE SourceRank(source)' = SourceRank(source)
  BY <1>1 DEF SourceRank
<1>13. ASSUME NEW list, NEW front PROVE BestSource(list, front)' = BestSource(list, front)
  BY <1>12 DEF BestSource
<1>14. ASSUME NEW ids PROVE Preferred(ids)' = Preferred(ids)
  BY <1>1 DEF Preferred
<1>15. ASSUME NEW ids PROVE FirstPreferred(ids)' = FirstPreferred(ids)
  BY <1>1, <1>14 DEF FirstPreferred
<1>16. (Select(request.routes))' = Select(request.routes)
  <2> DEFINE list == request.routes
             front == Frontier(list)
             ids == {list[i].id : i \in front}
  <2>0. list' = list
    OBVIOUS
  <2> HIDE DEF list
  <2>1. front' = front
    BY <1>9, <2>0 DEF Frontier
  <2> HIDE DEF front
  <2>2. ids' = ids
    BY <2>0, <2>1
  <2> HIDE DEF ids
  <2>3. Preferred(ids)' = Preferred(ids) /\ FirstPreferred(ids)' = FirstPreferred(ids)
    BY <1>14, <1>15, <2>2 DEF Preferred, FirstPreferred
  <2>4. BestSource(list, front)' = BestSource(list, front)
    BY <1>12, <2>0, <2>1 DEF BestSource
  <2>5. (\E r \in ToSet(list) : \E f \in RouteFailures(r) : f.state = "unknown")'
           <=> \E r \in ToSet(list) : \E f \in RouteFailures(r) : f.state = "unknown"
    BY <1>9, <2>0
  <2> DEFINE single == \A i, j \in front : i = j
             alike == \A i, j \in front : list[i].cost = list[j].cost
             hopeful == \E r \in ToSet(list) : \E f \in RouteFailures(r) : f.state = "unknown"
             first == CHOOSE i \in front : TRUE
             wanted == CHOOSE i \in front : list[i].id = FirstPreferred(ids)
             best == BestSource(list, front)
             taken(i) == Choice(list[i].id, ids, IF list[i].forms = {} THEN "no-op" ELSE "admit")
             made == CASE front = {} ->
                             Choice(NoRoute, {}, IF hopeful THEN "hold-unknown" ELSE "honest-stop")
                       [] front # {} /\ single -> taken(first)
                       [] ~single /\ Preferred(ids) # {} -> taken(wanted)
                       [] ~single /\ Preferred(ids) = {} ->
                             IF alike THEN taken(best) ELSE Choice(NoRoute, ids, "hold-unknown")
  <2>6. Select(list) = made
    BY DEF Select, front, ids
  <2>7. (Select(list) = made)'
    BY DEF Select, front, ids
  <2>8. /\ single' <=> single
        /\ alike' <=> alike
        /\ hopeful' <=> hopeful
        /\ first' = first /\ wanted' = wanted /\ best' = best
        /\ (Preferred(ids) # {})' <=> Preferred(ids) # {}
    BY <2>0, <2>1, <2>3, <2>4, <2>5
  <2> HIDE DEF single, alike, hopeful, first, wanted, best
  <2>9. made' = made
    <3>1. taken(first)' = taken(first) /\ taken(wanted)' = taken(wanted) /\ taken(best)' = taken(best)
      BY <2>0, <2>2, <2>8 DEF Choice
    <3>2. Choice(NoRoute, ids, "hold-unknown")' = Choice(NoRoute, ids, "hold-unknown")
      BY <2>2 DEF Choice, NoRoute
    <3>3. Choice(NoRoute, {}, IF hopeful THEN "hold-unknown" ELSE "honest-stop")'
             = Choice(NoRoute, {}, IF hopeful THEN "hold-unknown" ELSE "honest-stop")
      BY <2>8 DEF Choice, NoRoute
    <3>4. (front = {})' <=> front = {}
      BY <2>1
    <3> HIDE DEF taken
    <3> QED BY <2>8, <3>1, <3>2, <3>3, <3>4
  <2> HIDE DEF made
  <2>10. (Select(list))' = Select(list)
    BY <2>6, <2>7, <2>9
  <2> QED BY <2>10 DEF list
<1>17. ValidObservation' <=> ValidObservation
  BY <1>1 DEF ValidObservation
<1>18. ASSUME NEW last PROVE ValidLastSafe(last)' <=> ValidLastSafe(last)
  BY <1>1, <1>2 DEF ValidLastSafe
<1>19. ASSUME NEW r PROVE ValidRoute(r)' <=> ValidRoute(r)
  BY <1>1 DEF ValidRoute
<1>20. ValidRequest' <=> ValidRequest
  <2>1. ValidLastSafe(Env.lastSafe)' <=> ValidLastSafe(Env.lastSafe)
    BY <1>1, <1>2 DEF ValidLastSafe
  <2> QED BY <1>1, <1>2, <1>17, <1>19, <2>1 DEF ValidRequest
<1>21. Assessed' = Assessed
  BY <1>10, <1>16, <1>20 DEF Assessed
<1> QED BY <1>1, <1>20, <1>21

(*****************************************************************************)
(* Rejection and observation                                                 *)
(*****************************************************************************)

\* A listed event grows the list and leaves the request and its assessment alone.
LEMMA ListedEvent ==
  ASSUME ReplayTypes, ChosenOK, NEW e \in Alphabet, Listed(e)
  PROVE  /\ Grows(e) /\ Len(events') <= MaxEvents /\ events' \in Seq(Alphabet)
         /\ ~rejected /\ ValidRequest
         /\ ChosenOK'
<1>1. Grows(e)
  BY DEF Listed, Grows, ReplayTypes
<1>2. Len(events') <= MaxEvents
  <2>1. Len(events) \in Nat /\ Len(events') = Len(events) + 1 /\ Len(events) < MaxEvents
    BY <1>1, GrownList DEF Listed
  <2> QED BY <2>1, BoundAssumption
<1>3. ChosenOK'
  BY AssessmentStays DEF ChosenOK, Listed
<1> QED BY <1>1, <1>2, <1>3, GrownList DEF Listed, ChosenOK

\* What the assumption on events says of one of them.
LEMMA EventShape ==
  ASSUME NEW e \in Alphabet
  PROVE  /\ e.kind \in {"fact", "resources", "experiment", "poststate", "retired"}
         /\ e.kind = "fact" => e.state \in FactValues
         /\ e.kind \in {"fact", "resources"} => e.independent \in FactValues
  BY AlphabetAssumption

\* RejectEvent keeps the invariant: nothing of the replay counts any more.
LEMMA RejectKeeps ==
  ASSUME IInv, NEW e \in Alphabet, RejectEvent(e)
  PROVE  IInv'
<1>1. ChosenOK' /\ events' \in Seq(Alphabet) /\ Len(events') <= MaxEvents
  BY ListedEvent DEF IInv, RejectEvent
<1>2. RouteIds' = RouteIds
  BY AssessmentStays DEF RejectEvent, Listed
<1>3. rejected' /\ rejected' \in BOOLEAN /\ life' = life
  BY DEF RejectEvent
<1>4. ReplayTypes'
  BY <1>1, <1>2, <1>3 DEF IInv, ReplayTypes
<1> QED BY <1>1, <1>3, <1>4 DEF IInv

\* IgnoreUnbound keeps the invariant: the event is about another route.
LEMMA IgnoreKeeps ==
  ASSUME IInv, NEW e \in Alphabet, IgnoreUnbound(e)
  PROVE  IInv'
<1>1. /\ ChosenOK' /\ events' \in Seq(Alphabet) /\ Len(events') <= MaxEvents
      /\ Grows(e) /\ ~rejected /\ ~rejected' /\ life' = life /\ rejected' = rejected
  BY ListedEvent DEF IInv, IgnoreUnbound
<1>2. \A f : ~Concerns(e, f)
  BY DEF Concerns, IgnoreUnbound
<1>3. e.kind \notin {"experiment", "poststate", "retired"}
  BY DEF IgnoreUnbound
<1>4. HistoryOK
  BY <1>1 DEF IInv
<1>5. FactsMirrored' /\ RouteFactsMirrored' /\ ResidueMirrored'
  BY <1>1, <1>2, <1>4, FactsStay DEF HistoryOK
<1>6. ExperimentsMirrored'
  BY <1>1, <1>3, <1>4, ExperimentsStay DEF HistoryOK
<1>7. RetiredMirrored'
  BY <1>1, <1>3, <1>4, RetiredStay DEF HistoryOK
<1>8. RouteIds' = RouteIds
  BY <1>1, GrownList
<1>9. ReplayTypes'
  BY <1>1, <1>8 DEF IInv, ReplayTypes
<1> QED BY <1>1, <1>5, <1>6, <1>7, <1>9 DEF IInv, HistoryOK

\* ObserveFact keeps the invariant: the event is the last word on its fact.
LEMMA ObserveFactKeeps ==
  ASSUME IInv, NEW e \in Alphabet, ObserveFact(e)
  PROVE  IInv'
<1> DEFINE record == [state |-> e.state, independent |-> e.independent]
<1>1. /\ ChosenOK' /\ events' \in Seq(Alphabet) /\ Len(events') <= MaxEvents
      /\ Grows(e) /\ ~rejected /\ ~rejected' /\ rejected' = rejected
      /\ e.kind = "fact" /\ e.route = Selected /\ ValidEvent(e)
  BY ListedEvent DEF IInv, ObserveFact
<1>2. /\ DOMAIN life' = LifeFields
      /\ life'.facts = With(life.facts, e.fact, record)
      /\ life'.routeFacts = IF e.fact \in RequiredRoute
                            THEN With(life.routeFacts, e.fact, e.state) ELSE life.routeFacts
      /\ life'.residue = life.residue /\ life'.experiments = life.experiments
      /\ life'.retired = life.retired /\ life'.selectedRetired = life.selectedRetired
  BY DEF IInv, ReplayTypes, ObserveFact, LifeFields
<1>3. e.fact # "cleanup"
  BY <1>1 DEF ValidEvent, ValidFact
<1>4. HistoryOK
  BY <1>1 DEF IInv
<1>5. PICK n \in Nat : n = Len(events)
  BY <1>1, GrownList
<1>6. Len(events') = n + 1 /\ Policy' = Policy /\ Selected' = Selected /\ RequiredRoute' = RequiredRoute
      /\ RouteIds' = RouteIds
  BY <1>1, <1>5, GrownList
<1>7. \A f : Concerns(e, f) <=> f = e.fact
  BY <1>1 DEF Concerns
<1>8. ASSUME NEW f, f # e.fact
      PROVE  /\ SaidObserved(n + 1, f)' <=> SaidObserved(n, f)
             /\ SaidIndependently(n + 1, f)' <=> SaidIndependently(n, f)
             /\ LostFact(n + 1, f)' <=> LostFact(n, f)
             /\ Seen(life'.facts, f) = Seen(life.facts, f)
  <2>1. Seen(life'.facts, f) = Seen(life.facts, f)
    BY <1>2, <1>8 DEF Seen, With
  <2> QED BY <1>1, <1>5, <1>7, <1>8, <2>1, SaidNow
<1>9. /\ SaidObserved(n + 1, e.fact)' <=> e.state = "observed"
      /\ SaidIndependently(n + 1, e.fact)' <=> e.state = "observed" /\ e.independent = "observed"
      /\ LostFact(n + 1, e.fact)' <=> e.state # "observed"
      /\ Seen(life'.facts, e.fact) = record
  <2>1. Seen(life'.facts, e.fact) = record
    BY <1>2 DEF Seen, With
  <2>2. PICK f : f = e.fact
    OBVIOUS
  <2>3. /\ SaidObserved(n + 1, f)' <=> SaysObserved(e)
        /\ SaidIndependently(n + 1, f)' <=> SaysObserved(e) /\ Independent(e)
        /\ LostFact(n + 1, f)' <=> e.kind = "fact" /\ e.state # "observed"
    BY <1>1, <1>5, <1>7, <2>2, SaidNow
  <2> QED BY <1>1, <2>1, <2>2, <2>3 DEF SaysObserved, Independent
<1>10. FactsMirrored'
  <2> SUFFICES ASSUME NEW f \in CompletionFacts \cup Policy.completion
               PROVE  /\ Seen(life'.facts, f).state = "observed" <=> SaidObserved(n + 1, f)'
                      /\ Confirmed(life'.facts, f) <=> SaidIndependently(n + 1, f)'
    BY <1>6 DEF FactsMirrored, Seen, Confirmed, Unseen
  <2>1. CASE f = e.fact
    BY <1>9, <2>1 DEF Confirmed
  <2>2. CASE f # e.fact
    BY <1>4, <1>5, <1>8, <2>2 DEF HistoryOK, FactsMirrored, Confirmed
  <2> QED BY <2>1, <2>2
<1>11. RouteFactsMirrored'
  <2> SUFFICES ASSUME Selected # NoRoute, NEW f \in RequiredRoute
               PROVE  Value(life'.routeFacts, f) = "observed" <=> ~LostFact(n + 1, f)'
    BY <1>6 DEF RouteFactsMirrored, Value
  <2>1. CASE f = e.fact
    BY <1>2, <1>9, <2>1 DEF Value, With
  <2>2. CASE f # e.fact
    <3>1. Value(life'.routeFacts, f) = Value(life.routeFacts, f)
      BY <1>2, <2>2 DEF Value, With
    <3> QED BY <1>4, <1>5, <1>8, <2>2, <3>1 DEF HistoryOK, RouteFactsMirrored
  <2> QED BY <2>1, <2>2
<1>12. ResidueMirrored'
  BY <1>2, <1>3, <1>4, <1>5, <1>6, <1>8 DEF HistoryOK, ResidueMirrored
<1>13. ExperimentsMirrored'
  BY <1>1, <1>2, <1>4, ExperimentsStay DEF HistoryOK
<1>14. RetiredMirrored'
  BY <1>1, <1>2, <1>4, RetiredStay DEF HistoryOK
<1>15. \A f \in DOMAIN life'.facts : life'.facts[f] \in FactRecords
  <2>1. record \in FactRecords
    BY <1>1, EventShape DEF FactRecords
  <2> QED BY <1>2, <2>1 DEF IInv, ReplayTypes, With
<1>16. ReplayTypes'
  BY <1>1, <1>2, <1>6, <1>15 DEF IInv, ReplayTypes
<1> QED BY <1>1, <1>10, <1>11, <1>12, <1>13, <1>14, <1>16 DEF IInv, HistoryOK

\* ObserveResources keeps the invariant: the event is the last word on the cleanup.
LEMMA ObserveResourcesKeeps ==
  ASSUME IInv, NEW e \in Alphabet, ObserveResources(e)
  PROVE  IInv'
<1> DEFINE record == [state |-> IF e.residual = {} /\ Independent(e)
                                THEN "observed" ELSE "not-observed",
                      independent |-> e.independent]
<1>1. /\ ChosenOK' /\ events' \in Seq(Alphabet) /\ Len(events') <= MaxEvents
      /\ Grows(e) /\ ~rejected /\ ~rejected' /\ rejected' = rejected
      /\ e.kind = "resources" /\ e.route = Selected
  BY ListedEvent DEF IInv, ObserveResources
<1>2. /\ DOMAIN life' = LifeFields
      /\ life'.facts = With(life.facts, "cleanup", record)
      /\ life'.routeFacts = life.routeFacts
      /\ life'.residue = e.residual /\ life'.experiments = life.experiments
      /\ life'.retired = life.retired /\ life'.selectedRetired = life.selectedRetired
  BY DEF IInv, ReplayTypes, ObserveResources, LifeFields
<1>4. HistoryOK
  BY <1>1 DEF IInv
<1>5. PICK n \in Nat : n = Len(events)
  BY <1>1, GrownList
<1>6. Len(events') = n + 1 /\ Policy' = Policy /\ Selected' = Selected /\ RequiredRoute' = RequiredRoute
      /\ RouteIds' = RouteIds
  BY <1>1, <1>5, GrownList
<1>7. \A f : Concerns(e, f) <=> f = "cleanup"
  BY <1>1 DEF Concerns
<1>8. ASSUME NEW f, f # "cleanup"
      PROVE  /\ SaidObserved(n + 1, f)' <=> SaidObserved(n, f)
             /\ SaidIndependently(n + 1, f)' <=> SaidIndependently(n, f)
             /\ LostFact(n + 1, f)' <=> LostFact(n, f)
             /\ Seen(life'.facts, f) = Seen(life.facts, f)
  <2>1. Seen(life'.facts, f) = Seen(life.facts, f)
    BY <1>2, <1>8 DEF Seen, With
  <2> QED BY <1>1, <1>5, <1>7, <1>8, <2>1, SaidNow
<1>9. /\ SaidObserved(n + 1, "cleanup")' <=> e.residual = {} /\ e.independent = "observed"
      /\ SaidIndependently(n + 1, "cleanup")' <=> e.residual = {} /\ e.independent = "observed"
      /\ ~LostFact(n + 1, "cleanup")'
      /\ Seen(life'.facts, "cleanup") = record
  <2>1. Seen(life'.facts, "cleanup") = record
    BY <1>2 DEF Seen, With
  <2>2. /\ SaidObserved(n + 1, "cleanup")' <=> SaysObserved(e)
        /\ SaidIndependently(n + 1, "cleanup")' <=> SaysObserved(e) /\ Independent(e)
        /\ LostFact(n + 1, "cleanup")' <=> e.kind = "fact" /\ e.state # "observed"
    BY <1>1, <1>5, <1>7, SaidNow
  <2> QED BY <1>1, <2>1, <2>2 DEF SaysObserved, Independent
<1>10. FactsMirrored'
  <2> SUFFICES ASSUME NEW f \in CompletionFacts \cup Policy.completion
               PROVE  /\ Seen(life'.facts, f).state = "observed" <=> SaidObserved(n + 1, f)'
                      /\ Confirmed(life'.facts, f) <=> SaidIndependently(n + 1, f)'
    BY <1>6 DEF FactsMirrored, Seen, Confirmed, Unseen
  <2>1. CASE f = "cleanup"
    BY <1>9, <2>1 DEF Confirmed, Independent
  <2>2. CASE f # "cleanup"
    BY <1>4, <1>5, <1>8, <2>2 DEF HistoryOK, FactsMirrored, Confirmed
  <2> QED BY <2>1, <2>2
<1>11. RouteFactsMirrored'
  <2> SUFFICES ASSUME Selected # NoRoute, NEW f \in RequiredRoute
               PROVE  Value(life'.routeFacts, f) = "observed" <=> ~LostFact(n + 1, f)'
    BY <1>6 DEF RouteFactsMirrored, Value
  <2>1. CASE f = "cleanup"
    BY <1>2, <1>4, <1>5, <1>9, <2>1 DEF HistoryOK, RouteFactsMirrored, ResidueMirrored
  <2>2. CASE f # "cleanup"
    BY <1>2, <1>4, <1>5, <1>8, <2>2 DEF HistoryOK, RouteFactsMirrored
  <2> QED BY <2>1, <2>2
<1>12. ResidueMirrored'
  BY <1>2, <1>6, <1>9 DEF ResidueMirrored
<1>13. ExperimentsMirrored'
  BY <1>1, <1>2, <1>4, ExperimentsStay DEF HistoryOK
<1>14. RetiredMirrored'
  BY <1>1, <1>2, <1>4, RetiredStay DEF HistoryOK
<1>15. \A f \in DOMAIN life'.facts : life'.facts[f] \in FactRecords
  <2>1. record \in FactRecords
    BY <1>1, EventShape DEF FactRecords, FactValues
  <2> QED BY <1>2, <2>1 DEF IInv, ReplayTypes, With
<1>16. ReplayTypes'
  BY <1>1, <1>2, <1>6, <1>15 DEF IInv, ReplayTypes
<1> QED BY <1>1, <1>10, <1>11, <1>12, <1>13, <1>14, <1>16 DEF IInv, HistoryOK

(*****************************************************************************)
(* Experiments                                                               *)
(*****************************************************************************)

\* What EvaluateExperiment writes.
LEMMA EvaluateRecords ==
  ASSUME IInv, NEW e \in Alphabet, EvaluateExperiment(e)
  PROVE  \E b \in BOOLEAN :
            LET x == [baseline |-> e.baseline, candidate |-> e.candidate,
                      decision |-> ExperimentDecision(e), observer |-> e.evidence.observer,
                      boundary |-> e.evidence.boundary, closed |-> b]
            IN  ~b /\ x \in ExperimentRecords /\ life'.experiments = Append(life.experiments, x)
<1>1. life'.experiments = Append(life.experiments,
         [baseline |-> e.baseline, candidate |-> e.candidate,
          decision |-> ExperimentDecision(e), observer |-> e.evidence.observer,
          boundary |-> e.evidence.boundary, closed |-> FALSE])
  BY DEF IInv, ReplayTypes, EvaluateExperiment, LifeFields
<1>2. PICK b \in BOOLEAN : b = FALSE
  OBVIOUS
<1>3. ExperimentDecision(e) \in {"hold", "discard", "keep"}
  BY DEF ExperimentDecision
<1>4. e \in ExperimentEvents
  BY DEF ExperimentEvents, EvaluateExperiment
<1>5. [baseline |-> e.baseline, candidate |-> e.candidate,
       decision |-> ExperimentDecision(e), observer |-> e.evidence.observer,
       boundary |-> e.evidence.boundary, closed |-> b] \in ExperimentRecords
  BY <1>3, <1>4 DEF ExperimentRecords
<1> QED BY <1>1, <1>2, <1>5

\* The experiment recorded last is that of the event listed last.
LEMMA EvaluateNumbers ==
  ASSUME IInv, NEW e \in Alphabet, Grows(e), e.kind = "experiment", ExperimentsMirrored,
         NEW x \in ExperimentRecords, life'.experiments = Append(life.experiments, x),
         x.baseline = e.baseline, x.candidate = e.candidate, x.decision = ExperimentDecision(e),
         x.observer = e.evidence.observer, x.boundary = e.evidence.boundary, ~x.closed
  PROVE  ExperimentsMirrored'
<1>1. PICK at \in [DOMAIN life.experiments -> DOMAIN events] : Numbered(at)
  BY DEF ExperimentsMirrored
<1>2. PICK n \in Nat : n = Len(events)
  BY GrownList
<1>3. /\ DOMAIN events' = 1..(n + 1) /\ DOMAIN events = 1..n
      /\ \A j \in 1..n : events'[j] = events[j]
      /\ events'[n + 1] = e
      /\ \A i \in 1..(n + 1) : i \in 1..n \/ i = n + 1
      /\ \A i \in 1..n : i \in 1..(n + 1) /\ i < n + 1 /\ i # n + 1
      /\ n + 1 \in 1..(n + 1)
  BY <1>2, GrownList
<1>4. PICK m \in Nat : m = Len(life.experiments)
  BY DEF IInv, ReplayTypes
<1>5. /\ DOMAIN life.experiments = 1..m /\ DOMAIN life'.experiments = 1..(m + 1)
      /\ \A k \in 1..m : life'.experiments[k] = life.experiments[k]
      /\ life'.experiments[m + 1] = x
      /\ \A k \in 1..(m + 1) : k \in 1..m \/ k = m + 1
      /\ \A k \in 1..m : k \in 1..(m + 1) /\ k # m + 1 /\ k < m + 1
      /\ m + 1 \in 1..(m + 1)
  <2>1. life.experiments \in Seq(ExperimentRecords)
    BY DEF IInv, ReplayTypes
  <2> QED BY <1>4, <2>1
<1>6. PICK now \in [1..(m + 1) -> 1..(n + 1)] :
         now = [k \in 1..(m + 1) |-> IF k = m + 1 THEN n + 1 ELSE at[k]]
  <2>1. \A k \in 1..(m + 1) : (IF k = m + 1 THEN n + 1 ELSE at[k]) \in 1..(n + 1)
    BY <1>3, <1>5
  <2> QED BY <2>1
<1>7. /\ \A k \in 1..m : now[k] = at[k] /\ at[k] \in 1..n
      /\ now[m + 1] = n + 1
  BY <1>3, <1>5, <1>6
<1>8. ASSUME NEW i \in 1..n PROVE ExperimentSettled(i)' <=> ExperimentSettled(i)
  <2>1. ~ Closes(n + 1, i)'
    BY <1>3 DEF Closes
  <2> QED BY <1>2, <1>3, <2>1, SettledStays
<1>9. ~ ExperimentSettled(n + 1)'
  <2>1. \A j \in 1..(n + 1) : ~(j > n + 1)
    OBVIOUS
  <2> QED BY <1>3, <2>1 DEF ExperimentSettled, Closes
<1>10. ASSUME NEW y PROVE ExperimentDecision(y)' = ExperimentDecision(y)
  BY DecisionStays
<1>11. Numbered(now)'
  <2>1. now \in [DOMAIN life'.experiments -> DOMAIN events']
    BY <1>3, <1>5
  <2>2. \A k, l \in 1..(m + 1) : k < l => now[k] < now[l]
    <3> SUFFICES ASSUME NEW k \in 1..(m + 1), NEW l \in 1..(m + 1), k < l PROVE now[k] < now[l]
      OBVIOUS
    <3>1. k \in 1..m
      BY <1>5
    <3>2. CASE l \in 1..m
      BY <1>1, <1>5, <1>7, <3>1, <3>2 DEF Numbered
    <3>3. CASE l = m + 1
      BY <1>3, <1>7, <3>1, <3>3
    <3> QED BY <1>5, <3>2, <3>3
  <2>3. \A i \in 1..(n + 1) : events'[i].kind = "experiment" => \E k \in 1..(m + 1) : now[k] = i
    <3> SUFFICES ASSUME NEW i \in 1..(n + 1), events'[i].kind = "experiment"
                 PROVE  \E k \in 1..(m + 1) : now[k] = i
      OBVIOUS
    <3>1. CASE i \in 1..n
      <4>1. PICK k \in 1..m : at[k] = i
        BY <1>1, <1>3, <1>5, <3>1 DEF Numbered
      <4> QED BY <1>5, <1>7, <4>1
    <3>2. CASE i = n + 1
      BY <1>5, <1>7, <3>2
    <3> QED BY <1>3, <3>1, <3>2
  <2>4. ASSUME NEW k \in 1..(m + 1)
        PROVE  LET y == life'.experiments[k]
                   d == events'[now[k]]
               IN  /\ d.kind = "experiment"
                   /\ y.baseline = d.baseline /\ y.candidate = d.candidate
                   /\ y.decision = (ExperimentDecision(events[now[k]]))'
                   /\ y.observer = d.evidence.observer /\ y.boundary = d.evidence.boundary
                   /\ y.closed <=> ExperimentSettled(now[k])'
    <3>1. CASE k \in 1..m
      <4>1. now[k] = at[k] /\ at[k] \in 1..n /\ life'.experiments[k] = life.experiments[k]
            /\ events'[now[k]] = events[at[k]]
        BY <1>3, <1>5, <1>7, <3>1
      <4>2. PICK i \in 1..n : i = at[k]
        BY <4>1
      <4>3. ExperimentSettled(i)' <=> ExperimentSettled(i)
        BY <1>8
      <4>4. (ExperimentDecision(events[now[k]]))' = ExperimentDecision(events[at[k]])
        BY <4>1 DEF ExperimentDecision, Grows, Selected, Policy
      <4>5. /\ events[at[k]].kind = "experiment"
            /\ life.experiments[k].baseline = events[at[k]].baseline
            /\ life.experiments[k].candidate = events[at[k]].candidate
            /\ life.experiments[k].decision = ExperimentDecision(events[at[k]])
            /\ life.experiments[k].observer = events[at[k]].evidence.observer
            /\ life.experiments[k].boundary = events[at[k]].evidence.boundary
            /\ life.experiments[k].closed <=> ExperimentSettled(at[k])
        BY <1>1, <1>5, <3>1 DEF Numbered
      <4>6. ExperimentSettled(now[k])' <=> ExperimentSettled(at[k])
        BY <4>1, <4>2, <4>3
      <4> QED BY <4>1, <4>4, <4>5, <4>6
    <3>2. CASE k = m + 1
      <4>1. now[k] = n + 1 /\ life'.experiments[k] = x /\ events'[now[k]] = e
        BY <1>3, <1>5, <1>7, <3>2
      <4>2. ~ ExperimentSettled(now[k])'
        BY <1>9, <4>1
      <4>3. (ExperimentDecision(events[now[k]]))' = ExperimentDecision(e)
        BY <4>1 DEF ExperimentDecision, Grows, Selected, Policy
      <4> QED BY <4>1, <4>2, <4>3
    <3> QED BY <1>5, <3>1, <3>2
  <2> QED BY <1>3, <1>5, <2>1, <2>2, <2>3, <2>4 DEF Numbered
<1> QED BY <1>3, <1>5, <1>11 DEF ExperimentsMirrored

\* EvaluateExperiment keeps the invariant.
LEMMA EvaluateKeeps ==
  ASSUME IInv, NEW e \in Alphabet, EvaluateExperiment(e)
  PROVE  IInv'
<1>1. /\ ChosenOK' /\ events' \in Seq(Alphabet) /\ Len(events') <= MaxEvents
      /\ Grows(e) /\ ~rejected /\ ~rejected' /\ rejected' = rejected
      /\ e.kind = "experiment"
  BY ListedEvent DEF IInv, EvaluateExperiment
<1>2. /\ DOMAIN life' = LifeFields
      /\ life'.facts = life.facts /\ life'.routeFacts = life.routeFacts
      /\ life'.residue = life.residue
      /\ life'.retired = life.retired /\ life'.selectedRetired = life.selectedRetired
  BY DEF IInv, ReplayTypes, EvaluateExperiment, LifeFields
<1>3. PICK x \in ExperimentRecords :
         /\ life'.experiments = Append(life.experiments, x)
         /\ x.baseline = e.baseline /\ x.candidate = e.candidate /\ x.decision = ExperimentDecision(e)
         /\ x.observer = e.evidence.observer /\ x.boundary = e.evidence.boundary /\ ~x.closed
  <2>1. PICK b \in BOOLEAN :
            LET x == [baseline |-> e.baseline, candidate |-> e.candidate,
                      decision |-> ExperimentDecision(e), observer |-> e.evidence.observer,
                      boundary |-> e.evidence.boundary, closed |-> b]
            IN  ~b /\ x \in ExperimentRecords /\ life'.experiments = Append(life.experiments, x)
    BY EvaluateRecords
  <2> DEFINE x == [baseline |-> e.baseline, candidate |-> e.candidate,
                   decision |-> ExperimentDecision(e), observer |-> e.evidence.observer,
                   boundary |-> e.evidence.boundary, closed |-> b]
  <2>2. /\ x \in ExperimentRecords /\ life'.experiments = Append(life.experiments, x)
        /\ x.baseline = e.baseline /\ x.candidate = e.candidate /\ x.decision = ExperimentDecision(e)
        /\ x.observer = e.evidence.observer /\ x.boundary = e.evidence.boundary /\ ~x.closed
    BY <2>1
  <2> QED BY <2>2
<1>4. HistoryOK
  BY <1>1 DEF IInv
<1>5. FactsMirrored' /\ RouteFactsMirrored' /\ ResidueMirrored'
  <2>1. \A f : ~Concerns(e, f)
    BY <1>1 DEF Concerns
  <2> QED BY <1>1, <1>2, <1>4, <2>1, FactsStay DEF HistoryOK
<1>6. ExperimentsMirrored'
  BY <1>1, <1>3, <1>4, EvaluateNumbers DEF HistoryOK
<1>7. RetiredMirrored'
  BY <1>1, <1>2, <1>4, RetiredStay DEF HistoryOK
<1>8. RouteIds' = RouteIds
  BY <1>1, GrownList
<1>9. life'.experiments \in Seq(ExperimentRecords)
  <2>1. life.experiments \in Seq(ExperimentRecords)
    BY DEF IInv, ReplayTypes
  <2> QED BY <1>3, <2>1
<1>10. ReplayTypes'
  BY <1>1, <1>2, <1>8, <1>9 DEF IInv, ReplayTypes
<1> QED BY <1>1, <1>5, <1>6, <1>7, <1>10 DEF IInv, HistoryOK

(*****************************************************************************)
(* Poststates of experiments                                                 *)
(*****************************************************************************)

\* A bounded set of numbers that has an element has a greatest one.
LEMMA GreatestBelow ==
  ASSUME NEW m \in Nat, NEW T \in SUBSET (1..m), T # {}
  PROVE  \E x \in T : \A y \in T : y <= x
<1> DEFINE gaps == {m - x : x \in T}
<1>1. gaps \in SUBSET Nat /\ gaps # {}
  <2>1. \A x \in T : x \in 1..m
    OBVIOUS
  <2>2. \A x \in T : m - x \in Nat
    BY <2>1
  <2> QED BY <2>2
<1>2. PICK x \in T : \A y \in T : m - x <= m - y
  <2> HIDE DEF gaps
  <2>1. PICK g \in gaps : \A h \in gaps : g <= h
    BY <1>1, LeastNat
  <2> QED BY <2>1 DEF gaps
<1>3. \A y \in T : y <= x
  BY <1>2
<1> QED BY <1>3

\* What a poststate does to the experiments kept.
SamePair(x, e) == x.baseline = e.baseline /\ x.candidate = e.candidate
\* The experiments of the pair an event names.
Mine(e) == {i \in DOMAIN life.experiments : SamePair(life.experiments[i], e)}
\* What a poststate must say to close an experiment.
Accepts(x, e) ==
    /\ ExpectedPoststate(x.decision) = e.disposition
    /\ e.state = "observed" /\ Independent(e)
    /\ e.evidence.observer = x.observer
    /\ e.evidence.boundary = x.boundary

\* What CloseExperiment writes.
LEMMA CloseRecords ==
  ASSUME IInv, NEW e \in Alphabet, CloseExperiment(e)
  PROVE  \/ Mine(e) = {} /\ life' = life
         \/ \E last \in Mine(e), b \in BOOLEAN :
               /\ \A j \in Mine(e) : j <= last
               /\ b <=> Accepts(life.experiments[last], e)
               /\ life'.experiments = [life.experiments EXCEPT ![last] =
                                          [life.experiments[last] EXCEPT !.closed = b]]
<1> DEFINE ex == life.experiments
<1>0. ex \in Seq(ExperimentRecords)
  BY DEF IInv, ReplayTypes
<1>1. CASE Mine(e) = {}
  BY <1>1 DEF Mine, SamePair, CloseExperiment
<1>2. CASE Mine(e) # {}
  <2>1. Mine(e) \in SUBSET (1..Len(ex)) /\ Len(ex) \in Nat
    BY <1>0 DEF Mine
  <2> DEFINE last == CHOOSE i \in Mine(e) : \A j \in Mine(e) : j <= i
  <2>2. last \in Mine(e) /\ \A j \in Mine(e) : j <= last
    BY <1>2, <2>1, GreatestBelow
  <2>3. PICK b \in BOOLEAN : b = Accepts(ex[last], e)
    BY DEF Accepts
  <2>4. life'.experiments = [ex EXCEPT ![last] =
                                [ex[last] EXCEPT !.closed = Accepts(ex[last], e)]]
    BY <1>2 DEF CloseExperiment, Mine, SamePair, Accepts, IInv, ReplayTypes, LifeFields
  <2> HIDE DEF last
  <2> QED BY <2>2, <2>3, <2>4
<1> QED BY <1>1, <1>2

\* What an order-preserving numbering of the experiments tells the latest of a pair.
LEMMA Renumbered ==
  ASSUME NEW e, Grows(e), e.kind = "poststate",
         NEW at \in [DOMAIN life.experiments -> DOMAIN events], Numbered(at),
         DOMAIN life'.experiments = DOMAIN life.experiments,
         \A k \in DOMAIN life.experiments :
            LET x == life.experiments[k]
                y == life'.experiments[k]
            IN  /\ y.baseline = x.baseline /\ y.candidate = x.candidate /\ y.decision = x.decision
                /\ y.observer = x.observer /\ y.boundary = x.boundary
                /\ y.closed <=> ExperimentSettled(at[k])'
  PROVE  ExperimentsMirrored'
<1>1. PICK n \in Nat : n = Len(events)
  BY GrownList
<1>2. /\ DOMAIN events' = 1..(n + 1) /\ DOMAIN events = 1..n
      /\ \A j \in 1..n : events'[j] = events[j]
      /\ events'[n + 1] = e
      /\ \A i \in 1..(n + 1) : i \in 1..n \/ i = n + 1
      /\ \A i \in 1..n : i \in 1..(n + 1)
  BY <1>1, GrownList
<1>3. at \in [DOMAIN life'.experiments -> DOMAIN events']
  BY <1>2
<1>4. ASSUME NEW k \in DOMAIN life.experiments
      PROVE  /\ at[k] \in 1..n /\ events'[at[k]] = events[at[k]]
             /\ (ExperimentDecision(events[at[k]]))' = ExperimentDecision(events[at[k]])
  <2>1. at[k] \in 1..n /\ events'[at[k]] = events[at[k]]
    BY <1>2
  <2> QED BY <2>1 DEF ExperimentDecision, Grows, Selected, Policy
<1>5. \A i \in DOMAIN events' : events'[i].kind = "experiment" =>
         \E k \in DOMAIN life'.experiments : at[k] = i
  BY <1>2 DEF Numbered
<1>6. \A k, l \in DOMAIN life'.experiments : k < l => at[k] < at[l]
  BY DEF Numbered
<1>7. ASSUME NEW k \in DOMAIN life.experiments
      PROVE  LET y == life'.experiments[k]
                 d == events'[at[k]]
             IN  /\ d.kind = "experiment"
                 /\ y.baseline = d.baseline /\ y.candidate = d.candidate
                 /\ y.decision = (ExperimentDecision(events[at[k]]))'
                 /\ y.observer = d.evidence.observer /\ y.boundary = d.evidence.boundary
                 /\ y.closed <=> ExperimentSettled(at[k])'
  <2>1. /\ events[at[k]].kind = "experiment"
        /\ life.experiments[k].baseline = events[at[k]].baseline
        /\ life.experiments[k].candidate = events[at[k]].candidate
        /\ life.experiments[k].decision = ExperimentDecision(events[at[k]])
        /\ life.experiments[k].observer = events[at[k]].evidence.observer
        /\ life.experiments[k].boundary = events[at[k]].evidence.boundary
    BY DEF Numbered
  <2> QED BY <1>4, <2>1
<1>8. Numbered(at)'
  BY <1>3, <1>5, <1>6, <1>7 DEF Numbered
<1> QED BY <1>3, <1>8 DEF ExperimentsMirrored

\* A poststate settles, or unsettles, the latest experiment of its pair and no other.
LEMMA CloseNumbers ==
  ASSUME IInv, NEW e \in Alphabet, CloseExperiment(e), Grows(e), ExperimentsMirrored
  PROVE  ExperimentsMirrored'
<1>1. PICK at \in [DOMAIN life.experiments -> DOMAIN events] : Numbered(at)
  BY DEF ExperimentsMirrored
<1>2. PICK n \in Nat : n = Len(events)
  BY GrownList
<1>3. /\ DOMAIN events' = 1..(n + 1) /\ DOMAIN events = 1..n
      /\ \A j \in 1..n : events'[j] = events[j]
      /\ events'[n + 1] = e
      /\ \A i \in 1..(n + 1) : i \in 1..n \/ i = n + 1
      /\ \A i \in 1..n : i \in 1..(n + 1) /\ i < n + 1
      /\ n + 1 \in 1..(n + 1)
      /\ e.kind = "poststate"
  <2>1. e.kind = "poststate"
    BY DEF CloseExperiment
  <2> QED BY <1>2, <2>1, GrownList
<1>4. PICK m \in Nat : m = Len(life.experiments) /\ DOMAIN life.experiments = 1..m
                       /\ \A k \in 1..m : life.experiments[k] \in ExperimentRecords
  BY DEF IInv, ReplayTypes
<1>5. ASSUME NEW k \in 1..m
      PROVE  /\ at[k] \in 1..n /\ events'[at[k]] = events[at[k]] /\ events[at[k]].kind = "experiment"
             /\ SamePair(events[at[k]], e) <=> k \in Mine(e)
             /\ life.experiments[k].closed <=> ExperimentSettled(at[k])
             /\ life.experiments[k].closed \in BOOLEAN
  <2>1. at[k] \in 1..n /\ events'[at[k]] = events[at[k]]
    BY <1>3, <1>4
  <2>2. /\ events[at[k]].kind = "experiment"
        /\ life.experiments[k].baseline = events[at[k]].baseline
        /\ life.experiments[k].candidate = events[at[k]].candidate
        /\ life.experiments[k].closed <=> ExperimentSettled(at[k])
    BY <1>1, <1>4 DEF Numbered
  <2>3. life.experiments[k].closed \in BOOLEAN
    BY <1>4 DEF ExperimentRecords
  <2> QED BY <1>4, <2>1, <2>2, <2>3 DEF SamePair, Mine
<1>6. ASSUME NEW k \in 1..m, ~ Closes(n + 1, at[k])'
      PROVE  ExperimentSettled(at[k])' <=> ExperimentSettled(at[k])
  <2>1. PICK i \in 1..n : i = at[k]
    BY <1>5
  <2>2. ~ Closes(n + 1, i)'
    BY <1>6, <2>1
  <2>3. ExperimentSettled(i)' <=> ExperimentSettled(i)
    BY <1>2, <1>3, <2>2, SettledStays
  <2> QED BY <2>1, <2>3
<1>7. ASSUME NEW k \in 1..m, k \notin Mine(e)
      PROVE  ~ Closes(n + 1, at[k])'
  <2>1. ~SamePair(events[at[k]], e)
    BY <1>5, <1>7
  <2> QED BY <1>3, <1>5, <2>1 DEF Closes, SamePair
<1>8. CASE Mine(e) = {} /\ life' = life
  <2>1. ASSUME NEW k \in 1..m PROVE life.experiments[k].closed <=> ExperimentSettled(at[k])'
    BY <1>5, <1>6, <1>7, <1>8
  <2> QED BY <1>1, <1>3, <1>4, <1>8, <2>1, Renumbered
<1>9. ASSUME NEW last \in Mine(e), NEW b \in BOOLEAN,
             \A j \in Mine(e) : j <= last,
             b <=> Accepts(life.experiments[last], e),
             life'.experiments = [life.experiments EXCEPT ![last] =
                                      [life.experiments[last] EXCEPT !.closed = b]]
      PROVE  ExperimentsMirrored'
  <2>1. last \in 1..m /\ Mine(e) \subseteq 1..m
    BY <1>4 DEF Mine
  <2>2. PICK p \in 1..n : p = at[last]
    BY <1>5, <2>1
  <2>3. ASSUME NEW k \in 1..m, k # last
        PROVE  ~ Closes(n + 1, at[k])'
    <3>1. CASE k \notin Mine(e)
      BY <1>7, <3>1
    <3>2. CASE k \in Mine(e)
      <4>1. k < last
        BY <1>9, <2>1, <2>3, <3>2
      <4>2. at[k] < at[last]
        BY <1>1, <1>4, <2>1, <4>1 DEF Numbered
      <4>3. p \in (at[k] + 1)..((n + 1) - 1)
        BY <1>5, <2>2, <4>2
      <4>4. SamePair(events[at[k]], e) /\ SamePair(events[p], e) /\ events[p].kind = "experiment"
        BY <1>5, <2>1, <2>2, <3>2
      <4> QED BY <1>3, <1>5, <2>2, <4>3, <4>4 DEF Closes, SamePair
    <3> QED BY <3>1, <3>2
  <2>4. Closes(n + 1, p)'
    <3>1. SamePair(events[p], e) /\ events'[p] = events[p]
      BY <1>5, <2>1, <2>2
    <3>2. ASSUME NEW q \in (p + 1)..((n + 1) - 1),
                 events'[q].kind = "experiment" /\ SamePair(events'[q], events[p])
          PROVE  FALSE
      <4>1. q \in 1..n /\ q > p
        OBVIOUS
      <4>2. PICK k \in 1..m : at[k] = q
        BY <1>1, <1>3, <1>4, <3>2, <4>1 DEF Numbered
      <4>3. k \in Mine(e)
        <5>1. events'[q] = events[q]
          BY <1>3, <4>1
        <5>2. SamePair(events[q], e)
          BY <3>1, <3>2, <5>1 DEF SamePair
        <5> QED BY <1>5, <4>2, <5>2
      <4>4. k <= last /\ k # last
        BY <1>9, <2>2, <4>1, <4>2, <4>3
      <4>5. at[k] < at[last]
        BY <1>1, <1>4, <2>1, <4>4 DEF Numbered
      <4> QED BY <2>2, <4>1, <4>2, <4>5
    <3> QED BY <1>3, <3>1, <3>2 DEF Closes, SamePair
  <2>5. ExperimentSettled(p)' <=> Accepts(life.experiments[last], e)
    <3>1. ASSUME NEW j \in 1..(n + 1), Closes(j, p)', \A k \in 1..(n + 1) : Closes(k, p)' => k <= j
          PROVE  j = n + 1
      BY <1>3, <2>4, <3>1
    <3>2. \A k \in 1..(n + 1) : k <= n + 1
      OBVIOUS
    <3>3. /\ (ExperimentDecision(events[p]))' = ExperimentDecision(events[p])
          /\ events'[p] = events[p]
      <4>1. events'[p] = events[p]
        BY <1>3
      <4> QED BY <4>1 DEF ExperimentDecision, Grows, Selected, Policy
    <3>4. /\ life.experiments[last].decision = ExperimentDecision(events[p])
          /\ life.experiments[last].observer = events[p].evidence.observer
          /\ life.experiments[last].boundary = events[p].evidence.boundary
      BY <1>1, <1>4, <2>1, <2>2 DEF Numbered
    <3>5. ExperimentSettled(p)' <=>
            \E j \in 1..(n + 1) :
               /\ Closes(j, p)' /\ \A k \in 1..(n + 1) : Closes(k, p)' => k <= j
               /\ events'[j].disposition = ExpectedPoststate((ExperimentDecision(events[p]))')
               /\ events'[j].state = "observed" /\ Independent(events'[j])
               /\ events'[j].evidence.observer = events'[p].evidence.observer
               /\ events'[j].evidence.boundary = events'[p].evidence.boundary
      BY <1>3 DEF ExperimentSettled, ExpectedPoststate, Independent
    <3>6. ExperimentSettled(p)' <=>
               /\ e.disposition = ExpectedPoststate(ExperimentDecision(events[p]))
               /\ e.state = "observed" /\ Independent(e)
               /\ e.evidence.observer = events[p].evidence.observer
               /\ e.evidence.boundary = events[p].evidence.boundary
      BY <1>3, <2>4, <3>1, <3>2, <3>3, <3>5
    <3> QED BY <3>4, <3>6 DEF Accepts
  <2>6. DOMAIN life'.experiments = DOMAIN life.experiments
    BY <1>9
  <2>7. ASSUME NEW k \in DOMAIN life.experiments
        PROVE  LET x == life.experiments[k]
                   y == life'.experiments[k]
               IN  /\ y.baseline = x.baseline /\ y.candidate = x.candidate /\ y.decision = x.decision
                   /\ y.observer = x.observer /\ y.boundary = x.boundary
                   /\ y.closed <=> ExperimentSettled(at[k])'
    <3>1. CASE k = last
      <4>1. life'.experiments[k] = [life.experiments[last] EXCEPT !.closed = b]
        BY <1>9, <3>1
      <4>2. life.experiments[last] \in ExperimentRecords
        BY <1>4, <2>1
      <4>3. life'.experiments[k].closed = b
        BY <4>1, <4>2 DEF ExperimentRecords
      <4>4. b <=> ExperimentSettled(at[k])'
        BY <1>9, <2>2, <2>5, <3>1
      <4> QED BY <3>1, <4>1, <4>2, <4>3, <4>4 DEF ExperimentRecords
    <3>2. CASE k # last
      <4>1. life'.experiments[k] = life.experiments[k]
        BY <1>9, <3>2
      <4>2. k \in 1..m
        BY <1>4
      <4>3. ExperimentSettled(at[k])' <=> ExperimentSettled(at[k])
        BY <1>6, <2>3, <3>2, <4>2
      <4> QED BY <1>5, <4>1, <4>2, <4>3
    <3> QED BY <3>1, <3>2
  <2> QED BY <1>1, <1>3, <2>6, <2>7, Renumbered
<1> QED BY <1>8, <1>9, CloseRecords

\* CloseExperiment keeps the invariant.
LEMMA CloseKeeps ==
  ASSUME IInv, NEW e \in Alphabet, CloseExperiment(e)
  PROVE  IInv'
<1>1. /\ ChosenOK' /\ events' \in Seq(Alphabet) /\ Len(events') <= MaxEvents
      /\ Grows(e) /\ ~rejected /\ ~rejected' /\ rejected' = rejected
      /\ e.kind = "poststate"
  BY ListedEvent DEF IInv, CloseExperiment
<1>2. /\ DOMAIN life' = LifeFields
      /\ life'.facts = life.facts /\ life'.routeFacts = life.routeFacts
      /\ life'.residue = life.residue
      /\ life'.retired = life.retired /\ life'.selectedRetired = life.selectedRetired
  BY DEF IInv, ReplayTypes, CloseExperiment, LifeFields
<1>4. HistoryOK
  BY <1>1 DEF IInv
<1>5. FactsMirrored' /\ RouteFactsMirrored' /\ ResidueMirrored'
  <2>1. \A f : ~Concerns(e, f)
    BY <1>1 DEF Concerns
  <2> QED BY <1>1, <1>2, <1>4, <2>1, FactsStay DEF HistoryOK
<1>6. ExperimentsMirrored'
  BY <1>1, <1>4, CloseNumbers DEF HistoryOK
<1>7. RetiredMirrored'
  BY <1>1, <1>2, <1>4, RetiredStay DEF HistoryOK
<1>8. RouteIds' = RouteIds
  BY <1>1, GrownList
<1>9. life'.experiments \in Seq(ExperimentRecords)
  <2>1. life.experiments \in Seq(ExperimentRecords)
    BY DEF IInv, ReplayTypes
  <2>2. CASE life' = life
    BY <2>1, <2>2
  <2>3. ASSUME NEW last \in Mine(e), NEW b \in BOOLEAN,
               life'.experiments = [life.experiments EXCEPT ![last] =
                                        [life.experiments[last] EXCEPT !.closed = b]]
        PROVE  life'.experiments \in Seq(ExperimentRecords)
    <3>1. last \in DOMAIN life.experiments
      BY DEF Mine
    <3>2. [life.experiments[last] EXCEPT !.closed = b] \in ExperimentRecords
      <4>1. PICK x \in ExperimentRecords : x = life.experiments[last]
        BY <2>1, <3>1
      <4>2. [x EXCEPT !.closed = b] \in ExperimentRecords
        BY DEF ExperimentRecords
      <4> QED BY <4>1, <4>2
    <3> QED BY <2>1, <2>3, <3>1, <3>2
  <2> QED BY <2>2, <2>3, CloseRecords
<1>10. ReplayTypes'
  BY <1>1, <1>2, <1>8, <1>9 DEF IInv, ReplayTypes
<1> QED BY <1>1, <1>5, <1>6, <1>7, <1>10 DEF IInv, HistoryOK

(*****************************************************************************)
(* Retirements, and the theorems                                             *)
(*****************************************************************************)

\* What RetireAllocation writes.
LEMMA RetireRecords ==
  ASSUME IInv, NEW e \in Alphabet, RetireAllocation(e)
  PROVE  /\ DOMAIN life' = LifeFields
         /\ life'.facts = life.facts /\ life'.routeFacts = life.routeFacts
         /\ life'.residue = life.residue /\ life'.experiments = life.experiments
         /\ life'.retired = IF RetirementAccepted(e)
                            THEN life.retired
                                 \cup {[route |-> e.route, responsibilities |-> e.responsibilities]}
                            ELSE life.retired
         /\ life'.selectedRetired \in BOOLEAN
         /\ life'.selectedRetired <=>
               life.selectedRetired \/ (e.route = Selected /\ e.state = "observed")
<1> DEFINE gone == IF RetirementAccepted(e)
                   THEN life.retired
                        \cup {[route |-> e.route, responsibilities |-> e.responsibilities]}
                   ELSE life.retired
<1>1. PICK b \in BOOLEAN : b = (life.selectedRetired \/ (e.route = Selected /\ e.state = "observed"))
  OBVIOUS
<1>2. PICK g : g = gone
  OBVIOUS
<1>3. life' = [life EXCEPT !.retired = gone,
                  !.selectedRetired = life.selectedRetired \/ (e.route = Selected /\ e.state = "observed")]
  BY DEF RetireAllocation
<1> HIDE DEF gone
<1>4. life' = [life EXCEPT !.retired = g, !.selectedRetired = b]
  BY <1>1, <1>2, <1>3
<1>5. DOMAIN life = LifeFields
  BY DEF IInv, ReplayTypes
<1>6. /\ DOMAIN life' = LifeFields
      /\ life'.facts = life.facts /\ life'.routeFacts = life.routeFacts
      /\ life'.residue = life.residue /\ life'.experiments = life.experiments
      /\ life'.retired = g /\ life'.selectedRetired = b
  BY <1>4, <1>5 DEF LifeFields
<1> QED BY <1>1, <1>2, <1>6 DEF gone

\* A retirement is kept exactly when the events up to it justify it.
LEMMA RetireMirrors ==
  ASSUME IInv, HistoryOK, NEW e \in Alphabet, RetireAllocation(e), Grows(e)
  PROVE  RetiredMirrored'
<1>1. PICK n \in Nat : n = Len(events)
  BY GrownList
<1>2. /\ DOMAIN events' = 1..(n + 1) /\ DOMAIN events = 1..n
      /\ \A j \in 1..n : events'[j] = events[j]
      /\ events'[n + 1] = e /\ Selected' = Selected /\ Policy' = Policy
      /\ \A i \in 1..(n + 1) : i \in 1..n \/ i = n + 1
      /\ \A i \in 1..n : i \in 1..(n + 1)
      /\ n + 1 \in 1..(n + 1) /\ (n + 1) - 1 = n
  BY <1>1, GrownList
<1>3. /\ e.kind = "retired" /\ ValidRequest /\ request \in Requests /\ ChosenOK
      /\ {e.route, e.replacement} \subseteq RouteIds /\ e.route # e.replacement
  <2>1. e.kind = "retired" /\ ValidEvent(e) /\ ValidRequest /\ ChosenOK
    BY ListedEvent DEF RetireAllocation, IInv
  <2>2. ValidRetirement(e)
    BY <2>1 DEF ValidEvent
  <2> QED BY <2>1, <2>2 DEF ValidRetirement, ChosenOK
<1>4. ASSUME e.replacement = Selected
      PROVE  e.replacement \in choice.admitted /\ e.route # Selected
  <2>1. Selected # NoRoute
    BY <1>3, <1>4, RoutesAreListed DEF RouteIds, NoRoute
  <2> QED BY <1>3, <1>4, <2>1, AssessmentShape DEF Selected
<1>5. \A f \in CompletionFacts : Confirmed(life.facts, f) <=> SaidIndependently(n, f)
  BY <1>1 DEF HistoryOK, FactsMirrored
<1>6. ASSUME NEW f PROVE SaidIndependently(n, f)' <=> SaidIndependently(n, f)
  <2>1. n \in 0..Len(events)
    BY <1>1
  <2> QED BY <2>1, SaidBefore
<1>7. ASSUME NEW a
      PROVE  RetiredAt(n + 1, a)' <=>
                RetirementAccepted(e) /\ a.route = e.route /\ a.responsibilities = e.responsibilities
  <2>1. RetiredAt(n + 1, a)' <=>
          /\ e.route = a.route /\ e.responsibilities = a.responsibilities
          /\ e.replacement = Selected
          /\ e.state = "observed" /\ Independent(e)
          /\ \A f \in RetirementFacts \cup Policy.retirement : Value(e.preconditions, f) = "observed"
          /\ \A f \in CompletionFacts : SaidIndependently(n, f)
    BY <1>2, <1>3, <1>6 DEF RetiredAt, Independent, Value
  <2>2. (FactFailures(e.preconditions, RetirementFacts \cup Policy.retirement) = {})
          <=> \A f \in RetirementFacts \cup Policy.retirement : Value(e.preconditions, f) = "observed"
    BY FactsHold
  <2> QED BY <1>4, <1>5, <2>1, <2>2 DEF RetirementAccepted
<1>8. ASSUME NEW a, NEW i \in 1..n PROVE RetiredAt(i, a)' <=> RetiredAt(i, a)
  BY <1>2, RetirementStays
<1>9. ASSUME NEW a \in Policy.retirements
      PROVE  a \in life'.retired <=> \E i \in DOMAIN events' : RetiredAt(i, a)'
  <2>1. a = [route |-> a.route, responsibilities |-> a.responsibilities]
    BY <1>3, RequestAssumption DEF Policy
  <2>2. a \in life'.retired <=>
          \/ a \in life.retired
          \/ RetirementAccepted(e) /\ a.route = e.route /\ a.responsibilities = e.responsibilities
    <3>1. PICK r : r = [route |-> e.route, responsibilities |-> e.responsibilities]
      OBVIOUS
    <3>2. a = r <=> a.route = e.route /\ a.responsibilities = e.responsibilities
      BY <2>1, <3>1
    <3>3. life'.retired = IF RetirementAccepted(e) THEN life.retired \cup {r} ELSE life.retired
      BY <3>1, RetireRecords
    <3> QED BY <3>2, <3>3
  <2>3. a \in life.retired <=> \E i \in 1..n : RetiredAt(i, a)
    BY <1>2 DEF HistoryOK, RetiredMirrored
  <2>4. (\E i \in DOMAIN events' : RetiredAt(i, a)')
          <=> (\E i \in 1..n : RetiredAt(i, a)) \/ RetiredAt(n + 1, a)'
    BY <1>2, <1>8
  <2> QED BY <1>7, <2>2, <2>3, <2>4
<1>10. life'.selectedRetired <=> SelfRetired'
  <2>1. SelfRetired' <=> SelfRetired \/ (e.route = Selected /\ e.state = "observed")
    BY <1>2, <1>3 DEF SelfRetired
  <2> QED BY <2>1, RetireRecords DEF HistoryOK, RetiredMirrored
<1> QED BY <1>2, <1>9, <1>10 DEF RetiredMirrored

\* RetireAllocation keeps the invariant.
LEMMA RetireKeeps ==
  ASSUME IInv, NEW e \in Alphabet, RetireAllocation(e)
  PROVE  IInv'
<1>1. /\ ChosenOK' /\ events' \in Seq(Alphabet) /\ Len(events') <= MaxEvents
      /\ Grows(e) /\ ~rejected /\ ~rejected' /\ rejected' = rejected
      /\ e.kind = "retired" /\ ValidEvent(e)
  BY ListedEvent DEF IInv, RetireAllocation
<1>2. HistoryOK
  BY <1>1 DEF IInv
<1>3. FactsMirrored' /\ RouteFactsMirrored' /\ ResidueMirrored'
  <2>1. \A f : ~Concerns(e, f)
    BY <1>1 DEF Concerns
  <2> QED BY <1>1, <1>2, <2>1, RetireRecords, FactsStay DEF HistoryOK
<1>4. ExperimentsMirrored'
  <2>1. life'.experiments = life.experiments
    BY RetireRecords
  <2> QED BY <1>1, <1>2, <2>1, ExperimentsStay DEF HistoryOK
<1>5. RetiredMirrored'
  BY <1>1, <1>2, RetireMirrors
<1>6. RouteIds' = RouteIds
  BY <1>1, GrownList
<1>7. \A a \in life'.retired : a.route \in RouteIds
  <2>1. e.route \in RouteIds
    BY <1>1 DEF ValidEvent, ValidRetirement
  <2>2. PICK r : r = [route |-> e.route, responsibilities |-> e.responsibilities]
    OBVIOUS
  <2>3. life'.retired = IF RetirementAccepted(e) THEN life.retired \cup {r} ELSE life.retired
    BY <2>2, RetireRecords
  <2>4. r.route = e.route
    BY <2>2
  <2>5. \A a \in life.retired : a.route \in RouteIds
    BY DEF IInv, ReplayTypes
  <2> QED BY <2>1, <2>3, <2>4, <2>5
<1>8. ReplayTypes'
  BY <1>1, <1>6, <1>7, RetireRecords DEF IInv, ReplayTypes
<1> QED BY <1>1, <1>3, <1>4, <1>5, <1>8 DEF IInv, HistoryOK

\* The invariant holds of every request before its first event.
LEMMA InitIInv ==
  ASSUME Init PROVE IInv
<1>1. ChosenOK
  BY DEF Init, ChosenOK
<1>2. /\ events = <<>> /\ Len(events) = 0 /\ DOMAIN events = {} /\ events \in Seq(Alphabet)
      /\ rejected \in BOOLEAN
  BY DEF Init
<1>3. /\ DOMAIN life = LifeFields
      /\ life.facts = <<>> /\ life.experiments = <<>> /\ life.retired = {} /\ life.residue = {}
      /\ life.selectedRetired \in BOOLEAN /\ ~life.selectedRetired
      /\ life.routeFacts = IF Selected # NoRoute THEN RouteOf(Selected).facts ELSE <<>>
  <2>1. PICK b \in BOOLEAN : b = FALSE
    OBVIOUS
  <2>2. life = [facts |-> <<>>, experiments |-> <<>>, retired |-> {}, residue |-> {},
                selectedRetired |-> b,
                routeFacts |-> IF Selected # NoRoute THEN RouteOf(Selected).facts ELSE <<>>]
    BY <2>1 DEF Init
  <2> QED BY <2>1, <2>2 DEF LifeFields
<1>4. ReplayTypes
  <2>1. DOMAIN life.facts = {} /\ life.experiments \in Seq(ExperimentRecords)
    BY <1>3
  <2> QED BY <1>2, <1>3, <2>1, BoundAssumption DEF ReplayTypes
<1>5. ASSUME NEW f
      PROVE  ~SaidObserved(0, f) /\ ~SaidIndependently(0, f) /\ ~LostFact(0, f)
  <2>1. LastAbout(0, f) = {}
    BY DEF LastAbout, About
  <2> QED BY <2>1 DEF SaidObserved, SaidIndependently, LostFact
<1>6. ASSUME ~rejected PROVE HistoryOK
  <2>1. FactsMirrored
    <3>1. \A f : Seen(life.facts, f) = Unseen
      BY <1>3 DEF Seen
    <3> QED BY <1>2, <1>5, <3>1 DEF FactsMirrored, Confirmed, Unseen
  <2>2. RouteFactsMirrored
    <3> SUFFICES ASSUME Selected # NoRoute, NEW f \in RequiredRoute
                 PROVE  Value(life.routeFacts, f) = "observed"
      BY <1>2, <1>5 DEF RouteFactsMirrored
    <3>1. ValidRequest
      BY <1>1, <1>6 DEF ChosenOK
    <3> QED BY <1>1, <1>3, <3>1, SelectedIsAdmitted, AdmittedRoute
  <2>3. ResidueMirrored
    BY <1>2, <1>3, <1>5 DEF ResidueMirrored
  <2>4. ExperimentsMirrored
    <3>1. DOMAIN life.experiments = {}
      BY <1>3
    <3>2. PICK at \in [{} -> {}] : at = [k \in {} |-> k]
      OBVIOUS
    <3>3. at \in [DOMAIN life.experiments -> DOMAIN events]
      BY <1>2, <3>1
    <3>4. Numbered(at)
      BY <1>2, <3>1, <3>3 DEF Numbered
    <3> QED BY <3>3, <3>4 DEF ExperimentsMirrored
  <2>5. RetiredMirrored
    BY <1>2, <1>3 DEF RetiredMirrored, SelfRetired
  <2> QED BY <2>1, <2>2, <2>3, <2>4, <2>5 DEF HistoryOK
<1> QED BY <1>1, <1>4, <1>6 DEF IInv

\* The invariant gives the decision: completion is what the history says.
LEMMA HistoryMatches ==
  ASSUME IInv PROVE CompletionMatchesHistory
<1> SUFFICES ASSUME ~rejected PROVE CompletionMatchesHistory
  BY DEF CompletionMatchesHistory
<1>0. HistoryOK
  BY DEF IInv
<1>1. PICK n : n = Len(events)
  OBVIOUS
<1>2. \A f \in CompletionFacts : Confirmed(life.facts, f) <=> SaidIndependently(n, f)
  BY <1>0, <1>1 DEF HistoryOK, FactsMirrored
<1>3. \A f \in Policy.completion : Seen(life.facts, f).state = "observed" <=> SaidObserved(n, f)
  BY <1>0, <1>1 DEF HistoryOK, FactsMirrored
<1>4. Selected # NoRoute =>
         ((FactFailures(life.routeFacts, RequiredRoute) = {}) <=> \A f \in RequiredRoute : ~LostFact(n, f))
  BY <1>0, <1>1, FactsHold DEF HistoryOK, RouteFactsMirrored
<1>5. (\A i \in DOMAIN life.experiments : life.experiments[i].closed) <=> ExperimentsSettled
  <2>1. PICK at \in [DOMAIN life.experiments -> DOMAIN events] : Numbered(at)
    BY <1>0 DEF HistoryOK, ExperimentsMirrored
  <2>2. ASSUME \A i \in DOMAIN life.experiments : life.experiments[i].closed,
               NEW i \in DOMAIN events, events[i].kind = "experiment"
        PROVE  ExperimentSettled(i)
    BY <2>1, <2>2 DEF Numbered
  <2>3. ASSUME ExperimentsSettled, NEW k \in DOMAIN life.experiments
        PROVE  life.experiments[k].closed
    <3>1. at[k] \in DOMAIN events /\ events[at[k]].kind = "experiment"
      BY <2>1 DEF Numbered
    <3>2. ExperimentSettled(at[k])
      BY <2>3, <3>1 DEF ExperimentsSettled
    <3> QED BY <2>1, <3>2 DEF Numbered
  <2> QED BY <2>2, <2>3 DEF ExperimentsSettled
<1>6. (Policy.retirements \subseteq life.retired) <=> AllRetired
  BY <1>0 DEF HistoryOK, RetiredMirrored, AllRetired
<1>7. life.selectedRetired <=> SelfRetired
  BY <1>0 DEF HistoryOK, RetiredMirrored
<1>8. (\A f \in CompletionFacts : SaidIndependently(n, f)) => life.residue = {}
  <2>1. SaidIndependently(n, "cleanup") => SaidObserved(n, "cleanup")
    BY DEF SaidIndependently, SaidObserved
  <2> QED BY <1>0, <1>1, <2>1 DEF HistoryOK, ResidueMirrored, CompletionFacts
<1>9. CompletionAllowed <=>
         /\ Selected # NoRoute /\ ExperimentsSettled /\ AllRetired /\ ~SelfRetired
         /\ \A f \in CompletionFacts : SaidIndependently(n, f)
         /\ \A f \in Policy.completion : SaidObserved(n, f)
         /\ \A f \in RequiredRoute : ~LostFact(n, f)
  BY <1>2, <1>3, <1>4, <1>5, <1>6, <1>7, <1>8 DEF CompletionAllowed
<1> QED BY <1>1, <1>2, <1>4, <1>5, <1>6, <1>9 DEF CompletionMatchesHistory

\* Every step keeps the invariant.
LEMMA StepIInv ==
  ASSUME IInv, [Next]_vars PROVE IInv'
<1>1. CASE Next
  BY <1>1, EvaluateKeeps, CloseKeeps, RetireKeeps, IgnoreKeeps, ObserveFactKeeps,
     ObserveResourcesKeeps, RejectKeeps DEF Next
<1>2. CASE UNCHANGED vars
  <2>1. request' = request /\ choice' = choice /\ events' = events /\ life' = life /\ rejected' = rejected
    BY <1>2 DEF vars
  <2>2. ChosenOK'
    BY <2>1, AssessmentStays DEF IInv, ChosenOK
  <2>3. ReplayTypes'
    BY <2>1, AssessmentStays DEF IInv, ReplayTypes
  <2>4. Selected' = Selected /\ Policy' = Policy /\ RequiredRoute' = RequiredRoute
    BY <2>1 DEF Selected, Policy, RequiredRoute
  <2>5. ASSUME NEW m, NEW f
        PROVE  /\ SaidObserved(m, f)' <=> SaidObserved(m, f)
               /\ SaidIndependently(m, f)' <=> SaidIndependently(m, f)
               /\ LostFact(m, f)' <=> LostFact(m, f)
    <3>1. LastAbout(m, f)' = LastAbout(m, f)
      BY <2>1, <2>4 DEF LastAbout, About
    <3> QED BY <2>1, <3>1 DEF SaidObserved, SaidIndependently, LostFact
  <2>6. ASSUME HistoryOK PROVE HistoryOK'
    <3>1. FactsMirrored'
      BY <2>1, <2>4, <2>5, <2>6 DEF HistoryOK, FactsMirrored, Seen, Confirmed, Unseen
    <3>2. RouteFactsMirrored'
      BY <2>1, <2>4, <2>5, <2>6 DEF HistoryOK, RouteFactsMirrored, Value
    <3>3. ResidueMirrored'
      BY <2>1, <2>5, <2>6 DEF HistoryOK, ResidueMirrored
    <3>4. ExperimentsMirrored'
      <4>1. PICK at \in [DOMAIN life.experiments -> DOMAIN events] : Numbered(at)
        BY <2>6 DEF HistoryOK, ExperimentsMirrored
      <4>2. ASSUME NEW x PROVE ExperimentDecision(x)' = ExperimentDecision(x)
        BY <2>1, <2>4 DEF ExperimentDecision
      <4>3. ASSUME NEW j, NEW i PROVE Closes(j, i)' <=> Closes(j, i)
        BY <2>1 DEF Closes
      <4>4. ASSUME NEW i PROVE ExperimentSettled(i)' <=> ExperimentSettled(i)
        <5>1. ExperimentDecision(events[i])' = ExperimentDecision(events[i])
          BY <2>1, <2>4 DEF ExperimentDecision
        <5> QED BY <2>1, <4>3, <5>1 DEF ExperimentSettled
      <4>5. ASSUME NEW k \in DOMAIN life.experiments
            PROVE  ExperimentDecision(events[at[k]])' = ExperimentDecision(events[at[k]])
        BY <2>1, <2>4 DEF ExperimentDecision
      <4>6. Numbered(at)'
        BY <2>1, <4>1, <4>4, <4>5 DEF Numbered
      <4> QED BY <2>1, <4>6 DEF ExperimentsMirrored
    <3>5. RetiredMirrored'
      <4>1. ASSUME NEW i, NEW a PROVE RetiredAt(i, a)' <=> RetiredAt(i, a)
        BY <2>1, <2>4, <2>5 DEF RetiredAt, Independent
      <4>2. SelfRetired' <=> SelfRetired
        BY <2>1, <2>4 DEF SelfRetired
      <4> QED BY <2>1, <2>4, <2>6, <4>1, <4>2 DEF HistoryOK, RetiredMirrored
    <3> QED BY <3>1, <3>2, <3>3, <3>4, <3>5 DEF HistoryOK
  <2> QED BY <2>1, <2>2, <2>3, <2>6 DEF IInv
<1> QED BY <1>1, <1>2

\* The invariant gives the types.
LEMMA TypesHold ==
  ASSUME IInv PROVE TypeOK
<1>1. choice.route \in choice.admitted \cup {NoRoute} /\ choice.frontier \subseteq choice.admitted
  BY AssessmentShape DEF IInv
<1>2. \A f \in DOMAIN life.facts : life.facts[f] \in [state : FactValues, independent : FactValues]
  BY DEF IInv, ReplayTypes, FactRecords
<1>3. \A i \in DOMAIN life.experiments : life.experiments[i].decision \in {"hold", "discard", "keep"}
  <2>1. \A i \in DOMAIN life.experiments : life.experiments[i] \in ExperimentRecords
    BY DEF IInv, ReplayTypes
  <2>2. \A x \in ExperimentRecords : x.decision \in {"hold", "discard", "keep"}
    BY DEF ExperimentRecords
  <2> QED BY <2>1, <2>2
<1> QED BY <1>1, <1>2, <1>3 DEF IInv, ReplayTypes, TypeOK

\* The invariant holds in every reachable state.
LEMMA Invariance == Spec => []IInv
  BY InitIInv, StepIInv, PTL DEF Spec

\* What the replay keeps is of the shapes closure.py builds, and what is
\* selected is admitted, for every set of requests and events.
THEOREM TypeCorrect == Spec => []TypeOK
  BY Invariance, TypesHold, PTL

\* reconcile_closure allows completion exactly when the list of events, read
\* as a whole, says so: facts last said positively and independently, every
\* experiment settled under its own observer, every required retirement made
\* while its replacement stood confirmed, the selected route never retired.
THEOREM CompletionDecided == Spec => []CompletionMatchesHistory
  BY Invariance, HistoryMatches, PTL

\* The selection does not depend on the order in which the routes are listed,
\* selects when the comparison leaves something, and never a beaten route, for
\* any number of routes and dimensions.
THEOREM SelectionCanonical == Spec => []SelectionIsCanonical
<1>1. IInv => SelectionIsCanonical
  BY CanonicalHolds DEF IInv
<1> QED BY Invariance, <1>1, PTL

\* A route is selected only on facts that the current receipt binds, each once
\* and in its own generation, and a preserved allocation only where none is.
THEOREM SelectedOnBound == Spec => []SelectedOnBoundFacts
<1>1. IInv => SelectedOnBoundFacts
  BY BoundFactsHold DEF IInv
<1> QED BY Invariance, <1>1, PTL
=============================================================================
