------------------------------ MODULE Closure ------------------------------
(***************************************************************************)
(* The closure decision core (yiyuan_accord/closure.py).  A request names  *)
(* an outcome, a policy, the routes that could deliver it and one receipt  *)
(* of the environment; reconcile_closure validates it, assesses every      *)
(* route, selects at most one, and replays an ordered list of events over  *)
(* the selection to decide whether the outcome may be called complete.     *)
(*                                                                         *)
(* One action per kind of event, in the order of the replay loop; the      *)
(* request is fixed by Init.  Abstracted: wording of failures, identifier  *)
(* syntax and record shapes (a request here has the fields the code asks   *)
(* for); times are small numbers; routes are numbered so that the code's   *)
(* order on identifiers is the order of numbers, and 0 is no route.        *)
(***************************************************************************)
EXTENDS Naturals, Sequences, FiniteSets, SequencesExt

CONSTANTS
    Requests,         \* the requests considered
    Replayed,         \* those of them whose events are replayed
    Alphabet,         \* the events a caller may list
    MaxEvents,        \* bound on the length of the event list
    EnvFacts,         \* facts every environment must show
    RouteFacts,       \* facts every route must show
    CoherenceFacts,   \* facts a route of several forms must show
    ExperimentFacts,  \* preconditions of every experiment
    RetirementFacts   \* preconditions of every retirement

ASSUME BoundAssumption == MaxEvents \in Nat /\ Replayed \subseteq Requests

FactValues == {"observed", "not-observed", "unknown"}

\* The shapes of requests and events: routes are listed and numbered from 1, a
\* route has one number per dimension, times are numbers, a fact is one of
\* three values.
ASSUME RequestAssumption ==
    \A r \in Requests :
        /\ r.routes \in Seq(ToSet(r.routes))
        /\ \A q \in ToSet(r.routes) : q.id \in Nat \ {0}
        /\ \A q, o \in ToSet(r.routes) : q.cost \in [DOMAIN o.cost -> Nat]
        /\ r.policy.preferred \in Seq(Nat)
        /\ LET o == r.env.observation IN {o.captured, o.decision, o.validUntil} \subseteq Nat
        /\ r.policy.sources \in Seq(ToSet(r.policy.sources))
        /\ \A a \in r.policy.retirements :
              a = [route |-> a.route, responsibilities |-> a.responsibilities]
ASSUME AlphabetAssumption ==
    \A e \in Alphabet :
        /\ e.kind \in {"fact", "resources", "experiment", "poststate", "retired"}
        /\ e.kind = "fact" => e.state \in FactValues
        /\ e.kind \in {"fact", "resources"} => e.independent \in FactValues

VARIABLES
    request,   \* the request being decided
    events,    \* its events replayed so far
    choice,    \* the assessment: admitted routes and the one selected
    life,      \* what the replay has established
    rejected   \* the request, or one of its events, is structurally invalid

vars == <<request, events, choice, life, rejected>>

NoRoute == 0
CompletionFacts == {"consequence", "cleanup"}
ExperimentDimensions == {"authority", "evidence"}
SourceOrder == <<"official", "accord", "direct">>

(***************************************************************************)
(* Structural validation                                                   *)
(***************************************************************************)
Routes == ToSet(request.routes)
RouteIds == {r.id : r \in Routes}
RouteOf(id) == CHOOSE r \in Routes : r.id = id
Env == request.env
Obs == request.env.observation
Policy == request.policy

\* Evidence about a subject, seen by somebody else, from elsewhere.
BoundTo(evidence, subject) ==
    /\ evidence.subject = subject
    /\ subject \notin {evidence.observer, evidence.boundary, evidence.source}

\* Every binding carries the generation of its receipt, and names as
\* unavailable exactly the sources stronger than the one it used.
ValidObservation ==
    /\ Obs.generation > 0
    /\ \A b \in Obs.bindings :
          /\ b.generation = Obs.generation
          /\ \E i \in DOMAIN SourceOrder :
                /\ SourceOrder[i] = b.source
                /\ b.unavailable = SubSeq(SourceOrder, 1, i - 1)

\* The allocation to fall back on is of this receipt, and still is what the
\* route declares for every responsibility of the outcome.
ValidLastSafe(last) ==
    \/ last.route = NoRoute
    \/ /\ last.route \in RouteIds
       /\ last.observation = Obs.id
       /\ last.generation = Obs.generation
       /\ BoundTo(last.evidence, last.route)
       /\ DOMAIN last.modes = request.responsibilities
       /\ \A p \in request.responsibilities :
             /\ p \in RouteOf(last.route).supplies
             /\ RouteOf(last.route).modes[p] = last.modes[p]

ValidRoute(r) ==
    /\ DOMAIN r.modes = r.supplies
    /\ Cardinality(r.forms) > 1 =>
          (CoherenceFacts \cup Policy.coherence) \subseteq DOMAIN r.coherence

ValidRequest ==
    /\ request.responsibilities # {}
    /\ ValidObservation
    /\ request.routes # <<>>
    /\ \A r \in Routes : ValidRoute(r)
    /\ \A i, j \in DOMAIN request.routes :
          request.routes[i].id = request.routes[j].id => i = j
    /\ \A a \in Policy.retirements :
          /\ a.responsibilities # {}
          /\ a.route \in RouteIds
          /\ a.responsibilities \subseteq
                request.responsibilities \cap RouteOf(a.route).supplies
    /\ ValidLastSafe(Env.lastSafe)

Independent(e) == e.independent = "observed"

ValidFact(e) ==
    /\ e.route \in RouteIds
    /\ e.fact # "cleanup"
    /\ Independent(e) => BoundTo(e.evidence, e.route)

ValidResources(e) ==
    /\ e.route \in RouteIds
    /\ e.released \cap e.residual = {}
    /\ Independent(e) => BoundTo(e.evidence, e.route)

ValidExperiment(e) ==
    /\ {e.baseline, e.candidate} \subseteq RouteIds
    /\ e.baseline # e.candidate
    /\ BoundTo(e.evidence, e.candidate)
    /\ (ExperimentDimensions \cup Policy.dimensions) \subseteq DOMAIN e.comparison

ValidPoststate(e) ==
    /\ {e.baseline, e.candidate} \subseteq RouteIds
    /\ Independent(e) => BoundTo(e.evidence, e.candidate)

ValidRetirement(e) ==
    /\ {e.route, e.replacement} \subseteq RouteIds
    /\ e.route # e.replacement
    /\ BoundTo(e.replacementEvidence, e.replacement)
    /\ e.responsibilities # {}
    /\ e.responsibilities \subseteq request.responsibilities
          \cap RouteOf(e.route).supplies \cap RouteOf(e.replacement).supplies
    /\ Independent(e) => BoundTo(e.evidence, e.route)

ValidEvent(e) ==
    CASE e.kind = "fact" -> ValidFact(e)
      [] e.kind = "resources" -> ValidResources(e)
      [] e.kind = "experiment" -> ValidExperiment(e)
      [] e.kind = "poststate" -> ValidPoststate(e)
      [] e.kind = "retired" -> ValidRetirement(e)

(***************************************************************************)
(* Assessment of the environment and of the routes.  A failure is a code   *)
(* and the state that caused it.                                           *)
(***************************************************************************)
Fail(code, state) == [code |-> code, state |-> state]
Value(facts, f) == IF f \in DOMAIN facts THEN facts[f] ELSE "unknown"
FailIf(cond, code, state) == IF cond THEN {Fail(code, state)} ELSE {}

FactFailures(facts, required) ==
    {Fail("fact", Value(facts, f)) : f \in {g \in required : Value(facts, g) # "observed"}}

RequiredEnv == EnvFacts \cup Policy.env
RequiredRoute == RouteFacts \cup Policy.route
RequiredCoherence == CoherenceFacts \cup Policy.coherence

ObservationFailures ==
    FailIf(Obs.bindings = {}, "state-source", "unknown")
    \cup FailIf(Obs.composition # Env.composition, "composition", "not-observed")
    \cup FailIf(Obs.captured > Obs.decision, "future", "not-observed")
    \cup FailIf(Obs.decision > Obs.validUntil, "expired", "not-observed")
    \cup FailIf(Obs.invalidated, "invalidated", "not-observed")

TargetOf(b) == <<b.kind, b.subject, b.fact>>

\* What a binding's target holds in the request ("none": there is no such target).
Held(facts, f) == IF f \in DOMAIN facts THEN facts[f] ELSE "none"
TargetValue(b) ==
    CASE b.kind = "environment" ->
            IF b.subject = Env.composition THEN Held(Env.facts, b.fact) ELSE "none"
      [] b.kind = "route" ->
            IF b.subject \in RouteIds THEN Held(RouteOf(b.subject).facts, b.fact) ELSE "none"
      [] b.kind = "coherence" ->
            IF b.subject \in RouteIds THEN Held(RouteOf(b.subject).coherence, b.fact) ELSE "none"

RequiredTargets ==
    {<<"environment", Env.composition, f>> : f \in RequiredEnv}
    \cup {<<"route", r, f>> : r \in RouteIds, f \in RequiredRoute}
    \cup {<<"coherence", r.id, f>> :
              r \in {q \in Routes : Cardinality(q.forms) > 1}, f \in RequiredCoherence}

\* Mutant: the value of a binding is not compared with its target.
BindingFailures_AnyValue ==
    FailIf(\E b, c \in Obs.bindings : b # c /\ b.field = c.field, "binding-field", "unknown")
    \cup FailIf(~(RequiredTargets \subseteq {TargetOf(b) : b \in Obs.bindings}),
                "binding-missing", "unknown")

BindingFailures ==
    FailIf(\E b, c \in Obs.bindings : b # c /\ b.field = c.field, "binding-field", "unknown")
    \cup FailIf(\E b, c \in Obs.bindings : b # c /\ TargetOf(b) = TargetOf(c),
                "target-conflict", "unknown")
    \cup FailIf(\E b \in Obs.bindings : TargetValue(b) # b.value,
                "binding-mismatch", "not-observed")
    \cup FailIf(~(RequiredTargets \subseteq {TargetOf(b) : b \in Obs.bindings}),
                "binding-missing", "unknown")

EnvironmentFailures ==
    FactFailures(Env.facts, RequiredEnv) \cup ObservationFailures \cup BindingFailures

RouteFailures(r) ==
    EnvironmentFailures
    \cup FailIf(~(request.responsibilities \subseteq r.supplies), "responsibility", "not-observed")
    \cup FactFailures(r.facts, RequiredRoute)
    \cup (IF Cardinality(r.forms) > 1 THEN FactFailures(r.coherence, RequiredCoherence) ELSE {})

Admitted(r) == RouteFailures(r) = {}
AdmittedIds == {r.id : r \in {q \in Routes : Admitted(q)}}

(***************************************************************************)
(* Selection                                                               *)
(***************************************************************************)
Dominates(left, right) ==
    /\ \A d \in DOMAIN left : left[d] <= right[d]
    /\ \E d \in DOMAIN left : left[d] < right[d]

\* Mutant: the comparison includes routes that were not admitted.
Frontier_Unadmitted(list) ==
    {i \in DOMAIN list : ~\E j \in DOMAIN list :
        list[j].id # list[i].id /\ Dominates(list[j].cost, list[i].cost)}

\* The positions of the admitted routes that no admitted route dominates.
Frontier(list) ==
    LET admitted == {i \in DOMAIN list : Admitted(list[i])}
    IN  {i \in admitted : ~\E j \in admitted :
            list[j].id # list[i].id /\ Dominates(list[j].cost, list[i].cost)}

SourceRank(source) ==
    IF Contains(Policy.sources, source)
    THEN CHOOSE i \in DOMAIN Policy.sources : Policy.sources[i] = source
    ELSE Len(Policy.sources) + 1

\* Mutant: of equal sources the first listed wins.
BestSource_FirstListed(list, frontier) ==
    CHOOSE i \in frontier : \A j \in frontier :
        \/ SourceRank(list[i].source) < SourceRank(list[j].source)
        \/ SourceRank(list[i].source) = SourceRank(list[j].source) /\ i <= j

\* min over the frontier by (source rank, identifier).
BestSource(list, frontier) ==
    CHOOSE i \in frontier : \A j \in frontier :
        \/ SourceRank(list[i].source) < SourceRank(list[j].source)
        \/ SourceRank(list[i].source) = SourceRank(list[j].source) /\ list[i].id <= list[j].id

\* The first preferred route of the frontier.
Preferred(ids) == {k \in DOMAIN Policy.preferred : Policy.preferred[k] \in ids}
FirstPreferred(ids) ==
    Policy.preferred[CHOOSE k \in Preferred(ids) : \A l \in Preferred(ids) : k <= l]

Choice(route, frontier, disposition) ==
    [route |-> route, frontier |-> frontier, disposition |-> disposition]

Select(list) ==
    LET frontier == Frontier(list)
        ids == {list[i].id : i \in frontier}
        single == \A i, j \in frontier : i = j
        taken(i) == Choice(list[i].id, ids, IF list[i].forms = {} THEN "no-op" ELSE "admit")
    IN  CASE frontier = {} ->
               Choice(NoRoute, {},
                      IF \E r \in ToSet(list) : \E f \in RouteFailures(r) : f.state = "unknown"
                      THEN "hold-unknown" ELSE "honest-stop")
          [] frontier # {} /\ single -> taken(CHOOSE i \in frontier : TRUE)
          [] ~single /\ Preferred(ids) # {} ->
               taken(CHOOSE i \in frontier : list[i].id = FirstPreferred(ids))
          [] ~single /\ Preferred(ids) = {} ->
               IF \A i, j \in frontier : list[i].cost = list[j].cost
               THEN taken(BestSource(list, frontier))
               ELSE Choice(NoRoute, ids, "hold-unknown")

\* Computed once, before the replay.
Assessed ==
    LET selection == IF ValidRequest THEN Select(request.routes)
                     ELSE Choice(NoRoute, {}, "reject")
    IN  [route |-> selection.route, frontier |-> selection.frontier,
         disposition |-> selection.disposition,
         admitted |-> IF ValidRequest THEN AdmittedIds ELSE {}]
Selected == choice.route

\* The allocation kept when a signal invalidated the receipt and nothing else is
\* wrong with the environment, except that a field is bound twice, a bound value
\* differs from its target or a target is not bound.  A target bound twice is no
\* such exception.
Preserved ==
    LET codes == {f.code : f \in EnvironmentFailures}
    IN  IF /\ Selected = NoRoute
           /\ "invalidated" \in codes
           /\ codes \subseteq {"invalidated", "binding-field", "binding-mismatch", "binding-missing"}
        THEN Env.lastSafe.route
        ELSE NoRoute

(***************************************************************************)
(* Replay of the events                                                    *)
(***************************************************************************)
Unseen == [state |-> "unknown", independent |-> "unknown"]
Seen(facts, f) == IF f \in DOMAIN facts THEN facts[f] ELSE Unseen
Confirmed(facts, f) == Seen(facts, f) = [state |-> "observed", independent |-> "observed"]
With(map, key, value) == [k \in DOMAIN map \cup {key} |-> IF k = key THEN value ELSE map[k]]

ExperimentDecision(e) ==
    LET values == {e.comparison[d] : d \in ExperimentDimensions \cup Policy.dimensions}
    IN  IF \/ e.baseline # Selected
           \/ e.candidate \notin choice.admitted
           \/ FactFailures(e.preconditions, ExperimentFacts \cup Policy.experiment) # {}
        THEN "hold"
        ELSE CASE "worse" \in values -> "discard"
               [] "worse" \notin values /\ "unknown" \in values -> "hold"
               [] OTHER -> IF "better" \in values THEN "keep" ELSE "hold"

\* The poststate each decision has to end in ("hold" has none).
ExpectedPoststate(decision) ==
    CASE decision = "discard" -> "rollback-complete"
      [] decision = "keep" -> "keep-complete"
      [] OTHER -> "none"

Listed(e) ==
    /\ ~rejected
    /\ request \in Replayed
    /\ Len(events) < MaxEvents
    /\ events' = Append(events, e)
    /\ UNCHANGED <<request, choice>>

\* experiment-evaluated: the decision is recorded, its poststate still open.
EvaluateExperiment(e) ==
    /\ e.kind = "experiment" /\ ValidEvent(e) /\ Listed(e)
    /\ life' = [life EXCEPT !.experiments =
          Append(@, [baseline |-> e.baseline, candidate |-> e.candidate,
                     decision |-> ExperimentDecision(e), observer |-> e.evidence.observer,
                     boundary |-> e.evidence.boundary, closed |-> FALSE])]
    /\ UNCHANGED rejected

\* Mutant: an accepted poststate survives a later one that is not.
CloseExperiment_Sticky(e) ==
    LET mine == {i \in DOMAIN life.experiments :
                    /\ life.experiments[i].baseline = e.baseline
                    /\ life.experiments[i].candidate = e.candidate}
        last == CHOOSE i \in mine : \A j \in mine : j <= i
        x == life.experiments[last]
        accepted == /\ ExpectedPoststate(x.decision) = e.disposition
                    /\ e.state = "observed" /\ Independent(e)
                    /\ e.evidence.observer = x.observer
                    /\ e.evidence.boundary = x.boundary
    IN  /\ e.kind = "poststate" /\ ValidEvent(e) /\ Listed(e)
        /\ life' = IF mine = {} THEN life
                   ELSE [life EXCEPT !.experiments[last].closed = @ \/ accepted]
        /\ UNCHANGED rejected

\* experiment-poststate: judged against the latest experiment of the pair,
\* whose poststate it replaces whether or not it is accepted.
CloseExperiment(e) ==
    LET mine == {i \in DOMAIN life.experiments :
                    /\ life.experiments[i].baseline = e.baseline
                    /\ life.experiments[i].candidate = e.candidate}
        last == CHOOSE i \in mine : \A j \in mine : j <= i
        x == life.experiments[last]
        accepted == /\ ExpectedPoststate(x.decision) = e.disposition
                    /\ e.state = "observed" /\ Independent(e)
                    /\ e.evidence.observer = x.observer
                    /\ e.evidence.boundary = x.boundary
    IN  /\ e.kind = "poststate" /\ ValidEvent(e) /\ Listed(e)
        /\ life' = IF mine = {} THEN life
                   ELSE [life EXCEPT !.experiments[last].closed = accepted]
        /\ UNCHANGED rejected

\* responsibility-allocation-retired
RetirementAccepted(e) ==
    /\ e.route # Selected
    /\ e.replacement = Selected
    /\ e.replacement \in choice.admitted
    /\ \A f \in CompletionFacts : Confirmed(life.facts, f)
    /\ FactFailures(e.preconditions, RetirementFacts \cup Policy.retirement) = {}
    /\ e.state = "observed" /\ Independent(e)

RetireAllocation(e) ==
    /\ e.kind = "retired" /\ ValidEvent(e) /\ Listed(e)
    /\ life' = [life EXCEPT
          !.retired = IF RetirementAccepted(e)
                      THEN @ \cup {[route |-> e.route, responsibilities |-> e.responsibilities]}
                      ELSE @,
          !.selectedRetired = @ \/ (e.route = Selected /\ e.state = "observed")]
    /\ UNCHANGED rejected

\* fact-observed and resource-poststate of a route that is not selected
IgnoreUnbound(e) ==
    /\ e.kind \in {"fact", "resources"} /\ ValidEvent(e) /\ Listed(e)
    /\ e.route # Selected
    /\ UNCHANGED <<life, rejected>>

ObserveFact(e) ==
    /\ e.kind = "fact" /\ ValidEvent(e) /\ Listed(e)
    /\ e.route = Selected
    /\ life' = [life EXCEPT
          !.facts = With(@, e.fact, [state |-> e.state, independent |-> e.independent]),
          !.routeFacts = IF e.fact \in RequiredRoute THEN With(@, e.fact, e.state) ELSE @]
    /\ UNCHANGED rejected

ObserveResources(e) ==
    /\ e.kind = "resources" /\ ValidEvent(e) /\ Listed(e)
    /\ e.route = Selected
    /\ life' = [life EXCEPT
          !.residue = e.residual,
          !.facts = With(@, "cleanup",
                [state |-> IF e.residual = {} /\ Independent(e)
                           THEN "observed" ELSE "not-observed",
                 independent |-> e.independent])]
    /\ UNCHANGED rejected

\* One invalid event rejects the whole request: nothing of the replay counts.
RejectEvent(e) ==
    /\ ~ValidEvent(e) /\ Listed(e)
    /\ rejected' = TRUE
    /\ UNCHANGED life

CompletionAllowed ==
    /\ ~rejected
    /\ Selected # NoRoute
    /\ FactFailures(life.routeFacts, RequiredRoute) = {}
    /\ \A i \in DOMAIN life.experiments : life.experiments[i].closed
    /\ \A f \in CompletionFacts : Confirmed(life.facts, f)
    /\ \A f \in Policy.completion : Seen(life.facts, f).state = "observed"
    /\ life.residue = {}
    /\ Policy.retirements \subseteq life.retired
    /\ ~life.selectedRetired

Init ==
    /\ request \in Requests
    /\ events = <<>>
    /\ rejected = ~ValidRequest
    /\ choice = Assessed
    /\ life = [facts |-> <<>>, experiments |-> <<>>, retired |-> {}, residue |-> {},
               selectedRetired |-> FALSE,
               routeFacts |-> IF Selected # NoRoute
                              THEN RouteOf(Selected).facts ELSE <<>>]

Next == \E e \in Alphabet :
    \/ EvaluateExperiment(e)
    \/ CloseExperiment(e)
    \/ RetireAllocation(e)
    \/ IgnoreUnbound(e)
    \/ ObserveFact(e)
    \/ ObserveResources(e)
    \/ RejectEvent(e)

Spec == Init /\ [][Next]_vars

-----------------------------------------------------------------------------

\* What the replay keeps is of the shapes the code builds.
TypeOK ==
    /\ Len(events) <= MaxEvents
    /\ choice.route \in choice.admitted \cup {NoRoute}
    /\ choice.frontier \subseteq choice.admitted
    /\ rejected \in BOOLEAN
    /\ \A f \in DOMAIN life.facts : life.facts[f] \in [state : FactValues, independent : FactValues]
    /\ \A i \in DOMAIN life.experiments :
          life.experiments[i].decision \in {"hold", "discard", "keep"}
    /\ \A a \in life.retired : a.route \in RouteIds
    /\ life.selectedRetired \in BOOLEAN

\* Events that say something of fact f of the selected route.
About(n, f) ==
    {i \in 1..n : /\ events[i].kind \in {"fact", "resources"}
                  /\ events[i].route = Selected
                  /\ f = IF events[i].kind = "fact" THEN events[i].fact ELSE "cleanup"}

\* The last of them, and what it says.
LastAbout(n, f) == {i \in About(n, f) : \A j \in About(n, f) : j <= i}
SaysObserved(e) ==
    IF e.kind = "fact" THEN e.state = "observed" ELSE e.residual = {} /\ Independent(e)

SaidObserved(n, f) == \E i \in LastAbout(n, f) : SaysObserved(events[i])
SaidIndependently(n, f) ==
    \E i \in LastAbout(n, f) : SaysObserved(events[i]) /\ Independent(events[i])
\* A fact event took f away from the route.
LostFact(n, f) ==
    \E i \in LastAbout(n, f) : events[i].kind = "fact" /\ events[i].state # "observed"

Closes(j, i) ==
    /\ events[j].kind = "poststate" /\ j > i
    /\ events[j].baseline = events[i].baseline /\ events[j].candidate = events[i].candidate
    /\ \A k \in (i + 1)..(j - 1) :
          ~(/\ events[k].kind = "experiment"
            /\ events[k].baseline = events[i].baseline
            /\ events[k].candidate = events[i].candidate)

ExperimentSettled(i) ==
    \E j \in DOMAIN events :
        /\ Closes(j, i)
        /\ \A k \in DOMAIN events : Closes(k, i) => k <= j
        /\ events[j].disposition = ExpectedPoststate(ExperimentDecision(events[i]))
        /\ events[j].state = "observed" /\ Independent(events[j])
        /\ events[j].evidence.observer = events[i].evidence.observer
        /\ events[j].evidence.boundary = events[i].evidence.boundary

RetiredAt(i, a) ==
    /\ events[i].kind = "retired" /\ events[i].route = a.route
    /\ events[i].responsibilities = a.responsibilities
    /\ events[i].replacement = Selected
    /\ events[i].state = "observed" /\ Independent(events[i])
    /\ \A f \in RetirementFacts \cup Policy.retirement :
          Value(events[i].preconditions, f) = "observed"
    /\ \A f \in CompletionFacts : SaidIndependently(i - 1, f)

ExperimentsSettled ==
    \A i \in DOMAIN events : events[i].kind = "experiment" => ExperimentSettled(i)
AllRetired == \A a \in Policy.retirements : \E i \in DOMAIN events : RetiredAt(i, a)
SelfRetired ==
    \E i \in DOMAIN events : /\ events[i].kind = "retired" /\ events[i].route = Selected
                             /\ events[i].state = "observed"

\* Completion is decided by the list of events read as a whole, and so is each
\* thing it rests on: the latest word on the consequence and on the resources is
\* positive and independent, no fact of the route was lost, every experiment
\* ended as decided under the observer that evaluated it, every required
\* retirement happened while its replacement was independently confirmed, and
\* the selected route itself was never retired.  reconcile_closure reaches the
\* same answers one event at a time.
CompletionMatchesHistory ==
    ~rejected =>
        LET n == Len(events)
        IN  /\ \A f \in CompletionFacts : Confirmed(life.facts, f) <=> SaidIndependently(n, f)
            /\ Selected # NoRoute =>
                  ((FactFailures(life.routeFacts, RequiredRoute) = {})
                       <=> \A f \in RequiredRoute : ~LostFact(n, f))
            /\ (\A i \in DOMAIN life.experiments : life.experiments[i].closed) <=> ExperimentsSettled
            /\ (Policy.retirements \subseteq life.retired) <=> AllRetired
            /\ CompletionAllowed <=>
                  /\ Selected # NoRoute /\ ExperimentsSettled /\ AllRetired /\ ~SelfRetired
                  /\ \A f \in CompletionFacts : SaidIndependently(n, f)
                  /\ \A f \in Policy.completion : SaidObserved(n, f)
                  /\ \A f \in RequiredRoute : ~LostFact(n, f)

\* _select gives one answer for one set of routes, in whatever order they are
\* listed; some route survives the comparison whenever one is admitted, and
\* the selected one is admitted and beaten by none on every dimension.
SelectionIsCanonical ==
    (~rejected /\ events = <<>>) =>
        /\ Select(request.routes) = Select(Reverse(request.routes))
        /\ (choice.frontier = {}) <=> (choice.admitted = {})
        /\ Selected # NoRoute =>
              /\ Selected \in choice.admitted
              /\ \A o \in choice.admitted :
                    ~Dominates(RouteOf(o).cost, RouteOf(Selected).cost)

\* A route is selected only on facts the current receipt itself binds: for
\* every fact the decision required there is one binding, of this generation,
\* it says observed, and the receipt was taken before the decision, had not
\* expired and was not invalidated.  A preserved allocation never stands
\* beside a selected one, on an expired receipt, on an environment that lacks a
\* required fact, nor on a receipt that binds one target twice.
SelectedOnBoundFacts ==
    (~rejected /\ events = <<>>) =>
        /\ Selected # NoRoute =>
              /\ \A t \in RequiredTargets :
                    t[1] = "environment" \/ t[2] = Selected =>
                        \E b \in Obs.bindings :
                            /\ TargetOf(b) = t /\ b.value = "observed"
                            /\ b.generation = Obs.generation
                            /\ \A c \in Obs.bindings : TargetOf(c) = t => c = b
              /\ Obs.captured <= Obs.decision /\ Obs.decision <= Obs.validUntil
              /\ ~Obs.invalidated
        /\ Preserved # NoRoute =>
              /\ Selected = NoRoute
              /\ Env.lastSafe.generation = Obs.generation
              /\ Obs.composition = Env.composition
              /\ Obs.captured <= Obs.decision /\ Obs.decision <= Obs.validUntil
              /\ \A f \in RequiredEnv : Value(Env.facts, f) = "observed"
              /\ \A b, c \in Obs.bindings : TargetOf(b) = TargetOf(c) => b = c
=============================================================================
