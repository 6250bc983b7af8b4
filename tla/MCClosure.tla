------------------------------ MODULE MCClosure ------------------------------
(***************************************************************************)
(* A small instance of Closure: two or three routes over one or two        *)
(* responsibilities.  BaseRequest is admissible; the other requests differ *)
(* from it where the code looks.  Only a few are replayed: what an event   *)
(* does depends on the request through the selected and admitted routes.   *)
(***************************************************************************)
EXTENDS Closure

P == {"sense"}
Comp == 10                 \* the composition key, distinct from every route
Good(facts) == [f \in facts |-> "observed"]

Route(id, source, forms, cost) ==
    [id |-> id, source |-> source, forms |-> forms, supplies |-> P,
     modes |-> [p \in P |-> "agent-native"], facts |-> Good({"available"}),
     coherence |-> IF Cardinality(forms) > 1 THEN Good({"interfaces"}) ELSE <<>>,
     cost |-> cost]

Cost(a, b) == [burden |-> a, risk |-> b]

Bind(field, kind, subject, fact, value) ==
    [field |-> field, kind |-> kind, subject |-> subject, fact |-> fact, value |-> value,
     source |-> "accord", unavailable |-> <<"official">>, generation |-> 1]

\* One binding per fact the decision needs, saying what the request says.
BindAll(routes) ==
    {Bind(<<"env", 0>>, "environment", Comp, "provenance", "observed")}
    \cup {Bind(<<"available", r.id>>, "route", r.id, "available", r.facts["available"])
             : r \in ToSet(routes)}
    \cup {Bind(<<"interfaces", r.id>>, "coherence", r.id, "interfaces", r.coherence["interfaces"])
             : r \in {q \in ToSet(routes) : Cardinality(q.forms) > 1}}

See(subject) == [observer |-> 21, boundary |-> 22, source |-> 23, subject |-> subject]
Nothing == [route |-> NoRoute]
LastSafe(r) == [route |-> r, observation |-> "obs", generation |-> 1, evidence |-> See(r),
                modes |-> [p \in P |-> "agent-native"]]

Request(routes, policy) ==
    [responsibilities |-> P, routes |-> routes, policy |-> policy,
     env |-> [composition |-> Comp, facts |-> Good({"provenance"}), lastSafe |-> Nothing,
              observation |-> [id |-> "obs", generation |-> 1, composition |-> Comp,
                               captured |-> 0, decision |-> 1, validUntil |-> 2,
                               invalidated |-> FALSE, bindings |-> BindAll(routes)]]]

PlainPolicy ==
    [env |-> {}, route |-> {}, coherence |-> {}, completion |-> {}, experiment |-> {},
     retirement |-> {}, dimensions |-> {}, retirements |-> {},
     sources |-> <<"host">>, preferred |-> <<>>]

TwoRoutes == <<Route(1, "host", {"skill"}, Cost(0, 0)), Route(2, "own", {"skill", "hook"}, Cost(1, 0))>>
BaseRequest == Request(TwoRoutes, PlainPolicy)

\* Every comparison of three routes over two dimensions, sources and preferences.
Compared ==
    {Request(<<Route(1, s[1], {}, c[1]), Route(2, s[2], {"skill"}, c[2]),
               Route(3, s[3], {"skill"}, c[3])>>,
             [PlainPolicy EXCEPT !.preferred = pref]) :
        s \in [1..3 -> {"host", "own"}],
        c \in [1..3 -> {Cost(0, 0), Cost(0, 1), Cost(1, 0)}],
        pref \in {<<>>, <<3, 2>>}}

\* The receipt of the environment, one thing changed, with and without a
\* signal against it and an allocation to fall back on.
WithObs(f, v) == [BaseRequest EXCEPT !.env.observation = [@ EXCEPT ![f] = v]]
Receipts ==
    {BaseRequest, WithObs("composition", Comp + 1), WithObs("captured", 2),
     WithObs("validUntil", 0), WithObs("generation", 2), WithObs("bindings", {}),
     [BaseRequest EXCEPT !.env.facts = <<>>]}
    \cup {WithObs("bindings", BindAll(TwoRoutes) \ {b}) : b \in BindAll(TwoRoutes)}
    \cup {WithObs("bindings", (BindAll(TwoRoutes) \ {b}) \cup {[b EXCEPT !.value = v]}) :
              b \in BindAll(TwoRoutes), v \in {"not-observed", "unknown"}}
    \cup {WithObs("bindings", BindAll(TwoRoutes) \cup {[b EXCEPT !.field = f]}) :
              b \in BindAll(TwoRoutes), f \in {<<"again", 0>>, <<"env", 0>>}}
    \cup {WithObs("bindings", BindAll(TwoRoutes) \cup {[b EXCEPT !.unavailable = <<>>]}) :
              b \in BindAll(TwoRoutes)}
Signalled ==
    {[r EXCEPT !.env.observation.invalidated = i, !.env.lastSafe = l] :
        r \in Receipts, i \in BOOLEAN,
        l \in {Nothing, LastSafe(1), LastSafe(2), [LastSafe(1) EXCEPT !.generation = 2],
               [LastSafe(1) EXCEPT !.modes = [p \in P |-> "accord-contained"]]}}

\* Routes that fail on their own account.
Failing ==
    {Request([TwoRoutes EXCEPT ![1].facts = f, ![2].coherence = g], PlainPolicy) :
        f \in {[available |-> v] : v \in FactValues},
        g \in {[interfaces |-> v] : v \in FactValues}}

WithPolicy(p) == [BaseRequest EXCEPT !.policy = p]
\* A policy may ask of every route a fact that resource events also speak of;
\* a composition may be named like a route.
CleanRoutes == [i \in 1..2 |-> [TwoRoutes[i] EXCEPT !.facts = Good({"available", "cleanup"})]]
CleanRequest ==
    [Request(CleanRoutes, [PlainPolicy EXCEPT !.route = {"cleanup"}]) EXCEPT
        !.env.observation.bindings =
            @ \cup {Bind(<<"cleanup", i>>, "route", i, "cleanup", "observed") : i \in 1..2}]
NamedAlike ==
    {[Request([TwoRoutes EXCEPT ![2].facts = f], PlainPolicy) EXCEPT
          !.env = [@ EXCEPT !.composition = 2, !.observation.composition = 2,
                            !.observation.bindings =
                                {IF b.subject = Comp THEN [b EXCEPT !.subject = 2] ELSE b : b \in @}]] :
        f \in {[available |-> v] : v \in FactValues}}

MCReplayed ==
    {CleanRequest} \cup
    {WithPolicy([PlainPolicy EXCEPT !.retirements = {[route |-> 2, responsibilities |-> P]}]),
     WithPolicy([PlainPolicy EXCEPT !.completion = {"handed-over"}, !.dimensions = {"time"}])}
MCRequests ==
    Compared \cup Signalled \cup Failing \cup NamedAlike \cup MCReplayed
    \cup {[BaseRequest EXCEPT !.routes[2].coherence = <<>>]}
    \cup {BaseRequest} \cup {WithPolicy([PlainPolicy EXCEPT !.retirements = {[route |-> 3, responsibilities |-> P]}])}

Fact(route, fact, state, indep) ==
    [kind |-> "fact", route |-> route, fact |-> fact, state |-> state,
     independent |-> indep, evidence |-> See(route)]
Resources(residual, indep) ==
    [kind |-> "resources", route |-> 1, released |-> {"job"}, residual |-> residual,
     independent |-> indep, evidence |-> See(1)]
Experiment(base, comparison, evidence) ==
    [kind |-> "experiment", baseline |-> base, candidate |-> 3 - base,
     preconditions |-> Good({"evaluator"}), comparison |-> comparison, evidence |-> evidence]
Poststate(disposition, evidence) ==
    [kind |-> "poststate", baseline |-> 1, candidate |-> 2, disposition |-> disposition,
     state |-> "observed", independent |-> "observed", evidence |-> evidence]
Retired(route, state, pre) ==
    [kind |-> "retired", route |-> route, replacement |-> 3 - route, responsibilities |-> P,
     preconditions |-> pre, state |-> state, independent |-> "observed",
     evidence |-> See(route), replacementEvidence |-> See(3 - route)]

Equal == [d \in {"authority", "evidence", "time"} |-> "equal"]

MCAlphabet ==
    {Fact(1, "consequence", "observed", "observed"), Fact(1, "consequence", "observed", "unknown"),
     Fact(2, "consequence", "not-observed", "observed"),
     Fact(1, "available", "unknown", "unknown"), Fact(1, "handed-over", "observed", "unknown"),
     Fact(1, "cleanup", "observed", "observed"),
     Resources({}, "observed"), Resources({}, "unknown"), Resources({"file"}, "observed"),
     Experiment(1, [Equal EXCEPT !["evidence"] = "better"], See(2)),
     Experiment(1, [Equal EXCEPT !["authority"] = "worse", !["evidence"] = "better"], See(2)),
     Experiment(2, [Equal EXCEPT !["evidence"] = "better"], See(1)),
     Poststate("keep-complete", See(2)), Poststate("rollback-complete", See(2)),
     Poststate("keep-complete", [See(2) EXCEPT !.observer = 24]),
     Retired(2, "observed", Good({"rollback"})), Retired(2, "observed", <<>>),
     Retired(1, "observed", Good({"rollback"}))}
=============================================================================
