----------------------- MODULE LifecycleObserverProofs -----------------------
(***************************************************************************)
(* Nothing is removed beneath a process in the controller's scope, and no  *)
(* other host is started beside it: ReleasedFirst for every set of cases   *)
(* and any number of departures from the course.  The scope is the child,  *)
(* its group, and a descendant that left the group while it holds an app's *)
(* output; of any other that left, nothing is claimed.  In the comments    *)
(* below, to run is to run in that scope.                                  *)
(*                                                                         *)
(* The argument has three parts.  A record of a release is written only of *)
(* an entry in which nothing runs, and no later step revives one (EntryOK, *)
(* Follows).  The script passes its gates in one order: it is a sequence   *)
(* put together of parts, and the lemmas about the parts say that prepare  *)
(* is at its head and nowhere else (Prepared, Later, Closes).  And each    *)
(* gate reads the records of exactly the entries that matter: the probes   *)
(* in prepare, the launches in the ledger at the activation, the rest at   *)
(* the end.  IInv is the conjunction; one lemma per action keeps it.       *)
(***************************************************************************)
EXTENDS LifecycleObserver, SequenceTheorems, TLAPS

(*****************************************************************************)
(* The invariant                                                             *)
(*****************************************************************************)

\* The entries, as a set: invoked is a sequence of them.
Entries == {invoked[i] : i \in DOMAIN invoked}
\* The fields of an entry.
EntryFields == {"area", "label", "role", "root", "kin", "stray", "attached", "eof", "fate", "failure",
                "record", "replied"}

\* An entry: where it belongs, and that its record claims a release only of what does not run.
EntryOK(e) ==
    /\ DOMAIN e = EntryFields
    /\ e.area \in Areas
    /\ e.kin \in BOOLEAN /\ e.stray \in BOOLEAN /\ e.attached \in BOOLEAN
    /\ RecordReleased(e.record) => ~InScope(e)

\* It runs the native host.
HostOf(e) == e.area \in {"commands", "native"}
\* The steps of prepare.
PrepLen(c) == IF c = "replacement" THEN 4 ELSE 1

\* The types of what the other parts speak of.
Types ==
    /\ case \in Cases /\ role \in Roles /\ step \in Nat
    /\ invoked \in Seq(Entries)
    /\ \A i \in DOMAIN invoked : EntryOK(invoked[i])

\* Where the runner can be: prepare stays within its steps, the run beyond them, and something is waited for
\* only in a step that started or closed it.
Control ==
    /\ phase \in {"prepare", "refused", "run", "cleanup", "done", "inspected"}
    /\ phase = "prepare" =>
          /\ step \in 1..PrepLen(case)
          /\ at # "idle" => case = "replacement" /\ step \in {1, 2}
    /\ phase = "run" =>
          /\ step \in DOMAIN Scripts[case] /\ step > PrepLen(case)
          /\ at # "idle" => Current.op \in {"cli", "helper", "close"}
    /\ phase \in {"prepare", "run"} => at \in {"idle", "work", "grace", "drain"}
    /\ phase = "refused" => at = "idle"
    /\ phase \in {"done", "inspected"} => at = "save"

\* Prepare invokes only probes, and they have ended when their roots are cleared, so none runs later.
ProbesEnded ==
    /\ phase \in {"prepare", "refused"} => \A i \in DOMAIN invoked : invoked[i].area = "probes"
    /\ (phase = "prepare" /\ step = PrepLen(case)) => \A i \in DOMAIN invoked : ~InScope(invoked[i])
    /\ phase \notin {"prepare", "refused"} =>
          \A i \in DOMAIN invoked : invoked[i].area = "probes" => ~InScope(invoked[i])

\* A root goes only at the end of the cleanup, when nothing runs.
RootsLast ==
    roots # OwnedRoots =>
        /\ at = "save" /\ \A i \in DOMAIN invoked : ~InScope(invoked[i])

\* The rows of the plan.
Rows == {LaunchPlan[k] : k \in DOMAIN LaunchPlan}
\* A replacement launches its hosts in the order of the plan, so the ledger finds each entry by its label.
Planned ==
    (case = "replacement" /\ phase \in {"prepare", "run"}) =>
        /\ ledger \in Seq(Rows) /\ Len(ledger) <= Len(LaunchPlan)
        /\ \A k \in DOMAIN ledger : ledger[k] = LaunchPlan[k]
        /\ \A i \in DOMAIN invoked : HostOf(invoked[i]) =>
              \E k \in DOMAIN ledger :
                 ledger[k][1] = invoked[i].area /\ ledger[k][2] = invoked[i].label
        /\ \A i, j \in DOMAIN invoked :
              (HostOf(invoked[i]) /\ HostOf(invoked[j]) /\ invoked[i].label = invoked[j].label) => i = j

\* One host at a time: the replacement is not launched before its activation, and nothing of the source runs
\* after it.
SourceEnded ==
    /\ role = "source" =>
          \A j \in DOMAIN invoked : invoked[j].role = "replacement" => invoked[j].area = "probes"
    /\ (role = "replacement" /\ case = "replacement") =>
          \A i \in DOMAIN invoked :
             HostOf(invoked[i]) /\ invoked[i].role = "source" => ~InScope(invoked[i])

\* The inductive invariant.
IInv == Types /\ Control /\ ProbesEnded /\ RootsLast /\ Planned /\ SourceEnded

(*****************************************************************************)
(* An entry and what follows it                                              *)
(*****************************************************************************)

\* A new directory of evidence is an entry of which nothing runs and no release is recorded.
LEMMA FreshEntry ==
  ASSUME NEW area \in Areas, NEW label, NEW r
  PROVE  LET e == Invocation(area, label, r)
         IN  /\ EntryOK(e) /\ ~InScope(e)
             /\ e.area = area /\ e.label = label /\ e.role = r
<1>1. PICK b \in BOOLEAN : b = FALSE
  OBVIOUS
<1>2. Invocation(area, label, r) =
        [area |-> area, label |-> label, role |-> r, root |-> "none", kin |-> b, stray |-> b,
         attached |-> b, eof |-> b, fate |-> "good", failure |-> b, record |-> Missing, replied |-> b]
  BY <1>1 DEF Invocation
<1>3. PICK e : e = Invocation(area, label, r)
  OBVIOUS
<1>4. /\ DOMAIN e = EntryFields
      /\ e.area = area /\ e.label = label /\ e.role = r
      /\ e.root = "none" /\ e.kin = b /\ e.stray = b /\ e.attached = b /\ e.fate = "good" /\ e.record = Missing
  BY <1>2, <1>3 DEF EntryFields
<1>5. ~RecordReleased(e.record)
  BY <1>4 DEF RecordReleased
<1>6. ~InScope(e)
  BY <1>1, <1>4 DEF InScope, HoldsOutput
<1> QED BY <1>1, <1>3, <1>4, <1>5, <1>6 DEF EntryOK

\* A process started in it leaves where it belongs, and records nothing yet.
LEMMA StartedEntry ==
  ASSUME NEW e, EntryOK(e), NEW fate, e.record = Missing
  PROVE  LET d == Started(e, fate)
         IN  /\ EntryOK(d) /\ d.area = e.area /\ d.label = e.label /\ d.role = e.role
             /\ d.attached \in BOOLEAN /\ d.record = Missing /\ d.root = "run"
<1>1. PICK k : k = (fate \in {"kin", "attach"})
  OBVIOUS
<1>2. PICK t : t = (fate # "attach")
  OBVIOUS
<1>3. PICK f : f = (fate = "attach")
  OBVIOUS
<1>10. PICK y : y = (fate \in {"escape", "pipe"})
  OBVIOUS
<1>4. Started(e, fate) = [e EXCEPT !.root = "run", !.kin = k, !.stray = y,
                                   !.attached = t, !.fate = fate, !.failure = f]
  BY <1>1, <1>2, <1>3, <1>10 DEF Started
<1>5. PICK d : d = Started(e, fate)
  OBVIOUS
<1>6. DOMAIN e = EntryFields
  BY DEF EntryOK
<1>7. /\ DOMAIN d = EntryFields
      /\ d.area = e.area /\ d.label = e.label /\ d.role = e.role /\ d.record = e.record
      /\ d.root = "run" /\ d.kin = k /\ d.stray = y /\ d.attached = t /\ d.fate = fate
  BY <1>4, <1>5, <1>6 DEF EntryFields
<1>9. k \in BOOLEAN /\ y \in BOOLEAN /\ t \in BOOLEAN
  BY <1>1, <1>2, <1>10
<1>8. ~RecordReleased(d.record)
  BY <1>7 DEF RecordReleased
<1> QED BY <1>5, <1>7, <1>8, <1>9 DEF EntryOK

\* What later becomes of an invocation: it is not revived.
Follows(d, e) ==
    /\ EntryOK(d)
    /\ d.area = e.area /\ d.label = e.label /\ d.role = e.role
    /\ InScope(d) => InScope(e)

\* An entry that stays as it is follows itself.
LEMMA SameFollows ==
  ASSUME NEW e, EntryOK(e) PROVE Follows(e, e)
  BY DEF Follows

\* Killing a process revives nothing, and leaves the record as it was.
LEMMA KilledFollows ==
  ASSUME NEW e, EntryOK(e) 
  PROVE  Follows(Killed(e), e) /\ Killed(e).record = e.record /\ Killed(e).attached = e.attached
<1>1. CASE e.fate = "stuck" \/ e.root = "none"
  BY <1>1, SameFollows DEF Killed
<1>2. CASE ~(e.fate = "stuck" \/ e.root = "none")
  <2>1. PICK k \in BOOLEAN : k = (e.kin /\ ~e.attached)
    OBVIOUS
  <2>2. PICK r : r = IF e.root = "run" THEN "code" ELSE e.root
    OBVIOUS
  <2>3. Killed(e) = [e EXCEPT !.root = r, !.kin = k]
    BY <1>2, <2>1, <2>2 DEF Killed
  <2>4. PICK d : d = Killed(e)
    OBVIOUS
  <2>5. DOMAIN e = EntryFields
    BY DEF EntryOK
  <2>6. /\ DOMAIN d = EntryFields
        /\ d.area = e.area /\ d.label = e.label /\ d.role = e.role /\ d.record = e.record
        /\ d.root = r /\ d.kin = k /\ d.stray = e.stray /\ d.attached = e.attached /\ d.fate = e.fate
    BY <2>3, <2>4, <2>5 DEF EntryFields
  <2>7. InScope(d) => InScope(e)
    BY <1>2, <2>1, <2>2, <2>6 DEF InScope, HoldsOutput
  <2>8. EntryOK(d)
    BY <2>6, <2>7 DEF EntryOK
  <2> QED BY <2>4, <2>6, <2>7, <2>8 DEF Follows
<1> QED BY <1>1, <1>2

\* A field that no one reads to see whether it runs.
LEMMA NotedFollows ==
  ASSUME NEW e, EntryOK(e), NEW v
  PROVE  Follows([e EXCEPT !.failure = v], e) /\ Follows([e EXCEPT !.eof = v], e)
<1>1. DOMAIN e = EntryFields
  BY DEF EntryOK
<1>2. ASSUME NEW d, d = [e EXCEPT !.failure = v] \/ d = [e EXCEPT !.eof = v]
      PROVE  Follows(d, e)
  <2>1. /\ DOMAIN d = EntryFields
        /\ d.area = e.area /\ d.label = e.label /\ d.role = e.role /\ d.record = e.record
        /\ d.root = e.root /\ d.kin = e.kin /\ d.stray = e.stray /\ d.attached = e.attached /\ d.fate = e.fate
    BY <1>1, <1>2 DEF EntryFields
  <2>2. InScope(d) <=> InScope(e)
    BY <2>1 DEF InScope, HoldsOutput
  <2> QED BY <2>1, <2>2 DEF EntryOK, Follows
<1> QED BY <1>2

\* A process that ends by itself is not revived.
LEMMA EndedFollows ==
  ASSUME NEW e, EntryOK(e), Ends(e) PROVE Follows(Ended(e), e)
<1>1. PICK r : r = IF (e.fate = "bad") # (e.label = "invalid-candidate") THEN "code" ELSE "zero"
  OBVIOUS
<1>2. Ended(e) = [e EXCEPT !.root = r]
  BY <1>1 DEF Ended
<1>3. PICK d : d = Ended(e)
  OBVIOUS
<1>4. DOMAIN e = EntryFields
  BY DEF EntryOK
<1>5. /\ DOMAIN d = EntryFields
      /\ d.area = e.area /\ d.label = e.label /\ d.role = e.role /\ d.record = e.record
      /\ d.kin = e.kin /\ d.stray = e.stray /\ d.attached = e.attached /\ d.fate = e.fate
  BY <1>2, <1>3, <1>4 DEF EntryFields
<1>6. InScope(e)
  BY DEF Ends, InScope, HoldsOutput
<1> QED BY <1>3, <1>5, <1>6 DEF EntryOK, Follows

\* Neither is the group whose remaining members end.
LEMMA KinFollows ==
  ASSUME NEW e, EntryOK(e), KinEnd(e) PROVE Follows(WithoutKin(e), e)
<1>1. PICK b \in BOOLEAN : b = FALSE
  OBVIOUS
<1>2. WithoutKin(e) = [e EXCEPT !.kin = b]
  BY <1>1 DEF WithoutKin
<1>3. PICK d : d = WithoutKin(e)
  OBVIOUS
<1>4. DOMAIN e = EntryFields
  BY DEF EntryOK
<1>5. /\ DOMAIN d = EntryFields
      /\ d.area = e.area /\ d.label = e.label /\ d.role = e.role /\ d.record = e.record
      /\ d.root = e.root /\ d.kin = b /\ d.stray = e.stray /\ d.attached = e.attached /\ d.fate = e.fate
  BY <1>2, <1>3, <1>4 DEF EntryFields
<1>6. InScope(e)
  BY DEF KinEnd, InScope, HoldsOutput
<1> QED BY <1>3, <1>5, <1>6 DEF EntryOK, Follows

\* Nor is a descendant that left the group and ends.
LEMMA StrayFollows ==
  ASSUME NEW e, EntryOK(e) PROVE Follows(WithoutStray(e), e)
<1>1. PICK b \in BOOLEAN : b = FALSE
  OBVIOUS
<1>2. WithoutStray(e) = [e EXCEPT !.stray = b]
  BY <1>1 DEF WithoutStray
<1>3. PICK d : d = WithoutStray(e)
  OBVIOUS
<1>4. DOMAIN e = EntryFields
  BY DEF EntryOK
<1>5. /\ DOMAIN d = EntryFields
      /\ d.area = e.area /\ d.label = e.label /\ d.role = e.role /\ d.record = e.record
      /\ d.root = e.root /\ d.kin = e.kin /\ d.stray = b /\ d.attached = e.attached /\ d.fate = e.fate
  BY <1>2, <1>3, <1>4 DEF EntryFields
<1>6. InScope(d) => InScope(e)
  BY <1>1, <1>5 DEF InScope, HoldsOutput
<1> QED BY <1>3, <1>5, <1>6 DEF EntryOK, Follows

\* A final sample that finds the group absent is of an attached group in which nothing runs.
LEMMA SampleMeans ==
  ASSUME NEW e, NEW forced
  PROVE  LET s == FinalSample(e, forced)
         IN  s.state = "absent" => e.attached /\ ~(e.root = "run" \/ e.kin)
<1>1. PICK p : p = IF forced /\ e.fate = "probe" THEN "unobserved" ELSE "closed"
  OBVIOUS
<1>2. PICK st : st = Sample(e).state
  OBVIOUS
<1>3. PICK rt : rt = Sample(e).root
  OBVIOUS
<1>4. Sample(e) = [state |-> st, root |-> rt, probe |-> "closed"]
  BY <1>2, <1>3 DEF Sample
<1>5. FinalSample(e, forced).state = st /\ FinalSample(e, forced).root = rt
  BY <1>1, <1>4 DEF FinalSample
<1>6. st = "absent" => e.attached /\ ~(e.root = "run" \/ e.kin)
  BY <1>2 DEF Sample
<1> QED BY <1>5, <1>6

\* A record of a release is written of an invocation of which nothing in scope runs.
LEMMA RecordMeans ==
  ASSUME NEW e, NEW forced, NEW graceAt, NEW graceReleased, NEW clock,
         RecordReleased(ResourceRecord(e, forced, graceAt, graceReleased, clock))
  PROVE  ~InScope(e) /\ e.attached
<1>1. PICK r : r = ResourceRecord(e, forced, graceAt, graceReleased, clock)
  OBVIOUS
<1>2. PICK rd \in BOOLEAN : rd = ~HoldsOutput(e)
  OBVIOUS
<1>3. PICK s : s = FinalSample(e, forced)
  OBVIOUS
<1>4. r.after = s /\ r.reader = rd
  BY <1>1, <1>2, <1>3 DEF ResourceRecord
<1>5. rd /\ s.state = "absent" /\ s.root \in {"zero", "code"}
  BY <1>1, <1>4 DEF RecordReleased, Released
<1>6. ~HoldsOutput(e)
  BY <1>2, <1>5
<1> QED BY <1>3, <1>5, <1>6, SampleMeans DEF InScope

(*****************************************************************************)
(* The list of entries                                                       *)
(*****************************************************************************)

\* Every entry is still there, and what became of it follows it.
StillThere ==
    /\ invoked' \in Seq(Entries') /\ DOMAIN invoked' = DOMAIN invoked
    /\ \A i \in DOMAIN invoked : Follows(invoked'[i], invoked[i])

\* A sequence is one of whatever its elements are in.
LEMMA Retyped ==
  ASSUME NEW S, NEW T, NEW u \in Seq(S), \A i \in DOMAIN u : u[i] \in T
  PROVE  u \in Seq(T)
<1>1. PICK n \in Nat : n = Len(u)
  OBVIOUS
<1>2. DOMAIN u = 1..n /\ u = [i \in 1..n |-> u[i]]
  BY <1>1
<1>3. u \in [1..n -> T]
  BY <1>2
<1> QED BY <1>3, SeqDef

\* One entry is replaced by what follows it.
LEMMA OneChanges ==
  ASSUME Types, NEW k, NEW v, invoked' = [invoked EXCEPT ![k] = v],
         k \in DOMAIN invoked => Follows(v, invoked[k])
  PROVE  StillThere
<1>1. PICK n \in Nat : DOMAIN invoked = 1..n
  BY DEF Types
<1>2. DOMAIN invoked' = 1..n
  BY <1>1
<1>4. invoked' \in Seq(Entries')
  <2>1. PICK T : T = Entries \cup {v}
    OBVIOUS
  <2>2. invoked \in Seq(T) /\ v \in T
    BY <2>1 DEF Types
  <2>4. invoked' \in Seq(T)
    <3>1. CASE k \in 1..n
      <4>1. n = Len(invoked)
        BY <1>1, <2>2
      <4> QED BY <2>2, <3>1, <4>1, ExceptSeq
    <3>2. CASE k \notin 1..n
      <4>1. invoked = [i \in 1..n |-> invoked[i]]
        BY <1>1, <2>2
      <4>2. invoked' = [i \in 1..n |-> IF i = k THEN v ELSE invoked[i]]
        BY <1>1
      <4>3. invoked' = [i \in 1..n |-> invoked[i]]
        BY <3>2, <4>2
      <4> QED BY <2>2, <4>1, <4>3
    <3> QED BY <3>1, <3>2
  <2>5. \A i \in DOMAIN invoked' : invoked'[i] \in Entries'
    BY DEF Entries
  <2> QED BY <2>4, <2>5, Retyped
<1>5. ASSUME NEW i \in DOMAIN invoked PROVE Follows(invoked'[i], invoked[i])
  <2>1. EntryOK(invoked[i])
    BY DEF Types
  <2>2. CASE i = k
    BY <2>2, <1>5
  <2>3. CASE i # k
    BY <2>1, <2>3, SameFollows
  <2> QED BY <2>2, <2>3
<1> QED BY <1>1, <1>2, <1>4, <1>5 DEF StillThere

\* The entries stay as they are.
LEMMA NoneChanges ==
  ASSUME Types, invoked' = invoked PROVE StillThere
<1>1. invoked' \in Seq(Entries')
  BY DEF Types, Entries
<1>2. \A i \in DOMAIN invoked : EntryOK(invoked[i])
  BY DEF Types
<1> QED BY <1>1, <1>2, SameFollows DEF StillThere

\* An entry is added at the end, and the others keep their places.
LEMMA OneMore ==
  ASSUME Types, NEW e, invoked' = Append(invoked, e)
  PROVE  \E n \in Nat :
            /\ DOMAIN invoked = 1..n /\ DOMAIN invoked' = 1..(n + 1)
            /\ \A i \in 1..n : invoked'[i] = invoked[i]
            /\ invoked'[n + 1] = e /\ invoked' \in Seq(Entries')
            /\ \A i \in 1..(n + 1) : i \in 1..n \/ i = n + 1
<1>1. PICK n \in Nat : n = Len(invoked)
  BY DEF Types
<1>2. /\ DOMAIN invoked = 1..n /\ DOMAIN invoked' = 1..(n + 1)
      /\ \A i \in 1..n : invoked'[i] = invoked[i]
      /\ invoked'[n + 1] = e
  BY <1>1 DEF Types
<1>3. invoked' \in Seq(Entries')
  <2>1. invoked' \in Seq(Entries \cup {e})
    BY DEF Types
  <2>2. \A i \in DOMAIN invoked' : invoked'[i] \in Entries'
    BY DEF Entries
  <2> QED BY <1>2, <2>1, <2>2
<1>4. \A i \in 1..(n + 1) : i \in 1..n \/ i = n + 1
  OBVIOUS
<1> QED BY <1>2, <1>3, <1>4

(*****************************************************************************)
(* The script                                                                *)
(*****************************************************************************)

\* The kinds of steps that come after prepare.
LaterOps == {"cli", "shot", "open", "check", "close", "turn", "helper", "contrast", "interrupt",
             "activate", "resume", "mark", "finish"}
\* A part of the script with only such steps.
Later(s) ==
    /\ s \in Seq({s[i] : i \in DOMAIN s})
    /\ \A i \in DOMAIN s : s[i].op \in LaterOps

\* Two parts that come after prepare, one after the other, are again such a part.
LEMMA Joined ==
  ASSUME NEW s, NEW t, Later(s), Later(t) PROVE Later(s \o t)
<1> DEFINE S == {s[i] : i \in DOMAIN s} \cup {t[i] : i \in DOMAIN t}
<1>1. /\ s \in Seq(S) /\ t \in Seq(S)
      /\ \A x \in S : x.op \in LaterOps
  BY DEF Later
<1> HIDE DEF S
<1>2. s \o t \in Seq(S)
  BY <1>1
<1>3. \A i \in DOMAIN (s \o t) : (s \o t)[i] \in S
  BY <1>2
<1>4. s \o t \in Seq({(s \o t)[i] : i \in DOMAIN (s \o t)})
  <2>1. PICK u \in Seq(S) : u = s \o t
    BY <1>2
  <2>2. u \in Seq({u[i] : i \in DOMAIN u})
    OBVIOUS
  <2> QED BY <2>1, <2>2
<1> QED BY <1>1, <1>3, <1>4 DEF Later

\* A part of one step.
LEMMA DoOne ==
  ASSUME NEW op \in LaterOps, NEW a PROVE Later(Do(op, <<a>>))
<1>1. Do(op, <<a>>) = [i \in 1..1 |-> [op |-> op, label |-> a]]
  BY DEF Do
<1>2. PICK x : x = [op |-> op, label |-> a]
  OBVIOUS
<1>3. [i \in 1..1 |-> x] = <<x>>
  OBVIOUS
<1>4. Do(op, <<a>>) = <<x>> /\ x.op = op
  BY <1>1, <1>2, <1>3
<1> QED BY <1>4 DEF Later

\* A part of two steps of one kind.
LEMMA DoTwo ==
  ASSUME NEW op \in LaterOps, NEW a, NEW b PROVE Later(Do(op, <<a, b>>))
<1>1. PICK x : x = [op |-> op, label |-> a]
  OBVIOUS
<1>2. PICK y : y = [op |-> op, label |-> b]
  OBVIOUS
<1>3. Do(op, <<a, b>>) = <<x, y>>
  BY <1>1, <1>2 DEF Do
<1> QED BY <1>1, <1>2, <1>3 DEF Later

\* A part of four steps of one kind.
LEMMA DoFour ==
  ASSUME NEW op \in LaterOps, NEW a, NEW b, NEW c, NEW d PROVE Later(Do(op, <<a, b, c, d>>))
<1>1. PICK x : x = [op |-> op, label |-> a]
  OBVIOUS
<1>2. PICK y : y = [op |-> op, label |-> b]
  OBVIOUS
<1>3. PICK z : z = [op |-> op, label |-> c]
  OBVIOUS
<1>4. PICK w : w = [op |-> op, label |-> d]
  OBVIOUS
<1>5. Do(op, <<a, b, c, d>>) = <<x, y, z, w>>
  BY <1>1, <1>2, <1>3, <1>4 DEF Do
<1> DEFINE s == <<x, y, z, w>>
<1>6. s \in Seq({x, y, z, w}) /\ DOMAIN s = 1..4
  OBVIOUS
<1>7. \A i \in DOMAIN s : s[i].op = op
  BY <1>1, <1>2, <1>3, <1>4
<1>8. s \in Seq({s[i] : i \in DOMAIN s})
  <2>1. \A i \in DOMAIN s : s[i] \in {s[j] : j \in DOMAIN s}
    OBVIOUS
  <2> QED BY <1>6, <2>1, Retyped
<1> QED BY <1>5, <1>7, <1>8 DEF Later

\* What happens between the start of an app and its end is enclosed by those two steps.
LEMMA HostSteps ==
  ASSUME NEW a, NEW between, Later(between) PROVE Later(Host(a, between))
<1>1. "open" \in LaterOps /\ "close" \in LaterOps
  BY DEF LaterOps
<1>2. Later(Do("open", <<a>>)) /\ Later(Do("close", <<a>>))
  BY <1>1, DoOne
<1>3. Later(Do("open", <<a>>) \o between)
  BY <1>2, Joined
<1> QED BY <1>2, <1>3, Joined DEF Host

\* The script begins with the steps of prepare, and goes on with those of run.
Prepared(s, c) ==
    /\ s \in Seq({s[i] : i \in DOMAIN s}) /\ Len(s) >= PrepLen(c)
    /\ c = "replacement" =>
          s[1].op = "probe" /\ s[2].op = "probe" /\ s[3].op = "clear" /\ s[4].op = "start"
    /\ c # "replacement" => s[1].op = "start"
    /\ \A i \in DOMAIN s : i > PrepLen(c) => s[i].op \in LaterOps

\* A script that begins with prepare still does when a later part is appended.
LEMMA PreparedOn ==
  ASSUME NEW c, NEW s, NEW t, Prepared(s, c), Later(t) PROVE Prepared(s \o t, c)
<1> DEFINE S == {s[i] : i \in DOMAIN s} \cup {t[i] : i \in DOMAIN t}
<1>1. s \in Seq(S) /\ t \in Seq(S)
  BY DEF Later, Prepared
<1> HIDE DEF S
<1>2. PICK m \in Nat, n \in Nat : m = Len(s) /\ n = Len(t) /\ m >= PrepLen(c)
  BY <1>1 DEF Prepared
<1>3. PICK p \in {1, 4} : p = PrepLen(c) /\ (p = 4 <=> c = "replacement")
  BY DEF PrepLen
<1>10. s \o t \in Seq(S)
  BY <1>1
<1>4. PICK u \in Seq(S) : u = s \o t
  BY <1>10
<1>5. /\ DOMAIN u = 1..(m + n) /\ Len(u) = m + n
      /\ \A i \in 1..m : u[i] = s[i]
      /\ \A i \in 1..(m + n) : i > m => u[i] = t[i - m]
  BY <1>1, <1>2, <1>4
<1>6. u \in Seq({u[i] : i \in DOMAIN u})
  OBVIOUS
<1>7. ASSUME NEW i \in DOMAIN u, i > p PROVE u[i].op \in LaterOps
  <2>1. CASE i <= m
    <3>1. i \in 1..m /\ i \in DOMAIN s
      BY <1>1, <1>2, <1>5, <1>7, <2>1
    <3> QED BY <1>3, <1>5, <1>7, <3>1 DEF Prepared
  <2>2. CASE i > m
    <3>1. i - m \in DOMAIN t /\ u[i] = t[i - m]
      BY <1>1, <1>2, <1>5, <1>7, <2>2
    <3> QED BY <3>1 DEF Later
  <2> QED BY <1>2, <1>5, <2>1, <2>2
<1>8. ASSUME p = 4 PROVE Prepared(u, c)
  <2>1. u[1] = s[1] /\ u[2] = s[2] /\ u[3] = s[3] /\ u[4] = s[4]
    BY <1>2, <1>3, <1>5, <1>8
  <2> QED BY <1>2, <1>3, <1>5, <1>6, <1>7, <1>8, <2>1 DEF Prepared
<1>9. ASSUME p = 1 PROVE Prepared(u, c)
  <2>1. u[1] = s[1]
    BY <1>2, <1>3, <1>5, <1>9
  <2> QED BY <1>2, <1>3, <1>5, <1>6, <1>7, <1>9, <2>1 DEF Prepared
<1> QED BY <1>3, <1>4, <1>8, <1>9

\* What a sequence is after one more element.
LEMMA AppendedOne ==
  ASSUME NEW S, NEW s \in Seq(S), NEW x \in S
  PROVE  /\ s \o <<x>> \in Seq(S) /\ Len(s \o <<x>>) = Len(s) + 1
         /\ \A i \in 1..Len(s) : (s \o <<x>>)[i] = s[i]
         /\ (s \o <<x>>)[Len(s) + 1] = x
<1>1. PICK t : t = <<x>>
  OBVIOUS
<1>2. t \in Seq(S) /\ Len(t) = 1 /\ t[1] = x
  BY <1>1
<1>3. PICK n \in Nat : n = Len(s)
  OBVIOUS
<1>4. s \o t \in Seq(S)
  BY <1>2
<1>6. /\ Len(s \o t) = Len(s) + Len(t)
      /\ \A i \in 1..(Len(s) + Len(t)) :
            (s \o t)[i] = IF i <= Len(s) THEN s[i] ELSE t[i - Len(s)]
  BY <1>2, ConcatProperties, Zenon
<1>7. /\ Len(s \o t) = n + 1
      /\ \A i \in 1..(n + 1) : (s \o t)[i] = IF i <= n THEN s[i] ELSE t[i - n]
  BY <1>2, <1>3, <1>6, Zenon
<1>8. (s \o t)[n + 1] = x /\ \A i \in 1..n : (s \o t)[i] = s[i]
  <2>1. n + 1 \in 1..(n + 1) /\ ~(n + 1 <= n) /\ (n + 1) - n = 1
    OBVIOUS
  <2>2. (s \o t)[n + 1] = x
    BY <1>2, <1>7, <2>1, Zenon
  <2>3. \A i \in 1..n : i \in 1..(n + 1) /\ i <= n
    OBVIOUS
  <2> QED BY <1>7, <2>2, <2>3, Zenon
<1> QED BY <1>1, <1>3, <1>4, <1>7, <1>8, Zenon

\* Prepare itself: two probes and the clearing of their roots where the host is replaced, then the start.
LEMMA PreparePart ==
  ASSUME NEW c PROVE Prepared(Prepare(c), c)
<1>1. PICK p : p = [op |-> "probe", label |-> "source"]
  OBVIOUS
<1>2. PICK q : q = [op |-> "probe", label |-> "replacement"]
  OBVIOUS
<1>3. PICK r : r = [op |-> "clear", label |-> "roots"]
  OBVIOUS
<1>4. PICK z : z = [op |-> "start", label |-> "run"]
  OBVIOUS
<1>5. Do("probe", <<"source", "replacement">>) = <<p, q>> /\ Do("clear", <<"roots">>) = <<r>>
      /\ Do("start", <<"run">>) = <<z>>
  BY <1>1, <1>2, <1>3, <1>4 DEF Do
<1>6. p.op = "probe" /\ q.op = "probe" /\ r.op = "clear" /\ z.op = "start"
  BY <1>1, <1>2, <1>3, <1>4
<1>7. CASE c = "replacement"
  <2>1. Prepare(c) = (<<p, q>> \o <<r>>) \o <<z>>
    BY <1>5, <1>7 DEF Prepare
  <2>2. PICK T : T = {p, q, r, z}
    OBVIOUS
  <2>3. PICK v : v = <<p, q>> \o <<r>>
    OBVIOUS
  <2>4. v \in Seq(T) /\ Len(v) = 3 /\ v[1] = p /\ v[2] = q /\ v[3] = r
    <3>1. PICK x : x = <<p, q>>
      OBVIOUS
    <3>2. x \in Seq(T) /\ Len(x) = 2 /\ x[1] = p /\ x[2] = q /\ r \in T
      BY <2>2, <3>1
    <3> QED BY <2>3, <3>1, <3>2, AppendedOne
  <2>8. PICK u : u = Prepare(c)
    OBVIOUS
  <2>9. u = v \o <<z>> /\ z \in T
    BY <2>1, <2>2, <2>3, <2>8
  <2>5. u \in Seq(T) /\ DOMAIN u = 1..4 /\ Len(u) = 4
        /\ u[1] = p /\ u[2] = q /\ u[3] = r /\ u[4] = z
    <3>1. /\ v \o <<z>> \in Seq(T) /\ Len(v \o <<z>>) = Len(v) + 1
          /\ \A i \in 1..Len(v) : (v \o <<z>>)[i] = v[i]
          /\ (v \o <<z>>)[Len(v) + 1] = z
      BY <2>4, <2>9, AppendedOne, Zenon
    <3>2. /\ u \in Seq(T) /\ Len(u) = Len(v) + 1 /\ u[Len(v) + 1] = z
          /\ \A i \in 1..Len(v) : u[i] = v[i]
      BY <2>9, <3>1, Zenon
    <3> QED BY <2>4, <3>2
  <2>6. u \in Seq({u[i] : i \in DOMAIN u})
    <3>1. \A i \in DOMAIN u : u[i] \in {u[j] : j \in DOMAIN u}
      OBVIOUS
    <3> QED BY <2>5, <3>1, Retyped
  <2>7. PrepLen(c) = 4 /\ \A i \in DOMAIN u : ~(i > 4)
    BY <1>7, <2>5 DEF PrepLen
  <2> QED BY <1>6, <1>7, <2>8, <2>5, <2>6, <2>7 DEF Prepared
<1>8. CASE c # "replacement"
  <2>1. Prepare(c) = <<>> \o <<z>>
    BY <1>5, <1>8 DEF Prepare
  <2>2. <<>> \o <<z>> = <<z>>
    OBVIOUS
  <2>3. PICK u : u = Prepare(c)
    OBVIOUS
  <2>4. u = <<z>>
    BY <2>1, <2>2, <2>3
  <2>5. u \in Seq({z}) /\ DOMAIN u = 1..1 /\ Len(u) = 1 /\ u[1] = z
    BY <2>4
  <2>6. u \in Seq({u[i] : i \in DOMAIN u})
    <3>1. \A i \in DOMAIN u : u[i] \in {u[j] : j \in DOMAIN u}
      OBVIOUS
    <3> QED BY <2>5, <3>1, Retyped
  <2>7. PrepLen(c) = 1 /\ \A i \in DOMAIN u : ~(i > 1)
    BY <1>8, <2>5 DEF PrepLen
  <2> QED BY <1>6, <1>8, <2>3, <2>5, <2>6, <2>7 DEF Prepared
<1> QED BY <1>7, <1>8

\* The empty part.
LEMMA Nothing == Later(<<>>)
  BY DEF Later

\* The kinds of steps that come after prepare, by name.
LEMMA LaterNamed ==
  /\ "cli" \in LaterOps /\ "shot" \in LaterOps /\ "open" \in LaterOps /\ "check" \in LaterOps
  /\ "close" \in LaterOps /\ "turn" \in LaterOps /\ "helper" \in LaterOps /\ "contrast" \in LaterOps
  /\ "interrupt" \in LaterOps /\ "activate" \in LaterOps /\ "resume" \in LaterOps
  /\ "mark" \in LaterOps /\ "finish" \in LaterOps
  BY DEF LaterOps

\* The SessionEnd contrast has only such steps.
LEMMA SessionEndsPart == Later(SessionEnds)
<1> DEFINE a1 == Do("turn", <<"end-enabled">>) \o Do("helper", <<"end-enabled">>)
           a2 == Do("turn", <<"end-disabled">>) \o Do("helper", <<"end-disabled">>)
<1>1. Later(a1) /\ Later(a2)
  BY LaterNamed, DoOne, Joined
<1>2. Later(Host("end-enabled", a1)) /\ Later(Host("end-disabled", a2))
  BY <1>1, HostSteps
<1>3. Later(Do("contrast", <<"end-enabled">>)) /\ Later(Do("contrast", <<"end-disabled">>))
      /\ Later(Do("helper", <<"present", "retire">>))
  BY LaterNamed, DoOne, DoTwo
<1>4. Later(Host("end-enabled", a1) \o Do("contrast", <<"end-enabled">>))
  BY <1>2, <1>3, Joined
<1>5. Later(Host("end-enabled", a1) \o Do("contrast", <<"end-enabled">>) \o Host("end-disabled", a2))
  BY <1>2, <1>4, Joined
<1>6. Later(Host("end-enabled", a1) \o Do("contrast", <<"end-enabled">>) \o Host("end-disabled", a2)
            \o Do("contrast", <<"end-disabled">>))
  BY <1>3, <1>5, Joined
<1> QED BY <1>3, <1>6, Joined DEF SessionEnds

\* So has the interruption,
LEMMA InterruptionPart == Later(Interruption)
<1> DEFINE b1 == Do("turn", <<"interrupted">>) \o Do("helper", <<"status", "bind", "pause", "before-pause">>)
           b2 == b1 \o Do("interrupt", <<"interrupted">>)
           b3 == b2 \o Do("helper", <<"after-interrupt">>)
<1>1. Later(b1)
  BY LaterNamed, DoOne, DoFour, Joined
<1>2. Later(b2)
  BY <1>1, LaterNamed, DoOne, Joined
<1>3. Later(b3)
  BY <1>2, LaterNamed, DoOne, Joined
<1>4. Later(Host("interrupted", b3))
  BY <1>3, HostSteps
<1>5. Later(Do("helper", <<"after-exit">>))
  BY LaterNamed, DoOne
<1> QED BY <1>4, <1>5, Joined DEF Interruption

\* and the upgrade and rollback of the package,
LEMMA HotReloadPart == Later(HotReload)
<1>1. /\ Later(Do("cli", <<"hot-reload-upgrade">>)) /\ Later(Do("helper", <<"before-upgrade">>))
      /\ Later(Do("turn", <<"upgrade">>)) /\ Later(Do("helper", <<"after-upgrade">>))
      /\ Later(Do("cli", <<"hot-reload-rollback">>)) /\ Later(Do("helper", <<"before-rollback">>))
      /\ Later(Do("turn", <<"rollback">>)) /\ Later(Do("helper", <<"after-rollback">>))
  BY LaterNamed, DoOne
<1> DEFINE c2 == Do("cli", <<"hot-reload-upgrade">>) \o Do("helper", <<"before-upgrade">>)
           c3 == c2 \o Do("turn", <<"upgrade">>)
           c4 == c3 \o Do("helper", <<"after-upgrade">>)
           c5 == c4 \o Do("cli", <<"hot-reload-rollback">>)
           c6 == c5 \o Do("helper", <<"before-rollback">>)
           c7 == c6 \o Do("turn", <<"rollback">>)
<1>2. Later(c2) BY <1>1, Joined
<1>3. Later(c3) BY <1>1, <1>2, Joined
<1>4. Later(c4) BY <1>1, <1>3, Joined
<1>5. Later(c5) BY <1>1, <1>4, Joined
<1>6. Later(c6) BY <1>1, <1>5, Joined
<1>7. Later(c7) BY <1>1, <1>6, Joined
<1> QED BY <1>1, <1>7, Joined DEF HotReload

\* and the resumption, in every case.
LEMMA ResumptionPart ==
  ASSUME NEW c PROVE Later(Resumption(c))
<1>1. PICK act : act = IF c = "replacement" THEN Do("activate", <<"host">>) ELSE <<>>
  OBVIOUS
<1>2. PICK hot : hot = IF c = "hot" THEN HotReload ELSE <<>>
  OBVIOUS
<1>3. Later(act) /\ Later(hot)
  BY <1>1, <1>2, Nothing, LaterNamed, DoOne, HotReloadPart
<1> DEFINE d1 == Do("resume", <<"resumed">>) \o Do("helper", <<"resumed-before-continue">>)
           d2 == d1 \o Do("turn", <<"continue">>)
           d3 == d2 \o Do("helper", <<"after-resume">>)
<1>4. Later(d1)
  BY LaterNamed, DoOne, Joined
<1>5. Later(d2)
  BY <1>4, LaterNamed, DoOne, Joined
<1>6. Later(d3)
  BY <1>5, LaterNamed, DoOne, Joined
<1>7. Later(d3 \o hot)
  BY <1>3, <1>6, Joined
<1>8. Later(Host("resumed", d3 \o hot))
  BY <1>7, HostSteps
<1>9. Resumption(c) = act \o Host("resumed", d3 \o hot)
  BY <1>1, <1>2 DEF Resumption
<1> QED BY <1>3, <1>8, <1>9, Joined

\* It ends with the end of the script.
Closes(s) == Len(s) >= 1 /\ s[Len(s)].op = "finish"

\* A script ends as its last part ends.
LEMMA ClosesOn ==
  ASSUME NEW s, NEW t, s \in Seq({s[i] : i \in DOMAIN s}), Later(t), Closes(t)
  PROVE  Closes(s \o t)
<1> DEFINE S == {s[i] : i \in DOMAIN s} \cup {t[i] : i \in DOMAIN t}
<1>1. s \in Seq(S) /\ t \in Seq(S)
  BY DEF Later
<1> HIDE DEF S
<1>2. PICK m \in Nat, n \in Nat : m = Len(s) /\ n = Len(t)
  BY <1>1
<1>3. n >= 1 /\ t[n].op = "finish"
  BY <1>2 DEF Closes
<1>4. /\ Len(s \o t) = m + n
      /\ \A i \in 1..(m + n) : (s \o t)[i] = IF i <= m THEN s[i] ELSE t[i - m]
  BY <1>1, <1>2, ConcatProperties, Zenon
<1>5. m + n \in 1..(m + n) /\ ~(m + n <= m) /\ (m + n) - m = n /\ m + n >= 1
  BY <1>3
<1>6. (s \o t)[m + n] = t[n]
  BY <1>4, <1>5, Zenon
<1> QED BY <1>3, <1>4, <1>5, <1>6, Zenon DEF Closes

\* The removal has only such steps, and ends the script.
LEMMA RemovalPart == Later(Removal) /\ Closes(Removal)
<1>1. /\ Later(Do("check", <<"restored">>)) /\ Later(Do("mark", <<"state">>))
      /\ Later(Do("cli", <<"invalid-candidate", "healthy-retry">>))
      /\ Later(Do("shot", <<"after-healthy-retry">>))
      /\ Later(Do("cli", <<"package-remove", "package-list-after-remove">>))
      /\ Later(Do("check", <<"removed">>)) /\ Later(Do("finish", <<"run">>))
  BY LaterNamed, DoOne, DoTwo
<1> DEFINE h1 == Host("restored-exposure", Do("check", <<"restored">>))
           h2 == Host("after-remove", Do("check", <<"removed">>))
           e1 == h1 \o Do("mark", <<"state">>)
           e2 == e1 \o Do("cli", <<"invalid-candidate", "healthy-retry">>)
           e3 == e2 \o Do("shot", <<"after-healthy-retry">>)
           e4 == e3 \o Do("cli", <<"package-remove", "package-list-after-remove">>)
           e5 == e4 \o h2
<1>2. Later(h1) /\ Later(h2)
  BY <1>1, HostSteps
<1>3. Later(e1) BY <1>1, <1>2, Joined
<1>4. Later(e2) BY <1>1, <1>3, Joined
<1>5. Later(e3) BY <1>1, <1>4, Joined
<1>6. Later(e4) BY <1>1, <1>5, Joined
<1>7. Later(e5) BY <1>2, <1>6, Joined
<1>8. Closes(Do("finish", <<"run">>))
  <2>1. PICK z : z = [op |-> "finish", label |-> "run"]
    OBVIOUS
  <2>2. Do("finish", <<"run">>) = <<z>> /\ z.op = "finish"
    BY <2>1 DEF Do
  <2> QED BY <2>2 DEF Closes
<1>9. Removal = e5 \o Do("finish", <<"run">>)
  BY DEF Removal
<1>10. e5 \in Seq({e5[i] : i \in DOMAIN e5})
  BY <1>7 DEF Later
<1> HIDE DEF e5
<1>11. Closes(e5 \o Do("finish", <<"run">>))
  BY <1>1, <1>8, <1>10, ClosesOn
<1> QED BY <1>1, <1>7, <1>9, <1>11, Joined

\* The script of every case begins with prepare, never returns to it, and ends with its only end.
LEMMA ScriptMeans ==
  ASSUME NEW c PROVE Prepared(Script(c), c) /\ Closes(Script(c))
<1> DEFINE f1 == Prepare(c) \o Do("cli", <<"marketplace-add", "package-add">>)
           f2 == f1 \o Do("shot", <<"after-package-add">>)
           h == Host("discovery", Do("check", <<"inventory">>))
           f3 == f2 \o h
           f4 == f3 \o SessionEnds
           f5 == f4 \o Interruption
           f6 == f5 \o Resumption(c)
<1>1. /\ Later(Do("cli", <<"marketplace-add", "package-add">>))
      /\ Later(Do("shot", <<"after-package-add">>))
      /\ Later(Do("check", <<"inventory">>))
  BY LaterNamed, DoOne, DoTwo
<1>2. Later(h)
  BY <1>1, HostSteps
<1>3. Prepared(f1, c) BY <1>1, PreparePart, PreparedOn
<1>4. Prepared(f2, c) BY <1>1, <1>3, PreparedOn
<1>5. Prepared(f3, c) BY <1>2, <1>4, PreparedOn
<1>6. Prepared(f4, c) BY <1>5, SessionEndsPart, PreparedOn
<1>7. Prepared(f5, c) BY <1>6, InterruptionPart, PreparedOn
<1>8. Prepared(f6, c) BY <1>7, ResumptionPart, PreparedOn
<1>9. Script(c) = f6 \o Removal
  BY DEF Script
<1>10. f6 \in Seq({f6[i] : i \in DOMAIN f6})
  BY <1>8 DEF Prepared
<1> HIDE DEF f6
<1>11. Prepared(f6 \o Removal, c) /\ Closes(f6 \o Removal)
  BY <1>8, <1>10, RemovalPart, PreparedOn, ClosesOn
<1> QED BY <1>9, <1>11

\* What the step number says of the step: in prepare it is one of prepare, later none of them, and only
\* the last one ends the script.
LEMMA CurrentMeans ==
  ASSUME case \in Cases, step \in Nat
  PROVE  /\ PrepLen(case) \in {1, 4} /\ (PrepLen(case) = 4 <=> case = "replacement")
         /\ step \in 1..PrepLen(case) =>
               /\ step + 1 \in DOMAIN Scripts[case]
               /\ (step = PrepLen(case) <=> Current.op = "start")
               /\ Current.op \in {"probe", "clear", "start"}
               /\ Current.op = "probe" => case = "replacement" /\ step \in {1, 2}
               /\ Current.op = "clear" => case = "replacement" /\ step = 3
         /\ (step \in DOMAIN Scripts[case] /\ step > PrepLen(case)) =>
               /\ Current.op \in LaterOps
               /\ Current.op # "finish" => step + 1 \in DOMAIN Scripts[case]
<1>1. PICK s : s = Scripts[case]
  OBVIOUS
<1>2. Prepared(s, case) /\ Closes(s)
  BY <1>1, ScriptMeans DEF Scripts
<1>3. PICK n \in Nat : n = Len(s) /\ DOMAIN s = 1..n /\ n >= PrepLen(case)
  BY <1>2 DEF Prepared
<1>4. PrepLen(case) \in {1, 4} /\ (PrepLen(case) = 4 <=> case = "replacement")
  BY DEF PrepLen
<1>5. Current.op = s[step].op
  BY <1>1 DEF Current
<1>6. s[n].op = "finish"
  BY <1>2, <1>3 DEF Closes
<1>7. /\ case = "replacement" =>
          s[1].op = "probe" /\ s[2].op = "probe" /\ s[3].op = "clear" /\ s[4].op = "start"
      /\ case # "replacement" => s[1].op = "start"
      /\ \A i \in DOMAIN s : i > PrepLen(case) => s[i].op \in LaterOps
  BY <1>2 DEF Prepared
<1>8. n > PrepLen(case)
  BY <1>3, <1>4, <1>6, <1>7
<1>9. ASSUME step \in 1..PrepLen(case)
      PROVE  /\ step + 1 \in DOMAIN s
             /\ (step = PrepLen(case) <=> s[step].op = "start")
             /\ s[step].op \in {"probe", "clear", "start"}
             /\ s[step].op = "probe" => case = "replacement" /\ step \in {1, 2}
             /\ s[step].op = "clear" => case = "replacement" /\ step = 3
  <2>1. step + 1 \in DOMAIN s
    BY <1>3, <1>4, <1>8, <1>9
  <2>2. CASE case = "replacement"
    <3>1. step = 1 \/ step = 2 \/ step = 3 \/ step = 4
      BY <1>4, <1>9, <2>2
    <3> QED BY <1>4, <1>7, <2>1, <2>2, <3>1
  <2>3. CASE case # "replacement"
    <3>1. step = 1 /\ PrepLen(case) = 1
      BY <1>4, <1>9, <2>3
    <3> QED BY <1>7, <2>1, <2>3, <3>1
  <2> QED BY <2>2, <2>3
<1>10. ASSUME step \in DOMAIN s, step > PrepLen(case)
       PROVE  s[step].op \in LaterOps /\ (s[step].op # "finish" => step + 1 \in DOMAIN s)
  <2>1. s[step].op \in LaterOps
    BY <1>7, <1>10
  <2>2. s[step].op # "finish" => step # n
    BY <1>6
  <2> QED BY <1>3, <1>10, <2>1, <2>2
<1> QED BY <1>1, <1>4, <1>5, <1>9, <1>10

(*****************************************************************************)
(* Where the runner goes                                                     *)
(*****************************************************************************)

\* No two launches of the plan have one label, and each is of an app or a command.
LEMMA PlanLabels ==
  /\ DOMAIN LaunchPlan = 1..13 /\ Len(LaunchPlan) = 13
  /\ \A k \in 1..13 : LaunchPlan[k][1] \in {"commands", "native"}
  /\ \A k, l \in 1..13 : LaunchPlan[k][2] = LaunchPlan[l][2] => k = l
<1>1. DOMAIN LaunchPlan = 1..13 /\ Len(LaunchPlan) = 13
  BY DEF LaunchPlan
<1>2. /\ LaunchPlan[1] = <<"commands", "marketplace-add", "source">>
      /\ LaunchPlan[2] = <<"commands", "package-add", "source">>
      /\ LaunchPlan[3] = <<"native", "discovery", "source">>
      /\ LaunchPlan[4] = <<"native", "end-enabled", "source">>
      /\ LaunchPlan[5] = <<"native", "end-disabled", "source">>
      /\ LaunchPlan[6] = <<"native", "interrupted", "source">>
      /\ LaunchPlan[7] = <<"native", "resumed", "replacement">>
      /\ LaunchPlan[8] = <<"native", "restored-exposure", "replacement">>
      /\ LaunchPlan[9] = <<"commands", "invalid-candidate", "replacement">>
      /\ LaunchPlan[10] = <<"commands", "healthy-retry", "replacement">>
      /\ LaunchPlan[11] = <<"commands", "package-remove", "replacement">>
      /\ LaunchPlan[12] = <<"commands", "package-list-after-remove", "replacement">>
      /\ LaunchPlan[13] = <<"native", "after-remove", "replacement">>
  BY DEF LaunchPlan
<1>3. ASSUME NEW k \in 1..13
      PROVE  k = 1 \/ k = 2 \/ k = 3 \/ k = 4 \/ k = 5 \/ k = 6 \/ k = 7 \/ k = 8 \/ k = 9
             \/ k = 10 \/ k = 11 \/ k = 12 \/ k = 13
  OBVIOUS
<1>4. /\ LaunchPlan[1][2] = "marketplace-add" /\ LaunchPlan[2][2] = "package-add"
      /\ LaunchPlan[3][2] = "discovery" /\ LaunchPlan[4][2] = "end-enabled"
      /\ LaunchPlan[5][2] = "end-disabled" /\ LaunchPlan[6][2] = "interrupted"
      /\ LaunchPlan[7][2] = "resumed" /\ LaunchPlan[8][2] = "restored-exposure"
      /\ LaunchPlan[9][2] = "invalid-candidate" /\ LaunchPlan[10][2] = "healthy-retry"
      /\ LaunchPlan[11][2] = "package-remove" /\ LaunchPlan[12][2] = "package-list-after-remove"
      /\ LaunchPlan[13][2] = "after-remove"
  BY <1>2
<1>5. ASSUME NEW k \in 1..13, NEW l \in 1..13, LaunchPlan[k][2] = LaunchPlan[l][2] PROVE k = l
  BY <1>3, <1>4, <1>5
<1>6. ASSUME NEW k \in 1..13 PROVE LaunchPlan[k][1] \in {"commands", "native"}
  BY <1>2, <1>3
<1> QED BY <1>1, <1>5, <1>6

\* The step goes on to the next of the script.
LEMMA AdvanceControl ==
  ASSUME Types, Control, phase \in {"prepare", "run"},
         Current.op \notin {"start", "finish"}, Advance, case' = case
  PROVE  /\ Control' /\ step' \in Nat /\ phase' = phase
         /\ (phase = "prepare" /\ step' = PrepLen(case)) => Current.op = "clear"
<1>1. case \in Cases /\ step \in Nat
  BY DEF Types
<1>2. step' = step + 1 /\ at' = "idle" /\ phase' = phase /\ step' \in Nat
  BY <1>1 DEF Advance
<1>3. Scripts[case'] = Scripts[case]
  OBVIOUS
<1>4. CASE phase = "prepare"
  <2>1. step \in 1..PrepLen(case) /\ step # PrepLen(case)
    BY <1>1, <1>4, CurrentMeans DEF Control
  <2>2. step + 1 \in 1..PrepLen(case)
    BY <1>1, <2>1, CurrentMeans
  <2>3. Control'
    BY <1>2, <1>4, <2>2 DEF Control
  <2>4. step + 1 = PrepLen(case) => Current.op = "clear"
    <3>1. SUFFICES ASSUME step + 1 = PrepLen(case) PROVE Current.op = "clear"
      OBVIOUS
    <3>2. step = 3 /\ case = "replacement"
      BY <1>1, <2>1, <3>1, CurrentMeans
    <3> QED BY <1>1, <2>1, <3>2, CurrentMeans
  <2> QED BY <1>2, <1>4, <2>3, <2>4
<1>5. CASE phase = "run"
  <2>1. step \in DOMAIN Scripts[case] /\ step > PrepLen(case)
    BY <1>5 DEF Control
  <2>2. step + 1 \in DOMAIN Scripts[case]
    BY <1>1, <2>1, CurrentMeans
  <2>3. step + 1 > PrepLen(case)
    BY <1>1, <2>1, CurrentMeans
  <2>4. Control'
    BY <1>2, <1>3, <1>5, <2>2, <2>3 DEF Control
  <2> QED BY <1>2, <1>5, <2>4
<1> QED BY <1>4, <1>5

\* A failed step refuses a preparation and takes a run to its cleanup.
LEMMA RaiseControl ==
  ASSUME Types, Control, phase \in {"prepare", "run"}, Raise
  PROVE  /\ Control' /\ step' \in Nat
         /\ (phase = "prepare" /\ phase' = "refused") \/ (phase = "run" /\ phase' = "cleanup")
<1>1. step' = step
  BY DEF Raise
<1>2. CASE phase = "prepare"
  BY <1>1, <1>2 DEF Raise, Control, Types
<1>3. CASE phase = "run"
  <2>1. phase' = "cleanup" /\ at' = "close"
    BY <1>3 DEF Raise
  <2> QED BY <1>1, <1>3, <2>1 DEF Control, Types
<1> QED BY <1>2, <1>3

\* Whatever leaves the entries and what was decided about them alone.
LEMMA Kept ==
  ASSUME IInv, StillThere, UNCHANGED <<case, role, ledger, roots>>, Control', step' \in Nat,
         at = "save" => at' = "save",
         phase' \in {"prepare", "refused"} => phase \in {"prepare", "refused"},
         (phase' = "prepare" /\ step' = PrepLen(case)) =>
             (phase = "prepare" /\ step = PrepLen(case))
             \/ \A i \in DOMAIN invoked : ~InScope(invoked[i]),
         phase' \notin {"prepare", "refused"} =>
             phase \notin {"prepare", "refused"} \/ \A i \in DOMAIN invoked : ~InScope(invoked[i]),
         phase' \in {"prepare", "run"} => phase \in {"prepare", "run"}
  PROVE  IInv'
<1>1. /\ DOMAIN invoked' = DOMAIN invoked
      /\ \A i \in DOMAIN invoked :
            /\ EntryOK(invoked'[i])
            /\ invoked'[i].area = invoked[i].area /\ invoked'[i].label = invoked[i].label
            /\ invoked'[i].role = invoked[i].role
            /\ InScope(invoked'[i]) => InScope(invoked[i])
  BY DEF StillThere, Follows
<1>2. \A i \in DOMAIN invoked : HostOf(invoked'[i]) <=> HostOf(invoked[i])
  BY <1>1 DEF HostOf
<1>3. Types'
  BY <1>1 DEF IInv, Types, StillThere
<1>4. ProbesEnded'
  <2>1. phase' \in {"prepare", "refused"} => \A i \in DOMAIN invoked' : invoked'[i].area = "probes"
    BY <1>1 DEF IInv, ProbesEnded
  <2>2. (phase' = "prepare" /\ step' = PrepLen(case)) => \A i \in DOMAIN invoked' : ~InScope(invoked'[i])
    BY <1>1 DEF IInv, ProbesEnded
  <2>3. phase' \notin {"prepare", "refused"} =>
          \A i \in DOMAIN invoked' : invoked'[i].area = "probes" => ~InScope(invoked'[i])
    BY <1>1 DEF IInv, ProbesEnded
  <2> QED BY <2>1, <2>2, <2>3 DEF ProbesEnded
<1>5. RootsLast'
  BY <1>1 DEF IInv, RootsLast
<1>6. Planned'
  BY <1>1, <1>2 DEF IInv, Planned
<1>7. SourceEnded'
  BY <1>1, <1>2 DEF IInv, SourceEnded
<1> QED BY <1>3, <1>4, <1>5, <1>6, <1>7 DEF IInv

\* The runner waits or works at the same step of the script.
LEMMA SameControl ==
  ASSUME Control, UNCHANGED <<case, phase, step>>,
         phase \in {"prepare", "run"} => at' \in {"idle", "work", "grace", "drain"},
         phase = "refused" => at' = "idle",
         phase \in {"done", "inspected"} => at' = "save",
         phase = "prepare" /\ at' # "idle" => case = "replacement" /\ step \in {1, 2},
         phase = "run" /\ at' # "idle" => Current.op \in {"cli", "helper", "close"}
  PROVE  Control'
<1>1. Current' = Current /\ Scripts[case'] = Scripts[case]
  BY DEF Current
<1> QED BY <1>1 DEF Control

(*****************************************************************************)
(* Steps that leave the entries and the ledger alone                         *)
(*****************************************************************************)

\* A failed step that leaves the entries alone keeps the invariant.
LEMMA RaiseKept ==
  ASSUME IInv, StillThere, UNCHANGED <<case, role, ledger, roots>>,
         phase \in {"prepare", "run"}, Raise
  PROVE  IInv'
<1>1. at # "save"
  BY DEF IInv, Control
<1>2. /\ Control' /\ step' \in Nat
      /\ (phase = "prepare" /\ phase' = "refused") \/ (phase = "run" /\ phase' = "cleanup")
  BY RaiseControl DEF IInv
<1> QED BY <1>1, <1>2, Kept

\* So does a step that is done, if the probes are at their end when their roots are cleared.
LEMMA AdvanceKept ==
  ASSUME IInv, StillThere, UNCHANGED <<case, role, ledger, roots>>,
         phase \in {"prepare", "run"}, Advance, Current.op \notin {"start", "finish"},
         Current.op = "clear" => \A i \in DOMAIN invoked : ~InScope(invoked[i])
  PROVE  IInv'
<1>1. at # "save"
  BY DEF IInv, Control
<1>2. /\ Control' /\ step' \in Nat /\ phase' = phase
      /\ (phase = "prepare" /\ step' = PrepLen(case)) => Current.op = "clear"
  BY AdvanceControl DEF IInv
<1> QED BY <1>1, <1>2, Kept

\* So does waiting within a step.
LEMMA SameKept ==
  ASSUME IInv, StillThere, UNCHANGED <<case, role, ledger, roots, phase, step>>,
         at = "save" => at' = "save",
         phase \in {"prepare", "run"} => at' \in {"idle", "work", "grace", "drain"},
         phase = "refused" => at' = "idle",
         phase \in {"done", "inspected"} => at' = "save",
         phase = "prepare" /\ at' # "idle" => case = "replacement" /\ step \in {1, 2},
         phase = "run" /\ at' # "idle" => Current.op \in {"cli", "helper", "close"}
  PROVE  IInv'
<1>1. Control'
  BY SameControl DEF IInv
<1>2. step' \in Nat
  BY DEF IInv, Types
<1> QED BY <1>1, <1>2, Kept

\* So does a step of the cleanup or the inspection that leaves the roots alone.
LEMMA CleanupKept ==
  ASSUME IInv, StillThere, UNCHANGED <<case, role, ledger, roots, step>>,
         phase \in {"cleanup", "done", "inspected"}, phase' \in {"cleanup", "done", "inspected"},
         phase' # "cleanup" => at' = "save", at = "save" => at' = "save"
  PROVE  IInv'
<1>1. Control'
  BY DEF Control
<1>2. step' \in Nat
  BY DEF IInv, Types
<1> QED BY <1>1, <1>2, Kept

\* At a step of the script.
LEMMA AtMeans ==
  ASSUME IInv, NEW op, At(op)
  PROVE  /\ phase \in {"prepare", "run"} /\ at = "idle" /\ Current.op = op
         /\ roots = OwnedRoots
         /\ op \notin {"probe", "clear", "start"} => phase = "run"
         /\ op \in {"probe", "clear", "start"} => phase = "prepare"
         /\ op = "probe" => case = "replacement" /\ step \in {1, 2}
         /\ (phase = "prepare" /\ step = PrepLen(case)) <=> op = "start"
<1>1. phase \in {"prepare", "run"} /\ at = "idle" /\ Current.op = op
  BY DEF At
<1>2. roots = OwnedRoots
  BY <1>1 DEF IInv, RootsLast
<1>3. case \in Cases /\ step \in Nat
  BY DEF IInv, Types
<1>4. CASE phase = "prepare"
  <2>1. step \in 1..PrepLen(case)
    BY <1>4 DEF IInv, Control
  <2> QED BY <1>1, <1>2, <1>3, <1>4, <2>1, CurrentMeans
<1>5. CASE phase = "run"
  <2>1. step \in DOMAIN Scripts[case] /\ step > PrepLen(case)
    BY <1>5 DEF IInv, Control
  <2>2. op \in LaterOps
    BY <1>1, <1>3, <2>1, CurrentMeans
  <2> QED BY <1>1, <1>2, <1>5, <2>2 DEF LaterOps
<1> QED BY <1>1, <1>4, <1>5

\* A launch refused before its directory exists.
LEMMA AbandonedKeeps == ASSUME IInv, LaunchRefused PROVE IInv'
<1>1. StillThere
  BY NoneChanges DEF LaunchRefused, IInv
<1>2. phase \in {"prepare", "run"}
  BY DEF LaunchRefused, Launching, At
<1> QED BY <1>1, <1>2, RaiseKept DEF LaunchRefused

\* A request that fails.
LEMMA RefusedKeeps == ASSUME IInv, Refused PROVE IInv'
<1>1. StillThere
  BY NoneChanges DEF Refused, Steps, IInv
<1>2. phase \in {"prepare", "run"}
  BY DEF Refused, At
<1> QED BY <1>1, <1>2, RaiseKept DEF Refused, Steps

\* The steps with the host that start and end nothing.
LEMMA HostStepsKeep ==
  ASSUME IInv, Turn \/ Interrupt \/ Resume \/ Contrast \/ Check \/ SettingsShot \/ StateBefore
  PROVE  IInv'
<1>1. StillThere
  BY NoneChanges DEF IInv, Steps, Turn, Interrupt, Resume, Contrast, Check, SettingsShot, StateBefore
<1>2. UNCHANGED <<case, role, ledger, roots>>
  BY DEF Steps, Turn, Interrupt, Resume, Contrast, Check, SettingsShot, StateBefore
<1>3. /\ \E op \in {"turn", "interrupt", "resume", "contrast", "check", "shot", "mark"} : At(op)
      /\ Advance \/ Raise
  BY DEF Turn, Interrupt, Resume, Contrast, Check, SettingsShot, StateBefore
<1>4. phase \in {"prepare", "run"} /\ Current.op \notin {"start", "finish", "clear"}
  BY <1>3 DEF At
<1> QED BY <1>1, <1>2, <1>3, <1>4, AdvanceKept, RaiseKept

\* The roots of the probes are cleared on the records of their release.
LEMMA ClearKeeps == ASSUME IInv, ClearProbeRoots PROVE IInv'
<1>1. StillThere /\ UNCHANGED <<case, role, ledger, roots>>
  BY NoneChanges DEF IInv, Steps, ClearProbeRoots
<1>2. phase \in {"prepare", "run"} /\ Current.op = "clear"
  BY DEF ClearProbeRoots, At
<1>3. CASE Raise
  BY <1>1, <1>2, <1>3, RaiseKept
<1>4. CASE Advance /\ \A i \in DOMAIN invoked : RecordReleased(invoked[i].record)
  <2>1. \A i \in DOMAIN invoked : ~InScope(invoked[i])
    BY <1>4 DEF IInv, Types, EntryOK
  <2> QED BY <1>1, <1>2, <1>4, <2>1, AdvanceKept
<1> QED BY <1>3, <1>4 DEF ClearProbeRoots

\* The run starts when no probe runs.
LEMMA StartKeeps == ASSUME IInv, Start PROVE IInv'
<1>1. StillThere /\ UNCHANGED <<case, role, ledger, roots>>
  BY NoneChanges DEF IInv, Steps, Start
<1>2. At("start")
  BY DEF Start
<1>3. phase = "prepare" /\ step = PrepLen(case) /\ at = "idle"
  BY <1>2, AtMeans
<1>4. CASE Raise
  BY <1>1, <1>3, <1>4, RaiseKept
<1>5. CASE phase' = "run" /\ step' = step + 1 /\ UNCHANGED <<at, result>>
  <2>1. case \in Cases /\ step \in Nat /\ step \in 1..PrepLen(case)
    BY <1>3 DEF IInv, Types, Control
  <2>2. step + 1 \in DOMAIN Scripts[case]
    BY <2>1, CurrentMeans
  <2>3. step' \in Nat /\ step' > PrepLen(case) /\ Scripts[case'] = Scripts[case]
    BY <1>1, <1>3, <1>5, <2>1
  <2>4. Control'
    BY <1>1, <1>3, <1>5, <2>2, <2>3 DEF Control
  <2>5. \A i \in DOMAIN invoked : ~InScope(invoked[i])
    BY <1>3 DEF IInv, ProbesEnded
  <2> QED BY <1>1, <1>3, <1>5, <2>3, <2>4, <2>5, Kept
<1> QED BY <1>4, <1>5 DEF Start

\* The end of the script.
LEMMA FinishKeeps == ASSUME IInv, Finish PROVE IInv'
<1>1. StillThere /\ UNCHANGED <<case, role, ledger, roots>>
  BY NoneChanges DEF IInv, Steps, Finish
<1>2. At("finish")
  BY DEF Finish
<1>3. phase = "run" /\ at = "idle"
  BY <1>2, AtMeans
<1>4. CASE Raise
  BY <1>1, <1>3, <1>4, RaiseKept
<1>5. CASE phase' = "cleanup" /\ at' = "close" /\ UNCHANGED step
  <2>1. Control'
    BY <1>5 DEF Control
  <2>2. step' \in Nat
    BY <1>5 DEF IInv, Types
  <2> QED BY <1>1, <1>3, <1>5, <2>1, <2>2, Kept
<1> QED BY <1>4, <1>5 DEF Finish

\* The app is asked to end.
LEMMA CloseAppKeeps == ASSUME IInv, CloseApp PROVE IInv'
<1>1. UNCHANGED <<case, role, ledger, roots, phase, step>> /\ at' = "grace"
  BY DEF CloseApp
<1>2. At("close")
  BY DEF CloseApp
<1>3. phase = "run" /\ Current.op = "close" /\ at = "idle"
  BY <1>2, AtMeans
<1>4. StillThere
  <2>1. PICK v : v = [invoked[app] EXCEPT !.eof = TRUE]
    OBVIOUS
  <2>2. invoked' = [invoked EXCEPT ![app] = v]
    BY <2>1 DEF CloseApp
  <2>3. app \in DOMAIN invoked => Follows(v, invoked[app])
    BY <2>1, NotedFollows DEF IInv, Types
  <2> QED BY <2>2, <2>3, OneChanges DEF IInv
<1> QED BY <1>1, <1>3, <1>4, SameKept

\* The runner waits for a process, and time passes.
LEMMA WaitKeeps == ASSUME IInv, WorkEnds \/ Tick PROVE IInv'
<1>1. StillThere /\ UNCHANGED <<case, role, ledger, roots, phase, step>>
  BY NoneChanges DEF IInv, WorkEnds, Tick, Runner
<1>2. at \in {"work", "grace", "drain"} /\ at' \in {"work", "grace", "drain"}
  BY DEF WorkEnds, Tick, Releasing
<1> QED BY <1>1, <1>2, SameKept DEF IInv, Control

\* A command changes the paused task.
LEMMA StrayKeeps == ASSUME IInv, HostStrays PROVE IInv'
<1>1. StillThere /\ UNCHANGED <<case, role, ledger, roots, phase, step, at>>
  BY NoneChanges DEF IInv, HostStrays, Steps
<1> QED BY <1>1, SameKept DEF IInv, Control

\* A deadline passes, and the group is killed.
LEMMA StopKeeps == ASSUME IInv, WorkTimeout \/ ForceOwned PROVE IInv'
<1>1. UNCHANGED <<case, role, ledger, roots, phase, step>>
  BY DEF WorkTimeout, ForceOwned, Runner
<1>2. at \in {"work", "grace", "drain"} /\ at' \in {"work", "grace", "drain"}
  BY DEF WorkTimeout, ForceOwned
<1>3. StillThere
  <2>1. PICK k : k = Busy
    OBVIOUS
  <2>2. PICK d : d = Killed(invoked[k])
    OBVIOUS
  <2>3. PICK f : f = [d EXCEPT !.failure = TRUE]
    OBVIOUS
  <2>4. k \in DOMAIN invoked => Follows(d, invoked[k]) /\ Follows(f, invoked[k])
    <3>1. SUFFICES ASSUME k \in DOMAIN invoked PROVE Follows(d, invoked[k]) /\ Follows(f, invoked[k])
      OBVIOUS
    <3>2. Follows(d, invoked[k])
      BY <2>2, <3>1, KilledFollows DEF IInv, Types
    <3>3. Follows(f, d)
      BY <2>3, <3>2, NotedFollows DEF Follows
    <3> QED BY <3>2, <3>3 DEF Follows
  <2>5. CASE WorkTimeout
    <3>1. invoked' = [invoked EXCEPT ![k] = f]
      BY <2>1, <2>2, <2>3, <2>5 DEF WorkTimeout
    <3> QED BY <2>4, <3>1, OneChanges DEF IInv
  <2>6. CASE ForceOwned
    <3>1. invoked' = [invoked EXCEPT ![k] = d]
      BY <2>1, <2>2, <2>6 DEF ForceOwned
    <3> QED BY <2>4, <3>1, OneChanges DEF IInv
  <2> QED BY <2>5, <2>6
<1> QED BY <1>1, <1>2, <1>3, SameKept DEF IInv, Control

\* A process or its kin end by themselves.
LEMMA EndKeeps == ASSUME IInv, NEW k \in DOMAIN invoked, ProcessEnds(k) PROVE IInv'
<1>1. UNCHANGED <<case, role, ledger, roots, phase, step, at>>
  BY DEF ProcessEnds, Runner
<1>2. EntryOK(invoked[k])
  BY DEF IInv, Types
<1>3. StillThere
  <2>1. CASE Ends(invoked[k]) /\ invoked' = [invoked EXCEPT ![k] = Ended(@)]
    <3>1. invoked' = [invoked EXCEPT ![k] = Ended(invoked[k])]
      BY <2>1
    <3>2. Follows(Ended(invoked[k]), invoked[k])
      BY <1>2, <2>1, EndedFollows
    <3> QED BY <3>1, <3>2, OneChanges DEF IInv
  <2>2. CASE KinEnd(invoked[k]) /\ invoked' = [invoked EXCEPT ![k] = WithoutKin(@)]
    <3>1. invoked' = [invoked EXCEPT ![k] = WithoutKin(invoked[k])]
      BY <2>2
    <3>2. Follows(WithoutKin(invoked[k]), invoked[k])
      BY <1>2, <2>2, KinFollows
    <3> QED BY <3>1, <3>2, OneChanges DEF IInv
  <2>3. CASE invoked[k].stray /\ invoked' = [invoked EXCEPT ![k] = WithoutStray(@)]
    <3>1. invoked' = [invoked EXCEPT ![k] = WithoutStray(invoked[k])]
      BY <2>3
    <3>2. Follows(WithoutStray(invoked[k]), invoked[k])
      BY <1>2, StrayFollows
    <3> QED BY <3>1, <3>2, OneChanges DEF IInv
  <2> QED BY <2>1, <2>2, <2>3 DEF ProcessEnds
<1> QED BY <1>1, <1>3, SameKept DEF IInv, Control

(*****************************************************************************)
(* Records and launches                                                      *)
(*****************************************************************************)

\* A record is written that claims a release only of what does not run.
LEMMA RecordedFollows ==
  ASSUME NEW e, EntryOK(e), NEW r, RecordReleased(r) => ~InScope(e), NEW v
  PROVE  Follows([e EXCEPT !.record = r, !.replied = v], e)
<1>1. PICK d : d = [e EXCEPT !.record = r, !.replied = v]
  OBVIOUS
<1>2. DOMAIN e = EntryFields
  BY DEF EntryOK
<1>3. /\ DOMAIN d = EntryFields
      /\ d.area = e.area /\ d.label = e.label /\ d.role = e.role /\ d.record = r
      /\ d.root = e.root /\ d.kin = e.kin /\ d.stray = e.stray /\ d.attached = e.attached /\ d.fate = e.fate
  BY <1>1, <1>2 DEF EntryFields
<1>4. InScope(d) <=> InScope(e)
  BY <1>3 DEF InScope, HoldsOutput
<1> QED BY <1>1, <1>3, <1>4 DEF EntryOK, Follows

\* The record of an invocation is saved and judged.
LEMMA SaveKeeps == ASSUME IInv, SaveRecord PROVE IInv'
<1>1. UNCHANGED <<case, role, ledger, roots>> /\ at \in {"grace", "drain"}
  BY DEF SaveRecord, Releasing
<1>2. StillThere
  <2>1. PICK k : k = Busy
    OBVIOUS
  <2>2. PICK rel : rel = IF at = "grace" THEN AfterGrace ELSE release
    OBVIOUS
  <2>3. PICK r : r = IF invoked[k].fate = "disk" THEN Missing
                     ELSE ResourceRecord(invoked[k], rel.forced, rel.graceAt, rel.graceReleased, release.clock)
    OBVIOUS
  <2>4. PICK b : b = (invoked[k].area = "helpers")
    OBVIOUS
  <2>5. invoked' = [invoked EXCEPT ![k].record = r, ![k].replied = b]
    BY <2>1, <2>2, <2>3, <2>4 DEF SaveRecord, Process
  <2>6. PICK w : w = [invoked[k] EXCEPT !.record = r, !.replied = b]
    OBVIOUS
  <2>7. invoked' = [invoked EXCEPT ![k] = w]
    BY <2>5, <2>6
  <2>8. k \in DOMAIN invoked => Follows(w, invoked[k])
    <3>1. SUFFICES ASSUME k \in DOMAIN invoked PROVE Follows(w, invoked[k])
      OBVIOUS
    <3>2. EntryOK(invoked[k])
      BY <3>1 DEF IInv, Types
    <3>3. RecordReleased(r) => ~InScope(invoked[k])
      <4>1. ~RecordReleased(Missing)
        BY DEF RecordReleased
      <4> QED BY <2>3, <4>1, RecordMeans
    <3> QED BY <2>6, <3>2, <3>3, RecordedFollows
  <2> QED BY <2>7, <2>8, OneChanges DEF IInv
<1>3. CASE phase = "cleanup" /\ at' = "fixture" /\ UNCHANGED <<phase, step>>
  BY <1>1, <1>2, <1>3, CleanupKept
<1>4. CASE phase # "cleanup" /\ (Raise \/ Advance)
  <2>1. phase \in {"prepare", "run"}
    BY <1>1, <1>4 DEF IInv, Control
  <2>2. Current.op \notin {"start", "finish", "clear"}
    <3>1. case \in Cases /\ step \in Nat
      BY DEF IInv, Types
    <3>2. CASE phase = "run"
      BY <1>1, <3>2 DEF IInv, Control
    <3>3. CASE phase = "prepare"
      <4>1. case = "replacement" /\ step \in {1, 2} /\ step \in 1..PrepLen(case)
        BY <1>1, <3>3 DEF IInv, Control
      <4>2. PrepLen(case) = 4
        BY <3>1, <4>1, CurrentMeans
      <4>3. Current.op # "start"
        BY <3>1, <4>1, <4>2, CurrentMeans
      <4>4. Current.op # "clear"
        BY <3>1, <4>1, CurrentMeans
      <4>5. Current.op \in {"probe", "clear", "start"}
        BY <3>1, <4>1, CurrentMeans
      <4> QED BY <4>3, <4>4, <4>5
    <3> QED BY <2>1, <3>2, <3>3
  <2> QED BY <1>1, <1>2, <1>4, <2>1, <2>2, AdvanceKept, RaiseKept
<1> QED BY <1>3, <1>4 DEF SaveRecord

\* One more invocation, of the role and in the area of its step.
LEMMA AddedKept ==
  ASSUME IInv, NEW e, EntryOK(e), invoked' = Append(invoked, e), UNCHANGED <<case, role, roots>>,
         phase \in {"prepare", "run"}, at = "idle",
         e.area = "probes" <=> phase = "prepare", e.area # "probes" => e.role = role,
         ~(phase = "prepare" /\ step = PrepLen(case)),
         Control', step' \in Nat,
         \/ /\ phase' = phase
            /\ ~(phase' = "prepare" /\ step' = PrepLen(case))
            /\ (case = "replacement" /\ HostOf(e)) =>
                  /\ Len(ledger) < Len(LaunchPlan)
                  /\ LaunchPlan[Len(ledger) + 1] = <<e.area, e.label, role>>
                  /\ ledger' = Append(ledger, <<e.area, e.label, role>>)
            /\ ~(case = "replacement" /\ HostOf(e)) => ledger' = ledger
         \/ phase = "prepare" /\ phase' = "refused"
         \/ phase = "run" /\ phase' = "cleanup"
  PROVE  IInv'
<1>1. PICK n \in Nat :
            /\ DOMAIN invoked = 1..n /\ DOMAIN invoked' = 1..(n + 1)
            /\ \A i \in 1..n : invoked'[i] = invoked[i]
            /\ invoked'[n + 1] = e /\ invoked' \in Seq(Entries')
            /\ \A i \in 1..(n + 1) : i \in 1..n \/ i = n + 1
  BY OneMore DEF IInv
<1>2. Types'
  BY <1>1 DEF IInv, Types
<1>3. roots = OwnedRoots
  BY DEF IInv, RootsLast
<1>4. RootsLast'
  BY <1>3 DEF RootsLast
<1>5. ProbesEnded'
  <2>1. phase' \in {"prepare", "refused"} => \A i \in DOMAIN invoked' : invoked'[i].area = "probes"
    BY <1>1 DEF IInv, ProbesEnded
  <2>2. ~(phase' = "prepare" /\ step' = PrepLen(case'))
    OBVIOUS
  <2>3. phase' \notin {"prepare", "refused"} =>
          \A i \in DOMAIN invoked' : invoked'[i].area = "probes" => ~InScope(invoked'[i])
    BY <1>1 DEF IInv, ProbesEnded
  <2> QED BY <2>1, <2>2, <2>3 DEF ProbesEnded
<1>6. SourceEnded'
  <2>1. role \in Roles
    BY DEF IInv, Types
  <2>2. HostOf(e) => e.area # "probes"
    BY DEF HostOf
  <2>3. role = "source" =>
          \A j \in DOMAIN invoked' : invoked'[j].role = "replacement" => invoked'[j].area = "probes"
    BY <1>1 DEF IInv, SourceEnded
  <2>4. (role = "replacement" /\ case = "replacement") =>
          \A i \in DOMAIN invoked' : HostOf(invoked'[i]) /\ invoked'[i].role = "source" => ~InScope(invoked'[i])
    BY <1>1, <2>2 DEF IInv, SourceEnded
  <2> QED BY <2>3, <2>4 DEF SourceEnded
<1>7. Planned'
  <2>1. SUFFICES ASSUME case = "replacement", phase' \in {"prepare", "run"}
        PROVE  /\ ledger' \in Seq(Rows) /\ Len(ledger') <= Len(LaunchPlan)
               /\ \A k \in DOMAIN ledger' : ledger'[k] = LaunchPlan[k]
               /\ \A i \in DOMAIN invoked' : HostOf(invoked'[i]) =>
                     \E k \in DOMAIN ledger' :
                        ledger'[k][1] = invoked'[i].area /\ ledger'[k][2] = invoked'[i].label
               /\ \A i, j \in DOMAIN invoked' :
                     (HostOf(invoked'[i]) /\ HostOf(invoked'[j]) /\ invoked'[i].label = invoked'[j].label) => i = j
    BY DEF Planned
  <2>2. phase' = phase
    BY <2>1
  <2>3. /\ ledger \in Seq(Rows) /\ Len(ledger) <= Len(LaunchPlan)
        /\ \A k \in DOMAIN ledger : ledger[k] = LaunchPlan[k]
        /\ \A i \in DOMAIN invoked : HostOf(invoked[i]) =>
              \E k \in DOMAIN ledger :
                 ledger[k][1] = invoked[i].area /\ ledger[k][2] = invoked[i].label
        /\ \A i, j \in DOMAIN invoked :
              (HostOf(invoked[i]) /\ HostOf(invoked[j]) /\ invoked[i].label = invoked[j].label) => i = j
    BY <2>1 DEF IInv, Planned
  <2>4. CASE HostOf(e)
    <3>1. PICK m \in Nat : m = Len(ledger) /\ DOMAIN ledger = 1..m /\ m + 1 \in 1..13
      BY <2>1, <2>2, <2>3, <2>4, PlanLabels
    <3>2. LaunchPlan[m + 1] = <<e.area, e.label, role>> /\ ledger' = Append(ledger, LaunchPlan[m + 1])
      BY <2>1, <2>2, <2>4, <3>1
    <3>3. LaunchPlan[m + 1] \in Rows
      BY <3>1, PlanLabels DEF Rows
    <3>4. /\ ledger' \in Seq(Rows) /\ Len(ledger') = m + 1 /\ DOMAIN ledger' = 1..(m + 1)
          /\ \A k \in 1..m : ledger'[k] = ledger[k]
          /\ ledger'[m + 1] = LaunchPlan[m + 1]
      BY <2>3, <3>1, <3>2, <3>3
    <3>5. \A k \in DOMAIN ledger' : ledger'[k] = LaunchPlan[k]
      BY <2>3, <3>1, <3>4
    <3>6. \A i \in 1..n : HostOf(invoked[i]) =>
             \E k \in 1..m : LaunchPlan[k][1] = invoked[i].area /\ LaunchPlan[k][2] = invoked[i].label
      <4>1. SUFFICES ASSUME NEW i \in 1..n, HostOf(invoked[i])
            PROVE  \E k \in 1..m : LaunchPlan[k][1] = invoked[i].area /\ LaunchPlan[k][2] = invoked[i].label
        OBVIOUS
      <4>2. PICK k \in DOMAIN ledger : ledger[k][1] = invoked[i].area /\ ledger[k][2] = invoked[i].label
        BY <1>1, <2>3, <4>1
      <4>3. ledger[k] = LaunchPlan[k] /\ k \in 1..m
        BY <2>3, <3>1
      <4> QED BY <4>2, <4>3
    <3>7. LaunchPlan[m + 1][1] = e.area /\ LaunchPlan[m + 1][2] = e.label
      BY <3>2
    <3>8. \A i \in DOMAIN invoked' : HostOf(invoked'[i]) =>
             \E k \in DOMAIN ledger' :
                ledger'[k][1] = invoked'[i].area /\ ledger'[k][2] = invoked'[i].label
      <4>1. SUFFICES ASSUME NEW i \in DOMAIN invoked', HostOf(invoked'[i])
            PROVE  \E k \in DOMAIN ledger' :
                      ledger'[k][1] = invoked'[i].area /\ ledger'[k][2] = invoked'[i].label
        OBVIOUS
      <4>2. \E k \in 1..(m + 1) :
               LaunchPlan[k][1] = invoked'[i].area /\ LaunchPlan[k][2] = invoked'[i].label
        <5>1. CASE i \in 1..n
          <6>1. invoked'[i] = invoked[i]
            BY <1>1, <5>1
          <6>2. PICK k \in 1..m : LaunchPlan[k][1] = invoked[i].area /\ LaunchPlan[k][2] = invoked[i].label
            BY <3>6, <4>1, <5>1, <6>1
          <6>3. k \in 1..(m + 1)
            OBVIOUS
          <6> QED BY <6>1, <6>2, <6>3
        <5>2. CASE i = n + 1
          <6>1. invoked'[i] = e /\ m + 1 \in 1..(m + 1)
            BY <1>1, <5>2
          <6> QED BY <3>7, <6>1
        <5> QED BY <1>1, <4>1, <5>1, <5>2
      <4>3. PICK k \in 1..(m + 1) :
               LaunchPlan[k][1] = invoked'[i].area /\ LaunchPlan[k][2] = invoked'[i].label
        BY <4>2
      <4>4. k \in DOMAIN ledger' /\ ledger'[k] = LaunchPlan[k]
        BY <3>4, <3>5
      <4> QED BY <4>3, <4>4
    <3>9. \A i \in 1..n : HostOf(invoked[i]) => invoked[i].label # e.label
      <4>1. SUFFICES ASSUME NEW i \in 1..n, HostOf(invoked[i]), invoked[i].label = e.label PROVE FALSE
        OBVIOUS
      <4>2. PICK k \in 1..m : LaunchPlan[k][2] = invoked[i].label
        BY <3>6, <4>1
      <4>3. k \in 1..13 /\ k # m + 1
        BY <3>1
      <4> QED BY <3>1, <3>7, <4>1, <4>2, <4>3, PlanLabels
    <3>10. \A i, j \in DOMAIN invoked' :
              (HostOf(invoked'[i]) /\ HostOf(invoked'[j]) /\ invoked'[i].label = invoked'[j].label) => i = j
      BY <1>1, <2>3, <3>9
    <3>11. Len(ledger') <= Len(LaunchPlan)
      BY <3>1, <3>4, PlanLabels
    <3> QED BY <3>4, <3>5, <3>8, <3>10, <3>11
  <2>5. CASE ~HostOf(e)
    <3>1. ledger' = ledger
      BY <2>1, <2>2, <2>5
    <3> QED BY <1>1, <2>3, <2>5, <3>1
  <2> QED BY <2>4, <2>5
<1> QED BY <1>2, <1>4, <1>5, <1>6, <1>7 DEF IInv

\* What is about to be invoked.
LEMMA LaunchingMeans ==
  ASSUME IInv, Launching
  PROVE  /\ phase \in {"prepare", "run"} /\ at = "idle" /\ Area \in Areas
         /\ Area = "probes" <=> phase = "prepare"
         /\ phase = "prepare" => case = "replacement" /\ step \in {1, 2}
         /\ ~(phase = "prepare" /\ step = PrepLen(case))
         /\ Current.op \in {"probe", "cli", "open", "helper"}
         /\ phase = "run" => Current.op # "probe"
         /\ Area = "native" <=> Current.op = "open"
         /\ EntryOK(Entry) /\ Entry.area = Area /\ Entry.label = Current.label
         /\ Entry.record = Missing
         /\ Area # "probes" => Entry.role = role
<1>1. PICK op \in {"probe", "cli", "open", "helper"} : At(op)
  BY DEF Launching
<1>2. /\ phase \in {"prepare", "run"} /\ at = "idle" /\ Current.op = op
      /\ op = "probe" <=> phase = "prepare"
      /\ op = "probe" => case = "replacement" /\ step \in {1, 2}
      /\ ~(phase = "prepare" /\ step = PrepLen(case))
  BY <1>1, AtMeans
<1>3. PICK a : a = Area
  OBVIOUS
<1>4. a \in Areas /\ (a = "probes" <=> op = "probe") /\ (a = "native" <=> op = "open")
  BY <1>2, <1>3 DEF Area, Areas
<1>5. PICK r : r = IF a = "probes" THEN Current.label ELSE role
  OBVIOUS
<1>6. Entry = Invocation(a, Current.label, r)
  BY <1>3, <1>5 DEF Entry
<1>7. EntryOK(Entry) /\ Entry.area = a /\ Entry.label = Current.label /\ Entry.role = r
  BY <1>4, <1>6, FreshEntry
<1>8. Entry.record = Missing
  BY <1>6 DEF Invocation
<1> QED BY <1>2, <1>3, <1>4, <1>5, <1>7, <1>8

\* A launch given up after its directory exists.
LEMMA LeftKeeps == ASSUME IInv, LaunchAbandoned PROVE IInv'
<1>1. Launching /\ Raise /\ invoked' = Append(invoked, Entry) /\ UNCHANGED <<case, role, roots>>
  BY DEF LaunchAbandoned
<1>2. /\ Control' /\ step' \in Nat
      /\ (phase = "prepare" /\ phase' = "refused") \/ (phase = "run" /\ phase' = "cleanup")
  BY <1>1, LaunchingMeans, RaiseControl DEF IInv
<1> QED BY <1>1, <1>2, LaunchingMeans, AddedKept

\* A launch: of an app, of a process that is waited for, or of one that could not be attached.
LEMMA LaunchKeeps == ASSUME IInv, NEW fate, Launch(fate) PROVE IInv'
<1>1. /\ Launching /\ LaunchAllowed /\ RecordHostLaunch /\ UNCHANGED <<case, role, roots>>
  BY DEF Launch
<1>2. PICK e : e = Started(Entry, fate)
  OBVIOUS
<1>3. /\ EntryOK(e) /\ e.area = Area /\ e.label = Current.label /\ e.role = Entry.role
      /\ e.record = Missing
  BY <1>1, <1>2, LaunchingMeans, StartedEntry
<1>4. HostLaunch <=> (case = "replacement" /\ HostOf(e))
  BY <1>3 DEF HostLaunch, HostOf
<1>5. /\ (case = "replacement" /\ HostOf(e)) =>
            /\ Len(ledger) < Len(LaunchPlan)
            /\ LaunchPlan[Len(ledger) + 1] = <<e.area, e.label, role>>
            /\ ledger' = Append(ledger, <<e.area, e.label, role>>)
      /\ ~(case = "replacement" /\ HostOf(e)) => ledger' = ledger
  BY <1>1, <1>3, <1>4 DEF LaunchAllowed, RecordHostLaunch
<1>6. ASSUME Area = "native", invoked' = Append(invoked, e), Advance PROVE IInv'
  <2>1. Current.op = "open" /\ phase = "run"
    BY <1>1, <1>6, LaunchingMeans
  <2>2. Control' /\ step' \in Nat /\ phase' = phase
    BY <1>1, <1>6, <2>1, AdvanceControl DEF IInv
  <2> QED BY <1>1, <1>3, <1>5, <1>6, <2>1, <2>2, LaunchingMeans, AddedKept
<1>7. ASSUME Area # "native", invoked' = Append(invoked, e), at' = "work", UNCHANGED <<phase, step>>
      PROVE  IInv'
  <2>1. Control'
    BY <1>1, <1>7, LaunchingMeans, SameControl DEF IInv
  <2>2. step' \in Nat
    BY <1>7 DEF IInv, Types
  <2> QED BY <1>1, <1>3, <1>5, <1>7, <2>1, <2>2, LaunchingMeans, AddedKept
<1>8. ASSUME ~e.attached, NEW r, NEW b, Raise, r = ResourceRecord(Killed(e), TRUE, "over", FALSE, "over"),
             invoked' = Append(invoked, [Killed(e) EXCEPT !.record = r, !.replied = b])
      PROVE  IInv'
  <2>1. PICK k : k = Killed(e)
    OBVIOUS
  <2>2. Follows(k, e) /\ k.attached = e.attached
    BY <1>3, <2>1, KilledFollows
  <2>3. ~RecordReleased(r)
    BY <1>8, <2>1, <2>2, RecordMeans
  <2>4. PICK d : d = [k EXCEPT !.record = r, !.replied = b]
    OBVIOUS
  <2>8. EntryOK(k) /\ k.area = e.area /\ k.label = e.label /\ k.role = e.role
    BY <2>2 DEF Follows
  <2>9. Follows(d, k)
    BY <2>3, <2>4, <2>8, RecordedFollows
  <2>5. EntryOK(d) /\ d.area = e.area /\ d.label = e.label /\ d.role = e.role
    BY <2>8, <2>9 DEF Follows
  <2>6. invoked' = Append(invoked, d)
    BY <1>8, <2>1, <2>4
  <2>7. /\ Control' /\ step' \in Nat
        /\ (phase = "prepare" /\ phase' = "refused") \/ (phase = "run" /\ phase' = "cleanup")
    BY <1>1, <1>8, LaunchingMeans, RaiseControl DEF IInv
  <2> QED BY <1>1, <1>3, <2>5, <2>6, <2>7, LaunchingMeans, AddedKept
<1>9. CASE ~e.attached
  <2>1. PICK r : r = ResourceRecord(Killed(e), TRUE, "over", FALSE, "over")
    OBVIOUS
  <2>2. PICK b : b = (Area = "helpers")
    OBVIOUS
  <2>3. Raise /\ invoked' = Append(invoked, [Killed(e) EXCEPT !.record = r, !.replied = b])
    BY <1>2, <1>9, <2>1, <2>2 DEF Launch
  <2> QED BY <1>8, <1>9, <2>1, <2>3
<1>10. CASE e.attached
  BY <1>2, <1>6, <1>7, <1>10 DEF Launch
<1> QED BY <1>9, <1>10

(*****************************************************************************)
(* Activation, cleanup, and the theorem                                      *)
(*****************************************************************************)

\* The replacement is activated when every launch in the ledger has its record of a release: each entry of
\* the source host is in the ledger under a label of its own, so none of them runs.
LEMMA ActivateKeeps == ASSUME IInv, ActivateReplacement PROVE IInv'
<1>1. At("activate") /\ UNCHANGED <<case, invoked, ledger, roots>>
  BY DEF ActivateReplacement
<1>2. phase = "run" /\ at = "idle" /\ Current.op = "activate" /\ roots = OwnedRoots
  BY <1>1, AtMeans
<1>3. StillThere
  BY <1>1, NoneChanges DEF IInv
<1>4. CASE Raise /\ role' = role
  BY <1>1, <1>2, <1>3, <1>4, RaiseKept
<1>5. ASSUME Advance, role' = "replacement", \A k \in DOMAIN ledger : RecordReleased(LaunchRecord(ledger[k]))
      PROVE  IInv'
  <2>1. Control' /\ step' \in Nat /\ phase' = phase
    BY <1>1, <1>2, <1>5, AdvanceControl DEF IInv
  <2>2. Types'
    <3>1. invoked' \in Seq(Entries')
      BY <1>3 DEF StillThere
    <3> QED BY <1>1, <1>5, <2>1, <3>1 DEF IInv, Types, Roles
  <2>3. ProbesEnded' /\ RootsLast' /\ Planned'
    <3>1. ProbesEnded'
      BY <1>1, <1>2, <2>1 DEF IInv, ProbesEnded
    <3>2. RootsLast'
      BY <1>1, <1>2 DEF RootsLast
    <3>3. Planned'
      BY <1>1, <2>1 DEF IInv, Planned
    <3> QED BY <3>1, <3>2, <3>3
  <2>4. ASSUME case = "replacement", NEW i \in DOMAIN invoked, HostOf(invoked[i])
        PROVE  ~InScope(invoked[i])
    <3>1. /\ \A k, l \in DOMAIN invoked :
                (HostOf(invoked[k]) /\ HostOf(invoked[l]) /\ invoked[k].label = invoked[l].label) => k = l
          /\ \E k \in DOMAIN ledger :
                ledger[k][1] = invoked[i].area /\ ledger[k][2] = invoked[i].label
      BY <1>2, <2>4 DEF IInv, Planned
    <3>2. PICK k \in DOMAIN ledger : ledger[k][1] = invoked[i].area /\ ledger[k][2] = invoked[i].label
      BY <3>1
    <3>3. PICK j : j = CHOOSE l \in DOMAIN invoked :
                          invoked[l].area = ledger[k][1] /\ invoked[l].label = ledger[k][2]
      OBVIOUS
    <3>4. j \in DOMAIN invoked /\ invoked[j].area = invoked[i].area /\ invoked[j].label = invoked[i].label
      BY <3>2, <3>3
    <3>5. j = i
      BY <2>4, <3>1, <3>4 DEF HostOf
    <3>6. LaunchRecord(ledger[k]) = invoked[i].record
      BY <3>3, <3>5 DEF LaunchRecord
    <3>7. RecordReleased(invoked[i].record)
      BY <1>5, <3>6
    <3> QED BY <3>7 DEF IInv, Types, EntryOK
  <2>5. SourceEnded'
    BY <1>1, <1>5, <2>4 DEF SourceEnded
  <2> QED BY <2>1, <2>2, <2>3, <2>5 DEF IInv
<1> QED BY <1>4, <1>5 DEF ActivateReplacement

\* The rest of the cleanup, the result and the inspection.
LEMMA ClosingKeeps ==
  ASSUME IInv, CloseRemaining \/ CloseFixture \/ SaveResult \/ Inspect PROVE IInv'
<1>1. UNCHANGED <<case, role, ledger, roots, step>>
  BY DEF CloseRemaining, CloseFixture, SaveResult, Inspect, Cleanup
<1>2. /\ phase \in {"cleanup", "done", "inspected"} /\ phase' \in {"cleanup", "done", "inspected"}
      /\ phase' # "cleanup" => at' = "save"
      /\ at = "save" => at' = "save"
  BY DEF CloseRemaining, CloseFixture, SaveResult, Inspect, Cleanup, IInv, Control
<1>3. StillThere
  <2>1. CASE invoked' = invoked
    BY <2>1, NoneChanges DEF IInv
  <2>2. CASE invoked' = [invoked EXCEPT ![app].eof = TRUE]
    <3>1. PICK v : v = [invoked[app] EXCEPT !.eof = TRUE]
      OBVIOUS
    <3>2. invoked' = [invoked EXCEPT ![app] = v]
      BY <2>2, <3>1
    <3>3. app \in DOMAIN invoked => Follows(v, invoked[app])
      BY <3>1, NotedFollows DEF IInv, Types
    <3> QED BY <3>2, <3>3, OneChanges DEF IInv
  <2> QED BY <2>1, <2>2 DEF CloseRemaining, CloseFixture, SaveResult, Inspect
<1> QED BY <1>1, <1>2, <1>3, CleanupKept

\* The roots are removed on the records of all invocations but the probes, which ended before the run.
LEMMA RemoveKeeps == ASSUME IInv, RemoveRoots PROVE IInv'
<1>1. /\ UNCHANGED <<case, role, ledger, step, phase, invoked>> /\ phase = "cleanup" /\ at' = "save"
      /\ at = "decide"
      /\ InvokedProcessesReleased(invoked) \/ roots' = roots
  BY DEF RemoveRoots, Cleanup
<1>2. roots = OwnedRoots
  BY <1>1 DEF IInv, RootsLast
<1>3. InvokedProcessesReleased(invoked) => \A i \in DOMAIN invoked : ~InScope(invoked[i])
  <2>1. SUFFICES ASSUME InvokedProcessesReleased(invoked), NEW i \in DOMAIN invoked
        PROVE  ~InScope(invoked[i])
    OBVIOUS
  <2>2. CASE invoked[i].area = "probes"
    BY <1>1, <2>2 DEF IInv, ProbesEnded
  <2>3. CASE invoked[i].area # "probes"
    <3>1. RecordReleased(invoked[i].record)
      BY <2>1, <2>3 DEF InvokedProcessesReleased
    <3> QED BY <3>1 DEF IInv, Types, EntryOK
  <2> QED BY <2>2, <2>3
<1>4. RootsLast'
  BY <1>1, <1>2, <1>3 DEF RootsLast
<1>5. Types'
  <2>1. StillThere
    BY <1>1, NoneChanges DEF IInv
  <2> QED BY <1>1, <2>1 DEF IInv, Types, StillThere
<1>6. Control'
  BY <1>1 DEF Control
<1>7. ProbesEnded' /\ Planned' /\ SourceEnded'
  BY <1>1 DEF IInv, ProbesEnded, Planned, SourceEnded
<1> QED BY <1>4, <1>5, <1>6, <1>7 DEF IInv

\* The prepared case satisfies the invariant.
LEMMA InitIInv == Init => IInv
<1> SUFFICES ASSUME Init PROVE IInv
  OBVIOUS
<1>1. PrepLen(case) \in {1, 4} /\ 1 \in 1..PrepLen(case)
  BY DEF PrepLen
<1>2. Types
  BY DEF Init, Types, Roles
<1>3. Control
  BY <1>1 DEF Init, Control
<1>4. ProbesEnded /\ RootsLast /\ SourceEnded
  BY DEF Init, ProbesEnded, RootsLast, SourceEnded
<1>5. Planned
  BY PlanLabels DEF Init, Planned
<1> QED BY <1>2, <1>3, <1>4, <1>5 DEF IInv

\* Every step keeps it.
LEMMA NextIInv == IInv /\ [Next]_vars => IInv'
<1> SUFFICES ASSUME IInv, [Next]_vars PROVE IInv'
  OBVIOUS
<1>1. CASE UNCHANGED vars
  <2>1. StillThere /\ UNCHANGED <<case, role, ledger, roots, phase, step, at>>
    BY <1>1, NoneChanges DEF IInv, vars
  <2> QED BY <2>1, SameKept DEF IInv, Control
<1>2. CASE Runs
  <2>1. CASE LaunchRefused BY <2>1, AbandonedKeeps
  <2>2. CASE LaunchAbandoned BY <2>2, LeftKeeps
  <2>3. CASE \E fate \in Fates : Launch(fate) BY <2>3, LaunchKeeps
  <2>4. CASE WorkEnds BY <2>4, WaitKeeps
  <2>5. CASE WorkTimeout \/ ForceOwned BY <2>5, StopKeeps
  <2>6. CASE SaveRecord BY <2>6, SaveKeeps
  <2>7. CASE Refused BY <2>7, RefusedKeeps
  <2>8. CASE Turn \/ Interrupt \/ Resume \/ Contrast \/ Check \/ SettingsShot \/ StateBefore
    BY <2>8, HostStepsKeep
  <2>9. CASE CloseApp BY <2>9, CloseAppKeeps
  <2>10. CASE ActivateReplacement BY <2>10, ActivateKeeps
  <2>11. CASE ClearProbeRoots BY <2>11, ClearKeeps
  <2>12. CASE Start BY <2>12, StartKeeps
  <2>13. CASE Finish BY <2>13, FinishKeeps
  <2>14. CASE CloseRemaining \/ CloseFixture \/ SaveResult \/ Inspect BY <2>14, ClosingKeeps
  <2>15. CASE RemoveRoots BY <2>15, RemoveKeeps
  <2> QED BY <1>2, <2>1, <2>2, <2>3, <2>4, <2>5, <2>6, <2>7, <2>8, <2>9, <2>10, <2>11, <2>12, <2>13,
             <2>14, <2>15 DEF Runs
<1>3. CASE Tick BY <1>3, WaitKeeps
<1>4. CASE ProcessesEnd BY <1>4, EndKeeps DEF ProcessesEnd
<1>5. CASE HostStrays BY <1>5, StrayKeeps
<1> QED BY <1>1, <1>2, <1>3, <1>4, <1>5 DEF Next

\* It implies the property.
LEMMA IInvMeans == IInv => ReleasedFirst
<1> SUFFICES ASSUME IInv, NEW i \in DOMAIN invoked, InScope(invoked[i])
    PROVE  /\ roots = OwnedRoots
           /\ invoked[i].area = "probes" => \A j \in DOMAIN invoked : invoked[j].area = "probes"
           /\ (invoked[i].role = "source" /\ case = "replacement" /\ invoked[i].area \in {"native", "commands"})
                 => \A j \in DOMAIN invoked : invoked[j].role = "replacement" => invoked[j].area = "probes"
  BY DEF ReleasedFirst
<1>1. roots = OwnedRoots
  BY DEF IInv, RootsLast
<1>2. invoked[i].area = "probes" => \A j \in DOMAIN invoked : invoked[j].area = "probes"
  BY DEF IInv, ProbesEnded
<1>3. ASSUME invoked[i].role = "source", case = "replacement", invoked[i].area \in {"native", "commands"},
             NEW j \in DOMAIN invoked, invoked[j].role = "replacement"
      PROVE  invoked[j].area = "probes"
  <2>1. role # "replacement"
    BY <1>3 DEF IInv, SourceEnded, HostOf
  <2>2. role = "source"
    BY <2>1 DEF IInv, Types, Roles
  <2> QED BY <1>3, <2>2 DEF IInv, SourceEnded
<1> QED BY <1>1, <1>2, <1>3

\* No owned root is removed, no residue of the probes is built upon and no replacement host is started while
\* a process of an earlier invocation may still run, for every set of cases and any number of departures
\* (prepare, _activate_host_replacement and the cleanup in run of observe_codex_lifecycle.py).
THEOREM NothingRemovedBeneath == Spec => []ReleasedFirst
<1> QED BY InitIInv, NextIInv, IInvMeans, PTL DEF Spec

=============================================================================
