------------------------ MODULE ExternalHandoffProofs -------------------------
(***************************************************************************)
(* The external hand-off executor keeps its promises for every plan, every *)
(* order of failures, stops, crashes and reviews, and any limit of the     *)
(* recorder.                                                               *)
(*                                                                         *)
(* While the executor is certain of its records, the state it holds is the *)
(* one the instructions before pc have recorded, whatever else happened.   *)
(* Wanted is that state, line by line; the lines of the two plans are      *)
(* numbered together, a read-only plan leaving out the lines in which the  *)
(* native process is replaced.                                             *)
(***************************************************************************)
EXTENDS ExternalHandoff, TLAPS

RP == INSTANCE CarrierRecorderProofs
  WITH Scopes <- {Scope}, Transfers <- {Transfer}, Threads <- {Source, Target},
       Controllers <- {Executor, Reviewer}

(* The lines of the writing plan.                                            *)
Text ==
  <<Rest,
    Guard, <<"bind", "none">>, <<"begin", "none">>,
    <<"live", "none">>, Note("starting"), <<"start", "none">>, <<"open", "none">>,
    Guard, Note("connected"),
    Guard, Note("thread/start"), <<"send", "thread/start">>,
    <<"answer", "thread/start">>, Guard, Note("answered"), Note("target"),
    Guard, Note("turn"), <<"send", "turn">>, <<"answer", "turn">>, Guard,
    Note("answered"), Note("running"), <<"terminal", "none">>, Guard, Note("complete"),
    Rest,
    Guard, Note("closing"), <<"close", "none">>, <<"closed", "none">>, Note("peer-closed"),
    <<"live", "none">>, Note("starting"), <<"start", "none">>, <<"open", "none">>,
    Guard, Note("connected"),
    Guard, Note("thread/resume"), <<"send", "thread/resume">>,
    <<"answer", "thread/resume">>, Guard, Note("answered"),
    Guard, Note("writer"),
    Guard, Note("turn"), <<"send", "turn">>, <<"answer", "turn">>, Guard,
    Note("answered"), Note("running"), <<"terminal", "none">>, Guard, Note("complete"),
    Rest,
    Guard, Note("released"),
    Guard, Note("turn"), <<"send", "turn">>, <<"answer", "turn">>, Guard,
    Note("answered"), Note("running"), <<"terminal", "none">>, Guard, Note("complete"),
    Guard, <<"close", "none">>, <<"closed", "none">>, Guard, Note("completed"),
    <<"settle", "none">>>>

Last == 76
Line(p, n) == IF p = "read-only" /\ n > 28 THEN n + 17 ELSE n
line == Line(plan, pc)

(* The lines at which a request, or a turn, may have had an effect that is   *)
(* not on record as over, and those at which it may still have it.           *)
RequestLines == (7..10) \cup (13..16) \cup {20} \cup (31..33) \cup (36..39) \cup (42..45)
                  \cup {50, 63}
TurnLines == (21..23) \cup (25..27) \cup (51..53) \cup (55..57) \cup (64..66) \cup (68..70)
TurnEffects == (21..25) \cup (51..55) \cup (64..68)

PendingAt(l) ==
  IF l \in RequestLines THEN "request" ELSE IF l \in TurnLines THEN "turn" ELSE "none"
IntakeAt(l) == IF l <= 19 THEN "none" ELSE IF l <= 27 THEN "started" ELSE "complete"
PeerAt(p, l) ==
  IF p = "read-only" \/ l <= 33 THEN "first" ELSE IF l <= 39 THEN "replacing" ELSE "replaced"

Made(target, writer, pending, intake, recovery, peer) ==
  [kind |-> "external", source |-> Source, target |-> target, writer |-> writer,
   phase |-> "working", pending |-> pending, intake |-> intake, recovery |-> recovery,
   closed |-> FALSE, peer |-> peer]
MadeAt(p, l) ==
  Made(IF l <= 17 THEN None ELSE Target, IF l <= 47 THEN Source ELSE Target, PendingAt(l),
       IntakeAt(l), IF l <= 60 THEN "retained" ELSE "controller-owned", PeerAt(p, l))

Completed(s) == [s EXCEPT !.phase = "external-completed", !.closed = TRUE]
Stopped(s, b) == [s EXCEPT !.phase = "held", !.closed = b]
Wanted(p, l) == IF l < Last THEN MadeAt(p, l) ELSE Completed(MadeAt(p, l))
HeldAt(p, l, b) == Stopped(Wanted(p, l), b)

Quiet == effect # "running" /\ \A g \in {1, 2} : proc[g] \notin Alive

(* How a call stops: a stopped executor begins no instruction but a guard.   *)
Stops ==
  /\ timer \in {"closing", "waiting", "holding", "done"} => late
  /\ cancelling # "off" => cancelled
  /\ (stopping /\ action # "holding" /\ over = "no") => ~Live
  /\ (timer = "holding" \/ cancelling = "holding" \/ over # "no") /\ action = "running" =>
       Verb = "guard" /\ ~Live
  /\ over = "crashed" =>
       /\ action = "idle" /\ timer = "off" /\ cancelling = "off"
       /\ \A g \in {1, 2} : proc[g] \notin {"starting", "open"}
  /\ over = "completed" => action = "idle" /\ Exists /\ Row.settled
  /\ (action = "idle" /\ over = "no") => Verb = "rest"
  /\ (action = "running" /\ line \in {47, 75, 76}) => ~cancelled /\ ~stopping
  /\ ~certain => over # "no" \/ action = "holding"
  /\ (certain /\ over # "crashed" /\ action # "running") => Verb # "record"

(* The processes and what was sent to them, line by line.                    *)
Natives ==
  /\ line <= 7 => proc[1] = "unborn"
  /\ line = 8 => proc[1] \notin {"unborn", "open"}
  /\ line > 8 => proc[1] \notin {"unborn", "starting"}
  /\ plan = "read-only" \/ line <= 36 => proc[2] = "unborn"
  /\ plan # "read-only" /\ line = 37 => proc[2] \notin {"unborn", "open"}
  /\ plan # "read-only" /\ line > 37 => proc[2] \notin {"unborn", "starting"}
  /\ plan # "read-only" /\ line > 32 => proc[1] = "closed"
  /\ native = IF line <= 8 THEN 0
              ELSE IF plan = "read-only" \/ line <= 34 THEN 1
              ELSE IF line <= 37 THEN 0 ELSE 2
  /\ line > 73 => proc[native] = "closed"
Effects ==
  /\ effect = "request" <=> line \in {14, 43}
  /\ effect \in {"running", "completed", "stopped"} <=> line \in TurnEffects
  /\ effect = "running" => proc[native] \in {"open", "closing"}

(* The stored row and the state the executor holds.                          *)
Stored ==
  /\ ~Exists => line <= 4
  /\ line <= 4 /\ Exists => line = 4 /\ action # "running"
  /\ Joined => line > 4
  /\ (line > 4 /\ over = "no") => Joined
  /\ (line = 4 /\ action = "running") => scope[Scope].writer = Source
  /\ (Exists /\ Row.settled) =>
       Quiet /\ Row.state.phase # "held" /\ (over # "no" \/ action = "holding")
  /\ (Exists /\ ~Row.settled /\ Row.state.phase = "held") =>
       /\ over # "no" /\ Verb # "record"
       /\ Row.state = HeldAt(plan, line, Row.state.closed)
       /\ Row.state.closed => Quiet
  /\ (Exists /\ ~Row.settled /\ Row.state.phase # "held") =>
       \/ Row.state = Wanted(plan, line)
       \/ /\ ~certain /\ Verb \in {"record", "send"}
          /\ Row.state = Wanted(plan, line + 1)
Known ==
  (certain /\ Joined) =>
    \/ State = Wanted(plan, line)
    \/ /\ over \in {"held", "crashed"} /\ NativeClosed
       /\ State = HeldAt(plan, line, State.closed)
       /\ State.closed <=> ClosedByItself

IInv == RP!Inv /\ TypeOK /\ Stops /\ Natives /\ Effects /\ Stored /\ Known

(***************************************************************************)
(* The programs, line by line.                                             *)
(***************************************************************************)
Instructions == {Text[n] : n \in 1..Last}

(* What stands at each line.                                                *)
LEMMA TextLines ==
  /\ Text[1] = Rest /\ Text[2] = Guard /\ Text[3] = <<"bind", "none">>
  /\ Text[4] = <<"begin", "none">> /\ Text[5] = <<"live", "none">>
  /\ Text[6] = Note("starting") /\ Text[7] = <<"start", "none">>
  /\ Text[8] = <<"open", "none">> /\ Text[9] = Guard /\ Text[10] = Note("connected")
  /\ Text[11] = Guard /\ Text[12] = Note("thread/start")
  /\ Text[13] = <<"send", "thread/start">> /\ Text[14] = <<"answer", "thread/start">>
  /\ Text[15] = Guard /\ Text[16] = Note("answered") /\ Text[17] = Note("target")
  /\ Text[18] = Guard /\ Text[19] = Note("turn") /\ Text[20] = <<"send", "turn">>
  /\ Text[21] = <<"answer", "turn">> /\ Text[22] = Guard /\ Text[23] = Note("answered")
  /\ Text[24] = Note("running") /\ Text[25] = <<"terminal", "none">> /\ Text[26] = Guard
  /\ Text[27] = Note("complete") /\ Text[28] = Rest /\ Text[29] = Guard
  /\ Text[30] = Note("closing") /\ Text[31] = <<"close", "none">>
  /\ Text[32] = <<"closed", "none">> /\ Text[33] = Note("peer-closed")
  /\ Text[34] = <<"live", "none">> /\ Text[35] = Note("starting")
  /\ Text[36] = <<"start", "none">> /\ Text[37] = <<"open", "none">> /\ Text[38] = Guard
  /\ Text[39] = Note("connected") /\ Text[40] = Guard /\ Text[41] = Note("thread/resume")
  /\ Text[42] = <<"send", "thread/resume">> /\ Text[43] = <<"answer", "thread/resume">>
  /\ Text[44] = Guard /\ Text[45] = Note("answered") /\ Text[46] = Guard
  /\ Text[47] = Note("writer") /\ Text[48] = Guard /\ Text[49] = Note("turn")
  /\ Text[50] = <<"send", "turn">> /\ Text[51] = <<"answer", "turn">> /\ Text[52] = Guard
  /\ Text[53] = Note("answered") /\ Text[54] = Note("running")
  /\ Text[55] = <<"terminal", "none">> /\ Text[56] = Guard /\ Text[57] = Note("complete")
  /\ Text[58] = Rest /\ Text[59] = Guard /\ Text[60] = Note("released") /\ Text[61] = Guard
  /\ Text[62] = Note("turn") /\ Text[63] = <<"send", "turn">>
  /\ Text[64] = <<"answer", "turn">> /\ Text[65] = Guard /\ Text[66] = Note("answered")
  /\ Text[67] = Note("running") /\ Text[68] = <<"terminal", "none">> /\ Text[69] = Guard
  /\ Text[70] = Note("complete") /\ Text[71] = Guard /\ Text[72] = <<"close", "none">>
  /\ Text[73] = <<"closed", "none">> /\ Text[74] = Guard /\ Text[75] = Note("completed")
  /\ Text[76] = <<"settle", "none">>
  BY DEF Text

(* s is the part of plan p's program after its first k lines, m lines long.  *)
IsPart(p, s, k, m) ==
  /\ s \in Seq(Instructions) /\ Len(s) = m
  /\ \A n \in 1..m : s[n] = Text[Line(p, k + n)]

(* From k on, plan p's lines are those of Text from b on.                    *)
Stands(p, k, b, m) == \A n \in 1..m : Line(p, k + n) = b + n

(* Two parts that follow one another are one part.                          *)
LEMMA PartsJoin ==
  ASSUME NEW p, NEW a, NEW b, NEW k \in Nat, NEW m \in Nat, NEW j \in Nat,
         IsPart(p, a, k, m), IsPart(p, b, k + m, j)
  PROVE  IsPart(p, a \o b, k, m + j)
<1>1. /\ a \o b \in Seq(Instructions) /\ Len(a \o b) = m + j
      /\ \A n \in 1..m : (a \o b)[n] = a[n]
      /\ \A n \in 1..j : (a \o b)[m + n] = b[n]
  <2>1. /\ a \in Seq(Instructions) /\ Len(a) = m
        /\ b \in Seq(Instructions) /\ Len(b) = j
    BY DEF IsPart
  <2> HIDE DEF IsPart
  <2>2. /\ a \o b \in Seq(Instructions) /\ Len(a \o b) = m + j
        /\ \A n \in 1..m : (a \o b)[n] = a[n]
    BY <2>1
  <2>3. ASSUME NEW n \in 1..j PROVE (a \o b)[m + n] = b[n]
    BY <2>1
  <2> QED
    BY <2>2, <2>3
<1>2. ASSUME NEW n \in 1..(m + j)
      PROVE  (a \o b)[n] = Text[Line(p, k + n)]
  <2>1. CASE n \in 1..m
    BY <1>1, <2>1 DEF IsPart
  <2>2. CASE n \notin 1..m
    <3>1. PICK i \in 1..j : n = m + i
      BY <2>2
    <3>2. b[i] = Text[Line(p, (k + m) + i)] /\ (k + m) + i = k + n
      BY <3>1 DEF IsPart
    <3> QED
      BY <1>1, <3>1, <3>2
  <2> QED
    BY <2>1, <2>2
<1> QED
  BY <1>1, <1>2 DEF IsPart

(* A sequence that agrees with the text line by line is a part of the       *)
(* program.                                                                 *)
LEMMA PartByLines ==
  ASSUME NEW p, NEW k \in Nat, NEW b \in Nat, NEW m \in Nat, b + m <= Last,
         Stands(p, k, b, m),
         NEW s, s = [n \in 1..m |-> s[n]], \A n \in 1..m : s[n] = Text[b + n]
  PROVE  IsPart(p, s, k, m)
<1>1. ASSUME NEW n \in 1..m
      PROVE  s[n] \in Instructions /\ s[n] = Text[Line(p, k + n)]
  <2>1. b + n \in 1..Last
    <3>1. n \in Nat /\ 1 <= n /\ n <= m
      OBVIOUS
    <3> QED
      BY ONLY <3>1, b \in Nat, m \in Nat, b + m <= Last DEF Last
  <2>2. Text[b + n] \in Instructions
    BY <2>1 DEF Instructions
  <2> QED
    BY <2>2 DEF Stands
<1>2. s \in Seq(Instructions) /\ Len(s) = m
  BY <1>1
<1> QED
  BY <1>1, <1>2 DEF IsPart

(* The pieces the calls are put together from, each at the lines it stands  *)
(* at.                                                                      *)
LEMMA RequestText ==
  ASSUME NEW p, NEW k \in Nat, NEW b \in Nat, NEW w,
         Stands(p, k, b, 6),
         \/ b = 10 /\ w = "thread/start"
         \/ b = 39 /\ w = "thread/resume"
         \/ b \in {17, 47, 60} /\ w = "turn"
  PROVE  IsPart(p, Request(w), k, 6)
<1> DEFINE s == <<Guard, Note(w), <<"send", w>>, <<"answer", w>>, Guard, Note("answered")>>
<1>1. s = [n \in 1..6 |-> s[n]]
  OBVIOUS
<1>2. /\ Text[b + 1] = Guard
      /\ Text[b + 2] = Note(w)
      /\ Text[b + 3] = <<"send", w>>
      /\ Text[b + 4] = <<"answer", w>>
      /\ Text[b + 5] = Guard
      /\ Text[b + 6] = Note("answered")
  BY TextLines
<1>3. \A n \in 1..6 : s[n] = Text[b + n]
  <2> TAKE n \in 1..6
  <2>1. n = 1 \/ n = 2 \/ n = 3 \/ n = 4 \/ n = 5 \/ n = 6
    OBVIOUS
  <2> QED
    BY <1>2, <2>1
<1>4. b + 6 <= Last
  BY DEF Last
<1> HIDE DEF s
<1>5. IsPart(p, s, k, 6)
  BY <1>1, <1>3, <1>4, PartByLines
<1> QED
  BY <1>5 DEF s, Request

LEMMA StartText ==
  ASSUME NEW p, NEW k \in Nat, NEW b \in Nat,
         Stands(p, k, b, 6),
         b \in {4, 33}
  PROVE  IsPart(p, StartNative, k, 6)
<1> DEFINE s ==
      <<<<"live", "none">>, Note("starting"), <<"start", "none">>, <<"open", "none">>, Guard,
        Note("connected")>>
<1>1. s = [n \in 1..6 |-> s[n]]
  OBVIOUS
<1>2. /\ Text[b + 1] = <<"live", "none">>
      /\ Text[b + 2] = Note("starting")
      /\ Text[b + 3] = <<"start", "none">>
      /\ Text[b + 4] = <<"open", "none">>
      /\ Text[b + 5] = Guard
      /\ Text[b + 6] = Note("connected")
  BY TextLines
<1>3. \A n \in 1..6 : s[n] = Text[b + n]
  <2> TAKE n \in 1..6
  <2>1. n = 1 \/ n = 2 \/ n = 3 \/ n = 4 \/ n = 5 \/ n = 6
    OBVIOUS
  <2> QED
    BY <1>2, <2>1
<1>4. b + 6 <= Last
  BY DEF Last
<1> HIDE DEF s
<1>5. IsPart(p, s, k, 6)
  BY <1>1, <1>3, <1>4, PartByLines
<1> QED
  BY <1>5 DEF s, StartNative

LEMMA RestText ==
  ASSUME NEW p, NEW k \in Nat, NEW b \in Nat,
         Stands(p, k, b, 1),
         b \in {0, 27, 57}
  PROVE  IsPart(p, <<Rest>>, k, 1)
<1> DEFINE s == <<Rest>>
<1>1. s = [n \in 1..1 |-> s[n]]
  OBVIOUS
<1>2. Text[b + 1] = Rest
  BY TextLines
<1>3. \A n \in 1..1 : s[n] = Text[b + n]
  <2> TAKE n \in 1..1
  <2>1. n = 1
    OBVIOUS
  <2> QED
    BY <1>2, <2>1
<1>4. b + 1 <= Last
  BY DEF Last
<1> HIDE DEF s
<1>5. IsPart(p, s, k, 1)
  BY <1>1, <1>3, <1>4, PartByLines
<1> QED
  BY <1>5 DEF s

LEMMA OpeningText ==
  ASSUME NEW p, NEW k \in Nat, NEW b \in Nat,
         Stands(p, k, b, 3),
         b = 1
  PROVE  IsPart(p, <<Guard, <<"bind", "none">>, <<"begin", "none">>>>, k, 3)
<1> DEFINE s == <<Guard, <<"bind", "none">>, <<"begin", "none">>>>
<1>1. s = [n \in 1..3 |-> s[n]]
  OBVIOUS
<1>2. /\ Text[b + 1] = Guard
      /\ Text[b + 2] = <<"bind", "none">>
      /\ Text[b + 3] = <<"begin", "none">>
  BY TextLines
<1>3. \A n \in 1..3 : s[n] = Text[b + n]
  <2> TAKE n \in 1..3
  <2>1. n = 1 \/ n = 2 \/ n = 3
    OBVIOUS
  <2> QED
    BY <1>2, <2>1
<1>4. b + 3 <= Last
  BY DEF Last
<1> HIDE DEF s
<1>5. IsPart(p, s, k, 3)
  BY <1>1, <1>3, <1>4, PartByLines
<1> QED
  BY <1>5 DEF s

LEMMA TargetText ==
  ASSUME NEW p, NEW k \in Nat, NEW b \in Nat,
         Stands(p, k, b, 1),
         b = 16
  PROVE  IsPart(p, <<Note("target")>>, k, 1)
<1> DEFINE s == <<Note("target")>>
<1>1. s = [n \in 1..1 |-> s[n]]
  OBVIOUS
<1>2. Text[b + 1] = Note("target")
  BY TextLines
<1>3. \A n \in 1..1 : s[n] = Text[b + n]
  <2> TAKE n \in 1..1
  <2>1. n = 1
    OBVIOUS
  <2> QED
    BY <1>2, <2>1
<1>4. b + 1 <= Last
  BY DEF Last
<1> HIDE DEF s
<1>5. IsPart(p, s, k, 1)
  BY <1>1, <1>3, <1>4, PartByLines
<1> QED
  BY <1>5 DEF s

LEMMA TurnEndText ==
  ASSUME NEW p, NEW k \in Nat, NEW b \in Nat,
         Stands(p, k, b, 4),
         b \in {23, 53, 66}
  PROVE  IsPart(p, <<Note("running"), <<"terminal", "none">>, Guard, Note("complete")>>, k, 4)
<1> DEFINE s == <<Note("running"), <<"terminal", "none">>, Guard, Note("complete")>>
<1>1. s = [n \in 1..4 |-> s[n]]
  OBVIOUS
<1>2. /\ Text[b + 1] = Note("running")
      /\ Text[b + 2] = <<"terminal", "none">>
      /\ Text[b + 3] = Guard
      /\ Text[b + 4] = Note("complete")
  BY TextLines
<1>3. \A n \in 1..4 : s[n] = Text[b + n]
  <2> TAKE n \in 1..4
  <2>1. n = 1 \/ n = 2 \/ n = 3 \/ n = 4
    OBVIOUS
  <2> QED
    BY <1>2, <2>1
<1>4. b + 4 <= Last
  BY DEF Last
<1> HIDE DEF s
<1>5. IsPart(p, s, k, 4)
  BY ONLY <1>1, <1>3, <1>4, PartByLines, Stands(p, k, b, 4), k \in Nat, b \in Nat, 4 \in Nat
<1> QED
  BY <1>5 DEF s

LEMMA ReplaceText ==
  ASSUME NEW p, NEW k \in Nat, NEW b \in Nat,
         Stands(p, k, b, 5),
         b = 28
  PROVE  IsPart(p, <<Guard, Note("closing"), <<"close", "none">>, <<"closed", "none">>,
                     Note("peer-closed")>>, k, 5)
<1> DEFINE s ==
      <<Guard, Note("closing"), <<"close", "none">>, <<"closed", "none">>, Note("peer-closed")>>
<1>1. s = [n \in 1..5 |-> s[n]]
  OBVIOUS
<1>2. /\ Text[b + 1] = Guard
      /\ Text[b + 2] = Note("closing")
      /\ Text[b + 3] = <<"close", "none">>
      /\ Text[b + 4] = <<"closed", "none">>
      /\ Text[b + 5] = Note("peer-closed")
  BY TextLines
<1>3. \A n \in 1..5 : s[n] = Text[b + n]
  <2> TAKE n \in 1..5
  <2>1. n = 1 \/ n = 2 \/ n = 3 \/ n = 4 \/ n = 5
    OBVIOUS
  <2> QED
    BY <1>2, <2>1
<1>4. b + 5 <= Last
  BY DEF Last
<1> HIDE DEF s
<1>5. IsPart(p, s, k, 5)
  BY <1>1, <1>3, <1>4, PartByLines
<1> QED
  BY <1>5 DEF s

LEMMA WriterText ==
  ASSUME NEW p, NEW k \in Nat, NEW b \in Nat,
         Stands(p, k, b, 2),
         b = 45
  PROVE  IsPart(p, <<Guard, Note("writer")>>, k, 2)
<1> DEFINE s == <<Guard, Note("writer")>>
<1>1. s = [n \in 1..2 |-> s[n]]
  OBVIOUS
<1>2. /\ Text[b + 1] = Guard
      /\ Text[b + 2] = Note("writer")
  BY TextLines
<1>3. \A n \in 1..2 : s[n] = Text[b + n]
  <2> TAKE n \in 1..2
  <2>1. n = 1 \/ n = 2
    OBVIOUS
  <2> QED
    BY <1>2, <2>1
<1>4. b + 2 <= Last
  BY DEF Last
<1> HIDE DEF s
<1>5. IsPart(p, s, k, 2)
  BY <1>1, <1>3, <1>4, PartByLines
<1> QED
  BY <1>5 DEF s

LEMMA ReleasedText ==
  ASSUME NEW p, NEW k \in Nat, NEW b \in Nat,
         Stands(p, k, b, 2),
         b = 58
  PROVE  IsPart(p, <<Guard, Note("released")>>, k, 2)
<1> DEFINE s == <<Guard, Note("released")>>
<1>1. s = [n \in 1..2 |-> s[n]]
  OBVIOUS
<1>2. /\ Text[b + 1] = Guard
      /\ Text[b + 2] = Note("released")
  BY TextLines
<1>3. \A n \in 1..2 : s[n] = Text[b + n]
  <2> TAKE n \in 1..2
  <2>1. n = 1 \/ n = 2
    OBVIOUS
  <2> QED
    BY <1>2, <2>1
<1>4. b + 2 <= Last
  BY DEF Last
<1> HIDE DEF s
<1>5. IsPart(p, s, k, 2)
  BY <1>1, <1>3, <1>4, PartByLines
<1> QED
  BY <1>5 DEF s

LEMMA ClosingText ==
  ASSUME NEW p, NEW k \in Nat, NEW b \in Nat,
         Stands(p, k, b, 6),
         b = 70
  PROVE  IsPart(p, <<Guard, <<"close", "none">>, <<"closed", "none">>, Guard,
                     Note("completed"), <<"settle", "none">>>>, k, 6)
<1> DEFINE s ==
      <<Guard, <<"close", "none">>, <<"closed", "none">>, Guard, Note("completed"),
        <<"settle", "none">>>>
<1>1. s = [n \in 1..6 |-> s[n]]
  OBVIOUS
<1>2. /\ Text[b + 1] = Guard
      /\ Text[b + 2] = <<"close", "none">>
      /\ Text[b + 3] = <<"closed", "none">>
      /\ Text[b + 4] = Guard
      /\ Text[b + 5] = Note("completed")
      /\ Text[b + 6] = <<"settle", "none">>
  BY TextLines
<1>3. \A n \in 1..6 : s[n] = Text[b + n]
  <2> TAKE n \in 1..6
  <2>1. n = 1 \/ n = 2 \/ n = 3 \/ n = 4 \/ n = 5 \/ n = 6
    OBVIOUS
  <2> QED
    BY <1>2, <2>1
<1>4. b + 6 <= Last
  BY DEF Last
<1> HIDE DEF s
<1>5. IsPart(p, s, k, 6)
  BY <1>1, <1>3, <1>4, PartByLines
<1> QED
  BY <1>5 DEF s

(* A turn, a preparation, a commit and a release stand where Text has them.   *)
LEMMA TurnText ==
  ASSUME NEW p, NEW k \in Nat, NEW b \in {17, 47, 60}, Stands(p, k, b, 10)
  PROVE  IsPart(p, Turn, k, 10)
<1>1. IsPart(p, Request("turn"), k, 6)
  BY RequestText DEF Stands
<1> DEFINE End == <<Note("running"), <<"terminal", "none">>, Guard, Note("complete")>>
<1>2. IsPart(p, End, k + 6, 4)
  <2>1. b + 6 \in {23, 53, 66} /\ b + 6 \in Nat /\ k + 6 \in Nat
    OBVIOUS
  <2>2. Stands(p, k + 6, b + 6, 4)
    BY DEF Stands
  <2> QED
    BY <2>1, <2>2, TurnEndText
<1> HIDE DEF End
<1>3. IsPart(p, Request("turn") \o End, k, 6 + 4)
  BY <1>1, <1>2, PartsJoin
<1> QED
  BY <1>3 DEF Turn, End

LEMMA PrepareText ==
  ASSUME NEW p \in Plans PROVE IsPart(p, <<Rest>> \o Prepare, 0, 27)
<1>1. \A k \in Nat, m \in Nat : k + m <= 28 => Stands(p, k, k, m)
  BY DEF Line, Stands
<1>2. IsPart(p, <<Rest>>, 0, 1)
  BY <1>1, RestText
<1>3. IsPart(p, <<Guard, <<"bind", "none">>, <<"begin", "none">>>>, 1, 3)
  BY <1>1, OpeningText
<1>4. IsPart(p, StartNative, 4, 6)
  BY <1>1, StartText
<1>5. IsPart(p, Request("thread/start"), 10, 6)
  BY <1>1, RequestText
<1>6. IsPart(p, <<Note("target")>>, 16, 1)
  BY <1>1, TargetText
<1>7. IsPart(p, Turn, 17, 10)
  BY <1>1, TurnText
<1> DEFINE O == <<Guard, <<"bind", "none">>, <<"begin", "none">>>>
           T == <<Note("target")>>
<1>8. Prepare = (((O \o StartNative) \o Request("thread/start")) \o T) \o Turn
  BY DEF Prepare
<1> HIDE DEF O, T
<1>9. IsPart(p, O \o StartNative, 1, 9)
  BY <1>3, <1>4, PartsJoin DEF O
<1>10. IsPart(p, (O \o StartNative) \o Request("thread/start"), 1, 15)
  BY <1>5, <1>9, PartsJoin
<1>11. IsPart(p, ((O \o StartNative) \o Request("thread/start")) \o T, 1, 16)
  BY <1>6, <1>10, PartsJoin DEF T
<1>12. IsPart(p, (((O \o StartNative) \o Request("thread/start")) \o T) \o Turn, 1, 26)
  BY <1>7, <1>11, PartsJoin
<1>13. IsPart(p, Prepare, 1, 26)
  BY <1>8, <1>12
<1> QED
  BY <1>2, <1>13, PartsJoin

(* A read-only plan's commit begins at its line 28, as the lines after the   *)
(* replacement do in Text at line 45.                                        *)
LEMMA CommitText ==
  ASSUME NEW p \in Plans
  PROVE  IsPart(p, Commit(p), 28, IF p = "read-only" THEN 12 ELSE 29)
<1> DEFINE W == <<Guard, Note("writer")>>
           R == <<Guard, Note("closing"), <<"close", "none">>, <<"closed", "none">>,
                  Note("peer-closed")>>
           X == R \o StartNative
<1>1. CASE p = "read-only"
  <2>1. Stands(p, 28, 45, 2) /\ Stands(p, 30, 47, 10)
    BY <1>1 DEF Line, Stands
  <2>2. IsPart(p, <<>>, 28, 0)
    BY DEF IsPart
  <2>3. IsPart(p, W, 28, 2)
    BY <2>1, WriterText
  <2>4. IsPart(p, Turn, 30, 10)
    BY <2>1, TurnText
  <2>5. Commit(p) = (<<>> \o W) \o Turn
    BY <1>1 DEF Commit
  <2> HIDE DEF W
  <2>6. IsPart(p, <<>> \o W, 28, 2)
    <3>1. IsPart(p, <<>> \o W, 28, 0 + 2)
      BY <2>2, <2>3, PartsJoin
    <3> QED
      BY <3>1
  <2>7. IsPart(p, (<<>> \o W) \o Turn, 28, 12)
    BY <2>4, <2>6, PartsJoin
  <2> QED
    BY <1>1, <2>5, <2>7
<1>2. CASE p # "read-only"
  <2>1. \A k, m \in Nat : Stands(p, k, k, m)
    BY <1>2 DEF Line, Stands
  <2>2. IsPart(p, R, 28, 5)
    BY <2>1, ReplaceText
  <2>3. IsPart(p, StartNative, 33, 6)
    BY <2>1, StartText
  <2>4. IsPart(p, Request("thread/resume"), 39, 6)
    BY <2>1, RequestText
  <2>5. IsPart(p, W, 45, 2)
    BY <2>1, WriterText
  <2>6. IsPart(p, Turn, 47, 10)
    BY <2>1, TurnText
  <2>7. Commit(p) = ((X \o Request("thread/resume")) \o W) \o Turn
    BY <1>2 DEF Commit, PrepareWritePolicy, Plans
  <2> HIDE DEF W, R
  <2>8. IsPart(p, X, 28, 11)
    BY <2>2, <2>3, PartsJoin
  <2> HIDE DEF X
  <2>9. IsPart(p, X \o Request("thread/resume"), 28, 17)
    BY <2>4, <2>8, PartsJoin
  <2>10. IsPart(p, (X \o Request("thread/resume")) \o W, 28, 19)
    BY <2>5, <2>9, PartsJoin
  <2>11. IsPart(p, ((X \o Request("thread/resume")) \o W) \o Turn, 28, 29)
    BY <2>6, <2>10, PartsJoin
  <2> QED
    BY <1>2, <2>7, <2>11
<1> QED
  BY <1>1, <1>2

LEMMA ReleaseText ==
  ASSUME NEW p \in Plans, NEW k \in Nat, Stands(p, k, 58, 18)
  PROVE  IsPart(p, Release, k, 18)
<1> DEFINE R == <<Guard, Note("released")>>
           C == <<Guard, <<"close", "none">>, <<"closed", "none">>, Guard, Note("completed"),
                  <<"settle", "none">>>>
<1>1. Stands(p, k, 58, 2) /\ Stands(p, k + 2, 60, 10) /\ Stands(p, k + 12, 70, 6)
  BY DEF Stands
<1>2. IsPart(p, R, k, 2)
  BY <1>1, ReleasedText
<1>3. IsPart(p, Turn, k + 2, 10)
  BY <1>1, TurnText
<1>4. IsPart(p, C, k + 12, 6)
  BY <1>1, ClosingText
<1>5. Release = (R \o Turn) \o C
  BY DEF Release
<1> HIDE DEF R, C
<1>6. IsPart(p, R \o Turn, k, 2 + 10)
  BY <1>2, <1>3, PartsJoin
<1>7. IsPart(p, R \o Turn, k, 12)
  BY <1>6
<1>8. IsPart(p, (R \o Turn) \o C, k, 12 + 6)
  BY <1>4, <1>7, PartsJoin
<1> QED
  BY <1>5, <1>8

(* The program of either plan is Text, but for the lines a plan leaves out.  *)
LEMMA ProgramsAreText ==
  ASSUME NEW p \in Plans
  PROVE  /\ Len(Programs[p]) = IF p = "read-only" THEN 59 ELSE 76
         /\ \A n \in 1..Len(Programs[p]) : Programs[p][n] = Text[Line(p, n)]
<1> DEFINE c == IF p = "read-only" THEN 12 ELSE 29
           A == <<Rest>> \o Prepare
           R == <<Rest>>
<1>1. Programs[p] = (((A \o R) \o Commit(p)) \o R) \o Release
  BY DEF Programs
<1>2. IsPart(p, A, 0, 27)
  BY PrepareText
<1>3. Stands(p, 27, 27, 1) /\ Stands(p, 28 + c, 57, 1) /\ Stands(p, 29 + c, 58, 18)
  BY DEF Stands, Line, Plans
<1>4. IsPart(p, R, 27, 1)
  BY <1>3, RestText
<1>5. IsPart(p, Commit(p), 28, c)
  BY CommitText
<1> HIDE DEF c
<1>6. c \in Nat
  BY DEF c
<1>7. IsPart(p, R, 28 + c, 1) /\ IsPart(p, Release, 29 + c, 18)
  BY <1>3, <1>6, RestText, ReleaseText
<1> HIDE DEF A, R
<1>8. IsPart(p, A \o R, 0, 28)
  BY <1>2, <1>4, PartsJoin
<1>9. IsPart(p, (A \o R) \o Commit(p), 0, 28 + c)
  BY <1>5, <1>6, <1>8, PartsJoin
<1>10. IsPart(p, ((A \o R) \o Commit(p)) \o R, 0, (28 + c) + 1)
  BY <1>6, <1>7, <1>9, PartsJoin
<1>11. (28 + c) + 1 = 29 + c /\ (29 + c) + 18 = IF p = "read-only" THEN 59 ELSE 76
  BY DEF c
<1>12. IsPart(p, ((A \o R) \o Commit(p)) \o R, 0, 29 + c)
  BY <1>10, <1>11
<1>13. IsPart(p, Programs[p], 0, (29 + c) + 18)
  <2>1. IsPart(p, (((A \o R) \o Commit(p)) \o R) \o Release, 0, (29 + c) + 18)
    BY <1>6, <1>7, <1>12, PartsJoin
  <2> QED
    BY <1>1, <2>1
<1> QED
  BY <1>11, <1>13 DEF IsPart

(***************************************************************************)
(* Where each verb stands.                                                 *)
(***************************************************************************)
RecordLines ==
  {6, 10, 12, 16, 17, 19, 23, 24, 27, 30, 33, 35, 39, 41, 45, 47, 49, 53, 54, 57, 60, 62, 66,
   67, 70, 75}
GuardLines ==
  {2, 9, 11, 15, 18, 22, 26, 29, 38, 40, 44, 46, 48, 52, 56, 59, 61, 65, 69, 71, 74}

VerbAt(l) ==
  CASE l \in {1, 28, 58} -> "rest"
    [] l = 3 -> "bind"
    [] l = 4 -> "begin"
    [] l \in {5, 34} -> "live"
    [] l \in {7, 36} -> "start"
    [] l \in {8, 37} -> "open"
    [] l \in {13, 20, 42, 50, 63} -> "send"
    [] l \in {14, 21, 43, 51, 64} -> "answer"
    [] l \in {25, 55, 68} -> "terminal"
    [] l \in {31, 72} -> "close"
    [] l \in {32, 73} -> "closed"
    [] l = 76 -> "settle"
    [] l \in RecordLines -> "record"
    [] OTHER -> "guard"

(* The verb of each line.                                                   *)
LEMMA TextVerbs ==
  ASSUME NEW l \in 1..Last PROVE Text[l][1] = VerbAt(l)
<1>1. CASE l \in 1..13
  <2>1. \/ l = 1 \/ l = 2 \/ l = 3 \/ l = 4 \/ l = 5 \/ l = 6 \/ l = 7
        \/ l = 8 \/ l = 9 \/ l = 10 \/ l = 11 \/ l = 12 \/ l = 13
    BY <1>1
  <2> QED
    BY <2>1, TextLines DEF VerbAt, RecordLines, Rest, Note, Guard
<1>2. CASE l \in 14..26
  <2>1. \/ l = 14 \/ l = 15 \/ l = 16 \/ l = 17 \/ l = 18 \/ l = 19 \/ l = 20
        \/ l = 21 \/ l = 22 \/ l = 23 \/ l = 24 \/ l = 25 \/ l = 26
    BY <1>2
  <2> QED
    BY <2>1, TextLines DEF VerbAt, RecordLines, Rest, Note, Guard
<1>3. CASE l \in 27..39
  <2>1. \/ l = 27 \/ l = 28 \/ l = 29 \/ l = 30 \/ l = 31 \/ l = 32 \/ l = 33
        \/ l = 34 \/ l = 35 \/ l = 36 \/ l = 37 \/ l = 38 \/ l = 39
    BY <1>3
  <2> QED
    BY <2>1, TextLines DEF VerbAt, RecordLines, Rest, Note, Guard
<1>4. CASE l \in 40..52
  <2>1. \/ l = 40 \/ l = 41 \/ l = 42 \/ l = 43 \/ l = 44 \/ l = 45 \/ l = 46
        \/ l = 47 \/ l = 48 \/ l = 49 \/ l = 50 \/ l = 51 \/ l = 52
    BY <1>4
  <2> QED
    BY <2>1, TextLines DEF VerbAt, RecordLines, Rest, Note, Guard
<1>5. CASE l \in 53..64
  <2>1. \/ l = 53 \/ l = 54 \/ l = 55 \/ l = 56 \/ l = 57 \/ l = 58 \/ l = 59
        \/ l = 60 \/ l = 61 \/ l = 62 \/ l = 63 \/ l = 64
    BY <1>5
  <2> QED
    BY <2>1, TextLines DEF VerbAt, RecordLines, Rest, Note, Guard
<1>6. CASE l \in 65..76
  <2>1. \/ l = 65 \/ l = 66 \/ l = 67 \/ l = 68 \/ l = 69 \/ l = 70 \/ l = 71
        \/ l = 72 \/ l = 73 \/ l = 74 \/ l = 75 \/ l = 76
    BY <1>6
  <2> QED
    BY <2>1, TextLines DEF VerbAt, RecordLines, Rest, Note, Guard
<1> QED
  BY <1>1, <1>2, <1>3, <1>4, <1>5, <1>6 DEF Last


(***************************************************************************)
(* What the records of a program make of the state.                        *)
(***************************************************************************)
LEMMA NotesMade ==
  ASSUME NEW t, NEW w, NEW n, NEW i, NEW r, NEW pe
  PROVE  /\ \A x \in {"starting", "thread/start", "thread/resume", "closing"} :
              Noted(Made(t, w, n, i, r, pe), x) = Made(t, w, "request", i, r, pe)
         /\ Noted(Made(t, w, n, i, r, pe), "answered") = Made(t, w, "none", i, r, pe)
         /\ Noted(Made(t, w, n, i, r, pe), "connected") =
              Made(t, w, "none", i, r, IF pe = "replacing" THEN "replaced" ELSE pe)
         /\ Noted(Made(t, w, n, i, r, pe), "turn") =
              Made(t, w, "request", IF i = "none" THEN "started" ELSE i, r, pe)
         /\ \A x \in {"sent", "running"} :
              Noted(Made(t, w, n, i, r, pe), x) = Made(t, w, "turn", i, r, pe)
         /\ Noted(Made(t, w, n, i, r, pe), "complete") = Made(t, w, "none", "complete", r, pe)
         /\ Noted(Made(t, w, n, i, r, pe), "target") = Made(Target, w, n, i, r, pe)
         /\ Noted(Made(t, w, n, i, r, pe), "peer-closed") = Made(t, w, "none", i, r, "replacing")
         /\ Noted(Made(t, w, n, i, r, pe), "writer") = Made(t, t, n, i, r, pe)
         /\ Noted(Made(t, w, n, i, r, pe), "released") = Made(t, w, n, i, "controller-owned", pe)
<1>1. /\ \A x \in {"starting", "thread/start", "thread/resume", "closing"} :
              Noted(Made(t, w, n, i, r, pe), x) = Made(t, w, "request", i, r, pe)
      /\ Noted(Made(t, w, n, i, r, pe), "answered") = Made(t, w, "none", i, r, pe)
  BY DEF Noted, Made
<1>2. Noted(Made(t, w, n, i, r, pe), "connected") =
              Made(t, w, "none", i, r, IF pe = "replacing" THEN "replaced" ELSE pe)
  BY DEF Noted, Made
<1>3. Noted(Made(t, w, n, i, r, pe), "turn") =
              Made(t, w, "request", IF i = "none" THEN "started" ELSE i, r, pe)
  BY DEF Noted, Made
<1>4. /\ \A x \in {"sent", "running"} :
            Noted(Made(t, w, n, i, r, pe), x) = Made(t, w, "turn", i, r, pe)
      /\ Noted(Made(t, w, n, i, r, pe), "complete") = Made(t, w, "none", "complete", r, pe)
  BY DEF Noted, Made
<1>5. /\ Noted(Made(t, w, n, i, r, pe), "target") = Made(Target, w, n, i, r, pe)
      /\ Noted(Made(t, w, n, i, r, pe), "peer-closed") = Made(t, w, "none", i, r, "replacing")
  BY DEF Noted, Made
<1>6. /\ Noted(Made(t, w, n, i, r, pe), "writer") = Made(t, t, n, i, r, pe)
      /\ Noted(Made(t, w, n, i, r, pe), "released") = Made(t, w, n, i, "controller-owned", pe)
  BY DEF Noted, Made
<1> QED
  BY <1>1, <1>2, <1>3, <1>4, <1>5, <1>6

(* The recorder lets a controller record each of them.                       *)
LEMMA NotesWritable ==
  ASSUME NEW t, NEW w, NEW n, NEW i, NEW r, NEW pe
  PROVE  /\ \A x \in {"none", "request"} :
              Made(t, w, x, i, r, pe) \in Rec!Writes(Made(t, w, n, i, r, pe))
         /\ t = None =>
              Made(Target, w, "none", i, r, pe) \in Rec!Writes(Made(t, w, n, i, r, pe))
         /\ t # None => \A x \in {"request", "turn"} :
              Made(t, w, x, IF i = "none" THEN "started" ELSE i, r, pe)
                \in Rec!Writes(Made(t, w, n, i, r, pe))
         /\ n = "turn" =>
              Made(t, w, "none", "complete", r, pe) \in Rec!Writes(Made(t, w, n, i, r, pe))
         /\ (t # None /\ i = "complete" /\ n = "none") =>
              Made(t, t, n, i, r, pe) \in Rec!Writes(Made(t, w, n, i, r, pe))
         /\ w = t =>
              Made(t, w, n, i, "controller-owned", pe) \in Rec!Writes(Made(t, w, n, i, r, pe))
         /\ (i = "complete" /\ pe = "first") =>
              Made(t, w, "none", i, r, "replacing") \in Rec!Writes(Made(t, w, n, i, r, pe))
         /\ pe = "replacing" =>
              Made(t, w, "none", i, r, "replaced") \in Rec!Writes(Made(t, w, n, i, r, pe))
<1> DEFINE s == Made(t, w, n, i, r, pe)
<1>1. /\ Rec!Noting(s) \subseteq Rec!Writes(s) /\ Rec!NamingTarget(s) \subseteq Rec!Writes(s)
      /\ Rec!StartingTurn(s) \subseteq Rec!Writes(s) /\ Rec!EndingTurn(s) \subseteq Rec!Writes(s)
      /\ Rec!Transferring(s) \subseteq Rec!Writes(s) /\ Rec!Releasing(s) \subseteq Rec!Writes(s)
      /\ Rec!Replacing(s) \subseteq Rec!Writes(s) /\ Rec!Replaced(s) \subseteq Rec!Writes(s)
  <2>1. s.phase = "working"
    BY DEF Made
  <2> QED
    BY <2>1 DEF Rec!Writes, Rec!When
<1>2. /\ s.kind = "external" /\ s.source = Source /\ s.target = t /\ s.writer = w
      /\ s.pending = n /\ s.intake = i /\ s.peer = pe
  BY DEF Made
<1>3. ASSUME NEW x, NEW y, NEW q
      PROVE  /\ q = [s EXCEPT !.pending = x] => q = Made(t, w, x, i, r, pe)
             /\ q = [s EXCEPT !.pending = x, !.intake = y] => q = Made(t, w, x, y, r, pe)
  BY DEF Made
<1>4. ASSUME NEW x, NEW y, NEW q
      PROVE  /\ q = [s EXCEPT !.writer = y] => q = Made(t, y, n, i, r, pe)
             /\ q = [s EXCEPT !.recovery = y] => q = Made(t, w, n, i, y, pe)
  BY DEF Made
<1>4a. ASSUME NEW x, NEW y, NEW q, q = [s EXCEPT !.peer = y, !.pending = x]
       PROVE  q = Made(t, w, x, i, r, y)
  BY <1>4a DEF Made
<1>4b. ASSUME NEW x, NEW y, NEW q, q = [s EXCEPT !.target = y, !.pending = x]
       PROVE  q = Made(y, w, x, i, r, pe)
  BY <1>4b DEF Made
<1>5. s = Made(t, w, n, i, r, pe)
  OBVIOUS
<1> HIDE DEF s
<1>6. \A x \in {"none", "request"} : Made(t, w, x, i, r, pe) \in Rec!Noting(s)
  BY <1>3 DEF Rec!Noting
<1>7. t = None => Made(Target, w, "none", i, r, pe) \in Rec!NamingTarget(s)
  <2> SUFFICES ASSUME t = None
               PROVE  Made(Target, w, "none", i, r, pe) \in Rec!NamingTarget(s)
    OBVIOUS
  <2>1. PICK q : q = [s EXCEPT !.target = Target, !.pending = "none"]
    OBVIOUS
  <2>2. q = Made(Target, w, "none", i, r, pe)
    BY <2>1, <1>4b
  <2>3. q \in Rec!NamingTarget(s)
    BY <1>2, <2>1, PartiesDistinct DEF Rec!NamingTarget, Rec!When
  <2> QED
    BY <2>2, <2>3
<1>8. t # None => \A x \in {"request", "turn"} :
        Made(t, w, x, IF i = "none" THEN "started" ELSE i, r, pe) \in Rec!StartingTurn(s)
  <2> DEFINE begun == IF s.intake = "none" THEN "started" ELSE s.intake
  <2> SUFFICES ASSUME t # None, NEW x \in {"request", "turn"}
               PROVE  Made(t, w, x, begun, r, pe) \in Rec!StartingTurn(s)
    BY <1>2
  <2>1. PICK q : q = [s EXCEPT !.pending = x, !.intake = begun]
    OBVIOUS
  <2>2. q \in Rec!StartingTurn(s)
    BY <1>2, <2>1 DEF Rec!StartingTurn, Rec!When
  <2> HIDE DEF begun
  <2>3. q = Made(t, w, x, begun, r, pe)
    BY <2>1, <1>3
  <2> QED
    BY <2>2, <2>3
<1>9. n = "turn" => Made(t, w, "none", "complete", r, pe) \in Rec!EndingTurn(s)
  BY <1>2, <1>3 DEF Rec!EndingTurn, Rec!When
<1>10. (t # None /\ i = "complete" /\ n = "none") =>
        Made(t, t, n, i, r, pe) \in Rec!Transferring(s)
  BY <1>2, <1>4 DEF Rec!Transferring, Rec!When
<1>11. w = t => Made(t, w, n, i, "controller-owned", pe) \in Rec!Releasing(s)
  BY <1>2, <1>4 DEF Rec!Releasing, Rec!When
<1>12. (i = "complete" /\ pe = "first") =>
        Made(t, w, "none", i, r, "replacing") \in Rec!Replacing(s)
  <2> SUFFICES ASSUME i = "complete" /\ pe = "first"
               PROVE  Made(t, w, "none", i, r, "replacing") \in Rec!Replacing(s)
    OBVIOUS
  <2>1. PICK q : q = [s EXCEPT !.peer = "replacing", !.pending = "none"]
    OBVIOUS
  <2>2. q = Made(t, w, "none", i, r, "replacing")
    BY <2>1, <1>4a
  <2>3. q \in Rec!Replacing(s)
    BY <1>2, <2>1 DEF Rec!Replacing, Rec!When
  <2> QED
    BY <2>2, <2>3
<1>13. pe = "replacing" => Made(t, w, "none", i, r, "replaced") \in Rec!Replaced(s)
  <2> SUFFICES ASSUME pe = "replacing"
               PROVE  Made(t, w, "none", i, r, "replaced") \in Rec!Replaced(s)
    OBVIOUS
  <2>1. PICK q : q = [s EXCEPT !.peer = "replaced", !.pending = "none"]
    OBVIOUS
  <2>2. q = Made(t, w, "none", i, r, "replaced")
    BY <2>1, <1>4a
  <2>3. q \in Rec!Replaced(s)
    BY <1>2, <2>1 DEF Rec!Replaced, Rec!When
  <2> QED
    BY <2>2, <2>3
<1> QED
  BY <1>1, <1>5, <1>6, <1>7, <1>8, <1>9, <1>10, <1>11, <1>12, <1>13

(* The state as the program goes on: a record takes it from one line to the  *)
(* next, and the record of a turn's reference as well.                       *)
Recorded(p, l, what) ==
  /\ Noted(MadeAt(p, l), what) = MadeAt(p, l + 1)
  /\ MadeAt(p, l + 1) \in Rec!Writes(MadeAt(p, l))

(* Every record the program makes is one the recorder accepts, from line to *)
(* line.                                                                    *)
LEMMA RecordsMade ==
  ASSUME NEW p \in Plans
  PROVE  /\ Recorded(p, 6, "starting") /\ Recorded(p, 10, "connected")
         /\ Recorded(p, 12, "thread/start") /\ Recorded(p, 16, "answered")
         /\ Recorded(p, 17, "target") /\ Recorded(p, 19, "turn")
         /\ Recorded(p, 20, "sent") /\ Recorded(p, 23, "answered")
         /\ Recorded(p, 24, "running") /\ Recorded(p, 27, "complete")
         /\ Recorded(p, 47, "writer") /\ Recorded(p, 49, "turn")
         /\ Recorded(p, 50, "sent") /\ Recorded(p, 53, "answered")
         /\ Recorded(p, 54, "running") /\ Recorded(p, 57, "complete")
         /\ Recorded(p, 60, "released") /\ Recorded(p, 62, "turn")
         /\ Recorded(p, 63, "sent") /\ Recorded(p, 66, "answered")
         /\ Recorded(p, 67, "running") /\ Recorded(p, 70, "complete")
         /\ p # "read-only" =>
              /\ Recorded(p, 30, "closing") /\ Recorded(p, 33, "peer-closed")
              /\ Recorded(p, 35, "starting") /\ Recorded(p, 39, "connected")
              /\ Recorded(p, 41, "thread/resume") /\ Recorded(p, 45, "answered")
<1>1. Recorded(p, 6, "starting")
  BY NotesMade, NotesWritable, RecorderConstants
     DEF RequestLines, TurnLines, MadeAt, PeerAt, IntakeAt, PendingAt, Recorded
<1>2. Recorded(p, 10, "connected")
  BY NotesMade, NotesWritable, RecorderConstants
     DEF RequestLines, TurnLines, MadeAt, PeerAt, IntakeAt, PendingAt, Recorded
<1>3. Recorded(p, 12, "thread/start")
  BY NotesMade, NotesWritable, RecorderConstants
     DEF RequestLines, TurnLines, MadeAt, PeerAt, IntakeAt, PendingAt, Recorded
<1>4. Recorded(p, 16, "answered")
  BY NotesMade, NotesWritable, RecorderConstants
     DEF RequestLines, TurnLines, MadeAt, PeerAt, IntakeAt, PendingAt, Recorded
<1>5. Recorded(p, 17, "target")
  BY NotesMade, NotesWritable, RecorderConstants
     DEF RequestLines, TurnLines, MadeAt, PeerAt, IntakeAt, PendingAt, Recorded
<1>6. Recorded(p, 19, "turn")
  BY NotesMade, NotesWritable, RecorderConstants
     DEF RequestLines, TurnLines, MadeAt, PeerAt, IntakeAt, PendingAt, Recorded
<1>7. Recorded(p, 20, "sent")
  BY NotesMade, NotesWritable, RecorderConstants
     DEF RequestLines, TurnLines, MadeAt, PeerAt, IntakeAt, PendingAt, Recorded
<1>8. Recorded(p, 23, "answered")
  BY NotesMade, NotesWritable, RecorderConstants
     DEF RequestLines, TurnLines, MadeAt, PeerAt, IntakeAt, PendingAt, Recorded
<1>9. Recorded(p, 24, "running")
  BY NotesMade, NotesWritable, RecorderConstants
     DEF RequestLines, TurnLines, MadeAt, PeerAt, IntakeAt, PendingAt, Recorded
<1>10. Recorded(p, 27, "complete")
  BY NotesMade, NotesWritable, RecorderConstants
     DEF RequestLines, TurnLines, MadeAt, PeerAt, IntakeAt, PendingAt, Recorded
<1>11. Recorded(p, 47, "writer")
  BY NotesMade, NotesWritable, RecorderConstants
     DEF RequestLines, TurnLines, MadeAt, PeerAt, IntakeAt, PendingAt, Recorded
<1>12. Recorded(p, 49, "turn")
  BY NotesMade, NotesWritable, RecorderConstants
     DEF RequestLines, TurnLines, MadeAt, PeerAt, IntakeAt, PendingAt, Recorded
<1>13. Recorded(p, 50, "sent")
  BY NotesMade, NotesWritable, RecorderConstants
     DEF RequestLines, TurnLines, MadeAt, PeerAt, IntakeAt, PendingAt, Recorded
<1>14. Recorded(p, 53, "answered")
  BY NotesMade, NotesWritable, RecorderConstants
     DEF RequestLines, TurnLines, MadeAt, PeerAt, IntakeAt, PendingAt, Recorded
<1>15. Recorded(p, 54, "running")
  BY NotesMade, NotesWritable, RecorderConstants
     DEF RequestLines, TurnLines, MadeAt, PeerAt, IntakeAt, PendingAt, Recorded
<1>16. Recorded(p, 57, "complete")
  BY NotesMade, NotesWritable, RecorderConstants
     DEF RequestLines, TurnLines, MadeAt, PeerAt, IntakeAt, PendingAt, Recorded
<1>17. Recorded(p, 60, "released")
  BY NotesMade, NotesWritable, RecorderConstants
     DEF RequestLines, TurnLines, MadeAt, PeerAt, IntakeAt, PendingAt, Recorded
<1>18. Recorded(p, 62, "turn")
  BY NotesMade, NotesWritable, RecorderConstants
     DEF RequestLines, TurnLines, MadeAt, PeerAt, IntakeAt, PendingAt, Recorded
<1>19. Recorded(p, 63, "sent")
  BY NotesMade, NotesWritable, RecorderConstants
     DEF RequestLines, TurnLines, MadeAt, PeerAt, IntakeAt, PendingAt, Recorded
<1>20. Recorded(p, 66, "answered")
  BY NotesMade, NotesWritable, RecorderConstants
     DEF RequestLines, TurnLines, MadeAt, PeerAt, IntakeAt, PendingAt, Recorded
<1>21. Recorded(p, 67, "running")
  BY NotesMade, NotesWritable, RecorderConstants
     DEF RequestLines, TurnLines, MadeAt, PeerAt, IntakeAt, PendingAt, Recorded
<1>22. Recorded(p, 70, "complete")
  BY NotesMade, NotesWritable, RecorderConstants
     DEF RequestLines, TurnLines, MadeAt, PeerAt, IntakeAt, PendingAt, Recorded
<1>23. p # "read-only" => Recorded(p, 30, "closing")
  BY NotesMade, NotesWritable, RecorderConstants
     DEF RequestLines, TurnLines, MadeAt, PeerAt, IntakeAt, PendingAt, Recorded
<1>24. p # "read-only" => Recorded(p, 33, "peer-closed")
  BY NotesMade, NotesWritable, RecorderConstants
     DEF RequestLines, TurnLines, MadeAt, PeerAt, IntakeAt, PendingAt, Recorded
<1>25. p # "read-only" => Recorded(p, 35, "starting")
  BY NotesMade, NotesWritable, RecorderConstants
     DEF RequestLines, TurnLines, MadeAt, PeerAt, IntakeAt, PendingAt, Recorded
<1>26. p # "read-only" => Recorded(p, 39, "connected")
  BY NotesMade, NotesWritable, RecorderConstants
     DEF RequestLines, TurnLines, MadeAt, PeerAt, IntakeAt, PendingAt, Recorded
<1>27. p # "read-only" => Recorded(p, 41, "thread/resume")
  BY NotesMade, NotesWritable, RecorderConstants
     DEF RequestLines, TurnLines, MadeAt, PeerAt, IntakeAt, PendingAt, Recorded
<1>28. p # "read-only" => Recorded(p, 45, "answered")
  BY NotesMade, NotesWritable, RecorderConstants
     DEF RequestLines, TurnLines, MadeAt, PeerAt, IntakeAt, PendingAt, Recorded
<1> QED
  BY <1>1, <1>2, <1>3, <1>4, <1>5, <1>6, <1>7, <1>8, <1>9, <1>10, <1>11, <1>12, <1>13, <1>14,
     <1>15, <1>16, <1>17, <1>18, <1>19, <1>20, <1>21, <1>22, <1>23, <1>24, <1>25, <1>26, <1>27, <1>28

(***************************************************************************)
(* The recorder's own invariant, by its proofs.                            *)
(***************************************************************************)
LEMMA RecorderAssumed ==
  /\ None \notin {Scope} /\ None \notin {Transfer} /\ None \notin {Source, Target}
  /\ None \notin RP!Rows /\ None \notin RP!Views
  /\ MaxRevision \in Nat /\ MaxTokens \in Nat
<1>1. RP!Rows = Rec!Rows
  BY DEF Rec!Rows, RP!Rows, Rec!States, RP!States, Rec!Kinds, RP!Kinds,
         Rec!OpenPhases, RP!OpenPhases, Rec!SettledPhases, RP!SettledPhases
<1>2. RP!Views = Rec!Views
  BY DEF Rec!Views, RP!Views, Rec!Leases, RP!Leases, Rec!ScopeSnapshots, RP!ScopeSnapshots,
         Rec!States, RP!States, Rec!Kinds, RP!Kinds,
         Rec!OpenPhases, RP!OpenPhases, Rec!SettledPhases, RP!SettledPhases
<1> QED
  BY <1>1, <1>2, RecorderConstants

(* The recorder's invariant and its steps, as proved of the recorder by     *)
(* itself.                                                                  *)
LEMMA RecorderInit == Rec!Init => RP!Inv
<1>1. Rec!Init => RP!Init
  BY DEF Rec!Init, RP!Init
<1> QED
  BY <1>1, RP!InitInv, RecorderAssumed

LEMMA RecorderSame == [Rec!Next]_recorderVars => [RP!Next]_(RP!vars)
  BY DEF recorderVars, RP!vars, Rec!Commit, RP!Commit, Rec!Bound, RP!Bound, Rec!Idle,
         RP!Idle, Rec!Snapshot, RP!Snapshot, Rec!ScopeView, RP!ScopeView,
         Rec!NewScopeView, RP!NewScopeView, Rec!RecordView, RP!RecordView,
         Rec!NewRecordView, RP!NewRecordView, Rec!Receives, RP!Receives, Rec!Answers,
         RP!Answers, Rec!BindScope, RP!BindScope, Rec!ReadScope, RP!ReadScope,
         Rec!ClaimScope, RP!ClaimScope, Rec!InitialState, RP!InitialState, Rec!Begin,
         RP!Begin, Rec!Read, RP!Read, Rec!When, RP!When, Rec!Noting, RP!Noting,
         Rec!NamingTarget, RP!NamingTarget, Rec!StartingTurn, RP!StartingTurn,
         Rec!EndingTurn, RP!EndingTurn, Rec!Transferring, RP!Transferring,
         Rec!Completing, RP!Completing, Rec!Releasing, RP!Releasing, Rec!Replacing,
         RP!Replacing, Rec!Replaced, RP!Replaced, Rec!Holding, RP!Holding,
         Rec!Reconciling, RP!Reconciling, Rec!Writes, RP!Writes, Rec!Current, RP!Current,
         Rec!Advanced, RP!Advanced, Rec!CompareAndSet, RP!CompareAndSet, Rec!Released,
         RP!Released, Rec!FailedSource, RP!FailedSource, Rec!ExternalCompleted,
         RP!ExternalCompleted, Rec!ExternalStopped, RP!ExternalStopped,
         Rec!StoppedIntake, RP!StoppedIntake, Rec!ExternalStoppedTarget,
         RP!ExternalStoppedTarget, Rec!Ended, RP!Ended, Rec!SettleAs, RP!SettleAs,
         Rec!MaySettle, RP!MaySettle, Rec!Stored, RP!Stored, Rec!Settle, RP!Settle,
         Rec!SettleFailedTransfer, RP!SettleFailedTransfer, Rec!SettleExternal,
         RP!SettleExternal, Rec!SettleExternalStopped, RP!SettleExternalStopped,
         Rec!SettleExternalStoppedTarget, RP!SettleExternalStoppedTarget, Rec!Restart,
         RP!Restart, Rec!SettleAny, RP!SettleAny, Rec!Kinds, RP!Kinds, Rec!Next, RP!Next

LEMMA RecorderStep == RP!Inv /\ [Rec!Next]_recorderVars => RP!Inv'
  BY RecorderSame, RP!StepInv, RecorderAssumed

(***************************************************************************)
(* Where the program stands, and where it goes on.                         *)
(***************************************************************************)
LEMMA AtLine ==
  ASSUME TypeOK
  PROVE  /\ plan \in Plans /\ line \in 1..Last /\ Verb = VerbAt(line)
         /\ plan = "read-only" => line \notin 29..45
         /\ What = Text[line][2]
<1>1. /\ plan \in Plans /\ pc \in 1..Len(Programs[plan])
      /\ Len(Programs[plan]) = IF plan = "read-only" THEN 59 ELSE 76
      /\ Programs[plan][pc] = Text[Line(plan, pc)]
  BY ProgramsAreText DEF TypeOK
<1>2. line \in 1..Last /\ (plan = "read-only" => line \notin 29..45)
  BY <1>1 DEF line, Line, Last
<1>3. Verb = VerbAt(line) /\ What = Text[line][2]
  BY <1>1, <1>2, TextVerbs DEF Verb, What, line
<1> QED
  BY <1>1, <1>2, <1>3

(* The lines at which an instruction stands.                                *)
LEMMA AtVerb ==
  ASSUME TypeOK
  PROVE  /\ Verb = "rest" <=> line \in {1, 28, 58}
         /\ Verb = "bind" <=> line = 3
         /\ Verb = "begin" <=> line = 4
         /\ Verb = "live" <=> line \in {5, 34}
         /\ Verb = "start" <=> line \in {7, 36}
         /\ Verb = "open" <=> line \in {8, 37}
         /\ Verb = "send" <=> line \in {13, 20, 42, 50, 63}
         /\ Verb = "answer" <=> line \in {14, 21, 43, 51, 64}
         /\ Verb = "terminal" <=> line \in {25, 55, 68}
         /\ Verb = "close" <=> line \in {31, 72}
         /\ Verb = "closed" <=> line \in {32, 73}
         /\ Verb = "settle" <=> line = 76
         /\ Verb = "record" <=> line \in RecordLines
         /\ Verb = "guard" <=> line \in GuardLines
<1>1. line \in 1..76 /\ Verb = VerbAt(line)
  BY AtLine DEF Last
<1>2. Verb = "rest" <=> line \in {1, 28, 58}
  BY <1>1 DEF VerbAt, RecordLines
<1>3. Verb = "bind" <=> line = 3
  BY <1>1 DEF VerbAt, RecordLines
<1>4. Verb = "begin" <=> line = 4
  BY <1>1 DEF VerbAt, RecordLines
<1>5. Verb = "live" <=> line \in {5, 34}
  BY <1>1 DEF VerbAt, RecordLines
<1>6. Verb = "start" <=> line \in {7, 36}
  BY <1>1 DEF VerbAt, RecordLines
<1>7. Verb = "open" <=> line \in {8, 37}
  BY <1>1 DEF VerbAt, RecordLines
<1>8. Verb = "send" <=> line \in {13, 20, 42, 50, 63}
  BY <1>1 DEF VerbAt, RecordLines
<1>9. Verb = "answer" <=> line \in {14, 21, 43, 51, 64}
  BY <1>1 DEF VerbAt, RecordLines
<1>10. Verb = "terminal" <=> line \in {25, 55, 68}
  BY <1>1 DEF VerbAt, RecordLines
<1>11. Verb = "close" <=> line \in {31, 72}
  BY <1>1 DEF VerbAt, RecordLines
<1>12. Verb = "closed" <=> line \in {32, 73}
  BY <1>1 DEF VerbAt, RecordLines
<1>13. Verb = "settle" <=> line = 76
  BY <1>1 DEF VerbAt, RecordLines
<1>14. Verb = "record" <=> line \in RecordLines
  BY <1>1 DEF VerbAt, RecordLines
<1>15. Verb = "guard" <=> line \in GuardLines
  BY <1>1 DEF VerbAt, RecordLines, GuardLines
<1> QED
  BY <1>2, <1>3, <1>4, <1>5, <1>6, <1>7, <1>8, <1>9, <1>10, <1>11, <1>12, <1>13, <1>14, <1>15

(* The line that follows; a read-only plan goes from line 28 to line 46.    *)
LEMMA Advances ==
  ASSUME TypeOK, pc' = pc + 1, plan' = plan, Verb # "settle"
  PROVE  /\ line' = IF plan = "read-only" /\ line = 28 THEN 46 ELSE line + 1
         /\ pc' \in 1..Len(Programs[plan'])
<1>1. /\ plan \in Plans /\ pc \in 1..Len(Programs[plan])
      /\ Len(Programs[plan]) = IF plan = "read-only" THEN 59 ELSE 76
  BY ProgramsAreText DEF TypeOK
<1>2. line # 76
  BY AtVerb
<1>3. line' = Line(plan, pc + 1) /\ line = Line(plan, pc)
  BY DEF line
<1>4. CASE plan = "read-only"
  <2>1. pc # 59 /\ pc \in 1..59
    BY <1>1, <1>2, <1>3, <1>4 DEF Line
  <2> QED
    BY <1>1, <1>3, <1>4, <2>1 DEF Line
<1>5. CASE plan # "read-only"
  <2>1. pc # 76 /\ pc \in 1..76
    BY <1>1, <1>2, <1>3, <1>5 DEF Line
  <2> QED
    BY <1>1, <1>3, <1>5, <2>1 DEF Line
<1> QED
  BY <1>4, <1>5

(* A call that stands still stands at its line.                             *)
LEMMA Stays ==
  ASSUME UNCHANGED <<plan, pc>>
  PROVE  UNCHANGED <<line, Verb, What>>
  BY DEF line, Line, Verb, What

(***************************************************************************)
(* What the recorder's operations do to the one scope and transfer.        *)
(***************************************************************************)
LEMMA RecorderTypes ==
  ASSUME RP!Inv
  PROVE  /\ scope \in [{Scope} -> RP!ScopeRows]
         /\ transfer \in [{Transfer} -> RP!Rows \cup {None}]
         /\ view \in [{Executor, Reviewer} -> RP!Views \cup {None}]
         /\ commits \in [{Scope} -> Nat] /\ issued \in Nat
         /\ Exists => scope[Scope].writer # None /\ Row.scope = Scope
         /\ (Exists /\ ~Row.settled) =>
              scope[Scope].active = Transfer /\ scope[Scope].writer = Row.state.writer
<1>1. RP!TypeOK /\ RP!Reopens
  BY DEF RP!Inv
<1>2. /\ scope \in [{Scope} -> RP!ScopeRows]
      /\ transfer \in [{Transfer} -> RP!Rows \cup {None}]
      /\ view \in [{Executor, Reviewer} -> RP!Views \cup {None}]
      /\ commits \in [{Scope} -> Nat] /\ issued \in Nat
  BY <1>1 DEF RP!TypeOK
<1>3. Exists => Row.scope = Scope
  BY <1>2 DEF Exists, Row, RP!Rows
<1>4. Exists => scope[Scope].writer # None
  BY <1>1, <1>3 DEF Exists, Row, RP!Reopens, RP!Bound
<1>5. (Exists /\ ~Row.settled) =>
        scope[Scope].active = Transfer /\ scope[Scope].writer = Row.state.writer
  BY <1>1, <1>3, RecorderConstants DEF Exists, Row, RP!Reopens
<1> QED
  BY <1>2, <1>3, <1>4, <1>5

(* A current view is of the one transfer, which is stored and not settled.   *)
LEMMA CurrentRow ==
  ASSUME RP!Inv, NEW c \in {Executor, Reviewer},
         view[c] # None, view[c].transfer # None, Rec!Current(view[c])
  PROVE  /\ view[c].scope = Scope /\ view[c].transfer = Transfer
         /\ Exists /\ ~Row.settled /\ Row \in RP!Rows
         /\ Row.revision + 1 \in 0..MaxRevision
<1>1. RP!Current(view[c])
  BY DEF RP!Current, Rec!Current
<1>2. /\ view[c].scope \in {Scope} /\ view[c].transfer \in {Transfer}
      /\ transfer[view[c].transfer] \in RP!Rows
      /\ transfer[view[c].transfer] # None /\ ~transfer[view[c].transfer].settled
      /\ transfer[view[c].transfer].revision + 1 \in 0..MaxRevision
  BY <1>1, RP!CurrentViews, RecorderAssumed
<1> QED
  BY <1>2 DEF Exists, Row

(* The views a commit answers with.                                          *)
LEMMA NewViews ==
  ASSUME RP!Inv'
  PROVE  /\ LET v == Rec!NewScopeView(Scope) IN v # None /\ v.transfer = None
         /\ Row' \in RP!Rows =>
              LET v == Rec!NewRecordView(Transfer) IN
                v # None /\ v.transfer = Transfer /\ v.state = Row'.state
<1>1. /\ scope'[Scope] \in RP!ScopeRows /\ commits'[Scope] \in Nat
      /\ Row' \in RP!Rows => Row'.scope = Scope
  BY DEF RP!Inv, RP!TypeOK, RP!Rows
<1>2. 0 \in 0..MaxRevision
  BY RecorderAssumed
<1>3. Rec!NewScopeView(Scope) \in RP!Views
  <2>1. RP!Snapshot(Scope, scope'[Scope], commits'[Scope], None, 0, None) \in RP!Views
    BY <1>1, <1>2, RP!SnapshotsAreViews, RecorderAssumed
  <2> QED
    BY <2>1 DEF Rec!NewScopeView, Rec!Snapshot, RP!Snapshot
<1>4. ASSUME Row' \in RP!Rows
      PROVE  Rec!NewRecordView(Transfer) \in RP!Views
  <2>1. Row'.revision \in 0..MaxRevision /\ Row'.state \in RP!States
    BY <1>4 DEF RP!Rows
  <2>2. RP!Snapshot(Scope, scope'[Scope], commits'[Scope], Transfer, Row'.revision, Row'.state)
          \in RP!Views
    BY <1>1, <2>1, RP!SnapshotsAreViews, RecorderAssumed
  <2> QED
    BY <1>1, <1>4, <2>2 DEF Rec!NewRecordView, Rec!Snapshot, RP!Snapshot, Row
<1>5. Rec!NewScopeView(Scope).transfer = None
  BY DEF Rec!NewScopeView, Rec!Snapshot
<1>6. LET v == Rec!NewRecordView(Transfer) IN v.transfer = Transfer /\ v.state = Row'.state
  BY DEF Rec!NewRecordView, Rec!Snapshot, Row
<1> QED
  BY <1>3, <1>4, <1>5, <1>6, RecorderAssumed

(* What each operation stores, and what its caller sees of it.              *)
LEMMA CompareAndSetEffect ==
  ASSUME RP!Inv, RP!Inv', NEW next \in RP!States, Rec!CompareAndSet(Executor, next)
  PROVE  /\ Exists /\ ~Row.settled
         /\ Exists' /\ ~Row'.settled /\ Row'.state = next
         /\ Joined /\ Joined'
         /\ view' = view \/ State' = next
<1> DEFINE v == view[Executor]
<1>1. v # None /\ v.transfer # None /\ Rec!Current(v)
  BY DEF Rec!CompareAndSet
<1>2. v.scope = Scope /\ v.transfer = Transfer /\ Exists /\ ~Row.settled /\ Row \in RP!Rows
        /\ Row.revision + 1 \in 0..MaxRevision
  BY <1>1, CurrentRow
<1>3. /\ transfer' = [transfer EXCEPT ![Transfer] = Rec!Advanced(Row, next)]
      /\ Rec!Answers(Executor, Rec!NewRecordView(Transfer))
  BY <1>2 DEF Rec!CompareAndSet, Row
<1>4. Row' = Rec!Advanced(Row, next)
  BY <1>3, RecorderTypes DEF Row
<1>6. Row' \in RP!Rows /\ Row'.state = next /\ ~Row'.settled
  <2>1. PICK q : q = Rec!Advanced(Row, next)
    OBVIOUS
  <2>2. q \in RP!Rows /\ q.state = next /\ q.settled = Row.settled
    BY <1>2, <2>1 DEF Rec!Advanced, RP!Rows
  <2> QED
    BY <1>2, <1>4, <2>1, <2>2
<1>7. Exists'
  BY <1>6, RecorderAssumed DEF Exists
<1>8. view' = view \/ view'[Executor] = Rec!NewRecordView(Transfer)
  BY <1>3, RecorderTypes DEF Rec!Answers, Rec!Receives
<1>9. Joined /\ Joined' /\ (view' = view \/ State' = next)
  BY <1>1, <1>6, <1>8, NewViews, RecorderConstants DEF Joined, State
<1> QED
  BY <1>2, <1>6, <1>7, <1>9

LEMMA BeginEffect ==
  ASSUME RP!Inv, RP!Inv', Rec!Begin(Executor, Scope, Transfer, "external"),
         scope[Scope].writer = Source
  PROVE  /\ ~Exists /\ Exists' /\ ~Row'.settled
         /\ Row'.state = Rec!InitialState("external", Source)
         /\ view' = view \/ (Joined' /\ State' = Rec!InitialState("external", Source))
<1> DEFINE s0 == Rec!InitialState("external", Source)
           row == [scope |-> Scope, revision |-> 0, settled |-> FALSE, state |-> s0]
<1>1. s0 \in RP!States
  BY DEF Rec!InitialState, RP!States, RP!Kinds, RP!OpenPhases
<1>2. row \in RP!Rows /\ row.state = s0 /\ ~row.settled
  <2> HIDE DEF s0
  <2> QED
    BY <1>1, RecorderAssumed DEF RP!Rows
<1> HIDE DEF row, s0
<1>3. ~Exists /\ transfer' = [transfer EXCEPT ![Transfer] = row]
  BY DEF Rec!Begin, Exists, Row, row, s0
<1>4. Row' = row
  BY <1>3, RecorderTypes DEF Row
<1>5. Exists' /\ ~Row'.settled /\ Row'.state = s0
  BY <1>2, <1>4, RecorderAssumed DEF Exists
<1>6. view' = view \/ view'[Executor] = Rec!NewRecordView(Transfer)
  BY RecorderTypes DEF Rec!Begin, Rec!Answers, Rec!Receives
<1>7. view' = view \/ (Joined' /\ State' = s0)
  BY <1>2, <1>4, <1>5, <1>6, NewViews, RecorderConstants DEF Joined, State
<1> QED
  BY <1>3, <1>5, <1>7 DEF s0

LEMMA BindEffect ==
  ASSUME RP!Inv, Rec!BindScope(Executor, Scope, Source)
  PROVE  /\ ~Exists /\ transfer' = transfer
         /\ scope'[Scope].writer = Source
         /\ RP!Inv' => (Joined' => Joined)
<1>1. /\ scope[Scope].writer = None /\ transfer' = transfer
      /\ scope' = [scope EXCEPT ![Scope] =
                     [writer |-> Source, active |-> None, token |-> issued + 1]]
      /\ Rec!Answers(Executor, Rec!NewScopeView(Scope))
  BY DEF Rec!BindScope, Rec!Bound, Rec!Commit
<1>2. ~Exists /\ scope'[Scope].writer = Source
  BY <1>1, RecorderTypes
<1>3. view' = view \/ view'[Executor] = Rec!NewScopeView(Scope)
  BY <1>1, RecorderTypes DEF Rec!Answers, Rec!Receives
<1> QED
  BY <1>1, <1>2, <1>3, NewViews DEF Joined

LEMMA SettleAsEffect ==
  ASSUME RP!Inv, RP!Inv', NEW c \in {Executor, Reviewer}, Rec!MaySettle(c),
         NEW final \in RP!States, Rec!SettleAs(c, final)
  PROVE  /\ Exists /\ ~Row.settled
         /\ Exists' /\ Row'.settled /\ Row'.state = final
         /\ view' = view \/ view'[c].transfer = None
         /\ \A d \in {Executor, Reviewer} \ {c} : view'[d] = view[d]
<1> DEFINE v == view[c]
<1>1. v # None /\ v.transfer # None /\ Rec!Current(v)
  BY DEF Rec!MaySettle
<1>2. v.scope = Scope /\ v.transfer = Transfer /\ Exists /\ ~Row.settled /\ Row \in RP!Rows
        /\ Row.revision + 1 \in 0..MaxRevision
  BY <1>1, CurrentRow
<1>3. /\ transfer' = [transfer EXCEPT ![Transfer] = Rec!Ended(Row, final)]
      /\ Rec!Answers(c, Rec!NewScopeView(Scope))
  BY <1>2 DEF Rec!SettleAs, Row
<1>4. Row' = Rec!Ended(Row, final)
  BY <1>3, RecorderTypes DEF Row
<1>5. Row' \in RP!Rows /\ Row'.state = final /\ Row'.settled
  <2>1. PICK q : q = Rec!Ended(Row, final)
    OBVIOUS
  <2>2. q \in RP!Rows /\ q.state = final /\ q.settled
    BY <1>2, <2>1 DEF Rec!Ended, Rec!Advanced, RP!Rows
  <2> QED
    BY <1>4, <2>1, <2>2
<1>6. Exists'
  BY <1>5, RecorderAssumed DEF Exists
<1>7. \/ view' = view
      \/ view' = [view EXCEPT ![c] = Rec!NewScopeView(Scope)]
  BY <1>3 DEF Rec!Answers, Rec!Receives
<1>8. /\ view' = view \/ view'[c].transfer = None
      /\ \A d \in {Executor, Reviewer} \ {c} : view'[d] = view[d]
  BY <1>7, NewViews, RecorderTypes
<1> QED
  BY <1>2, <1>5, <1>6, <1>8

LEMMA StoredState ==
  ASSUME RP!Inv, NEW c \in {Executor, Reviewer}, Rec!MaySettle(c)
  PROVE  Rec!Stored(c) = Row.state /\ Row.state \in RP!States
<1>1. view[c].transfer = Transfer /\ Row \in RP!Rows
  BY CurrentRow DEF Rec!MaySettle
<1> QED
  BY <1>1 DEF Rec!Stored, Row, RP!Rows

LEMMA SettleEffect ==
  ASSUME RP!Inv, RP!Inv', Rec!SettleExternal(Executor)
  PROVE  /\ Exists /\ ~Row.settled /\ Row.state.phase = "external-completed"
         /\ Exists' /\ Row'.settled /\ Row'.state = Row.state
         /\ view' = view \/ ~Joined'
<1>1. /\ Rec!MaySettle(Executor) /\ Rec!ExternalCompleted(Rec!Stored(Executor))
      /\ Rec!SettleAs(Executor, Rec!Stored(Executor))
  BY DEF Rec!SettleExternal
<1>2. Rec!Stored(Executor) = Row.state /\ Row.state \in RP!States
  BY <1>1, StoredState
<1>3. /\ Exists /\ ~Row.settled
      /\ Exists' /\ Row'.settled /\ Row'.state = Row.state
      /\ view' = view \/ view'[Executor].transfer = None
  BY <1>1, <1>2, SettleAsEffect
<1> QED
  BY <1>1, <1>2, <1>3 DEF Rec!ExternalCompleted, Joined

(* The reviewer changes nothing the executor has seen, and no row but a held *)
(* one whose process closed by itself, which it settles.                     *)
LEMMA ReviewerEffect ==
  ASSUME RP!Inv, RP!Inv', ReviewerActs
  PROVE  /\ view'[Executor] = view[Executor]
         /\ \/ transfer' = transfer /\ (scope' = scope \/ scope[Scope].writer = None)
            \/ /\ Exists /\ ~Row.settled /\ Row.state.phase = "held" /\ Row.state.closed
               /\ Exists' /\ Row'.settled /\ Row'.state.phase # "held"
<1>1. CASE Rec!BindScope(Reviewer, Scope, Source) \/ Rec!BindScope(Reviewer, Scope, Target)
  BY <1>1, RecorderTypes, PartiesDistinct
     DEF Rec!BindScope, Rec!Bound, Rec!Answers, Rec!Receives
<1>2. CASE Rec!Read(Reviewer, Transfer)
  BY <1>2, RecorderTypes, PartiesDistinct DEF Rec!Read, Rec!Receives
<1>3. ASSUME Rec!MaySettle(Reviewer), NEW final \in RP!States, Rec!SettleAs(Reviewer, final),
             Row.state.phase = "held", Row.state.closed, final.phase # "held"
      PROVE  /\ view'[Executor] = view[Executor]
             /\ Exists /\ ~Row.settled /\ Row.state.phase = "held" /\ Row.state.closed
             /\ Exists' /\ Row'.settled /\ Row'.state.phase # "held"
  BY <1>3, SettleAsEffect, PartiesDistinct
<1>4. CASE Rec!SettleExternalStopped(Reviewer)
  <2>1. /\ Rec!MaySettle(Reviewer) /\ Rec!ExternalStopped(Rec!Stored(Reviewer))
        /\ Rec!SettleAs(Reviewer, [Rec!Stored(Reviewer) EXCEPT !.phase = "external-source-retained"])
    BY <1>4 DEF Rec!SettleExternalStopped
  <2>2. Rec!Stored(Reviewer) = Row.state /\ Row.state \in RP!States
    BY <2>1, StoredState
  <2>3. PICK q : q = [Row.state EXCEPT !.phase = "external-source-retained"]
    OBVIOUS
  <2>4. q \in RP!States /\ q.phase # "held"
    BY <2>2, <2>3 DEF RP!States, RP!SettledPhases
  <2>5. Row.state.phase = "held" /\ Row.state.closed
    BY <2>1, <2>2 DEF Rec!ExternalStopped
  <2>6. Rec!SettleAs(Reviewer, q)
    BY <2>1, <2>2, <2>3
  <2> QED
    BY <2>1, <2>4, <2>5, <2>6, <1>3
<1>5. ASSUME NEW toSource \in BOOLEAN, Rec!SettleExternalStoppedTarget(Reviewer, toSource)
      PROVE  /\ view'[Executor] = view[Executor]
             /\ Exists /\ ~Row.settled /\ Row.state.phase = "held" /\ Row.state.closed
             /\ Exists' /\ Row'.settled /\ Row'.state.phase # "held"
  <2> DEFINE s == Rec!Stored(Reviewer)
             writer == IF toSource THEN s.source ELSE s.target
             recovery == IF toSource THEN "current-source" ELSE s.recovery
  <2>1. PICK q : q = [s EXCEPT !.phase = "external-target-reconciled", !.pending = "none",
                               !.writer = writer, !.recovery = recovery]
    OBVIOUS
  <2>2. /\ Rec!MaySettle(Reviewer) /\ Rec!ExternalStoppedTarget(s)
        /\ Rec!SettleAs(Reviewer, q)
    BY <1>5, <2>1 DEF Rec!SettleExternalStoppedTarget
  <2>3. s = Row.state /\ Row.state \in RP!States
    BY <2>2, StoredState
  <2>4. s.phase = "held" /\ s.closed /\ s.target # None
    BY <2>2 DEF Rec!ExternalStoppedTarget
  <2>5. writer \in {Source, Target} /\ recovery \in {"retained", "controller-owned", "current-source"}
    BY <2>3, <2>4 DEF RP!States
  <2> HIDE DEF s, writer, recovery
  <2>6. q \in RP!States /\ q.phase # "held"
    BY <2>1, <2>3, <2>5 DEF RP!States, RP!SettledPhases
  <2> QED
    BY <1>3, <2>2, <2>3, <2>4, <2>6
<1> QED
  BY <1>1, <1>2, <1>4, <1>5 DEF ReviewerActs

(***************************************************************************)
(* What the executor records, line by line.                                *)
(***************************************************************************)
LEMMA MadeStates ==
  ASSUME NEW p \in Plans, NEW l \in 1..Last
  PROVE  /\ MadeAt(p, l) \in RP!States
         /\ MadeAt(p, l).kind = "external" /\ MadeAt(p, l).phase = "working"
         /\ MadeAt(p, l).source = Source /\ MadeAt(p, l).pending = PendingAt(l)
         /\ MadeAt(p, l).intake = IntakeAt(l)
         /\ MadeAt(p, l).writer = IF l <= 47 THEN Source ELSE Target
<1>1. /\ PendingAt(l) \in {"none", "request", "turn"}
      /\ IntakeAt(l) \in {"none", "started", "complete"}
      /\ PeerAt(p, l) \in {"first", "replacing", "replaced"}
  BY DEF PendingAt, IntakeAt, PeerAt
<1> QED
  BY <1>1 DEF MadeAt, Made, RP!States, RP!Kinds, RP!OpenPhases

(* A completed and a held state keep all but their phase and proof of       *)
(* closing.                                                                 *)
LEMMA CompletedStates ==
  ASSUME NEW s \in RP!States
  PROVE  LET q == Completed(s) IN
         /\ q \in RP!States
         /\ q.kind = s.kind /\ q.phase = "external-completed" /\ q.source = s.source
         /\ q.pending = s.pending /\ q.intake = s.intake /\ q.writer = s.writer
<1>1. PICK q : q = Completed(s)
  OBVIOUS
<1>2. q \in RP!States
  BY <1>1 DEF Completed, RP!States, RP!OpenPhases
<1>3. q.kind = s.kind /\ q.phase = "external-completed" /\ q.source = s.source
  BY <1>1 DEF Completed, RP!States
<1>4. q.pending = s.pending /\ q.intake = s.intake /\ q.writer = s.writer
  BY <1>1 DEF Completed, RP!States
<1> QED
  BY <1>1, <1>2, <1>3, <1>4

LEMMA StoppedStates ==
  ASSUME NEW s \in RP!States, NEW b \in BOOLEAN
  PROVE  LET q == Stopped(s, b) IN
         /\ q \in RP!States
         /\ q.kind = s.kind /\ q.phase = "held" /\ q.source = s.source
         /\ q.pending = s.pending /\ q.intake = s.intake /\ q.writer = s.writer
         /\ q.closed = b
         /\ (s.phase = "held" /\ s.closed = b) => q = s
<1>1. PICK q : q = Stopped(s, b)
  OBVIOUS
<1>2. q \in RP!States
  BY <1>1 DEF Stopped, RP!States, RP!OpenPhases
<1>3. q.kind = s.kind /\ q.phase = "held" /\ q.source = s.source
  BY <1>1 DEF Stopped, RP!States
<1>4. q.pending = s.pending /\ q.intake = s.intake /\ q.writer = s.writer
  BY <1>1 DEF Stopped, RP!States
<1>5. q.closed = b /\ ((s.phase = "held" /\ s.closed = b) => q = s)
  BY <1>1 DEF Stopped, RP!States
<1> QED
  BY <1>1, <1>2, <1>3, <1>4, <1>5

(* The fields of the state wanted at a line, and of the state held there.   *)
LEMMA WantedStates ==
  ASSUME NEW p \in Plans, NEW l \in 1..Last
  PROVE  /\ Wanted(p, l) \in RP!States
         /\ Wanted(p, l).kind = "external"
         /\ Wanted(p, l).phase = IF l = 76 THEN "external-completed" ELSE "working"
         /\ Wanted(p, l).source = Source /\ Wanted(p, l).pending = PendingAt(l)
         /\ Wanted(p, l).intake = IntakeAt(l)
         /\ Wanted(p, l).writer = IF l <= 47 THEN Source ELSE Target
<1>1. CASE l < Last
  BY <1>1, MadeStates DEF Wanted, Last
<1>2. CASE l = Last
  <2>1. Wanted(p, l) = Completed(MadeAt(p, l))
    BY <1>2 DEF Wanted, Last
  <2> QED
    BY <1>2, <2>1, MadeStates, CompletedStates DEF Last
<1> QED
  BY <1>1, <1>2 DEF Last

LEMMA HeldStates ==
  ASSUME NEW p \in Plans, NEW l \in 1..Last, NEW b \in BOOLEAN
  PROVE  /\ HeldAt(p, l, b) \in RP!States
         /\ HeldAt(p, l, b).kind = "external" /\ HeldAt(p, l, b).phase = "held"
         /\ HeldAt(p, l, b).closed = b
         /\ HeldAt(p, l, b).pending = PendingAt(l) /\ HeldAt(p, l, b).intake = IntakeAt(l)
         /\ HeldAt(p, l, b).writer = IF l <= 47 THEN Source ELSE Target
         /\ Stopped(HeldAt(p, l, b), b) = HeldAt(p, l, b)
<1>1. /\ HeldAt(p, l, b) \in RP!States
      /\ HeldAt(p, l, b).kind = "external" /\ HeldAt(p, l, b).phase = "held"
      /\ HeldAt(p, l, b).closed = b
      /\ HeldAt(p, l, b).pending = PendingAt(l) /\ HeldAt(p, l, b).intake = IntakeAt(l)
      /\ HeldAt(p, l, b).writer = IF l <= 47 THEN Source ELSE Target
  BY WantedStates, StoppedStates DEF HeldAt
<1> QED
  BY <1>1, StoppedStates

(* hold may be recorded from every state the executor may be in, once more   *)
(* when the transfer is held already.                                        *)
LEMMA HoldsWritable ==
  ASSUME NEW p \in Plans, NEW l \in 1..Last, NEW b \in BOOLEAN
  PROVE  /\ HeldAt(p, l, b) \in Rec!Writes(Wanted(p, l))
         /\ HeldAt(p, l, b) \in Rec!Writes(HeldAt(p, l, b))
<1>1. HeldAt(p, l, b) \in Rec!Holding(Wanted(p, l))
  BY WantedStates DEF HeldAt, Stopped, Rec!Holding
<1>2. HeldAt(p, l, b) \in Rec!Writes(Wanted(p, l))
  BY <1>1, WantedStates DEF Rec!Writes, Rec!When
<1>3. HeldAt(p, l, b) \in Rec!Writes(HeldAt(p, l, b))
  BY HeldStates DEF Rec!Writes, Rec!When
<1> QED
  BY <1>2, <1>3

(* The lines that record, and what; a turn is recorded as it is sent.        *)
TurnSends == {20, 50, 63}
Notes(l) == IF l \in TurnSends THEN "sent" ELSE Text[l][2]

(* Each record line writes the state wanted at the line after it.           *)
LEMMA NotesRecorded ==
  ASSUME NEW p \in Plans, NEW l \in RecordLines \cup TurnSends, l # 75,
         p = "read-only" => l \notin 29..45
  PROVE  Recorded(p, l, Notes(l))
<1>1. CASE l \in {6, 10, 12, 16, 17, 19}
  BY <1>1, RecordsMade, TextLines DEF Notes, Note, TurnSends
<1>2. CASE l \in {20, 23, 24, 27, 47, 49, 50}
  BY <1>2, RecordsMade, TextLines DEF Notes, Note, TurnSends
<1>3. CASE l \in {30, 33, 35, 39, 41, 45}
  BY <1>3, RecordsMade, TextLines DEF Notes, Note, TurnSends
<1>4. CASE l \in {53, 54, 57, 60, 62, 63, 66, 67, 70}
  BY <1>4, RecordsMade, TextLines DEF Notes, Note, TurnSends
<1> QED
  BY <1>1, <1>2, <1>3, <1>4 DEF RecordLines, TurnSends

LEMMA CompletionRecorded ==
  ASSUME NEW p \in Plans
  PROVE  /\ Noted(MadeAt(p, 75), "completed") = Completed(MadeAt(p, 76))
         /\ Completed(MadeAt(p, 76)) \in Rec!Writes(MadeAt(p, 75))
<1> DEFINE s == MadeAt(p, 75)
<1>1. MadeAt(p, 76) = s
  BY DEF MadeAt, PendingAt, RequestLines, TurnLines, IntakeAt, PeerAt
<1>2. /\ s \in RP!States /\ s.kind = "external" /\ s.phase = "working"
      /\ s.pending = "none" /\ s.writer = s.target /\ s.recovery = "controller-owned"
  <2>1. s \in RP!States
    BY MadeStates DEF Last
  <2>2. /\ s.kind = "external" /\ s.phase = "working" /\ s.pending = "none"
        /\ s.writer = s.target /\ s.recovery = "controller-owned"
    BY DEF MadeAt, Made, PendingAt, RequestLines, TurnLines
  <2> QED
    BY <2>1, <2>2
<1> HIDE DEF s
<1>3. Noted(s, "completed") = Completed(s)
  BY DEF Noted, Completed
<1>4. Completed(s) \in Rec!Completing(s)
  <2>1. PICK q : q = [s EXCEPT !.phase = "external-completed",
                               !.recovery = "controller-owned", !.closed = TRUE]
    OBVIOUS
  <2>2. q \in Rec!Completing(s)
    BY <1>2, <2>1 DEF Rec!Completing, Rec!When
  <2>3. PICK r : r = [s EXCEPT !.phase = "external-completed", !.closed = TRUE]
    OBVIOUS
  <2>4. q = r
    BY <1>2, <2>1, <2>3 DEF RP!States
  <2> QED
    BY <2>2, <2>3, <2>4 DEF Completed
<1>5. Completed(s) \in Rec!Writes(s)
  BY <1>2, <1>4 DEF Rec!Writes, Rec!When
<1> QED
  BY <1>1, <1>3, <1>5 DEF s

(* A record takes the state from one line to the next, and the other lines   *)
(* leave it as it is.                                                        *)
LEMMA WantedRecorded ==
  ASSUME NEW p \in Plans, NEW l \in RecordLines \cup TurnSends,
         p = "read-only" => l \notin 29..45
  PROVE  /\ Noted(Wanted(p, l), Notes(l)) = Wanted(p, l + 1)
         /\ Wanted(p, l + 1) \in Rec!Writes(Wanted(p, l))
<1>1. l \in 1..75
  BY DEF RecordLines, TurnSends
<1>2. CASE l # 75
  BY <1>1, <1>2, NotesRecorded DEF Recorded, Wanted, Last
<1>3. CASE l = 75
  <2>1. Notes(l) = "completed"
    BY <1>3, TextLines DEF Notes, Note, TurnSends
  <2> QED
    BY <1>3, <2>1, CompletionRecorded DEF Wanted, Last
<1> QED
  BY <1>2, <1>3

(* The state wanted changes at no other line.                               *)
LEMMA WantedKept ==
  ASSUME NEW p \in Plans, NEW l \in 1..75, l \notin RecordLines \cup TurnSends
  PROVE  /\ ~(p = "read-only" /\ l = 28) => Wanted(p, l + 1) = Wanted(p, l)
         /\ p = "read-only" /\ l = 28 => Wanted(p, 46) = Wanted(p, l)
<1>1. l + 1 < Last /\ l < Last /\ l # 75
  BY DEF RecordLines, Last
<1>2. ~(p = "read-only" /\ l = 28) => PeerAt(p, l + 1) = PeerAt(p, l)
  BY DEF RecordLines, PeerAt
<1>3. /\ l <= 17 <=> l + 1 <= 17
      /\ l <= 47 <=> l + 1 <= 47
      /\ l <= 60 <=> l + 1 <= 60
      /\ IntakeAt(l + 1) = IntakeAt(l)
  BY DEF RecordLines, IntakeAt
<1>4. PendingAt(l + 1) = PendingAt(l)
  <2>1. l \in RequestLines <=> l + 1 \in RequestLines
    BY DEF RecordLines, TurnSends, RequestLines
  <2>2. l \in TurnLines <=> l + 1 \in TurnLines
    BY DEF RecordLines, TurnSends, TurnLines
  <2> QED
    BY <2>1, <2>2 DEF PendingAt
<1>5. p = "read-only" /\ l = 28 => MadeAt(p, 46) = MadeAt(p, l)
  BY DEF MadeAt, PeerAt, IntakeAt, PendingAt, RequestLines, TurnLines
<1>6. ~(p = "read-only" /\ l = 28) => MadeAt(p, l + 1) = MadeAt(p, l)
  BY <1>2, <1>3, <1>4 DEF MadeAt
<1> QED
  BY <1>1, <1>5, <1>6 DEF Wanted, Last

(* begin records the state the program stands for.                           *)
LEMMA WantedBegun ==
  ASSUME NEW p \in Plans PROVE Wanted(p, 4) = Rec!InitialState("external", Source)
  BY DEF Wanted, MadeAt, Made, PendingAt, IntakeAt, PeerAt, RequestLines, TurnLines, Last,
         Rec!InitialState

(***************************************************************************)
(* What the executor is certain of.                                        *)
(***************************************************************************)
LEMMA CallCertain ==
  ASSUME IInv, over = "no", action # "holding"
  PROVE  /\ certain
         /\ Exists => ~Row.settled
         /\ line > 4 => /\ Joined /\ State = Wanted(plan, line)
                        /\ Exists /\ Row.state = Wanted(plan, line)
<1>1. certain
  BY DEF IInv, Stops
<1>2. Exists => ~Row.settled /\ Row.state.phase # "held"
  BY DEF IInv, Stored
<1>3. ASSUME line > 4
      PROVE  /\ Joined /\ State = Wanted(plan, line)
             /\ Exists /\ Row.state = Wanted(plan, line)
  <2>1. Joined
    BY <1>3 DEF IInv, Stored
  <2>2. State = Wanted(plan, line)
    BY <1>1, <2>1 DEF IInv, Known
  <2>3. line \in 1..76
    BY AtLine DEF IInv, Last
  <2>4. Exists
    BY <1>3, <2>3 DEF IInv, Stored
  <2>5. Row.state = Wanted(plan, line)
    BY <1>1, <1>2, <2>4 DEF IInv, Stored
  <2> QED
    BY <2>1, <2>2, <2>4, <2>5
<1> QED
  BY <1>1, <1>2, <1>3

(* A call that runs, and is past its guard, is certain of its records.      *)
LEMMA RunsCertain ==
  ASSUME IInv, action = "running", Verb # "guard"
  PROVE  /\ over = "no" /\ certain /\ timer # "holding" /\ cancelling # "holding"
         /\ Exists => ~Row.settled
         /\ line > 4 => /\ Joined /\ State = Wanted(plan, line)
                        /\ Exists /\ Row.state = Wanted(plan, line)
<1>1. over = "no" /\ timer # "holding" /\ cancelling # "holding"
  BY DEF IInv, Stops, TypeOK
<1> QED
  BY <1>1, CallCertain

(* What the program records, sends and holds is within the recorder's       *)
(* Writes.                                                                  *)
LEMMA RecordAllowed ==
  ASSUME IInv, At("record")
  PROVE  /\ line \in RecordLines /\ line # 76 /\ line > 4
         /\ Noted(State, What) = Wanted(plan, line + 1)
         /\ Noted(State, What) \in Rec!Writes(State) /\ Noted(State, What) \in RP!States
<1>1. /\ plan \in Plans /\ line \in RecordLines /\ What = Text[line][2]
      /\ plan = "read-only" => line \notin 29..45
  BY AtVerb, AtLine DEF IInv, At
<1>2. line > 4 /\ line \in 1..75 /\ line \notin TurnSends
  BY <1>1 DEF RecordLines, TurnSends
<1>3. State = Wanted(plan, line)
  BY <1>2, RunsCertain DEF At
<1>4. Notes(line) = What
  BY <1>1, <1>2 DEF Notes
<1>5. Noted(State, What) = Wanted(plan, line + 1) /\ Wanted(plan, line + 1) \in Rec!Writes(State)
  BY <1>1, <1>3, <1>4, WantedRecorded
<1>6. Wanted(plan, line + 1) \in RP!States
  BY <1>1, <1>2, WantedStates DEF Last
<1> QED
  BY <1>1, <1>2, <1>5, <1>6

(* Where the requests are turns.                                            *)
LEMMA RequestTexts ==
  ASSUME TypeOK
  PROVE  /\ Verb = "send" => (What = "turn" <=> line \in TurnSends)
         /\ Verb = "answer" => (What = "turn" <=> line \in {21, 51, 64})
<1>1. What = Text[line][2]
  BY AtLine
<1>2. CASE Verb = "send"
  <2>1. line \in {13, 20, 42, 50, 63}
    BY <1>2, AtVerb
  <2> QED
    BY <1>1, <1>2, <2>1, TextLines DEF TurnSends
<1>3. CASE Verb = "answer"
  <2>1. line \in {14, 21, 43, 51, 64}
    BY <1>3, AtVerb
  <2> QED
    BY <1>1, <1>3, <2>1, TextLines
<1> QED
  BY <1>2, <1>3

LEMMA SendAllowed ==
  ASSUME IInv, At("send"), What = "turn"
  PROVE  /\ line \in TurnSends
         /\ Noted(State, "sent") = Wanted(plan, line + 1)
         /\ Noted(State, "sent") \in Rec!Writes(State) /\ Noted(State, "sent") \in RP!States
<1>1. plan \in Plans /\ line \in TurnSends /\ (plan = "read-only" => line \notin 29..45)
  BY RequestTexts, AtLine DEF IInv, At
<1>2. line > 4 /\ line \in 1..75
  BY <1>1 DEF TurnSends
<1>3. State = Wanted(plan, line)
  BY <1>2, RunsCertain DEF At
<1>4. Notes(line) = "sent"
  BY <1>1 DEF Notes
<1>5. Noted(State, "sent") = Wanted(plan, line + 1) /\ Wanted(plan, line + 1) \in Rec!Writes(State)
  BY <1>1, <1>3, <1>4, WantedRecorded
<1>6. Wanted(plan, line + 1) \in RP!States
  BY <1>1, <1>2, WantedStates DEF Last
<1> QED
  BY <1>1, <1>5, <1>6

(* A hold is recorded from the state of the line, held already or not.      *)
LEMMA HoldAllowed ==
  ASSUME IInv, Joined, certain
  PROVE  \E b \in BOOLEAN :
           /\ b <=> ClosedByItself
           /\ Held(State) = HeldAt(plan, line, b)
           /\ HeldAt(plan, line, b) \in Rec!Writes(State) /\ HeldAt(plan, line, b) \in RP!States
<1>1. PICK b \in BOOLEAN : b = ClosedByItself
  BY DEF ClosedByItself
<1>2. Held(State) = Stopped(State, b)
  BY <1>1 DEF Held, Stopped
<1>3. plan \in Plans /\ line \in 1..Last
  BY AtLine DEF IInv
<1>4. HeldAt(plan, line, b) \in RP!States
  BY <1>3, HeldStates
<1>5. CASE State = Wanted(plan, line)
  BY <1>1, <1>2, <1>3, <1>4, <1>5, HoldsWritable DEF HeldAt
<1>6. CASE State = HeldAt(plan, line, State.closed) /\ (State.closed <=> ClosedByItself)
  <2>1. State.closed \in BOOLEAN
    <3>1. view[Executor] \in RP!Views /\ view[Executor].transfer # None
      BY DEF Joined, IInv, RP!Inv, RP!TypeOK
    <3>2. State \in RP!States
      BY <3>1, RP!ViewFields, RecorderAssumed DEF State
    <3> QED
      BY <3>2 DEF RP!States
  <2>2. State.closed = b
    BY <1>1, <1>6, <2>1
  <2>3. State = HeldAt(plan, line, b)
    BY <1>6, <2>2
  <2> QED
    BY <1>1, <1>2, <1>3, <1>4, <2>3, HoldsWritable, HeldStates
<1> QED
  BY <1>5, <1>6 DEF IInv, Known

(***************************************************************************)
(* The executor and the reviewer use the recorder as its specification     *)
(* says.                                                                   *)
(***************************************************************************)
LEMMA RecorderCalls ==
  /\ \A c \in {Executor, Reviewer}, w \in {Source, Target} :
       Rec!BindScope(c, Scope, w) => Rec!Next
  /\ Rec!Begin(Executor, Scope, Transfer, "external") => Rec!Next
  /\ Rec!Read(Reviewer, Transfer) => Rec!Next
  /\ \A next \in Rec!Writes(State) : Rec!CompareAndSet(Executor, next) => Rec!Next
  /\ Rec!SettleExternal(Executor) => Rec!Next
  /\ Rec!SettleExternalStopped(Reviewer) => Rec!Next
  /\ \A toSource \in BOOLEAN : Rec!SettleExternalStoppedTarget(Reviewer, toSource) => Rec!Next
<1>1. \A c \in {Executor, Reviewer}, w \in {Source, Target} :
        Rec!BindScope(c, Scope, w) => Rec!Next
  BY DEF Rec!Next
<1>2. Rec!Begin(Executor, Scope, Transfer, "external") => Rec!Next
  BY DEF Rec!Next, Rec!Kinds
<1>3. Rec!Read(Reviewer, Transfer) => Rec!Next
  BY DEF Rec!Next
<1>4. ASSUME NEW next \in Rec!Writes(State), Rec!CompareAndSet(Executor, next)
      PROVE  Rec!Next
  <2>1. view[Executor] # None /\ view[Executor].transfer # None
    BY <1>4 DEF Rec!CompareAndSet
  <2> QED
    BY <1>4, <2>1 DEF Rec!Next, State
<1>5. \A c \in {Executor, Reviewer} : Rec!SettleAny(c) => Rec!Next
  BY DEF Rec!Next
<1>6. /\ Rec!SettleExternal(Executor) => Rec!Next
      /\ Rec!SettleExternalStopped(Reviewer) => Rec!Next
      /\ \A toSource \in BOOLEAN : Rec!SettleExternalStoppedTarget(Reviewer, toSource) => Rec!Next
  BY <1>5 DEF Rec!SettleAny
<1> QED
  BY <1>1, <1>2, <1>3, <1>4, <1>6

(* Every step of the module is a step of the recorder, or leaves it alone.  *)
LEMMA HoldUsesRecorder ==
  ASSUME IInv, HoldRecords PROVE [Rec!Next]_recorderVars
<1>1. CASE Joined /\ certain /\ Record(Held(State))
  BY <1>1, HoldAllowed, RecorderCalls DEF Record
<1>2. CASE UNCHANGED recorderVars
  BY <1>2
<1> QED
  BY <1>1, <1>2 DEF HoldRecords

LEMMA NextUsesRecorder ==
  ASSUME IInv, Next PROVE [Rec!Next]_recorderVars
<1> DEFINE Used == [Rec!Next]_recorderVars
<1>1. ASSUME Bind PROVE Used
  BY <1>1, RecorderCalls DEF Bind
<1>2. ASSUME Begin PROVE Used
  BY <1>2, RecorderCalls DEF Begin
<1>3. ASSUME RecordNext PROVE Used
  BY <1>3, RecordAllowed, RecorderCalls DEF RecordNext, Record
<1>4. ASSUME Send PROVE Used
  BY <1>4, SendAllowed, RecorderCalls DEF Send, Record
<1>5. ASSUME Settle PROVE Used
  BY <1>5, RecorderCalls DEF Settle
<1>6. ASSUME HoldEnds \/ TimerHolds \/ CancelHolds PROVE Used
  BY <1>6, HoldUsesRecorder DEF HoldEnds, TimerHolds, CancelHolds
<1>7. ASSUME ReviewerActs PROVE Used
  BY <1>7, RecorderCalls DEF ReviewerActs
<1>8. ASSUME \/ Call \/ GuardHolds \/ AwaitFails \/ ForgetNative \/ Start \/ Answer
             \/ TurnCompletes \/ BeginClose \/ ClosedNaturally \/ CallEnds
      PROVE  Used
  BY <1>8 DEF Call, GuardHolds, AwaitFails, ForgetNative, Start, Answer, TurnCompletes,
              BeginClose, ClosedNaturally, CallEnds
<1>9. ASSUME \/ Deadline \/ TimerFires \/ TimerGoesOn \/ CancelAsked \/ CancelGoesOn
             \/ Answers \/ Ends \/ (\E g \in {1, 2} : ProcessDies(g)) \/ TurnEnds \/ Crash
      PROVE  Used
  BY <1>9 DEF Deadline, TimerFires, TimerGoesOn, CancelAsked, CancelGoesOn, Answers,
              FactoryAnswers, Ends, ProcessEnds, ProcessDies, TurnEnds, Unrelated, Crash
<1> HIDE DEF Used
<1>10. Used
  BY <1>1, <1>2, <1>3, <1>4, <1>5, <1>6, <1>7, <1>8, <1>9 DEF Next, CallSteps
<1> QED
  BY <1>10 DEF Used

LEMMA StepRecorder ==
  ASSUME IInv, [Next]_vars PROVE RP!Inv'
<1>1. [Rec!Next]_recorderVars
  BY NextUsesRecorder DEF vars
<1> QED
  BY <1>1, RecorderStep DEF IInv

(* A settled row is never changed again.                                    *)
LEMMA SettledKept ==
  ASSUME IInv, Next, Exists, Row.settled PROVE Exists' /\ Row' = Row
<1>1. [RP!Next]_(RP!vars)
  BY NextUsesRecorder, RecorderSame
<1>2. transfer'[Transfer] = transfer[Transfer]
  BY <1>1, RP!StepKeepsSettled, RecorderAssumed DEF IInv, Exists, Row, RP!vars
<1> QED
  BY <1>2 DEF Exists, Row

(***************************************************************************)
(* Each action keeps each part of the invariant: the types.                *)
(***************************************************************************)
LEMMA ForwardTypes ==
  ASSUME TypeOK, Advance, plan' = plan, Verb # "settle"
  PROVE  /\ plan' \in Plans /\ pc' \in 1..Len(Programs[plan'])
         /\ action' \in {"idle", "running", "holding"}
         /\ over' \in {"no", "held", "completed", "crashed"}
  BY Advances DEF TypeOK, Advance

(* Closing the process keeps the types.                                     *)
LEMMA CloseTypes ==
  ASSUME TypeOK, CloseNative, UNCHANGED native
  PROVE  /\ native' \in 0..2 /\ promise' \in {0, native'}
         /\ proc' \in [{1, 2} -> Alive \cup Gone \cup {"unborn"}]
<1>1. CASE native # 0 /\ promise = 0
  <2>1. native \in {1, 2}
    BY <1>1 DEF TypeOK
  <2> QED
    BY <1>1, <2>1 DEF CloseNative, TypeOK, Alive
<1>2. CASE ~(native # 0 /\ promise = 0)
  BY <1>2 DEF CloseNative, TypeOK
<1> QED
  BY <1>1, <1>2

LEMMA FailTypes ==
  ASSUME TypeOK, Fail, UNCHANGED <<plan, certain, late, effect>> PROVE TypeOK'
<1>1. /\ native' \in 0..2 /\ promise' \in {0, native'}
      /\ proc' \in [{1, 2} -> Alive \cup Gone \cup {"unborn"}]
  BY CloseTypes DEF Fail
<1> QED
  BY <1>1 DEF Fail, TypeOK, Handlers

(* Every step keeps the types.                                              *)
LEMMA StepTypes ==
  ASSUME IInv, Next PROVE TypeOK'
<1> USE DEF IInv
<1>1. ASSUME NEW v, TypeOK, v \in BOOLEAN, certain' = v, Fail, UNCHANGED <<plan, late, effect>>
      PROVE  TypeOK'
  <2>1. /\ native' \in 0..2 /\ promise' \in {0, native'}
        /\ proc' \in [{1, 2} -> Alive \cup Gone \cup {"unborn"}]
    BY <1>1, CloseTypes DEF Fail
  <2> QED
    BY <1>1, <2>1 DEF Fail, TypeOK, Handlers
<1>2. ASSUME Continue, plan' = plan, Verb # "settle", certain' \in BOOLEAN, late' = late,
             effect' \in {"none", "request", "running", "completed", "stopped"}
      PROVE  TypeOK'
  BY <1>2, ForwardTypes DEF Continue, TypeOK, stopVars, nativeVars
<1>3. ASSUME Call PROVE TypeOK'
  <2>1. pc' \in 1..Len(Programs[plan'])
    BY <1>3, Advances DEF Call
  <2> QED
    BY <1>3, <2>1 DEF Call, TypeOK, Handlers, nativeVars
<1>4. ASSUME GuardHolds \/ AwaitFails \/ ClosedNaturally PROVE TypeOK'
  BY <1>1, <1>2, <1>4 DEF GuardHolds, AwaitFails, ClosedNaturally, At, TypeOK
<1>5. ASSUME Bind \/ Begin PROVE TypeOK'
  BY <1>1, <1>2, <1>5 DEF Bind, Begin, At, TypeOK
<1>6. ASSUME RecordNext PROVE TypeOK'
  <2>1. certain' \in BOOLEAN
    BY <1>6 DEF RecordNext, Record
  <2>2. CASE certain'
    BY <1>2, <1>6, <2>1, <2>2 DEF RecordNext, At, TypeOK
  <2>3. CASE ~certain'
    BY <1>1, <1>6, <2>1, <2>3 DEF RecordNext, At, TypeOK
  <2> QED
    BY <2>2, <2>3
<1>7. ASSUME Send PROVE TypeOK'
  <2>1. certain' \in BOOLEAN
    BY <1>7 DEF Send, Record, TypeOK
  <2>2. CASE Continue
    BY <1>2, <1>7, <2>1, <2>2 DEF Send, At, TypeOK
  <2>3. CASE Fail /\ UNCHANGED effect
    BY <1>1, <1>7, <2>1, <2>3 DEF Send, At, TypeOK
  <2> QED
    BY <1>7, <2>2, <2>3 DEF Send
<1>8. ASSUME ForgetNative PROVE TypeOK'
  <2>1. CASE Live
    <3>1. Advance /\ plan' = plan /\ Verb # "settle"
      BY <1>8, <2>1 DEF ForgetNative, At
    <3> QED
      BY <1>8, <2>1, <3>1, ForwardTypes DEF ForgetNative, TypeOK, stopVars
  <2>2. CASE ~Live
    BY <1>1, <1>8, <2>2 DEF ForgetNative, TypeOK
  <2> QED
    BY <2>1, <2>2
<1>9. ASSUME Start PROVE TypeOK'
  <2>1. CASE Live
    <3>1. Advance /\ plan' = plan /\ Verb # "settle"
      BY <1>9, <2>1 DEF Start, At
    <3>2. proc' \in [{1, 2} -> Alive \cup Gone \cup {"unborn"}]
      BY <1>9, <2>1 DEF Start, TypeOK, Alive
    <3> QED
      BY <1>9, <2>1, <3>1, <3>2, ForwardTypes DEF Start, TypeOK, stopVars
  <2>2. CASE ~Live
    BY <1>1, <1>9, <2>2 DEF Start, TypeOK
  <2> QED
    BY <2>1, <2>2
<1>10. ASSUME Answer \/ TurnCompletes PROVE TypeOK'
  BY <1>2, <1>10 DEF Answer, TurnCompletes, At, TypeOK
<1>11. ASSUME BeginClose PROVE TypeOK'
  <2>1. Advance /\ plan' = plan /\ Verb # "settle"
    BY <1>11 DEF BeginClose, At
  <2> QED
    BY <1>11, <2>1, ForwardTypes, CloseTypes DEF BeginClose, TypeOK, stopVars
<1>12. ASSUME CallEnds \/ Deadline PROVE TypeOK'
  BY <1>12 DEF CallEnds, Deadline, TypeOK, stopVars, nativeVars, callVars
<1>13. ASSUME Settle PROVE TypeOK'
  <2>1. CASE Fail
    BY <1>1, <1>13, <2>1 DEF Settle, TypeOK
  <2>2. CASE ~Fail
    BY <1>13, <2>2 DEF Settle, TypeOK, Handlers, nativeVars
  <2> QED
    BY <2>1, <2>2
<1>14. ASSUME HoldEnds \/ TimerHolds \/ CancelHolds PROVE TypeOK'
  <2>1. certain' \in BOOLEAN /\ over' = "held"
    BY <1>14 DEF HoldEnds, TimerHolds, CancelHolds, HoldRecords, Record, TypeOK
  <2> QED
    BY <1>14, <2>1
       DEF HoldEnds, TimerHolds, CancelHolds, TypeOK, Handlers, stopVars, nativeVars
<1>15. ASSUME TimerFires \/ CancelAsked PROVE TypeOK'
  <2>1. CloseNative /\ UNCHANGED native
    BY <1>15 DEF TimerFires, CancelAsked
  <2> QED
    BY <1>15, <2>1, CloseTypes DEF TimerFires, CancelAsked, TypeOK, Handlers, callVars
<1>16. ASSUME TimerGoesOn \/ CancelGoesOn PROVE TypeOK'
  BY <1>16 DEF TimerGoesOn, CancelGoesOn, HandlerGoesOn, AfterClose, TypeOK, Handlers,
               callVars, nativeVars
<1>17. ASSUME NEW g \in {1, 2}, FactoryAnswers(g) PROVE TypeOK'
  <2>1. proc' \in [{1, 2} -> Alive \cup Gone \cup {"unborn"}]
    BY <1>17 DEF FactoryAnswers, TypeOK, Alive, Gone
  <2>2. CASE At("open") /\ native' = g /\ Advance
    <3>1. native = 0 /\ promise = 0
      <4>1. line \in {8, 37} /\ (plan = "read-only" => line \notin 29..45)
        BY <2>2, AtVerb, AtLine DEF At
      <4> QED
        BY <4>1 DEF Natives, TypeOK
    <3>2. plan' = plan /\ Verb # "settle"
      BY <1>17, <2>2 DEF FactoryAnswers, At
    <3> QED
      BY <1>17, <2>1, <2>2, <3>1, <3>2, ForwardTypes DEF FactoryAnswers, TypeOK, stopVars
  <2>3. CASE UNCHANGED <<native, callVars>>
    BY <1>17, <2>1, <2>3 DEF FactoryAnswers, TypeOK, stopVars, callVars
  <2> QED
    BY <1>17, <2>2, <2>3 DEF FactoryAnswers
<1>18. ASSUME NEW g \in {1, 2}, ProcessEnds(g) \/ ProcessDies(g) PROVE TypeOK'
  BY <1>18 DEF ProcessEnds, ProcessDies, TurnStops, Unrelated, TypeOK, Alive, Gone, stopVars,
               callVars
<1>19. ASSUME TurnEnds \/ Crash PROVE TypeOK'
  BY <1>19 DEF TurnEnds, Crash, Unrelated, TypeOK, Alive, Handlers, stopVars, callVars
<1>20. ASSUME ReviewerActs PROVE TypeOK'
  BY <1>20 DEF ReviewerActs, TypeOK, stopVars, callVars, nativeVars
<1> QED
  BY <1>3, <1>4, <1>5, <1>6, <1>7, <1>8, <1>9, <1>10, <1>11, <1>12, <1>13, <1>14, <1>15, <1>16,
     <1>17, <1>18, <1>19, <1>20 DEF Next, CallSteps, Answers, Ends

(***************************************************************************)
(* How a call stops.                                                       *)
(***************************************************************************)
LEMMA ForwardStops ==
  ASSUME IInv, action = "running", over = "no", timer # "holding", cancelling # "holding",
         Advance, UNCHANGED <<plan, stopVars, late>>, certain', Verb # "settle",
         line \in {46, 74} => ~cancelled /\ ~stopping
  PROVE  Stops'
<1>1. line' = IF plan = "read-only" /\ line = 28 THEN 46 ELSE line + 1
  BY Advances DEF IInv, Advance
<1>2. line' \in {47, 75, 76} => ~cancelled /\ ~stopping
  BY <1>1, AtLine DEF IInv, Stops
<1> QED
  BY <1>2 DEF IInv, Stops, Advance, stopVars, Live

LEMMA FailStops ==
  ASSUME IInv, action = "running", Fail, UNCHANGED <<plan, late>>, certain' => Verb # "record"
  PROVE  Stops'
<1>1. Verb' = Verb /\ line' = line
  BY Stays DEF Fail
<1>2. over \notin {"crashed", "completed"}
  BY DEF IInv, Stops
<1> QED
  BY <1>1, <1>2 DEF IInv, Stops, Fail

(* A call that may still go on is not stopped.                               *)
LEMMA GuardsLive ==
  ASSUME IInv, action = "running", Live
  PROVE  /\ over = "no" /\ certain /\ timer # "holding" /\ cancelling # "holding"
         /\ ~cancelled /\ ~stopping
<1>1. over = "no" /\ timer # "holding" /\ cancelling # "holding"
  BY DEF IInv, Stops, TypeOK
<1> QED
  BY <1>1 DEF IInv, Stops, Live

(* The handlers run between two instructions, never before a synchronous    *)
(* one.                                                                     *)
LEMMA FreeLines ==
  ASSUME IInv, LoopFree, action = "running" PROVE line \notin {47, 75, 76}
  BY AtVerb DEF IInv, LoopFree, Synchronous, RecordLines

LEMMA HoldStops ==
  ASSUME IInv, HoldRecords, UNCHANGED <<plan, pc, late, cancelled, stopping>>,
         over # "crashed",
         \/ action' = action /\ (action = "running" => Verb = "guard" /\ ~Live)
         \/ action = "holding" /\ action' = "idle",
         timer' \in {timer, "done"}, cancelling' \in {cancelling, "done"},
         timer' # timer => late, cancelling' # cancelling => cancelled
  PROVE  Stops'
<1>1. over' = "held" /\ (certain' => certain)
  BY DEF HoldRecords, Record
<1>2. Verb' = Verb /\ line' = line
  BY Stays
<1>3. Live' = Live
  BY DEF Live
<1> QED
  BY <1>1, <1>2, <1>3 DEF IInv, Stops

LEMMA CallStops ==
  ASSUME IInv, TypeOK', Call PROVE Stops'
<1>1. line \in {1, 28, 58} /\ line' = IF plan = "read-only" /\ line = 28 THEN 46 ELSE line + 1
  BY AtVerb, Advances DEF IInv, Call
<1>2. Verb' = VerbAt(line')
  <2>1. plan' \in Plans /\ pc' \in 1..Len(Programs[plan'])
    BY DEF TypeOK
  <2>2. Programs[plan'][pc'] = Text[Line(plan', pc')]
    BY <2>1, ProgramsAreText
  <2>3. line' \in 1..Last
    BY <1>1 DEF Last
  <2> QED
    BY <2>2, <2>3, TextVerbs DEF Verb, line
<1>3. Verb' = "guard" /\ line' \notin {47, 75, 76}
  BY <1>1, <1>2 DEF VerbAt, RecordLines
<1> QED
  BY <1>3 DEF IInv, Stops, Call, Live, nativeVars

(* Every step keeps Stops.                                                  *)
LEMMA StepStops ==
  ASSUME IInv, Next, RP!Inv', TypeOK' PROVE Stops'
<1>1. ASSUME Call PROVE Stops'
  BY <1>1, CallStops
<1>2. ASSUME GuardHolds PROVE Stops'
  BY <1>2, GuardsLive, ForwardStops DEF GuardHolds, At, Continue
<1>3. ASSUME AwaitFails PROVE Stops'
  BY <1>3, FailStops DEF AwaitFails
<1>4. ASSUME action = "running", Verb \notin {"guard", "settle"}, Advance, certain',
             UNCHANGED <<plan, stopVars, late>>
      PROVE  Stops'
  <2>1. line \notin {46, 74}
    BY <1>4, AtVerb DEF IInv, GuardLines
  <2> QED
    BY <1>4, <2>1, RunsCertain, ForwardStops
<1>5. ASSUME action = "running", Verb # "record", Fail, UNCHANGED <<plan, late>>
      PROVE  Stops'
  BY <1>5, FailStops
<1>6. ASSUME action = "running", Verb # "guard" PROVE certain
  BY <1>6, RunsCertain
<1>7. ASSUME Bind \/ Begin PROVE Stops'
  BY <1>4, <1>5, <1>6, <1>7 DEF Bind, Begin, At, Continue
<1>8. ASSUME RecordNext PROVE Stops'
  BY <1>4, <1>8, FailStops DEF RecordNext, At, Continue
<1>9. ASSUME ForgetNative \/ Start PROVE Stops'
  BY <1>4, <1>5, <1>6, <1>9 DEF ForgetNative, Start, At
<1>10. ASSUME Send PROVE Stops'
  <2>1. action = "running" /\ Verb = "send" /\ certain /\ UNCHANGED <<plan, late>>
    BY <1>6, <1>10 DEF Send, At
  <2>2. CASE Fail
    BY <1>5, <2>1, <2>2
  <2>3. CASE Continue /\ certain'
    BY <1>4, <2>1, <2>3 DEF Continue
  <2> QED
    BY <1>10, <2>1, <2>2, <2>3 DEF Send
<1>11. ASSUME Answer \/ TurnCompletes \/ BeginClose \/ ClosedNaturally PROVE Stops'
  BY <1>4, <1>6, <1>11 DEF Answer, TurnCompletes, BeginClose, ClosedNaturally, At, Continue
<1>12. ASSUME CallEnds PROVE Stops'
  <2>1. over = "no" /\ certain /\ timer # "holding" /\ cancelling # "holding"
    BY <1>12, RunsCertain DEF CallEnds
  <2>2. Verb' = Verb /\ line' = line
    BY <1>12, Stays DEF CallEnds
  <2> QED
    BY <1>12, <2>1, <2>2 DEF IInv, Stops, CallEnds, Live, stopVars
<1>13. ASSUME Settle PROVE Stops'
  <2>1. CASE Fail
    BY <1>5, <1>13, <2>1 DEF Settle, At
  <2>2. CASE ~Fail
    <3>1. Rec!SettleExternal(Executor)
      BY <1>13, <2>2 DEF Settle
    <3>2. Exists' /\ Row'.settled
      BY <3>1, SettleEffect DEF IInv
    <3>3. Verb' = Verb
      BY <1>13, <2>2, Stays DEF Settle
    <3> QED
      BY <1>13, <2>2, <3>2, <3>3 DEF IInv, Stops, Settle, At, nativeVars
  <2> QED
    BY <2>1, <2>2
<1>14. ASSUME HoldEnds \/ TimerHolds \/ CancelHolds PROVE Stops'
  <2>1. over # "crashed"
    BY <1>14 DEF IInv, Stops, HoldEnds, TimerHolds, CancelHolds
  <2> QED
    BY <1>14, <2>1, HoldStops
       DEF IInv, Stops, HoldEnds, TimerHolds, CancelHolds, stopVars, nativeVars
<1>15. ASSUME Deadline PROVE Stops'
  <2>1. Verb' = Verb /\ line' = line
    BY <1>15, Stays DEF Deadline, callVars
  <2>2. Exists' = Exists /\ Row' = Row
    BY <1>15 DEF Deadline, recorderVars, Exists, Row
  <2> QED
    BY <1>15, <2>1, <2>2 DEF IInv, Stops, Deadline, Live, callVars, stopVars, nativeVars
<1>16. ASSUME TimerFires \/ CancelAsked PROVE Stops'
  <2>1. Verb' = Verb /\ line' = line
    BY <1>16, Stays DEF TimerFires, CancelAsked, callVars
  <2>2. over # "crashed" /\ (action = "running" => line \notin {47, 75, 76})
    BY <1>16, FreeLines DEF TimerFires, CancelAsked, IInv, Stops
  <2>3. Exists' = Exists /\ Row' = Row
    BY <1>16 DEF TimerFires, CancelAsked, recorderVars, Exists, Row
  <2> QED
    BY <1>16, <2>1, <2>2, <2>3 DEF IInv, Stops, TimerFires, CancelAsked, Live, callVars
<1>17. ASSUME TimerGoesOn \/ CancelGoesOn PROVE Stops'
  <2>1. Verb' = Verb /\ line' = line
    BY <1>17, Stays DEF TimerGoesOn, CancelGoesOn, callVars
  <2>2. action = "running" => line \notin {47, 75, 76}
    BY <1>17, FreeLines DEF TimerGoesOn, CancelGoesOn
  <2>3. Exists' = Exists /\ Row' = Row
    BY <1>17 DEF TimerGoesOn, CancelGoesOn, recorderVars, Exists, Row
  <2> QED
    BY <1>17, <2>1, <2>2, <2>3
       DEF IInv, Stops, TimerGoesOn, CancelGoesOn, HandlerGoesOn, AfterClose, Live, callVars,
           nativeVars
<1>18. ASSUME NEW g \in {1, 2}, FactoryAnswers(g) PROVE Stops'
  <2>1. CASE At("open") /\ Advance
    BY <1>4, <1>6, <1>18, <2>1 DEF FactoryAnswers, At
  <2>2. CASE UNCHANGED <<native, callVars>>
    <3>1. Verb' = Verb /\ line' = line
      BY <1>18, <2>2, Stays DEF FactoryAnswers, callVars
    <3>2. over # "crashed"
      BY <1>18 DEF IInv, Stops, FactoryAnswers
    <3>3. Exists' = Exists /\ Row' = Row
      BY <1>18 DEF FactoryAnswers, recorderVars, Exists, Row
    <3> QED
      BY <1>18, <2>2, <3>1, <3>2, <3>3
         DEF IInv, Stops, FactoryAnswers, Live, callVars, stopVars
  <2> QED
    BY <1>18, <2>1, <2>2 DEF FactoryAnswers
<1>19. ASSUME NEW g \in {1, 2}, ProcessEnds(g) \/ ProcessDies(g) PROVE Stops'
  <2>1. Verb' = Verb /\ line' = line
    BY <1>19, Stays DEF ProcessEnds, ProcessDies, Unrelated, callVars
  <2>2. \A h \in {1, 2} : proc'[h] \in {proc[h], "closed", "killed"}
    BY <1>19 DEF ProcessEnds, ProcessDies, IInv, TypeOK, Gone
  <2>3. Exists' = Exists /\ Row' = Row
    BY <1>19 DEF ProcessEnds, ProcessDies, Unrelated, recorderVars, Exists, Row
  <2> QED
    BY <1>19, <2>1, <2>2, <2>3
       DEF IInv, Stops, ProcessEnds, ProcessDies, Unrelated, Live, callVars, stopVars
<1>20. ASSUME TurnEnds PROVE Stops'
  <2>1. Verb' = Verb /\ line' = line
    BY <1>20, Stays DEF TurnEnds, Unrelated, callVars
  <2> QED
    BY <1>20, <2>1 DEF IInv, Stops, TurnEnds, Unrelated, Live, callVars, stopVars, recorderVars,
                       Exists, Row
<1>21. ASSUME Crash PROVE Stops'
  <2>1. \A h \in {1, 2} : proc'[h] \notin {"starting", "open"}
    BY <1>21 DEF Crash, Alive
  <2> QED
    BY <1>21, <2>1 DEF IInv, Stops, Crash
<1>22. ASSUME ReviewerActs PROVE Stops'
  <2>1. Verb' = Verb /\ line' = line
    BY <1>22, Stays DEF ReviewerActs, callVars
  <2>2. (Exists /\ Row.settled) => (Exists' /\ Row'.settled)
    BY <1>22, SettledKept DEF Next
  <2> QED
    BY <1>22, <2>1, <2>2 DEF IInv, Stops, ReviewerActs, Live, callVars, stopVars, nativeVars
<1> QED
  BY <1>1, <1>2, <1>3, <1>7, <1>8, <1>9, <1>10, <1>11, <1>12, <1>13, <1>14, <1>15, <1>16, <1>17,
     <1>18, <1>19, <1>20, <1>21, <1>22 DEF Next, CallSteps, Answers, Ends

(***************************************************************************)
(* The processes and what was sent to them.                                *)
(***************************************************************************)
Softly == \A g \in {1, 2} : \/ proc'[g] = proc[g]
                            \/ proc[g] \in Alive /\ proc'[g] \in {"closing", "closed", "killed"}

(* Where the call stands still the processes only end.                      *)
LEMMA StillNatives ==
  ASSUME IInv, UNCHANGED <<plan, pc, native>>, Softly PROVE Natives'
<1>1. line' = line
  BY Stays
<1>2. line > 73 => native \in {1, 2}
  BY AtLine DEF IInv, Natives, Last
<1>3. \A g \in {1, 2} : /\ proc[g] = "unborn" => proc'[g] = "unborn"
                        /\ proc[g] = "closed" => proc'[g] = "closed"
                        /\ proc[g] \notin {"unborn", "starting"} =>
                             proc'[g] \notin {"unborn", "starting"}
                        /\ proc[g] \notin {"unborn", "open"} =>
                             proc'[g] \notin {"unborn", "open"}
  BY DEF Softly, Alive
<1>4. line' > 73 => proc'[native'] = "closed"
  BY <1>1, <1>2, <1>3 DEF IInv, Natives
<1>5. native' = IF line' <= 8 THEN 0
                ELSE IF plan' = "read-only" \/ line' <= 34 THEN 1
                ELSE IF line' <= 37 THEN 0 ELSE 2
  BY <1>1 DEF IInv, Natives
<1> QED
  BY <1>1, <1>3, <1>4, <1>5 DEF IInv, Natives

LEMMA StillEffects ==
  ASSUME IInv, UNCHANGED <<plan, pc, native>>,
         \/ effect' = effect
         \/ {effect, effect'} \subseteq {"running", "completed", "stopped"},
         effect' = "running" => proc'[native] \in {"open", "closing"}
  PROVE  Effects'
<1>1. line' = line
  BY Stays
<1> QED
  BY <1>1 DEF IInv, Effects

(* Where the call goes on, outside the lines that start or forget a         *)
(* process.                                                                 *)
LEMMA ForwardNatives ==
  ASSUME IInv, pc' = pc + 1, UNCHANGED <<plan, native>>, Softly,
         line \notin {7, 8, 34, 36, 37, 76}, line \in {32, 73} => proc[native] = "closed"
  PROVE  Natives'
<1>1. /\ line' = IF plan = "read-only" /\ line = 28 THEN 46 ELSE line + 1
      /\ line \in 1..76 /\ (plan = "read-only" => line \notin 29..45)
      /\ plan \in Plans
  BY AtLine, Advances, AtVerb DEF IInv, Last
<1>2. \A g \in {1, 2} : /\ proc[g] = "unborn" => proc'[g] = "unborn"
                        /\ proc[g] = "closed" => proc'[g] = "closed"
                        /\ proc[g] \notin {"unborn", "starting"} =>
                             proc'[g] \notin {"unborn", "starting"}
  BY DEF Softly, Alive
<1>3. line > 8 => native \in {0, 1, 2}
  BY DEF IInv, Natives
<1>4. native' = IF line' <= 8 THEN 0
                ELSE IF plan = "read-only" \/ line' <= 34 THEN 1
                ELSE IF line' <= 37 THEN 0 ELSE 2
  BY <1>1 DEF IInv, Natives
<1>5. /\ line' <= 7 => proc'[1] = "unborn"
      /\ line' = 8 => proc'[1] \notin {"unborn", "open"}
      /\ line' > 8 => proc'[1] \notin {"unborn", "starting"}
  BY <1>1, <1>2 DEF IInv, Natives
<1>6. /\ plan = "read-only" \/ line' <= 36 => proc'[2] = "unborn"
      /\ plan # "read-only" /\ line' = 37 => proc'[2] \notin {"unborn", "open"}
      /\ plan # "read-only" /\ line' > 37 => proc'[2] \notin {"unborn", "starting"}
  BY <1>1, <1>2 DEF IInv, Natives
<1>7. plan # "read-only" /\ line' > 32 => proc'[1] = "closed"
  BY <1>1, <1>2 DEF IInv, Natives
<1>8. line' > 73 => proc'[native'] = "closed"
  BY <1>1, <1>2 DEF IInv, Natives
<1> QED
  BY <1>4, <1>5, <1>6, <1>7, <1>8 DEF Natives

LEMMA ForwardEffects ==
  ASSUME IInv, pc' = pc + 1, UNCHANGED plan, line # 76,
         \/ effect' = effect /\ line \notin {13, 14, 20, 25, 42, 43, 50, 55, 63, 68}
         \/ effect' = "request" /\ line \in {13, 42}
         \/ effect' = "running" /\ line \in TurnSends
         \/ effect' = "none" /\ line \in {14, 43, 25, 55, 68},
         effect' = "running" => proc'[native'] \in {"open", "closing"}
  PROVE  Effects'
<1>1. /\ line' = IF plan = "read-only" /\ line = 28 THEN 46 ELSE line + 1
      /\ line \in 1..76 /\ (plan = "read-only" => line \notin 29..45)
  BY AtLine, Advances, AtVerb DEF IInv, Last
<1>2. effect' = "request" <=> line' \in {14, 43}
  BY <1>1 DEF IInv, Effects, TurnSends
<1>3. effect' \in {"running", "completed", "stopped"} <=> line' \in TurnEffects
  BY <1>1 DEF IInv, Effects, TurnSends, TurnEffects
<1> QED
  BY <1>2, <1>3 DEF Effects

(* Closing a process, in whatever state it is, is soft.                      *)
LEMMA CloseSoftly ==
  ASSUME IInv, CloseNative, UNCHANGED native
  PROVE  /\ Softly
         /\ effect = "running" => proc'[native] \in {"open", "closing"}
<1>1. CASE native # 0 /\ promise = 0
  <2>1. native \in {1, 2} /\ proc \in [{1, 2} -> Alive \cup Gone \cup {"unborn"}]
    BY <1>1 DEF IInv, TypeOK
  <2>2. proc' = [proc EXCEPT ![native] = IF @ = "open" THEN "closing" ELSE @]
    BY <1>1 DEF CloseNative
  <2> QED
    BY <2>1, <2>2 DEF IInv, Effects, Softly, Alive
<1>2. CASE ~(native # 0 /\ promise = 0)
  BY <1>2 DEF CloseNative, IInv, Effects, Softly
<1> QED
  BY <1>1, <1>2

LEMMA FailNatives ==
  ASSUME IInv, Fail, UNCHANGED <<plan, effect>> PROVE Natives' /\ Effects'
<1>1. UNCHANGED <<plan, pc, native>>
  BY DEF Fail
<1>2. Softly /\ (effect = "running" => proc'[native] \in {"open", "closing"})
  BY CloseSoftly DEF Fail
<1> QED
  BY <1>1, <1>2, StillNatives, StillEffects

(* The lines at which a process is forgotten, started and answers.          *)
LEMMA ForgetNatives ==
  ASSUME IInv, ForgetNative PROVE Natives' /\ Effects'
<1>1. CASE ~Live
  BY <1>1, FailNatives DEF ForgetNative
<1>2. CASE Live
  <2>1. /\ pc' = pc + 1 /\ native' = 0 /\ UNCHANGED <<plan, proc, effect>> /\ line \in {5, 34}
        /\ plan = "read-only" => line = 5
    BY <1>2, AtVerb, AtLine DEF IInv, ForgetNative, At, Advance
  <2>2. line' = line + 1
    BY <2>1, Advances, AtVerb DEF IInv
  <2>3. Natives'
    BY <2>1, <2>2 DEF IInv, Natives
  <2>4. effect # "running"
    BY <2>1 DEF IInv, Effects, TurnEffects
  <2>5. Effects'
    BY <2>1, <2>4, ForwardEffects
  <2> QED
    BY <2>3, <2>5
<1> QED
  BY <1>1, <1>2

LEMMA StartNatives ==
  ASSUME IInv, Start PROVE Natives' /\ Effects'
<1>1. CASE ~Live
  BY <1>1, FailNatives DEF Start
<1>2. CASE Live
  <2> DEFINE g == IF proc[1] = "unborn" THEN 1 ELSE 2
  <2>1. /\ pc' = pc + 1 /\ UNCHANGED <<plan, native, effect>> /\ line \in {7, 36}
        /\ plan = "read-only" => line = 7
        /\ proc' = [proc EXCEPT ![g] = "starting"]
    BY <1>2, AtVerb, AtLine DEF IInv, Start, At, Advance
  <2>2. line' = line + 1
    BY <2>1, Advances, AtVerb DEF IInv
  <2>3. g = IF line = 7 THEN 1 ELSE 2
    BY <2>1 DEF IInv, Natives
  <2>4. proc \in [{1, 2} -> Alive \cup Gone \cup {"unborn"}]
    BY DEF IInv, TypeOK
  <2>5. Natives'
    BY <2>1, <2>2, <2>3, <2>4 DEF IInv, Natives
  <2>6. effect # "running"
    BY <2>1 DEF IInv, Effects, TurnEffects
  <2>7. Effects'
    BY <2>1, <2>6, ForwardEffects
  <2> QED
    BY <2>5, <2>7
<1> QED
  BY <1>1, <1>2

LEMMA FactoryNatives ==
  ASSUME IInv, NEW g \in {1, 2}, FactoryAnswers(g) PROVE Natives' /\ Effects'
<1>1. proc \in [{1, 2} -> Alive \cup Gone \cup {"unborn"}] /\ proc[g] = "starting"
  BY DEF IInv, TypeOK, FactoryAnswers
<1>2. CASE At("open") /\ native' = g /\ Advance /\ proc' = [proc EXCEPT ![g] = "open"]
  <2>1. /\ pc' = pc + 1 /\ UNCHANGED <<plan, effect>> /\ line \in {8, 37}
        /\ plan = "read-only" => line = 8
    BY <1>2, AtVerb, AtLine DEF IInv, FactoryAnswers, At, Advance
  <2>2. line' = line + 1
    BY <2>1, Advances, AtVerb DEF IInv
  <2>3. g = IF line = 8 THEN 1 ELSE 2
    BY <1>1, <2>1 DEF IInv, Natives
  <2>4. Natives'
    BY <1>1, <1>2, <2>1, <2>2, <2>3 DEF IInv, Natives
  <2>5. effect # "running"
    BY <2>1 DEF IInv, Effects, TurnEffects
  <2>6. Effects'
    BY <2>1, <2>5, ForwardEffects
  <2> QED
    BY <2>4, <2>6
<1>3. CASE /\ UNCHANGED <<native, callVars>>
           /\ \E how \in {"closing", "killed"} : proc' = [proc EXCEPT ![g] = how]
  <2>1. Softly
    BY <1>1, <1>3 DEF Softly, Alive
  <2>2. UNCHANGED <<plan, pc, native, effect>>
    BY <1>3 DEF FactoryAnswers, callVars
  <2>3. effect = "running" => proc'[native] \in {"open", "closing"}
    BY <1>1, <1>3 DEF IInv, Effects
  <2> QED
    BY <2>1, <2>2, <2>3, StillNatives, StillEffects
<1> QED
  BY <1>2, <1>3 DEF FactoryAnswers

(* The actions after which the call stands where it stood.                   *)
LEMMA StillSteps ==
  ASSUME IInv, Next, pc' = pc
  PROVE  /\ UNCHANGED <<plan, native>> /\ Softly
         /\ \/ effect' = effect
            \/ {effect, effect'} \subseteq {"running", "completed", "stopped"}
         /\ effect' = "running" => effect = "running" /\ proc'[native] \in {"open", "closing"}
         /\ NativeClosed => NativeClosed' /\ (ClosedByItself' <=> ClosedByItself)
<1> DEFINE Kept == /\ UNCHANGED <<plan, native>> /\ Softly
                   /\ \/ effect' = effect
                      \/ {effect, effect'} \subseteq {"running", "completed", "stopped"}
                   /\ effect' = "running" =>
                        effect = "running" /\ proc'[native] \in {"open", "closing"}
                   /\ NativeClosed => NativeClosed' /\ (ClosedByItself' <=> ClosedByItself)
<1>1. ASSUME UNCHANGED <<plan, native, effect>>, CloseNative PROVE Kept
  <2>1. Softly /\ (effect = "running" => proc'[native] \in {"open", "closing"})
    BY <1>1, CloseSoftly
  <2>2. NativeClosed => UNCHANGED <<promise, proc>>
    BY <1>1 DEF CloseNative, NativeClosed
  <2>3. NativeClosed => NativeClosed' /\ (ClosedByItself' <=> ClosedByItself)
    BY <1>1, <2>2 DEF NativeClosed, ClosedByItself
  <2> QED
    BY <1>1, <2>1, <2>3
<1>2. ASSUME UNCHANGED <<plan, nativeVars, effect>> PROVE Kept
  <2>1. Softly /\ (effect = "running" => proc'[native] \in {"open", "closing"})
    BY <1>2 DEF IInv, Effects, Softly, nativeVars
  <2>2. NativeClosed => NativeClosed' /\ (ClosedByItself' <=> ClosedByItself)
    BY <1>2 DEF NativeClosed, ClosedByItself, nativeVars
  <2> QED
    BY <1>2, <2>1, <2>2 DEF nativeVars
<1>3. ASSUME Fail, UNCHANGED <<plan, effect>> PROVE Kept
  BY <1>1, <1>3 DEF Fail
<1>4. ~Advance
  BY DEF Advance, IInv, TypeOK
<1>5. ASSUME \/ Call \/ GuardHolds \/ AwaitFails \/ Bind \/ Begin \/ RecordNext
             \/ ForgetNative \/ Start \/ Send \/ Answer \/ TurnCompletes \/ BeginClose
             \/ ClosedNaturally \/ Settle
      PROVE  Kept
  <2>1. ~Call
    BY DEF Call, IInv, TypeOK
  <2>2. \/ Fail /\ UNCHANGED <<plan, effect>>
        \/ UNCHANGED <<plan, nativeVars, effect>>
    BY <1>4, <1>5, <2>1
       DEF GuardHolds, AwaitFails, Bind, Begin, RecordNext, ForgetNative, Start, Send, Answer,
           TurnCompletes, BeginClose, ClosedNaturally, Settle, Continue
  <2> QED
    BY <1>2, <1>3, <2>2
<1>6. ASSUME CallEnds \/ HoldEnds \/ TimerHolds \/ CancelHolds \/ Deadline \/ TimerGoesOn
                \/ CancelGoesOn \/ ReviewerActs
      PROVE  Kept
  BY <1>2, <1>6 DEF CallEnds, HoldEnds, TimerHolds, CancelHolds, Deadline, TimerGoesOn,
                    CancelGoesOn, ReviewerActs
<1>7. ASSUME TimerFires \/ CancelAsked PROVE Kept
  BY <1>1, <1>7 DEF TimerFires, CancelAsked
<1>8. ASSUME NEW g \in {1, 2}, NEW how \in {"closing", "closed", "killed"},
             UNCHANGED <<plan, native, promise>>,
             proc[g] \in Alive, proc' = [proc EXCEPT ![g] = how]
      PROVE  /\ Softly
             /\ NativeClosed => NativeClosed' /\ (ClosedByItself' <=> ClosedByItself)
  <2>1. \A h \in {1, 2} : proc'[h] = IF h = g THEN how ELSE proc[h]
    BY <1>8 DEF IInv, TypeOK
  <2>2. promise # 0 => promise \in {1, 2}
    BY DEF IInv, TypeOK
  <2>3. NativeClosed /\ native # 0 => promise # g
    BY <1>8 DEF NativeClosed, Alive, Gone
  <2>4. NativeClosed => NativeClosed' /\ (ClosedByItself' <=> ClosedByItself)
    BY <1>8, <2>1, <2>2, <2>3 DEF NativeClosed, ClosedByItself
  <2> QED
    BY <1>8, <2>1, <2>4 DEF Softly
<1>9. ASSUME NEW g \in {1, 2}, FactoryAnswers(g) PROVE Kept
  <2>1. /\ UNCHANGED <<plan, native, promise, effect>> /\ proc[g] = "starting"
        /\ \E how \in {"closing", "killed"} : proc' = [proc EXCEPT ![g] = how]
    BY <1>4, <1>9 DEF FactoryAnswers
  <2>2. effect = "running" => proc'[native] \in {"open", "closing"}
    BY <2>1 DEF IInv, Effects
  <2> QED
    BY <1>8, <2>1, <2>2 DEF Alive
<1>10. ASSUME NEW g \in {1, 2}, ProcessEnds(g) \/ ProcessDies(g) PROVE Kept
  <2>1. /\ UNCHANGED <<plan, native, promise>> /\ proc[g] \in {"open", "closing"}
        /\ \E how \in Gone : proc' = [proc EXCEPT ![g] = how]
        /\ effect' = IF effect = "running" THEN "stopped" ELSE effect
    BY <1>10 DEF ProcessEnds, ProcessDies, TurnStops, Unrelated
  <2> QED
    BY <1>8, <2>1 DEF Alive, Gone
<1>11. ASSUME TurnEnds PROVE Kept
  BY <1>11 DEF TurnEnds, Unrelated, Softly, NativeClosed, ClosedByItself
<1>12. ASSUME Crash PROVE Kept
  <2>1. /\ UNCHANGED <<plan, native, promise, effect>>
        /\ proc' = [h \in {1, 2} |-> IF proc[h] \in Alive THEN "closing" ELSE proc[h]]
    BY <1>12 DEF Crash
  <2>2. effect = "running" => proc'[native] \in {"open", "closing"}
    <3>1. effect = "running" => native \in {1, 2} /\ proc[native] \in {"open", "closing"}
      BY AtLine DEF IInv, Effects, Natives, TurnEffects, Last
    <3> QED
      BY <2>1, <3>1 DEF Alive
  <2>3. promise # 0 => promise \in {1, 2}
    BY DEF IInv, TypeOK
  <2>4. NativeClosed => NativeClosed' /\ (ClosedByItself' <=> ClosedByItself)
    BY <2>1, <2>3 DEF NativeClosed, ClosedByItself, Alive, Gone
  <2> QED
    BY <2>1, <2>2, <2>4 DEF Softly
<1> HIDE DEF Kept
<1>13. Kept
  BY <1>5, <1>6, <1>7, <1>9, <1>10, <1>11, <1>12 DEF Next, CallSteps, Answers, Ends
<1> QED
  BY <1>13 DEF Kept

(* Every step keeps Natives and Effects.                                    *)
LEMMA StepNatives ==
  ASSUME IInv, Next PROVE Natives' /\ Effects'
<1> DEFINE Kept == Natives' /\ Effects'
<1>1. CASE pc' = pc
  <2>1. Natives'
    BY <1>1, StillSteps, StillNatives
  <2>2. Effects'
    BY <1>1, StillSteps, StillEffects
  <2> QED
    BY <2>1, <2>2
<1>2. ASSUME pc' = pc + 1, UNCHANGED <<plan, nativeVars, effect>>,
             Verb \in {"rest", "guard", "bind", "begin", "record"}
      PROVE  Kept
  <2>1. line \notin {5, 34, 7, 36, 8, 37, 13, 20, 42, 50, 63, 14, 43, 25, 55, 68, 32, 73, 76}
    BY <1>2, AtVerb DEF IInv
  <2>2. Softly /\ (effect' = "running" => proc'[native'] \in {"open", "closing"})
    BY <1>2 DEF IInv, Effects, Softly, nativeVars
  <2>3. Natives'
    BY <1>2, <2>1, <2>2, ForwardNatives DEF nativeVars
  <2>4. Effects'
    BY <1>2, <2>1, <2>2, ForwardEffects
  <2> QED
    BY <2>3, <2>4
<1>3. ASSUME Call PROVE Kept
  BY <1>2, <1>3 DEF Call
<1>4. ASSUME Fail PROVE Kept
  BY <1>1, <1>4 DEF Fail
<1>5. ASSUME GuardHolds \/ AwaitFails \/ Bind \/ Begin \/ RecordNext PROVE Kept
  BY <1>2, <1>4, <1>5
     DEF GuardHolds, AwaitFails, Bind, Begin, RecordNext, At, Continue, Advance
<1>6. ASSUME ForgetNative PROVE Kept
  BY <1>6, ForgetNatives
<1>7. ASSUME Start PROVE Kept
  BY <1>7, StartNatives
<1>8. ASSUME NEW g \in {1, 2}, FactoryAnswers(g) PROVE Kept
  BY <1>8, FactoryNatives
<1>9. ASSUME Send PROVE Kept
  <2>1. CASE Continue /\ \/ What = "turn" /\ effect' = "running"
                         \/ What # "turn" /\ effect' = "request"
    <3>1. /\ line \in {13, 20, 42, 50, 63} /\ (What = "turn" <=> line \in TurnSends)
          /\ pc' = pc + 1 /\ UNCHANGED <<plan, nativeVars>> /\ proc[native] = "open"
      BY <1>9, <2>1, AtVerb, RequestTexts DEF IInv, Send, At, Continue, Advance
    <3>2. Softly /\ proc'[native'] = "open"
      BY <3>1 DEF Softly, nativeVars
    <3>3. Natives'
      BY <3>1, <3>2, ForwardNatives DEF nativeVars
    <3>4. Effects'
      BY <2>1, <3>1, <3>2, ForwardEffects DEF TurnSends
    <3> QED
      BY <3>3, <3>4
  <2> QED
    BY <1>4, <1>9, <2>1 DEF Send
<1>10. ASSUME Answer PROVE Kept
  <2>1. /\ line \in {14, 21, 43, 51, 64} /\ (What = "turn" <=> line \in {21, 51, 64})
        /\ pc' = pc + 1 /\ UNCHANGED <<plan, nativeVars>>
        /\ effect' = IF What = "turn" THEN effect ELSE "none"
    BY <1>10, AtVerb, RequestTexts DEF IInv, Answer, At, Continue, Advance
  <2>2. Softly /\ (effect' = "running" => proc'[native'] \in {"open", "closing"})
    BY <2>1 DEF IInv, Effects, Softly, nativeVars
  <2>3. Natives'
    BY <2>1, <2>2, ForwardNatives DEF nativeVars
  <2>4. Effects'
    BY <2>1, <2>2, ForwardEffects
  <2> QED
    BY <2>3, <2>4
<1>11. ASSUME TurnCompletes PROVE Kept
  <2>1. /\ line \in {25, 55, 68} /\ effect' = "none"
        /\ pc' = pc + 1 /\ UNCHANGED <<plan, nativeVars>>
    BY <1>11, AtVerb DEF IInv, TurnCompletes, At, Continue, Advance
  <2>2. Softly
    BY <2>1 DEF Softly, nativeVars
  <2> QED
    BY <2>1, <2>2, ForwardNatives, ForwardEffects DEF nativeVars
<1>12. ASSUME BeginClose PROVE Kept
  <2>1. /\ line \in {31, 72} /\ pc' = pc + 1 /\ UNCHANGED <<plan, native, effect>> /\ CloseNative
    BY <1>12, AtVerb DEF IInv, BeginClose, At, Advance
  <2>2. Softly /\ (effect = "running" => proc'[native] \in {"open", "closing"})
    BY <2>1, CloseSoftly
  <2> QED
    BY <2>1, <2>2, ForwardNatives, ForwardEffects
<1>13. ASSUME ClosedNaturally PROVE Kept
  <2>1. /\ line \in {32, 73} /\ pc' = pc + 1 /\ UNCHANGED <<plan, nativeVars, effect>>
        /\ proc[native] = "closed"
    BY <1>13, AtVerb DEF IInv, TypeOK, ClosedNaturally, ClosedByItself, At, Continue, Advance
  <2>2. Softly /\ (effect' = "running" => proc'[native'] \in {"open", "closing"})
    BY <2>1 DEF IInv, Effects, Softly, nativeVars
  <2> QED
    BY <2>1, <2>2, ForwardNatives, ForwardEffects DEF nativeVars
<1>14. ASSUME \/ CallEnds \/ Settle \/ HoldEnds \/ Deadline \/ TimerFires \/ TimerGoesOn
              \/ TimerHolds \/ CancelAsked \/ CancelGoesOn \/ CancelHolds \/ Ends
              \/ (\E g \in {1, 2} : ProcessDies(g)) \/ TurnEnds \/ Crash \/ ReviewerActs
       PROVE  pc' = pc
  BY <1>14 DEF CallEnds, Settle, Fail, HoldEnds, Deadline, TimerFires, TimerGoesOn, TimerHolds,
               CancelAsked, CancelGoesOn, CancelHolds, Ends, ProcessEnds, ProcessDies, TurnEnds,
               Unrelated, Crash, ReviewerActs, callVars
<1> QED
  BY <1>1, <1>3, <1>5, <1>6, <1>7, <1>8, <1>9, <1>10, <1>11, <1>12, <1>13, <1>14
     DEF Next, CallSteps, Answers

(***************************************************************************)
(* The stored row, and the state the executor holds.                       *)
(***************************************************************************)
LEMMA SoftQuiet ==
  ASSUME Softly, effect' = "running" => effect = "running", Quiet PROVE Quiet'
  BY DEF Softly, Quiet

(* Where the recorder is left alone and the call stands still.               *)
LEMMA StillStored ==
  ASSUME IInv, UNCHANGED <<plan, pc, recorderVars>>, Quiet => Quiet', certain' => certain,
         action' = "running" => action = "running", over' = "no" => over = "no",
         action = "holding" => action' = "holding" \/ over' # "no"
  PROVE  Stored'
<1>1. line' = line /\ Verb' = Verb
  BY Stays
<1>2. Exists' = Exists /\ Row' = Row /\ Joined' = Joined /\ scope' = scope
  BY DEF recorderVars, Exists, Row, Joined
<1> QED
  BY <1>1, <1>2 DEF IInv, Stored

LEMMA StillKnown ==
  ASSUME IInv, UNCHANGED <<plan, pc, recorderVars>>, certain' => certain,
         over \in {"held", "crashed"} => over' \in {"held", "crashed"},
         NativeClosed => NativeClosed' /\ (ClosedByItself' <=> ClosedByItself)
  PROVE  Known'
<1>1. line' = line
  BY Stays
<1>2. Joined' = Joined /\ State' = State
  BY DEF recorderVars, Joined, State
<1> QED
  BY <1>1, <1>2 DEF IInv, Known

(* Where the call goes on without recording.                                 *)
LEMMA ForwardStored ==
  ASSUME IInv, pc' = pc + 1, UNCHANGED <<plan, over, transfer>>, view'[Executor] = view[Executor],
         over = "no", action # "holding", action' # "holding",
         line \notin RecordLines \cup TurnSends \cup {4, 76},
         line = 3 => scope'[Scope].writer = Source
  PROVE  Stored' /\ Known'
<1>1. /\ line' = IF plan = "read-only" /\ line = 28 THEN 46 ELSE line + 1
      /\ line \in 1..75 /\ plan \in Plans
  BY AtLine, Advances, AtVerb DEF IInv, Last
<1>2. Wanted(plan, line') = Wanted(plan, line)
  BY <1>1, WantedKept
<1>3. /\ certain
      /\ Exists => ~Row.settled
      /\ line > 4 => /\ Joined /\ State = Wanted(plan, line)
                     /\ Exists /\ Row.state = Wanted(plan, line)
  BY CallCertain
<1>4. Exists' = Exists /\ Row' = Row /\ Joined' = Joined /\ State' = State
  BY DEF Exists, Row, Joined, State
<1>5. line <= 3 => ~Exists /\ ~Joined
  BY <1>1 DEF IInv, Stored
<1>6. line > 4 => Row.state.phase # "held"
  BY <1>3 DEF IInv, Stored
<1>7. Stored'
  <2>1. CASE line <= 3
    BY <1>1, <1>4, <1>5, <2>1 DEF Stored
  <2>2. CASE line > 4
    BY <1>1, <1>2, <1>3, <1>4, <1>6, <2>2 DEF Stored
  <2> QED
    BY <1>1, <2>1, <2>2
<1>8. Known'
  <2>1. CASE line <= 3
    BY <1>4, <1>5, <2>1 DEF Known
  <2>2. CASE line > 4
    BY <1>2, <1>3, <1>4, <2>2 DEF Known
  <2> QED
    BY <1>1, <2>1, <2>2
<1> QED
  BY <1>7, <1>8

(* A record of the line it stands at, answered or not.                       *)
LEMMA RecordStored ==
  ASSUME IInv, RP!Inv', line \in RecordLines \cup TurnSends, over = "no", action = "running",
         NEW next \in RP!States, next = Wanted(plan, line + 1), Record(next),
         UNCHANGED <<plan, over>>,
         \/ certain' /\ pc' = pc + 1 /\ action' = "running"
         \/ ~certain' /\ pc' = pc /\ action' = "holding"
  PROVE  Stored' /\ Known'
<1>1. line \in 5..75 /\ plan \in Plans
  BY AtLine DEF IInv, RecordLines, TurnSends
<1>2. /\ Joined /\ Exists /\ ~Row.settled /\ Row.state = Wanted(plan, line)
  BY <1>1, CallCertain
<1>3. Verb \in {"record", "send"}
  BY AtVerb DEF IInv, TurnSends
<1>4. next.phase # "held"
  BY <1>1, WantedStates DEF Last
<1>5. \/ UNCHANGED recorderVars
      \/ Exists' /\ ~Row'.settled /\ Row'.state = next /\ Joined' /\ (view' = view \/ State' = next)
  BY CompareAndSetEffect DEF Record, IInv
<1>6. CASE certain' /\ pc' = pc + 1 /\ action' = "running"
  <2>1. line' = line + 1
    BY <1>1, <1>3, <1>6, Advances DEF IInv, RecordLines, TurnSends
  <2>2. Exists' /\ ~Row'.settled /\ Row'.state = next /\ Joined' /\ State' = next
    BY <1>5, <1>6 DEF Record, recorderVars
  <2>3. Stored'
    BY <1>1, <1>4, <1>6, <2>1, <2>2 DEF Stored
  <2>4. Known'
    BY <2>1, <2>2 DEF Known
  <2> QED
    BY <2>3, <2>4
<1>7. CASE ~certain' /\ pc' = pc /\ action' = "holding"
  <2>1. line' = line /\ Verb' = Verb
    BY <1>7, Stays
  <2>2. Exists' /\ ~Row'.settled /\ Joined' /\ Row'.state \in {Wanted(plan, line), next}
    BY <1>2, <1>5 DEF recorderVars, Exists, Row, Joined
  <2>3. Wanted(plan, line).phase # "held"
    BY <1>1, WantedStates DEF Last
  <2>4. Stored'
    BY <1>1, <1>3, <1>4, <1>7, <2>1, <2>2, <2>3 DEF Stored
  <2>5. Known'
    BY <1>7 DEF Known
  <2> QED
    BY <2>4, <2>5
<1> QED
  BY <1>6, <1>7

(* A process that closed by itself leaves nothing running.                   *)
LEMMA ClosedQuiet ==
  ASSUME IInv, ClosedByItself PROVE Quiet
<1>1. native \in {1, 2} /\ proc[native] = "closed"
  BY DEF IInv, TypeOK, ClosedByItself
<1>2. effect # "running"
  BY <1>1 DEF IInv, Effects
<1>3. CASE native = 1
  BY <1>1, <1>2, <1>3, AtLine DEF IInv, Natives, Quiet, Alive, Last
<1>4. CASE native = 2
  BY <1>1, <1>2, <1>4, AtLine DEF IInv, Natives, Quiet, Alive, Last
<1> QED
  BY <1>1, <1>3, <1>4

(* A hold that reaches the recorder stores the state of the line it stops at.*)
LEMMA HoldStored ==
  ASSUME IInv, RP!Inv', HoldRecords, UNCHANGED <<plan, pc, nativeVars, effect>>,
         over # "crashed", action \in {"idle", "running", "holding"},
         (timer = "holding" \/ cancelling = "holding") \/ action = "holding",
         action' \in {action, "idle"}
  PROVE  Stored' /\ Known'
<1>1. line' = line /\ Verb' = Verb
  BY Stays
<1>2. NativeClosed /\ over' = "held" /\ NativeClosed' /\ (ClosedByItself' <=> ClosedByItself)
        /\ (Quiet' <=> Quiet)
  BY DEF HoldRecords, NativeClosed, ClosedByItself, Quiet, nativeVars
<1>3. action' = "running" => line # 4
  BY AtVerb DEF IInv, Stops
<1>4. CASE UNCHANGED <<recorderVars, certain>> /\ ~(Joined /\ certain)
  <2>1. Exists' = Exists /\ Row' = Row /\ Joined' = Joined /\ scope' = scope
    BY <1>4 DEF recorderVars, Exists, Row, Joined
  <2>2. Stored'
    BY <1>1, <1>2, <1>3, <1>4, <2>1 DEF IInv, Stored
  <2> QED
    BY <1>4, <2>1, <2>2 DEF Known
<1>5. CASE Joined /\ certain /\ Record(Held(State))
  <2>1. PICK b \in BOOLEAN :
          /\ b <=> ClosedByItself
          /\ Held(State) = HeldAt(plan, line, b)
          /\ HeldAt(plan, line, b) \in RP!States
    BY <1>5, HoldAllowed
  <2>2. plan \in Plans /\ line \in 1..Last /\ line > 4
    BY <1>5, AtLine DEF IInv, Stored
  <2>3. HeldAt(plan, line, b).phase = "held" /\ HeldAt(plan, line, b).closed = b
    BY <2>1, <2>2, HeldStates
  <2>4. Verb # "record" /\ (b => Quiet)
    BY <1>5, <2>1, ClosedQuiet DEF IInv, Stops
  <2>5. CASE Rec!CompareAndSet(Executor, HeldAt(plan, line, b))
    <3>1. /\ Exists' /\ ~Row'.settled /\ Row'.state = HeldAt(plan, line, b)
          /\ view' = view \/ State' = HeldAt(plan, line, b)
      BY <2>1, <2>5, CompareAndSetEffect DEF IInv
    <3>2. Stored'
      BY <1>1, <1>2, <2>2, <2>3, <2>4, <3>1 DEF Stored
    <3>3. certain' => State' = HeldAt(plan, line, b)
      BY <1>5, <3>1 DEF Record
    <3>4. Known'
      BY <1>1, <1>2, <2>1, <2>3, <3>3 DEF Known
    <3> QED
      BY <3>2, <3>4
  <2>6. CASE UNCHANGED recorderVars
    <3>1. Exists' = Exists /\ Row' = Row /\ Joined' = Joined /\ scope' = scope /\ ~certain'
      BY <1>5, <2>6 DEF Record, recorderVars, Exists, Row, Joined
    <3>2. Stored'
      BY <1>1, <1>2, <1>5, <2>2, <3>1 DEF IInv, Stored
    <3> QED
      BY <3>1, <3>2 DEF Known
  <2> QED
    BY <1>5, <2>1, <2>5, <2>6 DEF Record
<1> QED
  BY <1>4, <1>5 DEF HoldRecords

(* The recording instructions keep the stored row and the state held.       *)
LEMMA BindStored ==
  ASSUME IInv, RP!Inv', Bind PROVE Stored' /\ Known'
<1>1. action = "running" /\ Verb = "bind" /\ line = 3
  BY AtVerb DEF IInv, Bind, At
<1>2. over = "no" /\ certain
  BY <1>1, RunsCertain
<1>3. ~Exists /\ ~Joined
  BY <1>1 DEF IInv, Stored
<1>4. /\ transfer' = transfer /\ (Joined' => Joined)
      /\ Continue => scope'[Scope].writer = Source
  <2>1. CASE Rec!BindScope(Executor, Scope, Source)
    BY <2>1, BindEffect DEF IInv
  <2>2. CASE UNCHANGED recorderVars /\ ~Rec!BindScope(Executor, Scope, Source)
    BY <1>2, <2>2 DEF Bind, Continue, Advance, Fail, recorderVars, Joined, IInv, TypeOK
  <2> QED
    BY <2>1, <2>2 DEF Bind
<1>5. Exists' = Exists /\ Row' = Row /\ ~Joined'
  BY <1>3, <1>4 DEF Exists, Row
<1>6. plan' = plan /\ (Continue \/ Fail)
  BY DEF Bind
<1>7. CASE Continue
  <2>1. pc' = pc + 1 /\ action' = "running" /\ over' = over
    BY <1>1, <1>7 DEF Continue, Advance
  <2>2. line' = 4
    BY <1>1, <1>6, <2>1, Advances DEF IInv
  <2>3. Stored'
    BY <1>3, <1>4, <1>5, <1>7, <2>2 DEF Stored
  <2> QED
    BY <1>5, <2>3 DEF Known
<1>8. CASE Fail
  <2>1. line' = 3
    BY <1>1, <1>6, <1>8, Stays DEF Fail
  <2>2. Stored'
    BY <1>3, <1>5, <2>1 DEF Stored
  <2> QED
    BY <1>5, <2>2 DEF Known
<1> QED
  BY <1>6, <1>7, <1>8

LEMMA BeginStored ==
  ASSUME IInv, RP!Inv', Begin PROVE Stored' /\ Known'
<1>1. action = "running" /\ Verb = "begin" /\ line = 4 /\ plan \in Plans
  BY AtVerb, AtLine DEF IInv, Begin, At
<1>2. over = "no" /\ certain
  BY <1>1, RunsCertain
<1>3. ~Exists /\ ~Joined /\ scope[Scope].writer = Source
  BY <1>1 DEF IInv, Stored
<1>4. plan' = plan /\ (Continue \/ Fail)
  BY DEF Begin
<1>5. CASE Rec!Begin(Executor, Scope, Transfer, "external") /\ view' # view /\ Continue
  <2>1. /\ Exists' /\ ~Row'.settled /\ Row'.state = Wanted(plan, 4)
        /\ Joined' /\ State' = Wanted(plan, 4)
    BY <1>1, <1>3, <1>5, BeginEffect, WantedBegun DEF IInv
  <2>2. pc' = pc + 1 /\ action' = "running" /\ over' = over
    BY <1>1, <1>5 DEF Continue, Advance
  <2>3. line' = 5
    BY <1>1, <1>4, <2>2, Advances DEF IInv
  <2>4. Wanted(plan, 4 + 1) = Wanted(plan, 4)
    BY <1>1, WantedKept DEF RecordLines, TurnSends
  <2>5. Wanted(plan, 5).phase # "held"
    BY <1>1, WantedStates DEF Last
  <2>6. Stored'
    BY <1>4, <2>1, <2>3, <2>4, <2>5 DEF Stored
  <2> QED
    BY <1>4, <2>1, <2>3, <2>4, <2>6 DEF Known
<1>6. CASE Fail
  <2>1. line' = 4 /\ action' = "holding" /\ Verb' = Verb
    BY <1>1, <1>4, <1>6, Stays DEF Fail
  <2>2. CASE Rec!Begin(Executor, Scope, Transfer, "external") /\ view' = view
    <3>1. Exists' /\ ~Row'.settled /\ Row'.state = Wanted(plan, 4) /\ ~Joined'
      BY <1>1, <1>3, <2>2, BeginEffect, WantedBegun DEF IInv, Joined
    <3>2. Wanted(plan, 4).phase # "held"
      BY <1>1, WantedStates DEF Last
    <3>3. Stored'
      BY <1>4, <2>1, <3>1, <3>2 DEF Stored
    <3> QED
      BY <3>1, <3>3 DEF Known
  <2>3. CASE UNCHANGED recorderVars
    <3>1. ~Exists' /\ ~Joined'
      BY <1>3, <2>3 DEF recorderVars, Exists, Row, Joined
    <3>2. Stored'
      BY <2>1, <3>1 DEF Stored
    <3> QED
      BY <3>1, <3>2 DEF Known
  <2>4. ~Continue
    BY <1>1, <1>6 DEF Continue, Advance, Fail
  <2> QED
    BY <2>2, <2>3, <2>4 DEF Begin
<1>7. \/ Rec!Begin(Executor, Scope, Transfer, "external") /\ view' # view /\ Continue
      \/ Fail
  BY DEF Begin
<1> QED
  BY <1>5, <1>6, <1>7

(* Where the call stands still and the recorder is left alone.               *)
LEMMA StandsStill ==
  ASSUME IInv, Next, pc' = pc, UNCHANGED recorderVars, certain' => certain,
         action' = "running" => action = "running", over' = "no" => over = "no",
         over \in {"held", "crashed"} => over' \in {"held", "crashed"},
         action = "holding" => action' = "holding" \/ over' # "no"
  PROVE  Stored' /\ Known'
<1>1. /\ UNCHANGED <<plan, native>> /\ Softly /\ (effect' = "running" => effect = "running")
      /\ NativeClosed => NativeClosed' /\ (ClosedByItself' <=> ClosedByItself)
  BY StillSteps
<1>2. Quiet => Quiet'
  BY <1>1, SoftQuiet
<1>3. Stored'
  BY <1>1, <1>2, StillStored
<1>4. Known'
  BY <1>1, StillKnown
<1> QED
  BY <1>3, <1>4

(* Where the call goes on and the recorder is left alone.                    *)
LEMMA GoesOn ==
  ASSUME IInv, pc' = pc + 1, UNCHANGED <<plan, over, recorderVars>>, over = "no",
         action # "holding", action' # "holding",
         Verb \notin {"bind", "begin", "record", "settle"},
         Verb = "send" => What # "turn"
  PROVE  Stored' /\ Known'
<1>1. line \notin RecordLines \cup {3, 4, 76}
  BY AtVerb DEF IInv
<1>2. line \notin TurnSends
  BY AtVerb, RequestTexts DEF IInv, TurnSends
<1>3. transfer' = transfer /\ view'[Executor] = view[Executor]
  BY DEF recorderVars
<1> QED
  BY <1>1, <1>2, <1>3, ForwardStored

LEMMA SettleStored ==
  ASSUME IInv, RP!Inv', Settle PROVE Stored' /\ Known'
<1>1. /\ action = "running" /\ Verb = "settle" /\ line = 76 /\ plan \in Plans
      /\ pc' = pc /\ UNCHANGED <<plan, certain, effect>>
  BY AtVerb, AtLine DEF IInv, Settle, At, Fail
<1>2. over = "no" /\ certain /\ Exists /\ State = Wanted(plan, line)
  BY <1>1, RunsCertain
<1>3. line' = line /\ Verb' = Verb
  BY <1>1, Stays
<1>4. Quiet
  BY <1>1 DEF IInv, Natives, Effects, TurnEffects, Quiet, Alive
<1>5. Quiet'
  BY <1>1, <1>4, StillSteps, SoftQuiet DEF Next, CallSteps
<1>6. CASE Rec!SettleExternal(Executor)
  <2>1. /\ Exists' /\ Row'.settled /\ Row'.state.phase = "external-completed"
        /\ view' = view \/ ~Joined'
    BY <1>6, SettleEffect DEF IInv
  <2>2. \/ view' # view /\ action' = "idle" /\ over' = "completed"
        \/ view' = view /\ action' = "holding" /\ over' = over
    BY <1>6 DEF Settle, Fail, recorderVars
  <2>3. Joined' => line > 4
    BY <1>1
  <2>4. Stored'
    <3>1. CASE view' # view /\ action' = "idle" /\ over' = "completed"
      BY <1>1, <1>3, <1>5, <2>1, <3>1 DEF Stored
    <3>2. CASE view' = view /\ action' = "holding" /\ over' = over
      <4>1. Joined' = Joined
        BY <3>2 DEF Joined
      <4> QED
        BY <1>1, <1>3, <1>5, <2>1, <3>2, <4>1 DEF Stored, IInv
    <3> QED
      BY <2>2, <3>1, <3>2
  <2>5. Known'
    BY <1>1, <1>2, <1>3, <2>1 DEF Known, State
  <2> QED
    BY <2>4, <2>5
<1>7. CASE UNCHANGED recorderVars
  <2>1. Fail
    BY <1>7 DEF Settle, recorderVars
  <2> QED
    BY <1>1, <1>2, <1>7, <2>1, StandsStill DEF Next, CallSteps, Fail
<1> QED
  BY <1>6, <1>7 DEF Settle

LEMMA ReviewerStored ==
  ASSUME IInv, RP!Inv', ReviewerActs PROVE Stored' /\ Known'
<1>1. /\ UNCHANGED <<plan, callVars, certain, nativeVars, effect>>
      /\ line' = line /\ Verb' = Verb /\ (Quiet' <=> Quiet)
      /\ NativeClosed' <=> NativeClosed
      /\ ClosedByItself' <=> ClosedByItself
  BY Stays DEF ReviewerActs, callVars, nativeVars, Quiet, NativeClosed, ClosedByItself
<1>2. /\ view'[Executor] = view[Executor]
      /\ \/ transfer' = transfer /\ (scope' = scope \/ scope[Scope].writer = None)
         \/ /\ Exists /\ ~Row.settled /\ Row.state.phase = "held" /\ Row.state.closed
            /\ Exists' /\ Row'.settled /\ Row'.state.phase # "held"
  BY ReviewerEffect DEF IInv
<1>3. Joined' = Joined /\ State' = State
  BY <1>2 DEF Joined, State
<1>4. Known'
  BY <1>1, <1>3 DEF IInv, Known, callVars
<1>5. CASE transfer' = transfer /\ (scope' = scope \/ scope[Scope].writer = None)
  <2>1. Exists' = Exists /\ Row' = Row
    BY <1>5 DEF Exists, Row
  <2>2. (line = 4 /\ action = "running") => scope'[Scope].writer = Source
    BY <1>5, RecorderAssumed DEF IInv, Stored
  <2>3. Stored'
    BY <1>1, <1>3, <2>1, <2>2 DEF IInv, Stored, callVars
  <2> QED
    BY <1>4, <2>3
<1>6. CASE /\ Exists /\ ~Row.settled /\ Row.state.phase = "held" /\ Row.state.closed
           /\ Exists' /\ Row'.settled /\ Row'.state.phase # "held"
  <2>1. over # "no" /\ Quiet
    BY <1>6 DEF IInv, Stored
  <2>2. Stored'
    BY <1>1, <1>3, <1>6, <2>1 DEF IInv, Stored, callVars
  <2> QED
    BY <1>4, <2>2
<1> QED
  BY <1>2, <1>5, <1>6

(* Every step keeps Stored and Known.                                       *)
LEMMA StepStored ==
  ASSUME IInv, RP!Inv', Next PROVE Stored' /\ Known'
<1> DEFINE Kept == Stored' /\ Known'
<1>1. ASSUME Fail, UNCHANGED <<recorderVars, certain>>, action = "running" PROVE Kept
  BY <1>1, StandsStill DEF Fail
<1>2. ASSUME Advance, UNCHANGED <<plan, recorderVars>>, action = "running", over = "no",
             Verb \notin {"bind", "begin", "record", "settle"}, Verb = "send" => What # "turn"
      PROVE  Kept
  BY <1>2, GoesOn DEF Advance
<1>3. ASSUME Call PROVE Kept
  BY <1>3, GoesOn DEF Call
<1>4. ASSUME GuardHolds PROVE Kept
  <2>1. action = "running" /\ Verb = "guard" /\ Live
    BY <1>4 DEF GuardHolds, At
  <2> QED
    BY <1>2, <1>4, <2>1, GuardsLive DEF GuardHolds, Continue
<1>5. ASSUME AwaitFails PROVE Kept
  BY <1>1, <1>5 DEF AwaitFails
<1>6. ASSUME Bind PROVE Kept
  BY <1>6, BindStored
<1>7. ASSUME Begin PROVE Kept
  BY <1>7, BeginStored
<1>8. ASSUME RecordNext PROVE Kept
  <2>1. /\ line \in RecordLines /\ Noted(State, What) = Wanted(plan, line + 1)
        /\ Noted(State, What) \in RP!States
    BY <1>8, RecordAllowed DEF RecordNext
  <2>2. /\ action = "running" /\ over = "no" /\ Record(Noted(State, What))
        /\ UNCHANGED <<plan, over>>
        /\ \/ certain' /\ pc' = pc + 1 /\ action' = "running"
           \/ ~certain' /\ pc' = pc /\ action' = "holding"
    BY <1>8, RunsCertain DEF RecordNext, At, Continue, Advance, Fail
  <2> QED
    BY <2>1, <2>2, RecordStored
<1>9. ASSUME Send PROVE Kept
  <2>1. action = "running" /\ Verb = "send" /\ over = "no" /\ plan' = plan
    BY <1>9, GuardsLive DEF Send, At
  <2>2. CASE What = "turn"
    <3>1. /\ line \in TurnSends /\ Noted(State, "sent") = Wanted(plan, line + 1)
          /\ Noted(State, "sent") \in RP!States
      BY <1>9, <2>2, SendAllowed DEF Send
    <3>2. /\ Record(Noted(State, "sent")) /\ UNCHANGED over
          /\ \/ certain' /\ pc' = pc + 1 /\ action' = "running"
             \/ ~certain' /\ pc' = pc /\ action' = "holding"
      BY <1>9, <2>1, <2>2 DEF Send, Continue, Advance, Fail
    <3> QED
      BY <2>1, <3>1, <3>2, RecordStored
  <2>3. CASE What # "turn"
    BY <1>2, <1>9, <2>1, <2>3 DEF Send, Continue
  <2> QED
    BY <2>2, <2>3
<1>10. ASSUME ForgetNative \/ Start \/ Answer \/ TurnCompletes \/ BeginClose \/ ClosedNaturally
       PROVE  Kept
  <2>1. /\ action = "running" /\ Verb \in {"live", "start", "answer", "terminal", "close", "closed"}
        /\ UNCHANGED <<plan, recorderVars, certain>> /\ (Advance \/ Fail)
    BY <1>10 DEF ForgetNative, Start, Answer, TurnCompletes, BeginClose, ClosedNaturally, At, Continue
  <2>2. over = "no"
    BY <2>1, RunsCertain
  <2> QED
    BY <1>1, <1>2, <2>1, <2>2
<1>11. ASSUME NEW g \in {1, 2}, FactoryAnswers(g) PROVE Kept
  <2>1. CASE At("open") /\ Advance
    <3>1. action = "running" /\ Verb = "open" /\ over = "no"
      BY <2>1, RunsCertain DEF At
    <3> QED
      BY <1>2, <1>11, <2>1, <3>1 DEF FactoryAnswers
  <2>2. CASE UNCHANGED callVars
    BY <1>11, <2>2, StandsStill DEF FactoryAnswers, callVars, Next, Answers
  <2> QED
    BY <1>11, <2>1, <2>2 DEF FactoryAnswers
<1>12. ASSUME Settle PROVE Kept
  BY <1>12, SettleStored
<1>13. ASSUME HoldEnds \/ TimerHolds \/ CancelHolds PROVE Kept
  <2>1. /\ HoldRecords /\ UNCHANGED <<plan, pc, nativeVars, effect>>
        /\ (timer = "holding" \/ cancelling = "holding") \/ action = "holding"
        /\ action' \in {action, "idle"}
    BY <1>13 DEF HoldEnds, TimerHolds, CancelHolds
  <2>2. over # "crashed" /\ action \in {"idle", "running", "holding"}
    BY <2>1 DEF IInv, Stops, TypeOK
  <2> QED
    BY <2>1, <2>2, HoldStored
<1>14. ASSUME \/ CallEnds \/ Deadline \/ TimerFires \/ TimerGoesOn \/ CancelAsked
              \/ CancelGoesOn \/ Ends \/ (\E g \in {1, 2} : ProcessDies(g)) \/ TurnEnds \/ Crash
       PROVE  Kept
  <2>1. /\ pc' = pc /\ UNCHANGED <<recorderVars, certain>>
        /\ action' = "running" => action = "running"
        /\ over' = "no" => over = "no"
        /\ over \in {"held", "crashed"} => over' \in {"held", "crashed"}
        /\ action = "holding" => action' = "holding" \/ over' # "no"
    BY <1>14 DEF CallEnds, Deadline, TimerFires, TimerGoesOn, CancelAsked, CancelGoesOn, Ends,
                 ProcessEnds, ProcessDies, TurnEnds, Unrelated, Crash, callVars
  <2> QED
    BY <2>1, StandsStill
<1>15. ASSUME ReviewerActs PROVE Kept
  BY <1>15, ReviewerStored
<1> QED
  BY <1>3, <1>4, <1>5, <1>6, <1>7, <1>8, <1>9, <1>10, <1>11, <1>12, <1>13, <1>14, <1>15
     DEF Next, CallSteps, Answers

(***************************************************************************)
(* The invariant holds throughout.                                         *)
(***************************************************************************)
LEMMA InitInv == Init => IInv
<1> SUFFICES ASSUME Init PROVE IInv
  OBVIOUS
<1>1. RP!Inv
  BY RecorderInit DEF Init
<1>2. TypeOK
  <2>1. plan \in Plans /\ pc = 1
    BY DEF Init
  <2>2. proc \in [{1, 2} -> Alive \cup Gone \cup {"unborn"}]
    BY DEF Init
  <2>3. certain \in BOOLEAN /\ cancelled \in BOOLEAN /\ late \in BOOLEAN /\ stopping \in BOOLEAN
    BY DEF Init
  <2>4. pc \in 1..Len(Programs[plan])
    <3>1. Len(Programs[plan]) = IF plan = "read-only" THEN 59 ELSE 76
      BY <2>1, ProgramsAreText
    <3> QED
      BY <2>1, <3>1
  <2>5. timer \in Handlers /\ cancelling \in Handlers \ {"set"}
    BY DEF Init, Handlers
  <2>6. native \in 0..2 /\ promise \in {0, native}
    BY DEF Init
  <2>7. /\ action \in {"idle", "running", "holding"}
        /\ over \in {"no", "held", "completed", "crashed"}
        /\ effect \in {"none", "request", "running", "completed", "stopped"}
    BY DEF Init
  <2> QED
    BY <2>1, <2>2, <2>3, <2>4, <2>5, <2>6, <2>7 DEF TypeOK
<1>3. line = 1 /\ Verb = "rest" /\ proc[1] = "unborn" /\ proc[2] = "unborn"
  <2>1. line = 1
    BY DEF Init, line, Line
  <2> QED
    BY <1>2, <2>1, AtVerb DEF Init
<1>4. ~Exists /\ ~Joined
  BY DEF Init, Rec!Init, Exists, Row, Joined
<1>5. Stops
  BY <1>3, <1>4 DEF Init, Stops, Live
<1>6. Natives /\ Effects
  BY <1>3 DEF Init, Natives, Effects, TurnEffects
<1>7. Stored /\ Known
  BY <1>3, <1>4 DEF Init, Stored, Known
<1> QED
  BY <1>1, <1>2, <1>5, <1>6, <1>7 DEF IInv

(* A stuttering step keeps everything.                                      *)
LEMMA Stutters == ASSUME IInv, UNCHANGED vars PROVE IInv'
<1>1. RP!Inv'
  BY StepRecorder
<1>2. UNCHANGED <<recorderVars, plan, callVars, certain, late, stopVars, nativeVars, effect>>
  BY DEF vars
<1>3. /\ UNCHANGED <<scope, transfer, view, plan, pc, action, over, certain, late, cancelled>>
      /\ UNCHANGED <<stopping, timer, cancelling, native, promise, proc, effect>>
  BY <1>2 DEF recorderVars, callVars, stopVars, nativeVars
<1>4. UNCHANGED <<line, Verb, Exists, Row, Joined, State, NativeClosed, ClosedByItself, Live, Quiet>>
  BY <1>3 DEF line, Line, Verb, Exists, Row, Joined, State, NativeClosed, ClosedByItself, Live, Quiet
<1>5. TypeOK' /\ Natives' /\ Effects'
  BY <1>3, <1>4 DEF IInv, TypeOK, Natives, Effects
<1>6. Stops'
  BY <1>3, <1>4 DEF IInv, Stops
<1>7. Stored' /\ Known'
  BY <1>3, <1>4 DEF IInv, Stored, Known
<1> QED
  BY <1>1, <1>5, <1>6, <1>7 DEF IInv

LEMMA StepInv == IInv /\ [Next]_vars => IInv'
<1> SUFFICES ASSUME IInv, [Next]_vars PROVE IInv'
  OBVIOUS
<1>1. CASE UNCHANGED vars
  BY <1>1, Stutters
<1>2. CASE Next
  <2>1. RP!Inv'
    BY StepRecorder
  <2>2. TypeOK'
    BY <1>2, StepTypes
  <2>3. Stops'
    BY <1>2, <2>1, <2>2, StepStops
  <2>4. Natives' /\ Effects'
    BY <1>2, StepNatives
  <2>5. Stored' /\ Known'
    BY <1>2, <2>1, StepStored
  <2> QED
    BY <2>1, <2>2, <2>3, <2>4, <2>5 DEF IInv
<1> QED
  BY <1>1, <1>2

(* Whatever the plan and the order of failures, stops and reviews, the       *)
(* executor's state, the stored row, the processes and what was sent to them *)
(* are those of the line the call stands at (execute in external-handoff.cjs)*)
THEOREM Invariance == Spec => []IInv
<1>1. Init => IInv
  BY InitInv
<1>2. IInv /\ [Next]_vars => IInv'
  BY StepInv
<1> QED
  BY <1>1, <1>2, PTL DEF Spec

(* Every step leaves every variable in its type.                             *)
THEOREM TypeCorrect == Spec => []TypeOK
<1>1. IInv => TypeOK
  BY DEF IInv
<1> QED
  BY <1>1, Invariance, PTL

(* The executor and the reviewer call the recorder only as its specification *)
(* allows: every record they write is one of Writes, of the state they hold. *)
(* What is proved of the recorder therefore holds of theirs.                 *)
THEOREM RecorderUsed == Spec => UsesRecorder
<1>1. Init => Rec!Init
  BY DEF Init
<1>2. IInv /\ [Next]_vars => [Rec!Next]_(Rec!vars)
  <2> SUFFICES ASSUME IInv, [Next]_vars PROVE [Rec!Next]_(Rec!vars)
    OBVIOUS
  <2>1. [Rec!Next]_recorderVars
    BY NextUsesRecorder DEF vars
  <2> QED
    BY <2>1 DEF recorderVars, Rec!vars
<1> QED
  BY <1>1, <1>2, Invariance, PTL DEF Spec, UsesRecorder, Rec!Spec

(* Once the transfer is settled, by the executor or by the reviewer, its     *)
(* turn has ended and so have both its processes (release and the reviewer's *)
(* settlements).                                                             *)
THEOREM Quietness == Spec => []SettledIsQuiet
<1>1. IInv => SettledIsQuiet
  BY DEF IInv, Stored, SettledIsQuiet, Quiet
<1> QED
  BY <1>1, Invariance, PTL

(* The stored state is well formed.                                         *)
LEMMA RowState ==
  ASSUME IInv, Exists PROVE Row.state \in RP!States /\ Row.state.closed \in BOOLEAN
<1>1. Row \in RP!Rows
  BY RecorderTypes DEF IInv, Exists, Row
<1> QED
  BY <1>1 DEF RP!Rows, RP!States

(* A held record says what its last request may have done (hold, and the     *)
(* note that precedes every request).                                        *)
THEOREM EffectsRecorded == Spec => []EffectsOnRecord
<1>1. ASSUME IInv, Exists, Row.state.phase = "held", effect # "none"
      PROVE  Row.state.pending = IF effect = "request" THEN "request" ELSE "turn"
  <2>1. /\ Verb # "record" /\ Row.state = HeldAt(plan, line, Row.state.closed)
    BY <1>1 DEF IInv, Stored
  <2>2. plan \in Plans /\ line \in 1..Last /\ line # 24 /\ line # 54 /\ line # 67
    BY <1>1, <2>1, AtLine, AtVerb DEF IInv, RecordLines
  <2>3. Row.state.pending = PendingAt(line)
    BY <1>1, <2>1, <2>2, RowState, HeldStates
  <2>4. line \in IF effect = "request" THEN {14, 43} ELSE TurnEffects
    BY <1>1 DEF IInv, TypeOK, Effects
  <2> QED
    BY <2>2, <2>3, <2>4 DEF PendingAt, RequestLines, TurnLines, TurnEffects
<1>2. IInv => EffectsOnRecord
  BY <1>1 DEF EffectsOnRecord
<1> QED
  BY <1>2, Invariance, PTL

(* The target's turns after its intake run while the stored scope names it   *)
(* the writer, and a writing plan's only on the replaced process (commit).   *)
THEOREM TargetAlone == Spec => []TargetWritesAlone
<1>1. ASSUME IInv, Exists, effect = "running", Row.state.intake = "complete"
      PROVE  /\ scope[Scope].writer = Target /\ scope[Scope].active = Transfer
             /\ plan = "workspace-write" => proc[1] \in Gone /\ proc[2] \notin Gone
  <2>1. plan \in Plans /\ line \in 1..Last /\ line \in TurnEffects
    BY <1>1, AtLine DEF IInv, Effects
  <2>2. ~Row.settled
    BY <1>1 DEF IInv, Stored, Quiet
  <2>3. \/ Row.state = HeldAt(plan, line, Row.state.closed)
        \/ Row.state = Wanted(plan, line)
        \/ Row.state = Wanted(plan, line + 1)
    BY <1>1, <2>2 DEF IInv, Stored
  <2>4. line + 1 \in 1..Last
    BY <2>1 DEF TurnEffects, Last
  <2>5. \E l \in {line, line + 1} :
          Row.state.intake = IntakeAt(l) /\ Row.state.writer = IF l <= 47 THEN Source ELSE Target
    BY <1>1, <2>1, <2>3, <2>4, RowState, HeldStates, WantedStates
  <2>6. line \in (51..55) \cup (64..68)
    BY <1>1, <2>1, <2>5 DEF TurnEffects, IntakeAt
  <2>7. Row.state.writer = Target
    BY <2>5, <2>6
  <2>8. scope[Scope].writer = Target /\ scope[Scope].active = Transfer
    BY <1>1, <2>2, <2>7, RecorderTypes DEF IInv
  <2>9. plan = "workspace-write" => proc[1] \in Gone /\ proc[2] \notin Gone
    BY <1>1, <2>6 DEF IInv, Natives, Effects, Gone
  <2> QED
    BY <2>8, <2>9
<1>2. IInv => TargetWritesAlone
  BY <1>1 DEF TargetWritesAlone
<1> QED
  BY <1>2, Invariance, PTL

(***************************************************************************)
(* Nothing new is begun once the executor is to stop.                      *)
(***************************************************************************)
LEMMA NothingStarted ==
  ASSUME IInv, Next, cancelled \/ stopping, NEW g \in {1, 2}, proc'[g] = "starting"
  PROVE  proc[g] = "starting"
<1>1. CASE Softly
  BY <1>1 DEF Softly
<1>2. CASE pc' = pc
  BY <1>1, <1>2, StillSteps
<1>3. CASE UNCHANGED proc \/ (UNCHANGED native /\ CloseNative)
  BY <1>1, <1>3, CloseSoftly
<1>4. ASSUME Start PROVE FALSE \/ pc' = pc
  BY <1>4, GuardsLive DEF Start, At, Fail
<1>5. ASSUME NEW h \in {1, 2}, FactoryAnswers(h) PROVE proc[g] = "starting"
  BY <1>5 DEF FactoryAnswers, IInv, TypeOK
<1> QED
  BY <1>2, <1>3, <1>4, <1>5
     DEF Next, CallSteps, Answers, Call, GuardHolds, AwaitFails, Fail, Bind, Begin, RecordNext,
         ForgetNative, Send, Answer, TurnCompletes, BeginClose, ClosedNaturally, CallEnds, Settle,
         Continue, nativeVars, HoldEnds, Deadline, TimerFires, TimerGoesOn, TimerHolds,
         CancelAsked, CancelGoesOn, CancelHolds, Ends, ProcessEnds, ProcessDies, TurnEnds,
         Unrelated, Crash, ReviewerActs, callVars

LEMMA NothingSent ==
  ASSUME IInv, Next, cancelled \/ stopping, effect' \in {"request", "running"}
  PROVE  effect' = effect
<1>1. CASE pc' = pc
  BY <1>1, StillSteps
<1>2. ASSUME Send PROVE FALSE
  BY <1>2, GuardsLive DEF Send, At
<1>3. CASE effect' = effect \/ effect' = "none"
  BY <1>3
<1> QED
  BY <1>1, <1>2, <1>3
     DEF Next, CallSteps, Answers, FactoryAnswers, Call, GuardHolds, AwaitFails, Fail, Bind, Begin,
         RecordNext, ForgetNative, Start, Answer, TurnCompletes, BeginClose, ClosedNaturally,
         CallEnds, Settle, HoldEnds, Deadline, TimerFires, TimerGoesOn, TimerHolds,
         CancelAsked, CancelGoesOn, CancelHolds, Ends, ProcessEnds, ProcessDies, TurnEnds,
         Unrelated, Crash, ReviewerActs, callVars

LEMMA NothingCompleted ==
  ASSUME IInv, Next, cancelled \/ stopping, over' = "completed" PROVE over = "completed"
<1>1. ASSUME Settle PROVE over' = over
  <2>1. action = "running" /\ line = 76
    BY <1>1, AtVerb DEF Settle, At, IInv
  <2> QED
    BY <2>1 DEF IInv, Stops
<1> QED
  BY <1>1
     DEF Next, CallSteps, Answers, FactoryAnswers, Call, GuardHolds, AwaitFails, Fail, Bind, Begin,
         RecordNext, ForgetNative, Start, Send, Continue, Advance, Answer, TurnCompletes, BeginClose,
         ClosedNaturally, CallEnds, HoldEnds, HoldRecords, Deadline, TimerFires, TimerGoesOn,
         TimerHolds, CancelAsked, CancelGoesOn, CancelHolds, Ends, ProcessEnds, ProcessDies,
         TurnEnds, Unrelated, Crash, ReviewerActs, callVars

(* A row that is not settled names the writer of the line, once certain.     *)
LEMMA RowWriter ==
  ASSUME IInv, Exists, ~Row.settled, certain
  PROVE  Row.state.writer = IF line <= 47 THEN Source ELSE Target
<1>1. plan \in Plans /\ line \in 1..Last
  BY AtLine DEF IInv
<1>2. Row.state = HeldAt(plan, line, Row.state.closed) \/ Row.state = Wanted(plan, line)
  BY DEF IInv, Stored
<1> QED
  BY <1>1, <1>2, RowState, HeldStates, WantedStates

(* After a stop the stored writer stays.                                    *)
LEMMA NothingHandedOver ==
  ASSUME IInv, RP!Inv', Next, cancelled \/ stopping, Exists, ~Row'.settled
  PROVE  Row'.state.writer = Row.state.writer
<1> DEFINE Same == Row'.state.writer = Row.state.writer
<1>1. CASE transfer' = transfer
  BY <1>1 DEF Row
<1>2. ~Row.settled
  BY SettledKept
<1>3. plan \in Plans /\ line \in 1..Last
  BY AtLine DEF IInv
<1>4. ASSUME NEW next \in RP!States, Record(next), certain, line # 47,
             next.writer \in {IF l <= 47 THEN Source ELSE Target : l \in {line, line + 1}}
      PROVE  Same
  <2>1. next.writer = Row.state.writer
    BY <1>2, <1>3, <1>4, RowWriter DEF Last
  <2>2. Rec!CompareAndSet(Executor, next) => Row'.state = next
    BY CompareAndSetEffect DEF IInv
  <2> QED
    BY <1>1, <1>4, <2>1, <2>2 DEF Record, recorderVars
<1>5. ASSUME Bind PROVE Same
  BY <1>1, <1>5, BindEffect DEF Bind, IInv, recorderVars
<1>6. ASSUME Begin PROVE Same
  BY <1>1, <1>6 DEF Begin, Rec!Begin, Exists, Row, recorderVars
<1>7. ASSUME RecordNext PROVE Same
  <2>1. /\ line \in RecordLines /\ line # 76 /\ Noted(State, What) = Wanted(plan, line + 1)
        /\ Noted(State, What) \in RP!States
    BY <1>7, RecordAllowed DEF RecordNext
  <2>2. certain /\ action = "running" /\ Record(Noted(State, What))
    BY <1>7, RunsCertain DEF RecordNext, At
  <2>3. line # 47
    BY <2>2 DEF IInv, Stops
  <2>4. line + 1 \in 1..Last
    BY <1>3, <2>1 DEF Last
  <2>5. Noted(State, What).writer = IF line + 1 <= 47 THEN Source ELSE Target
    BY <1>3, <2>1, <2>4, WantedStates
  <2> QED
    BY <1>4, <2>1, <2>2, <2>3, <2>5
<1>8. ASSUME Send PROVE Same
  BY <1>8, GuardsLive DEF Send, At
<1>9. ASSUME HoldRecords PROVE Same
  <2>1. CASE Joined /\ certain /\ Record(Held(State))
    <3>1. PICK b \in BOOLEAN :
            Held(State) = HeldAt(plan, line, b) /\ HeldAt(plan, line, b) \in RP!States
      BY <2>1, HoldAllowed
    <3>2. HeldAt(plan, line, b).writer = IF line <= 47 THEN Source ELSE Target
      BY <1>3, <3>1, HeldStates
    <3>3. HeldAt(plan, line, b).writer = Row.state.writer
      BY <1>2, <2>1, <3>2, RowWriter
    <3>4. Rec!CompareAndSet(Executor, HeldAt(plan, line, b)) => Row'.state = HeldAt(plan, line, b)
      BY <3>1, CompareAndSetEffect DEF IInv
    <3> QED
      BY <1>1, <2>1, <3>1, <3>3, <3>4 DEF Record, recorderVars
  <2> QED
    BY <1>1, <1>9, <2>1 DEF HoldRecords, recorderVars
<1>10. ASSUME Settle PROVE Same
  BY <1>1, <1>10, SettleEffect DEF Settle, IInv, recorderVars
<1>11. ASSUME ReviewerActs PROVE Same
  BY <1>1, <1>11, ReviewerEffect DEF IInv
<1> QED
  BY <1>1, <1>5, <1>6, <1>7, <1>8, <1>9, <1>10, <1>11
     DEF Next, CallSteps, Answers, FactoryAnswers, Call, GuardHolds, AwaitFails, ForgetNative,
         Start, Answer, TurnCompletes, BeginClose, ClosedNaturally, CallEnds, HoldEnds, Deadline,
         TimerFires, TimerGoesOn, TimerHolds, CancelAsked, CancelGoesOn, CancelHolds, Ends,
         ProcessEnds, ProcessDies, TurnEnds, Unrelated, Crash, recorderVars

(* After cancel, the deadline's timer or a failure no process is started, no *)
(* request sent, and the scope is neither handed over nor the transfer       *)
(* completed, whatever still runs (assertContinuing and the synchronous      *)
(* instructions that follow it).                                             *)
THEOREM NothingNew == Spec => NothingAfterStop
<1> DEFINE Step ==
      (cancelled \/ stopping) =>
        /\ \A g \in {1, 2} : proc'[g] = "starting" => proc[g] = "starting"
        /\ effect' \in {"request", "running"} => effect' = effect
        /\ (Exists /\ ~Row'.settled) => Row'.state.writer = Row.state.writer
        /\ over' = "completed" => over = "completed"
<1>1. ASSUME IInv, Next PROVE Step
  <2>1. RP!Inv'
    BY <1>1, StepRecorder
  <2> QED
    BY <1>1, <2>1, NothingStarted, NothingSent, NothingCompleted, NothingHandedOver
<1>2. IInv /\ [Next]_vars => [Step]_vars
  BY <1>1
<1> QED
  BY <1>2, Invariance, PTL DEF Spec, NothingAfterStop
=============================================================================
