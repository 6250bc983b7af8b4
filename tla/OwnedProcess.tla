---------------------------- MODULE OwnedProcess ----------------------------
(***************************************************************************)
(* A native process the lifecycle observer starts, the process group that  *)
(* is all it controls of it, and the record it keeps of the group's end.   *)
(* POSIX only: a Windows job also kills what it holds when it is closed.   *)
(*                                                                         *)
(* An invocation is its directory of evidence: it may hold no process yet  *)
(* (root "none"), a process that runs, or one that left code "zero" or     *)
(* "code".  Kin are other members of its group, a stray is a descendant    *)
(* that left it.  The fate says how the process will behave; the observer  *)
(* sees only samples.                                                      *)
(*                                                                         *)
(* The controller's scope is the child and its group: a stray escapes it   *)
(* and is seen only while it holds the output of an app, which is a pipe.  *)
(* The outputs of commands, helpers and probes are files, that show no one.*)
(* A diagnosis of members that is killed is taken to be reaped.            *)
(***************************************************************************)
EXTENDS Naturals, Sequences

Areas == {"probes", "commands", "native", "helpers"}
Roles == {"source", "replacement"}

(* "slow" ends at any time; "kin" leaves members behind that end at any    *)
(* time or never; "hang" ends only when killed and "stuck" not even then;  *)
(* "blind" cannot be observed; "attach" starts outside the controller;     *)
(* "escape" has a descendant that leaves the group, and ends at any time   *)
(* or never; in "pipe" it holds the app's output as well;                  *)
(* "probe" hangs, and so does the diagnosis of its members; "disk" ends,   *)
(* but its record cannot be saved; "edits" changes the owned settings.     *)
Fates == {"good", "bad", "slow", "kin", "hang", "stuck", "blind", "attach", "escape", "pipe", "probe", "disk", "edits"}

Prompt == {"good", "bad", "disk", "edits"}

Clock == {"grace", "recovery", "over"}
Missing == [exit |-> "missing"]

Samples == [state : {"not-started", "alive", "absent", "unobservable"}, root : {"none", "run", "zero", "code"},
            probe : {"closed", "unobserved"}]

Invocation(area, label, role) ==
    [area |-> area, label |-> label, role |-> role, root |-> "none", kin |-> FALSE, stray |-> FALSE,
     attached |-> FALSE, eof |-> FALSE, fate |-> "good", failure |-> FALSE, record |-> Missing, replied |-> FALSE]

(* Popen and attach_and_resume.                                             *)
Started(e, fate) ==
    [e EXCEPT !.root = "run", !.kin = fate \in {"kin", "attach"}, !.stray = fate \in {"escape", "pipe"},
              !.attached = fate # "attach", !.fate = fate, !.failure = fate = "attach"]

(* Something of the invocation still runs; it runs where it can be seen.    *)
HoldsOutput(e) == e.stray /\ e.area = "native" /\ e.fate = "pipe"
Alive(e) == e.root = "run" \/ e.kin \/ e.stray
InScope(e) == e.root = "run" \/ e.kin \/ HoldsOutput(e)

(* An app ends at the end of its input, a command when its work is done.    *)
Ends(e) ==
    /\ e.root = "run" /\ e.fate \notin {"hang", "stuck", "probe"}
    /\ e.area = "native" => e.eof
(* The candidate package is malformed on purpose: its install has to fail.  *)
Ended(e) == [e EXCEPT !.root = IF (e.fate = "bad") # (e.label = "invalid-candidate") THEN "code" ELSE "zero"]
KinEnd(e) == e.kin /\ e.root # "run"
WithoutKin(e) == [e EXCEPT !.kin = FALSE]
WithoutStray(e) == [e EXCEPT !.stray = FALSE]

(* killpg(SIGKILL); without an attached group only the child is killed.     *)
(* A stray is never killed.                                                 *)
Killed(e) ==
    IF e.fate = "stuck" \/ e.root = "none" THEN e
    ELSE [e EXCEPT !.root = IF e.root = "run" THEN "code" ELSE e.root, !.kin = e.kin /\ ~e.attached]

Sample(e) ==
    [state |-> IF ~e.attached THEN "not-started"
               ELSE IF e.fate = "blind" THEN "unobservable"
               ELSE IF e.root = "run" \/ e.kin THEN "alive" ELSE "absent",
     root |-> IF e.attached THEN e.root ELSE "none",
     probe |-> "closed"]

(* Members are diagnosed before an app's first forced stop; a diagnosis     *)
(* whose own process is not seen to end is held against the release.        *)
FinalSample(e, forced) ==
    [Sample(e) EXCEPT !.probe = IF forced /\ e.fate = "probe" THEN "unobserved" ELSE "closed"]

ValidAfter(s) == s.state \in {"alive", "absent", "unobservable"}

\* Mutant: the end of the process stands for the end of its group.
Released_Exited(s) == ValidAfter(s) /\ s.probe = "closed" /\ s.root \in {"zero", "code"}
Released(s) ==
    /\ ValidAfter(s) /\ s.probe = "closed"
    /\ s.state = "absent" /\ s.root \in {"zero", "code"}

ResourceRecord(e, forced, graceAt, graceReleased, at) ==
    [exit |-> IF e.root = "run" THEN "none" ELSE e.root, forced |-> forced, failure |-> e.failure,
     after |-> FinalSample(e, forced),
     reader |-> ~HoldsOutput(e),
     observed |-> e.attached, graceAt |-> graceAt, graceReleased |-> graceReleased, at |-> at]

RecordReleased(r) ==
    /\ r # Missing
    /\ r.exit \in {"zero", "code"}
    /\ r.reader
    /\ r.exit = r.after.root
    /\ Released(r.after)

(* Released within the deadlines fixed before the shutdown began.           *)
ObservedRelease(r) ==
    /\ RecordReleased(r)
    /\ r.observed /\ r.at # "over"
    /\ r.forced \/ (r.graceAt = "grace" /\ r.graceReleased)

(* Every directory of evidence has a record of a release, and the helpers' *)
(* requests were all answered.                                             *)
InvokedProcessesReleased(invoked) ==
    \A i \in DOMAIN invoked : LET e == invoked[i] IN e.area # "probes" =>
        /\ RecordReleased(e.record)
        /\ e.area = "helpers" => e.replied

=============================================================================
