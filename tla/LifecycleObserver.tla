-------------------------- MODULE LifecycleObserver --------------------------
(***************************************************************************)
(* The lifecycle observation: one runner installs a package in a native    *)
(* host it owns, runs a fixed sequence of hosts, commands and checkpoint   *)
(* helpers against a provider that answers without a model, pauses a task, *)
(* interrupts, leaves and resumes it, possibly with another version of the *)
(* host or of the package, removes the package, and clears up.  Afterwards *)
(* the evidence it kept is inspected.                                      *)
(*                                                                         *)
(* Reads of /proc, hashes and file layout are abstracted: the host either  *)
(* behaves or misbehaves in one of the ways listed at each step, and an    *)
(* instance allows MaxMishaps departures from the expected course.         *)
(***************************************************************************)
EXTENDS OwnedProcess, FiniteSets, TLC

CONSTANTS
    Cases,          \* of "plain", "hot" and "replacement"
    MaxMishaps

VARIABLES
    case,           \* the prepared case
    phase, step, at,\* where the runner is: phase, step of the script, point of the step
    role,           \* the host version launched next
    invoked,        \* the directories of evidence, one per invocation, with their processes
    app,            \* the running app server's place in it, or 0
    release,        \* the shutdown under way
    ledger,         \* host launches, as recorded before each
    roots,          \* owned roots on disk
    task,           \* the paused thread's checkpoint and native input receipt
    ends,           \* the state files of the two SessionEnd threads
    settings,       \* the owned settings, as the host left them
    evidence,       \* snapshots kept for the inspection
    answers,        \* provider responses
    result,
    mishaps,
    wavered,        \* what the host let slip, and at which step
    decision

vars == <<case, phase, step, at, role, invoked, app, release, ledger, roots, task, ends, settings, evidence,
          answers, result, mishaps, wavered, decision>>

ResourceLabels == {"discovery", "end-enabled", "end-disabled", "interrupted", "resumed",
                   "restored-exposure", "after-remove"}
CommandLabels(c) ==
    {"marketplace-add", "package-add", "invalid-candidate", "healthy-retry", "package-remove",
     "package-list-after-remove"}
    \cup IF c = "hot" THEN {"hot-reload-upgrade", "hot-reload-rollback"} ELSE {}
SettingsStages == (ResourceLabels \ {"after-remove"}) \cup {"after-package-add", "after-healthy-retry"}
OwnedRoots == {"home", "marketplace", "workspace", "state", "temp"}
HelperCount(c) == IF c = "hot" THEN 16 ELSE 12
ProviderRequests(c) == IF c = "hot" THEN 6 ELSE 4

LaunchPlan ==
    <<<<"commands", "marketplace-add", "source">>, <<"commands", "package-add", "source">>,
      <<"native", "discovery", "source">>, <<"native", "end-enabled", "source">>,
      <<"native", "end-disabled", "source">>, <<"native", "interrupted", "source">>,
      <<"native", "resumed", "replacement">>, <<"native", "restored-exposure", "replacement">>,
      <<"commands", "invalid-candidate", "replacement">>, <<"commands", "healthy-retry", "replacement">>,
      <<"commands", "package-remove", "replacement">>,
      <<"commands", "package-list-after-remove", "replacement">>, <<"native", "after-remove", "replacement">>>>

(* The script.                                                              *)
Do(op, labels) == [i \in DOMAIN labels |-> [op |-> op, label |-> labels[i]]]
Host(label, between) == Do("open", <<label>>) \o between \o Do("close", <<label>>)
Prepare(c) ==
    (IF c = "replacement" THEN Do("probe", <<"source", "replacement">>) \o Do("clear", <<"roots">>) ELSE <<>>)
    \o Do("start", <<"run">>)
SessionEnds ==
    Host("end-enabled", Do("turn", <<"end-enabled">>) \o Do("helper", <<"end-enabled">>))
    \o Do("contrast", <<"end-enabled">>)
    \o Host("end-disabled", Do("turn", <<"end-disabled">>) \o Do("helper", <<"end-disabled">>))
    \o Do("contrast", <<"end-disabled">>) \o Do("helper", <<"present", "retire">>)
Interruption ==
    Host("interrupted",
         Do("turn", <<"interrupted">>) \o Do("helper", <<"status", "bind", "pause", "before-pause">>)
         \o Do("interrupt", <<"interrupted">>) \o Do("helper", <<"after-interrupt">>))
    \o Do("helper", <<"after-exit">>)
HotReload ==
    Do("cli", <<"hot-reload-upgrade">>) \o Do("helper", <<"before-upgrade">>)
    \o Do("turn", <<"upgrade">>) \o Do("helper", <<"after-upgrade">>)
    \o Do("cli", <<"hot-reload-rollback">>) \o Do("helper", <<"before-rollback">>)
    \o Do("turn", <<"rollback">>) \o Do("helper", <<"after-rollback">>)
Resumption(c) ==
    (IF c = "replacement" THEN Do("activate", <<"host">>) ELSE <<>>)
    \o Host("resumed",
            Do("resume", <<"resumed">>) \o Do("helper", <<"resumed-before-continue">>)
            \o Do("turn", <<"continue">>) \o Do("helper", <<"after-resume">>)
            \o IF c = "hot" THEN HotReload ELSE <<>>)
Removal ==
    Host("restored-exposure", Do("check", <<"restored">>)) \o Do("mark", <<"state">>)
    \o Do("cli", <<"invalid-candidate", "healthy-retry">>) \o Do("shot", <<"after-healthy-retry">>)
    \o Do("cli", <<"package-remove", "package-list-after-remove">>)
    \o Host("after-remove", Do("check", <<"removed">>)) \o Do("finish", <<"run">>)
Script(c) ==
    Prepare(c) \o Do("cli", <<"marketplace-add", "package-add">>) \o Do("shot", <<"after-package-add">>)
    \o Host("discovery", Do("check", <<"inventory">>)) \o SessionEnds \o Interruption \o Resumption(c) \o Removal

Scripts == [c \in Cases |-> Script(c)]
Current == Scripts[case][step]
At(op) == phase \in {"prepare", "run"} /\ at = "idle" /\ Current.op = op
Last == invoked[Len(invoked)]

(* Outcomes of a step.                                                      *)
Mishap == mishaps < MaxMishaps /\ mishaps' = mishaps + 1
Advance == step' = step + 1 /\ at' = "idle" /\ UNCHANGED phase
Raise ==
    IF phase = "prepare" THEN phase' = "refused" /\ at' = "idle" /\ UNCHANGED <<step, result>>
    ELSE /\ phase' = "cleanup" /\ at' = "close"
         /\ result' = [result EXCEPT !.failure = Current.label]
         /\ UNCHANGED step

(* What the native host does to the state the hooks keep.                   *)
NoTask == [mode |-> "none", count |-> 0, epoch |-> 0, current |-> FALSE, host |-> FALSE, pending |-> FALSE]
Input(t) == [t EXCEPT !.count = @ + 1, !.epoch = @ + 1, !.current = FALSE, !.host = TRUE]
Interrupted(t) == [t EXCEPT !.epoch = @ + 1, !.current = FALSE, !.host = FALSE]
ResumedEvent(t) == [t EXCEPT !.epoch = @ + 1, !.current = FALSE, !.host = TRUE]

(* As it should, or the hook does not run.                                  *)
Slip(what) == Mishap /\ wavered' = wavered \cup {[what |-> what, at |-> step]}
HostEvent(good) ==
    \/ task' = good /\ UNCHANGED <<mishaps, wavered>>
    \/ Slip("input") /\ good # task /\ UNCHANGED task

\* Mutant: the pause is not looked at.
CheckpointMatches_AnyMode(t, n) == t.count = n /\ ~t.pending
(* The checkpoint the observer binds and pauses, recoveryInputs = n.        *)
CheckpointMatches(t, n) == t.mode = "paused" /\ t.count = n /\ ~t.pending

(* A status shows what the run expects at this point of the script.         *)
Snapshot(name) == evidence.snaps[name]
Changed(t, name) == t.epoch # Snapshot(name).epoch
NewInput(t, n, prior) == CheckpointMatches(t, n) /\ ~t.current /\ t.host /\ Changed(t, prior)
StatusAccepted(label) ==
    CASE label \in {"end-enabled", "end-disabled", "present"} -> TRUE
      [] label = "retire" -> ends["end-disabled"] = "present"
      [] label \in {"status", "bind"} -> task.count > 0
      [] label = "pause" -> task.mode = "bound"
      [] label = "before-pause" -> CheckpointMatches(task, 1) /\ task.current
      [] label = "after-interrupt" ->
            CheckpointMatches(task, 1) /\ ~task.current /\ ~task.host /\ Changed(task, "before-pause")
      [] label = "after-exit" -> CheckpointMatches(task, 1) /\ ~Changed(task, "after-interrupt")
      [] label = "resumed-before-continue" -> CheckpointMatches(task, 1)
      [] label = "after-resume" -> NewInput(task, 2, "after-exit")
      [] label = "before-upgrade" -> task = Snapshot("after-resume")
      [] label = "after-upgrade" -> NewInput(task, 3, "after-resume")
      [] label = "before-rollback" -> task = Snapshot("after-upgrade")
      [] label = "after-rollback" -> NewInput(task, 4, "after-upgrade")
HelperEffect(label) ==
    /\ task' = CASE label = "bind" -> [task EXCEPT !.mode = "bound", !.current = TRUE]
                 [] label = "pause" -> [task EXCEPT !.mode = "paused"]
                 [] OTHER -> task
    /\ ends' = IF label = "retire" THEN [ends EXCEPT !["end-disabled"] = "retired"] ELSE ends
    /\ evidence' = [evidence EXCEPT !.snaps = @ @@ (label :> task)]

(* The files of the state root; the deliverable is not one of them.         *)
StateTree == <<[task EXCEPT !.pending = FALSE], ends>>
CommandAccepted(e) ==
    CASE e.label = "healthy-retry" -> TRUE
      [] e.label = "invalid-candidate" -> e.root = "code" /\ StateTree = evidence.state
      [] OTHER -> e.root = "zero"
CommandAchieves(e) ==
    CASE e.label = "invalid-candidate" -> {"rejected"}
      [] e.label = "healthy-retry" /\ e.root = "zero" -> {"retried"}
      [] OTHER -> {}

TaskVars == <<task, ends, wavered>>
EvidenceVars == <<evidence, answers, decision>>
Achieve(things) == result' = [result EXCEPT !.achieved = @ \cup things]

(* Start an invocation.                                                     *)
Area == CASE Current.op = "probe" -> "probes" [] Current.op = "cli" -> "commands"
          [] Current.op = "open" -> "native" [] OTHER -> "helpers"
Entry == Invocation(Area, Current.label, IF Area = "probes" THEN Current.label ELSE role)
HostLaunch == case = "replacement" /\ Area \in {"commands", "native"}
LaunchAllowed ==
    HostLaunch => /\ Len(ledger) < Len(LaunchPlan)
                  /\ LaunchPlan[Len(ledger) + 1] = <<Area, Current.label, role>>

NotYetReleased == [forced |-> FALSE, clock |-> "grace", graceAt |-> "grace", graceReleased |-> FALSE]
FatesOf(area) ==
    Fates \ (IF area = "native" THEN {} ELSE {"pipe", "probe", "edits"})

RecordHostLaunch == ledger' = IF HostLaunch THEN Append(ledger, <<Area, Current.label, role>>) ELSE ledger
Launching == At("probe") \/ At("cli") \/ At("open") \/ At("helper")

(* The work deadline passes, or a check of the host fails, before the       *)
(* directory exists, or after.                                              *)
LaunchRefused ==
    /\ Launching /\ Mishap /\ Raise
    /\ UNCHANGED <<case, role, invoked, app, release, ledger, roots, settings, TaskVars, EvidenceVars>>
LaunchAbandoned ==
    /\ Launching /\ Mishap /\ Raise
    /\ invoked' = Append(invoked, Entry)
    /\ UNCHANGED <<case, role, app, release, ledger, roots, settings, TaskVars, EvidenceVars>>

Launch(fate) ==
    /\ Launching /\ LaunchAllowed
    /\ IF fate = "good" THEN UNCHANGED mishaps ELSE Mishap
    /\ fate \in FatesOf(Area)
    /\ RecordHostLaunch
    /\ LET e == Started(Entry, fate)
           broken == Killed(e)
       IN  \/ /\ e.attached /\ Area = "native"
              /\ invoked' = Append(invoked, e) /\ app' = Len(invoked) + 1
              /\ settings' = IF fate = "edits" THEN settings + 1 ELSE settings
              /\ Advance
              /\ IF Current.label = "end-enabled" THEN Achieve({"loaded"}) ELSE UNCHANGED result
              /\ UNCHANGED release
           \/ /\ e.attached /\ Area # "native"
              /\ invoked' = Append(invoked, e)
              /\ at' = "work" /\ release' = NotYetReleased
              /\ UNCHANGED <<app, settings, phase, step, result>>
           \/ /\ ~e.attached
              /\ invoked' = Append(invoked, [broken EXCEPT
                     !.record = ResourceRecord(broken, TRUE, "over", FALSE, "over"), !.replied = Area = "helpers"])
              /\ Raise
              /\ UNCHANGED <<app, settings, release>>
    /\ UNCHANGED <<case, role, roots, TaskVars, EvidenceVars>>

(* The process runs, and is released.                                       *)
Busy == IF at \in {"grace", "drain"} /\ (phase = "cleanup" \/ Current.op = "close") THEN app ELSE Len(invoked)
Process == invoked[Busy]
Runner == <<case, role, app, ledger, roots, settings, TaskVars, EvidenceVars, mishaps>>
Releasing == at \in {"grace", "drain"}

WorkEnds ==
    /\ at = "work" /\ Process.root # "run"
    /\ at' = "grace"
    /\ UNCHANGED <<Runner, phase, step, invoked, release, result>>
(* The request's deadline, or the limit of its output.                      *)
WorkTimeout ==
    /\ at = "work" /\ Process.root = "run" /\ Process.fate \notin Prompt
    /\ invoked' = [invoked EXCEPT ![Busy] = [Killed(@) EXCEPT !.failure = TRUE]]
    /\ release' = [release EXCEPT !.forced = TRUE]
    /\ at' = "grace"
    /\ UNCHANGED <<Runner, phase, step, result>>

\* Mutant: the wait has no deadline.
Waited_Unbounded(e, over) == Released(Sample(e))
(* _wait_job returns when the group is released or the deadline has passed. *)
Waited(e, over) == Released(Sample(e)) \/ over
GraceOver == release.clock \in (IF release.forced THEN {"over"} ELSE {"recovery", "over"})
AfterGrace == [release EXCEPT !.graceAt = release.clock, !.graceReleased = Released(Sample(Process))]
ForceOwned ==
    /\ at = "grace" /\ Waited(Process, GraceOver) /\ ~Released(Sample(Process))
    /\ invoked' = [invoked EXCEPT ![Busy] = Killed(@)]
    /\ release' = [AfterGrace EXCEPT !.forced = TRUE]
    /\ at' = "drain"
    /\ UNCHANGED <<Runner, phase, step, result>>

Closing == phase = "cleanup" \/ Current.op = "close"
Shot(e) ==
    IF Closing /\ e.label \in SettingsStages
    THEN evidence' = [evidence EXCEPT !.shots = @ @@ (e.label :> settings)] ELSE UNCHANGED evidence

(* The record is saved, and judged by the step it belongs to.               *)
Completed(e, r) ==
    /\ RecordReleased(r)
    /\ CASE Current.op = "probe" -> e.root = "zero" /\ ~e.failure
         [] Current.op = "cli" -> CommandAccepted(e)
         [] Current.op = "helper" -> e.root = "zero" /\ ~e.failure /\ StatusAccepted(Current.label)
         [] OTHER -> TRUE
SaveRecord ==
    LET e == Process
        rel == IF at = "grace" THEN AfterGrace ELSE release
        r == IF e.fate = "disk" THEN Missing
             ELSE ResourceRecord(e, rel.forced, rel.graceAt, rel.graceReleased, release.clock)
    IN  /\ Releasing
        /\ IF at = "grace" THEN Released(Sample(e)) ELSE Waited(e, release.clock = "over")
        /\ invoked' = [invoked EXCEPT ![Busy].record = r, ![Busy].replied = e.area = "helpers"]
        /\ release' = NotYetReleased
        /\ \/ /\ phase = "cleanup"
              /\ at' = "fixture"
              /\ result' = IF RecordReleased(r) THEN result ELSE [result EXCEPT !.cleanup = TRUE]
              /\ IF RecordReleased(r) THEN Shot(e) ELSE UNCHANGED evidence
              /\ UNCHANGED <<phase, step, task, ends, app>>
           \/ /\ phase # "cleanup" /\ ~Completed(e, r)
              /\ Raise
              /\ UNCHANGED <<task, ends, evidence, app>>
           \/ /\ phase # "cleanup" /\ Completed(e, r)
              /\ Advance
              /\ IF Current.op = "helper" THEN HelperEffect(Current.label)
                 ELSE Shot(e) /\ UNCHANGED <<task, ends>>
              /\ Achieve(IF Current.op = "cli" THEN CommandAchieves(e)
                         ELSE IF Current.op # "helper" THEN {}
                         ELSE CASE Current.label = "after-interrupt" -> {"interrupt"}
                                [] Current.label = "resumed-before-continue" -> {"resume"}
                                [] Current.label = "after-resume" ->
                                      {"continue"} \cup IF case = "replacement" THEN {"replaced"} ELSE {}
                                [] Current.label = "after-rollback" -> {"hot"}
                                [] OTHER -> {})
              /\ app' = IF Current.op = "close" THEN 0 ELSE app
        /\ UNCHANGED <<case, role, ledger, roots, settings, wavered, answers, decision, mishaps>>

(* Time passes while the runner waits; a process that behaves is in time.   *)
Tick ==
    /\ Releasing /\ release.clock # "over"
    /\ Process.fate \notin Prompt
    /\ release' = [release EXCEPT !.clock = IF @ = "grace" THEN "recovery" ELSE "over"]
    /\ UNCHANGED <<Runner, phase, step, at, invoked, result>>
ProcessEnds(i) ==
    /\ \/ Ends(invoked[i]) /\ invoked' = [invoked EXCEPT ![i] = Ended(@)]
       \/ KinEnd(invoked[i]) /\ invoked' = [invoked EXCEPT ![i] = WithoutKin(@)]
       \/ invoked[i].stray /\ invoked' = [invoked EXCEPT ![i] = WithoutStray(@)]
    /\ UNCHANGED <<Runner, phase, step, at, release, result>>

(* Steps with the native host.                                              *)
Steps == <<case, role, invoked, app, release, ledger, roots, settings, decision>>

(* A request fails, a file cannot be read or written, an observation that   *)
(* this model leaves out differs.                                           *)
Refused ==
    /\ \E op \in {"clear", "start", "check", "turn", "interrupt", "resume", "close", "contrast", "shot", "mark",
                   "activate", "finish"} : At(op)
    /\ Mishap /\ Raise
    /\ UNCHANGED <<Steps, TaskVars, EvidenceVars>>

(* Each turn is one provider request; one beyond the bound is refused, and  *)
(* so is the turn.                                                          *)
Sent(requests) == Len(answers) + requests <= ProviderRequests(case)
Answer(requests) == answers' = answers \o [n \in 1..requests |-> "completed"]
Receives(label) ==
    IF label \in DOMAIN ends
    THEN /\ UNCHANGED task
         /\ \/ ends' = [ends EXCEPT ![label] = "present"] /\ UNCHANGED <<mishaps, wavered>>
            \/ Slip("input") /\ UNCHANGED ends
    ELSE HostEvent(Input(task)) /\ UNCHANGED ends
Turn ==
    /\ At("turn")
    /\ LET held == Current.label = "interrupted" IN
       \/ /\ Sent(1) /\ Answer(IF held THEN 0 ELSE 1)
          /\ Receives(Current.label)
          /\ Advance /\ UNCHANGED result
       \/ /\ ~Sent(1) /\ Raise
          /\ UNCHANGED <<task, ends, answers, mishaps, wavered>>
       \* the host asks twice for one turn
       \/ /\ Sent(2) /\ Answer(IF held THEN 1 ELSE 2)
          /\ Mishap /\ UNCHANGED wavered
          /\ task' = IF Current.label \in DOMAIN ends THEN task ELSE Input(task)
          /\ ends' = IF Current.label \in DOMAIN ends THEN [ends EXCEPT ![Current.label] = "present"] ELSE ends
          /\ Advance /\ UNCHANGED result
    /\ UNCHANGED <<Steps, evidence>>

(* The held response is released once the interrupt has been observed.      *)
Interrupt ==
    /\ At("interrupt")
    /\ \/ /\ HostEvent(Interrupted(task))
          /\ answers' = Append(answers, "peer-closed")
       \/ /\ Mishap /\ task' = Interrupted(task) /\ UNCHANGED wavered
          /\ \E transport \in {"completed", "hold-timeout"} : answers' = Append(answers, transport)
    /\ Advance
    /\ UNCHANGED <<Steps, ends, evidence, result>>
Resume ==
    /\ At("resume")
    /\ \/ task' = ResumedEvent(task) /\ UNCHANGED <<mishaps, wavered>>
       \* nothing shows whether a hook ran on the resumption itself
       \/ Mishap /\ UNCHANGED <<task, wavered>>
    /\ Advance
    /\ UNCHANGED <<Steps, ends, evidence, answers, result>>

(* thread/unsubscribe and the end of the app's input; SessionEnd follows.   *)
CloseApp ==
    /\ At("close")
    /\ invoked' = [invoked EXCEPT ![app].eof = TRUE]
    /\ at' = "grace"
    /\ IF Current.label \in DOMAIN ends /\ ends[Current.label] = "present"
       THEN \E gone \in BOOLEAN :
              /\ ends' = IF gone THEN [ends EXCEPT ![Current.label] = "gone"] ELSE ends
              /\ IF gone = (Current.label = "end-enabled") THEN UNCHANGED <<mishaps, wavered>> ELSE Slip("ending")
       ELSE UNCHANGED <<ends, mishaps, wavered>>
    /\ UNCHANGED task
    /\ UNCHANGED <<case, phase, step, role, app, release, ledger, roots, settings, EvidenceVars, result>>

Contrast ==
    /\ At("contrast")
    /\ LET removed == ends[Current.label] = "gone" IN
       IF removed = (Current.label = "end-enabled")
       THEN /\ evidence' = [evidence EXCEPT !.contrast = @ @@ (Current.label :> ends[Current.label])]
            /\ Advance
            /\ Achieve(IF removed THEN {} ELSE {"contrast"})
       ELSE Raise /\ UNCHANGED evidence
    /\ UNCHANGED <<Steps, TaskVars, answers, mishaps>>

(* Every launch of the source host has a record of its release.             *)
LaunchRecord(row) ==
    LET i == CHOOSE i \in DOMAIN invoked : invoked[i].area = row[1] /\ invoked[i].label = row[2]
    IN  invoked[i].record
ActivateReplacement ==
    /\ At("activate")
    /\ IF /\ ledger = SubSeq(LaunchPlan, 1, 6)
          /\ \A i \in DOMAIN ledger : RecordReleased(LaunchRecord(ledger[i]))
       THEN /\ role' = "replacement" /\ evidence' = [evidence EXCEPT !.switched = TRUE]
            /\ Advance /\ UNCHANGED result
       ELSE Raise /\ UNCHANGED <<role, evidence>>
    /\ UNCHANGED <<case, invoked, app, release, ledger, roots, settings, decision, TaskVars, answers, mishaps>>

(* While a native host or a command runs, as it leaves included, the pause  *)
(* is lifted or the deliverable is written without a decision.              *)
Strayed(t) ==
    {<<"deliverable", [t EXCEPT !.pending = TRUE]>>}
    \cup IF t.mode = "paused" THEN {<<"pause", [t EXCEPT !.mode = "active"]>>} ELSE {}
HostStrays ==
    /\ phase = "run" /\ task # NoTask
    /\ \E i \in DOMAIN invoked : invoked[i].area \in {"native", "commands"} /\ Alive(invoked[i])
    /\ \E s \in Strayed(task) : s[2] # task /\ task' = s[2] /\ Slip(s[1])
    /\ UNCHANGED <<Steps, phase, step, at, ends, EvidenceVars, result>>

(* prepare: both probes released, their residue is cleared.                 *)
ClearProbeRoots ==
    /\ At("clear")
    /\ IF \A i \in DOMAIN invoked : RecordReleased(invoked[i].record) THEN Advance /\ UNCHANGED result ELSE Raise
    /\ UNCHANGED <<Steps, TaskVars, EvidenceVars, mishaps>>

ProbesMatch ==
    case = "replacement" => \A r \in Roles : \E i \in DOMAIN invoked : LET e == invoked[i] IN
        e.area = "probes" /\ e.label = r /\ RecordReleased(e.record) /\ e.record.exit = "zero"
(* run: the manifest is loaded and everything it binds compared; the run is *)
(* entered in a file only one run can create.                               *)
Start ==
    /\ At("start")
    /\ IF ProbesMatch THEN phase' = "run" /\ step' = step + 1 /\ UNCHANGED <<at, result>> ELSE Raise
    /\ UNCHANGED <<Steps, TaskVars, EvidenceVars, mishaps>>

Check ==
    /\ At("check")
    /\ \/ Achieve({Current.label}) /\ UNCHANGED mishaps
       \/ Mishap /\ Current.label # "inventory" /\ UNCHANGED result
    /\ Advance
    /\ UNCHANGED <<Steps, TaskVars, EvidenceVars>>
SettingsShot ==
    /\ At("shot")
    /\ evidence' = [evidence EXCEPT !.shots = @ @@ (Current.label :> settings)]
    /\ result' = [result EXCEPT !.listener = IF @ = "none" THEN "open" ELSE @]
    /\ Advance
    /\ UNCHANGED <<Steps, TaskVars, answers, mishaps>>
StateBefore ==
    /\ At("mark")
    /\ evidence' = [evidence EXCEPT !.state = StateTree]
    /\ Advance
    /\ UNCHANGED <<Steps, TaskVars, answers, result, mishaps>>

Mechanism(c) ==
    {"restored", "rejected", "retried", "removed"} \cup (IF c = "replacement" THEN {"replaced"} ELSE {})
Finish ==
    /\ At("finish")
    /\ IF /\ Mechanism(case) \subseteq result.achieved
          /\ StateTree = evidence.state
          /\ Len(answers) = ProviderRequests(case)
          /\ case = "replacement" => Len(ledger) = Len(LaunchPlan)
       THEN /\ phase' = "cleanup" /\ at' = "close" /\ UNCHANGED step
            /\ Achieve({"complete"})
       ELSE Raise
    /\ UNCHANGED <<Steps, TaskVars, EvidenceVars, mishaps>>

(* Clearing up, whatever happened.                                          *)
Cleanup == <<case, phase, step, role, app, ledger, TaskVars, answers, decision, settings>>
CloseRemaining ==
    /\ phase = "cleanup" /\ at = "close"
    /\ IF app # 0 /\ ~invoked[app].eof
       THEN at' = "grace" /\ invoked' = [invoked EXCEPT ![app].eof = TRUE]
       ELSE at' = "fixture" /\ UNCHANGED invoked
    /\ UNCHANGED <<Cleanup, release, roots, evidence, result, mishaps>>
CloseFixture ==
    /\ phase = "cleanup" /\ at = "fixture"
    /\ at' = "decide"
    /\ \/ /\ result' = [result EXCEPT !.listener = IF @ = "open" THEN "closed" ELSE @]
          /\ UNCHANGED mishaps
       \/ /\ Mishap /\ result.listener = "open"
          /\ result' = [result EXCEPT !.cleanup = TRUE]
    /\ UNCHANGED <<Cleanup, invoked, release, roots, evidence>>
(* Nothing is removed beneath a process that may still run.                 *)
RemoveRoots ==
    /\ phase = "cleanup" /\ at = "decide"
    /\ at' = "save"
    /\ IF InvokedProcessesReleased(invoked)
       THEN \/ roots' = {} /\ UNCHANGED <<result, mishaps>>
            \/ Mishap /\ roots' = {"home"} /\ result' = [result EXCEPT !.cleanup = TRUE]
       ELSE result' = [result EXCEPT !.cleanup = TRUE] /\ UNCHANGED <<roots, mishaps>>
    /\ UNCHANGED <<Cleanup, invoked, release, evidence>>

SettingsPreserved ==
    /\ DOMAIN evidence.shots = SettingsStages
    /\ \A a, b \in SettingsStages : evidence.shots[a] = evidence.shots[b]
SaveResult ==
    /\ phase = "cleanup" /\ at = "save"
    /\ \E protected \in BOOLEAN :
        /\ IF protected THEN UNCHANGED mishaps ELSE Mishap
        /\ LET errors == result.cleanup \/ ~protected \/ ~SettingsPreserved IN
           result' = [result EXCEPT !.cleanup = errors, !.protected = protected,
                          !.failure = IF @ = "none" /\ (errors \/ roots # {}) THEN "cleanup" ELSE @]
    /\ phase' = "done"
    /\ UNCHANGED <<case, step, at, role, invoked, app, release, ledger, roots, TaskVars, evidence, answers,
                   settings, decision>>

(* inspect: the evidence alone decides.                                     *)
Of(area) == {i \in DOMAIN invoked : invoked[i].area = area}
Labels(area) == {invoked[i].label : i \in Of(area)}
ResourcesOK ==
    /\ Labels("native") = ResourceLabels
    /\ \A i \in Of("native") : ObservedRelease(invoked[i].record) /\ invoked[i].record.exit = "zero"
CommandsOK ==
    /\ Labels("commands") = CommandLabels(case)
    /\ \A i \in Of("commands") : /\ ObservedRelease(invoked[i].record)
                                  /\ (invoked[i].record.exit # "zero") = (invoked[i].label = "invalid-candidate")
HelpersOK ==
    /\ Cardinality(Of("helpers")) = HelperCount(case)
    /\ \A i \in Of("helpers") : LET r == invoked[i].record IN
           ObservedRelease(r) /\ r.exit = "zero" /\ ~r.failure /\ invoked[i].replied
ProviderOK ==
    /\ Len(answers) = ProviderRequests(case)
    /\ \A n \in DOMAIN answers : answers[n] = "completed" \/ (n = 3 /\ answers[n] = "peer-closed")
SessionEndOK ==
    evidence.contrast = [l \in {"end-enabled", "end-disabled"} |-> IF l = "end-enabled" THEN "gone" ELSE "present"]
CheckpointsOK ==
    LET t == evidence.snaps IN
    /\ \A l \in {"before-pause", "after-interrupt", "after-exit", "resumed-before-continue"} :
          CheckpointMatches(t[l], 1)
    /\ CheckpointMatches(t["after-resume"], 2)
    /\ t["after-interrupt"].epoch = t["after-exit"].epoch
    /\ t["after-resume"].epoch # t["after-exit"].epoch
HotReloadOK ==
    case = "hot" =>
        /\ evidence.snaps["before-upgrade"] = Snapshot("after-resume")
        /\ NewInput(Snapshot("after-upgrade"), 3, "after-resume")
        /\ evidence.snaps["before-rollback"] = Snapshot("after-upgrade")
        /\ NewInput(Snapshot("after-rollback"), 4, "after-upgrade")
ReplacementOK ==
    case = "replacement" =>
        /\ ProbesMatch /\ evidence.switched
        /\ ledger = LaunchPlan
        /\ \A n \in DOMAIN ledger : RecordReleased(LaunchRecord(ledger[n]))
RequiredTrue(c) ==
    Mechanism(c) \cup {"complete", "loaded", "contrast", "interrupt", "resume", "continue"}
Decision ==
    /\ result.failure = "none" /\ result.listener = "closed" /\ result.protected
    /\ RequiredTrue(case) \subseteq result.achieved
    /\ roots = {}
    /\ ResourcesOK /\ CommandsOK /\ HelpersOK /\ ProviderOK /\ SessionEndOK
    /\ SettingsPreserved /\ CheckpointsOK /\ HotReloadOK /\ ReplacementOK
Inspect ==
    /\ phase = "done"
    /\ decision' = IF Decision THEN "pass" ELSE "fail"
    /\ phase' = "inspected"
    /\ UNCHANGED <<case, step, at, role, invoked, app, release, ledger, roots, TaskVars, evidence, answers,
                   settings, result, mishaps>>

Init ==
    /\ case \in Cases
    /\ phase = "prepare" /\ step = 1 /\ at = "idle" /\ role = "source"
    /\ invoked = <<>> /\ app = 0 /\ release = NotYetReleased /\ ledger = <<>>
    /\ roots = OwnedRoots
    /\ task = NoTask /\ ends = [l \in {"end-enabled", "end-disabled"} |-> "none"]
    /\ settings = 0
    /\ evidence = [snaps |-> <<>>, shots |-> <<>>, contrast |-> <<>>, switched |-> FALSE, state |-> <<>>]
    /\ answers = <<>>
    /\ result = [failure |-> "none", achieved |-> {}, listener |-> "none", cleanup |-> FALSE, protected |-> FALSE]
    /\ mishaps = 0 /\ wavered = {} /\ decision = "none"

Runs ==
    \/ LaunchRefused \/ LaunchAbandoned \/ \E fate \in Fates : Launch(fate)
    \/ WorkEnds \/ WorkTimeout \/ ForceOwned \/ SaveRecord
    \/ Refused \/ Turn \/ Interrupt \/ Resume \/ CloseApp \/ Contrast \/ ActivateReplacement
    \/ ClearProbeRoots \/ Start \/ Check \/ SettingsShot \/ StateBefore \/ Finish
    \/ CloseRemaining \/ CloseFixture \/ RemoveRoots \/ SaveResult \/ Inspect
ProcessesEnd == \E i \in DOMAIN invoked : ProcessEnds(i)
InTime == \E i \in DOMAIN invoked : invoked[i].fate \in Prompt /\ ProcessEnds(i)
Next == Runs \/ Tick \/ ProcessesEnd \/ HostStrays

(* The runner goes on, time passes, or a process that behaves ends.  No     *)
(* other process is fair.  Every course is finite, so one condition does.   *)
Spec == Init /\ [][Next]_vars /\ WF_vars(Runs \/ Tick \/ InTime)

(* No file is removed beneath, and no other host started beside, a process  *)
(* in the controller's scope that may still run: neither the owned roots    *)
(* nor the probes' residue, nor the replacement of the source host.  (An    *)
(* escaped descendant that holds no app's output may run beneath: it is not *)
(* observed, and the evidence says so.)                                     *)
ReleasedFirst ==
    \A i \in DOMAIN invoked : InScope(invoked[i]) =>
        /\ roots = OwnedRoots
        /\ invoked[i].area = "probes" => \A j \in DOMAIN invoked : invoked[j].area = "probes"
        /\ (invoked[i].role = "source" /\ case = "replacement" /\ invoked[i].area \in {"native", "commands"})
              => \A j \in DOMAIN invoked : invoked[j].role = "replacement" => invoked[j].area = "probes"

(* Up to the last status nothing slips unseen; from the copy of the state   *)
(* taken before the package is removed, no change of the saved state does.  *)
StepOf(op) == CHOOSE n \in DOMAIN Scripts[case] : Scripts[case][n].op = op
LastStatus == CHOOSE n \in DOMAIN Scripts[case] :
    /\ Scripts[case][n].op = "helper"
    /\ \A k \in DOMAIN Scripts[case] : Scripts[case][k].op = "helper" => k <= n
Watched(w) == w.at <= LastStatus \/ (w.what = "pause" /\ w.at > StepOf("mark"))

(* What the inspection passes was an episode in which the pause, the inputs *)
(* and the session ends held as long as they were watched, in which no host *)
(* changed the owned settings while those were, and of which nothing in the *)
(* controller's scope runs and no root remains.                             *)
PassedEpisode ==
    decision = "pass" =>
        /\ roots = {}
        /\ \A w \in wavered : ~Watched(w)
        /\ \A i \in DOMAIN invoked : invoked[i].fate = "edits" => invoked[i].label = "after-remove"
        /\ \A i \in DOMAIN invoked : ~InScope(invoked[i])
        /\ Len(answers) = ProviderRequests(case)

(* The inspection demands unfinishedStatePreservedAcrossExitAndUninstall:   *)
(* in what it passes, the pause held, across the exits of the hosts too.    *)
StatePreservedAcrossExit ==
    decision = "pass" => \A w \in wavered : w.what # "pause"

(* However its processes behave, a run ends with a result.                  *)
RunEnds == (phase = "run") ~> (phase = "inspected")
=============================================================================
