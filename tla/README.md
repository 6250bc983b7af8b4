# A TLA+ model of YIYUAN Accord

YIYUAN Accord adds continuity to a coding assistant's host (Codex): what the user said is kept
on disk, the task keeps a checkpoint of what it has understood, and a task can move from one
native thread to another without two threads writing at once. The code that does this is a set of
Node programs in `plugins/yiyuan-accord-codex/runtime/`. They run as short-lived processes (hooks,
command-line operations), as long-lived controllers, and the host may kill any of them at any
moment. Beside the runtime, Python programs in `yiyuan_accord/` and `scripts/` decide what the
project may claim about itself: whether an outcome is complete, whether a stage may be closed,
whether recorded evidence still supports a candidate, and whether an observed episode of the native
host passed. The modules here model both. Paths of `.cjs` files below are relative to the runtime's
directory, paths of `.py` files to the repository.

## 1. The system

| Component | State it keeps | Operations | Interacts with |
|---|---|---|---|
| Session locks (`task-checkpoint.cjs`, `locked`, `recover-lock`) | three lock files per session: state, input, recovery gate, each with its owner's pid | create exclusively, retry until a deadline, unlink by path, retain, recover | every hook and operation below |
| Task checkpoint (`task-checkpoint.cjs`) | input receipt, checkpoint, session and workspace failure watermarks, retirement acknowledgment | hooks: prompt, replay, interrupt, resume, session end; operations: bind, pause, lift, retire, cancel, reconcile, status, recover-lock | locks; native transcripts (read only); the MCP server and the executors read its status |
| Scope recorder (`carrier-recorder.cjs`) | SQLite rows: scopes (writer, active transfer, fence token), transfers (revision, JSON state, settled) | bind, read, claim, begin, compare-and-set, read transfer, five settlements | called by the hand-off executors and the source session over a lease |
| External hand-off executor (`external-handoff.cjs`) | phase and state of one transfer, lease, deadline, a native process | prepare, create target, intake, review, transfer, continue, release, close, hold, cancel | recorder, app-server connection, checkpoint status as source basis |
| Native hand-off executor (`carrier-handoff.cjs`) | the same for a transfer between threads of one host, and its reconciliation after a failure | prepare, create, adopt, review, finalize, reconcile failed or continued transfers | recorder, session, connection |
| Source session (`codex-session.cjs`) | a borrowed connection, the current turn, the proposal guard, the scope lease | run turn, transfer, adopt, restore, close | recorder, connection, hand-off |
| App-server connection (`codex-connection.cjs`) | pending requests, one waiter, bounded journal, answered anchors | request, wait for a terminal or a server request, answer | child process |
| Native task execution (`native-task-execution.cjs`) | slots, review requests, status files | start, review, cancel, reconcile stopped attempts and targets, read status | external executor, recorder |
| Native state server (`native-state-mcp.cjs`) | table of pending calls | JSON-RPC front end | checkpoint, task execution |
| Context budget (`codex-context.cjs`, part of `task-checkpoint.cjs`) | none | parse native transcripts, assess the remaining context | checkpoint status |
| Capability discovery, guidance hook (`codex-capabilities.cjs`, `accord-hook.cjs`) | none | bounded probes, guidance text | host |
| Closure decision (`yiyuan_accord/closure.py`) | per request: the assessment, route facts, experiments, retirements, completion facts | validate, assess, select, replay events, decide completion | its caller's receipts and events |
| Stage snapshots (`yiyuan_accord/control.py`, `stage_lifecycle.py`) | none; one snapshot node per commit of the repository | validate the worktree against the first-parent history | Git; maintainers |
| Evidence admission (`yiyuan_accord/admission.py`, `obligation_evidence.py`, `reviews.py`) | per assessment: subject, contract, observation, admitted cases, witnesses, rejections, read budget | bind, check the contract, observe, judge records and witnesses, recheck, observe again, report | Git, a caller-owned observer, reviewers |
| Lifecycle observation (`scripts/observe_codex_lifecycle.py`, `inspect_native_resources.py`) | owned roots, processes and their resource records, snapshots, the result | prepare, run a fixed episode of hosts, commands and helpers, clean up, inspect | native hosts, the task checkpoint, a fixture provider |
| Other validators and tools (`guardrails.py`, `identity.py`, `evidence.py`, rest of `control.py`, `observe_codex_entry.py`, other scripts) | none | compare records with fixed shapes and digests | repository |

`runtime/` at the root holds byte-identical copies of plugin files or thin forwards to them; the
plugin's copy is the one modelled.

### What is hard, and what makes each part correct

* **Locks.** Files are unlinked by path; a killed process leaves its file; recovery inspects a pid,
  rereads the file and unlinks it, and none of this is atomic. Correct when no two processes are
  inside one lock, a live owner's lock is never taken away, no caller waits for ever, and what the
  dead leave can be recovered.
* **Task checkpoint.** A decision is made on a view read before its lock was given back; watermarks
  are published outside the locks; a retirement is a sequence of unlinks and writes with its own
  compensation; any process may be killed between two of them. Correct when lost input never looks
  complete again without a replay, a binding reconciles input its caller really saw, a pause is
  lifted only on purpose, and no retirement deletes what nobody has seen.
* **Scope recorder.** Each call is a transaction, but callers act on leases that may be stale, their
  replies may be lost, and they may be replaced by a restarted process. Correct when a stale caller
  changes nothing, what was written can be opened again, a settled transfer stays settled, and the
  scope ends with the writer its last record names.
* **External executor.** One event loop whose call awaits reviews, native answers and closing
  processes while its deadline, a cancellation or a late start act on the same state, and whose every
  record may be lost. Correct when one thread writes, what was sent is on record whenever it stops,
  nothing begins after a stop, no process outlives it, and what its record allows to be settled is
  really over.
* **Native executor, session, connection, task execution.** Controllers of the same kind, not
  modelled (section 7 lists the questions).
* **Closure decision.** Events may revoke, repeat or contradict earlier ones. Correct when the
  decision, reached one event at a time, is what the whole list says, when selection does not depend
  on the listing, and when nothing rests on an unbound or expired fact.
* **Stage snapshots.** The chain of nodes is spread over a history with reverts, unchecked commits
  and runs of equal nodes, and is judged before and after a commit. Correct when everything accepted
  is one legal chain, a replayed stage is closed only after it was accepted again, and maintenance
  leaves the release as it was.
* **Evidence admission.** The repository, the conditions and the clock move while an observation is
  under way, and records are judged one by one but reject each other. Correct when nothing is
  accepted that was not seen on the current source, under current conditions and in time, and an
  eligible candidate misses no requirement and counts no operation twice.
* **Lifecycle observation.** Processes hang, leave kin behind, cannot be observed or die late, and
  any step may fail while one of them lives. Correct when nothing is removed or replaced beneath a
  live process of the controller's scope, the inspection passes only an episode whose pause and
  inputs held for as long as they were watched, and every run ends.

`PROJECT.json` lists each hazard at its line with the properties that cover it, or why none does.

## 2. The modules

| Module | Models | Used by |
|---|---|---|
| `SessionLocks` | the lock files of one session; the abstract protocol of the detailed module below | `MCSessionLocks`, `SessionLocksProofs`, `TaskCheckpoint` (instance, refinement) |
| `TaskCheckpoint` | every hook and operation on the session's files, one file operation per step, with crashes and I/O faults | `MCTaskCheckpoint`, `TaskCheckpointProofs` |
| `CarrierRecorder` | the recorder's database and the controllers that hold leases on it | `MCCarrierRecorder`, `CarrierRecorderProofs`, `ExternalHandoff` (instance, refinement) |
| `ExternalHandoff` | the external executor, its processes and a reviewer, over the recorder | `MCExternalHandoff`, `ExternalHandoffProofs` |
| `Closure` | validation, assessment, selection and the replay of events of one request | `MCClosure`, `ClosureProofs` |
| `StageLineage` | the closeout-snapshot validator over a history that maintainers change | `MCStageLineage`, `StageLineageProofs` |
| `Admission` | the judgement: contract, record, reuse, impact, witness, coverage, as operators over the repository's variables | `Assessment` |
| `Assessment` | one assessment step by step, and what moves around it | `MCAssessment`, `AssessmentProofs` |
| `OwnedProcess` | a process, its group, its samples, the record of its release | `LifecycleObserver` |
| `LifecycleObserver` | prepare, run, cleanup and inspection of one episode | `MCLifecycleObserver`, `LifecycleObserverProofs` |
| `SessionLocksProofs`, `CarrierRecorderProofs` | theorems about the locks and the recorder | the proofs below |
| `TaskCheckpointProofs` | theorems about the checkpoint, in three parts, each on top of the one before: who holds which lock, what is in the files, what may be lost | |
| `ExternalHandoffProofs` | theorems about the executor, over those of an instance of `CarrierRecorderProofs` | |
| `ClosureProofs` | theorems about selection and the completion decision | |
| `StageLineageProofs` | theorems about what an accepting verdict says of the whole history | |
| `AssessmentProofs` | theorems about what an assessment accepts and takes for complete | |
| `LifecycleObserverProofs` | a theorem about the gates of an episode | |

A definition named `X_Y` is a faulty variant of `X`: it is what a plausible bug would make of `X`,
no specification uses it, and `PROJECT.json` says which property it violates. The map in
`PROJECT.json` gives, for each definition, the lines of code it stands for.

### SessionLocks

State: `lock[l]` is what lock file `l` holds: nothing, a live process, `DeadPid` (the pid of a
process that is gone) or `NoPid` (its creator died before writing it). `held[p]` is the nesting of
`locked` calls process `p` is in, that is, what its `finally` blocks will unlink. `job` and `stage`
are the entry point and how far it has got.

`Take`/`Refuse` are one `locked` call (`openSync(..., 'wx')`, `EEXIST` after one try or at the
deadline), `Release` its `finally`, `Retain` the callback that keeps the input lock after a failed
publication. `Inspect`, `Confirm`, `Reclaim`, `Abandon` are the four outcomes inside `recover-lock`:
the owner probed, the bytes reread, the file unlinked, or none of this. `Crash`, `TakeAndDie` and
`Exit` are the operating system.

### TaskCheckpoint

State: the five files (`receipt`, `checkpoint`, `mark` for the two watermarks, `ack`), the lock
files, and per process the entry point `job`, its location `at` and its locals `ctx`. `ReadInput` is
`readInput`: it decides whether the stored receipt covers the watermarks and flags it for replay if
not. A caller of an operation first runs status and prepares its request from it (`Prepare`); the
request may run much later.

* Hooks: `EnterHook` (lock, read), `Publish` (rename the receipt into place), `DropAck` (unlink the
  acknowledgment), then `Leave`; failures go through `failing`/`retaining` and `Mark`
  (`markInputFailure`, outside the lock).
* Operations: `EnterOperation`, `View`, `GiveBack`, `Recheck`, `Accept` or `Decline`, `Commit`:
  `stateOperation` reads the input under its lock, decides without it, takes it again and compares.
* Retirement: `UnlinkState`, `UnlinkReceipt`, `Acknowledge`, `Retired`; `RetireFails` starts the
  compensation `UndoAck`, `RestoreState`, `RestoreReceipt`, `Compensated`.
* Recovery: the gate, for the input lock also the state lock, the two looks at the owner,
  `Invalidate`, `Reclaim`.

Ghosts: `pending` is the set of losses that are on disk and that nobody has replayed or cancelled;
`bound` is the checkpoint the task is owed. They are used by properties only; no guard reads them,
except that a replay is prepared by a caller that knows the losses its status showed.

Abstracted: text, contracts and file hashes (a receipt keeps how many inputs it captured, a
checkpoint how many its author had seen), transcript evidence and file inspection (they may refuse a
call, so `Decline` is always possible, and never admit one), hashes of epochs (the pair hashed).
Assessment of context writes nothing and is left out.

### CarrierRecorder

State: the rows `scope[s]` and `transfer[t]`; the last reply each controller received, `view[c]`;
`issued`, the source of fence tokens; and two history variables, `commits` and `missed`, that count
what a caller had not seen. One action per exported operation. Each is one `BEGIN IMMEDIATE`
transaction, so one atomic step; its reply reaches the caller or not (`Answers`). `Restart`
replaces a controller by one that knows nothing. `Writes` is what the hand-off executors record next
from the state they hold; it is deliberately wider than any one of them, so that the recorder's
properties do not rest on an executor's discipline, and `ExternalHandoff` shows that the external
executor stays inside it.

### ExternalHandoff

State: the recorder's rows; the executor's locals (`certain` is `recordCertain`, `native` and
`promise` are `native` and `closePromise`, `action` is `busy` and whether `hold` runs, `over` the
final phases); how far the deadline's timer and `cancel` have got; and what is true outside: `late`,
the two processes `proc`, and `effect`, what the last mutating request did at the target. The
executor's own copy of the transfer's state is the one in its `view`: after a record of unknown
outcome it records nothing more.

`Programs` lists, for a read-only and for a writing plan, what `prepare`, `commit` and `release` do,
as instructions between awaits; each instruction is an action. `Synchronous` instructions follow the
one before without an await, so no handler runs between them (`LoopFree`), but time passes and other
processes act: a crash or a reviewer's commit may fall between two records of one synchronous run.
`AwaitFails` stands for every way an await can throw. `Fail` is the step from a throw into `hold`;
`HoldRecords` the record that ends it, also when `hold` was entered from the timer or from `cancel`.
The reviewer settles whatever the recorder lets it settle, which is more than
`native-task-execution.cjs` does.

Abstracted: what the source's state, the reviews, Skill preparation, requirements and policies say
(each may fail its await); records that change no field a settlement reads (verification, receipts,
phases before a stop) are folded into the next one; one transfer, and `cancel` is called once.

### Closure

State: the `request` (fixed by `Init`), the `events` replayed so far, `choice` (what `_select`
returned and which routes were admitted), `life` (the replay's locals) and `rejected` (the request or
an event is structurally invalid). `Init` is everything before the loop of `reconcile_closure`; one
action per branch of the loop; `CompletionAllowed` is what follows it. The history in `events` lets
`CompletionMatchesHistory` state the decision a second time, over the whole list. Times are small
numbers; identifiers are numbers, in the code's order.

### StageLineage

State: `commits`, the first-parent history; `work`, the worktree; the last `verdict`; and counters
that bound what maintainers do. A tree is a record: the snapshot node of the older schemas
(`legacy`), the maintenance cycle, documents and files as version numbers, what is bound to them, and
the verified criteria; a digest is the version it was taken of. `NodeAt`, `RunStart`, `PriorEnd`,
`Replayed` are the history index; `V1Node`, `V2Node`, `V3Node` the node rules; `V1Transition`,
`V2Transition`, `V3Transition` the rules between neighbours; `RunStands` one run of equal nodes;
`RunsBack`, a recursive function, and `LineageHolds` the recursion over predecessors; `Accepts` the
validator. `Trees` says what a committed tree may contain, `ContentAssumption` that the initial
histories are made of such trees.
`Check` records its answer; `WriteV1Node`, `WriteV2Node`, `WriteV3Node`, `Revise`, `Revert`, `Commit` (checked
or, within a bound, not) are the maintainer, and external.

Abstracted: the byte-level projections (1485-1620 of `control.py`), the marketplace record
(1430-1482), evaluation histories (6194-6235), the blob cache (946-1116). The depth bound of the
code counts the predecessor chain only; its test for a cycle cannot fail, since a reference is always
to an earlier commit.

What modelling showed besides: a changed worktree under a carried version 2 node is noticed only
once it is committed, and a committed version 2 chain does not recompute the criteria a node must
list or the projection of its close; `CommitKeepsAcceptance` excepts the first of these.

### Admission and Assessment

State: the repository (`commits`, `head`, `work`), the environment (`clock`, `world`), the
observation (`data`), what was judged so far (`admitted`, `applicable`, `reuse`, `supplemental`,
`rejections`, `errors`, `caseErrors`) and the `report`; `reads` counts against the read budget.
`Admission` holds the rules as operators: `ContractValid`; `JudgeRecord` with
`IdentityFailures`, `PackageFailures`, `ChangeFailures`, `ObservationFailures`, in the order the code
raises them; `ImpactSupported` for a material that argues that a change does not matter;
`WitnessSupported` and `CorrectionSupported` for supplementary executions; `RequirementMet` and
`Eligible` for the report. `Assessment` takes the steps: each action is what happens between two
calls that leave the process (Git, the observer), because that is where the repository can move;
`Commit`, `Edit`, `Tick`, `Drift` move it.

What an observer answers to a request is the constant operator `Answer`; `MCAssessment` gives twelve
observers and what they answer. `Parsed` is what any answer must be to be judged at all: lists of
records and witnesses whose times can be read (a time that cannot be read makes the code refuse the
record or the witness that has it, which unsupported ones stand for). `Charged` and `Read` are the
read budget: a call is charged before it is made, the bytes are reserved, and a read that turns out
larger than its reserve fails and stays charged. A witness that stands alone has its packages read
past the cache of the assessment (`ReadAnew`).

Abstracted: JSON shapes and sizes, the blob cache, the transfer of an execution's binding
(`bind_evidence_execution`, 822-871); a correction with several epochs reads one package. The
comparison of execution files (1650) is against the working tree: an edit made after the subject was
bound and undone before the clean check hides a changed runner. `touched` remembers that something
moved, and `AcceptedOnCurrentSource` claims execution files and modes only when nothing did.

### OwnedProcess and LifecycleObserver

`OwnedProcess` has no variables: an invocation is a record with the process's exit, its kin, what
the controller attached, its output and its resource record; `Sample` is what the observer can see
of the group, `RecordReleased` what the record lets it conclude. `LifecycleObserver` runs a `Script`
of steps per case (plain, hot reload, host replacement); `phase`, `step` and `at` are the program
counter. A step that starts a process goes through `Launch`, `Process`, `Closing`, `AfterGrace`,
`SaveRecord`; the shutdown under way is `release`. `Tick` lets a deadline pass. `HostEvent` is what
hooks of the native host do to the checkpoint, `HostStrays` what a live host or command does to it
unasked; `wavered` is a ghost, the set of such slips with the step each fell in, and `Watched` says
which of them a later status or comparison still looks for. `StateTree` is what is compared before
and after the uninstall: the files of the state root, to which the deliverable does not belong.
`Decision` is `inspect`. POSIX only.

What the controller can see is its scope: the child it started and its process group
(`observe_codex_lifecycle.py:8-12`, 98; `observe_codex_entry.py:1504-1507`). A descendant may leave
the group (fates `escape` and `pipe`, field `stray`). It is never killed, and it is noticed only if
it holds the output of an app, which is a pipe with a reader to be joined; commands, helpers and
probes write to files (495-497, 1063-1067, 1484-1487), where nobody shows. So `InScope` is the
child, its group, and a holder of an app's output (`HoldsOutput`); any other stray runs on beneath
removed roots and beside a replaced host in the model as in the code, and `ReleasedFirst` and
`PassedEpisode` say nothing of it. A diagnosis of members that is killed at its own limit is taken to
be reaped: the wait after the kill (`observe_codex_entry.py:1569`) has none.

What modelling showed besides, none of it contradicting a document:
* The settings as the last host edits them, after the last snapshot, and a deliverable written after
  the last status go unnoticed by the inspection. `PassedEpisode` excepts both, as it does a pause
  lifted between the last status and the copy at 2008, which section 6 reports; whether hooks ran on
  the resumption itself no check shows.
* An `invalid-candidate` command that is killed at its deadline counts as a rejection (2014, 2331).
* A release seen just after the graceful deadline passes `run` and fails `inspect` (155).
* Plain and hot cases do not rehash the host's binary at each launch (594).
* A failing save between the start of a host and its entry in the list of apps (1855) leaves that
  host to nobody; the roots then stay, since its record is missing.

## 3. What the runs show

| Run | Instance | States | Shows |
|---|---|---|---|
| `session_locks` | 2 processes, any invocations, any crashes until the host calms down | 13 thousand | `MutualExclusion`, `OnlyTheOwnerLetsGo`, and under fairness `InvocationEnds`, `RecoveryCompletes` |
| `checkpoint_input` | 2 processes, 3 invocations of hooks, bind, lift, pause, reconcile, session end; 1 loss in transport | 0.66 million | `TypeOK`, `LossStaysQuarantined`, `ReconciledMeansSeen`, `BindsLatestInput`, `RevisionsFollow`, `PauseHolds` |
| `checkpoint_retire` | 2 processes, 3 invocations of prompt, replay, retire, cancel and both recoveries; any 2 of loss, crash, I/O fault | 1.0 million | `CheckpointNotLost`, `RetiresOnlySeenInput`, and `FollowsLockProtocol`: it implements `SessionLocks!Spec` |
| `checkpoint_confirmed` | 3 invocations of replay, cancel, interrupt; 1 loss | violation | `ConfirmedStaysConfirmed` does not hold (section 6) |
| `carrier_recorder` | 1 scope, 2 transfers, 2 threads, 2 controllers, 8 tokens, revisions up to 6 | 0.36 million | `TypeOK`, `Reopens`, `NothingMissed`, `SettledForGood`, `OutcomeNamesWriter` |
| `external_handoff` | both plans, one transfer, any failures, one cancel, a crash at any point, one reviewer | 0.13 million | `TypeOK`, `SettledIsQuiet`, `EffectsOnRecord`, `TargetWritesAlone`, `NothingAfterStop`, `ComesToRest`, and `UsesRecorder`: it implements `CarrierRecorder!Spec` |
| `external_stopped` | the same | violation | `StoppedIntakeSettles` does not hold (section 6) |
| `closure` | all comparisons of three routes over two dimensions; receipts wrong in one way; three requests with all lists of up to 4 of 18 events | 0.28 million | `TypeOK`, `SelectionIsCanonical`, `SelectedOnBoundFacts`, `CompletionMatchesHistory` |
| `stage_lineage` | 2 gates; five prefixes of a release with its maintenance; 2 commits, 2 edits, 1 unchecked commit, any reverts | 0.30 million | `TypeOK`, `AcceptedHistoryIsOneChain`, `CloseFollowsReacceptance`, `MaintenanceKeepsRelease`, `CommitKeepsAcceptance` |
| `assessment` | 4 cases, 8 second commits, 12 kinds of observation, 2 moves (commit, edit, drift, tick, fault) | 0.20 million | `TypeOK`, `AcceptedOnCurrentSource`, `EligibleIsComplete` |
| `lifecycle_observer` | 3 cases, one departure from the expected course (13 fates of a process, host or file failures) | 0.14 million | `ReleasedFirst`, `PassedEpisode`, and under fairness `RunEnds` |
| `lifecycle_exit` | plain case, one departure | violation | `StatePreservedAcrossExit` does not hold (section 6) |

### Bounds

* Two processes. A race in this code is between a process that decided something and one that acted
  meanwhile; a third party (a new owner of a lock that was just freed) can be the other process
  again, back in a new invocation. The theorems about both modules hold for any number of them.
* `MaxCalls = 3`: a request prepared early, an event between, and a third call that sees the result.
  The initial states include a session that captured input and one that bound it, so no invocation
  is spent on getting there.
* `FollowsLockProtocol` is checked where both recoveries, crashes and failing files are; that the
  remaining hooks and operations keep to the locks as well is the theorem `LocksRefined`.
* `MaxMishaps = 2`: a failure and the failure of its compensation, or a crash and the loss that was
  published during it. `clock`, which hands out fresh identifiers, is bounded by these two.
* `MaxTokens = 8`, two transfers: one whole transfer (bind, begin, name a target, turn, end of turn,
  transfer, complete, settle), or two short ones. `MaxRevision = 6` stands for
  `Number.MAX_SAFE_INTEGER`. The settlement of a whole transfer reaches it, but other guards have
  stopped a scope by then: the run does not show the refusal at the limit.
  The theorems about the recorder hold for every value of these.
* `ExternalHandoff` has no bound that a run meets: its programs are finite, and `MaxRevision` and
  `MaxTokens` (60) exceed the commits of the longest run (under 40).
* `Closure`: four events are evaluate, confirm, contradict, confirm again; three routes are the
  least for which dominance and preference can disagree. Only three requests are replayed, because an
  event sees the request through its policy and its selected and admitted routes only; in one of
  them the policy asks of every route the fact `cleanup`, of which resource events speak too.
  The theorems hold for any requests and events of these shapes, and for lists of any length.
* `StageLineage`: the histories begin before the first node or with it, and reach every schema and the replay, reacceptance and close between
  them; two further commits allow a bad node, or an unchecked one, and a node that builds on it.
  Two gates suffice to pass one over and to wrap around. The theorems hold for any histories of trees
  of these shapes, any number of gates and commits.
* `Assessment`: one second commit per kind of difference the rules distinguish; two moves are a
  change and its undoing. The read bounds are low enough that an observation can exhaust them.
  The theorems hold for any histories, policies, observers and bounds.
* `LifecycleObserver`: one departure. Most departures end the course of the run, so a second
  mostly meets cleanup; two misbehaving processes in one run, and an escaped descendant in a run
  whose files or hooks fail as well, are the cases left out.
* One scope: scopes share nothing but the token source. Two scopes appear in the proofs.

Processes and controllers are interchangeable and only safety is checked where symmetry is used; the
run with liveness uses none.

Runs of `TaskCheckpoint` and `SessionLocks` do not check for deadlock: an instance stops when its
invocations are used up, or when the host is calm and nothing is left to recover. That no caller is
stuck inside an invocation is `InvocationEnds`. `ExternalHandoff` ends with its transfer; that it
never hangs is `ComesToRest`. `CarrierRecorder` is checked for deadlock. An event list, a decided
assessment, an inspected episode and a repository whose bounds are used up have no next step either.

### Fairness

`FairSpec` of `SessionLocks` assumes weak fairness of each process's own steps (a running process is
scheduled, and each loop of `locked` ends at its deadline), of a finished process's exit, and, once
the host has stopped killing callers, of a caller that recovers what is left. The last one is what
the documentation tells a caller to do after a failure; nothing forces a caller to start anything
else, `Decline` (a hook that gives up early) is not fair, and nothing forces the host to calm down:
`RecoveryCompletes` is conditional on it. It also excludes an orphaned gate and a lock file whose
pid was never written, which `recover-lock` refuses by design.

`ExternalHandoff` assumes that time passes (`Deadline`), that the event loop runs what is ready (the
running call, `hold`, the timer's and `cancel`'s continuations), that an await ends, at the latest
with the deadline given to `bounded`, that the factory answers (it has the deadline and an abort
signal), and that closing a process ends (`close` kills after its timeout). No caller has to make the
next call, and no native process has to answer or end a turn.

`LifecycleObserver` has one condition, weak fairness of `Runs \/ Tick \/ InTime`: the runner, a
single sequential program, goes on; time passes; and a process that behaves ends. Processes that
hang, linger or cannot be observed are under no fairness: that a run ends all the same is what its
deadlines are for. The one wait without a deadline, for a diagnosis that was killed
(`observe_codex_entry.py:1569`), is assumed to return.

## 4. What is proved

`SessionLocksProofs`, for every set of processes:

* `TypeCorrect`, `Exclusion` (`MutualExclusion`), `LiveLocksKept` (`OnlyTheOwnerLetsGo`).
* Argument. Exclusion is not inductive: `recover-lock` unlinks by path a file it looked at earlier.
  The invariant adds `Owned` (the file of a lock somebody is inside names that process),
  `IdleIsClean` and `TargetStaysDead`: between its inspection and its unlink a recovery still holds
  the gate, and the state lock for the input lock, and the file it inspected still names a dead
  process. Only a holder of the gate unlinks a lock it does not own, so nothing can replace that
  file meanwhile. Assumption: the values of a lock file are distinct (`LockValuesDistinct`).

`CarrierRecorderProofs`, for every set of scopes, transfers, threads and controllers, every revision
limit and every number of commits:

* `TypeCorrect` (the revision limit is never passed), `AlwaysReopens` (`Reopens`), `NoCommitMissed`
  (`NothingMissed`), `SettledStays` (`SettledForGood`).
* Argument. `Reopens` is inductive with the types. `NothingMissed` needs `TokensFresh` (no row or
  view has a token that has not been drawn) and `ViewsComplete` (a view whose token is still the
  scope's token counts every commit on the scope): every commit draws a new token, so a commit
  outdates all earlier views at once. `CommitKeepsFences` states this once for all operations;
  `TransferKeepsInv` does the same for the rows. Assumptions: the limits are natural numbers and
  `None` is no scope, transfer, thread, row or view.
* `OutcomesNameWriters` (`OutcomeNamesWriter`) goes settlement by settlement: each stores a final
  state whose named writer is the one its commit gives the scope, which needs that the stored states
  are well formed and, for a transfer that is left to its target, that the target is known.

`TaskCheckpointProofs`, for every set of processes, every choice of entry points and mishaps, every
number of calls. The theorems follow one another; each invariant contains those before it.

* `LocksRefined` (`FollowsLockProtocol`): every step of a hook, an operation or a recovery is a step
  of `SessionLocks` under the refinement mapping `lockJob`, `lockStage`, or leaves the locks alone.
  It needs `Place`: running `j` at location `a`, a process holds exactly the locks the code has taken
  there. The invariant `LockInv` adds `Owned` and `TargetStaysDead`, as in `SessionLocksProofs`.
* `TypeCorrect` (`TypeOK`). The entry points write what they hold in their locals, so it needs the
  types of those and `Decided`: an operation past its decision has the view, the prior checkpoint
  and the receipt that its guards require.
* `ReconciledWasSeen`, `BindingsAreCurrent`, `RevisionsAreSuccessive`, `RetirementsSawInput`
  (`ReconciledMeansSeen`, `BindsLatestInput`, `RevisionsFollow`, `RetiresOnlySeenInput`) need two
  facts. `Sealed`: a process between its decision and its last file operation finds on disk what it
  read, the receipt because of the input lock, the checkpoint because of the state lock, and during
  the compensation of a retirement what it has put back. `Numbered`: an epoch names one count of
  captured inputs wherever it is found, in a file, in a local or in a request prepared long before.
* `LossesStayQuarantined` (`LossStaysQuarantined`): `Dated` says that no watermark on disk or in
  memory is as new as the next one handed out, so a new one flags whatever is read. `Guarded` says of
  a receipt, an acknowledgment, a checkpoint and the watermarks that they read as quarantined if a
  loss is pending or the checkpoint owed is not the one there, and that a replay that names them
  knows of every pending loss. The files are guarded or `Torn`: a retirement has begun to unlink, and
  its input lock is there, held or orphaned. What the retirement would put back is guarded too, so a
  failed retirement that restores its files cannot make a loss look settled.
* `CheckpointsAreNotLost`, `PausesHold` (`CheckpointNotLost`, `PauseHolds`) follow with `Paired`: what
  is on disk, or would be put back, is the checkpoint owed or nothing.
* Assumptions: the values of a lock file are distinct (`LockContentsDistinct`); the absent file is no
  receipt, checkpoint, token or view (`NoFileIsNothing`).

`ExternalHandoffProofs`, for both plans, every order of failures, stops, crashes and reviews,
and every limit of the recorder:

* `TypeCorrect` (`TypeOK`), `RecorderUsed` (`UsesRecorder`), `Quietness` (`SettledIsQuiet`),
  `EffectsRecorded` (`EffectsOnRecord`), `TargetAlone` (`TargetWritesAlone`), `NothingNew`
  (`NothingAfterStop`).
* Argument. `ProgramsAreText` shows that both programs run through one text of 76 lines, the
  read-only one without lines 29 to 45. `Wanted(plan, line)` is the recorder's state that the lines
  before `line` have written, whatever else happened; `WantedRecorded` shows that each line that
  records writes the next one, and that the recorder accepts it. The invariant has six parts beside
  the types: the recorder's own, taken over from `CarrierRecorderProofs` through `RecorderSame`;
  `Stops` (how far a call that is to stop may still go); `Natives` (which processes have been started
  and have ended at a line); `Effects` (what was sent and not yet answered at a line); `Stored` (the
  stored row is the wanted one, the one after it if a record's outcome is unknown, the held one, or
  settled and then quiet); `Known` (what the executor holds, while it is certain). They support each
  other: a settlement by the reviewer is quiet because a row is stored as held and closed only after
  the process closed by itself (`ClosedQuiet`), which rests on `Natives`; that nobody but the target
  is recorded as writer beyond line 47 gives `TargetAlone`; that the lines 47, 75 and 76 run without
  an await after a guard found the call live gives `NothingNew`.
* Each action is proved to keep each part in a lemma of its own (`ForwardStops`, `HoldStored`, ...);
  the same few kinds of step recur: the call goes on, stands still, fails, is held.
* Assumptions: the two threads differ, as do executor and reviewer (`PartiesDistinct`); the limits
  are natural numbers and `None` is none of the recorder's values (`RecorderConstants`).

`ClosureProofs`, for every set of requests, routes, dimensions, receipts and events, and event lists
of every length:

* `TypeCorrect` (`TypeOK`), `SelectionCanonical` (`SelectionIsCanonical`), `SelectedOnBound`
  (`SelectedOnBoundFacts`), `CompletionDecided` (`CompletionMatchesHistory`).
* The selection. `LeastNat` (a set of numbers has a least element) comes from the library's
  well-founded order on the numbers; it stands where an induction would. With it there is a best
  route by source and identifier (`BestExists`), and of the admitted routes one with the fewest
  routes above it has none above it (`SomeRouteSurvives`), because `DominanceIsAnOrder`. `Reversed`
  maps the frontier of a list onto that of the reversed list; `SelectionIgnoresOrder` then goes
  through the alternatives of `_select`.
* The replay. `IInv` says that the assessment is that of the request (`ChosenOK`) and that what is
  kept mirrors the events so far: `FactsMirrored`, `RouteFactsMirrored`, `ResidueMirrored` (the last
  word on each fact), `RetiredMirrored`, and `ExperimentsMirrored`. The last one is the hard one: the
  replay keeps a list of experiments, `CloseExperiment` picks the latest of a pair in it, and the
  history asks the same of the list of all events. `Numbered` relates them by an order-preserving
  map, so that the latest kept is the latest listed (`GreatestBelow`, `CloseNumbers`). One lemma per
  kind of event shows that it keeps the invariant; `HistoryMatches` reads the decision off it.
* Two properties were corrected on the way, and the instance extended by requests that tell the
  difference. A route fact named `cleanup` is not lost when a resource event leaves a residue:
  `closure.py` updates the route's own facts on fact events only; completion is stopped by the
  completion fact of that name and by the residue. And a composition may bear the name of a route,
  so a target of kind `route` with that subject need not concern the selected route.
* Assumptions: a request lists routes with identifiers above 0, natural costs in common dimensions
  and times; an event has one of five kinds and its facts one of three values
  (`RequestAssumption`, `AlphabetAssumption`: what `_validate_request` insists on, in the
  model's numbering of identifiers); what is replayed is a request and `MaxEvents` is a natural
  number (`BoundAssumption`).

`StageLineageProofs`, for every history of trees, every number of gates, commits and edits:

* `TypeCorrect` (`TypeOK`), `OneChain` (`AcceptedHistoryIsOneChain`), `ReacceptedBeforeClose`
  (`CloseFollowsReacceptance`), `ReleaseKept` (`MaintenanceKeepsRelease`).
* Argument. The validator judges one worktree and recurses over the runs behind it, so no step of a
  maintainer has to be followed: `Judged` says that a verdict of acceptance was given to the worktree
  and history that are there, and `Chain` states without recursion what such a verdict amounts to:
  from the bootstrap on, every place where the node changes is linked to the start of the run before
  it. `AcceptsChain` unfolds the recursion once and for all: `RunsBackExists` shows that the
  recursive function is defined, and `LineageFromBootstrap` takes the least commit whose lineage
  holds and where the chain could be broken, which `LeastNat` provides in place of an induction. The
  properties are then about a chain: `ChainIsOne`, because a node names the start of the run before
  it and so cannot come back; `ChainReaccepted`, which goes back from a close to the least commit of
  the same replay scope and finds the verification and the reacceptance on the way; and
  `JudgedKeepsRelease`, because a maintenance node may follow only the released one or another
  maintenance node (`OlderBeforeMaintenance`, `AtMostTwo`).
* `AcceptedHistoryIsOneChain` was made more general on the way: a history may hold commits before its
  first snapshot.
* Assumptions: there is a gate, and the limits are natural numbers (`NumbersAssumption`); initial
  histories are not empty and hold trees of the shapes `control.py` reads (`ContentAssumption`).

`AssessmentProofs`, for every history, policy and observer, every number of cases, records and
witnesses, and every bound:

* `TypeCorrect` (`TypeOK`, with the read budget), `AcceptedOnSource` (`AcceptedOnCurrentSource`),
  `EligibleComplete` (`EligibleIsComplete`).
* Argument. A report rests on facts that were established at different steps, and everything may move
  between two steps. The invariant has one part per step: `Begun` (nothing is judged before the first
  answer, and until something is touched the worktree is the subject's), `Judged` (of every admitted
  case exactly one record was read, and it supports the case), `Weighed` (a witness was reviewed after
  its last event and overlaps no other), `Rechecked`, `Contracted`, `Qualified`, `Held`, `Reported`.
  `Supports` is a relation of one record, the contract, the answer and the history; later commits only
  extend the history and later edits only set `touched`, so it is kept (`SupportsKept`). A second
  record of a case finds the case among those seen and removes it, hence exactly one. `JudgeFacts`
  reads off the order of the checks what an admitted record has passed; `SourceSame` and
  `MaterialArgues` turn that into equality with the subject or an argument for the whole change. Once
  the records are read admission only shrinks: `SettlingKeeps` treats all later steps at once, and
  `FailKeeps` every way an observation can fail. `EligibleWhole` counts the coverage.
* The read budget was not inductive at first: a blob larger than what was reserved for it would have
  exceeded the bound. The code raises there (`_batch_blobs`), and `Charged` now does.
* Assumptions, all of them true of the product's contract or of Git: the package and its manifest are
  among finitely many files (`PackageAssumption`); the bounds are natural numbers
  (`BoundAssumption`); the policy has the function claim, the joint requirement A08 and a required
  scope that rests on the selection of entries, and scopes declare known claims
  (`PolicyAssumption`); committed trees have the shapes the code reads (`HistoryAssumption`).

`LifecycleObserverProofs`, for every set of cases, every fate of the processes and however often the
episode departs from its course:

* `NothingRemovedBeneath` (`ReleasedFirst`): about the child, its group and whoever holds an app's
  output. Of other descendants that left the group nothing is claimed, nor could it be.
* Argument. A record of a release is written only of an invocation in which nothing of the scope
  runs (`RecordMeans`), and nothing that happens to an invocation later revives it (`Follows`). The
  property is then that each gate reads the records of all the invocations that matter and is passed
  before what it guards. The order is the script's, a sequence concatenated from parts per case: the
  lemmas up to `ScriptMeans` show that its first steps are those of `prepare`, that no later step is
  one of them, and that only its last step ends it; `Control` says where the runner can be in it. The
  gates are three. `prepare` clears the roots of its probes on the records of all invocations, and
  `ProbesEnded` says that there are only probes then. The activation of a replacement looks up each
  row of the ledger by area and label: `Planned` says that every launch of a host is in the ledger
  and that no two launches share a label, so the look-up finds the launch itself (without it, one
  released launch could answer for another), and `SourceEnded` follows. The removal of roots reads
  the records of all but the probes, and those have ended by `ProbesEnded`; so `RootsLast`.
* No assumption is needed: a case that is not a replacement has no second host.

The configurations that TLC evaluates satisfy every assumption named here.

## 5. What is only model-checked

* Liveness (`InvocationEnds`, `RecoveryCompletes`, `ComesToRest`, `RunEnds`): the TLA+ proof system
  does not reason about fairness and `ENABLED`.
* `CommitKeepsAcceptance` of `StageLineage`: it compares the validator's answers before and after a
  commit, so a proof would need both directions of what `Chain` gives in one.
* `PassedEpisode` of `LifecycleObserver`: it relates the inspected evidence to the whole course of
  the script, step by step.
* The three properties that the code does not have, `ConfirmedStaysConfirmed`, `StoppedIntakeSettles`
  and `StatePreservedAcrossExit`: TLC's counterexamples are the evidence.

## 6. Where code and documentation disagree

`docs/task-state-clients.md:186` says of a retired session that only new failure generations, other
sessions and unconfirmed failures still need recovery. `interrupt` looks for a receipt before it
takes the input lock and uses that answer after the wait. If a retirement with an acknowledged loss
finishes in between, it publishes a receipt that knows no failure generation, and the publication
removes the acknowledgment: a loss that a replay had confirmed needs recovery again. Nothing is
lost, the session asks for a recovery it does not need. The run `checkpoint_confirmed` finds it:
loss, replay, cancel and an interrupt that was delivered before the cancel finished.

`native-handoff.md:154-157` (in the skill's `references/`) lets `reconcile-target` settle a transfer
that stopped after its one read-only intake, with the source still the writer and nothing pending. A
writing hand-off closes its read-only process before it starts the replacement. If the deadline or a
cancellation falls into that close, the executor records the closed process as `priorNative`, then
sees the stop and holds; `connection` is still the closed one. `externalStoppedIntake`
(`carrier-recorder.cjs:440`) requires the two connections to differ, and the zero-turn settlement
refuses a transfer that had a turn, so nothing settles it and its scope stays active. The run
`external_stopped` finds it.

`observe_codex_lifecycle.py` reports `unfinishedStatePreservedAcrossExitAndUninstall` (2046), and the
inspection requires it (2434). The copy it compares with is taken at 2008, after the resumed and the
restored host have exited. A paused state that is changed while one of them exits is therefore the
state "before", and the claim is reported true. The run `lifecycle_exit` finds it: the pause is lifted
as the resumed host closes, after the last status, and the episode passes. Across the uninstall the
claim holds, which `PassedEpisode` checks.

Seen while modelling, and not claimed by a run: `docs/releases/v3.1.0.md:334-335` says that
"Signal-only invalidation may return only an independently bound last-safe allocation";
`closure.py:894-909` also returns it when beside the signal a state binding of the receipt failed: a
field bound twice, a bound value that differs, a target that is not bound. Not when one target is
bound twice: that failure has a name of its own (221) and drops the allocation.

## 7. Plan

Written in this order; each item names its questions.

1. Done in this order: `SessionLocks`, `TaskCheckpoint`, `CarrierRecorder`, `ExternalHandoff`;
   `Closure`, `StageLineage`, `Admission` and `Assessment`, `OwnedProcess` and `LifecycleObserver`.
2. Proved: the safety properties of `SessionLocks`, `TaskCheckpoint`, `CarrierRecorder`,
   `ExternalHandoff`, `Closure` and `Assessment`, with both refinements; those of `StageLineage`
   except `CommitKeepsAcceptance`; `ReleasedFirst` of `LifecycleObserver` (a root is removed only when
   nothing of the controller's scope runs).
3. To be proved next: `PassedEpisode`, then `CommitKeepsAcceptance`.

Left open, with the questions that would decide a module (the first two are listed as hazards):

* `CodexConnection`: one waiter with two alternatives, terminal and request ordered by journal
  position (147), answers given once (190), eviction of records still needed (65).
* `CodexSession` over `CarrierRecorder`: restore by claim, the check of the scope before a turn and
  the turn itself, adoption; abstractly, a register with one writer.
* `NativeTaskExecution`: slots, expiry against review (385), settlement whose read-back fails (535).
* `CarrierHandoff`: phases, adoption of responses, reconciliation and finalization.
* The double read of status (`task-checkpoint.cjs:1358`) against a retirement and its compensation;
  inspection of outcomes, files hashed one after another (441); a `SessionEnd` that acts on a view
  of a receipt retired meanwhile (1625).
* `NativeStateMcp`: pending calls. `ContextBudget`: arithmetic against a reference definition.

## 8. Not modelled, and why

* Formatting, text, hashing, JSON shape checks and size limits: no property is about them.
* `status` and context assessment: they write nothing. Status is one atomic read in `Prepare`.
* A failed hook that can neither mark the session nor print: the loss leaves no trace on disk and no
  property about the disk can speak of it.
* Evidence digests inside settlement receipts are taken to be valid: the recorder only compares them.
* Reuse of a pid: a pid of a dead process is never mistaken for a live one.
* Contract validators (`guardrails.py`, `identity.py`, `evidence.py`, `development.py` and the part
  of `control.py` outside the closeout snapshot): each compares one JSON record with fixed shapes and
  digests and reports the differences. No state, no order, nothing a checker could reach that a
  unit test does not.
* `observe_codex_entry.py`, except its process group: it captures one session and compares native
  events with expected text. Release and comparison scripts: parsing and printing.
* The Windows job object: it kills its members when it is closed, so `ReleasedFirst` would ask less.
* The native hand-off, session, connection, task execution and MCP programs: not modelled yet;
  section 7 keeps their questions.
