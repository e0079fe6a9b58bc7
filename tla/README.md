# Coordy: a TLA+ model of the kernel, its daemon and the S0 study

Coordy lets people and coding agents share a workspace of tasks. A Rust kernel
(`crates/coordy-kernel`) keeps one in-memory `World`, changes it by commands, and
starts agent runs by itself when the task graph allows it; a local daemon
(`crates/coordy-local-runtime`) saves that world and runs the agents. Beside the
product lie a study of what agents lose at compactions
(`research/s0-validation`, a pipeline of commands over files, with judges that are
asked over HTTP) and the task scripts of the repository (`.trellis/scripts`).

This directory models all three. TLC checks the models on small instances; TLAPS
proves the theorems of section 4 for every instance.

## 1. The system

### The product

| part | source | state | operations | hard because |
|---|---|---|---|---|
| issue blockers and run gates | `product.rs` 2955-3376 | `issue_blockers`, a task's `status` and `blocked_reason` | add, remove, finish, cancel, delete a blocker; hold and release | two gates and a person write one reason; every way a blocker ends must release |
| dependency edges, invalidation | `product.rs` 3612-4030, `verification.rs` 245-305 | `dependencies`, `node_artifacts`, materializations | declare, reaffirm, remove, decide, invalidate | versions live in two tables; agents declare edges while they run |
| evaluator | `graph/mod.rs` | none (derived) | ready set, fingerprints, projection | reads six tables that change at different moments |
| node attempts | `graph/schedule.rs` | `node_attempts` with a lease each | claim, bind, fence, retry, complete, pause, cancel | leases outlive inputs, runs and restarts |
| dispatchers | `runtime.rs` 79-763 | none of their own | executors, reviews, ready tasks, released tasks | nearly every command dispatches; capacity is shared |
| run lifecycle | `runtime.rs` 2225-2514, 2718-2839, 3776-4007 | `runs`, `paused_runs` | start, cancel, retry, harness events, session end | events arrive late, out of order, after a restart |
| task plans | `product.rs` 172-196, 829-1219, `runtime.rs` 896-1063, 3689-3774, 4015-4140, the renderer's chat | proposals, artifact errors, applications, the parents completed by rollup | extract from a reply, revise, confirm, apply, stage, roll up | replies arrive in chunks; windows show what they last fetched; stages, blockers and the graph dispatch the same tasks |
| local daemon | `coordy-local-runtime` | SQLite file, a gate, a channel, threads | submit and persist, ingest, sweep, recover | rollback after a failed save, crash between steps |
| harness adapters | `coordy-harness` | child processes | ACP and native sessions, kill | cancel races with registration |
| task commands | `runtime.rs` 1842-1905, `product.rs` | tasks, squads, projects | create, assign, status, sort a column, delete | status changes cascade, and one command writes them without |
| commitments, drift | `verification.rs`, `runtime.rs` 4361-4480 | commitments, conflicts | extract, compare after a compaction | pauses a run in mid-session |
| authority, memory | `authority.rs`, `memory.rs` | grants, memory records | grant, revoke, retrieve | authority is read before retrieval |
| shared contracts | `runtime.rs` 2146-2224 | contracts, approvals | propose, approve | activation invalidates running work |
| automations | `product.rs` 2779-2930 | schedules | sweep, trigger | clock, missed sweeps |
| chats | `runtime.rs` 2921-2940, 3689-3775, 4009-4150 | messages | stream, stop | split and late chunks |
| GitHub sync | `github.rs`, `product.rs` 776-826 | snapshot of pull requests | refresh, complete tasks | external and stale; completes several tasks at once |
| control plane | `coordy-control-plane` | devices, tokens, sealed records | register, sync | separate server, tokens expire |
| desktop, renderer | `apps/desktop`, `packages` | windows | supervise the daemon, show views | restarts of the daemon |

How they interact: a command reaches `Kernel::submit` through the daemon's IPC; the
kernel holds one lock on the world for the whole command, refreshes gates,
dispatches, and calls `Ports::spawn_harness` for each run it started. `LivePorts`
runs a harness on a thread of its own and sends its events through a channel to
the daemon's ingest thread, which submits each as `IngestHarnessEvent`. So
commands are atomic, and what interleaves is commands, events of several runs,
saves, imports of discovered agents, and restarts of the daemon.

### The study

| part | source (`src/coordy/`) | state | operations | hard because |
|---|---|---|---|---|
| screening | `screening.py` | sessions' windows, opportunities, candidates | cut, merge, rank, sample | four readers cut one log by rules of their own |
| packets and judges | `semantic.py` | packets, a record per request, checkpoints, manifest | prepare, judge, calibrate, approve | requests cost money: stops, retries and restarts must neither lose nor repeat one |
| incidents | `incidents.py` | fragments, link packets, cases, prelabels | link in two passes, judge, prelabel | components and clusters nest; packets have a size |
| people's answers | `review.py`, `review_ui.py`, `incidents.py` | queues, drafts, Ground Truth | draw, collect, finalize, adjudicate | answers outlive what they were given about |
| trajectories | `trajectory.py` | natural windows, one history per Goal | cut, unite, judge | forks copy history |
| cutoff and ledger | `incident_cutoff.py` | history before the first wrong action, commitments | order, cut, supersede, close | what came later must not show |
| replay | `replay.py` | frozen packets, recursive state, results, scores | prepare, run, score, audit | many dependent calls, no lock |
| wrong actions | `action.py` | candidates, probes | build, probe | pairs of answers belong together |

They interact through files only: each command reads the files of earlier stages,
checks the hashes a manifest binds, and replaces its own files. One lock
serialises the commands of the semantic pipeline; the others take none.

### The scripts

Tasks are directories with a `task.json`; a session's pointer to its task is a file;
the journal is a sequence of numbered files with an index. Windows of several
sessions run the scripts side by side, with git as the shared store.

`PROJECT.json` lists every part with its status, and the hazards of the code at
the lines where they bite, each with the properties that cover it.

## 2. The modules

### Kernel

| module | models | extends |
|---|---|---|
| `ReachSearch` | the stack walk of `issue_graph_reaches`, turn by turn | |
| `GraphWorld` | the part of `World` a graph lives in; blockers, holds, releases, reachability without recursion | |
| `GraphSchedule` | evaluator, attempts, dispatchers | `GraphWorld` |
| `GraphKernel` | one action per command, per event and for the restart | `GraphSchedule` |
| `GraphSafety` | type invariant, invariants, action properties | `GraphKernel` |
| `PlanSchedule` | an applied task plan: stages and rollup inside the kernel's commands | `GraphSafety` |
| `TaskPlans` | replies, proposals, windows, confirmation, application | |
| `DaemonRuntime` | gate, saving, rollback, channel, sessions, kill, the import beside the gate, crash, restart | |
| `GraphProofs` | what every helper and dispatcher leaves alone; types, gates, acyclicity, edges; holds and their release | `GraphSafety`, FiniteSetTheorems, TLAPS |
| `GraphRunProofs` | attempts, starts, outcomes, verdicts; no node is forgotten | `GraphProofs` |
| `PlanProofs` | the children of a plan and its parent | `PlanSchedule`, `GraphRunProofs` |
| `ChatProofs` | what replies, windows and confirmations may do to a plan | `TaskPlans`, TLAPS |
| `DaemonProofs` | the theorems about the daemon | `DaemonRuntime`, TLAPS |
| `MCGraph`, `MCProgress`, `MCPlan`, `MCDaemon` | instances for TLC (`MCPlan` of both plan modules); `MCProgress` has the graph's fairness and liveness, `MCGraph` two statements of the repository's tests that do not hold | the module each is about |

### Study

| module | models | extends |
|---|---|---|
| `RequestLedger` | abstract: what the dispatch log promises of a judge's requests | |
| `ApiDispatch` | one durable record per request: claim, arm, send, receive, parse, validate, retry, recover | |
| `JudgeRuns` | the runners of the seven judges, their pools, checkpoints, stops, kills and restarts | `ApiDispatch` |
| `JudgeSafety` | their properties, and the refinement `Ledger == INSTANCE RequestLedger WITH fate <- ...` | `JudgeRuns` |
| `DetectionReplay` | prepare, run, score and audit of the replay; its properties | |
| `SessionScan` | one log, read by the screening, the two packet builders and the evidence card | |
| `ScreeningPool` | merging windows into opportunities, ranks, the bounded sample | |
| `SemanticPipeline` | the stages from `prepare-s0b` to the causal calibration and the files between them | |
| `StateConsensus` | two judges, controls, the calibration queue, the floor | |
| `EvidenceReview` | cards, queue, classes and answers with the hashes that bind them | |
| `ScreeningDecision` | the sample of the queue and the rules STOP, PIVOT, PROCEED | |
| `IncidentCases` | components, link packets, clusters of three passes, cases | |
| `HumanTriage` | prelabels (read and written back), queue, draft, site, finalizing, adjudication | |
| `TrajectoryHistory` | windows of a session and its forks, one history, the cut | |
| `CommitmentLedger` | findings entered in order, identity, supersession, closing | |
| `JudgeProofs` | theorems about the judges' runs | `JudgeSafety`, TLAPS |
| `ReplayProofs` | theorems about the replay | `DetectionReplay`, TLAPS |
| `MCJudge`, `MCReplay` | instances for TLC | `JudgeSafety`, `DetectionReplay` |
| `StudyFiles` | what the study may rest on, of all its files | `EvidenceReview`, `SemanticPipeline`, `HumanTriage` |
| `FileProofs` | theorems about the files: what is bound, answered and decided | `StudyFiles`, TLAPS |
| `MCFiles` | instance for TLC of the modules whose state is files | `StudyFiles` |
| `MCLogs`, `MCFindings` | instances for TLC of the modules whose state is logs and findings, each taken by `INSTANCE` with several sets of constants | |

### Scripts

| module | models | extends |
|---|---|---|
| `TaskSessions` | keys, tickets and pointers: whose task is the active one | |
| `TaskCommands` | create, start, finish, archive, link, list, step by step | `TaskSessions` |
| `SessionJournal` | appending, rotating and counting sessions from several windows | |
| `TaskCommits` | what archiving and journalling commit | |
| `MCScripts` | instances for TLC of all of them | |

The definitions named as mutants ("Mutant: ...") model no code. Each is a
plausible bug in the definition after it; `PROJECT.json` says which property
notices it.

### How state and actions correspond to the code

**Kernel.** `world` is one record, as the kernel has one `World`. A helper that takes
`&mut World` is an operator from a world to a world. A dispatcher walks its
candidates in the order of generated ids, and each start uses up capacity, so it is
an operator from a world to the *set* of worlds it may leave; an action picks one.
An action contains everything the handler does before it releases the lock:
the change, the gates, the dispatch. `Finish` is the common tail of commands
handled in `product.rs`. An attempt is stored with the run it is bound to: `lease` is
its `lease_status` (`"none"` without an attempt), `fingerprint` the input it was
claimed with. `runs[t]` is the task's list of runs, oldest first. A fingerprint is
the set of the parts that `input_fingerprint` joins into text. The status `"running"`
stands also for `review`, the trigger `"issue"` for all triggers the graph does not
look at, `"graph"` also for `graph_execute`, the reason `"gate"` for all reasons of a
hold other than the two gates' and a person's; the code treats the members of
each group alike. `attempt` numbers the attempts of a task in the order in which they were
claimed, which is not that of its runs: `ensure_attempt_for_graph_run` gives a run that was
started before others its attempt when it first reports. `claim_explicit_retry` looks at
the newest attempt of an input, so the order is part of the state.

What is left out of the graph, and why it is sound to. The label `entity` of an edge:
declaring the same source, target and kind again may find the old edge or make a new
one, and both happen in `Recorded`. An attempt whose run could not be started:
nothing looks at it again. The edge state `superseded`: no handler stores it. Several
lines in one message: they are separate events here, which only adds
interleavings. `spawn_harness` refusing a run: `LivePorts` never does, a program
that does not start is a session that ends with exit code 1. The assignee is a
constant; edges between agents or contracts, and squads, are not in the graph. Every
actor is taken to have the authority for the command it gives.
`moved` is the model's own: the tasks whose status was last written by
`ReorderTasks`, the one command that sets a status and looks at nothing else (nor at whether
the status is one of those the others know: columns are, so it is one here). A
command, event or gate that writes a task's status takes it out again.
`SyncGithubPullRequests` completes any set of tasks whose other blockers are
finished: the order in which the code walks over them, that of their creation, may be
any. `StopChat` ends the runs of one hidden task, as a chat's messages are runs of
one. An agent's limit is a constant, so that `UpdateAgent` lowering it under what
runs already (runtime.rs:1475) is not modelled; what is said of limits is said of
starts.
`dispatch_conductor_reviews` (688-763) has no caller, and the `REAFFIRM` branch of
`after_harness_event` (801-829) matches no prompt that the kernel writes, so
neither is modelled.

**Plans.** `PlanSchedule` states the kernel's commands once more with the two
reconcilers in their places (`Settle` is the tail of commands in `runtime.rs`,
`SettleAndReconcile` of those in `product.rs`), in a workspace without a conductor,
where the reconcilers meet the executors of the declared graph. It begins when the
plan has been applied. `TaskPlans` ends there: a draft is a value of `Design`, what
`validate_task_plan` says of it is whether its existing parent is still active, and
a window is what it shows, what its card holds, and the confirmation whose
revision is saved. Two calls of a window are two actions; a lost answer leaves it
confirming.

**Daemon.** `DaemonRuntime` keeps of the world the runs' statuses and one other kind
of thing that commands create; a snapshot is that record. `gate` is
the mutex around change and save, `channel` the harness channel, `pids` the registry
of children. A save may fail before the snapshot or after it (`Failures`).
`ImportAgent` is one kernel command of `import_agents`, which has no gate, and
`ImportAnswers` its save, which has one and no rollback; `Agents` stands for what
these commands change, agents made and older ones archived. `beside` remembers the
command that had the gate at that moment. The sweep thread's refresh of pull
requests is left out: it submits and saves in the gate, nobody is answered, and
its change is in memory and on the next snapshot, as a sweep's is.

**Judges.** One record per item goes through the states the code writes to
disk; the steps of a worker are the places where a kill or another process may
come in. `Judge` and `Runner` are records of what differs between the seven judges:
budgets, which failures are retried, whether a record is recovered, whether the
pool stops at the first failure, whether a lock is taken.

**Commands over files.** In the other modules of the study and of the scripts an action is a step
between two accesses to files, a hash in a file is the content it was taken from, and a command
may die between any two writes where its module has `MayDie` or a "dead" state. `review-s0` and
the causal calibration write the same two files, the review's cards and the manifest that binds
them; `EvidenceReview` has the latter between the review's own commands, `SemanticPipeline` the
former between the stages, so each sees the other come in between its steps. In `TaskCommands`
`past` is what the files do not show: which names were created once more while live, and which
children a dying `remove-subtask` has left half unlinked. In `TaskCommits` git may fail to list,
add, commit, or unstage (`obeyed`). Pure stages (`SessionScan`, `ScreeningPool`, `IncidentCases`,
`TrajectoryHistory`, `CommitmentLedger`, `ScreeningDecision`, `StateConsensus`) grow their input
row by row or finding by finding and compute the stage from it, so that TLC visits every input up
to the bound.

## 3. The runs

There are ten passing runs. A run is about one part of the system, and a
behaviour of it is one of several *regimes* (`regime` or `part`, chosen in the initial
state and constant after it): the rules are always the whole module, and the regimes
differ in who may do what and in the bounds. What one regime leaves out to stay
small, another has. All bounds are in the `MC` modules. A property that only one
regime can bring into danger is stated for that regime.

Deadlock is checked in `study_files`, where something can always be done again.
Elsewhere the system really stops: a workspace with nothing left to do, a ledger
that is made once, a log that ends, or a bound on commands.

| run | instance | what it shows |
|---|---|---|
| `graph_workspace` | three tasks, two agents, two edge ids; seven regimes | see below |
| `graph_progress` | two or three tasks of one agent with one slot; all graphs of three nodes | see below |
| `plans` | a parent and up to three children; two windows, two drafts, up to three proposals | an applied plan is the confirmed one, once, and its children and parent move in step |
| `daemon` | one run with two crashes and every failure of a save; two runs next to each other; one run, an import and a crash | nothing acknowledged is lost, nothing refused stays, every run ends |
| `judges` | eleven pairs of judge and runner, one or two packets, up to eight starts | the log implements `RequestLedger`; rows are backed, survive and can be resumed |
| `replay` | four set-ups of packets, answers, processes, versions of sources and of the program | what is called complete belongs together and is reproduced |
| `study_files` | two screenings, two takes of every answer, two judges, two sites | answers are used for what was asked |
| `study_logs` | logs of up to five, or of seven rows; histories of one session with up to six rows, or of two or three with four in all | the readings of a log agree; the cut hides what follows |
| `study_findings` | three to five cards, packets or findings of every kind the rules tell apart | selection, decision, cases and ledger |
| `scripts` | three tasks in one window, one task in two or three; a journal of four lines a file; two tasks to commit | records hold together, windows stay apart |

**`graph_workspace`.** Regimes: *blockers* (a ring of blockers, edges of every kind, a task that
is deleted; three tasks are the least for a cycle that neither list shows alone), *board* (columns
are sorted and pull requests complete a chain, while blockers are set, detached and deleted),
*staleness* (two inputs of one consumer, two changes of one, every decision, a blocker: every
partial settlement is reached), *reviews* (two stale edges and a conductor that is replaced: a
verdict may arrive for the wrong one), *rereviews* (one edge that goes stale twice: fences have to
follow), *marking* (a person's mark on a task that waits for a blocker whose output it consumes,
against the dispatchers), *mixed* (all commands and events on two tasks). All of its properties
are also proved. `GateCoherent`: a task is blocked if and only if there is a reason, but for a
task in `moved`. `IssueHoldJustified`: every way a blocker can go releases, but for being sorted
into another column, and the next command that writes the status of that blocker, or takes it
away, makes up for it. `AttemptsAreFenced`: one attempt at work on an input, and a present one.
`HoldReleasedOnlyWhenClear`, `OutcomesAreFinal`, `VerdictSettlesItsGeneration`,
`StartsRespectGates` say what a step may never do. Edge ids may be permuted: no definition
compares them.

**`graph_progress`.** *executors*: runs end, fail, are cancelled, retried and cut off by restarts
while edges go stale and are reaffirmed. *progress*: a producer with two consumers, sessions that
end, fail or drift; here sessions are fair. *leaving*: a conductor is replaced while its review is
under way, which then ends without a verdict. *board*: a producer is sorted into the column of the
finished tasks or merged, and a chat on the same slot is stopped. *search*: the walk of the cycle
check. `StartsWereDue`: no input is worked on twice, none is retried unasked, no agent is over its
limit. `NoNodeForgotten`: no step leaves a node waiting that it made ready, except for the seven
kinds that reconcile nothing (`ReconcilesNothing`, and the end of section 5). Both are also
proved. `ReadyNodesStart`: a ready node is started eventually. `WalkAnswers`: the walk ends, and
its answer is reachability.

**`plans`.** *stages*, *parent*, *board*, *parent_moved*, *declared* begin with an applied plan:
three children on one slot; a family whose parent has a gate of its own; columns that are sorted,
and pull requests that merge, over children, parent and family; the same with the parent sorted
among the done; a child that is a node of the declared graph too, beside a chat. *replies* and
*windows* end with the application: two replies of which an artifact may be broken or incomplete,
or two windows that revise and confirm, with a restart. `ParentFollowsChildren`, unless a patch
may contradict a commitment (`runtime.rs:2512` in section 5) or the parent itself may be sorted
into the column of the done (`product.rs:1539` there; children that are sorted are followed, since
`ReorderTasks` rolls up); `ChildrenStartInTurn` (in their stage, never out of a plan that was only
created, once, none forgotten), for every start but those that somebody asks for by name and those
of the declared graph's executor (`runtime.rs:206` there), and for every step but a restart and
the stop of a chat; `AppliedOnceAsConfirmed` (one proposal per reply, incomplete artifacts
reported, the tasks are those of the draft that was confirmed, made once, never revised);
`NothingOverwritten` (by a window that is behind, by an older proposal, from an unsound reply).
What is said of reports and unsound replies leaves out chats whose replies name an earlier one as
their source (`runtime.rs:3740`), and reports those that a restart may cut off (`lib.rs:161`). All
four are also proved.

**`daemon`.** `AcknowledgedIsDurable`, `RunningIsHeardOf`, `RefusedIsForgotten` and
`OutcomesStand` are also proved. `RefusedIsForgotten` is stated for saves that fail before the
snapshot, and of commands, not of imports (`discovery.rs:121` in section 5).
`AcknowledgedIsDurable` covers imports too, but for those that came in beside a command that
was refused. Kinds: *alone* (one run, two crashes, commands, sweeps, drifts), *several* (two
runs drawn in order), *importing* (one run, an import, any failure of a save, one crash).
`RunsEnd` needs the fairness below.

**`judges`.** `ImplementsLedger` is the refinement: `fate` of a request is computed
from its record, and every step of claim, send, receive, crash and restart is a step of
`RequestLedger` or a stutter. So, across crashes, no request leaves again while its
outcome is unknown or once it was answered, and a failed one leaves at most
`budget` times. `CheckpointIsSound` joins `RowsAreBacked`, `ManifestCoversInputs`,
`CheckpointStaysReadable` and `NoSoundAnswerRefused`. `RowsSurvive`, `RunEnds`.
Two packets are the least for a pool where one fails and one does not; one packet
with up to eight starts uses up every budget. All but
`RunEnds` are also proved.

**`replay`.** `ResultsAreBound` joins `ResultsBelongToSources`, `ScoresBelongToResults` and
`RerunReproduces`, and is also proved; `ReplayEnds` is not.

**`study_files`.** *review*: screening, cards, classes, answers and decision over two screenings.
*stages*: the commands of the grading but the sample's, and `review-s0`, in any order, killed
between any two writes. A stage that died can be run again, with two exceptions: half of a frozen sample, and
cards that were classified and not bound (`semantic.py:3272` in section 5). *sample*: the
same beside the smoke sample and the approval of its judge, without cards. *alone*, *together*: one site that may die, two sites at
once, with a second round, while the prelabels of a round are written back from a manifest read
before. `AnswersMeetTheirQuestions` joins `ClassesOfTheirScreening`, `SoundMeansBound` and
`OlderAnswersFailClosed`; it is stated for one process, since two break it (`review.py:687` in
section 5). `BoundIsWhatWasGiven` joins `ManifestIsOneRun` (`BoundOfOneRun` and `DiedMayBeRerun`),
`SmokeRestsOnApproval` and `TruthWasGiven`: what a manifest, a sample and a Ground Truth rest on.
`AnswersAreKept` joins `PaidAnswersStay` and `SavedAnswersStay`, what no step may take away; the
latter is stated for one site, since the draft of two is whichever site's was written last. All
three are also proved.

**`study_logs`.** *short*: every log of up to five rows of seven kinds, three or six seconds
apart; *long*: markers and plans, up to seven rows, so that five lie between two markers.
`ReadingsAgree`: each opportunity has its packets, nothing in them is of another
window, and the card shows the same window. *one*, *forks*: a session with markers, and
two of which one may copy the other's rows; *tied*: three, whose rows share their times, so
that line and session decide. `CutHidesWhatFollows`: `NoRowTwice`,
`SplitAtTheLoss`, `PrefixIsWhole`, `OutcomeIsHidden`, `ActionIsNoEvidence`,
`NobodyForetells`. `OutcomeIsHidden` names the one copy of an outcome that the cut leaves in view
(`incident_cutoff.py:828` in section 5), which takes three sessions.

**`study_findings`.** Every input up to the bound is grown, then the stage is computed: pool
(*again*, *many*), decision (*rules*, *drawing*), consensus (*queueing*, *measuring*), cases
(*overlapping*, *regraded*, in both of which a stage may be graded anew or its results removed
between the passes), ledger (*entry*, *chain* of one session, *across* of two whose lines and
times disagree). `SelectionsAreFair`, `DecisionsRestOnPeople`, `FindingsMakeOneCase` and
`CommitmentsAreReplacedInOrder` name the parts they join. That no evidence is counted twice holds
from whichever files a case was built; that no component is lost, only if the files follow each
other (`incidents.py:930` in section 5). A commitment is closed by a later line, and by a later
time only within a session (`incident_cutoff.py:291` there). Three to five items are the least for
a queue that is over its size, a second Goal, a third pass, a replacement of a replacement.

**`scripts`.** *links*, *crashes*: three tasks, which may be permuted, under every command,
or under those that link and unlink, any of which may stop between two files; in both a live
name may be created once more. *keys*: three windows one after the other, each command announced
by its hook; *at_once*: two at the same time, whose hooks may be missing or their tickets
expired. *journal*, *commits* (with a git that fails). `RecordsHoldTogether`, `WindowsStayApart`
name the parts they join; the links and lists of children whose parent was created anew, or whose
`remove-subtask` died, are excepted by name (`Disowned`), as is the window that has no fresh
ticket of its own (`task_store.py` and `active_task.py` in section 5).

### Fairness

*Graph.* A running session ends, well or badly: `LivePorts::spawn_harness` sends the
session event after `run_kind` has returned, whatever it returned. That it returns is up to
the agent's program, since a session has no timeout. Nothing is assumed of people.
Retries, cancels and restarts are left out of the fair part, since they leave a
waiting node to the next command. The walk is a loop of one command.

*Daemon.* The command thread and the ingest thread go on (weak); the ingest thread gets
the gate if it is free again and again (strong: a mutex may pass a waiter over, and
commands keep coming); a session goes on to its end (weak).

*Judges and replay.* A started process goes on until it exits (weak); the judge's HTTP call
has a timeout. A crash is never fair. Nobody has to start a process.

No fairness is assumed elsewhere; there are only safety properties there.

### Mutants

For every property of a passing run, `PROJECT.json` names a mutant: a form
of one definition as a plausible bug would make it, under which TLC finds the property
violated in that run.

## 4. What is proved

TLAPS checks 641 lemmas and 31 theorems in eight modules, from the assumptions on the
constants alone (`ConstantsAssumption`, `InputsAssumption`, `DaemonAssumption`,
`SetupsAreGradings`, `SetupsAreReplays`, `ChatsAssumption`, `PlanInputsAssumption`,
`ReviewAssumption`, `MarksAreApart`, `TriagesAssumption`). They hold
for any sets of tasks, agents and edge ids, any assignment, limits, inputs and bounds, any
runs, things, ways a save may fail and number of restarts, any packets, processes and starts
of a judge or a replay, any windows, replies and drafts of a chat, any stages,
dependencies and family of a plan, and any screenings, judgements, sites, rounds and episodes
of the study. What `ConstantsAssumption` asks
is that a workspace has finitely many tasks, that edge ids and task ids are
different things, and that the two marks of an edge that is not there are neither
edges nor the same. What `SetupsAreGradings` asks is that a judge is run by its own runner
(`Grades`, the pairs the command line makes, with any number of workers), and that the runners
without a lock are started one after the other, but for the action probes. What
`SetupsAreReplays` asks is that the bounds are natural numbers and that the mark of a missing
answer is none. `ChatsAssumption` types the set-ups of a chat and sets apart the mark of a
window that shows nothing. What `PlanInputsAssumption` asks of a
plan is what `validate_task_plan` (product.rs:280-505) and `apply_task_plan` ensure: it has
children, none of them its parent, which depend on each other without a cycle and on no later
stage. It also leaves out a conductor, as the module does. `ReviewAssumption` and
`MarksAreApart` set the marks of what is missing or torn apart from screenings, judges and
judgements, and name the commands; `TriagesAssumption` types the set-ups of a triage, which has at
least one round. Every invariant and action property of `GraphSafety`, and every safety property
of `PlanSchedule`, `TaskPlans`, `DaemonRuntime`, `JudgeSafety`, `DetectionReplay`,
`EvidenceReview`, `SemanticPipeline` and `HumanTriage` that a run checks, is a theorem.

**Types, gates, order, edges** (`GraphProofs`): `TypeCorrectness`,
`GatesStayCoherent`, `HappensBeforeStaysAcyclic`, `ActiveEdgesStayCurrent`, and
`CycleCheckIsExact`, that the reachability check refuses exactly the arcs that would close
a cycle. The inductive invariant is `Sound(world)`, the conjunction of the four; each of
the last three is inductive together with the first, which tells what an update of the
record leaves. The argument has three layers. Every dispatcher,
fence and pause changes runs only (`OnlyRuns`), and every gate changes statuses with
their reasons only and coherently (`OnlyGates`). Neither
disturbs `Sound` (`RunsDoNotMatter`, `GatesDoNotMatter`), and each change of
blockers, edges, versions, records and runs keeps it. The two interesting lemmas are
`CheckedArcStaysAcyclic`, where an arc is added only after the walk from its head has
missed its tail, so that the set the walk visits separates them in the new relation, and
`InvalidatedIsSound`, where a producer's version and what its consumers know of it
move together. Then there is one lemma per action, and `NextIsSound` joins them.
Acyclicity is stated through closed sets rather than paths, so that no recursion is
needed; the regime *search* ties that statement to the code's loop.

**Runs and attempts** (`GraphRunProofs`): `AttemptsStayFenced`, `StartsStayDue`,
`OutcomesStayFinal`, `VerdictsSettleTheirGeneration`, `StartsKeepToGates`. None of the
invariants among them is inductive. `Fit(world)` adds what is: that an attempt has one number
and only the newest at an input may work (`NewestWorks`; without the numbers a late
report could overtake a retry), that when the graph starts a run the executors before it
have stopped and the attempts at its input are fenced, so that none of them can end later
(`StartsAfterOthers`), that a fingerprint names edges that were handed out and lead into its
task (`NamesInputs`), that a running lease is at a present input, and that no agent is over
its limit. `Grows` says what a scheduling pass may do to the runs there are, `Advances` what
an action may; the three action properties follow from it. Slots are counted by a bijection
between the runs a pass starts and the slots it takes up.

**Holds** (`GraphProofs`, second part): `IssueHoldsStayJustified`, `HoldsStayUntilClear`. `Justified`
says that a task held for its blockers has a cause, an unfinished blocker or one that was sorted
(`HasCause`). It survives an action when the tasks whose blockers it finishes, cancels, deletes
or detaches are looked at again, all of them, in the same action: that is a fact about each
handler, proved handler by handler. For the pull requests the set of tasks that are
finished together has to be followed through the chain (`CompletedIsJust`), and the mark
`moved` is what `ReorderTasks` leaves instead.

**Nothing forgotten** (`GraphRunProofs`, second part): `NoNodeIsForgotten`. A pass of the dispatcher
leaves no ready node whose agent has a free slot (`DispatchLeavesNothingWaiting`), what
follows the pass only adds running runs, which makes no node ready and frees no slot
(`StartsMakeNothingWait`), and every command but the seven exceptions ends in a pass. The proof
does not go through for the end of an inconclusive review, and TLC found the behaviour
that shows why; it is the last of the exceptions (section 5).

**Plans in the kernel** (`PlanProofs`): `ParentsFollowChildren`, `PlansStartChildrenInTurn`.
`ParentMeansChildren` and `ChildrenMeanParent` are not inductive: a parent that somebody set to
done by hand would stay so when a child is reopened, since the rollup takes back only what it has
set itself. `Follows` adds that a done parent is done by the rollup (which holds because
`SetTaskStatus` refuses it earlier, `ReorderTasks` does not list it in the regimes this is said
of, pull requests pass over it, and every command rolls up) and `PlanInv` joins it with `Sound`,
the absence of a conductor and what a plan is. A command is then followed through its tail. Before
the rollup only the parent may be out of step (`Tidy`), the rollup puts it in step (`Rolled`), the
release of other tasks starts no child and finishes nothing (`Quiet`, `SameEnds`), and the pass
over the plan opens and starts exactly the children whose turn it is (`Turns`), after which none
is left that could have been started (`NoneIsForgotten`, from the counting lemmas of
`GraphRunProofs`). What the graph's own dispatchers do in between is a matter of `OnlyRuns` and
`Extended` from the two graph modules, which is why `PlanProofs` extends them. There is one lemma
of the form `...Steps` for each command and event, each proving the conjunction `PlanStep`, and
`PlanNextSteps` joins them.

**Plans in the chat** (`ChatProofs`): `PlansAreAppliedOnce`, `PlansOverwriteNothing`. None of the
parts of `AppliedOnceAsConfirmed` is inductive but the types. `RecordsOK` says that ids are
handed out in order, that the records of one id have one source and different revisions of which
one is the latest, and that two proposals by agents are of different replies; `WindowsOK`, that
what a window is confirming is, by id, revision and design, a record that exists. That
is what makes a late confirmation harmless: if the revision it names is still the latest, then
it is the draft the person saw, and if not, it is refused. `RepliesOK` says that a reply with a
proposal of its own carries nothing more or is in error, and that an artifact names its own
run, without which a draft could clear the error of a reply it is not of.

**Daemon** (`DaemonProofs`): `DaemonTypeCorrectness`, `AcknowledgedStays`,
`RunningStaysHeard`, `RefusedStaysForgotten`, `OutcomesAreKept`. The invariant says who holds
the gate (`GateOK`), what the threads have done (`ThreadsOK`), that ids are drawn before a run
is known anywhere (`UsedOK`), that what was acknowledged is wherever the world may be taken
from again - memory, disk, and the copy kept for a rollback (`DurableOK`), that a rollback
changes no outcome (`OutcomesOK`), and that also a run which a rollback makes running again
is heard of (`HeardOK`). For what was refused it says in addition that a command under way
changes only what it was asked for (`CommandOK`), that the snapshot is ahead of the world only
by what a late failure left there (`AheadOK`), and that a refused command's effect is neither
on disk nor in the world the next command will find (`RefusedOK`): while the same thing
is asked for again, the effect is in memory, so that the property itself is not inductive.
What an import made is in memory, on disk and in the copy kept for a rollback, or a command
that was refused has swept it away; the one place it may be missing from is the copy of the
command under way when it came in (`ImportsOK`).

**Judges** (`JudgeProofs`): `CheckpointStaysSound`, `RowsStaySaved`, `LedgerIsImplemented`. The
last is the refinement: initial states map to initial states, and each step of a worker, pool,
kill or restart maps to a step of `RequestLedger` or to a stutter. The invariant `IInv` has
four parts that none of the properties says. A record's attempt number is one more than the
failures before it that may be retried (`WithinRetries`), which bounds the sends by
`Budget`; the sends are the attempts, less one that is armed and has not left
(`LedgerOK`); a claimed record has one owner (`OneOwner`), by the creation of its file, by the
lock, or because no other process runs; and a row in memory, in a window's result or in the
file is backed by a record that will not change again (`RowOK`). The link judge sends what was
rejected again (section 5), so its requests are in no ledger (`Promised`), and the lemmas on
counting are about the others; the theorems on its checkpoint hold all the same.

**Replay** (`ReplayProofs`): `ReplayInvariant`, `ResultsStayBound`. That a rerun reproduces the
results is about two computations with anything between them, so the invariant `IInv` has to
follow an answer through every place that may hold it: a process's hand, its copy of the
checkpoint, the file of each runner, the answers gathered so far, the results. `AnsweredOnce`
says that wherever an answer is, the record of its call is answered, and that no other place
holds another answer to the same call; the call is known by the version of the packets, the step
and the instructions it was given. It is the record that makes this true and not the
checkpoint: two processes may run without a lock, and one that overwrites the file with its stale
copy loses rows of the other, but their calls cannot be sent again, and the rerun is refused
rather than answered otherwise. `KindsAgree` says that the packets of one version are of one
kind, in the manifest, in the stale manifest a process still holds, and in the results; `JobOK`
and `FileOK` say which steps a process has answered and whose rows a file has.

**Files of the study** (`FileProofs`): `AnswersStayWithTheirQuestions`, `OnlyWhatWasGivenIsBound`
and `AnswersAreNeverLost`, the last two of the grading and the triage side by side, from a lemma
for each of their parts. In all three modules the property is about files at rest, and the
invariant says what holds between any two writes. *Review* (`ReviewInv`, for one process): what a
command under way has written already, and that what it has read is still there (`ReviewUnderWay`,
`CalibrationUnderWay`, `DecisionUnderWay`); a screening under way is none that a manifest knows
(`ScreenUnderWay`), so the moment it is written down nothing counts as bound. With two processes
`CalibrationUnderWay` is what fails. *Grading* (`GradingInv`): the state judgements of a screening
are made once, and what is made of them names them (`FilesOK`); what the manifest binds is the
file that is there, unless the file has been made anew for a manifest to come (`BoundOK`); and a
stage goes by the same facts whether it is under way or died before its last write (`StageOK(at)`,
`StageOK(died)`), which is why it can be run again; and once the causal calibration is past the
review's cards, those with people's classes are bound (`CardsAreBound`). `BoundOfOneRun` is not
inductive: a manifest could bind two sets of judgements of the same screening, were a complete one
ever replaced. *Triage* (`TriageInv`): wherever answers are - draft, template, Ground Truth, or
the hand of a process that has read them - they are among those given to the questions of their
round (`Said`), and what a process goes on with after its checks is all of a queue (`JobFits`),
whatever has been prepared anew since. With one site a save under way extends the draft that is
there.

Only model-checked: the rest of the study (logs, selections, cases, the ledger) and the scripts,
and what ties the closed sets of the graph to the walk (`WalkAnswers`). Out of the prover's reach,
and left to TLC: liveness under fairness (`ReadyNodesStart`, `RunsEnd`, `RunEnds`, `ReplayEnds`),
and what the stages that fold over a log or a list of findings compute for every input, which
needs induction over data.

## 5. What the code does otherwise than it says

Two disagreements have a run of their own (`expect: violation`).

* `claim_hand_marked`. `dispatch_graph_executors` (runtime.rs:206-284) looks at the status
  only for backlog, done and cancelled. A task that a person marked blocked, which waits for a
  blocker and consumes that blocker's output, is started by the end of the blocker. The release
  of blockers skips such a task (runtime.rs:488), and a test says of the end of a blocker
  that "hand-marked blocked tasks must not auto-start" (tests/invariants.rs:6884); its
  task is on no declared edge, so the graph's executor does not see it.
* `claim_orphan_hold`. A stale input takes over the hold of a blocker; reaffirming the
  edge while the blocker is unfinished keeps the stale reason, since
  `sync_issue_blocker_hold` replaces no reason but its own, and the blocker's end then does
  not release the task (compare `issue_blocker_holds_start_and_releases_when_done`,
  tests/invariants.rs:6660).

The following were met while modelling. The models do what the code does, and the
properties are stated so that they hold of it; none has a run of its own. Paths are
relative to the repository.

| where | the code | what is said of it |
|---|---|---|
| `sqlite.rs:53` | the snapshot is saved before the event log and the outbox, without a transaction: a failure after it leaves a refused command on disk | `ipc.rs:167`, `persist_failure_does_not_ack_and_rolls_back` |
| `children.rs:22` | a run cancelled before its process is registered works on until it ends by itself | `TODO.md:76`, stop the current run |
| `runtime.rs:206` | a plan's child on a declared edge is started by the graph's executor, which looks at no plan: again after its run failed, and, once a person has opened it, before its stage or in a plan that was only created | `task-plan-contract.md:303`, 322 |
| `runtime.rs:2512` | a conflict that takes a child out of done does not reopen its parent | `task-plan-contract.md:311` |
| `runtime.rs:3740` | an artifact that names an earlier run as its source clears that run's error | `invariants.rs:843` |
| `lib.rs:161` | a half-written artifact of a run the daemon's death ended is not reported | `task-plan-contract.md:150` |
| `discovery.rs:121` | the import of discovered agents submits without the gate and is not rolled back: what it was acknowledged for is gone when the command beside it is refused, and what it was refused for is in the next snapshot | `submit_and_persist` (lib.rs:101-129), which every other command of a client goes through |
| `product.rs:1539` | a task sorted into a column gets its status and nothing else: a blocked one keeps no reason or keeps one it should not, a blocker that is done releases nobody, a plan's parent is done before its children | `apply_task_status` (runtime.rs:3488-3495), the guard of a managed parent (1842-1905) |
| `semantic.py:497` | two 504 answers and a failed lookup give a row attempt 4, which the check of the checkpoint (at most 3) refuses | `progress.md:44`, resumable checkpoints |
| `semantic.py:563` | only the incident judge recovers a stored, validated answer | the comment at `semantic.py:804` |
| `semantic.py:642` | a retry is claimed by reading and rewriting: two unlocked processes both send | `s0-validation/README.md:210` |
| `incidents.py:665` | the link judge sends a rejected request again | `s0-validation/README.md:203` |
| `incidents.py:930` | cases are built from whatever first and second clusters there are: if those were graded anew since, components go missing | the docstring at 912 |
| `incidents.py:1861` | a case whose request was cut off is neither missing nor unassessable | the docstring at 1641 |
| `review.py:846` | a sample that left candidates out decides all the same | `test_coordy.py:4921` |
| `review.py:687` | a calibration between the hash and the reading of the cards goes unnoticed | `s0-validation/README.md:256` |
| `semantic.py:3272` | the classified cards are written before the manifest that binds them: after a death in between every rerun refuses them, until `review-s0` makes them anew | the check itself, 3251-3255 |
| `semantic.py:1204` | two opportunities of the screening become one packet; the population is refused | `s0-validation/README.md:172` |
| `semantic.py:1239` | a packet holds every later plan, not the first | `s0-validation/README.md:172` |
| `incidents.py:2226` | a site with an empty queue is shown as ready and refused | `app.js:200` |
| `incidents.py:2328` | the command line overwrites a Ground Truth a site has locked | `app.js:465` |
| `trajectory.py:341` | the second of two markers ends a window and opens none | the docstring at 311 |
| `incident_cutoff.py:930` | whether the wrong action is in the prefix depends on two digests | `replay.py:894` |
| `incident_cutoff.py:828` | only the copy of an outcome that people cite is compared with the cutoff: a fork that repeats it at the action's time and line, in a session before the action's, shows it | the message at 834 |
| `incident_cutoff.py:291` | commitments are entered by line before time: an older one may close a newer | the comment at 384 |
| `incident_cutoff.py:314` | a repeated identity is merged before its references are read | the comment at 394 |
| `task.py:319` | tasks that are under each other are in no list | the comment there |
| `active_task.py:599` | a window without a key takes the only pointer there is | 446-447 |
| `active_task.py:438` | a command without a fresh ticket of its own takes another window's, announced for the same subcommand, if that is the only one | 446-447 |
| `task.py:98` | start without a key succeeds | `workflow.md:76` |
| `add_session.py:572` | two windows both create the next journal file | `workflow.md:80` |
| `task_store.py:705` | the archive commit takes everything staged | the comment at 639 |
| `task_store.py:692` | nobody asks whether `git rm --cached` obeyed: the deletion is left for a later commit, and success is reported; nor whether `ls-files` did (659) | the comment at 684 |
| `task_store.py:319` | creating a live name again writes a new task.json, and its children are lost | the warning there |
| `task_store.py:808` | a `remove-subtask` that dies between its two files leaves a child that names a parent which does not name it | the comment at 807 |
| `safe_commit.py:121` | the archived place is looked for without its month | the comment at 74 |

Behaviour that nothing in the repository promises or forbids, and that is modelled as it
is: `CancelRun`, a patch refused for a commitment, `StopChat` (runtime.rs:2921), `ReorderTasks`
and a refresh of pull requests (their answers name no workspace to reconcile, product.rs:1546 and
2494) and a restart dispatch nothing in the graph, so that a waiting node starts with the next
command of any kind; nor does the end of a review
that gave no verdict and whose conductor is gone (`after_harness_event` returns before it
reconciles, runtime.rs:818), though it frees a slot; the late success of a run whose attempt
was fenced is recorded while an explicit retry at the same input works; success is recorded at
the fingerprint of the moment the session ends; a run paused for drift keeps its lease; a
task with a run that was once paused never accepts a patch again; a cancelled
blocker satisfies the gate and not the evaluator.

## 6. What is not modelled

Authority and grants, memory, shared contracts, automations, how a GitHub snapshot is fetched,
projects and labels, the control plane, the advisor, the protocols with the agents'
programs, and the desktop application but for the confirmation of plans. Most are
records that are created, edited and listed, apart from the task graph; contracts
would add a second kind of producer to the edges, with the same invalidation.
Of the study: what prompts, schemas and cards say, operation kinds and verified outcomes
of tool calls, reading Codex's databases, redaction, the metrics of scores, and the
candidates of wrong actions, which pure functions find in text. Of the scripts:
context files, platform adapters and hooks that print text. A judge without a lock is
taken as one process at a time, except where the set-up says otherwise. `PROJECT.json`
gives the reason part by part.

## 7. What could come next

1. Contracts as producers of edges, and authority between request and use.
2. `cycle_exists` and `compute_invalidation_closure` against reference definitions.
