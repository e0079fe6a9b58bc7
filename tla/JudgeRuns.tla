------------------------------ MODULE JudgeRuns ------------------------------
(***************************************************************************)
(* The runners around the judges: they load a checkpoint of accepted rows, *)
(* grade what is missing with a pool of workers, write the checkpoint      *)
(* after every row, stop on a failure, may be killed at any step and are   *)
(* started again by hand.  A completed run binds the checkpoint's digest   *)
(* into a manifest.                                                        *)
(***************************************************************************)
EXTENDS ApiDispatch

CONSTANT Setups       \* what may be graded: see SetupsAreGradings

VARIABLES phase,      \* per run: down, or what the process is doing
          saved,      \* per run: saved_by_id in memory
          window,     \* per run: the items submitted to the pool
          checkpoint, \* the checkpoint file: a row per item
          manifest,   \* whether a run is COMPLETE, and the rows its digest binds
          starts      \* bound: runs started so far

runVars == <<phase, saved, window, checkpoint, manifest, starts>>
vars == <<dispatchVars, runVars>>

\* One of the profiles below; bound: how often runs are started.
Runner == setup.runner
MaxStarts == setup.starts

NoRows == [i \in Items |-> NoRow]
Unbound == [bound |-> FALSE, rows |-> NoRows]

------------------------------------------------------------------------------
(* Runners                                                                  *)

\* run_s0b_state_diff: under the lock, in windows of `workers`, and a saved row
\* must carry an attempt number within the judge's maximum.
StateRunner(workers) == [workers |-> workers, windows |-> TRUE, locked |-> TRUE,
                         check |-> "attempt", legacy |-> FALSE, perItem |-> FALSE]
\* run_s0b_causal_judges: the same checks, everything submitted at once.
CausalRunner(workers) == [StateRunner(workers) EXCEPT !.windows = FALSE]
\* run_trajectory_discovery: windows, no lock, rows bound to window and judge.
TrajectoryRunner(workers) ==
    [StateRunner(workers) EXCEPT !.locked = FALSE, !.check = "none"]
\* run_incident_fragment_judge: the checkpoint is taken as it is.
FragmentRunner(workers) == [TrajectoryRunner(workers) EXCEPT !.windows = FALSE]
\* run_incident_link_judge: likewise, for every pass of linking.
LinkRunner(workers) == FragmentRunner(workers)
\* run_incident_causal_prelabels: every saved row must match its dispatch record.
IncidentRunner(workers, legacy) ==
    [FragmentRunner(workers) EXCEPT !.check = "dispatch", !.legacy = legacy]
\* run_action_probe_pair: the probe without the warning, then the one with it,
\* one cache file each; the pair's file binds both.
ActionRunner == [TrajectoryRunner(1) EXCEPT !.perItem = TRUE]

\* Which runner runs which judge.
Grades(runner, judge) ==
    LET n == runner.workers IN
    \/ judge = CausalJudge /\ runner = CausalRunner(n)
    \/ judge \in {ActionProbe, ActionJudge} /\ runner = ActionRunner
    \/ \E again504, again502, legacy \in BOOLEAN :
        \/ judge = StateJudge(again504) /\ runner = StateRunner(n)
        \/ judge = TrajectoryJudge(again504, again502) /\ runner = TrajectoryRunner(n)
        \/ judge = FragmentJudge(again504, again502) /\ runner = FragmentRunner(n)
        \/ judge = LinkJudge(again504, again502) /\ runner = LinkRunner(n)
        \/ judge = IncidentJudge(again504, again502) /\ runner = IncidentRunner(n, legacy)

\* The lock, or whoever starts the runs, keeps them apart.
Apart(s) == s.runner.locked \/ \A p, q \in s.processes : p = q

\* A setup: a judge with its runner, the number of packets, the processes that
\* are started, and the bound of starts.  Only the probes of actions, which keep
\* a file per item, are run side by side.
ASSUME SetupsAreGradings ==
    \A s \in Setups :
        /\ s.packets \in Nat /\ s.processes \subseteq Runs
        /\ Grades(s.runner, s.judge)
        /\ Apart(s) \/ s.runner.perItem

------------------------------------------------------------------------------
(* Loading the checkpoint                                                   *)

\* _api_checkpoint_provenance_is_valid: the attempt must be within the maximum.
ProvenanceIsValid(row) == row.attempt \in 1..Judge.maxAttempts

\* _validate_incident_causal_checkpoint_row: a judged row must be the accepted
\* result of its record, a placeholder must be bound by its record.
RowMatchesDispatch(i, row) ==
    IF row.kind = "placeholder" THEN rec[i].status = Placeholder
    ELSE /\ rec[i].status = Validated /\ rec[i].accepted
         /\ rec[i].attempt = row.attempt /\ row.attempt \in 1..3

RowIsReadable(i, row) ==
    \/ row = NoRow \/ Runner.check = "none"
    \/ Runner.check = "attempt" /\ ProvenanceIsValid(row)
    \/ Runner.check = "dispatch" /\ RowMatchesDispatch(i, row)

\* The process is gone, with everything it held in memory and the lock.
Exit(r) == /\ phase' = [phase EXCEPT ![r] = "down"]
           /\ saved' = [saved EXCEPT ![r] = NoRows]
           /\ window' = [window EXCEPT ![r] = {}]
           /\ pc' = [pc EXCEPT ![r] = [i \in Items |-> "idle"]]
           /\ plan' = [plan EXCEPT ![r] = [i \in Items |-> Blank]]
           /\ result' = [result EXCEPT ![r] = NoRows]

Missing(r) == {i \in Items : saved[r][i] = NoRow}
\* Mutant: the lock file is never taken.
LockHoldersNone == {}

LockHolders == {r \in Runs : phase[r] # "down"}

StartRun(r) ==
    /\ phase[r] = "down" /\ starts < MaxStarts
    /\ Runner.locked => LockHolders = {}
    /\ starts' = starts + 1
    /\ \A i \in Items : RowIsReadable(i, checkpoint[i])
    /\ saved' = [saved EXCEPT ![r] = checkpoint]
    /\ \/ phase' = [phase EXCEPT ![r] = "grading"]
       \/ Runner.legacy /\ phase' = [phase EXCEPT ![r] = "binding"]
    /\ UNCHANGED <<dispatchVars, window, checkpoint, manifest>>

\* A checkpoint with an unreadable row: "stale or mixed semantic checkpoint".
RefuseCheckpoint(r) ==
    /\ phase[r] = "down" /\ starts < MaxStarts
    /\ Runner.locked => LockHolders = {}
    /\ \E i \in Items : ~RowIsReadable(i, checkpoint[i])
    /\ starts' = starts + 1
    /\ UNCHANGED <<dispatchVars, phase, saved, window, checkpoint, manifest>>

------------------------------------------------------------------------------
(* allow_legacy_unassessable: cases whose request failed become placeholders *)

LegacyTerminal == {HttpError, NoDns, Transport, Rejected}
Pending(r) == {i \in Missing(r) : rec[i].status \in LegacyTerminal \cup {Placeholder}}

\* _unassessable_output_row, bound into the record by _bind_unassessable_output.
BindPlaceholder(r, i) ==
    /\ phase[r] = "binding" /\ i \in Pending(r)
    /\ i = Min(Pending(r))
    /\ \A j \in Missing(r) : j < i => rec[j].status \notin {"ABSENT", "EMPTY"}
    /\ SecureWrite(i, [rec[i] EXCEPT !.status = Placeholder])
    /\ saved' = [saved EXCEPT ![r][i] = [kind |-> "placeholder", attempt |-> rec[i].attempt]]
    /\ UNCHANGED <<armed, sends, pc, plan, result, phase, window, checkpoint, manifest, starts>>

\* A missing case without a readable record ends the run before anything is saved.
RefuseLegacy(r) ==
    /\ phase[r] = "binding"
    /\ \E i \in Missing(r) : /\ rec[i].status \in {"ABSENT", "EMPTY"}
                             /\ \A j \in Pending(r) : i < j
    /\ Exit(r)
    /\ UNCHANGED <<rec, armed, sends, checkpoint, manifest, starts>>

PersistPlaceholders(r) ==
    /\ phase[r] = "binding" /\ Pending(r) = {}
    /\ \A i \in Missing(r) : rec[i].status \notin {"ABSENT", "EMPTY"}
    /\ checkpoint' = IF saved[r] = NoRows THEN checkpoint ELSE saved[r]
    /\ phase' = [phase EXCEPT ![r] = "regrading"]
    /\ UNCHANGED <<dispatchVars, saved, window, manifest, starts>>

------------------------------------------------------------------------------
(* The pool                                                                 *)

Grading(r) == phase[r] \in {"grading", "regrading"}
Active(r) == {i \in window[r] : pc[r][i] \notin Ended \cup {"idle", "graded"}}
FailedItems(r) == {i \in Items : pc[r][i] \in {"failed", "refused"}}
\* Mutant: the runner waits for a refused item.
WindowEndedButRefused(r) == \A i \in window[r] : pc[r][i] \in Ended \ {"refused"}

WindowEnded(r) == \A i \in window[r] : pc[r][i] \in Ended

First(S, n) == {i \in S : Cardinality({j \in S : j < i}) < n}

OpenWindow(r) ==
    /\ Grading(r) /\ WindowEnded(r) /\ FailedItems(r) = {}
    /\ Missing(r) # {}
    /\ window' = [window EXCEPT ![r] =
                    IF Runner.windows THEN First(Missing(r), Runner.workers) ELSE Missing(r)]
    /\ UNCHANGED <<dispatchVars, phase, saved, checkpoint, manifest, starts>>

\* run_action_probe looks for its cache file when it comes to the item.
Cached(i) == Runner.perItem /\ checkpoint[i] # NoRow

ReadCached(r, i) ==
    /\ Grading(r) /\ i \in window[r] /\ pc[r][i] = "idle"
    /\ Cached(i)
    /\ saved' = [saved EXCEPT ![r][i] = checkpoint[i]]
    /\ Goto(r, i, "done")
    /\ UNCHANGED <<rec, armed, sends, plan, result, phase, window, checkpoint, manifest, starts>>

BeginItem(r, i) ==
    /\ Grading(r) /\ i \in window[r] /\ pc[r][i] = "idle"
    /\ ~Cached(i)
    /\ \A j \in window[r] : pc[r][j] = "idle" => i <= j
    /\ Cardinality(Active(r)) < Runner.workers
    /\ Goto(r, i, "begun")
    /\ UNCHANGED <<rec, armed, sends, plan, result, runVars>>

Work(r, i) == /\ Grading(r)
              /\ Grade(r, i)
              /\ UNCHANGED runVars

\* The main thread takes a finished row and rewrites the whole checkpoint; an
\* action probe writes the file of its case and variant.
CollectRow(r, i) ==
    /\ Grading(r) /\ pc[r][i] = "graded"
    /\ saved' = [saved EXCEPT ![r][i] = result[r][i]]
    /\ checkpoint' = IF Runner.perItem THEN [checkpoint EXCEPT ![i] = result[r][i]]
                                       ELSE saved'[r]
    /\ Goto(r, i, "done")
    /\ UNCHANGED <<rec, armed, sends, plan, result, phase, window, manifest, starts>>

\* Some item failed: what succeeded is in the checkpoint, the run ends.
RunFails(r) ==
    /\ Grading(r) /\ WindowEnded(r) /\ FailedItems(r) # {}
    /\ Exit(r)
    /\ UNCHANGED <<rec, armed, sends, checkpoint, manifest, starts>>

\* Everything is saved: the manifest binds the checkpoint as it is on disk now.
RunCompletes(r) ==
    /\ Grading(r) /\ WindowEnded(r) /\ FailedItems(r) = {}
    /\ Missing(r) = {}
    /\ manifest' = [bound |-> TRUE, rows |-> checkpoint]
    /\ Exit(r)
    /\ UNCHANGED <<rec, armed, sends, checkpoint, starts>>

Crash(r) ==
    /\ phase[r] # "down"
    /\ Exit(r)
    /\ UNCHANGED <<rec, armed, sends, checkpoint, manifest, starts>>

------------------------------------------------------------------------------
Init == /\ setup \in Setups
        /\ DispatchInit
        /\ phase = [r \in Runs |-> "down"]
        /\ saved = [r \in Runs |-> NoRows]
        /\ window = [r \in Runs |-> {}]
        /\ checkpoint = NoRows
        /\ manifest = Unbound
        /\ starts = 0

Manager(r) == \/ OpenWindow(r) \/ RunFails(r) \/ RunCompletes(r)
              \/ RefuseLegacy(r) \/ PersistPlaceholders(r)
              \/ \E i \in Items : \/ ReadCached(r, i) \/ BeginItem(r, i) \/ CollectRow(r, i)
                                 \/ BindPlaceholder(r, i)

Step(r) == \/ StartRun(r) \/ RefuseCheckpoint(r) \/ Crash(r)
           \/ Manager(r)
           \/ \E i \in Items : Work(r, i)

Next == (\E r \in setup.processes : Step(r)) /\ UNCHANGED setup

Spec == Init /\ [][Next]_vars

\* A started process runs on, and every request ends in an answer or a timeout.
Fairness == \A r \in Runs : /\ WF_vars(Manager(r) /\ UNCHANGED setup)
                            /\ WF_vars((\E i \in Items : Work(r, i)) /\ UNCHANGED setup)
FairSpec == Spec /\ Fairness
==============================================================================
