----------------------------- MODULE GraphKernel -----------------------------
(***************************************************************************)
(* The kernel's commands on one workspace's task graph (Kernel::submit in  *)
(* runtime.rs), the events a running harness sends back, and a restart of  *)
(* the daemon.  The daemon runs every command under one lock, so a command *)
(* is one step: its own change, the gates it refreshes, and every run the  *)
(* scheduler starts before it returns.                                     *)
(***************************************************************************)
EXTENDS GraphSchedule

Decision == {"reaffirm", "remove", "hold", "replan"}
Event == {"progress", "depends", "drift", "conflict", "end", "fail",
          "cancel", "retry", "restart"}

\* What may happen in a workspace: who is in it, the inputs that people, agents
\* and the daemon may give, and the bounds of an instance.
InputSets ==
    [assignee : [Task -> Agent \union {NoAgent}],
     limit : [Agent -> Nat],
     initial : SUBSET (Agent \union {NoAgent}),    \* conductors to begin with
     conductor : SUBSET (Agent \union {NoAgent}),  \* conductors given later
     status : SUBSET (Task \X Status),             \* statuses a person sets
     reorder : SUBSET ((SUBSET Task) \X Status),   \* columns a person sorts
     merged : SUBSET Task,                         \* tasks whose PR may merge
     chat : SUBSET Task,                           \* the hidden tasks of chats
     delete : SUBSET Task,                         \* tasks a person deletes
     blocker : SUBSET (Task \X Task),              \* <<task, blocker>>
     edge : SUBSET (Task \X Task \X EdgeKind),     \* <<source, target, kind>>
     decision : SUBSET Decision,                   \* decisions on an edge
     starter : SUBSET (Task \X Agent),             \* starts by a person
     patch : SUBSET Task,                          \* tasks that are patched
     event : SUBSET Event,                         \* what may befall a run
     runs : Nat,                                   \* bound: runs of one task
     artifacts : Nat]                              \* bound: patches of one task

CONSTANT Inputs
ASSUME InputsAssumption == Inputs \in InputSets

VARIABLE world

\* Tasks and nothing else yet.  Under a conductor a task that is open is
\* started at once, so there the tasks still sit in the backlog.
Begin(in) ==
    \E c \in in.initial :
        world = [assignee |-> in.assignee,
                 limit |-> in.limit,
                 status |-> [t \in Task |-> IF c = NoAgent THEN "open"
                                            ELSE "backlog"],
                 blocked_reason |-> [t \in Task |-> "none"],
                 deleted |-> {},
                 conductor |-> c,
                 issue_blockers |-> {},
                 dependencies |-> [e \in EdgeId |-> Unused],
                 node_artifacts |-> [t \in Task |-> 0],
                 materialization |-> [t \in Task |-> "none"],
                 successes |-> {},
                 attempts |-> [t \in Task |-> 0],
                 runs |-> [t \in Task |-> <<>>],
                 moved |-> {}]

Init == Begin(Inputs)

-----------------------------------------------------------------------------
(* Commands on tasks and blockers.                                          *)

SetTaskStatus(t, s) ==
    /\ s \in {"running", "done"} => UnresolvedBlockers(world, t) = {}
    /\ LET marked == WithStatus(world, t, s)
           w == IF s = "done" THEN MarkSucceeded(marked, t) ELSE marked
           synced == SyncIssueBlockerHold(w, IssueBlockingIds(w, t))
       IN  \E x \in Reconcile(synced) : world' \in Release(x, WouldRelease(w, t))

\* What Kernel::submit does after a command of product.rs.
Finish(w, released) ==
    \E x \in Release(w, released) : world' \in ReconcileWorkspace(x)

\* Mutant: the dependents are looked up when the blockers are already cut.
DeleteTaskCutsFirst(t) ==
    LET w == [world EXCEPT !.deleted = @ \union {t}]
        cut == [w EXCEPT !.issue_blockers = {p \in @ : t \notin {p[1], p[2]}}]
    IN  Finish(SyncIssueBlockerHold(cut, IssueBlockingIds(cut, t)),
               WouldRelease(cut, t))

DeleteTask(t) ==
    LET w == [world EXCEPT !.deleted = @ \union {t}]
        cut == [w EXCEPT !.issue_blockers = {p \in @ : t \notin {p[1], p[2]}}]
    IN  Finish(SyncIssueBlockerHold(cut, IssueBlockingIds(w, t)),
               WouldRelease(w, t))

AddIssueBlocker(t, b) ==
    /\ t \notin world.deleted /\ b \notin world.deleted
    /\ t # b
    /\ ~IssueGraphReaches(world, t, b)
    /\ IF <<t, b>> \in world.issue_blockers
       THEN Finish(world, {})
       ELSE LET w == [world EXCEPT !.issue_blockers = @ \union {<<t, b>>}]
            IN  Finish(SyncIssueBlockerHold(w, {t}), {})

RemoveIssueBlocker(t, b) ==
    /\ <<t, b>> \in world.issue_blockers
    /\ LET w == [world EXCEPT !.issue_blockers = @ \ {<<t, b>>}]
       IN  Finish(SyncIssueBlockerHold(w, {t}), WouldRelease(world, b) \intersect {t})

SetWorkspaceConductor(c) == Finish([world EXCEPT !.conductor = c], {})

\* The world in which the tasks T were moved to the column s.
Reordered(w, T, s) ==
    [w EXCEPT !.status = [t \in Task |-> IF t \in T THEN s ELSE @[t]],
              !.moved = @ \union T]

\* ReorderTasks writes the status of a column to every task listed in it, and
\* nothing else: no reason, no dependent, no dispatch.
ReorderTasks(T, s) == world' = Reordered(world, T, s)

\* complete_issues_from_merged_prs, for the tasks D that a refresh completes.
\* It walks over the tasks in the order of their creation, so that one whose
\* blockers are all completed before it is completed too.  A dependent of
\* several of them is held once more before the last of them frees it.
Completed(w, D) ==
    LET waiting == {t \in Task \ D : Cardinality(UnresolvedBlockers(w, t) \intersect D) > 1}
        between == SyncIssueBlockerHold(w, waiting)
        done == [between EXCEPT
                    !.status = [t \in Task |-> IF t \in D THEN "done" ELSE @[t]],
                    !.blocked_reason = [t \in Task |-> IF t \in D THEN "none" ELSE @[t]],
                    !.moved = @ \ D]
    IN  SyncIssueBlockerHold(done, UNION {IssueBlockingIds(w, t) : t \in D})

ReleasedBy(w, D) ==
    {t \in UNION {IssueBlockingIds(w, b) : b \in D} : UnresolvedBlockers(Completed(w, D), t) = {}}

Completable(D) ==
    \A t \in D : ~Settled(world, t) /\ UnresolvedBlockers(world, t) \subseteq D

\* SyncGithubPullRequests.  Its outcome names no workspace, so that nothing is
\* reconciled but for the dependents it has released.
SyncGithubPullRequests(D) ==
    Completable(D) /\ world' \in Release(Completed(world, D), ReleasedBy(world, D))

-----------------------------------------------------------------------------
(* Commands on dependencies.                                                *)

\* Mutant: one version behind its producer.
NewEdgeBehind(w, s, t, kind) ==
    LET version == w.node_artifacts[s]
    IN  [source |-> s, target |-> t, kind |-> kind, state |-> "active",
         generation |-> 1, observed |-> version - 1, current |-> version]

NewEdge(w, s, t, kind) ==
    LET version == w.node_artifacts[s]
    IN  [source |-> s, target |-> t, kind |-> kind, state |-> "active",
         generation |-> 1, observed |-> version, current |-> version]

\* record_dependency_edge: the world with the edge e from s to t, or
\* unchanged where the edge is already there; no world when it is refused.
\* Whether a second edge of one kind is the same one depends on its entity,
\* so both may happen.
Recorded(w, e, s, t, kind) ==
    LET known == \E x \in Live(w) :
                    /\ w.dependencies[x].source = s
                    /\ w.dependencies[x].target = t
                    /\ w.dependencies[x].kind = kind
        with == [w EXCEPT !.dependencies[e] = NewEdge(w, s, t, kind)]
    IN  IF s = t THEN {}
        ELSE (IF known THEN {w} ELSE {})
             \union (IF IssueGraphReaches(w, t, s) THEN {} ELSE {with})

DeclareDependency(e, s, t, kind) ==
    /\ world.dependencies[e] = Unused
    /\ \E w \in Recorded(world, e, s, t, kind) : world' \in Reconcile(w)

\* Only a validation decision may clear a consumer's stale or pending input.
NeedsDecision(edge) ==
    edge.kind = "consumes" /\ edge.state \in {"stale", "pending"}

\* Mutant: the edge is active again, but its version was not accepted.
ReaffirmedUnread(w, e) ==
    RefreshTaskRunGates([w EXCEPT !.dependencies[e].state = "active"],
                        w.dependencies[e].target)

Reaffirmed(w, e) ==
    RefreshTaskRunGates(
        [w EXCEPT !.dependencies[e].state = "active",
                  !.dependencies[e].observed = w.dependencies[e].current],
        w.dependencies[e].target)

Without(w, e) ==
    RefreshTaskRunGates([w EXCEPT !.dependencies[e] = Removed],
                        w.dependencies[e].target)

WithState(w, e, state) ==
    RefreshTaskRunGates([w EXCEPT !.dependencies[e].state = state],
                        w.dependencies[e].target)

ReaffirmDependency(e) ==
    /\ ~NeedsDecision(world.dependencies[e])
    /\ \E x \in Reconcile(Reaffirmed(world, e)) :
        world' \in DispatchReady(x, {world.dependencies[e].target})

RemoveDependency(e) ==
    /\ ~NeedsDecision(world.dependencies[e])
    /\ world' \in Reconcile(Without(world, e))

Decided(w, e, choice) ==
    CASE choice = "reaffirm" -> Reaffirmed(w, e)
      [] choice = "remove"   -> Without(w, e)
      [] choice = "hold"     -> WithState(w, e, "pending")
      [] choice = "replan"   -> WithState(w, e, "rejected")

\* A person decides on an edge they have seen the present generation of;
\* any other generation is refused.
ValidationDecision(e, choice) == Finish(Decided(world, e, choice), {})

-----------------------------------------------------------------------------
(* Commands on runs.                                                        *)

StartRun(t, a) ==
    /\ MayStart(world, t, FALSE)
    /\ FreeSlots(world, a) > 0
    /\ world' = Started(world, [x \in {t} |-> NewRun(a, "issue", 0, {})])

CancelRun(t, i) ==
    /\ world.runs[t][i].status \in {"running", "paused"}
    /\ world' = [world EXCEPT
                    !.runs[t][i].status = "cancelled",
                    !.runs[t][i].lease = IF @ = "running" THEN "cancelled" ELSE @]

\* StopChat ends the sessions of the chat whose hidden task is t, and returns:
\* nothing is dispatched.
StopChat(t) ==
    LET Stop(u, run) ==
            IF u = t /\ run.trigger = "issue" /\ run.status = "running"
            THEN [run EXCEPT !.status = "cancelled"] ELSE run
    IN  world' = EachRun(world, Stop)

\* claim_explicit_retry: only the newest attempt at an input may be retried,
\* and only after it failed, was cancelled or was interrupted.
RetriesAttempt(t, i) ==
    LET run == world.runs[t][i] IN
    /\ run.lease \in {"failed", "cancelled", "interrupted"}
    /\ \A j \in DOMAIN world.runs[t] :
        world.runs[t][j].fingerprint = run.fingerprint =>
            world.runs[t][j].attempt <= run.attempt

RetryRun(t, i) ==
    LET run == world.runs[t][i]
        isReview == run.trigger = "graph_review"
        agent == IF isReview THEN world.conductor ELSE run.agent
    IN  /\ agent # NoAgent
        /\ run.lease # "none" => RetriesAttempt(t, i)
        /\ MayStart(world, t, isReview)
        /\ FreeSlots(world, agent) > 0
        /\ world' = Started(world, [x \in {t} |->
                        NewRun(agent,
                               IF isReview THEN "graph_review" ELSE "issue",
                               IF run.lease = "none" THEN 0 ELSE NextAttempt(world, t),
                               run.fingerprint)])

-----------------------------------------------------------------------------
(* Patches.                                                                 *)

PatchAllowed(t) ==
    /\ world.blocked_reason[t] = "none"
    /\ UnresolvedBlockers(world, t) = {}

\* The patch contradicts a commitment of the task.
ApplyPatchConflict(t) ==
    /\ PatchAllowed(t)
    /\ world' = Held(world, {t}, "gate")

LiveConsumers(w, t) ==
    {w.dependencies[e].target :
        e \in {x \in Live(w) : Consumes(w, x) /\ w.dependencies[x].source = t}}

\* bump_node_artifact and invalidate_dependencies
Invalidated(w, t) ==
    LET version == w.node_artifacts[t] + 1
        consumers == LiveConsumers(w, t)
        stale(e) == IF /\ e \in Live(w)
                       /\ Consumes(w, e)
                       /\ w.dependencies[e].source = t
                    THEN [w.dependencies[e] EXCEPT !.state = "stale",
                                                   !.generation = @ + 1,
                                                   !.current = version]
                    ELSE w.dependencies[e]
        bumped == [w EXCEPT !.node_artifacts[t] = version,
                            !.dependencies = [e \in EdgeId |-> stale(e)]]
        held == ApplyStaleDependencyHold(FenceAttempts(bumped, consumers), consumers)
    IN  [held EXCEPT !.materialization =
            [c \in Task |->
                IF c \in consumers /\ held.status[c] \in {"done", "cancelled"}
                THEN "stale" ELSE @[c]]]

\* pause_stale_consumers
PauseStaleConsumers(w, consumers) ==
    LET Pause(t, run) ==
            IF t \in consumers /\ ~Settled(w, t) /\ run.status = "running"
            THEN [run EXCEPT !.status = "paused", !.was_paused = TRUE]
            ELSE run
    IN  EachRun(w, Pause)

ApplyPatch(t) ==
    /\ PatchAllowed(t)
    /\ \A i \in DOMAIN world.runs[t] : ~world.runs[t][i].was_paused
    /\ world' \in ReconcileWorkspace(
                    PauseStaleConsumers(Invalidated(world, t),
                                        LiveConsumers(world, t)))

-----------------------------------------------------------------------------
(* Events of a harness.  An event of a run that is not running is refused.  *)

Running(t, i) == world.runs[t][i].status = "running"

\* reconcile_graph and after_harness_event for a message of run i of t
AfterMessage(w, t, i) ==
    IF IsConductorReview(w, w.runs[t][i])
    THEN UNION {ReconcileWorkspace(x) : x \in Reconcile(w)}
    ELSE Reconcile(w)

\* A message, a tool call or a compaction that changes nothing by itself,
\* and a message whose lines are all refused.
HarnessProgress(t, i) ==
    /\ Running(t, i)
    /\ world' \in AfterMessage(world, t, i) \union Reconcile(world)

\* A DEPENDS line: the run's task consumes the output of s.
HarnessDepends(t, i, e, s) ==
    /\ Running(t, i)
    /\ world.dependencies[e] = Unused
    /\ \E w \in Recorded(world, e, s, t, "consumes") :
        world' \in AfterMessage(w, t, i)

\* Mutant: the pause frees a slot and dispatches nothing.
HarnessDriftForgets(t, i) ==
    /\ Running(t, i)
    /\ LET run == [world.runs[t][i] EXCEPT !.status = "paused", !.was_paused = TRUE]
           paused == [world EXCEPT !.runs[t][i] = run]
       IN  world' = Held(paused, {t}, "gate")

\* A PLAN line after a compaction that no longer holds the commitments.  The
\* run pauses; its lease is left as it is.
HarnessDrift(t, i) ==
    /\ Running(t, i)
    /\ LET run == [world.runs[t][i] EXCEPT !.status = "paused", !.was_paused = TRUE]
           paused == [world EXCEPT !.runs[t][i] = run]
       IN  world' \in AfterMessage(Held(paused, {t}, "gate"), t, i)

\* A patch event that contradicts a commitment.
HarnessPatchConflict(t, i) ==
    Running(t, i) /\ world' \in Reconcile(Held(world, {t}, "gate"))

\* Mutant: a verdict of any running review counts.
HarnessVerdictOfAnyReview(t, i, e, choice) ==
    /\ Running(t, i)
    /\ world.runs[t][i].trigger = "graph_review"
    /\ world.runs[t][i].lease = "running"
    /\ LET w == [world EXCEPT !.runs[t][i].lease = "succeeded"]
       IN  world' \in AfterMessage(Decided(w, e, choice), t, i)

\* A verdict counts when the run holds the lease on exactly this edge at
\* exactly its present generation.
HarnessVerdict(t, i, e, choice) ==
    /\ Running(t, i)
    /\ world.runs[t][i].trigger = "graph_review"
    /\ world.runs[t][i].lease = "running"
    /\ world.runs[t][i].fingerprint =
        ReviewFingerprint(e, world.dependencies[e].generation)
    /\ LET w == [world EXCEPT !.runs[t][i].lease = "succeeded"]
       IN  world' \in AfterMessage(Decided(w, e, choice), t, i)

\* graph_successor_task_ids
SuccessorTaskIds(w, t) == IssueBlockingIds(w, t) \union LiveConsumers(w, t)

\* ensure_attempt_for_graph_run: a graph run of a task that was declared
\* after the run had started takes its attempt when it ends.
EnsureAttempt(w, t, i) ==
    IF /\ w.runs[t][i].lease = "none"
       /\ w.runs[t][i].trigger = "graph"
       /\ NodeOnDeclaredGraph(w, t)
       /\ Claimable(w, t, InputFingerprint(w, t))
    THEN [w EXCEPT !.runs[t][i] = [@ EXCEPT !.lease = "running",
                                            !.attempt = NextAttempt(w, t),
                                            !.fingerprint = InputFingerprint(w, t)],
                   !.attempts[t] = NextAttempt(w, t)]
    ELSE w

\* Mutant: the end of the session overwrites a verdict.
SessionEndedOverwrites(w, t, i, ok) ==
    LET ended == [w EXCEPT !.runs[t][i].lease =
                                IF @ = "none" THEN @
                                ELSE IF ok THEN "succeeded" ELSE "failed",
                           !.runs[t][i].status = IF ok THEN "completed"
                                                 ELSE "failed"]
    IN  IF ok THEN MarkSucceeded(ended, t) ELSE ended

\* The session tool event: the run ends and its attempt with it.  A review
\* that ends well without a verdict is inconclusive.
SessionEnded(w, t, i, ok) ==
    LET run == w.runs[t][i]
        isReview == run.trigger = "graph_review"
        completes == ~(ok /\ isReview)
                     /\ run.lease \notin {"none", "succeeded", "failed"}
        lease == IF completes THEN (IF ok THEN "succeeded" ELSE "failed")
                 ELSE IF ok /\ isReview /\ run.lease = "running" THEN "paused"
                 ELSE run.lease
        ended == [w EXCEPT !.runs[t][i].lease = lease,
                           !.runs[t][i].status = IF ok THEN "completed"
                                                 ELSE "failed"]
    IN  IF completes /\ ok THEN MarkSucceeded(ended, t) ELSE ended

\* Mutant: a session that fails dispatches nothing.
SessionEndForgetsFailure(t, i, ok) ==
    /\ Running(t, i)
    /\ LET w == SessionEnded(EnsureAttempt(world, t, i), t, i, ok)
       IN  IF ok THEN world' \in Reconcile(w) ELSE world' = w

HarnessSessionEnd(t, i, ok) ==
    /\ Running(t, i)
    /\ LET w == SessionEnded(EnsureAttempt(world, t, i), t, i, ok)
           run == w.runs[t][i]
           decided == run.lease = "succeeded"
           inconclusive == ok /\ run.trigger = "graph_review" /\ ~decided
       IN  \E x \in (IF inconclusive THEN {w} ELSE Reconcile(w)) :
            IF ~ok \/ w.conductor = NoAgent THEN world' = x
            ELSE IF IsConductorReview(w, run)
            THEN world' \in (IF decided THEN ReconcileWorkspace(x) ELSE {x})
            ELSE \E y \in DispatchReady(x, SuccessorTaskIds(x, t)) :
                    world' \in ReconcileWorkspace(y)

-----------------------------------------------------------------------------
(* The daemon.                                                              *)

\* interrupt_orphaned_executions.  Nothing is dispatched at this point.
Restart ==
    LET Interrupt(t, run) ==
            [run EXCEPT
                !.status = IF @ = "running" THEN "interrupted" ELSE @,
                !.lease  = IF @ = "running" THEN "interrupted" ELSE @]
    IN  world' = EachRun(world, Interrupt)

-----------------------------------------------------------------------------

TaskCommand(in) ==
    \/ \E p \in in.status : SetTaskStatus(p[1], p[2])
    \/ \E t \in in.delete : DeleteTask(t)
    \/ \E p \in in.blocker : AddIssueBlocker(p[1], p[2])
    \/ \E p \in in.blocker : RemoveIssueBlocker(p[1], p[2])
    \/ \E c \in in.conductor : SetWorkspaceConductor(c)
    \/ \E p \in in.reorder : ReorderTasks(p[1], p[2])
    \/ \E D \in SUBSET in.merged : SyncGithubPullRequests(D)

EdgeCommand(in) ==
    \/ \E e \in EdgeId, p \in in.edge :
            DeclareDependency(e, p[1], p[2], p[3])
    \/ \E e \in Live(world) : "reaffirm" \in in.decision /\ ReaffirmDependency(e)
    \/ \E e \in Live(world) : "remove" \in in.decision /\ RemoveDependency(e)
    \/ \E e \in Live(world), c \in in.decision : ValidationDecision(e, c)

RunCommand(in) ==
    \/ \E p \in in.starter : StartRun(p[1], p[2])
    \/ \E t \in in.chat : StopChat(t)
    \/ \E t \in in.patch : ApplyPatch(t)
    \/ \E t \in in.patch : "conflict" \in in.event /\ ApplyPatchConflict(t)
    \/ \E t \in Task : \E i \in DOMAIN world.runs[t] :
            \/ "cancel" \in in.event /\ CancelRun(t, i)
            \/ "retry" \in in.event /\ RetryRun(t, i)

HarnessEvent(in) ==
    \E t \in Task : \E i \in DOMAIN world.runs[t] :
        \/ "progress" \in in.event /\ HarnessProgress(t, i)
        \/ "depends" \in in.event /\ \E e \in EdgeId, p \in in.edge :
                p[2] = t /\ p[3] = "consumes" /\ HarnessDepends(t, i, e, p[1])
        \/ "drift" \in in.event /\ HarnessDrift(t, i)
        \/ "conflict" \in in.event /\ HarnessPatchConflict(t, i)
        \/ \E e \in Live(world), c \in in.decision : HarnessVerdict(t, i, e, c)
        \/ "end" \in in.event /\ HarnessSessionEnd(t, i, TRUE)
        \/ "fail" \in in.event /\ HarnessSessionEnd(t, i, FALSE)

Bounded(in, w) ==
    \A t \in Task : Len(w.runs[t]) <= in.runs /\ w.node_artifacts[t] <= in.artifacts

Step(in) ==
    /\ \/ TaskCommand(in)
       \/ EdgeCommand(in)
       \/ RunCommand(in)
       \/ HarnessEvent(in)
       \/ "restart" \in in.event /\ Restart
    /\ Bounded(in, world')

Next == Step(Inputs)

Spec == Init /\ [][Next]_world
=============================================================================
