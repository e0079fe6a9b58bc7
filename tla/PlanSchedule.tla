----------------------------- MODULE PlanSchedule -----------------------------
(***************************************************************************)
(* The orchestration of one confirmed task plan (runtime.rs): its children *)
(* are started stage by stage, and its parent is done when they are.  The  *)
(* two reconcilers run inside the commands of GraphKernel, between the     *)
(* graph's own dispatchers, so the commands are stated again here with     *)
(* them.  The workspace has no conductor: reconcile_graph starts executors *)
(* of the declared graph, and dispatch_ready_graph_tasks does nothing.     *)
(***************************************************************************)
EXTENDS GraphSafety

CONSTANTS
    Parent,         \* parent_task_id of the application
    PlanInputs      \* what plans there may be: see IsPlanInput

\* mode, stage: the application's mode, and its child_task_ids with the stage
\* of each; family: the tasks whose parent_id is Parent; auto_completed: Parent
\* is in task_plan_auto_completed_parent_ids
VARIABLES mode, stage, family, auto_completed,
          given       \* what may happen around this plan, settled once

application == <<mode, stage, given>>
plan == <<world, application, family, auto_completed>>

Mode == {"create_only", "confirm_and_start"}
Children == DOMAIN stage

\* What may happen around a plan: the plan that is applied (its stages, the
\* pairs <<child, child it depends on>>, the modes), the tasks a person moves
\* under the parent or away, and the inputs of the graph it is scheduled on.
IsPlanInput(in) ==
    LET children == DOMAIN in.stage IN
    /\ children # {} /\ children \subseteq Task \ {Parent}
    /\ in.stage \in [children -> Nat \ {0}]
    /\ in.depends \subseteq children \X children
    /\ \A p \in in.depends : in.stage[p[2]] <= in.stage[p[1]]
    /\ Acyclic(in.depends, Task)
    /\ in.mode \subseteq Mode
    /\ in.family \subseteq Task \ {Parent}
    /\ in.graph \in InputSets
    /\ in.graph.initial = {NoAgent} /\ in.graph.conductor = {}

ASSUME PlanInputsAssumption ==
    Parent \in Task /\ \A in \in PlanInputs : IsPlanInput(in)

-----------------------------------------------------------------------------
(* Stages.                                                                  *)

Planned(w, F) == (Children \intersect F) \ w.deleted

OpenChildren(w, F) == {t \in Planned(w, F) : w.status[t] # "done"}

InCurrentStage(w, F, t) ==
    \A other \in OpenChildren(w, F) : stage[t] <= stage[other]

\* Later stages go back to the backlog, unless something else holds them.
Parked(w, F) ==
    LET later == {t \in Planned(w, F) :
                    /\ ~InCurrentStage(w, F, t)
                    /\ \/ w.status[t] = "open"
                       \/ w.status[t] = "blocked" /\ w.blocked_reason[t] = "issue"}
    IN  [w EXCEPT
            !.status = [t \in Task |-> IF t \in later THEN "backlog" ELSE @[t]],
            !.blocked_reason = [t \in Task |-> IF t \in later THEN "none" ELSE @[t]]]

BlockersDone(w, t) ==
    \A b \in IssueBlockerIds(w, t) : b \in w.deleted \/ w.status[b] = "done"

Eligible(w, F) ==
    {t \in OpenChildren(w, F) :
        /\ InCurrentStage(w, F, t)
        /\ w.status[t] \in {"backlog", "open"}
        /\ BlockersDone(w, t)
        /\ w.runs[t] = <<>>}

\* reconcile_task_plan_scheduling: the worlds it may leave.  A child that
\* cannot be started is open all the same.
Scheduled(w, F) ==
    IF mode # "confirm_and_start" THEN {w}
    ELSE LET opened == [Parked(w, F) EXCEPT
                !.status = [t \in Task |-> IF t \in Eligible(w, F) THEN "open" ELSE @[t]],
                !.blocked_reason =
                    [t \in Task |-> IF t \in Eligible(w, F) /\ w.status[t] = "backlog"
                                    THEN "none" ELSE @[t]]]
         IN  StartAssignees(opened,
                {t \in Eligible(w, F) : MayStart(opened, t, FALSE)}, "issue", {})

-----------------------------------------------------------------------------
(* The parent.                                                              *)

\* managed_parent_children_all_done
AllDone(w, F) ==
    LET mine == F \ w.deleted
    IN  mine # {} /\ \A t \in mine : w.status[t] = "done"

\* Mutant: a parent is completed once.
RolledUpOnce(w, F) ==
    IF AllDone(w, F) /\ UnresolvedBlockers(w, Parent) = {}
    THEN IF w.status[Parent] = "done" \/ auto_completed
         THEN [w |-> w, auto |-> auto_completed, released |-> {}]
         ELSE LET x == MarkSucceeded(WithStatus(w, Parent, "done"), Parent)
              IN  [w |-> SyncIssueBlockerHold(x, IssueBlockingIds(x, Parent)),
                   auto |-> TRUE,
                   released |-> WouldRelease(x, Parent)]
    ELSE [w |-> IF auto_completed /\ w.status[Parent] = "done"
                THEN [w EXCEPT !.status[Parent] = "open"] ELSE w,
          auto |-> FALSE,
          released |-> {}]

\* reconcile_task_plan_parent_statuses: the world it leaves, whether the
\* parent is then done by it, and the dependents it has released.
RolledUp(w, F) ==
    IF AllDone(w, F) /\ UnresolvedBlockers(w, Parent) = {}
    THEN IF w.status[Parent] = "done"
         THEN [w |-> w, auto |-> auto_completed, released |-> {}]
         ELSE LET x == MarkSucceeded(WithStatus(w, Parent, "done"), Parent)
              IN  [w |-> SyncIssueBlockerHold(x, IssueBlockingIds(x, Parent)),
                   auto |-> TRUE,
                   released |-> WouldRelease(x, Parent)]
    ELSE [w |-> IF auto_completed /\ w.status[Parent] = "done"
                THEN [w EXCEPT !.status[Parent] = "open"] ELSE w,
          auto |-> FALSE,
          released |-> {}]

\* Mutant: plan children are released like any other task.
ReleaseAll(w, released) ==
    IF released = {} THEN {w} ELSE DispatchReleased(w, released)

\* dispatch_graph_or_blocker_release without a conductor
ReleaseOthers(w, released) ==
    IF released \ Children = {} THEN {w}
    ELSE DispatchReleased(w, released \ Children)

\* The tail of a command: roll up, release, schedule.
Settle(w, released) ==
    LET up == RolledUp(w, family')
    IN  /\ auto_completed' = up.auto
        /\ \E x \in ReleaseOthers(up.w, released \union up.released) :
                world' \in Scheduled(x, family')

\* ... and, for a command of product.rs, reconcile_workspace_graph
SettleAndReconcile(w, released) ==
    LET up == RolledUp(w, family')
    IN  /\ auto_completed' = up.auto
        /\ \E x \in ReleaseOthers(up.w, released \union up.released) :
            \E y \in Scheduled(x, family') : world' \in Reconcile(y)

-----------------------------------------------------------------------------
(* Commands.                                                                *)

SetPlanTaskStatus(t, s) ==
    /\ s \in {"running", "done"} => UnresolvedBlockers(world, t) = {}
    /\ UNCHANGED <<application, family>>
    /\ s = "done" /\ t = Parent => AllDone(world, family)
    /\ LET marked == WithStatus(world, t, s)
           w == IF s = "done" THEN MarkSucceeded(marked, t) ELSE marked
           synced == SyncIssueBlockerHold(w, IssueBlockingIds(w, t))
       IN  \E x \in Reconcile(synced) : Settle(x, WouldRelease(w, t))

\* AssignIssue with a parent_id and nothing else
AssignIssue(t) ==
    /\ family' = IF t \in family THEN family \ {t} ELSE family \union {t}
    /\ UNCHANGED application
    /\ \E x \in Reconcile(world) : Settle(x, {})

DeletePlanTask(t) ==
    LET w == [world EXCEPT !.deleted = @ \union {t}]
        cut == [w EXCEPT !.issue_blockers = {p \in @ : t \notin {p[1], p[2]}}]
    IN  /\ UNCHANGED <<application, family>>
        /\ SettleAndReconcile(SyncIssueBlockerHold(cut, IssueBlockingIds(w, t)),
                              WouldRelease(w, t))

AddPlanBlocker(t, b) ==
    /\ t \notin world.deleted /\ b \notin world.deleted
    /\ t # b
    /\ ~IssueGraphReaches(world, t, b)
    /\ UNCHANGED <<application, family>>
    /\ LET w == [world EXCEPT !.issue_blockers = @ \union {<<t, b>>}]
       IN  SettleAndReconcile(SyncIssueBlockerHold(w, {t}), {})

RemovePlanBlocker(t, b) ==
    /\ <<t, b>> \in world.issue_blockers
    /\ UNCHANGED <<application, family>>
    /\ LET w == [world EXCEPT !.issue_blockers = @ \ {<<t, b>>}]
       IN  SettleAndReconcile(SyncIssueBlockerHold(w, {t}),
                              WouldRelease(world, b) \intersect {t})

\* ReorderTasks names no workspace either: it rolls up and schedules, but
\* asks nothing of the parent and of the blockers.
ReorderPlanTasks(T, s) ==
    /\ UNCHANGED <<application, family>>
    /\ Settle(Reordered(world, T, s), {})

\* The parent of a plan is never completed by its own pull requests.
SyncPlanPullRequests(D) ==
    /\ Parent \notin D /\ Completable(D)
    /\ UNCHANGED <<application, family>>
    /\ Settle(Completed(world, D), ReleasedBy(world, D))

CancelPlanRun(t, i) ==
    /\ world.runs[t][i].status \in {"running", "paused"}
    /\ UNCHANGED <<application, family, auto_completed>>
    /\ LET w == [world EXCEPT
                    !.runs[t][i].status = "cancelled",
                    !.runs[t][i].lease = IF @ = "running" THEN "cancelled" ELSE @]
       IN  world' \in Scheduled(w, family)

-----------------------------------------------------------------------------
(* Events of a harness.                                                     *)

\* record the event, reconcile the graph, schedule the plan
Ingested(t, i, w) ==
    /\ Running(t, i)
    /\ UNCHANGED <<application, family, auto_completed>>
    /\ \E x \in Reconcile(w) : world' \in Scheduled(x, family')

PlanHarnessProgress(t, i) == Ingested(t, i, world)

\* A patch that contradicts a commitment of the task.
PlanHarnessConflict(t, i) == Ingested(t, i, Held(world, {t}, "gate"))

PlanSessionEnd(t, i, ok) ==
    Running(t, i) /\ Ingested(t, i, SessionEnded(EnsureAttempt(world, t, i), t, i, ok))

-----------------------------------------------------------------------------

\* The plan has just been applied to tasks that were there.
Applied(in, m) ==
    LET first(t) == /\ m = "confirm_and_start"
                    /\ \A other \in DOMAIN in.stage : in.stage[t] <= in.stage[other]
                    /\ \A p \in in.depends : p[1] # t
    IN  [assignee |-> in.graph.assignee,
         limit |-> in.graph.limit,
         status |-> [t \in Task |-> IF t \in DOMAIN in.stage /\ ~first(t)
                                    THEN "backlog" ELSE "open"],
         blocked_reason |-> [t \in Task |-> "none"],
         deleted |-> {},
         conductor |-> NoAgent,
         issue_blockers |-> in.depends,
         dependencies |-> [e \in EdgeId |-> Unused],
         node_artifacts |-> [t \in Task |-> 0],
         materialization |-> [t \in Task |-> "none"],
         successes |-> {},
         attempts |-> [t \in Task |-> 0],
         runs |-> [t \in Task |-> <<>>],
         moved |-> {}]

ApplyPlan ==
    /\ given \in PlanInputs
    /\ stage = given.stage
    /\ mode \in given.mode
    /\ family = Children
    /\ auto_completed = FALSE
    /\ world \in Scheduled(Applied(given, mode), family)

\* The steps that do not look at the plan
BesidesThePlan(in) ==
    \/ \E p \in in.starter : StartRun(p[1], p[2])
    \/ \E e \in EdgeId, p \in in.edge : DeclareDependency(e, p[1], p[2], p[3])

PlanCommand(in) ==
    \/ \E c \in in.graph.status : SetPlanTaskStatus(c[1], c[2])
    \/ \E t \in in.family : AssignIssue(t)
    \/ \E t \in in.graph.delete \ world.deleted : DeletePlanTask(t)
    \/ \E p \in in.graph.blocker : AddPlanBlocker(p[1], p[2])
    \/ \E p \in in.graph.blocker : RemovePlanBlocker(p[1], p[2])
    \/ \E p \in in.graph.reorder : ReorderPlanTasks(p[1], p[2])
    \/ \E D \in SUBSET in.graph.merged : SyncPlanPullRequests(D)

PlanEvent(in) ==
    \E t \in Task : \E i \in DOMAIN world.runs[t] :
        \/ "cancel" \in in.event /\ CancelPlanRun(t, i)
        \/ "progress" \in in.event /\ PlanHarnessProgress(t, i)
        \/ "conflict" \in in.event /\ PlanHarnessConflict(t, i)
        \/ "end" \in in.event /\ PlanSessionEnd(t, i, TRUE)
        \/ "fail" \in in.event /\ PlanSessionEnd(t, i, FALSE)

PlanNext ==
    /\ \/ PlanCommand(given)
       \/ PlanEvent(given.graph)
       \/ /\ \/ BesidesThePlan(given.graph)
             \/ \E t \in given.graph.chat : StopChat(t)
             \/ "restart" \in given.graph.event /\ Restart
          /\ UNCHANGED <<application, family, auto_completed>>
    /\ Bounded(given.graph, world')

PlanSpec == ApplyPlan /\ [][PlanNext]_plan

-----------------------------------------------------------------------------
(* What the plan promises.                                                  *)

PlanTypeOK ==
    /\ TypeOK
    /\ mode \in Mode
    /\ family \subseteq Task
    /\ auto_completed \in BOOLEAN

\* A run of t is started that nobody asks for by name, other than by the
\* executor of the declared graph, which does not look at plans.
StartsItself(t) ==
    /\ \E i \in NewRuns(t) : world'.runs[t][i].trigger # "graph"
    /\ \A p \in given.graph.starter : p[1] = t => ~StartRun(t, p[2])

\* Whatever releases a child, and in whatever order the dispatchers of one
\* command run, a child of the plan is started only in its turn: every
\* child of an earlier stage is done, and so is every blocker of its own; a
\* cancelled, blocked or failed one releases nothing.
StartsInTurn ==
    \A t \in Planned(world', family') :
        mode = "confirm_and_start" /\ StartsItself(t) =>
            /\ \A other \in Planned(world', family') :
                stage[other] < stage[t] => world'.status[other] = "done"
            /\ \A b \in IssueBlockerIds(world', t) \ world'.deleted :
                world'.status[b] = "done"

\* A plan that was only created starts nothing by itself.
StaysParked == mode = "create_only" => \A t \in Children : ~StartsItself(t)

\* A child with a run, however it ended, is never started again without
\* somebody asking for it.
StartsOnce == \A t \in Children : StartsItself(t) => world.runs[t] = <<>>

\* The parent is done when all of its present children are, those a person
\* has moved under it included, and no longer than that.
ParentMeansChildren ==
    world.status[Parent] = "done" =>
        \A t \in family \ world.deleted : world.status[t] = "done"

\* And the other way round: children that are all done leave no parent open
\* that nothing else holds.
ChildrenMeanParent ==
    AllDone(world, family) /\ UnresolvedBlockers(world, Parent) = {} =>
        world.status[Parent] = "done"

\* A person sorts the parent itself into the column of the finished tasks, which
\* no guard refuses and no rollup takes back.
ParentIsMoved == \E p \in given.graph.reorder : Parent \in p[1] /\ p[2] = "done"

\* The parent is done exactly as long as its children are, however their
\* statuses come about (by command, by sorting a column, by a merged pull
\* request), unless a patch that contradicts a commitment takes one of them
\* back, which rolls nothing up, or the parent itself is sorted among the done.
ParentFollowsChildren ==
    /\ PlanTypeOK
    /\ "conflict" \notin given.graph.event /\ ~ParentIsMoved =>
            ParentMeansChildren /\ ChildrenMeanParent

\* No child is forgotten: one whose turn has come and that could be started
\* has been, or its agent has no slot free.  After a restart, and after a chat
\* that shared its agent was stopped, this waits for the next command that
\* looks at the plan.
Forgotten(w, F) ==
    {t \in Eligible(w, F) : /\ w.assignee[t] # NoAgent
                            /\ ~HasStaleDependency(w, t)
                            /\ FreeSlots(w, w.assignee[t]) > 0}

ForgetsNoChild ==
    mode = "confirm_and_start" /\ Forgotten(world', family') # {} =>
        \/ Restart
        \/ \E t \in given.graph.chat : StopChat(t)
        \/ Forgotten(world, family) # {} /\ BesidesThePlan(given.graph)

\* A child starts only when the stages before it are done, never out of a plan
\* that was only created, and once; and no command and no event leaves one
\* waiting that it could have started.
ChildrenStartInTurn ==
    [][StartsInTurn /\ StaysParked /\ StartsOnce /\ ForgetsNoChild]_plan
=============================================================================
