---------------------------- MODULE GraphSchedule ----------------------------
(***************************************************************************)
(* The evaluator (graph/mod.rs), the claims on node attempts               *)
(* (graph/schedule.rs) and the dispatchers of runtime.rs.  A dispatcher    *)
(* walks its candidates in the order of their generated ids and each start *)
(* uses up its agent's capacity, so it may leave several worlds: it is an  *)
(* operator from a world to the set of them.  The daemon's spawn_harness   *)
(* never refuses a run (a harness that fails to come up is a session that  *)
(* ends with exit code 1), so a start fails only on its own checks, and    *)
(* then leaves an attempt without a run that nothing looks at again.       *)
(***************************************************************************)
EXTENDS GraphWorld

-----------------------------------------------------------------------------
(* What the evaluator derives from the world.                               *)

InputFingerprint(w, n) ==
    {<<e, w.dependencies[e].current, w.dependencies[e].generation>> :
        e \in {x \in EdgesInto(w, n) : w.dependencies[x].kind \in ExecutedKind}}
    \union {<<b, 0, 0>> : b \in IssueBlockerIds(w, n)}

ReviewFingerprint(e, generation) == {<<e, generation>>}

UpstreamSucceeded(w, n) ==
    \/ n \notin w.deleted /\ w.status[n] = "done"
    \/ \E success \in w.successes : success[1] = n

\* successes of state_from_world: the recorded events, and every done task
\* whose output is not stale
Succeeded(w, n) ==
    \/ <<n, InputFingerprint(w, n)>> \in w.successes
    \/ w.status[n] = "done" /\ w.materialization[n] # "stale"

InFlight(w, n) == \E i \in DOMAIN w.runs[n] : w.runs[n][i].lease = "running"

\* n \in evaluate_ready_set(world).ready_nodes
Ready(w, n) ==
    /\ n \notin w.deleted
    /\ ~Succeeded(w, n)
    /\ ~InFlight(w, n)
    /\ \A b \in IssueBlockerIds(w, n) : UpstreamSucceeded(w, b)
    /\ \A e \in EdgesInto(w, n) :
        LET edge == w.dependencies[e] IN
        /\ edge.kind \in ExecutedKind => UpstreamSucceeded(w, edge.source)
        /\ edge.kind = "consumes" =>
            ~BlocksConsumer(edge) /\ edge.observed = edge.current

NodeOnDeclaredGraph(w, n) ==
    \E e \in Live(w) :
        /\ w.dependencies[e].kind \in ExecutedKind
        /\ n \in {w.dependencies[e].source, w.dependencies[e].target}

\* mark_node_succeeded.  The event carries the fingerprint of this moment.
MarkSucceeded(w, n) ==
    [w EXCEPT !.materialization[n] = "active",
              !.successes = @ \union {<<n, InputFingerprint(w, n)>>}]

-----------------------------------------------------------------------------
(* Attempts.                                                                *)

AttemptBlocksClaim(lease) ==
    lease \in {"running", "succeeded", "failed", "cancelled", "interrupted"}

\* claim_node_attempt finds no attempt in its way
Claimable(w, n, fingerprint) ==
    \A i \in DOMAIN w.runs[n] :
        w.runs[n][i].fingerprint = fingerprint =>
            ~AttemptBlocksClaim(w.runs[n][i].lease)

\* Every run of every task, changed by Change(task, run).
EachRun(w, Change(_, _)) ==
    [w EXCEPT !.runs =
        [t \in Task |-> [i \in DOMAIN @[t] |-> Change(t, @[t][i])]]]

\* Mutant: a running attempt is left alone.
FencesEndedOnly(w, T) ==
    LET Fence(t, run) ==
            IF t \in T /\ run.lease \in {"failed", "cancelled", "interrupted"}
            THEN [run EXCEPT !.lease = "paused"] ELSE run
    IN  EachRun(w, Fence)

\* fence_attempts
FenceAttempts(w, T) ==
    LET Fence(t, run) ==
            IF t \in T /\ AttemptBlocksClaim(run.lease) /\ run.lease # "succeeded"
            THEN [run EXCEPT !.lease = "paused"] ELSE run
    IN  EachRun(w, Fence)

-----------------------------------------------------------------------------
(* Starting runs.                                                           *)

ConcurrencyLimit(w, a) == IF w.limit[a] = 0 THEN 6 ELSE w.limit[a]

RunningRuns(w, a) ==
    {p \in UNION {{t} \X DOMAIN w.runs[t] : t \in Task} :
        LET run == w.runs[p[1]][p[2]] IN run.agent = a /\ run.status = "running"}

FreeSlots(w, a) ==
    LET used == Cardinality(RunningRuns(w, a))
    IN  IF used < ConcurrencyLimit(w, a) THEN ConcurrencyLimit(w, a) - used ELSE 0

HasRunningRun(w, t) ==
    \E i \in DOMAIN w.runs[t] : w.runs[t][i].status = "running"

IsConductorReview(w, run) ==
    run.trigger = "graph_review" /\ run.agent = w.conductor

\* Mutant: an unsettled input is no obstacle.
MayStartStale(w, t, isReview) ==
    w.status[t] # "backlog" /\ UnresolvedBlockers(w, t) = {}

\* The checks of start_prompt_on_task and StartRun, capacity apart.
MayStart(w, t, isReview) ==
    /\ w.status[t] # "backlog"
    /\ UnresolvedBlockers(w, t) = {}
    /\ isReview \/ ~HasStaleDependency(w, t)

\* The attempt that claim_node_attempt or claim_explicit_retry makes next.
NextAttempt(w, t) == w.attempts[t] + 1

\* bind_attempt_run: the attempt, if there is one, runs with its run.
NewRun(agent, trigger, attempt, fingerprint) ==
    [agent |-> agent, trigger |-> trigger, status |-> "running",
     lease |-> IF attempt = 0 THEN "none" ELSE "running",
     attempt |-> attempt, fingerprint |-> fingerprint, was_paused |-> FALSE]

\* One more run, run[t], for each task t of DOMAIN run.
Started(w, run) ==
    [w EXCEPT
        !.runs = [t \in Task |-> IF t \in DOMAIN run THEN Append(@[t], run[t]) ELSE @[t]],
        !.attempts = [t \in Task |-> IF t \in DOMAIN run /\ run[t].attempt # 0
                                     THEN run[t].attempt ELSE @[t]]]

\* Mutant: the runs the pass itself has started are not counted.
FillsSlotsOnce(w, T, D) ==
    \A t \in T : t \in D <=> FreeSlots(w, w.assignee[t]) > 0

\* A pass over the tasks T starts as many as the agents' free slots allow.
FillsSlots(w, T, D) ==
    \A a \in Agent :
        LET mine == {t \in D : w.assignee[t] = a} IN
        /\ Cardinality(mine) <= FreeSlots(w, a)
        /\ (\E t \in T \ D : w.assignee[t] = a) =>
                Cardinality(mine) = FreeSlots(w, a)

\* The worlds left by a pass that starts runs of the assignees of T.  A task
\* without one is passed over.  The runs of the tasks of C have attempts.
StartAssignees(w, T, trigger, C) ==
    LET assigned == {t \in T : w.assignee[t] # NoAgent}
        run(t) == IF t \in C
                  THEN NewRun(w.assignee[t], trigger, NextAttempt(w, t),
                              InputFingerprint(w, t))
                  ELSE NewRun(w.assignee[t], trigger, 0, {})
    IN  {Started(w, [t \in D |-> run(t)]) :
            D \in {X \in SUBSET assigned : FillsSlots(w, assigned, X)}}

-----------------------------------------------------------------------------
(* The dispatchers.                                                         *)

\* The candidates of dispatch_graph_executors.  It looks at the status only,
\* so that a task held by anything but a blocker or a stale input is one too.
ExecutorReady(w, t) ==
    /\ Ready(w, t)
    /\ NodeOnDeclaredGraph(w, t)
    /\ w.status[t] \notin {"backlog", "done", "cancelled"}
    /\ ~HasRunningRun(w, t)
    /\ Claimable(w, t, InputFingerprint(w, t))
    /\ MayStart(w, t, FALSE)

DispatchExecutors(w) ==
    StartAssignees(w, {t \in Task : ExecutorReady(w, t)}, "graph", Task)

\* should_review_stale_consumer, the conductor apart
ShouldReviewStaleConsumer(w, t) ==
    /\ t \notin w.deleted
    /\ w.status[t] \notin {"backlog", "done", "cancelled"}
    /\ w.blocked_reason[t] \in {"none", "stale"}
    /\ w.status[t] = "blocked" => w.blocked_reason[t] = "stale"

StaleEdges(w) ==
    {e \in Live(w) : /\ Consumes(w, e)
                     /\ w.dependencies[e].state = "stale"
                     /\ ShouldReviewStaleConsumer(w, w.dependencies[e].target)}

\* Reviews another agent was given before the conductor changed: a running
\* one is cancelled, and no lease of theirs but a verdict stays in the way.
SupersedeReviews(w) ==
    LET targets == {w.dependencies[e].target : e \in StaleEdges(w)}
        Supersede(t, run) ==
            IF /\ t \in targets
               /\ run.trigger = "graph_review"
               /\ run.agent # w.conductor
            THEN [run EXCEPT
                    !.status = IF @ = "running" THEN "cancelled" ELSE @,
                    !.lease = IF @ = "succeeded" THEN @ ELSE "paused"]
            ELSE run
    IN  EachRun(w, Supersede)

\* dispatch_graph_reviews: a task gets at most one review at a time.
DispatchReviews(w) ==
    LET v == SupersedeReviews(w)
        target(e) == v.dependencies[e].target
        fingerprint(e) == ReviewFingerprint(e, v.dependencies[e].generation)
        E == {e \in StaleEdges(v) :
                /\ ~HasRunningRun(v, target(e))
                /\ Claimable(v, target(e), fingerprint(e))
                /\ MayStart(v, target(e), TRUE)}
        slots == FreeSlots(v, v.conductor)
        Pass(D) ==
            /\ Cardinality(D) <= slots
            /\ \A d1, d2 \in D : target(d1) = target(d2) => d1 = d2
            /\ \A e \in E \ D : \/ Cardinality(D) = slots
                                \/ \E d \in D : target(d) = target(e)
        run(e) == NewRun(v.conductor, "graph_review", NextAttempt(v, target(e)),
                         fingerprint(e))
        reviews(D) == [t \in {target(e) : e \in D} |->
                        run(CHOOSE e \in D : target(e) = t)]
    IN  {Started(v, reviews(D)) : D \in {X \in SUBSET E : Pass(X)}}

\* reconcile_graph
Reconcile(w) ==
    IF w.conductor = NoAgent THEN DispatchExecutors(w) ELSE DispatchReviews(w)

\* task_ready_for_graph_dispatch
ReadyForGraphDispatch(w, t) ==
    /\ t \notin w.deleted
    /\ w.status[t] \notin {"backlog", "done", "cancelled", "blocked"}
    /\ w.blocked_reason[t] = "none"
    /\ UnresolvedBlockers(w, t) = {}
    /\ ~HasStaleDependency(w, t)
    /\ \A i \in DOMAIN w.runs[t] :
        w.runs[t][i].status = "running" => IsConductorReview(w, w.runs[t][i])

\* dispatch_ready_graph_tasks
DispatchReady(w, T) ==
    IF w.conductor = NoAgent THEN {w}
    ELSE LET declared == {t \in Task : NodeOnDeclaredGraph(w, t)} IN
         StartAssignees(w,
            {t \in T :
                /\ ReadyForGraphDispatch(w, t)
                /\ t \in declared =>
                    /\ Ready(w, t)
                    /\ Claimable(w, t, InputFingerprint(w, t))},
            "graph", declared)

\* reconcile_workspace_graph.  A task off the declared graph is started on
\* its own once: not again after a run of it has completed.
ReconcileWorkspace(w) ==
    LET candidates(v) ==
            {t \in Task :
                \/ NodeOnDeclaredGraph(v, t)
                \/ \A i \in DOMAIN v.runs[t] :
                    \/ v.runs[t][i].trigger = "graph_review"
                    \/ v.runs[t][i].status # "completed"}
    IN  UNION {DispatchReady(v, candidates(v)) : v \in Reconcile(w)}

\* dispatch_released_blocker_tasks
DispatchReleased(w, released) ==
    StartAssignees(w,
        {t \in released :
            /\ t \notin w.deleted
            /\ w.status[t] \notin {"backlog", "done", "cancelled"}
            /\ w.blocked_reason[t] # "marked"
            /\ ~HasRunningRun(w, t)
            /\ MayStart(w, t, FALSE)},
        "issue", {})

\* dispatch_graph_or_blocker_release
Release(w, released) ==
    IF released = {} THEN {w}
    ELSE IF w.conductor = NoAgent THEN DispatchReleased(w, released)
    ELSE ReconcileWorkspace(w)
=============================================================================
