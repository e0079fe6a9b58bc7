------------------------------ MODULE GraphWorld ------------------------------
(***************************************************************************)
(* The part of the kernel's World that one workspace's task graph lives    *)
(* in, and the gates that hold a task back (product.rs).  A handler takes  *)
(* &mut World; here the world is one record, and a helper that mutates it  *)
(* is an operator from a world to the world it leaves.                     *)
(***************************************************************************)
EXTENDS Naturals, FiniteSets, Sequences

CONSTANTS
    Task,       \* the workspace's tasks
    Agent,      \* its agents
    NoAgent,    \* no conductor, no assignee
    EdgeId,     \* the ids ids::new("dep") can hand out
    Unused,     \* the edge under an id not handed out yet
    Removed     \* the edge under an id whose edge was removed

-----------------------------------------------------------------------------
(* The stored values.  "running" also stands for the status "review": the   *)
(* code always treats the two alike.                                        *)

Status == {"backlog", "open", "running", "blocked", "done", "cancelled"}

\* blocked_reason: none, the two texts the gates own, "marked blocked", and
\* every other text (a commitment conflict, suspected drift).
Reason == {"none", "issue", "stale", "marked", "gate"}

\* Consumes and Precedence edges are executed; AssignedTo only orders.
EdgeKind == {"consumes", "precedence", "assigned_to"}
ExecutedKind == {"consumes", "precedence"}

\* Superseded is declared in the protocol but no handler ever stores it.
EdgeState == {"active", "stale", "pending", "rejected"}

Edge == [source : Task, target : Task, kind : EdgeKind, state : EdgeState,
         generation : Nat, observed : Nat, current : Nat]

ASSUME ConstantsAssumption ==
    /\ NoAgent \notin Agent
    /\ IsFiniteSet(Task) /\ EdgeId \intersect Task = {}
    /\ Unused \notin Edge /\ Removed \notin Edge /\ Unused # Removed

\* An input fingerprint is the set of parts that input_fingerprint joins: an
\* edge with its version and generation, or a blocker (version 0, generation
\* 0).  A review's fingerprint "validate:<edge>:<generation>" has one part.
Part == ((EdgeId \union Task) \X Nat \X Nat) \union (EdgeId \X Nat)
Fingerprint == SUBSET Part

\* "issue" stands for every trigger the graph does not look at: issue,
\* blocker, retry, mention.  "graph" also stands for "graph_execute".
Trigger == {"issue", "graph", "graph_review"}
RunStatus == {"running", "completed", "failed", "cancelled", "interrupted",
              "paused"}

\* The lease_status of the attempt bound to a run; "none" when it has none.
\* "pending" is never stored and "claimed" never outlives a command.
Lease == {"none", "running", "succeeded", "failed", "cancelled",
          "interrupted", "paused"}

\* A run with the attempt bound to it.  attempt: the number of this attempt in
\* the order of the task's attempts, which need not be that of its runs; 0
\* without one.  was_paused: the run is in world.paused_runs, a list nothing is
\* ever removed from.
Run == [agent : Agent, trigger : Trigger, status : RunStatus, lease : Lease,
        attempt : Nat, fingerprint : Fingerprint, was_paused : BOOLEAN]

\* limit: each agent's concurrency_limit; 0 means the default of 6.
World == [assignee : [Task -> Agent \union {NoAgent}],
          limit : [Agent -> Nat],
          status : [Task -> Status],
          blocked_reason : [Task -> Reason],
          deleted : SUBSET Task,
          conductor : Agent \union {NoAgent},
          issue_blockers : SUBSET (Task \X Task),     \* <<task, blocker>>
          dependencies : [EdgeId -> Edge \union {Unused, Removed}],
          node_artifacts : [Task -> Nat],
          materialization : [Task -> {"none", "active", "stale"}],
          successes : SUBSET (Task \X Fingerprint),
          attempts : [Task -> Nat],                   \* how many there were
          runs : [Task -> Seq(Run)],                  \* oldest first
          moved : SUBSET Task]    \* history: whose status a reorder wrote last

-----------------------------------------------------------------------------
(* Reading the graph.                                                       *)

Live(w) == {e \in EdgeId : w.dependencies[e] \notin {Unused, Removed}}
EdgesInto(w, t) == {e \in Live(w) : w.dependencies[e].target = t}
Consumes(w, e) == w.dependencies[e].kind = "consumes"
BlocksConsumer(edge) == edge.state # "active"

IssueBlockerSatisfied(w, b) ==
    b \in w.deleted \/ w.status[b] \in {"done", "cancelled"}

IssueBlockerIds(w, t) == {b \in Task : <<t, b>> \in w.issue_blockers}
IssueBlockingIds(w, b) == {t \in Task : <<t, b>> \in w.issue_blockers}

UnresolvedBlockers(w, t) ==
    {b \in IssueBlockerIds(w, t) : ~IssueBlockerSatisfied(w, b)}

HasStaleDependency(w, t) ==
    \E e \in EdgesInto(w, t) :
        Consumes(w, e) /\ BlocksConsumer(w.dependencies[e])

BlockerArcs(w) == {<<p[2], p[1]>> : p \in w.issue_blockers}
DependencyArcs(w) ==
    {<<w.dependencies[e].source, w.dependencies[e].target>> : e \in Live(w)}
HappensBeforeArcs(w) == BlockerArcs(w) \union DependencyArcs(w)

\* issue_graph_reaches walks the arcs with a stack and a set of seen nodes.  Here
\* the same is said without recursion: target is reached when every set of nodes
\* that contains `from` and is closed under the arcs contains it.  MCProgress
\* checks the walk of ReachSearch against this.
Closed(Arc, S) == \A p \in Arc : p[1] \in S => p[2] \in S

Reaches(Arc, Node, from, target) ==
    \A S \in SUBSET Node : (from \in S /\ Closed(Arc, S)) => target \in S

\* No arc can be closed into a cycle by a walk from its head to its tail.
Acyclic(Arc, Node) == \A p \in Arc : ~Reaches(Arc, Node, p[2], p[1])

\* Mutant: each list is checked for cycles of its own only.
ReachesByBlockers(w, from, target) ==
    Reaches(BlockerArcs(w), Task, from, target)

IssueGraphReaches(w, from, target) ==
    Reaches(HappensBeforeArcs(w), Task, from, target)

\* Dependents of b that wait for nothing else.  b itself counts as cleared,
\* whatever its status is.
WouldRelease(w, b) ==
    {t \in IssueBlockingIds(w, b) :
        \A other \in IssueBlockerIds(w, t) \ {b} :
            IssueBlockerSatisfied(w, other)}

-----------------------------------------------------------------------------
(* Holding and releasing tasks.                                             *)

Held(w, T, reason) ==
    [w EXCEPT
        !.status = [t \in Task |-> IF t \in T THEN "blocked" ELSE @[t]],
        !.blocked_reason = [t \in Task |-> IF t \in T THEN reason ELSE @[t]]]

Unheld(w, T) ==
    [w EXCEPT
        !.status = [t \in Task |-> IF t \in T /\ @[t] = "blocked"
                                   THEN "open" ELSE @[t]],
        !.blocked_reason = [t \in Task |-> IF t \in T THEN "none" ELSE @[t]]]

Settled(w, t) == t \in w.deleted \/ w.status[t] \in {"done", "cancelled"}

\* sync_issue_blocker_hold, for each task of T
SyncIssueBlockerHold(w, T) ==
    LET clear == {t \in T : UnresolvedBlockers(w, t) = {}}
        wait  == {t \in T \ clear : ~Settled(w, t)}
    IN  Held(Unheld(w, {t \in clear : w.blocked_reason[t] = "issue"}),
             {t \in wait : w.blocked_reason[t] \in {"none", "issue"}},
             "issue")

\* apply_stale_dependency_hold, for each task of T.  It takes over a hold
\* for an unresolved blocker, never one that somebody else has put.
ApplyStaleDependencyHold(w, T) ==
    Held(w, {t \in T : /\ ~Settled(w, t)
                       /\ w.blocked_reason[t] \in {"none", "issue", "stale"}},
         "stale")

\* Mutant: one settled edge releases the task.
RefreshAlwaysReleases(w, t) ==
    Unheld(w, {u \in {t} : w.blocked_reason[u] \in {"issue", "stale"}})

RefreshTaskRunGates(w, t) ==
    IF HasStaleDependency(w, t) THEN ApplyStaleDependencyHold(w, {t})
    ELSE IF UnresolvedBlockers(w, t) # {} THEN SyncIssueBlockerHold(w, {t})
    ELSE Unheld(w, {u \in {t} : w.blocked_reason[u] \in {"issue", "stale"}})

\* Mutant: the reason of an earlier hold stays.
WithStatusKeepsReason(w, t, s) ==
    [w EXCEPT !.status[t] = s,
              !.blocked_reason[t] = IF s = "blocked" /\ @ = "none"
                                    THEN "marked" ELSE @,
              !.moved = @ \ {t}]

\* apply_task_status
WithStatus(w, t, s) ==
    [w EXCEPT !.status[t] = s,
              !.blocked_reason[t] =
                  IF s # "blocked" THEN "none"
                  ELSE IF @ = "none" THEN "marked" ELSE @,
              !.moved = @ \ {t}]
=============================================================================
