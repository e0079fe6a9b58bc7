----------------------------- MODULE GraphSafety -----------------------------
(***************************************************************************)
(* What the task graph promises, whatever the order of commands, events    *)
(* and restarts.                                                           *)
(***************************************************************************)
EXTENDS GraphKernel

\* Every field keeps its type.
TypeOK == world \in World

-----------------------------------------------------------------------------
(* Gates.                                                                   *)

\* A task is blocked exactly when somebody can say why: no command clears
\* the status and forgets the reason, or the other way round, but for one.  A
\* person who sorts a task into a column of the board parts the two, until its
\* status is next set.
GateCoherent ==
    \A t \in Task \ world.moved :
        world.status[t] = "blocked" <=> world.blocked_reason[t] # "none"

\* A task held for its blockers really has an unfinished one: whatever ends,
\* deletes or detaches the last of them also releases the task.  Only a blocker
\* that was sorted into another column may end unnoticed; the next command on
\* it, or its removal, makes up for that.
IssueHoldJustified ==
    \A t \in Task \ world.deleted :
        world.blocked_reason[t] = "issue" =>
            \/ UnresolvedBlockers(world, t) # {}
            \/ IssueBlockerIds(world, t) \intersect world.moved # {}

\* The blockers and the dependencies, two lists that different commands
\* edit, never close a cycle between them.
HappensBeforeAcyclic == Acyclic(HappensBeforeArcs(world), Task)

\* What a gate of a task looks at besides the task itself.
Surroundings(w, t) ==
    <<w.issue_blockers, w.dependencies, {b \in Task \ {t} : IssueBlockerSatisfied(w, b)}>>

\* A change around a task that frees it of a gate's hold leaves nothing behind
\* that the gate is for: one reaffirmed edge does not release a task that
\* another stale edge still holds.  (A person who sets the status of the task
\* itself may override its hold.)
HoldReleasedOnlyWhenClear ==
    [][\A t \in Task :
        (/\ world.blocked_reason[t] \in {"issue", "stale"}
         /\ world'.blocked_reason[t] = "none"
         /\ world'.status[t] \notin {"done", "cancelled"}
         /\ Surroundings(world', t) # Surroundings(world, t))
        => /\ UnresolvedBlockers(world', t) = {}
           /\ world.blocked_reason[t] = "stale" => ~HasStaleDependency(world', t)
      ]_world

-----------------------------------------------------------------------------
(* Versions.                                                                *)

\* A consumer's edge knows its producer's newest output, and as long as the
\* edge is active the consumer has accepted exactly that output.
ActiveEdgesAreCurrent ==
    \A e \in Live(world) :
        LET edge == world.dependencies[e] IN
        edge.kind = "consumes" =>
            /\ edge.current = world.node_artifacts[edge.source]
            /\ edge.state = "active" => edge.observed = edge.current

-----------------------------------------------------------------------------
(* Attempts.                                                                *)

\* No two attempts work on the same input of the same task.
OneAttemptPerInput ==
    \A t \in Task : \A i, j \in DOMAIN world.runs[t] :
        (/\ world.runs[t][i].lease = "running" /\ world.runs[t][j].lease = "running"
         /\ world.runs[t][i].fingerprint = world.runs[t][j].fingerprint) => i = j

\* Every attempt of an executor at an input after the first is one that a
\* person asked for: an input that succeeded, failed, was cancelled or was
\* interrupted never restarts by itself.
RetriesAreExplicit ==
    \A t \in Task : \A i, j \in DOMAIN world.runs[t] :
        (/\ i < j
         /\ world.runs[t][i].fingerprint = world.runs[t][j].fingerprint
         /\ world.runs[t][i].lease \notin {"none", "paused"}
         /\ world.runs[t][j].lease \notin {"none", "paused"})
        => world.runs[t][j].trigger # "graph"

\* The scheduler's own leases are about inputs that are still so: a lease
\* that runs names every live edge at its present generation.  (An explicit
\* retry keeps the input of the attempt it repeats.)
Generation(part) == part[Len(part)]
FirstAtInput(t, i) ==
    \A j \in 1..(i - 1) :
        \/ world.runs[t][j].lease = "none"
        \/ world.runs[t][j].fingerprint # world.runs[t][i].fingerprint

LeasesAreCurrent ==
    \A t \in Task : \A i \in DOMAIN world.runs[t] :
        world.runs[t][i].lease = "running" /\ FirstAtInput(t, i) =>
            \A part \in world.runs[t][i].fingerprint :
                part[1] \in Live(world) =>
                    Generation(part) = world.dependencies[part[1]].generation

\* Attempts are fenced: one at an input, and that input a present one.
AttemptsAreFenced == OneAttemptPerInput /\ LeasesAreCurrent

\* A run that has ended stays as it ended, a paused one can only be
\* cancelled, and an attempt that succeeded is never taken back: not by a
\* late event, a fence, a change of conductor or a restart.
OutcomesAreFinal ==
    [][\A t \in Task : \A i \in DOMAIN world.runs[t] :
        LET old == world.runs[t][i]
            new == world'.runs[t][i]
        IN  /\ old.status \notin {"running", "paused"} => new.status = old.status
            /\ old.status = "paused" => new.status \in {"paused", "cancelled"}
            /\ old.lease = "succeeded" => new.lease = "succeeded"
      ]_world

\* An agent never has more running runs than its limit, however many starts
\* one command makes.
WithinConcurrencyLimit ==
    \A a \in Agent :
        Cardinality(RunningRuns(world, a)) <= ConcurrencyLimit(world, a)

\* Every start was due: of an input nobody works on, asked for where it was
\* tried before, and within the limit of its agent.
StartsWereDue == OneAttemptPerInput /\ RetriesAreExplicit /\ WithinConcurrencyLimit

\* A review only ever settles the generation of the edge it was given: its
\* attempt succeeds in the step that takes exactly this edge, still at that
\* generation, out of its state.
VerdictSettlesItsGeneration ==
    [][\A t \in Task : \A i \in DOMAIN world.runs[t] :
        LET old == world.runs[t][i]
            new == world'.runs[t][i]
        IN  (/\ old.trigger = "graph_review"
             /\ old.lease # "succeeded" /\ new.lease = "succeeded")
            => \E e \in Live(world) :
                LET g == world.dependencies[e].generation IN
                /\ old.fingerprint = ReviewFingerprint(e, g)
                /\ world.dependencies[e].target = t
                /\ world'.dependencies[e] # Removed =>
                    /\ world'.dependencies[e].generation = g
                    /\ world'.dependencies[e].state # "stale"
      ]_world

\* No command, event or retry starts a run of a task that is in the backlog
\* or behind an unfinished blocker, or an executor on an unsettled input.
NewRuns(t) == (DOMAIN world'.runs[t]) \ DOMAIN world.runs[t]

StartsRespectGates ==
    [][\A t \in Task : NewRuns(t) # {} =>
        /\ world'.status[t] # "backlog"
        /\ UnresolvedBlockers(world', t) = {}
        /\ \A i \in NewRuns(t) :
            world'.runs[t][i].trigger # "graph_review" =>
                ~HasStaleDependency(world', t)
      ]_world

-----------------------------------------------------------------------------
(* Progress, as a property of single steps.                                 *)

\* Nodes that the executors' dispatcher would start now.
Waiting(w) ==
    {t \in Task : /\ w.conductor = NoAgent
                  /\ ExecutorReady(w, t)
                  /\ w.assignee[t] # NoAgent
                  /\ FreeSlots(w, w.assignee[t]) > 0}

\* The session of a review ends well, but it brought no verdict: it is left for
\* a person to look at, whether or not the workspace still has a conductor.
EndsInconclusive(t, i) ==
    /\ world.runs[t][i].trigger = "graph_review"
    /\ world.runs[t][i].lease # "succeeded"
    /\ HarnessSessionEnd(t, i, TRUE)

\* The steps that return without reconciling the graph: a cancel, a patch
\* refused for a commitment, a chat that is stopped, a column that is sorted,
\* pull requests that complete tasks, a restart, and the end of an inconclusive
\* review that a conductor who is gone had been given.
ReconcilesNothing ==
    \/ \E t \in Task : ApplyPatchConflict(t) \/ StopChat(t)
    \/ \E t \in Task : \E i \in DOMAIN world.runs[t] :
            CancelRun(t, i) \/ EndsInconclusive(t, i)
    \/ \E T \in SUBSET Task, s \in Status : ReorderTasks(T, s)
    \/ \E D \in SUBSET Task : SyncGithubPullRequests(D)
    \/ Restart

\* In a workspace without a conductor, no other command and no other event
\* forgets to start a node that it made ready or whose agent it freed.
NoNodeForgotten ==
    [][Waiting(world') \subseteq Waiting(world) \/ ReconcilesNothing]_world
=============================================================================
