------------------------------- MODULE MCGraph -------------------------------
(***************************************************************************)
(* The task graph for TLC.  t1 produces, t2 consumes, t3 is a bystander    *)
(* that can stand before or behind both.  A behaviour is one of several    *)
(* regimes, chosen at the start: who may do what in it.                    *)
(***************************************************************************)
EXTENDS GraphSafety, TLC

CONSTANTS t1, t2, t3, a1, a2
VARIABLE regime

Nobody == [t \in Task |-> NoAgent]
OneEach == [t \in Task |-> CASE t = t1 -> a1 [] t = t2 -> a2 [] OTHER -> NoAgent]
OneSlot == [a \in Agent |-> 1]
DefaultSlots == [a \in Agent |-> 0]

Produces  == {<<t1, t2, "consumes">>}
TwoInputs == Produces \union {<<t3, t2, "consumes">>}
EveryKind == Produces \union {<<t2, t3, "precedence">>, <<t3, t1, "assigned_to">>}

\* Nobody does anything: what a regime does not say.
Idle == [assignee |-> OneEach, limit |-> OneSlot, initial |-> {NoAgent},
         conductor |-> {}, status |-> {}, reorder |-> {}, merged |-> {},
         chat |-> {}, delete |-> {}, blocker |-> {}, edge |-> Produces,
         decision |-> {}, starter |-> {}, patch |-> {}, event |-> {},
         runs |-> 0, artifacts |-> 0]

RegimeInputs ==
    [\* Blockers, dependencies of every kind and what ends or deletes a task.
     blockers |->
        [Idle EXCEPT
            !.assignee = Nobody,
            !.status = ({t1, t2} \X {"open", "done"})
                        \union {<<t2, "blocked">>, <<t3, "done">>},
            !.delete = {t3}, !.edge = EveryKind, !.decision = {"remove"},
            !.blocker = {<<t1, t2>>, <<t2, t3>>, <<t3, t1>>}],
     \* A person sorts the columns of the board, and pull requests complete the
     \* tasks of a chain; t3 waits for both.
     board |->
        [Idle EXCEPT
            !.status = {<<t1, "open">>, <<t1, "done">>, <<t2, "open">>}, !.merged = {t1, t2},
            !.reorder = {<<{t1}, "done">>, <<{t1, t3}, "blocked">>, <<{t2, t3}, "open">>},
            !.blocker = {<<t2, t1>>, <<t3, t1>>, <<t3, t2>>},
            !.delete = {t1}, !.event = {"end"}, !.runs = 1],
     \* Two producers of one consumer, patched and decided on.
     staleness |->
        [Idle EXCEPT
            !.assignee = Nobody, !.status = Task \X {"open", "cancelled"},
            !.blocker = {<<t2, t3>>}, !.edge = TwoInputs, !.decision = Decision,
            !.patch = {t1}, !.artifacts = 2],
     \* A conductor reviews two stale edges, and is replaced.
     reviews |->
        [Idle EXCEPT
            !.initial = {a1}, !.conductor = {a2}, !.status = {t1, t2} \X {"open"},
            !.decision = {"reaffirm"}, !.patch = {t1},
            !.event = {"end", "fail", "drift"}, !.runs = 2, !.artifacts = 1],
     \* One edge goes stale twice, so that a review can be of either generation.
     rereviews |->
        [Idle EXCEPT
            !.initial = {a1}, !.status = {t1, t2} \X {"open"},
            !.decision = {"reaffirm", "hold"}, !.patch = {t1},
            !.event = {"end", "fail", "retry"}, !.runs = 2, !.artifacts = 2],
     \* A person marks by hand a task that waits for a blocker, and declares that
     \* it consumes the output of that blocker.
     marking |->
        [Idle EXCEPT
            !.blocker = {<<t2, t1>>},
            !.status = {t1, t2} \X {"blocked", "done"}, !.event = {"end"}, !.runs = 1],
     \* Everything a person and a harness can do to two tasks with a run each.
     mixed |->
        [Idle EXCEPT
            !.limit = DefaultSlots, !.conductor = {a1, NoAgent},
            !.status = ({t1} \X {"open", "cancelled"})
                        \union ({t2} \X {"open", "backlog", "running"}),
            !.decision = {"reaffirm", "remove"}, !.starter = {t1, t2} \X {a1},
            !.patch = {t1}, !.runs = 1, !.artifacts = 1,
            !.event = {"progress", "drift", "end", "conflict", "restart", "depends"}]]

ASSUME RegimesAreInputs == \A r \in DOMAIN RegimeInputs : RegimeInputs[r] \in InputSets

\* Bound: where one edge is enough, one id is never handed out.
OneEdge == \E e \in EdgeId : world.dependencies[e] = Unused

GraphInit == regime \in DOMAIN RegimeInputs /\ Begin(RegimeInputs[regime])

GraphNext ==
    /\ Step(RegimeInputs[regime])
    /\ regime \in {"blockers", "board", "rereviews", "marking", "mixed"} => OneEdge'
    /\ UNCHANGED regime

GraphSpec == GraphInit /\ [][GraphNext]_<<world, regime>>
EdgeSymmetry == Permutations(EdgeId)

\* "hand-marked blocked tasks must not auto-start"
\* (crates/coordy-kernel/tests/invariants.rs:6884): the end of the last blocker
\* of a task that a person has marked blocked starts no run of it.
HandMarkedTasksDoNotAutoStart ==
    [][\A t \in Task :
        (/\ world.blocked_reason[t] = "marked" /\ world'.blocked_reason[t] = "marked"
         /\ UnresolvedBlockers(world, t) # {} /\ UnresolvedBlockers(world', t) = {})
        => NewRuns(t) = {}]_<<world, regime>>

=============================================================================
