----------------------------- MODULE MCProgress -----------------------------
(***************************************************************************)
(* The executors of a task graph for TLC: all tasks belong to one agent    *)
(* with one slot.  A behaviour is one of five parts, chosen at the start:  *)
(* two tasks whose runs fail, are cancelled, retried and cut off; a        *)
(* producer with two consumers whose sessions all end; a conductor who     *)
(* leaves before its review has ended; a board whose columns are sorted    *)
(* and a chat that is stopped; or the walk of the cycle check.             *)
(***************************************************************************)
EXTENDS GraphSafety

CONSTANTS t1, t2, t3, a1, e1, e2, Node
VARIABLES part, arcs, from, target, stack, seen, verdict
search == <<arcs, from, target, stack, seen, verdict>>
all == <<world, part, search>>

Search == INSTANCE ReachSearch

Produces == {<<t1, t2, "consumes">>}

Idle == [assignee |-> [t \in Task |-> a1], limit |-> [a \in Agent |-> 1],
         initial |-> {NoAgent}, conductor |-> {}, status |-> {}, reorder |-> {},
         merged |-> {}, chat |-> {}, delete |-> {}, blocker |-> {},
         edge |-> Produces, decision |-> {}, starter |-> {}, patch |-> {},
         event |-> {}, runs |-> 2, artifacts |-> 0]

PartInputs ==
    [executors |->
        [Idle EXCEPT
            !.status = {t1, t2} \X {"open", "done"}, !.decision = {"reaffirm"},
            !.patch = {t1}, !.artifacts = 1,
            !.event = {"end", "fail", "cancel", "retry", "restart"}],
     leaving |->
        [Idle EXCEPT
            !.initial = {a1}, !.conductor = {NoAgent}, !.status = {t1, t2} \X {"open"},
            !.patch = {t1}, !.artifacts = 1, !.runs = 1, !.event = {"end"}],
     board |->
        [Idle EXCEPT
            !.status = {t1, t2} \X {"open"}, !.merged = {t1}, !.chat = {t3},
            !.starter = {<<t3, a1>>}, !.runs = 1, !.event = {"end", "fail"},
            !.reorder = {<<{t1}, "done">>, <<{t1, t2}, "open">>}],
     progress |->
        [Idle EXCEPT
            !.status = {t1, t2} \X {"done"},
            !.edge = Produces \union {<<t1, t3, "consumes">>},
            !.event = {"end", "fail", "drift"}]]

ASSUME PartsAreInputs == \A r \in DOMAIN PartInputs : PartInputs[r] \in InputSets

\* The walk over no arcs, finished: what the graph's parts leave alone.
NoSearch == /\ arcs = {} /\ stack = <<>> /\ seen = {} /\ verdict = "done"
            /\ from = {} /\ target = {}

ProgressInit ==
    \/ part \in DOMAIN PartInputs /\ Begin(PartInputs[part]) /\ NoSearch
    \/ part = "search" /\ Init /\ Search!SearchInit

\* Bounds: one edge between two tasks; ids are handed out in order.
EdgesBounded(p) ==
    IF p # "progress" THEN world.dependencies[e2] = Unused
    ELSE world.dependencies[e2] # Unused => world.dependencies[e1] # Unused

ProgressNext ==
    /\ UNCHANGED part
    /\ \/ /\ part \in DOMAIN PartInputs
          /\ Step(PartInputs[part]) /\ EdgesBounded(part)' /\ UNCHANGED search
       \/ part = "search" /\ Search!SearchNext /\ UNCHANGED world

-----------------------------------------------------------------------------
(* Fairness: LivePorts sends the session event after run_kind has returned, *)
(* whatever it returned; that it returns is up to the agent program, for a  *)
(* session has no timeout.  The walk is a loop of one command.              *)

SessionEnds(t, i) ==
    /\ part = "progress" /\ i \in DOMAIN world.runs[t]
    /\ HarnessSessionEnd(t, i, TRUE) \/ HarnessSessionEnd(t, i, FALSE)
    /\ Bounded(PartInputs["progress"], world') /\ EdgesBounded("progress")'
    /\ UNCHANGED <<part, search>>

Walks == part = "search" /\ Search!SearchNext /\ UNCHANGED <<part, world>>

ProgressSpec == /\ ProgressInit /\ [][ProgressNext]_all
                /\ \A t \in Task, i \in 1..Idle.runs : WF_all(SessionEnds(t, i))
                /\ WF_all(Walks)

-----------------------------------------------------------------------------

\* A node that the executors' dispatcher would start if its agent had a slot.
Startable(t) == world.assignee[t] # NoAgent /\ world.conductor = NoAgent /\ ExecutorReady(world, t)

\* A node that could be started but for its agent's slots is started, or
\* stops being startable: it is never left waiting for good, since the end of
\* every session that held a slot dispatches again.
ReadyNodesStart ==
    \A t \in Task : (part = "progress" /\ Startable(t)) ~> ~ExecutorReady(world, t)

\* The walk of the cycle check ends, and answers exactly the question the
\* kernel's gates ask (Reaches), on cyclic graphs too.
WalkAnswers ==
    /\ [](part = "search" /\ verdict # "open" =>
            (verdict = "yes" <=> Reaches(arcs, Node, from, target)))
    /\ part = "search" ~> verdict # "open"
=============================================================================
