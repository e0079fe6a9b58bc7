------------------------------- MODULE MCPlan -------------------------------
(***************************************************************************)
(* Task plans for TLC.  A behaviour is about one plan that was applied or  *)
(* about the proposals of one chat, in one of several regimes chosen at    *)
(* the start.  top is the plan's parent, c1 to c3 its children; if stage   *)
(* 2 is c2 alone, c3 is a task outside of the plan.                        *)
(***************************************************************************)
EXTENDS PlanSchedule, TaskPlans

CONSTANTS top, c1, c2, c3, a1, w1, w2, d1, d2
VARIABLE regime
all == <<regime, plan, plans>>

TwoStages == [t \in {c1, c2, c3} |-> IF t = c3 THEN 2 ELSE 1]
OneAfterOne == [t \in {c1, c2} |-> IF t = c2 THEN 2 ELSE 1]

Idle == [assignee |-> [t \in Task |-> IF t = top THEN NoAgent ELSE a1],
         limit |-> [a \in Agent |-> 1],
         initial |-> {NoAgent}, conductor |-> {}, status |-> {}, reorder |-> {},
         merged |-> {}, chat |-> {}, delete |-> {}, blocker |-> {}, edge |-> {},
         decision |-> {}, starter |-> {}, patch |-> {}, event |-> {},
         runs |-> 1, artifacts |-> 0]

PlanRegimes ==
    [\* Three children share one slot.
     stages |->
        [stage |-> TwoStages, depends |-> {<<c2, c1>>, <<c3, c1>>},
         mode |-> Mode, family |-> {},
         graph |-> [Idle EXCEPT
            !.status = ({c1, c2, c3} \X {"open", "done", "cancelled"})
                       \union {<<top, "done">>},
            !.runs = 2,
            !.event = {"end", "fail", "cancel", "restart"}]],
     \* The family of the parent changes, and something else holds it.
     parent |->
        [stage |-> OneAfterOne, depends |-> {<<c2, c1>>},
         mode |-> {"confirm_and_start"}, family |-> {c3},
         graph |-> [Idle EXCEPT
            !.status = ({top, c1, c3} \X {"open", "done"}) \union {<<c2, "done">>},
            !.delete = {c2},
            !.blocker = {<<c3, top>>, <<top, c3>>}, !.event = {"cancel"}]],
     \* The columns of the board are sorted, and pull requests merge.
     board |->
        [stage |-> OneAfterOne, depends |-> {<<c2, c1>>},
         mode |-> {"confirm_and_start"}, family |-> {c3},
         graph |-> [Idle EXCEPT
            !.status = {<<top, "open">>, <<top, "done">>, <<c1, "open">>},
            !.merged = {c1, c3}, !.blocker = {<<top, c3>>, <<c3, c1>>},
            !.reorder = {<<{c1, c2}, "done">>, <<{c1}, "blocked">>, <<{top, c2}, "open">>},
            !.event = {"end"}]],
     \* ... the parent among them.
     parent_moved |->
        [stage |-> OneAfterOne, depends |-> {},
         mode |-> Mode, family |-> {},
         graph |-> [Idle EXCEPT
            !.status = {c1, top} \X {"open", "done"},
            !.reorder = {{top}, {c1, c2}} \X {"done"}, !.event = {"end"}]],
     \* A child is a node of the declared graph too, and people start runs.
     declared |->
        [stage |-> OneAfterOne, depends |-> {},
         mode |-> {"confirm_and_start"}, family |-> {},
         graph |-> [Idle EXCEPT
            !.status = Task \X {"done"}, !.edge = {<<c1, c3, "consumes">>},
            !.starter = Task \X {a1}, !.chat = {c3},
            !.event = {"progress", "conflict", "end"}]]]

OfPlans == {PlanRegimes[r] : r \in DOMAIN PlanRegimes}

ChatRegimes ==
    [\* Two replies of one chat and one window.
     replies |->
        [windows |-> {w1}, designs |-> {d1}, foreign_source |-> FALSE,
         may_restart |-> FALSE, runs |-> 2, records |-> 3],
     \* One reply, two windows, and a restart of the daemon.
     windows |->
        [windows |-> {w1, w2}, designs |-> {d1, d2}, foreign_source |-> FALSE,
         may_restart |-> TRUE, runs |-> 1, records |-> 3]]

OfChats == {ChatRegimes[r] : r \in DOMAIN ChatRegimes}

\* What stands still in the other part.
NoPlanApplied == /\ Init /\ given = PlanRegimes["parent"] /\ mode = "create_only"
                 /\ stage = TwoStages /\ family = {} /\ auto_completed = FALSE
NoChat == ChatInit /\ chat = ChatRegimes["replies"]

MCInit ==
    \/ /\ regime \in DOMAIN PlanRegimes
       /\ ApplyPlan /\ given = PlanRegimes[regime] /\ NoChat
    \/ /\ regime \in DOMAIN ChatRegimes
       /\ ChatInit /\ chat = ChatRegimes[regime] /\ NoPlanApplied

MCNext ==
    /\ UNCHANGED regime
    /\ \/ regime \in DOMAIN PlanRegimes /\ PlanNext /\ UNCHANGED plans
       \/ regime \in DOMAIN ChatRegimes /\ ChatNext /\ UNCHANGED plan

MCSpec == MCInit /\ [][MCNext]_all
=============================================================================
