----------------------------- MODULE ReachSearch -----------------------------
(***************************************************************************)
(* The walk of issue_graph_reaches, one turn of its loop at a time, over   *)
(* every graph on Node.  It decides what GraphWorld calls Reaches.         *)
(***************************************************************************)
EXTENDS SequencesExt

CONSTANT Node

VARIABLES arcs, from, target, stack, seen, verdict
vars == <<arcs, from, target, stack, seen, verdict>>

SearchInit ==
    /\ arcs \in SUBSET (Node \X Node)
    /\ from \in Node /\ target \in Node
    /\ stack = <<from>>
    /\ seen = {}
    /\ verdict = "open"

Successors(n) == {m \in Node : <<n, m>> \in arcs}

\* Mutant: `stack.last()`, so that a node seen before stays on the stack.
VisitPeeks ==
    LET node == Last(stack) IN
    /\ verdict = "open"
    /\ stack # <<>>
    /\ node \notin seen
    /\ seen' = seen \union {node}
    /\ IF node = target THEN verdict' = "yes" /\ UNCHANGED stack
       ELSE stack' = stack \o SetToSeq(Successors(node)) /\ UNCHANGED verdict
    /\ UNCHANGED <<arcs, from, target>>

\* `let Some(node) = stack.pop()` and the body of the loop
Visit ==
    LET node == Last(stack) IN
    /\ verdict = "open"
    /\ stack # <<>>
    /\ IF node \in seen
       THEN stack' = Front(stack) /\ UNCHANGED <<seen, verdict>>
       ELSE /\ seen' = seen \union {node}
            /\ IF node = target
               THEN verdict' = "yes" /\ stack' = Front(stack)
               ELSE /\ stack' = Front(stack) \o SetToSeq(Successors(node))
                    /\ UNCHANGED verdict
    /\ UNCHANGED <<arcs, from, target>>

GiveUp ==
    /\ verdict = "open"
    /\ stack = <<>>
    /\ verdict' = "no"
    /\ UNCHANGED <<arcs, from, target, stack, seen>>

SearchNext == Visit \/ GiveUp

SearchSpec == SearchInit /\ [][SearchNext]_vars /\ WF_vars(SearchNext)
=============================================================================
