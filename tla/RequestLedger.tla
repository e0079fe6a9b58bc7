---------------------------- MODULE RequestLedger ----------------------------
(***************************************************************************)
(* What the dispatch log promises of one judge's requests: a request that  *)
(* left stays out until its fate is known, an answered request is never    *)
(* sent again, a failed one only while the budget of sends lasts.          *)
(***************************************************************************)
EXTENDS Naturals

CONSTANT Items     \* the requests of one judge

VARIABLES fate, sends,
          budget   \* how often one request may leave at most

LedgerInit == /\ fate = [i \in Items |-> "ready"]
              /\ sends = [i \in Items |-> 0]

Send(i) == /\ fate[i] = "ready"
           /\ sends[i] < budget
           /\ fate' = [fate EXCEPT ![i] = "out"]
           /\ sends' = [sends EXCEPT ![i] = @ + 1]

\* The outcome of a request is recorded, or it is given up for good.
Settle(i) == /\ fate[i] = "out"
             /\ \E f \in {"failed", "answered"} : fate' = [fate EXCEPT ![i] = f]
             /\ UNCHANGED sends

Rearm(i) == /\ fate[i] = "failed"
            /\ fate' = [fate EXCEPT ![i] = "ready"]
            /\ UNCHANGED sends

LedgerNext == \E i \in Items : Send(i) \/ Settle(i) \/ Rearm(i)

LedgerSpec ==
    LedgerInit /\ [][LedgerNext /\ UNCHANGED budget]_<<fate, sends, budget>>
==============================================================================
