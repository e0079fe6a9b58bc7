------------------------------- MODULE MCJudge -------------------------------
(***************************************************************************)
(* The judges and runners of the repository, for TLC.                      *)
(***************************************************************************)
EXTENDS JudgeSafety

CONSTANTS r1, r2

Graded(judge, runner, packets, processes, most) ==
    [judge |-> judge, runner |-> runner, packets |-> packets,
     processes |-> processes, starts |-> most]

\* 504 answers and failed lookups are retried; two processes want the lock.
StatePool == Graded(StateJudge(TRUE), StateRunner(2), 2, {r1, r2}, 2)

\* One packet, and enough starts to use up every retry of each judge.
StateBudget == Graded(StateJudge(TRUE), StateRunner(1), 1, {r1}, 7)

\* Everything is submitted at once and nothing is retried.
CausalPool == Graded(CausalJudge, CausalRunner(2), 2, {r1, r2}, 3)

\* 502 answers are retried as well and rejected answers are read again.
TrajectoryPool == Graded(TrajectoryJudge(TRUE, TRUE), TrajectoryRunner(2), 2, {r1}, 2)
TrajectoryBudget == Graded(TrajectoryJudge(TRUE, TRUE), TrajectoryRunner(1), 1, {r1}, 8)

\* A rejected answer is handed back, and sent again whatever its status.
LinkPool == Graded(LinkJudge(TRUE, TRUE), LinkRunner(2), 2, {r1}, 2)

\* What was accepted is stored, and recovered after a crash.
IncidentPool == Graded(IncidentJudge(TRUE, TRUE), IncidentRunner(2, FALSE), 2, {r1}, 2)
IncidentBudget == Graded(IncidentJudge(TRUE, TRUE), IncidentRunner(1, FALSE), 1, {r1}, 8)

\* Failed cases become placeholders.
IncidentLegacy == Graded(IncidentJudge(FALSE, FALSE), IncidentRunner(2, TRUE), 2, {r1}, 3)

\* Two processes run the same pair of probes without a lock.
ActionPair == Graded(ActionProbe, ActionRunner, 2, {r1, r2}, 4)

\* A probe of one action, checked once by two processes.
ActionCheck == Graded(ActionJudge, ActionRunner, 1, {r1, r2}, 3)

AnySetup == {StatePool, StateBudget, CausalPool, TrajectoryPool, TrajectoryBudget,
             IncidentPool, IncidentBudget, IncidentLegacy, LinkPool,
             ActionPair, ActionCheck}
==============================================================================
