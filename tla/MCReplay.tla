------------------------------ MODULE MCReplay ------------------------------
(***************************************************************************)
(* Replays for TLC.                                                        *)
(***************************************************************************)
EXTENDS DetectionReplay

CONSTANTS p1, p2

\* New packets while two processes replay and score.
Incidents == [kinds |-> {"incident"}, processes |-> {p1, p2}, budget |-> 1,
              answers |-> {"one", "bad"}, versions |-> 2, upgrades |-> 0, jobs |-> 4]

\* Two processes replay the same packets, and calls may differ.
Pair == [kinds |-> {"incident"}, processes |-> {p1, p2}, budget |-> 1,
         answers |-> {"one", "two"}, versions |-> 1, upgrades |-> 0, jobs |-> 3]

\* One process and a program that changes between the commands.
Healthy == [kinds |-> {"healthy"}, processes |-> {p1}, budget |-> 1,
            answers |-> {"one", "two", "bad"}, versions |-> 1, upgrades |-> 1, jobs |-> 4]

\* Calls that fail are made again.
Retried == [kinds |-> {"incident"}, processes |-> {p1}, budget |-> 2,
            answers |-> {"one"}, versions |-> 1, upgrades |-> 1, jobs |-> 3]

AnySetup == {Incidents, Pair, Healthy, Retried}
=============================================================================
