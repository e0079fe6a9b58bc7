------------------------------- MODULE MCLogs -------------------------------
(***************************************************************************)
(* What the study reads from session logs, for TLC: one log and its four   *)
(* readings, and the history of a Goal.  A behaviour is about one of them, *)
(* in a regime chosen at the start.                                        *)
(***************************************************************************)
VARIABLES part, log, windows, marks, grace, packets, causal, calls,
          logs, written, stage, units, context

scanning == <<log, windows, marks, grace, packets, causal, calls>>
joining == <<logs, written, stage, units, context>>
all == <<part, scanning, joining>>

\* Short logs of every kind of row, some of them near each other.
Short == INSTANCE SessionScan WITH
    Kinds <- {"compacted", "context_compacted", "announce", "call", "patch",
              "failure", "correction"},
    Gaps <- {3, 6}, Budget <- 2, MaxRows <- 5

\* Longer logs of markers and plans: five rows may lie between two markers.
Long == INSTANCE SessionScan WITH
    Kinds <- {"compacted", "context_compacted", "assistant"},
    Gaps <- {0, 6}, Budget <- 2, MaxRows <- 7

\* One session, with markers near and far.
One == INSTANCE TrajectoryHistory WITH
    Sessions <- {1}, Reach <- 2, Near <- 5, Gaps <- {1, 9}, MaxRows <- 6

\* Two sessions, one perhaps a fork of the other, with rows of the same time.
Forks == INSTANCE TrajectoryHistory WITH
    Sessions <- {1, 2}, Reach <- 2, Near <- 5, Gaps <- {0, 9}, MaxRows <- 4

\* Three sessions, so that the action may be in one and the outcome and a copy of
\* it in the two others; the rows that share a time decide by line and session.
Tied == INSTANCE TrajectoryHistory WITH
    Sessions <- {1, 2, 3}, Reach <- 2, Near <- 5, Gaps <- {0}, MaxRows <- 4

ASSUME RegimesAreSound == One!ConstantsAreSound /\ Forks!ConstantsAreSound
                           /\ Tied!ConstantsAreSound

MCInit ==
    /\ part \in {"short", "long", "one", "forks", "tied"}
    /\ Short!ScanInit
    /\ CASE part = "forks" -> Forks!HistoryInit
         [] part = "tied" -> Tied!HistoryInit
         [] OTHER -> One!HistoryInit

MCNext ==
    /\ UNCHANGED part
    /\ \/ part = "short" /\ Short!ScanNext /\ UNCHANGED joining
       \/ part = "long" /\ Long!ScanNext /\ UNCHANGED joining
       \/ part = "one" /\ One!HistoryNext /\ UNCHANGED scanning
       \/ part = "forks" /\ Forks!HistoryNext /\ UNCHANGED scanning
       \/ part = "tied" /\ Tied!HistoryNext /\ UNCHANGED scanning

MCSpec == MCInit /\ [][MCNext]_all

-----------------------------------------------------------------------------
(* The properties of the parts.                                             *)

\* The readings of one log agree: each opportunity that is apart from others has
\* one packet of each kind, which shows nothing that happened in another window,
\* and the card people are asked about is cut in the window of its opportunity.
ReadingsAgree ==
    /\ part = "short" =>
        /\ Short!ScanTypeOK /\ Short!PacketsMatchOpportunities
        /\ Short!NothingFromOtherWindows /\ Short!CardShowsItsWindow
    /\ part = "long" => Long!PacketsMatchOpportunities /\ Long!CardShowsItsWindow

\* The history cut at an action leaves out nothing that was written before it
\* and shows no row twice, no copy of the outcome, and no action as evidence for
\* what it is judged against; the judges whose findings count never saw a row
\* from after it.
CutHidesWhatFollows ==
    /\ part = "one" =>
        /\ One!HistoryTypeOK /\ One!NoRowTwice /\ One!SplitAtTheLoss
        /\ One!OutcomeIsHidden /\ One!NobodyForetells
    /\ part = "forks" =>
        /\ Forks!HistoryTypeOK /\ Forks!PrefixIsWhole /\ Forks!OutcomeIsHidden
        /\ Forks!ActionIsNoEvidence /\ Forks!NobodyForetells
    /\ part = "tied" =>
        /\ Tied!PrefixIsWhole /\ Tied!OutcomeIsHidden
        /\ Tied!ActionIsNoEvidence /\ Tied!NobodyForetells
=============================================================================
