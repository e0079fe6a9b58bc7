------------------------------ MODULE MCFindings ------------------------------
(***************************************************************************)
(* From windows to decisions, for TLC: the pool of candidates and what is  *)
(* decided of them, the consensus of two judges, the cases made of judges' *)
(* fragments, and the ledger of commitments.  A behaviour is about one of  *)
(* them, in a regime chosen at the start.                                  *)
(***************************************************************************)
EXTENDS Naturals

VARIABLES part,
  seen, pool, candidates,
  cards, overflow, crossComplete, asked, given, reviewer, outcome,
  stage, first, strata, second, consensus, queue, answers, measured,
  fragments, components, inputs, rows, bound, complete, cases, packets, redone,
  findings, reporting, left, ledger, refused

pooling == <<seen, pool, candidates>>
deciding == <<cards, overflow, crossComplete, asked, given, reviewer, outcome>>
grading == <<stage, first, strata, second, consensus, queue, answers, measured>>
linking == <<fragments, components, inputs, rows, bound, complete, cases, packets, redone>>
entering == <<findings, reporting, left, ledger, refused>>
all == <<part, pooling, deciding, grading, linking, entering>>

-----------------------------------------------------------------------------
Seen(k, pre, consequence, signals, actions) ==
    [key |-> k, pre |-> pre, outcome |-> consequence, signals |-> signals, actions |-> actions]

\* Three sessions look at one boundary, each at anything a window can show.
Again == INSTANCE ScreeningPool WITH
    Keys <- {1}, RootOf <- <<1>>, MaxSessions <- 3,
    HighPlaces <- 1, ProbePlaces <- 1, MaxCandidates <- 2,
    Observations <- {Seen(1, p, o, s, a) : p \in BOOLEAN, o \in BOOLEAN,
                       s \in SUBSET {"correction", "failure"}, a \in 0..2}

\* Three boundaries of two Goals, noticed or not, hurt or not, for two places.
Many == INSTANCE ScreeningPool WITH
    Keys <- {1, 2, 3}, RootOf <- <<1, 0, 1>>, MaxSessions <- 3,
    HighPlaces <- 1, ProbePlaces <- 1, MaxCandidates <- 2,
    Observations <- {Seen(k, TRUE, o, s, 1) : k \in {1, 2, 3}, o \in BOOLEAN,
                       s \in {{}, {"failure"}}}

Card(signal, consequence, class) ==
    [signal |-> signal, change |-> TRUE, consequence |-> consequence, class |-> class,
     replayable |-> TRUE]
Quotas == [s \in {"high_signal", "recall_probe", "healthy_hard_negative"} |->
             IF s = "high_signal" THEN 3 ELSE 1]
OwnRoot(c) == c
TwoRoots(c) == IF c <= 3 THEN "r1" ELSE "r2"

\* Three cards of every kind the rules tell apart, each of a Goal of its own.
Rules == INSTANCE ScreeningDecision WITH
    Cases <- 1..3, Root <- OwnRoot, Quota <- Quotas, queue <- asked,
    Kinds <- {Card(TRUE, TRUE, TRUE), Card(TRUE, TRUE, FALSE), Card(FALSE, FALSE, FALSE),
              Card(TRUE, FALSE, TRUE)},
    EnoughFailures <- 2, EnoughPopulation <- 3, PivotRoots <- 1, Limit <- 3

\* Four cards of two Goals, some without their source, and room for three.
Drawing == INSTANCE ScreeningDecision WITH
    Cases <- 1..4, Root <- TwoRoots, Quota <- Quotas, queue <- asked,
    Kinds <- {Card(TRUE, TRUE, TRUE), Card(FALSE, FALSE, TRUE),
              [Card(TRUE, TRUE, TRUE) EXCEPT !.replayable = FALSE]},
    EnoughFailures <- 3, EnoughPopulation <- 6, PivotRoots <- 2, Limit <- 4

-----------------------------------------------------------------------------
Raw(reported, risk, low) == [reported |-> reported, risk |-> risk, low |-> low]
Suspect == Raw("SUSPECT", "stale", FALSE)
Cleared == Raw("NO_MATERIAL_CHANGE", "none", FALSE)
ByGoal(p) == IF p <= 3 THEN "g1" ELSE "g2"
Alternating(stratum, p) == IF stratum \in {"healthy", "calibration"} THEN p ELSE 6 - p

\* Five packets of two Goals, one without a plan, and judges in any doubt.
Queueing == INSTANCE StateConsensus WITH
    N <- 5, Planned <- 1..4, Root <- ByGoal, Rank <- Alternating,
    Raws <- {Suspect, Cleared, Raw("UNASSESSABLE", "none", FALSE),
             Raw("NO_MATERIAL_CHANGE", "none", TRUE)},
    Answers <- {"UNCERTAIN"}, Target <- 4, QueueTarget <- 3, ControlTarget <- 1,
    MinDecided <- 1

\* Five packets with plans, judges and people in no doubt, and the floor.
Measuring == INSTANCE StateConsensus WITH
    N <- 5, Planned <- 1..5, Root <- ByGoal, Rank <- Alternating,
    Raws <- {Suspect, Cleared}, Answers <- {"YES", "NO"}, Target <- 5,
    QueueTarget <- 6, ControlTarget <- 1, MinDecided <- 4

-----------------------------------------------------------------------------
\* Two opportunities of one goal whose windows overlap in one event, and one
\* of another goal that shows it as well; something is graded anew or removed.
Overlapping == INSTANCE IncidentCases WITH
    Parents <- {1, 2, 3}, Synthetic <- {9}, Goal <- <<"g1", "g1", "g2">>,
    Findings <- <<{1, 2}, {2, 3}, {2}>>, Window <- <<{1, 2}, {1, 2, 3}, {2}>>,
    MaxComponents <- 2, MaxBytes <- 9, SizeOf <- <<1, 1, 1>>,
    MaxFragments <- 3, MaxRedone <- 1

\* Three opportunities that do not all fit a packet, graded again and again.
Regraded == INSTANCE IncidentCases WITH
    Parents <- {1, 2, 3}, Synthetic <- {9}, Goal <- <<"g1", "g1", "g1">>,
    Findings <- <<{1}, {2}, {3}>>, Window <- <<{1}, {2}, {3}>>,
    MaxComponents <- 2, MaxBytes <- 6, SizeOf <- <<1, 2, 4>>,
    MaxFragments <- 3, MaxRedone <- 2

\* Two findings of any three texts on two objects.
Entry == INSTANCE CommitmentLedger WITH
    Events <- {1, 2, 3}, Line <- <<1, 2, 3>>, Time <- <<1, 2, 3>>,
    SessionOf <- <<1, 1, 1>>, Texts <- {1, 2, 3}, Object <- <<"a", "a", "b">>,
    Changing <- {2}, MaxFindings <- 2, rows <- ledger

\* Three findings on one object: what replaces may be replaced.
Chain == INSTANCE CommitmentLedger WITH
    Events <- {1, 2, 3}, Line <- <<1, 2, 3>>, Time <- <<1, 2, 3>>,
    SessionOf <- <<1, 1, 1>>, Texts <- {1, 2}, Object <- <<"a", "a">>,
    Changing <- {2}, MaxFindings <- 3, rows <- ledger

\* The same of two sessions: what the second says last is on an earlier line than
\* what the first said before it.
Across == INSTANCE CommitmentLedger WITH
    Events <- {1, 2, 3}, Line <- <<1, 3, 2>>, Time <- <<1, 2, 3>>,
    SessionOf <- <<1, 1, 2>>, Texts <- {1, 2}, Object <- <<"a", "a">>,
    Changing <- {2}, MaxFindings <- 3, rows <- ledger

ASSUME RegimesAreSound ==
    /\ Again!ConstantsAreSound /\ Many!ConstantsAreSound
    /\ Rules!ConstantsAreSound /\ Drawing!ConstantsAreSound
    /\ Queueing!ConstantsAreSound /\ Measuring!ConstantsAreSound
    /\ Overlapping!ConstantsAreSound /\ Regraded!ConstantsAreSound
    /\ Entry!ConstantsAreSound /\ Chain!ConstantsAreSound /\ Across!ConstantsAreSound

-----------------------------------------------------------------------------
MCInit ==
    /\ part \in {"again", "many", "rules", "drawing", "queueing", "measuring",
                 "overlapping", "regraded", "entry", "chain", "across"}
    /\ Again!PoolInit /\ Rules!DecisionInit /\ Queueing!ConsensusInit
    /\ Overlapping!CasesInit /\ Entry!LedgerInit

Pools == \/ part = "again" /\ Again!PoolNext
         \/ part = "many" /\ Many!PoolNext
Decides == \/ part = "rules" /\ Rules!DecisionNext
           \/ part = "drawing" /\ Drawing!DecisionNext
Grades == \/ part = "queueing" /\ Queueing!ConsensusNext
          \/ part = "measuring" /\ Measuring!ConsensusNext
Links == \/ part = "overlapping" /\ Overlapping!CasesNext
         \/ part = "regraded" /\ Regraded!CasesNext
Enters == \/ part = "entry" /\ Entry!LedgerNext
          \/ part = "chain" /\ Chain!LedgerNext
          \/ part = "across" /\ Across!LedgerNext

MCNext ==
    /\ UNCHANGED part
    /\ \/ Pools /\ UNCHANGED <<deciding, grading, linking, entering>>
       \/ Decides /\ UNCHANGED <<pooling, grading, linking, entering>>
       \/ Grades /\ UNCHANGED <<pooling, deciding, linking, entering>>
       \/ Links /\ UNCHANGED <<pooling, deciding, grading, entering>>
       \/ Enters /\ UNCHANGED <<pooling, deciding, grading, linking>>

MCSpec == MCInit /\ [][MCNext]_all

-----------------------------------------------------------------------------
(* The properties of the parts.                                             *)

\* What is chosen for people to look at: an opportunity with an outcome is
\* reviewed in a session that shows one, nothing is left out while a place is
\* free, and the windows where nothing was noticed keep theirs; the queues draw
\* on Goals and groups in turn, suspicion needs two judges, and the controls were
\* cleared with confidence and spread over the Goals.
SelectionsAreFair ==
    /\ part = "again" => Again!PoolTypeOK /\ Again!ReviewedWhereItHurt
    /\ part = "many" => /\ Many!PoolTypeOK /\ Many!NothingLeftOutForNothing
                        /\ Many!UnnoticedKeepTheirPlaces
    /\ part = "drawing" => Drawing!RootsShareQueue
    /\ part = "queueing" =>
        /\ Queueing!ConsensusTypeOK /\ Queueing!SuspicionNeedsTwo
        /\ Queueing!GroupsShareQueue /\ Queueing!ControlsWereCleared
        /\ Queueing!GoalsAreBalanced

\* A decision rests on people who left nothing open, a pivot is about all the
\* failures they confirmed, one more of them never turns "proceed" into a stop or
\* a pivot, and judges above the floor missed few changes among the controls.
DecisionsRestOnPeople ==
    /\ part = "rules" => /\ Rules!DecisionTypeOK /\ Rules!DecisionsRestOnPeople
                         /\ Rules!PivotsCoverEveryFailure /\ Rules!MoreFailuresNeverStop
    /\ part = "measuring" => Measuring!MissedControlsAreFew

\* Three passes of linking lose no component as long as their files follow each
\* other; a component is connected by evidence, none of which is ever in two
\* incidents, and every cited event reaches the causal judge.
FindingsMakeOneCase ==
    /\ [](/\ part = "overlapping" =>
               /\ Overlapping!CasesTypeOK /\ Overlapping!ComponentsAreConnected
               /\ Overlapping!NothingCountedTwice /\ Overlapping!CitedEventsReachTheJudge
          /\ part = "regraded" => Regraded!NothingCountedTwice)
    /\ [][/\ part = "overlapping" => Overlapping!CoversComponents
          /\ part = "regraded" => Regraded!CoversComponents]_all

\* What a person said once is one commitment; it is closed only by what names it
\* or speaks of its change, and, within a session, was said after it; what a
\* finding supersedes does not stand, and keeps the name of its first replacement,
\* and the replacements lead to one that stands.
CommitmentsAreReplacedInOrder ==
    /\ [](/\ part = "entry" => /\ Entry!LedgerTypeOK /\ Entry!OneRowPerEvent
                               /\ Entry!ObeyedUnlessRepeated
          /\ part = "chain" => /\ Chain!SomethingStands /\ Chain!ClosedByNewer
                               /\ Chain!ClosedForAReason /\ Chain!ObeyedUnlessRepeated
          /\ part = "across" => /\ Across!SomethingStands /\ Across!ClosedByNewer
                                /\ Across!ClosedForAReason /\ Across!ObeyedUnlessRepeated)
    /\ [][/\ part = "chain" => Chain!KeepsFirstReplacement
          /\ part = "across" => Across!KeepsFirstReplacement]_all
=============================================================================
