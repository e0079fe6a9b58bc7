---------------------------- MODULE StateConsensus ----------------------------
(***************************************************************************)
(* One pass of the state-diff grading: the primary judge grades every      *)
(* packet, a second judge the cases that need one and some controls, the   *)
(* two are compared, cases go to a queue for people, and the answers       *)
(* measure both judges.  The hash orders of the code are permutations.     *)
(***************************************************************************)
EXTENDS Integers, SequencesExt

CONSTANTS N,               \* packets, numbered in the order of the input
          Planned,         \* those with a plan after the compaction
          Root(_),         \* the Goal a packet belongs to
          Rank(_, _),      \* the hash order of a stratum: a permutation
          Raws,            \* what a judge may report: [reported, risk, low]
          Answers,         \* what a person may answer: YES, NO, UNCERTAIN
          Target, QueueTarget, ControlTarget, MinDecided

ConstantsAreSound == /\ N \in Nat \ {0} /\ Planned \subseteq 1..N
                     /\ {Target, QueueTarget, ControlTarget, MinDecided} \subseteq Nat

VARIABLES stage, first, strata, second, consensus, queue, answers, measured

Packets == 1..N
vars == <<stage, first, strata, second, consensus, queue, answers, measured>>

-----------------------------------------------------------------------------
\* With a plan to compare, a direct risk decides the verdict, not the report.
Normalized(p, raw) ==
  LET expected == IF raw.risk # "none" THEN "SUSPECT" ELSE "NO_MATERIAL_CHANGE"
      kept     == p \notin Planned \/ raw.reported = expected IN
  [assessment |-> IF kept THEN raw.reported ELSE expected,
   risk |-> raw.risk, low |-> raw.low, normalized |-> ~kept]

\* A suspect rests on a direct risk; without a plan nothing can be assessed.
Valid(p, row) == /\ row.assessment = "SUSPECT" => row.risk # "none"
                 /\ p \notin Planned => row.assessment = "UNASSESSABLE" /\ row.risk = "none"

Gradings(p) == {row \in {Normalized(p, raw) : raw \in Raws} : Valid(p, row)}
Suspected(row) == row.assessment = "SUSPECT"
Signature(row) == <<row.assessment, row.risk>>

GradePrimary == /\ stage = "prepared"
                /\ \E rows \in [Packets -> UNION {Gradings(p) : p \in Packets}] :
                     /\ \A p \in Packets : rows[p] \in Gradings(p)
                     /\ first' = rows
                /\ stage' = "primary"
                /\ UNCHANGED <<strata, second, consensus, queue, answers, measured>>

-----------------------------------------------------------------------------
Mandatory == {p \in Packets : Suspected(first[p]) \/ first[p].low \/ first[p].normalized}

MandatoryStratum(p) == IF Suspected(first[p]) THEN "suspected_state_change"
                       ELSE IF first[p].normalized THEN "normalized_top_level"
                       ELSE "low_confidence"

\* The candidate whose Goal is drawn on least, by hash order among equals.
Scarcest(chosen, candidates, stratum) ==
  LET drawn(p) == Cardinality({q \in chosen : Root(q) = Root(p)}) IN
  CHOOSE p \in candidates :
    \A q \in candidates : \/ drawn(p) < drawn(q)
                          \/ drawn(p) = drawn(q) /\ Rank(stratum, p) <= Rank(stratum, q)

AddBalanced(chosen, candidates, quota, stratum) ==
  LET grown[n \in Nat] ==
        IF n = 0 THEN chosen
        ELSE LET left == candidates \ grown[n - 1] IN
             IF left = {} THEN grown[n - 1]
             ELSE grown[n - 1] \cup {Scarcest(grown[n - 1], left, stratum)}
  IN grown[IF quota > 0 THEN quota ELSE 0]

Healthy == {p \in Planned : ~first[p].low /\ first[p].assessment = "NO_MATERIAL_CHANGE"}

WithControls  == AddBalanced(Mandatory, Packets \ Planned, ControlTarget, "no_post_control")
WithHealthy   == AddBalanced(WithControls, Healthy, ControlTarget, "healthy")
WholeSelection == LET desired == IF Target < N THEN Target ELSE N IN
                  AddBalanced(WithHealthy, Healthy, desired - Cardinality(WithHealthy), "healthy")

SelectSecondary == /\ stage = "primary"
                   /\ strata' = [p \in WholeSelection |->
                        IF p \in Mandatory THEN MandatoryStratum(p)
                        ELSE IF p \in WithControls THEN "no_post_control"
                        ELSE "healthy_no_material_change"]
                   /\ stage' = "selected"
                   /\ UNCHANGED <<first, second, consensus, queue, answers, measured>>

GradeSecondary == /\ stage = "selected"
                  /\ \E rows \in [DOMAIN strata -> UNION {Gradings(p) : p \in DOMAIN strata}] :
                       /\ \A p \in DOMAIN strata : rows[p] \in Gradings(p)
                       /\ second' = rows
                  /\ stage' = "secondary"
                  /\ UNCHANGED <<first, strata, consensus, queue, answers, measured>>

-----------------------------------------------------------------------------
Judged(p) == {first[p]} \cup (IF p \in DOMAIN second THEN {second[p]} ELSE {})

\* What the two gradings of a packet come to.
Row(p) ==
  LET low          == \E row \in Judged(p) : row.low
      normalized   == \E row \in Judged(p) : row.normalized
      disagreement == p \in DOMAIN second /\ Signature(first[p]) # Signature(second[p])
      unsettled    == disagreement \/ low \/ normalized IN
  [status |-> IF normalized THEN IF disagreement THEN "DISAGREEMENT_NORMALIZED"
                                 ELSE "NORMALIZED_TOP_LEVEL"
              ELSE IF low THEN IF disagreement THEN "DISAGREEMENT_LOW_CONFIDENCE"
                               ELSE "LOW_CONFIDENCE"
              ELSE IF p \notin DOMAIN second THEN "PRIMARY_ONLY"
              ELSE IF disagreement THEN "DISAGREEMENT" ELSE "AGREED",
   verdict |-> IF unsettled THEN "NONE" ELSE IF Suspected(first[p]) THEN "YES" ELSE "NO"]

Compare == /\ stage = "secondary"
           /\ consensus' = [p \in Packets |-> Row(p)]
           /\ stage' = "compared"
           /\ UNCHANGED <<first, strata, second, queue, answers, measured>>

Controls == {p \in DOMAIN strata : strata[p] \in {"no_post_control", "healthy_no_material_change"}}
NeedsHuman(p) == consensus[p].verdict = "NONE"

Unsettled  == {p \in DOMAIN second : NeedsHuman(p)} \ Controls
Suspicious == {p \in DOMAIN second : consensus[p].verdict = "YES"} \ Controls

\* The first n of a group in an order.
Leading(group, n, order(_)) ==
  {p \in group : Cardinality({q \in group : order(q) < order(p)}) < n}
Least(a, b) == IF a < b THEN a ELSE b

Wanted == Least(QueueTarget, Cardinality(DOMAIN second))

\* Mutant: the strata are not topped up.
QueuedQuotas == LET quota == (Wanted + 2) \div 3 IN
  UNION {Leading(g, quota, LAMBDA p : p) : g \in {Unsettled, Suspicious, Controls}}

\* A third of the places for each group, in turn; the rest by hash order.
Queued ==
  LET quota == IF (Wanted + 2) \div 3 > 1 THEN (Wanted + 2) \div 3 ELSE 1
      a == Leading(Unsettled, Least(quota, Wanted), LAMBDA p : p)
      b == Leading(Suspicious, Least(quota, Wanted - Cardinality(a)), LAMBDA p : p)
      c == Leading(Controls, Least(quota, Wanted - Cardinality(a \cup b)),
                   LAMBDA p : Rank("calibration", p))
      d == Leading(DOMAIN second \ (a \cup b \cup c), Wanted - Cardinality(a \cup b \cup c),
                   LAMBDA p : Rank("calibration-fill", p))
  IN a \cup b \cup c \cup d

QueueStratum(p) == IF p \in Controls THEN "deterministic_control"
                   ELSE IF NeedsHuman(p) THEN "disagreement_or_low_confidence"
                   ELSE IF consensus[p].verdict = "YES" THEN "suspected_state_change"
                   ELSE "independent_rejudge"

Enqueue == /\ stage = "compared"
           /\ queue' = [p \in Queued |-> QueueStratum(p)]
           /\ stage' = IF Queued = {} THEN "causal" ELSE "calibration"
           /\ UNCHANGED <<first, strata, second, consensus, answers, measured>>

-----------------------------------------------------------------------------
\* A judge against the people who decided: hits, false alarms, misses, rests.
Metrics(suspects, truths) ==
  LET yes == {p \in DOMAIN truths : truths[p] = "YES"}
      no  == {p \in DOMAIN truths : truths[p] = "NO"} IN
  [tp |-> Cardinality(yes \cap suspects), fn |-> Cardinality(yes \ suspects),
   fp |-> Cardinality(no \cap suspects),  tn |-> Cardinality(no \ suspects)]

\* Precision 0.80, recall 0.70, false pauses below 0.10, each measurable.
MeetsFloor(m) == /\ m.tp + m.fp > 0 /\ 100 * m.tp >= 80 * (m.tp + m.fp)
                 /\ m.tp + m.fn > 0 /\ 100 * m.tp >= 70 * (m.tp + m.fn)
                 /\ m.fp + m.tn > 0 /\ 100 * m.fp < 10 * (m.fp + m.tn)

Floors(decided) ==
  /\ MeetsFloor(Metrics({p \in Packets : Suspected(first[p])}, decided))
  /\ MeetsFloor(Metrics({p \in DOMAIN second : Suspected(second[p])}, decided))
  /\ Cardinality(DOMAIN decided \cap DOMAIN second) >= MinDecided

\* People answer the whole queue and the judges are measured.
Adjudicate ==
  /\ stage = "calibration"
  /\ \E given \in [DOMAIN queue -> Answers] :
       LET decided == Restrict(given, {p \in DOMAIN given : given[p] # "UNCERTAIN"}) IN
       /\ answers' = given
       /\ measured' = [enough |-> Cardinality(DOMAIN decided) >= MinDecided,
                       floor  |-> Cardinality(DOMAIN decided) >= MinDecided /\ Floors(decided),
                       missed |-> {p \in DOMAIN decided :
                                     queue[p] = "deterministic_control" /\ decided[p] = "YES"}]
       /\ stage' = IF measured'.floor THEN "measured" ELSE "insufficient"
  /\ UNCHANGED <<first, strata, second, consensus, queue>>

-----------------------------------------------------------------------------
Nothing == [p \in {} |-> p]

ConsensusInit == /\ stage = "prepared"
                 /\ first = Nothing /\ strata = Nothing /\ second = Nothing
                 /\ consensus = Nothing /\ queue = Nothing /\ answers = Nothing
                 /\ measured = [enough |-> FALSE, floor |-> FALSE, missed |-> {}]

ConsensusNext == GradePrimary \/ SelectSecondary \/ GradeSecondary \/ Compare
                 \/ Enqueue \/ Adjudicate

ConsensusSpec == ConsensusInit /\ [][ConsensusNext]_vars

-----------------------------------------------------------------------------
(* What one pass of the state-diff grading promises.                         *)

\* Every table is about the packets it was made for, stage by stage.
ConsensusTypeOK ==
  /\ stage \in {"prepared", "primary", "selected", "secondary", "compared", "calibration",
                "causal", "measured", "insufficient"}
  /\ stage # "prepared" => DOMAIN first = Packets
  /\ DOMAIN second \subseteq DOMAIN strata /\ DOMAIN strata \subseteq Packets
  /\ DOMAIN queue \subseteq DOMAIN second /\ DOMAIN answers \subseteq DOMAIN queue
  /\ \A p \in DOMAIN consensus : consensus[p].verdict \in {"YES", "NO", "NONE"}
  /\ \A p \in DOMAIN queue : queue[p] # "independent_rejudge"

\* No verdict of change stands on one judge: a YES is two confident suspicions
\* taken as reported, and a case only the primary judge saw is a plain NO.
SuspicionNeedsTwo ==
  \A p \in DOMAIN consensus :
    /\ consensus[p].verdict = "YES" => /\ p \in DOMAIN second
                                       /\ \A row \in {first[p], second[p]} :
                                            Suspected(row) /\ ~row.low /\ ~row.normalized
    /\ p \notin DOMAIN second => consensus[p].verdict = "NO" /\ ~first[p].normalized

\* The people's queue has as many cases as there are places or second opinions,
\* and no group of cases is crowded out of its third by another.
GroupsShareQueue ==
  stage \in {"calibration", "measured", "insufficient"} =>
    /\ Cardinality(DOMAIN queue) = Least(QueueTarget, Cardinality(DOMAIN second))
    /\ \A group \in {Unsettled, Suspicious, Controls} :
         Cardinality(group \cap DOMAIN queue) >= Least(QueueTarget \div 3, Cardinality(group))

\* The controls probe what the primary judge let pass: each was cleared by it
\* with confidence, by its own report.
ControlsWereCleared ==
  \A p \in Controls : ~Suspected(first[p]) /\ ~first[p].low /\ ~first[p].normalized

\* Healthy controls are spread over the Goals: no Goal is drawn on twice more
\* than one that still has a healthy case to give.
GoalsAreBalanced ==
  LET drawn(p) == Cardinality({q \in DOMAIN strata : Root(q) = Root(p)}) IN
  stage = "selected" =>
    \A p \in DOMAIN strata, q \in Healthy \ DOMAIN strata :
      strata[p] = "healthy_no_material_change" => drawn(p) <= drawn(q) + 1

\* Judges good enough to go on missed few changes among the controls, which
\* the floor never looks at: the missed controls are misses of the primary.
MissedControlsAreFew ==
  measured.floor =>
    10 * Cardinality(measured.missed)
      <= 3 * Cardinality({p \in DOMAIN answers : answers[p] = "YES"})
=============================================================================
