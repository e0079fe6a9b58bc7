-------------------------- MODULE ScreeningDecision --------------------------
(***************************************************************************)
(* How the answers to the frozen review queue of a screening become STOP,  *)
(* PIVOT, PROCEED or nothing yet: the sample is drawn from the evidence    *)
(* cards by stratum, people or a machine answer, and the rules are applied *)
(* in the order of the code.                                               *)
(***************************************************************************)
EXTENDS Integers, FiniteSetsExt

CONSTANTS Cases,        \* the evidence cards, numbered
          Kinds,        \* what a card may show: [signal, change, consequence, class, replayable]
          Root(_),      \* the Goal root of a card
          Quota,        \* stratum -> places in the queue
          Limit,        \* places in all
          EnoughFailures, EnoughPopulation, PivotRoots

ConstantsAreSound == /\ Limit \in Nat /\ Cases \subseteq Nat /\ IsFiniteSet(Cases)
                     /\ EnoughFailures \in Nat /\ EnoughPopulation \in Nat /\ PivotRoots \in Nat

VARIABLES cards, overflow, crossComplete, queue, given, reviewer, outcome
vars == <<cards, overflow, crossComplete, queue, given, reviewer, outcome>>

Strata == {"high_signal", "recall_probe", "healthy_hard_negative"}
Pending == [status |-> "PENDING_USER_REVIEW", decision |-> "none", scenario |-> {}]

-----------------------------------------------------------------------------
\* Which cards a stratum may draw on; only a card with a rebuilt source may.
Pool(stratum) ==
  {c \in DOMAIN cards : /\ cards[c].replayable
                        /\ CASE stratum = "high_signal"  -> cards[c].signal /\ cards[c].consequence
                             [] stratum = "recall_probe" -> ~cards[c].signal
                             [] stratum = "healthy_hard_negative" ->
                                  ~cards[c].consequence /\ (cards[c].signal \/ cards[c].change)}

\* Round robin over the Goal roots, in hash order, until the quota is met.
Fair(pool, n) ==
  LET turn(c) == Cardinality({d \in pool : Root(d) = Root(c) /\ d < c})
      before(d, c) == turn(d) < turn(c) \/ (turn(d) = turn(c) /\ d < c) IN
  {c \in pool : Cardinality({d \in pool : before(d, c)}) < n}

Places(stratum, taken) ==
  LET left == Limit - Cardinality(taken) IN IF Quota[stratum] < left THEN Quota[stratum] ELSE left

\* Stratum by stratum, without the cards already drawn, up to the limit.
Drawn ==
  LET high    == Fair(Pool("high_signal"), Places("high_signal", {}))
      probes  == Fair(Pool("recall_probe") \ high, Places("recall_probe", high))
      healthy == Fair(Pool("healthy_hard_negative") \ (high \cup probes),
                      Places("healthy_hard_negative", high \cup probes)) IN
  [s \in Strata |-> CASE s = "high_signal" -> high [] s = "recall_probe" -> probes [] OTHER -> healthy]

\* review-s0: cards are built from the frozen candidates and the queue frozen.
PrepareReview ==
  /\ cards = [c \in {} |-> c]
  /\ \E shown \in [Cases -> Kinds] : cards' = shown
  /\ overflow' \in {0, 1}
  /\ crossComplete' \in BOOLEAN
  /\ queue' = Drawn'
  /\ UNCHANGED <<given, reviewer, outcome>>

Queued == UNION {queue[s] : s \in Strata}

\* The queue comes back, answered by people or by a machine, perhaps in part.
Answer == /\ cards # [c \in {} |-> c] /\ reviewer = "nobody"
          /\ reviewer' \in {"HUMAN_CONFIRMED", "MACHINE_PRELABEL"}
          /\ given' \in [Queued -> {"YES", "NO", "UNCERTAIN", "missing"}]
          /\ UNCHANGED <<cards, overflow, crossComplete, queue, outcome>>

-----------------------------------------------------------------------------
Said(answers, a) == {c \in DOMAIN answers : answers[c] = a}
Classified(answers) == {c \in Said(answers, "YES") : cards[c].class}
ProbeMissed(answers) == \E c \in Said(answers, "YES") :
                          c \in queue["recall_probe"] \cup queue["healthy_hard_negative"]

\* Mutant: a scenario may leave confirmed failures out.
MayPivotPartly(answers, scenario, reason) ==
  /\ scenario # {} /\ scenario \subseteq Classified(answers)
  /\ reason \/ Cardinality({Root(c) : c \in scenario}) >= PivotRoots

\* A narrow scenario: every confirmed failure and few of them, over several
\* roots unless a reason of its own is recorded.
MayPivot(answers, scenario, reason) ==
  /\ scenario # {} /\ scenario = Classified(answers)
  /\ Cardinality(scenario) < EnoughFailures
  /\ reason \/ Cardinality({Root(c) : c \in scenario}) >= PivotRoots

StopReasons(answers) ==
  {r \in {"population", "failures", "consequences"} :
     CASE r = "population"   -> /\ overflow = 0 /\ \A c \in Cases : cards[c].replayable
                                /\ Cardinality(Cases) < EnoughPopulation
       [] r = "failures"     -> Cardinality(Classified(answers)) < EnoughFailures
       [] r = "consequences" -> ~\E c \in Said(answers, "YES") : cards[c].consequence}

Undecided(status) == [status |-> status, decision |-> "none", scenario |-> {}]

Verdict(answers, who, scenario, reason) ==
  CASE Said(answers, "missing") # {} -> Pending
    [] Said(answers, "missing") = {} /\ who # "HUMAN_CONFIRMED" -> Undecided("PENDING_HUMAN_CALIBRATION")
    [] OTHER ->
       IF ProbeMissed(answers) THEN Undecided("PENDING_CANDIDATE_EXPANSION")
       ELSE IF \/ Said(answers, "UNCERTAIN") # {} \/ ~crossComplete
               \/ Classified(answers) # Said(answers, "YES")
       THEN Undecided("INSUFFICIENT_EVIDENCE")
       ELSE IF MayPivot(answers, scenario, reason)
       THEN [status |-> "DECIDED", decision |-> "PIVOT", scenario |-> scenario]
       ELSE [status |-> "DECIDED", scenario |-> {},
             decision |-> IF StopReasons(answers) # {} THEN "STOP" ELSE "PROCEED_TO_CONFIRMATION"]

\* adjudicate-s0: the answers may name a scenario and a reason for it.
Adjudicate == /\ reviewer # "nobody" /\ outcome.status = "UNREAD"
              /\ \E scenario \in SUBSET Queued, reason \in BOOLEAN :
                   outcome' = Verdict(given, reviewer, scenario, reason)
              /\ UNCHANGED <<cards, overflow, crossComplete, queue, given, reviewer>>

-----------------------------------------------------------------------------
DecisionInit == /\ cards = [c \in {} |-> c] /\ given = [c \in {} |-> c]
                /\ queue = [s \in Strata |-> {}]
                /\ overflow = 0 /\ crossComplete = FALSE /\ reviewer = "nobody"
                /\ outcome = Undecided("UNREAD")

DecisionNext == PrepareReview \/ Answer \/ Adjudicate

DecisionSpec == DecisionInit /\ [][DecisionNext]_vars

-----------------------------------------------------------------------------
\* The queue holds different cards in its strata, each as the stratum says.
DecisionTypeOK ==
  /\ DOMAIN cards \subseteq Cases /\ DOMAIN given \subseteq Queued
  /\ \A s, t \in Strata : s # t => queue[s] \cap queue[t] = {}
  /\ outcome.decision \in {"none", "STOP", "PIVOT", "PROCEED_TO_CONFIRMATION"}

\* A decision rests on people who left nothing open: every case answered, none
\* uncertain, no failure among the probes, every failure of a known type.
DecisionsRestOnPeople ==
  outcome.decision # "none" =>
    /\ reviewer = "HUMAN_CONFIRMED" /\ crossComplete
    /\ \A c \in Queued : given[c] \in {"YES", "NO"}
    /\ \A c \in Said(given, "YES") : cards[c].class /\ c \in queue["high_signal"]

\* A pivot is about all the failures people confirmed, never a chosen part.
PivotsCoverEveryFailure ==
  outcome.decision = "PIVOT" => /\ outcome.scenario = Said(given, "YES")
                                /\ Cardinality(Said(given, "YES")) < EnoughFailures

\* One more confirmed failure never turns "proceed" into a stop or a pivot.
MoreFailuresNeverStop ==
  outcome.decision = "PROCEED_TO_CONFIRMATION" =>
    \A c \in queue["high_signal"], scenario \in SUBSET Queued, reason \in BOOLEAN :
      cards[c].class => Verdict([given EXCEPT ![c] = "YES"], reviewer, scenario, reason).decision
                          = "PROCEED_TO_CONFIRMATION"

\* The queue draws on the Goal roots in turn: none gives two cards more than
\* one that still has a card of the stratum to give.
RootsShareQueue ==
  \A s \in Strata : \A c \in queue[s], d \in Pool(s) \ Queued :
    Cardinality({x \in queue[s] : Root(x) = Root(c)})
      <= Cardinality({x \in queue[s] : Root(x) = Root(d)}) + 1
=============================================================================
