------------------------------ MODULE PlanProofs ------------------------------
(***************************************************************************)
(* For any tasks, plans and inputs of the graph they are scheduled on: the *)
(* parent of a plan is done exactly as long as its children are, and its   *)
(* children are started in turn, once, and none is forgotten.              *)
(***************************************************************************)
EXTENDS PlanSchedule, GraphRunProofs

Undisturbed == "conflict" \notin given.graph.event /\ ~ParentIsMoved

\* The parent is done exactly when its children are and nothing else holds it,
\* and only by the plan.
Follows(w, F, auto) ==
    /\ w.status[Parent] = "done" => auto
    /\ w.status[Parent] = "done" <=> AllDone(w, F) /\ UnresolvedBlockers(w, Parent) = {}

\* The plan is one there may be.
OfInput ==
    /\ given \in PlanInputs /\ stage = given.stage /\ mode \in given.mode
    /\ family \subseteq Task \ {Parent} /\ auto_completed \in BOOLEAN

PlanInv ==
    /\ OfInput
    /\ Sound(world) /\ world.conductor = NoAgent
    /\ Undisturbed => Follows(world, family, auto_completed)

\* The runs of t that the executor of the declared graph has not started.
Asked(w, t) == {i \in DOMAIN w.runs[t] : w.runs[t][i].trigger # "graph"}

\* From w to v nothing but that executor starts a child.
Quiet(w, v) ==
    \A t \in Children : /\ Asked(v, t) \subseteq Asked(w, t)
                        /\ v.runs[t] = <<>> => w.runs[t] = <<>>

\* The same tasks are over.
SameEnds(w, v) ==
    /\ v.deleted = w.deleted /\ v.issue_blockers = w.issue_blockers
    /\ \A t \in Task : /\ v.status[t] = "done" <=> w.status[t] = "done"
                       /\ v.status[t] = "cancelled" <=> w.status[t] = "cancelled"

-----------------------------------------------------------------------------
(* What is kept.                                                            *)

LEMMA PlansAreTyped ==
    ASSUME OfInput
    PROVE  /\ Parent \in Task \ Children /\ Children \subseteq Task
           /\ \A t \in Children : stage[t] \in Nat
           /\ given.graph \in InputSets /\ IsPlanInput(given) /\ mode \in Mode
BY PlanInputsAssumption DEF OfInput, IsPlanInput, Children

LEMMA QuietTransitive ==
    ASSUME NEW u, NEW v, NEW w, Quiet(u, v), Quiet(v, w)
    PROVE  Quiet(u, w)
BY DEF Quiet

LEMMA SameRunsAreQuiet ==
    ASSUME NEW w, NEW v, v.runs = w.runs
    PROVE  Quiet(w, v)
BY DEF Quiet, Asked

LEMMA SameEndsTransitive ==
    ASSUME NEW u, NEW v, NEW w, SameEnds(u, v), SameEnds(v, w)
    PROVE  SameEnds(u, w)
BY DEF SameEnds

LEMMA OnlyRunsKeepsEnds ==
    ASSUME NEW w, NEW v, OnlyRuns(w, v)
    PROVE  SameEnds(w, v)
BY DEF SameEnds, OnlyRuns

LEMMA SameEndsFollow ==
    ASSUME NEW w, NEW v, SameEnds(w, v), NEW F \in SUBSET Task, NEW auto,
           Parent \in Task, Follows(w, F, auto)
    PROVE  Follows(v, F, auto)
<1>1. AllDone(v, F) <=> AllDone(w, F)
  BY DEF AllDone, SameEnds
<1>2. UnresolvedBlockers(v, Parent) = UnresolvedBlockers(w, Parent)
  BY DEF UnresolvedBlockers, IssueBlockerIds, IssueBlockerSatisfied, SameEnds
<1> QED
  BY <1>1, <1>2 DEF Follows, SameEnds

LEMMA HeldStatus ==
    ASSUME NEW w \in World, NEW T, NEW reason
    PROVE  /\ Held(w, T, reason).deleted = w.deleted
           /\ Held(w, T, reason).issue_blockers = w.issue_blockers
           /\ \A t \in Task : Held(w, T, reason).status[t] =
                IF t \in T THEN "blocked" ELSE w.status[t]
BY DEF Held, World

LEMMA UnheldStatus ==
    ASSUME NEW w \in World, NEW T
    PROVE  /\ Unheld(w, T).deleted = w.deleted
           /\ Unheld(w, T).issue_blockers = w.issue_blockers
           /\ \A t \in Task : Unheld(w, T).status[t] =
                IF t \in T /\ w.status[t] = "blocked" THEN "open" ELSE w.status[t]
BY DEF Unheld, World

LEMMA SyncKeepsEnds ==
    ASSUME NEW w \in World, NEW T
    PROVE  SameEnds(w, SyncIssueBlockerHold(w, T))
<1> DEFINE C == {t \in {x \in T : UnresolvedBlockers(w, x) = {}} : w.blocked_reason[t] = "issue"}
           W == {t \in {x \in T \ {x \in T : UnresolvedBlockers(w, x) = {}} : ~Settled(w, x)} :
                    w.blocked_reason[t] \in {"none", "issue"}}
           v == Held(Unheld(w, C), W, "issue")
<1>1. SyncIssueBlockerHold(w, T) = v /\ \A t \in W : ~Settled(w, t)
  BY DEF SyncIssueBlockerHold
<1> HIDE DEF C, W
<1>2. /\ Unheld(w, C) \in World
      /\ \A t \in Task : Unheld(w, C).status[t] = IF t \in C /\ w.status[t] = "blocked"
                                                   THEN "open" ELSE w.status[t]
      /\ Unheld(w, C).deleted = w.deleted /\ Unheld(w, C).issue_blockers = w.issue_blockers
  <2>1. Unheld(w, C) \in World
    BY ReleasingIsAGate DEF OnlyGates
  <2> QED
    BY <2>1, UnheldStatus
<1>3. \A t \in Task : v.status[t] = IF t \in W THEN "blocked" ELSE Unheld(w, C).status[t]
  BY <1>2, HeldStatus
<1>4. v.deleted = w.deleted /\ v.issue_blockers = w.issue_blockers
  BY <1>2, HeldStatus
<1> HIDE DEF v
<1>5. \A t \in Task : /\ v.status[t] = "done" <=> w.status[t] = "done"
                      /\ v.status[t] = "cancelled" <=> w.status[t] = "cancelled"
  BY <1>1, <1>2, <1>3 DEF Settled
<1> QED
  BY <1>1, <1>4, <1>5 DEF SameEnds, v

LEMMA ReleasesAreTasks ==
    ASSUME NEW w, NEW b
    PROVE  WouldRelease(w, b) \in SUBSET Task
BY DEF WouldRelease, IssueBlockingIds

-----------------------------------------------------------------------------
(* Passes.                                                                  *)

\* A pass starts runs of some of the tasks it is for, and leaves out none whose
\* agent has a slot free.
Fills(w, v, T, trigger) ==
    /\ Extended(w, v)
    /\ \A t \in Task : \A i \in (DOMAIN v.runs[t]) \ DOMAIN w.runs[t] :
        t \in T /\ v.runs[t][i].trigger = trigger
    /\ \A t \in T : w.assignee[t] # NoAgent /\ v.runs[t] = w.runs[t] =>
        FreeSlots(v, w.assignee[t]) = 0

LEMMA PassesFill ==
    ASSUME NEW w \in World, NEW T \in SUBSET Task, NEW trigger \in Trigger,
           NEW C, NEW v \in StartAssignees(w, T, trigger, C)
    PROVE  Fills(w, v, T, trigger)
<1>1. PICK D \in SUBSET Assigned(w, T) :
        LET run == AssigneeRuns(w, trigger, C, D) IN
        /\ FillsSlots(w, Assigned(w, T), D) /\ v = Started(w, run)
        /\ DOMAIN run = D
        /\ \A t \in D : /\ run[t] \in Run /\ run[t].status = "running"
                        /\ run[t].agent = w.assignee[t]
  BY PassesStart
<1> DEFINE run == AssigneeRuns(w, trigger, C, D)
<1>2. \A t \in D : run[t].trigger = trigger
  BY DEF AssigneeRuns, NewRun
<1> HIDE DEF run
<1>3. D \subseteq Task /\ DOMAIN run \subseteq Task
  BY <1>1 DEF Assigned, run
<1>4. /\ \A t \in Task \ D : v.runs[t] = w.runs[t]
      /\ \A t \in D : v.runs[t] = Append(w.runs[t], run[t])
  BY <1>1, <1>3, StartedRuns DEF run
<1>5. Extended(w, v)
  BY PassesExtend
<1>6. ASSUME NEW t \in D
      PROVE  /\ v.runs[t] # w.runs[t]
             /\ \A i \in (DOMAIN v.runs[t]) \ DOMAIN w.runs[t] : v.runs[t][i] = run[t]
  <2>1. w.runs[t] \in Seq(Run) /\ run[t] \in Run
    BY <1>1, <1>3, RunsOf DEF run
  <2>2. /\ DOMAIN v.runs[t] = 1..(Len(w.runs[t]) + 1)
        /\ DOMAIN w.runs[t] = 1..Len(w.runs[t]) /\ Len(w.runs[t]) \in Nat
        /\ v.runs[t][Len(w.runs[t]) + 1] = run[t]
    BY <1>4, <2>1, Appended
  <2> QED
    BY <2>2
<1>7. \A t \in Task : \A i \in (DOMAIN v.runs[t]) \ DOMAIN w.runs[t] :
        t \in T /\ v.runs[t][i].trigger = trigger
  BY <1>2, <1>4, <1>6 DEF Assigned
<1>8. ASSUME NEW t \in T, w.assignee[t] # NoAgent, v.runs[t] = w.runs[t]
      PROVE  FreeSlots(v, w.assignee[t]) = 0
  <2> DEFINE a == w.assignee[t]
             mine == {x \in D : w.assignee[x] = a}
  <2>1. t \in Assigned(w, T) \ D /\ a \in Agent
    BY <1>6, <1>8 DEF Assigned, World
  <2>2. Cardinality(mine) = FreeSlots(w, a)
    BY <1>1, <2>1 DEF FillsSlots
  <2>3. mine = {x \in DOMAIN run : run[x].agent = a}
    BY <1>1 DEF run
  <2> HIDE DEF a, mine
  <2>4. FreeSlots(Started(w, run), a) = 0
    BY <1>1, <1>3, <2>1, <2>2, <2>3, StartsUseUpSlots DEF run
  <2> QED
    BY <1>1, <2>4 DEF run, a
<1> QED
  BY <1>5, <1>7, <1>8 DEF Fills

LEMMA ExtensionsKeepIt ==
    ASSUME NEW w, Sound(w), NEW v, Extended(w, v)
    PROVE  Sound(v) /\ v.conductor = w.conductor /\ SameEnds(w, v)
BY RunsDoNotMatter, OnlyRunsKeepsEnds DEF Extended, OnlyRuns

LEMMA NoRuns ==
    ASSUME NEW s \in Seq(Run), DOMAIN s \subseteq DOMAIN <<>>
    PROVE  s = <<>>
<1> DEFINE n == Len(s)
<1>1. n \in Nat /\ DOMAIN s = 1..n /\ 1..n = {}
  OBVIOUS
<1> HIDE DEF n
<1>2. n = 0
  BY <1>1
<1> QED
  BY <1>2 DEF n

\* More runs, the new ones of children all by the executor of the graph.
LEMMA GraphStartsAreQuiet ==
    ASSUME NEW w \in World, NEW v, Extended(w, v), Children \subseteq Task,
           \A t \in Children : \A i \in (DOMAIN v.runs[t]) \ DOMAIN w.runs[t] :
                v.runs[t][i].trigger = "graph"
    PROVE  Quiet(w, v)
<1> SUFFICES ASSUME NEW t \in Children
             PROVE  /\ Asked(v, t) \subseteq Asked(w, t)
                    /\ v.runs[t] = <<>> => w.runs[t] = <<>>
  BY DEF Quiet
<1>1. /\ DOMAIN w.runs[t] \subseteq DOMAIN v.runs[t]
      /\ \A i \in DOMAIN w.runs[t] : v.runs[t][i] = w.runs[t][i]
      /\ w.runs[t] \in Seq(Run)
  BY RunsOf DEF Extended
<1>2. Asked(v, t) \subseteq Asked(w, t)
  BY <1>1 DEF Asked
<1>3. v.runs[t] = <<>> => w.runs[t] = <<>>
  BY <1>1, NoRuns
<1> QED
  BY <1>2, <1>3

LEMMA ReconcileIsQuiet ==
    ASSUME OfInput, NEW w, Sound(w), w.conductor = NoAgent, NEW v \in Reconcile(w)
    PROVE  Extended(w, v) /\ Quiet(w, v)
<1>1. w \in World /\ "graph" \in Trigger
  BY DEF Sound, Trigger
<1> DEFINE T == {t \in Task : ExecutorReady(w, t)}
<1>2. v \in StartAssignees(w, T, "graph", Task)
  BY DEF Reconcile, DispatchExecutors
<1>3. T \in SUBSET Task
  OBVIOUS
<1> HIDE DEF T
<1>4. Fills(w, v, T, "graph")
  BY <1>1, <1>2, <1>3, PassesFill
<1> QED
  BY <1>1, <1>4, PlansAreTyped, GraphStartsAreQuiet DEF Fills

LEMMA ReleaseIsQuiet ==
    ASSUME OfInput, NEW w, Sound(w), NEW R \in SUBSET Task, NEW v \in ReleaseOthers(w, R)
    PROVE  Extended(w, v) /\ Quiet(w, v)
<1>1. w \in World /\ "issue" \in Trigger
  BY DEF Sound, Trigger
<1>2. CASE v = w
  <2>1. Extended(w, v)
    BY <1>1, <1>2, OnlyRunsReflexive DEF Extended
  <2> QED
    BY <1>2, <2>1, SameRunsAreQuiet
<1>3. CASE v \in DispatchReleased(w, R \ Children)
  <2>1. PICK T \in SUBSET (R \ Children) : v \in StartAssignees(w, T, "issue", {})
    BY <1>3 DEF DispatchReleased
  <2>2. T \in SUBSET Task
    OBVIOUS
  <2>3. Fills(w, v, T, "issue")
    BY <1>1, <2>1, <2>2, PassesFill
  <2> QED
    BY <1>1, <2>3, PlansAreTyped, GraphStartsAreQuiet DEF Fills
<1> QED
  BY <1>2, <1>3 DEF ReleaseOthers

-----------------------------------------------------------------------------
(* Stages.                                                                  *)

\* The world in which a pass over the plan starts its runs.
Opened(w, F) ==
    [Parked(w, F) EXCEPT
        !.status = [t \in Task |-> IF t \in Eligible(w, F) THEN "open" ELSE @[t]],
        !.blocked_reason =
            [t \in Task |-> IF t \in Eligible(w, F) /\ w.status[t] = "backlog"
                            THEN "none" ELSE @[t]]]

Gates(w, S, R) == [w EXCEPT !.status = S, !.blocked_reason = R]

LEMMA GatesReplaced ==
    ASSUME NEW w \in World, NEW S \in [Task -> Status], NEW R \in [Task -> Reason],
           Coherent(w) => \A t \in Task \ w.moved : S[t] = "blocked" <=> R[t] # "none"
    PROVE  /\ OnlyGates(w, Gates(w, S, R))
           /\ Gates(w, S, R).status = S /\ Gates(w, S, R).blocked_reason = R
<1> DEFINE v == Gates(w, S, R)
<1>1. /\ v \in World /\ v.status = S /\ v.blocked_reason = R
      /\ v.deleted = w.deleted /\ v.conductor = w.conductor
      /\ v.issue_blockers = w.issue_blockers /\ v.dependencies = w.dependencies
      /\ v.node_artifacts = w.node_artifacts
      /\ v.materialization = w.materialization /\ v.successes = w.successes
      /\ v.runs = w.runs /\ v.attempts = w.attempts /\ v.limit = w.limit
      /\ v.moved = w.moved
  BY DEF Gates, World
<1> HIDE DEF v
<1>2. Coherent(w) => Coherent(v)
  BY <1>1 DEF Coherent
<1> QED
  BY <1>1, <1>2 DEF OnlyGates, v

LEMMA ParkingIsAGate ==
    ASSUME NEW w \in World, NEW F
    PROVE  /\ OnlyGates(w, Parked(w, F)) /\ SameEnds(w, Parked(w, F))
           /\ \A t \in Task : InCurrentStage(w, F, t) =>
                /\ Parked(w, F).status[t] = w.status[t]
                /\ Parked(w, F).blocked_reason[t] = w.blocked_reason[t]
<1> DEFINE later == {t \in Planned(w, F) :
                        /\ ~InCurrentStage(w, F, t)
                        /\ \/ w.status[t] = "open"
                           \/ w.status[t] = "blocked" /\ w.blocked_reason[t] = "issue"}
           S == [t \in Task |-> IF t \in later THEN "backlog" ELSE w.status[t]]
           R == [t \in Task |-> IF t \in later THEN "none" ELSE w.blocked_reason[t]]
<1>1. S \in [Task -> Status] /\ R \in [Task -> Reason]
  BY DEF World, Status, Reason
<1>2. Coherent(w) => \A t \in Task \ w.moved : S[t] = "blocked" <=> R[t] # "none"
  BY DEF Coherent
<1>3. Parked(w, F) = Gates(w, S, R)
  BY DEF Parked, Gates
<1>4. /\ \A t \in Task : InCurrentStage(w, F, t) => S[t] = w.status[t] /\ R[t] = w.blocked_reason[t]
      /\ \A t \in Task : /\ S[t] = "done" <=> w.status[t] = "done"
                         /\ S[t] = "cancelled" <=> w.status[t] = "cancelled"
  OBVIOUS
<1> HIDE DEF S, R
<1>5. /\ OnlyGates(w, Parked(w, F))
      /\ Parked(w, F).status = S /\ Parked(w, F).blocked_reason = R
  BY <1>1, <1>2, <1>3, GatesReplaced
<1>6. SameEnds(w, Parked(w, F))
  BY <1>4, <1>5 DEF SameEnds, OnlyGates
<1> QED
  BY <1>4, <1>5, <1>6

LEMMA OpeningIsAGate ==
    ASSUME NEW w \in World, NEW F, Children \subseteq Task
    PROVE  /\ OnlyGates(w, Opened(w, F)) /\ SameEnds(w, Opened(w, F))
           /\ \A t \in Task : IF t \in Eligible(w, F) THEN Opened(w, F).status[t] = "open"
                              ELSE Opened(w, F).status[t] = Parked(w, F).status[t]
<1> DEFINE p == Parked(w, F)
           S == [t \in Task |-> IF t \in Eligible(w, F) THEN "open" ELSE p.status[t]]
           R == [t \in Task |-> IF t \in Eligible(w, F) /\ w.status[t] = "backlog"
                                THEN "none" ELSE p.blocked_reason[t]]
<1>1. /\ OnlyGates(w, p) /\ SameEnds(w, p) /\ p \in World
      /\ \A t \in Eligible(w, F) : /\ p.status[t] = w.status[t]
                                   /\ p.blocked_reason[t] = w.blocked_reason[t]
                                   /\ w.status[t] \in {"backlog", "open"}
  <2>1. \A t \in Eligible(w, F) : /\ InCurrentStage(w, F, t)
                                  /\ w.status[t] \in {"backlog", "open"}
    BY DEF Eligible
  <2>2. OnlyGates(w, p) /\ SameEnds(w, p)
    BY ParkingIsAGate
  <2>3. p \in World
    BY <2>2 DEF OnlyGates
  <2>4. ASSUME NEW t \in Eligible(w, F)
        PROVE  p.status[t] = w.status[t] /\ p.blocked_reason[t] = w.blocked_reason[t]
    <3>1. CASE t \in Task
      BY <2>1, <3>1, ParkingIsAGate
    <3>2. CASE t \notin Task
      BY <3>2 DEF Eligible, OpenChildren, Planned
    <3> QED
      BY <3>1, <3>2
  <2> QED
    BY <2>1, <2>2, <2>3, <2>4
<1>2. Opened(w, F) = Gates(p, S, R)
  BY DEF Opened, Gates
<1> HIDE DEF p
<1>3. S \in [Task -> Status] /\ R \in [Task -> Reason]
  BY <1>1 DEF World, Status, Reason
<1>4. Coherent(p) => \A t \in Task \ p.moved : S[t] = "blocked" <=> R[t] # "none"
  BY <1>1 DEF Coherent
<1>5. \A t \in Task : /\ S[t] = "done" <=> w.status[t] = "done"
                      /\ S[t] = "cancelled" <=> w.status[t] = "cancelled"
                      /\ IF t \in Eligible(w, F) THEN S[t] = "open" ELSE S[t] = p.status[t]
  BY <1>1 DEF SameEnds
<1> HIDE DEF S, R
<1>6. OnlyGates(p, Opened(w, F)) /\ Opened(w, F).status = S
  BY <1>1, <1>2, <1>3, <1>4, GatesReplaced
<1>7. OnlyGates(w, Opened(w, F))
  BY <1>1, <1>6, OnlyGatesTransitive
<1>8. SameEnds(w, Opened(w, F))
  BY <1>5, <1>6, <1>7 DEF SameEnds, OnlyGates
<1> QED
  BY <1>5, <1>6, <1>7, <1>8 DEF p

\* What a pass over the plan may do to the world w.
Turns(w, v, F) ==
    /\ Sound(v) /\ v.conductor = w.conductor /\ SameEnds(w, v)
    /\ \A t \in Children :
        /\ \A i \in DOMAIN w.runs[t] : v.runs[t][i] = w.runs[t][i]
        /\ \A i \in (DOMAIN v.runs[t]) \ DOMAIN w.runs[t] :
            mode = "confirm_and_start" /\ t \in Eligible(w, F)
    /\ mode = "confirm_and_start" => Forgotten(v, F) = {}

LEMMA EndsDecide ==
    ASSUME NEW w, NEW v, SameEnds(w, v), Children \subseteq Task, NEW F
    PROVE  /\ Planned(v, F) = Planned(w, F) /\ OpenChildren(v, F) = OpenChildren(w, F)
           /\ \A t : InCurrentStage(v, F, t) <=> InCurrentStage(w, F, t)
           /\ \A t : BlockersDone(v, t) <=> BlockersDone(w, t)
           /\ \A t : IssueBlockerIds(v, t) = IssueBlockerIds(w, t)
<1>1. Planned(v, F) = Planned(w, F)
  BY DEF Planned, SameEnds
<1>2. OpenChildren(v, F) = OpenChildren(w, F)
  BY <1>1 DEF OpenChildren, SameEnds, Planned
<1>3. \A t : InCurrentStage(v, F, t) <=> InCurrentStage(w, F, t)
  BY <1>2 DEF InCurrentStage
<1>4. \A t : IssueBlockerIds(v, t) = IssueBlockerIds(w, t)
  BY DEF IssueBlockerIds, SameEnds
<1>5. \A t : BlockersDone(v, t) <=> BlockersDone(w, t)
  BY <1>4 DEF BlockersDone, SameEnds, IssueBlockerIds
<1> QED
  BY <1>1, <1>2, <1>3, <1>4, <1>5

LEMMA NoneIsForgotten ==
    ASSUME NEW w \in World, NEW F, Children \subseteq Task, NEW v,
           Fills(Opened(w, F), v,
                 {t \in Eligible(w, F) : MayStart(Opened(w, F), t, FALSE)}, "issue")
    PROVE  Forgotten(v, F) = {}
<1> DEFINE o == Opened(w, F)
           T == {t \in Eligible(w, F) : MayStart(o, t, FALSE)}
<1> SUFFICES ASSUME NEW t \in Forgotten(v, F) PROVE FALSE
  OBVIOUS
<1>1. /\ OnlyGates(w, o) /\ SameEnds(w, o)
      /\ \A x \in Task : IF x \in Eligible(w, F) THEN o.status[x] = "open"
                         ELSE o.status[x] = Parked(w, F).status[x]
  BY OpeningIsAGate
<1>2. /\ Extended(o, v) /\ OnlyRuns(o, v)
      /\ \A x \in T : o.assignee[x] # NoAgent /\ v.runs[x] = o.runs[x] =>
            FreeSlots(v, o.assignee[x]) = 0
  BY DEF Fills, Extended
<1> HIDE DEF o
<1>3. SameEnds(w, v)
  BY <1>1, <1>2, OnlyRunsKeepsEnds, SameEndsTransitive
<1>4. /\ t \in Task /\ t \in Eligible(v, F)
      /\ v.assignee[t] # NoAgent /\ ~HasStaleDependency(v, t)
      /\ FreeSlots(v, v.assignee[t]) > 0
  BY DEF Forgotten, Eligible, OpenChildren, Planned
<1>5. /\ t \in OpenChildren(w, F) /\ InCurrentStage(w, F, t) /\ BlockersDone(w, t)
      /\ v.status[t] \in {"backlog", "open"} /\ v.runs[t] = <<>>
  BY <1>3, <1>4, EndsDecide DEF Eligible
<1>6. w.runs[t] = <<>> /\ v.runs[t] = o.runs[t]
  <2>1. o.runs[t] = w.runs[t] /\ w.runs[t] \in Seq(Run)
    BY <1>1, <1>4, RunsOf DEF OnlyGates
  <2>2. DOMAIN o.runs[t] \subseteq DOMAIN v.runs[t]
    BY <1>2, <1>4 DEF Extended
  <2>3. w.runs[t] = <<>>
    BY <1>5, <2>1, <2>2, NoRuns
  <2> QED
    BY <1>5, <2>1, <2>3
<1>7. w.status[t] \in {"backlog", "open"}
  <2>1. CASE t \in Eligible(w, F)
    BY <2>1 DEF Eligible
  <2>2. CASE t \notin Eligible(w, F)
    <3>1. v.status[t] = Parked(w, F).status[t]
      BY <1>1, <1>2, <1>4, <2>2 DEF OnlyRuns
    <3> QED
      BY <1>4, <1>5, <3>1, ParkingIsAGate
  <2> QED
    BY <2>1, <2>2
<1>8. t \in Eligible(w, F)
  BY <1>5, <1>6, <1>7 DEF Eligible
<1>9. MayStart(o, t, FALSE)
  <2>1. o.status[t] = "open"
    BY <1>1, <1>4, <1>8
  <2>2. UnresolvedBlockers(o, t) = {}
    <3>1. SameEnds(w, o)
      BY <1>1
    <3>2. BlockersDone(o, t)
      BY <1>5, <3>1, EndsDecide
    <3>3. \A b \in IssueBlockerIds(o, t) : IssueBlockerSatisfied(o, b)
      BY <3>2 DEF BlockersDone, IssueBlockerSatisfied
    <3> QED
      BY <3>3 DEF UnresolvedBlockers
  <2>3. ~HasStaleDependency(o, t)
    BY <1>2, <1>4 DEF HasStaleDependency, OnlyRuns, EdgesInto, Live, Consumes
  <2> QED
    BY <2>1, <2>2, <2>3 DEF MayStart
<1>10. v.assignee[t] = o.assignee[t] /\ t \in T
  BY <1>2, <1>8, <1>9 DEF Extended
<1>11. FreeSlots(v, v.assignee[t]) = 0
  BY <1>2, <1>4, <1>6, <1>10
<1> QED
  BY <1>4, <1>11

LEMMA SchedulingTurns ==
    ASSUME OfInput, NEW w, Sound(w), NEW F, NEW v \in Scheduled(w, F)
    PROVE  Turns(w, v, F)
<1>1. w \in World /\ Children \subseteq Task /\ mode \in Mode
  BY PlansAreTyped DEF Sound
<1>2. CASE mode # "confirm_and_start"
  <2>1. v = w
    BY <1>2 DEF Scheduled
  <2>2. SameEnds(w, v)
    BY <2>1 DEF SameEnds
  <2> QED
    BY <1>2, <2>1, <2>2 DEF Turns
<1>3. CASE mode = "confirm_and_start"
  <2> DEFINE o == Opened(w, F)
             T == {t \in Eligible(w, F) : MayStart(o, t, FALSE)}
  <2>1. v \in StartAssignees(o, T, "issue", {})
    BY <1>3 DEF Scheduled, Opened
  <2>2. T \in SUBSET Task
    BY <1>1 DEF Eligible, OpenChildren, Planned
  <2>3. OnlyGates(w, o) /\ SameEnds(w, o)
    BY <1>1, OpeningIsAGate
  <2>4. o \in World /\ o.runs = w.runs /\ o.conductor = w.conductor
    BY <2>3 DEF OnlyGates
  <2>5. \A t \in T : t \in Eligible(w, F)
    OBVIOUS
  <2>6. Fills(o, v, T, "issue")
    <3> HIDE DEF o, T
    <3>1. "issue" \in Trigger
      BY DEF Trigger
    <3> QED
      BY <2>1, <2>2, <2>4, <3>1, PassesFill
  <2>7. Forgotten(v, F) = {}
    BY <1>1, <2>6, NoneIsForgotten
  <2> HIDE DEF o, T
  <2>8. Sound(o)
    BY <2>3, GatesDoNotMatter
  <2>9. Extended(o, v) /\ Sound(v) /\ v.conductor = w.conductor /\ SameEnds(w, v)
    BY <2>3, <2>4, <2>6, <2>8, ExtensionsKeepIt, SameEndsTransitive DEF Fills
  <2>10. \A t \in Children :
            /\ \A i \in DOMAIN w.runs[t] : v.runs[t][i] = w.runs[t][i]
            /\ \A i \in (DOMAIN v.runs[t]) \ DOMAIN w.runs[t] : t \in Eligible(w, F)
    BY <1>1, <2>4, <2>5, <2>6, <2>9 DEF Extended, Fills
  <2> QED
    BY <1>3, <2>7, <2>9, <2>10 DEF Turns
<1> QED
  BY <1>2, <1>3

\* More runs only fill slots, so that they make nobody forgotten.
LEMMA ExtensionsForgetNone ==
    ASSUME NEW w \in World, NEW v, Extended(w, v), Children \subseteq Task, NEW F
    PROVE  Forgotten(v, F) \subseteq Forgotten(w, F)
<1> SUFFICES ASSUME NEW t \in Forgotten(v, F) PROVE t \in Forgotten(w, F)
  OBVIOUS
<1>1. /\ t \in Task /\ t \in Eligible(v, F)
      /\ v.assignee[t] # NoAgent /\ ~HasStaleDependency(v, t)
      /\ FreeSlots(v, v.assignee[t]) > 0
  BY DEF Forgotten, Eligible, OpenChildren, Planned
<1>2. OnlyRuns(w, v) /\ v.assignee = w.assignee /\ SameEnds(w, v)
  BY OnlyRunsKeepsEnds DEF Extended
<1>3. w.runs[t] = <<>>
  <2>1. w.runs[t] \in Seq(Run) /\ DOMAIN w.runs[t] \subseteq DOMAIN v.runs[t]
    BY <1>1, RunsOf DEF Extended
  <2> QED
    BY <1>1, <2>1, NoRuns DEF Eligible
<1>4. t \in Eligible(w, F)
  BY <1>1, <1>2, <1>3, EndsDecide DEF Eligible, OnlyRuns
<1>5. ~HasStaleDependency(w, t)
  BY <1>1, <1>2 DEF HasStaleDependency, OnlyRuns, EdgesInto, Live, Consumes
<1>6. v.assignee[t] \in Agent
  BY <1>1, <1>2 DEF World, OnlyRuns
<1>7. FreeSlots(w, v.assignee[t]) > 0
  BY <1>1, <1>6, SlotsOnlyFill
<1> QED
  BY <1>1, <1>2, <1>4, <1>5, <1>7 DEF Forgotten

-----------------------------------------------------------------------------
(* The parent.                                                              *)

\* From w to v only statuses and what is recorded of tasks change.
Besides(w, v) ==
    /\ v.runs = w.runs /\ v.conductor = w.conductor
    /\ v.deleted = w.deleted /\ v.issue_blockers = w.issue_blockers

LEMMA StatusSet ==
    ASSUME NEW w \in World, NEW t \in Task, NEW s \in Status
    PROVE  /\ Besides(w, WithStatus(w, t, s))
           /\ WithStatus(w, t, s).status[t] = s
           /\ \A x \in Task \ {t} : WithStatus(w, t, s).status[x] = w.status[x]
BY DEF World, WithStatus, Besides

LEMMA SuccessRecorded ==
    ASSUME NEW w \in World, NEW t \in Task
    PROVE  Besides(w, MarkSucceeded(w, t)) /\ MarkSucceeded(w, t).status = w.status
BY DEF World, MarkSucceeded, Besides

LEMMA Synced ==
    ASSUME NEW w \in World, NEW T
    PROVE  Besides(w, SyncIssueBlockerHold(w, T)) /\ SameEnds(w, SyncIssueBlockerHold(w, T))
BY SyncIsAGate, SyncKeepsEnds DEF OnlyGates, Besides

\* The status a person or the plan gives a task, and what follows from it.
Marked(w, t, s) ==
    IF s = "done" THEN MarkSucceeded(WithStatus(w, t, s), t) ELSE WithStatus(w, t, s)

LEMMA MarkedIsSound ==
    ASSUME NEW w, Sound(w), NEW t \in Task, NEW s \in Status, NEW T
    PROVE  LET v == SyncIssueBlockerHold(Marked(w, t, s), T) IN
           /\ Sound(v) /\ Besides(w, v)
           /\ v.status[t] = "done" <=> s = "done"
           /\ \A x \in Task \ {t} : v.status[x] = "done" <=> w.status[x] = "done"
           /\ \A x \in Task \ {t} : v.status[x] = "cancelled" <=> w.status[x] = "cancelled"
<1> DEFINE x == WithStatus(w, t, s)
           y == Marked(w, t, s)
           v == SyncIssueBlockerHold(y, T)
<1>1. Sound(x) /\ x \in World /\ w \in World
  BY WithStatusIsSound DEF Sound
<1>2. /\ Besides(w, x) /\ x.status[t] = s
      /\ \A u \in Task \ {t} : x.status[u] = w.status[u]
  BY <1>1, StatusSet
<1>3. y = x \/ y = MarkSucceeded(x, t)
  BY DEF Marked
<1> HIDE DEF x, y
<1>4. Sound(y) /\ y \in World /\ Besides(x, y) /\ y.status = x.status
  BY <1>1, <1>3, MarkSucceededIsSound, SuccessRecorded DEF Sound, Besides
<1>5. Sound(v) /\ Besides(y, v) /\ SameEnds(y, v)
  BY <1>4, SyncIsSound, Synced
<1> HIDE DEF v
<1>6. /\ Besides(w, v)
      /\ v.status[t] = "done" <=> s = "done"
      /\ \A u \in Task \ {t} : v.status[u] = "done" <=> w.status[u] = "done"
      /\ \A u \in Task \ {t} : v.status[u] = "cancelled" <=> w.status[u] = "cancelled"
  BY <1>2, <1>4, <1>5 DEF Besides, SameEnds
<1> QED
  BY <1>5, <1>6 DEF v, y

\* What a command hands to the reconcilers.
Tidy(w) ==
    /\ Sound(w) /\ w.conductor = NoAgent /\ Quiet(world, w)
    /\ Undisturbed => (w.status[Parent] = "done" => auto_completed)

\* What rolling up leaves to the other one.
Rolled(w, up, F) ==
    /\ Sound(up.w) /\ Besides(w, up.w)
    /\ up.auto \in BOOLEAN /\ up.released \in SUBSET Task
    /\ (w.status[Parent] = "done" => auto_completed) => Follows(up.w, F, up.auto)

LEMMA CompletedParent ==
    ASSUME NEW w, Sound(w), Parent \in Task, NEW F \in SUBSET (Task \ {Parent}), NEW T,
           AllDone(w, F), UnresolvedBlockers(w, Parent) = {}
    PROVE  LET v == SyncIssueBlockerHold(Marked(w, Parent, "done"), T) IN
           Sound(v) /\ Besides(w, v) /\ Follows(v, F, TRUE)
<1> DEFINE v == SyncIssueBlockerHold(Marked(w, Parent, "done"), T)
<1>1. /\ Sound(v) /\ Besides(w, v) /\ v.status[Parent] = "done"
      /\ \A x \in Task \ {Parent} : v.status[x] = "done" <=> w.status[x] = "done"
      /\ \A x \in Task \ {Parent} : v.status[x] = "cancelled" <=> w.status[x] = "cancelled"
  <2>1. "done" \in Status
    BY DEF Status
  <2> QED
    BY <2>1, MarkedIsSound
<1> HIDE DEF v
<1>2. AllDone(v, F)
  BY <1>1 DEF AllDone, Besides
<1>3. UnresolvedBlockers(v, Parent) = {}
  BY <1>1 DEF UnresolvedBlockers, IssueBlockerIds, IssueBlockerSatisfied, Besides
<1> QED
  BY <1>1, <1>2, <1>3 DEF Follows, v

Reopened(w) == [w EXCEPT !.status[Parent] = "open"]

LEMMA ReopenedParent ==
    ASSUME NEW w, Sound(w), Parent \in Task, w.status[Parent] = "done",
           NEW F \in SUBSET (Task \ {Parent}),
           ~(AllDone(w, F) /\ UnresolvedBlockers(w, Parent) = {})
    PROVE  LET v == Reopened(w) IN Sound(v) /\ Besides(w, v) /\ Follows(v, F, FALSE)
<1> DEFINE S == [w.status EXCEPT ![Parent] = "open"]
           v == Reopened(w)
<1>1. w \in World /\ w.status \in [Task -> Status] /\ w.blocked_reason \in [Task -> Reason]
  BY DEF Sound, World
<1>2. v = Gates(w, S, w.blocked_reason)
  BY <1>1 DEF Reopened, Gates, World
<1>3. S \in [Task -> Status]
  BY <1>1 DEF Status
<1>4. Coherent(w) => \A x \in Task \ w.moved : S[x] = "blocked" <=> w.blocked_reason[x] # "none"
  BY <1>1 DEF Coherent
<1>5. S[Parent] = "open" /\ \A x \in Task \ {Parent} : S[x] = w.status[x]
  BY <1>1
<1> HIDE DEF v, S
<1>6. OnlyGates(w, v) /\ v.status = S
  BY <1>1, <1>2, <1>3, <1>4, GatesReplaced
<1>7. Sound(v) /\ Besides(w, v)
  BY <1>6, GatesDoNotMatter DEF OnlyGates, Besides
<1>8. AllDone(v, F) => AllDone(w, F)
  BY <1>5, <1>6, <1>7 DEF AllDone, Besides
<1>9. UnresolvedBlockers(v, Parent) = {} => UnresolvedBlockers(w, Parent) = {}
  BY <1>5, <1>6, <1>7 DEF UnresolvedBlockers, IssueBlockerIds, IssueBlockerSatisfied, Besides
<1> QED
  BY <1>5, <1>6, <1>7, <1>8, <1>9 DEF Follows, v

LEMMA RollingUpFollows ==
    ASSUME OfInput, NEW w, Sound(w), NEW F \in SUBSET (Task \ {Parent})
    PROVE  Rolled(w, RolledUp(w, F), F)
<1> DEFINE up == RolledUp(w, F)
           over == AllDone(w, F) /\ UnresolvedBlockers(w, Parent) = {}
<1>1. Parent \in Task /\ auto_completed \in BOOLEAN
  BY PlansAreTyped DEF OfInput
<1>2. Besides(w, w)
  BY DEF Besides
<1>3. CASE over /\ w.status[Parent] = "done"
  <2>1. up.w = w /\ up.auto = auto_completed /\ up.released = {}
    BY <1>3 DEF RolledUp
  <2>2. auto_completed => Follows(w, F, auto_completed)
    BY <1>3 DEF Follows
  <2> QED
    BY <1>1, <1>2, <1>3, <2>1, <2>2 DEF Rolled
<1>4. CASE over /\ w.status[Parent] # "done"
  <2> DEFINE T == IssueBlockingIds(Marked(w, Parent, "done"), Parent)
  <2>1. /\ up.w = SyncIssueBlockerHold(Marked(w, Parent, "done"), T)
        /\ up.auto = TRUE
        /\ up.released = WouldRelease(Marked(w, Parent, "done"), Parent)
    BY <1>4 DEF RolledUp, Marked
  <2> HIDE DEF T, up
  <2>2. Sound(up.w) /\ Besides(w, up.w) /\ Follows(up.w, F, TRUE)
    BY <1>1, <1>4, <2>1, CompletedParent
  <2>3. up.released \in SUBSET Task
    BY <2>1, ReleasesAreTasks
  <2>4. Rolled(w, up, F)
    BY <2>1, <2>2, <2>3 DEF Rolled
  <2> QED
    BY <2>4 DEF up
<1>5. CASE ~over /\ auto_completed /\ w.status[Parent] = "done"
  <2>1. up.w = Reopened(w) /\ up.auto = FALSE /\ up.released = {}
    BY <1>5 DEF RolledUp, Reopened
  <2> HIDE DEF up
  <2>2. Sound(up.w) /\ Besides(w, up.w) /\ Follows(up.w, F, FALSE)
    BY <1>1, <1>5, <2>1, ReopenedParent
  <2>3. Rolled(w, up, F)
    BY <2>1, <2>2 DEF Rolled
  <2> QED
    BY <2>3 DEF up
<1>6. CASE ~over /\ ~(auto_completed /\ w.status[Parent] = "done")
  <2>1. up.w = w /\ up.auto = FALSE /\ up.released = {}
    BY <1>6 DEF RolledUp
  <2>2. w.status[Parent] # "done" => Follows(w, F, FALSE)
    BY <1>6 DEF Follows
  <2> QED
    BY <1>2, <1>6, <2>1, <2>2 DEF Rolled
<1> QED
  BY <1>3, <1>4, <1>5, <1>6

-----------------------------------------------------------------------------
(* What is shown of every step.                                             *)

InTurn == StartsInTurn /\ StaysParked /\ StartsOnce

PlanStep ==
    /\ InTurn /\ ForgetsNoChild
    /\ Sound(world') /\ world'.conductor = NoAgent
    /\ auto_completed' \in BOOLEAN
    /\ Undisturbed => Follows(world', family', auto_completed')

\* A step that starts a child only in a pass over the plan.
LEMMA TurnsAreInTurn ==
    ASSUME OfInput, NEW w, Quiet(world, w), NEW v, Turns(w, v, family'),
           Quiet(v, world'), SameEnds(v, world')
    PROVE  InTurn
<1>1. /\ Children \subseteq Task /\ SameEnds(w, v) /\ SameEnds(w, world')
      /\ \A t \in Children : stage[t] \in Nat
  BY PlansAreTyped, SameEndsTransitive DEF Turns
<1>2. ASSUME NEW t \in Children, StartsItself(t)
      PROVE  mode = "confirm_and_start" /\ t \in Eligible(w, family') /\ world.runs[t] = <<>>
  <2>1. PICK i \in NewRuns(t) : world'.runs[t][i].trigger # "graph"
    BY <1>2 DEF StartsItself
  <2>2. i \in Asked(world', t) /\ i \notin DOMAIN world.runs[t]
    BY <2>1 DEF Asked, NewRuns
  <2>3. i \in DOMAIN v.runs[t] /\ v.runs[t][i].trigger # "graph"
    BY <2>2 DEF Quiet, Asked
  <2>4. i \notin DOMAIN w.runs[t]
    BY <2>2, <2>3 DEF Quiet, Asked, Turns
  <2>5. mode = "confirm_and_start" /\ t \in Eligible(w, family')
    BY <2>3, <2>4 DEF Turns
  <2> QED
    BY <2>5 DEF Quiet, Eligible
<1>3. ASSUME NEW t \in Planned(world', family'), StartsItself(t)
      PROVE  /\ \A other \in Planned(world', family') :
                    stage[other] < stage[t] => world'.status[other] = "done"
             /\ \A b \in IssueBlockerIds(world', t) \ world'.deleted :
                    world'.status[b] = "done"
  <2>1. t \in Children /\ t \in Eligible(w, family')
    BY <1>2, <1>3 DEF Planned
  <2>2. InCurrentStage(world', family', t) /\ BlockersDone(world', t)
    BY <1>1, <2>1, EndsDecide DEF Eligible
  <2>3. ASSUME NEW other \in Planned(world', family'), stage[other] < stage[t]
        PROVE  world'.status[other] = "done"
    <3>1. SUFFICES ASSUME world'.status[other] # "done" PROVE FALSE
      OBVIOUS
    <3>2. other \in OpenChildren(world', family')
      BY <3>1 DEF OpenChildren
    <3>3. stage[t] <= stage[other]
      BY <2>2, <3>2 DEF InCurrentStage
    <3>4. stage[t] \in Nat /\ stage[other] \in Nat
      BY <1>1, <2>1 DEF Planned
    <3> QED
      BY <2>3, <3>3, <3>4
  <2> QED
    BY <2>2, <2>3 DEF BlockersDone
<1>4. StartsInTurn
  BY <1>3 DEF StartsInTurn
<1> QED
  BY <1>2, <1>4 DEF InTurn, StaysParked, StartsOnce

\* A step in which no child starts itself.
LEMMA NobodyIsInTurn ==
    ASSUME \A t \in Children : ~StartsItself(t)
    PROVE  InTurn
BY DEF InTurn, StartsInTurn, StaysParked, StartsOnce, Planned

LEMMA QuietStepsAreInTurn ==
    ASSUME Quiet(world, world')
    PROVE  InTurn
<1>1. ASSUME NEW t \in Children PROVE ~StartsItself(t)
  BY DEF StartsItself, NewRuns, Quiet, Asked
<1> QED
  BY <1>1, NobodyIsInTurn

\* The tail of a command, and of an event.
LEMMA TurnTaken ==
    ASSUME OfInput, NEW w, Sound(w), Quiet(world, w), NEW v \in Scheduled(w, family'),
           world' = v \/ (w.conductor = NoAgent /\ world' \in Reconcile(v))
    PROVE  /\ InTurn /\ ForgetsNoChild
           /\ Sound(world') /\ world'.conductor = w.conductor /\ SameEnds(w, world')
<1>1. Turns(w, v, family') /\ Sound(v) /\ v \in World /\ v.conductor = w.conductor
  BY SchedulingTurns DEF Turns, Sound
<1>2. Extended(v, world') /\ Quiet(v, world')
  <2>1. CASE world' = v
    <3>1. Extended(v, v)
      BY <1>1, OnlyRunsReflexive DEF Extended
    <3>2. Quiet(v, v)
      BY SameRunsAreQuiet
    <3> QED
      BY <2>1, <3>1, <3>2
  <2>2. CASE w.conductor = NoAgent /\ world' \in Reconcile(v)
    BY <1>1, <2>2, ReconcileIsQuiet
  <2> QED
    BY <2>1, <2>2
<1>3. Sound(world') /\ world'.conductor = w.conductor /\ SameEnds(v, world')
  BY <1>1, <1>2, ExtensionsKeepIt
<1>4. SameEnds(w, world')
  BY <1>1, <1>3, SameEndsTransitive DEF Turns
<1>5. InTurn
  BY <1>1, <1>2, <1>3, TurnsAreInTurn
<1>6. mode = "confirm_and_start" => Forgotten(world', family') = {}
  <2>1. Forgotten(world', family') \subseteq Forgotten(v, family')
    BY <1>1, <1>2, ExtensionsForgetNone, PlansAreTyped
  <2> QED
    BY <1>1, <2>1 DEF Turns
<1> QED
  BY <1>3, <1>4, <1>5, <1>6 DEF ForgetsNoChild

LEMMA SettlingSteps ==
    ASSUME OfInput, family' \in SUBSET (Task \ {Parent}), NEW w, Tidy(w),
           NEW released \in SUBSET Task,
           Settle(w, released) \/ SettleAndReconcile(w, released)
    PROVE  PlanStep
<1> DEFINE up == RolledUp(w, family')
<1>1. /\ Sound(w) /\ w.conductor = NoAgent /\ Quiet(world, w)
      /\ Undisturbed => (w.status[Parent] = "done" => auto_completed)
  BY DEF Tidy
<1>2. Rolled(w, up, family')
  BY <1>1, RollingUpFollows
<1>3. /\ auto_completed' = up.auto
      /\ \E x \in ReleaseOthers(up.w, released \union up.released) :
            \E y \in Scheduled(x, family') : world' = y \/ world' \in Reconcile(y)
  BY DEF Settle, SettleAndReconcile
<1> HIDE DEF up
<1>4. /\ Sound(up.w) /\ up.w.conductor = NoAgent /\ Quiet(world, up.w)
      /\ up.auto \in BOOLEAN /\ released \union up.released \in SUBSET Task
      /\ Undisturbed => Follows(up.w, family', up.auto)
  <2>1. Sound(up.w) /\ Besides(w, up.w) /\ up.auto \in BOOLEAN /\ up.released \in SUBSET Task
    BY <1>2 DEF Rolled
  <2>2. Quiet(w, up.w) /\ up.w.conductor = NoAgent
    BY <1>1, <2>1, SameRunsAreQuiet DEF Besides
  <2>3. Quiet(world, up.w)
    BY <1>1, <2>2, QuietTransitive
  <2>4. Undisturbed => Follows(up.w, family', up.auto)
    BY <1>1, <1>2 DEF Rolled
  <2> QED
    BY <2>1, <2>2, <2>3, <2>4
<1>5. PICK x \in ReleaseOthers(up.w, released \union up.released) :
        \E y \in Scheduled(x, family') : world' = y \/ world' \in Reconcile(y)
  BY <1>3
<1>6. Extended(up.w, x) /\ Quiet(up.w, x)
  BY <1>4, <1>5, ReleaseIsQuiet
<1>7. /\ Sound(x) /\ x.conductor = NoAgent /\ SameEnds(up.w, x) /\ Quiet(world, x)
  BY <1>4, <1>6, ExtensionsKeepIt, QuietTransitive
<1>8. PICK y \in Scheduled(x, family') : world' = y \/ world' \in Reconcile(y)
  BY <1>5
<1>9. /\ InTurn /\ ForgetsNoChild
      /\ Sound(world') /\ world'.conductor = x.conductor /\ SameEnds(x, world')
  BY <1>7, <1>8, TurnTaken
<1>10. Undisturbed => Follows(world', family', up.auto)
  <2>1. SameEnds(up.w, world') /\ Parent \in Task /\ family' \in SUBSET Task
    BY <1>7, <1>9, SameEndsTransitive, PlansAreTyped
  <2> QED
    BY <1>4, <2>1, SameEndsFollow
<1> QED
  BY <1>3, <1>4, <1>7, <1>9, <1>10 DEF PlanStep

\* An event, which rolls nothing up.
LEMMA EventSteps ==
    ASSUME PlanInv, UNCHANGED <<application, family, auto_completed>>,
           NEW w, Sound(w), w.conductor = NoAgent, Quiet(world, w),
           Undisturbed => SameEnds(world, w), world' \in Scheduled(w, family')
    PROVE  PlanStep
<1>1. OfInput /\ (Undisturbed => Follows(world, family, auto_completed))
  BY DEF PlanInv
<1>2. /\ InTurn /\ ForgetsNoChild
      /\ Sound(world') /\ world'.conductor = NoAgent /\ SameEnds(w, world')
  BY <1>1, TurnTaken
<1>3. /\ family' = family /\ auto_completed' = auto_completed /\ auto_completed \in BOOLEAN
      /\ family \in SUBSET Task /\ Parent \in Task
  BY <1>1, PlansAreTyped DEF OfInput
<1>4. Undisturbed => Follows(world', family, auto_completed)
  <2>1. Undisturbed => SameEnds(world, world')
    BY <1>2, SameEndsTransitive
  <2> QED
    BY <1>1, <1>3, <2>1, SameEndsFollow
<1> QED
  BY <1>2, <1>3, <1>4 DEF PlanStep

\* A change of the world that the plan does not look at.
LEMMA BesidesSteps ==
    ASSUME PlanInv, UNCHANGED <<application, family, auto_completed>>,
           InTurn, ForgetsNoChild, Sound(world'), world'.conductor = NoAgent,
           SameEnds(world, world')
    PROVE  PlanStep
<1>1. OfInput /\ (Undisturbed => Follows(world, family, auto_completed))
  BY DEF PlanInv
<1>2. /\ family' = family /\ auto_completed' = auto_completed /\ auto_completed \in BOOLEAN
      /\ family \in SUBSET Task /\ Parent \in Task
  BY <1>1, PlansAreTyped DEF OfInput
<1>3. Undisturbed => Follows(world', family, auto_completed)
  BY <1>1, <1>2, SameEndsFollow
<1> QED
  BY <1>2, <1>3 DEF PlanStep

LEMMA TidyReconciled ==
    ASSUME OfInput, NEW w, Tidy(w), NEW v \in Reconcile(w)
    PROVE  Tidy(v)
<1>1. /\ Sound(w) /\ w.conductor = NoAgent /\ Quiet(world, w)
      /\ Undisturbed => (w.status[Parent] = "done" => auto_completed)
  BY DEF Tidy
<1>2. Extended(w, v) /\ Quiet(w, v)
  BY <1>1, ReconcileIsQuiet
<1>3. Sound(v) /\ v.conductor = NoAgent /\ SameEnds(w, v) /\ Quiet(world, v)
  BY <1>1, <1>2, ExtensionsKeepIt, QuietTransitive
<1>4. Parent \in Task
  BY PlansAreTyped
<1> QED
  BY <1>1, <1>3, <1>4 DEF Tidy, SameEnds

-----------------------------------------------------------------------------
(* Commands.                                                                *)

\* Nothing that the plan looks at is done to the parent.
LEMMA TidyFromHere ==
    ASSUME PlanInv, NEW w, Sound(w), w.conductor = NoAgent, w.runs = world.runs,
           w.status[Parent] = "done" => world.status[Parent] = "done"
    PROVE  Tidy(w)
BY SameRunsAreQuiet DEF Tidy, PlanInv, Follows

LEMMA SetPlanTaskStatusSteps ==
    ASSUME PlanInv, NEW t \in Task, NEW s \in Status, SetPlanTaskStatus(t, s)
    PROVE  PlanStep
<1> DEFINE w == Marked(world, t, s)
           v == SyncIssueBlockerHold(w, IssueBlockingIds(w, t))
<1>1. /\ s = "done" => UnresolvedBlockers(world, t) = {}
      /\ s = "done" /\ t = Parent => AllDone(world, family)
      /\ family' = family
      /\ \E x \in Reconcile(v) : Settle(x, WouldRelease(w, t))
  BY DEF SetPlanTaskStatus, Marked
<1>2. OfInput /\ Sound(world) /\ world.conductor = NoAgent /\ Parent \in Task
  BY PlansAreTyped DEF PlanInv
<1>3. /\ Sound(v) /\ Besides(world, v)
      /\ v.status[t] = "done" <=> s = "done"
      /\ \A x \in Task \ {t} : v.status[x] = "done" <=> world.status[x] = "done"
  BY <1>2, MarkedIsSound
<1>4. WouldRelease(w, t) \in SUBSET Task
  BY ReleasesAreTasks
<1> HIDE DEF v, w
<1>5. Undisturbed => (v.status[Parent] = "done" => auto_completed)
  BY <1>1, <1>2, <1>3 DEF PlanInv, Follows
<1>6. Tidy(v)
  BY <1>2, <1>3, <1>5, SameRunsAreQuiet DEF Tidy, Besides
<1>7. PICK x \in Reconcile(v) : Settle(x, WouldRelease(w, t))
  BY <1>1
<1>8. Tidy(x)
  BY <1>2, <1>6, <1>7, TidyReconciled
<1>9. family' \in SUBSET (Task \ {Parent})
  BY <1>1, <1>2 DEF OfInput
<1> QED
  BY <1>2, <1>4, <1>7, <1>8, <1>9, SettlingSteps

LEMMA AssignIssueSteps ==
    ASSUME PlanInv, NEW t \in Task \ {Parent}, AssignIssue(t)
    PROVE  PlanStep
<1>1. OfInput /\ Sound(world) /\ world.conductor = NoAgent /\ Tidy(world)
  BY TidyFromHere DEF PlanInv
<1>2. PICK x \in Reconcile(world) : Settle(x, {})
  BY DEF AssignIssue
<1>3. Tidy(x)
  BY <1>1, <1>2, TidyReconciled
<1>4. family' \in SUBSET (Task \ {Parent})
  BY <1>1 DEF AssignIssue, OfInput
<1>5. {} \in SUBSET Task
  OBVIOUS
<1> QED
  BY <1>1, <1>2, <1>3, <1>4, <1>5, SettlingSteps

LEMMA FewerBlockersTidy ==
    ASSUME PlanInv, NEW B \in SUBSET world.issue_blockers, NEW T,
           NEW D \in SUBSET Task
    PROVE  Tidy(SyncIssueBlockerHold(
                    [world EXCEPT !.deleted = D, !.issue_blockers = B], T))
<1> DEFINE u == [world EXCEPT !.deleted = D]
           w == [u EXCEPT !.issue_blockers = B]
           v == SyncIssueBlockerHold(w, T)
<1>1. Sound(world) /\ world \in World
  BY DEF PlanInv, Sound
<1>2. /\ u \in World /\ u.dependencies = world.dependencies
      /\ u.issue_blockers = world.issue_blockers
      /\ u.node_artifacts = world.node_artifacts
      /\ u.status = world.status /\ u.blocked_reason = world.blocked_reason
      /\ u.moved = world.moved
      /\ u.runs = world.runs /\ u.conductor = world.conductor
  BY <1>1 DEF World
<1>3. [world EXCEPT !.deleted = D, !.issue_blockers = B] = w
  BY <1>1 DEF World
<1> HIDE DEF u
<1>4. Live(u) = Live(world)
  BY <1>2 DEF Live
<1>5. HappensBeforeArcs(u) = HappensBeforeArcs(world)
  BY <1>2, <1>4 DEF HappensBeforeArcs, BlockerArcs, DependencyArcs
<1>6. Sound(u)
  BY <1>1, <1>2, <1>4, <1>5 DEF Sound, Coherent, Current
<1>7. Sound(w)
  BY <1>2, <1>6, FewerBlockersAreSound
<1>8. w.status = u.status /\ w.runs = u.runs /\ w.conductor = u.conductor /\ w \in World
  BY <1>2, <1>7 DEF World, Sound
<1> HIDE DEF w
<1>9. Sound(v) /\ Besides(w, v) /\ SameEnds(w, v)
  BY <1>7, <1>8, SyncIsSound, Synced
<1> HIDE DEF v
<1>10. Tidy(v)
  <2>1. Parent \in Task /\ world.conductor = NoAgent
    BY PlansAreTyped DEF PlanInv
  <2>2. v.conductor = NoAgent /\ v.runs = world.runs
    BY <1>2, <1>8, <1>9, <2>1 DEF Besides
  <2>3. v.status[Parent] = "done" => world.status[Parent] = "done"
    BY <1>2, <1>8, <1>9, <2>1 DEF SameEnds
  <2> QED
    BY <1>9, <2>2, <2>3, TidyFromHere
<1> QED
  BY <1>3, <1>10 DEF v

LEMMA DeletePlanTaskSteps ==
    ASSUME PlanInv, NEW t \in Task, DeletePlanTask(t)
    PROVE  PlanStep
<1> DEFINE D == world.deleted \union {t}
           B == {p \in world.issue_blockers : t \notin {p[1], p[2]}}
           w == [world EXCEPT !.deleted = @ \union {t}]
           T == IssueBlockingIds(w, t)
           R == WouldRelease(w, t)
           cut == [world EXCEPT !.deleted = D, !.issue_blockers = B]
<1>1. world \in World /\ OfInput
  BY DEF PlanInv, Sound
<1>2. [w EXCEPT !.issue_blockers = {p \in @ : t \notin {p[1], p[2]}}] = cut
  BY <1>1 DEF World
<1>3. SettleAndReconcile(SyncIssueBlockerHold(cut, T), R) /\ family' = family
  BY <1>2 DEF DeletePlanTask
<1>4. R \in SUBSET Task
  BY ReleasesAreTasks
<1>5. B \in SUBSET world.issue_blockers /\ D \in SUBSET Task
  BY <1>1 DEF World
<1>6. family' \in SUBSET (Task \ {Parent})
  BY <1>1, <1>3 DEF OfInput
<1> HIDE DEF D, B, T, R, w
<1>7. Tidy(SyncIssueBlockerHold(cut, T))
  BY <1>5, FewerBlockersTidy
<1> QED
  BY <1>1, <1>3, <1>4, <1>6, <1>7, SettlingSteps

LEMMA RemovePlanBlockerSteps ==
    ASSUME PlanInv, NEW t \in Task, NEW b \in Task, RemovePlanBlocker(t, b)
    PROVE  PlanStep
<1> DEFINE B == world.issue_blockers \ {<<t, b>>}
           D == world.deleted
           cut == [world EXCEPT !.deleted = D, !.issue_blockers = B]
           R == WouldRelease(world, b) \intersect {t}
<1>1. world \in World /\ OfInput
  BY DEF PlanInv, Sound
<1>2. [world EXCEPT !.issue_blockers = @ \ {<<t, b>>}] = cut
  BY <1>1 DEF World
<1>3. SettleAndReconcile(SyncIssueBlockerHold(cut, {t}), R) /\ family' = family
  BY <1>2 DEF RemovePlanBlocker
<1>4. R \in SUBSET Task
  OBVIOUS
<1>5. B \in SUBSET world.issue_blockers /\ D \in SUBSET Task
  BY <1>1 DEF World
<1>6. family' \in SUBSET (Task \ {Parent})
  BY <1>1, <1>3 DEF OfInput
<1> HIDE DEF D, B, R
<1>7. Tidy(SyncIssueBlockerHold(cut, {t}))
  BY <1>5, FewerBlockersTidy
<1> QED
  BY <1>1, <1>3, <1>4, <1>6, <1>7, SettlingSteps

LEMMA AddPlanBlockerSteps ==
    ASSUME PlanInv, NEW t \in Task, NEW b \in Task, AddPlanBlocker(t, b)
    PROVE  PlanStep
<1> DEFINE w == [world EXCEPT !.issue_blockers = @ \union {<<t, b>>}]
           v == SyncIssueBlockerHold(w, {t})
<1>1. world \in World /\ OfInput /\ Sound(world) /\ Parent \in Task
  BY PlansAreTyped DEF PlanInv, Sound
<1>2. SettleAndReconcile(v, {}) /\ family' = family
  BY DEF AddPlanBlocker
<1>3. Sound(w)
  BY <1>1, CheckedBlockerIsSound DEF AddPlanBlocker
<1>4. /\ w.status = world.status /\ w.runs = world.runs
      /\ w.conductor = world.conductor /\ w \in World
  BY <1>1, <1>3 DEF World, Sound
<1> HIDE DEF w
<1>5. Sound(v) /\ Besides(w, v) /\ SameEnds(w, v)
  BY <1>3, <1>4, SyncIsSound, Synced
<1> HIDE DEF v
<1>6. Tidy(v)
  <2>1. v.conductor = NoAgent /\ v.runs = world.runs
    BY <1>4, <1>5 DEF Besides, PlanInv
  <2>2. v.status[Parent] = "done" => world.status[Parent] = "done"
    BY <1>1, <1>4, <1>5 DEF SameEnds
  <2> QED
    BY <1>5, <2>1, <2>2, TidyFromHere
<1>7. family' \in SUBSET (Task \ {Parent}) /\ {} \in SUBSET Task
  BY <1>1, <1>2 DEF OfInput
<1> QED
  BY <1>1, <1>2, <1>6, <1>7, SettlingSteps

\* Whoever sorts a column leaves the parent where it is, or does not end it.
LEMMA ReorderPlanTasksSteps ==
    ASSUME PlanInv, NEW p \in given.graph.reorder, ReorderPlanTasks(p[1], p[2])
    PROVE  PlanStep
<1> DEFINE w == Reordered(world, p[1], p[2])
<1>1. /\ world \in World /\ OfInput /\ Sound(world) /\ Parent \in Task
      /\ world.conductor = NoAgent
  BY PlansAreTyped DEF PlanInv, Sound
<1>2. p[1] \in SUBSET Task /\ p[2] \in Status
  BY <1>1, PlansAreTyped DEF InputSets
<1>3. Settle(w, {}) /\ family' = family
  BY DEF ReorderPlanTasks
<1>4. Sound(w)
  BY <1>1, <1>2, ReorderedIsSound
<1>5. /\ w.runs = world.runs /\ w.conductor = world.conductor
      /\ w.status[Parent] = IF Parent \in p[1] THEN p[2] ELSE world.status[Parent]
  BY <1>1 DEF Reordered, World
<1> HIDE DEF w
<1>6. Undisturbed => (w.status[Parent] = "done" => auto_completed)
  BY <1>5 DEF Undisturbed, ParentIsMoved, PlanInv, Follows
<1>7. Tidy(w)
  BY <1>1, <1>4, <1>5, <1>6, SameRunsAreQuiet DEF Tidy
<1>8. family' \in SUBSET (Task \ {Parent}) /\ {} \in SUBSET Task
  BY <1>1, <1>3 DEF OfInput
<1> QED
  BY <1>1, <1>3, <1>7, <1>8, SettlingSteps

\* Pull requests that complete children leave the parent where it is.
LEMMA SyncPlanPullRequestsSteps ==
    ASSUME PlanInv, NEW D \in SUBSET Task, SyncPlanPullRequests(D)
    PROVE  PlanStep
<1> DEFINE w == Completed(world, D)
           R == ReleasedBy(world, D)
<1>1. /\ world \in World /\ OfInput /\ Sound(world) /\ Parent \in Task
      /\ world.conductor = NoAgent
  BY PlansAreTyped DEF PlanInv, Sound
<1>2. Settle(w, R) /\ family' = family /\ Parent \notin D
  BY DEF SyncPlanPullRequests
<1>3. Sound(w)
  BY <1>1, CompletedIsSound
<1>4. PICK W : w =
        SyncIssueBlockerHold(
            [SyncIssueBlockerHold(world, W) EXCEPT
                !.status = [t \in Task |-> IF t \in D THEN "done" ELSE @[t]],
                !.blocked_reason = [t \in Task |-> IF t \in D THEN "none" ELSE @[t]],
                !.moved = @ \ D],
            UNION {IssueBlockingIds(world, t) : t \in D})
  BY DEF Completed
<1> DEFINE between == SyncIssueBlockerHold(world, W)
           done == [between EXCEPT
                      !.status = [t \in Task |-> IF t \in D THEN "done" ELSE @[t]],
                      !.blocked_reason = [t \in Task |-> IF t \in D THEN "none" ELSE @[t]],
                      !.moved = @ \ D]
           T == UNION {IssueBlockingIds(world, t) : t \in D}
<1>5. Sound(between) /\ Besides(world, between) /\ SameEnds(world, between)
  BY <1>1, SyncIsSound, Synced
<1> HIDE DEF between
<1>6. done \in World
  BY <1>5, DoneIsSound DEF Sound
<1>7. /\ done.runs = between.runs /\ done.conductor = between.conductor
      /\ done.status[Parent] = between.status[Parent]
  BY <1>1, <1>2, <1>5 DEF Sound, World
<1> HIDE DEF done
<1>8. Besides(done, w) /\ SameEnds(done, w)
  BY <1>4, <1>6, Synced DEF between, done
<1> HIDE DEF w
<1>9. /\ w.runs = world.runs /\ w.conductor = NoAgent
      /\ w.status[Parent] = "done" => world.status[Parent] = "done"
  BY <1>1, <1>5, <1>7, <1>8 DEF Besides, SameEnds
<1>10. Tidy(w)
  BY <1>3, <1>9, TidyFromHere
<1>11. family' \in SUBSET (Task \ {Parent}) /\ R \in SUBSET Task
  BY <1>1, <1>2 DEF OfInput, ReleasedBy, IssueBlockingIds
<1> QED
  BY <1>1, <1>2, <1>10, <1>11, SettlingSteps

-----------------------------------------------------------------------------
(* Events, and what happens besides the plan.                               *)

\* No run is started, and no task is over that was not.
SameStarts(w, v) ==
    /\ v.status = w.status /\ v.conductor = w.conductor
    /\ v.deleted = w.deleted /\ v.issue_blockers = w.issue_blockers
    /\ \A t \in Task :
        /\ DOMAIN v.runs[t] = DOMAIN w.runs[t]
        /\ \A i \in DOMAIN w.runs[t] : v.runs[t][i].trigger = w.runs[t][i].trigger

LEMMA SameStartsTransitive ==
    ASSUME NEW u, NEW v, NEW w, SameStarts(u, v), SameStarts(v, w)
    PROVE  SameStarts(u, w)
BY DEF SameStarts

LEMMA SameStartsAreQuiet ==
    ASSUME OfInput, NEW w \in World, NEW v, SameStarts(w, v)
    PROVE  Quiet(w, v) /\ SameEnds(w, v)
<1>1. SameEnds(w, v)
  BY DEF SameStarts, SameEnds
<1>2. ASSUME NEW t \in Children
      PROVE  Asked(v, t) \subseteq Asked(w, t) /\ (v.runs[t] = <<>> => w.runs[t] = <<>>)
  <2>1. /\ t \in Task /\ w.runs[t] \in Seq(Run) /\ DOMAIN v.runs[t] = DOMAIN w.runs[t]
        /\ \A i \in DOMAIN w.runs[t] : v.runs[t][i].trigger = w.runs[t][i].trigger
    BY PlansAreTyped, RunsOf DEF SameStarts
  <2>2. Asked(v, t) \subseteq Asked(w, t)
    BY <2>1 DEF Asked
  <2> QED
    BY <2>1, <2>2, NoRuns
<1> QED
  BY <1>1, <1>2 DEF Quiet

LEMMA OneRunChanged ==
    ASSUME NEW w, Sound(w), NEW t \in Task, NEW i \in DOMAIN w.runs[t],
           NEW run \in Run, run.trigger = w.runs[t][i].trigger
    PROVE  Sound([w EXCEPT !.runs[t][i] = run]) /\ SameStarts(w, [w EXCEPT !.runs[t][i] = run])
<1> DEFINE v == [w EXCEPT !.runs[t][i] = run]
<1>1. /\ OnlyRuns(w, v)
      /\ \A x \in Task : DOMAIN v.runs[x] = DOMAIN w.runs[x]
      /\ \A x \in Task \ {t} : v.runs[x] = w.runs[x]
      /\ v.runs[t][i] = run
      /\ \A j \in (DOMAIN w.runs[t]) \ {i} : v.runs[t][j] = w.runs[t][j]
  BY ReplacedRuns DEF Sound
<1> HIDE DEF v
<1>2. SameStarts(w, v)
  BY <1>1 DEF SameStarts, OnlyRuns
<1>3. Sound(v)
  BY <1>1, RunsDoNotMatter
<1> QED
  BY <1>2, <1>3 DEF v

LEMMA EnsuredAttempts ==
    ASSUME NEW w, Sound(w), NEW t \in Task, NEW i \in DOMAIN w.runs[t]
    PROVE  SameStarts(w, EnsureAttempt(w, t, i))
<1> DEFINE
    run == [w.runs[t][i] EXCEPT !.lease = "running",
                                !.attempt = NextAttempt(w, t),
                                !.fingerprint = InputFingerprint(w, t)]
    s == [w.runs[t] EXCEPT ![i] = run]
    R == [w.runs EXCEPT ![t] = s]
    A == [w.attempts EXCEPT ![t] = NextAttempt(w, t)]
    v == [w EXCEPT !.runs = R, !.attempts = A]
<1>1. w \in World /\ w.runs \in [Task -> Seq(Run)] /\ w.runs[t] \in Seq(Run)
  BY DEF Sound, World
<1>2. w.runs[t][i] \in Run
  BY <1>1
<1>3. EnsureAttempt(w, t, i) = w \/ EnsureAttempt(w, t, i) = v
  BY <1>1, <1>2 DEF EnsureAttempt, World, Run
<1>4. run.trigger = w.runs[t][i].trigger
  BY <1>2 DEF Run
<1> HIDE DEF run
<1>5. DOMAIN s = DOMAIN w.runs[t] /\ s[i] = run
      /\ \A j \in (DOMAIN w.runs[t]) \ {i} : s[j] = w.runs[t][j]
  BY <1>1
<1> HIDE DEF s
<1>6. R[t] = s /\ \A x \in Task \ {t} : R[x] = w.runs[x]
  BY <1>1
<1> HIDE DEF R, A
<1>7. /\ v.status = w.status /\ v.conductor = w.conductor /\ v.runs = R
      /\ v.deleted = w.deleted /\ v.issue_blockers = w.issue_blockers
  BY <1>1 DEF World
<1> HIDE DEF v
<1>8. SameStarts(w, v)
  BY <1>4, <1>5, <1>6, <1>7 DEF SameStarts
<1>9. SameStarts(w, w)
  BY DEF SameStarts
<1> QED
  BY <1>3, <1>8, <1>9

LEMMA EndedSessions ==
    ASSUME NEW w, Sound(w), NEW t \in Task, NEW i \in DOMAIN w.runs[t],
           NEW ok \in BOOLEAN
    PROVE  Sound(SessionEnded(w, t, i, ok)) /\ SameStarts(w, SessionEnded(w, t, i, ok))
<1> DEFINE
    run == w.runs[t][i]
    isReview == run.trigger = "graph_review"
    completes == ~(ok /\ isReview) /\ run.lease \notin {"none", "succeeded", "failed"}
    lease == IF completes THEN (IF ok THEN "succeeded" ELSE "failed")
             ELSE IF ok /\ isReview /\ run.lease = "running" THEN "paused"
             ELSE run.lease
    status == IF ok THEN "completed" ELSE "failed"
    new == [run EXCEPT !.lease = lease, !.status = status]
    ended == [w EXCEPT !.runs[t][i] = new]
<1>1. w \in World /\ w.runs \in [Task -> Seq(Run)] /\ w.runs[t] \in Seq(Run)
  BY DEF Sound, World
<1>2. run \in Run
  BY <1>1
<1>3. lease \in Lease /\ status \in RunStatus
  BY <1>2 DEF Run, Lease, RunStatus
<1>4. SessionEnded(w, t, i, ok) = IF completes /\ ok THEN MarkSucceeded(ended, t) ELSE ended
  BY <1>1 DEF SessionEnded, World
<1> HIDE DEF completes, lease, status
<1>5. new \in Run /\ new.trigger = run.trigger
  BY <1>2, <1>3, RunChanged DEF Run
<1> HIDE DEF new
<1>6. Sound(ended) /\ SameStarts(w, ended)
  BY <1>5, OneRunChanged
<1> HIDE DEF ended
<1>7. Besides(ended, MarkSucceeded(ended, t)) /\ MarkSucceeded(ended, t).status = ended.status
  BY <1>6, SuccessRecorded DEF Sound
<1>8. SameStarts(ended, MarkSucceeded(ended, t))
  BY <1>7 DEF SameStarts, Besides
<1>9. SameStarts(w, SessionEnded(w, t, i, ok))
  BY <1>4, <1>6, <1>8, SameStartsTransitive
<1> QED
  BY <1>9, SessionEndedIsSound

LEMMA CancelPlanRunSteps ==
    ASSUME PlanInv, NEW t \in Task, NEW i \in DOMAIN world.runs[t], CancelPlanRun(t, i)
    PROVE  PlanStep
<1> DEFINE
    run == world.runs[t][i]
    lease == IF run.lease = "running" THEN "cancelled" ELSE run.lease
    new == [run EXCEPT !.status = "cancelled", !.lease = lease]
    w == [world EXCEPT !.runs[t][i] = new]
<1>1. IInv /\ OfInput /\ world \in World /\ world.conductor = NoAgent
  BY DEF PlanInv, IInv, Sound
<1>2. run \in Run
  BY <1>1, RunsAreTyped
<1>3. lease \in Lease /\ "cancelled" \in RunStatus
  BY <1>2 DEF Run, Lease, RunStatus
<1>4. world' \in Scheduled(w, family)
  <2>1. "runs" \in DOMAIN world /\ t \in DOMAIN world.runs
    BY <1>1 DEF World
  <2>2. "status" \in DOMAIN run /\ "lease" \in DOMAIN run
    BY <1>2 DEF Run
  <2> QED
    BY <2>1, <2>2 DEF CancelPlanRun
<1> HIDE DEF lease
<1>5. new \in Run /\ new.trigger = run.trigger
  BY <1>2, <1>3, RunChanged DEF Run
<1> HIDE DEF new
<1>6. Sound(w) /\ SameStarts(world, w)
  BY <1>1, <1>5, OneRunChanged DEF IInv
<1> HIDE DEF w
<1>7. w.conductor = NoAgent /\ Quiet(world, w) /\ SameEnds(world, w)
  BY <1>1, <1>6, SameStartsAreQuiet DEF SameStarts
<1>8. UNCHANGED <<application, family, auto_completed>> /\ family' = family
  BY DEF CancelPlanRun
<1> QED
  BY <1>4, <1>6, <1>7, <1>8, EventSteps

\* The graph is reconciled before the plan is scheduled.
LEMMA IngestedSteps ==
    ASSUME PlanInv, NEW t, NEW i, NEW w, Sound(w), w.conductor = NoAgent,
           Quiet(world, w), Undisturbed => SameEnds(world, w), Ingested(t, i, w)
    PROVE  PlanStep
<1>1. PICK x \in Reconcile(w) : world' \in Scheduled(x, family')
  BY DEF Ingested
<1>2. OfInput /\ UNCHANGED <<application, family, auto_completed>>
  BY DEF PlanInv, Ingested
<1>3. Extended(w, x) /\ Quiet(w, x)
  BY <1>1, <1>2, ReconcileIsQuiet
<1>4. Sound(x) /\ x.conductor = NoAgent /\ SameEnds(w, x)
  BY <1>3, ExtensionsKeepIt
<1>5. Quiet(world, x) /\ (Undisturbed => SameEnds(world, x))
  BY <1>3, <1>4, QuietTransitive, SameEndsTransitive
<1> QED
  BY <1>1, <1>2, <1>4, <1>5, EventSteps

LEMMA PlanHarnessProgressSteps ==
    ASSUME PlanInv, NEW t, NEW i, PlanHarnessProgress(t, i)
    PROVE  PlanStep
<1>1. Quiet(world, world) /\ SameEnds(world, world)
  BY SameRunsAreQuiet DEF SameEnds
<1> QED
  BY <1>1, IngestedSteps DEF PlanHarnessProgress, PlanInv

LEMMA PlanHarnessConflictSteps ==
    ASSUME PlanInv, "conflict" \in given.graph.event,
           NEW t \in Task, NEW i, PlanHarnessConflict(t, i)
    PROVE  PlanStep
<1> DEFINE w == Held(world, {t}, "gate")
<1>1. Sound(world) /\ world \in World /\ world.conductor = NoAgent
  BY DEF PlanInv, Sound
<1>2. "gate" \in Reason \ {"none"}
  BY DEF Reason
<1>3. OnlyGates(world, w) /\ Sound(w)
  BY <1>1, <1>2, HoldingIsAGate, HoldIsSound
<1>4. Ingested(t, i, w)
  BY DEF PlanHarnessConflict
<1> HIDE DEF w
<1>5. Quiet(world, w) /\ w.conductor = NoAgent /\ ~Undisturbed
  BY <1>1, <1>3, SameRunsAreQuiet DEF OnlyGates, Undisturbed
<1> QED
  BY <1>3, <1>4, <1>5, IngestedSteps

LEMMA PlanSessionEndSteps ==
    ASSUME PlanInv, NEW t \in Task, NEW i \in DOMAIN world.runs[t], NEW ok \in BOOLEAN,
           PlanSessionEnd(t, i, ok)
    PROVE  PlanStep
<1> DEFINE u == EnsureAttempt(world, t, i)
           w == SessionEnded(u, t, i, ok)
<1>1. Sound(world) /\ world \in World /\ world.conductor = NoAgent /\ OfInput
  BY DEF PlanInv, Sound
<1>2. Sound(u) /\ SameStarts(world, u) /\ i \in DOMAIN u.runs[t]
  BY <1>1, EnsureAttemptIsSound, EnsuredAttempts
<1>3. Ingested(t, i, w)
  BY DEF PlanSessionEnd
<1> HIDE DEF u
<1>4. Sound(w) /\ SameStarts(u, w)
  BY <1>2, EndedSessions
<1> HIDE DEF w
<1>5. SameStarts(world, w)
  BY <1>2, <1>4, SameStartsTransitive
<1>6. Quiet(world, w) /\ SameEnds(world, w) /\ w.conductor = NoAgent
  BY <1>1, <1>5, SameStartsAreQuiet DEF SameStarts
<1> QED
  BY <1>3, <1>4, <1>6, IngestedSteps

\* What nobody starts and nobody ends leaves nobody forgotten either, but for
\* a restart.
LEMMA RestartSteps ==
    ASSUME PlanInv, UNCHANGED <<application, family, auto_completed>>, Restart
    PROVE  PlanStep
<1> DEFINE
    Interrupt(t, run) ==
        [run EXCEPT
            !.status = IF @ = "running" THEN "interrupted" ELSE @,
            !.lease  = IF @ = "running" THEN "interrupted" ELSE @]
    R == [t \in Task |->
            [i \in DOMAIN world.runs[t] |-> Interrupt(t, world.runs[t][i])]]
<1>1. IInv /\ OfInput /\ world \in World /\ world.conductor = NoAgent
  BY DEF PlanInv, IInv, Sound
<1>2. Sound(world')
  BY <1>1, RestartIsSound
<1>3. world' = [world EXCEPT !.runs = R]
  BY DEF Restart, EachRun
<1>4. ASSUME NEW t \in Task
      PROVE  /\ DOMAIN R[t] = DOMAIN world.runs[t]
             /\ \A i \in DOMAIN world.runs[t] : R[t][i].trigger = world.runs[t][i].trigger
  <2>1. \A i \in DOMAIN world.runs[t] : world.runs[t][i] \in Run
    BY <1>1, RunsAreTyped
  <2>2. \A run \in Run : Interrupt(t, run).trigger = run.trigger
    BY DEF Run
  <2> HIDE DEF Interrupt
  <2> QED
    BY <2>1, <2>2
<1> HIDE DEF R
<1>5. SameStarts(world, world')
  <2>1. /\ world'.status = world.status /\ world'.conductor = world.conductor
        /\ world'.deleted = world.deleted /\ world'.issue_blockers = world.issue_blockers
        /\ world'.runs = R
    BY <1>1, <1>3 DEF World
  <2> QED
    BY <1>4, <2>1 DEF SameStarts
<1>6. Quiet(world, world') /\ SameEnds(world, world') /\ world'.conductor = NoAgent
  BY <1>1, <1>5, SameStartsAreQuiet DEF SameStarts
<1>7. InTurn
  BY <1>6, QuietStepsAreInTurn
<1>8. ForgetsNoChild
  BY DEF ForgetsNoChild
<1> QED
  BY <1>2, <1>6, <1>7, <1>8, BesidesSteps

\* A chat that is stopped starts nothing, and the slot it leaves is not given on.
LEMMA StopChatSteps ==
    ASSUME PlanInv, UNCHANGED <<application, family, auto_completed>>,
           NEW c \in given.graph.chat, StopChat(c)
    PROVE  PlanStep
<1> DEFINE
    Stop(u, run) ==
        IF u = c /\ run.trigger = "issue" /\ run.status = "running"
        THEN [run EXCEPT !.status = "cancelled"] ELSE run
<1>1. /\ IInv /\ OfInput /\ world \in World /\ world.conductor = NoAgent /\ c \in Task
  BY PlansAreTyped DEF PlanInv, IInv, Sound, InputSets
<1>2. OnlyRuns(world, world') /\ Sound(world')
  BY <1>1, StopChatIsSound
<1>3. ASSUME NEW t \in Task
      PROVE  /\ DOMAIN world'.runs[t] = DOMAIN world.runs[t]
             /\ \A i \in DOMAIN world.runs[t] :
                    world'.runs[t][i].trigger = world.runs[t][i].trigger
  <2>1. \A i \in DOMAIN world.runs[t] : world.runs[t][i] \in Run
    BY <1>1, RunsAreTyped
  <2>2. \A run \in Run : Stop(t, run).trigger = run.trigger
    BY DEF Run
  <2>3. /\ DOMAIN world'.runs[t] = DOMAIN world.runs[t]
        /\ \A i \in DOMAIN world.runs[t] : world'.runs[t][i] = Stop(t, world.runs[t][i])
    BY <1>1 DEF StopChat, EachRun, World
  <2> HIDE DEF Stop
  <2> QED
    BY <2>1, <2>2, <2>3
<1>4. SameStarts(world, world')
  BY <1>2, <1>3 DEF OnlyRuns, SameStarts
<1>5. Quiet(world, world') /\ SameEnds(world, world') /\ world'.conductor = NoAgent
  BY <1>1, <1>4, SameStartsAreQuiet DEF SameStarts
<1>6. InTurn
  BY <1>5, QuietStepsAreInTurn
<1>7. ForgetsNoChild
  BY DEF ForgetsNoChild
<1> QED
  BY <1>2, <1>5, <1>6, <1>7, BesidesSteps

\* A start by a person is asked for by name.
LEMMA StartRunSteps ==
    ASSUME PlanInv, UNCHANGED <<application, family, auto_completed>>,
           NEW p \in given.graph.starter, StartRun(p[1], p[2])
    PROVE  PlanStep
<1> DEFINE t == p[1]
           a == p[2]
           run == NewRun(a, "issue", 0, {})
           one == [x \in {t} |-> run]
<1>1. /\ IInv /\ OfInput /\ world \in World /\ world.conductor = NoAgent /\ Children \subseteq Task
      /\ t \in Task /\ a \in Agent
  BY PlansAreTyped DEF PlanInv, IInv, Sound, InputSets
<1>2. run \in Run /\ run.status = "running"
  BY <1>1, NewRunsAreTyped DEF Trigger, Fingerprint, NewRun
<1>3. world' = Started(world, one)
  BY DEF StartRun
<1> HIDE DEF run
<1>4. DOMAIN one = {t} /\ one[t] = run
  OBVIOUS
<1> HIDE DEF one
<1>5. /\ DOMAIN one \subseteq Task
      /\ \A x \in DOMAIN one : one[x] \in Run /\ one[x].status = "running"
  BY <1>1, <1>2, <1>4
<1>6. Extended(world, world')
  BY <1>1, <1>3, <1>5, StartedExtends
<1>7. Sound(world') /\ world'.conductor = NoAgent /\ SameEnds(world, world')
  BY <1>1, <1>6, ExtensionsKeepIt DEF IInv
<1>8. \A x \in Task \ {t} : world'.runs[x] = world.runs[x]
  BY <1>1, <1>3, <1>4, <1>5, StartedRuns
<1>9. ASSUME NEW c \in Children PROVE ~StartsItself(c)
  BY <1>1, <1>8 DEF StartsItself, NewRuns
<1>10. InTurn
  BY <1>9, NobodyIsInTurn
<1>11. ForgetsNoChild
  <2>1. Forgotten(world', family') \subseteq Forgotten(world, family)
    BY <1>1, <1>6, ExtensionsForgetNone
  <2>2. BesidesThePlan(given.graph)
    BY DEF BesidesThePlan
  <2> QED
    BY <2>1, <2>2 DEF ForgetsNoChild
<1> QED
  BY <1>7, <1>10, <1>11, BesidesSteps

\* A new edge holds no one back.
LEMMA RecordedForgetsNone ==
    ASSUME NEW w, Sound(w), NEW e \in EdgeId, w.dependencies[e] = Unused,
           NEW s \in Task, NEW t \in Task, NEW kind \in EdgeKind,
           NEW u \in Recorded(w, e, s, t, kind), NEW F, Children \subseteq Task
    PROVE  SameStarts(w, u) /\ Forgotten(u, F) \subseteq Forgotten(w, F)
<1> DEFINE edge == NewEdge(w, s, t, kind)
           D == [w.dependencies EXCEPT ![e] = edge]
           v == [w EXCEPT !.dependencies = D]
<1>1. w \in World /\ w.dependencies \in [EdgeId -> Edge \union {Unused, Removed}]
  BY DEF Sound, World
<1>2. u = w \/ u = v
  BY DEF Recorded
<1>3. SameStarts(w, w)
  BY DEF SameStarts
<1>4. /\ v.status = w.status /\ v.conductor = w.conductor /\ v.deleted = w.deleted
      /\ v.issue_blockers = w.issue_blockers /\ v.runs = w.runs
      /\ v.assignee = w.assignee /\ v.limit = w.limit /\ v.dependencies = D
  BY <1>1 DEF World
<1>5. \A x \in Live(w) : x \in EdgeId \ {e}
  BY DEF Live
<1>6. \A x \in EdgeId \ {e} : D[x] = w.dependencies[x]
  BY <1>1
<1> HIDE DEF D, v
<1>7. SameStarts(w, v) /\ SameEnds(w, v)
  BY <1>4 DEF SameStarts, SameEnds
<1>8. ASSUME NEW x, HasStaleDependency(w, x) PROVE HasStaleDependency(v, x)
  <2>1. PICK d \in Live(w) : /\ w.dependencies[d].target = x
                             /\ Consumes(w, d) /\ BlocksConsumer(w.dependencies[d])
    BY <1>8 DEF HasStaleDependency, EdgesInto
  <2>2. d \in EdgeId /\ v.dependencies[d] = w.dependencies[d]
    BY <1>4, <1>5, <1>6
  <2>3. d \in EdgesInto(v, x) /\ Consumes(v, d) /\ BlocksConsumer(v.dependencies[d])
    BY <2>1, <2>2 DEF EdgesInto, Live, Consumes
  <2> QED
    BY <2>3 DEF HasStaleDependency
<1>9. \A a : FreeSlots(v, a) = FreeSlots(w, a)
  BY <1>4 DEF FreeSlots, ConcurrencyLimit, RunningRuns
<1>10. Eligible(v, F) = Eligible(w, F)
  BY <1>4, <1>7, EndsDecide DEF Eligible
<1>11. Forgotten(v, F) \subseteq Forgotten(w, F)
  BY <1>4, <1>8, <1>9, <1>10 DEF Forgotten
<1> QED
  BY <1>2, <1>3, <1>7, <1>11

LEMMA DeclareDependencySteps ==
    ASSUME PlanInv, UNCHANGED <<application, family, auto_completed>>,
           NEW e \in EdgeId, NEW p \in given.graph.edge,
           DeclareDependency(e, p[1], p[2], p[3])
    PROVE  PlanStep
<1>1. /\ OfInput /\ Sound(world) /\ world \in World /\ world.conductor = NoAgent
      /\ Children \subseteq Task /\ p[1] \in Task /\ p[2] \in Task /\ p[3] \in EdgeKind
  BY PlansAreTyped DEF PlanInv, Sound, InputSets
<1>2. PICK u \in Recorded(world, e, p[1], p[2], p[3]) : world' \in Reconcile(u)
  BY DEF DeclareDependency
<1>3. world.dependencies[e] = Unused
  BY DEF DeclareDependency
<1>4. /\ Sound(u) /\ u \in World /\ SameStarts(world, u)
      /\ Forgotten(u, family) \subseteq Forgotten(world, family)
  BY <1>1, <1>2, <1>3, RecordedIsSound, RecordedForgetsNone DEF Sound
<1>5. Quiet(world, u) /\ SameEnds(world, u) /\ u.conductor = NoAgent
  BY <1>1, <1>4, SameStartsAreQuiet DEF SameStarts
<1>6. Extended(u, world') /\ Quiet(u, world')
  BY <1>1, <1>2, <1>4, <1>5, ReconcileIsQuiet
<1>7. Sound(world') /\ world'.conductor = NoAgent /\ SameEnds(u, world')
  BY <1>4, <1>5, <1>6, ExtensionsKeepIt
<1>8. SameEnds(world, world') /\ Quiet(world, world')
  BY <1>5, <1>6, <1>7, QuietTransitive, SameEndsTransitive
<1>9. InTurn
  BY <1>8, QuietStepsAreInTurn
<1>10. ForgetsNoChild
  <2>1. Forgotten(world', family') \subseteq Forgotten(u, family)
    BY <1>1, <1>4, <1>6, ExtensionsForgetNone
  <2>2. BesidesThePlan(given.graph)
    BY DEF BesidesThePlan
  <2> QED
    BY <1>4, <2>1, <2>2 DEF ForgetsNoChild
<1> QED
  BY <1>7, <1>8, <1>9, <1>10, BesidesSteps

-----------------------------------------------------------------------------
(* Plans.                                                                   *)

LEMMA ReversedStaysAcyclic ==
    ASSUME NEW Node, NEW Arc \in SUBSET (Node \X Node), Acyclic(Arc, Node)
    PROVE  Acyclic({<<p[2], p[1]>> : p \in Arc}, Node)
<1> DEFINE Back == {<<p[2], p[1]>> : p \in Arc}
<1>1. ASSUME NEW p \in Arc PROVE ~Reaches(Back, Node, p[1], p[2])
  <2>1. PICK S \in SUBSET Node : p[2] \in S /\ Closed(Arc, S) /\ p[1] \notin S
    BY DEF Acyclic, Reaches
  <2> DEFINE Rest == Node \ S
  <2>2. Rest \in SUBSET Node /\ p[1] \in Rest /\ p[2] \notin Rest
    BY <2>1
  <2>3. Closed(Back, Rest)
    BY <2>1 DEF Closed
  <2> HIDE DEF Rest, Back
  <2> QED
    BY <2>2, <2>3 DEF Reaches
<1>2. ASSUME NEW q \in Back PROVE ~Reaches(Back, Node, q[2], q[1])
  <2>1. PICK p \in Arc : q = <<p[2], p[1]>>
    OBVIOUS
  <2>2. q[1] = p[2] /\ q[2] = p[1]
    BY <2>1
  <2> HIDE DEF Back
  <2> QED
    BY <1>1, <2>2
<1> QED
  BY <1>2 DEF Acyclic

LEMMA AppliedIsSound ==
    ASSUME NEW in, IsPlanInput(in), NEW m, Parent \in Task,
           NEW F \in SUBSET (Task \ {Parent})
    PROVE  /\ Sound(Applied(in, m)) /\ Applied(in, m).conductor = NoAgent
           /\ Follows(Applied(in, m), F, FALSE)
<1> DEFINE w == Applied(in, m)
<1>1. /\ in.graph.assignee \in [Task -> Agent \union {NoAgent}]
      /\ in.graph.limit \in [Agent -> Nat]
      /\ in.depends \in SUBSET (Task \X Task) /\ Acyclic(in.depends, Task)
  BY DEF IsPlanInput, InputSets
<1>2. /\ w \in World
      /\ \A t \in Task : w.status[t] \in {"open", "backlog"} /\ w.blocked_reason[t] = "none"
      /\ w.conductor = NoAgent /\ w.dependencies = [e \in EdgeId |-> Unused]
      /\ w.issue_blockers = in.depends
  BY <1>1 DEF Applied, World, Status, Reason
<1> HIDE DEF w
<1>3. Live(w) = {}
  BY <1>2 DEF Live
<1>4. HappensBeforeArcs(w) = {<<p[2], p[1]>> : p \in in.depends}
  BY <1>2, <1>3 DEF HappensBeforeArcs, BlockerArcs, DependencyArcs
<1>5. Acyclic(HappensBeforeArcs(w), Task)
  BY <1>1, <1>4, ReversedStaysAcyclic
<1>6. Coherent(w) /\ Current(w)
  BY <1>2, <1>3 DEF Coherent, Current
<1>7. ~AllDone(w, F) /\ w.status[Parent] # "done"
  BY <1>2 DEF AllDone
<1> QED
  BY <1>2, <1>5, <1>6, <1>7 DEF Sound, Follows, w

LEMMA PlansBeginWell == ApplyPlan => PlanInv
<1> SUFFICES ASSUME ApplyPlan PROVE PlanInv
  OBVIOUS
<1> DEFINE w == Applied(given, mode)
<1>1. given \in PlanInputs /\ IsPlanInput(given) /\ Parent \in Task
  BY PlanInputsAssumption DEF ApplyPlan
<1>2. OfInput
  BY <1>1 DEF OfInput, ApplyPlan, IsPlanInput, Children
<1>3. world \in Scheduled(w, family) /\ auto_completed = FALSE
      /\ family \in SUBSET (Task \ {Parent}) /\ family \in SUBSET Task
  BY <1>2 DEF ApplyPlan, OfInput
<1>4. Sound(w) /\ w.conductor = NoAgent /\ Follows(w, family, FALSE)
  BY <1>1, <1>3, AppliedIsSound
<1> HIDE DEF w
<1>5. Turns(w, world, family)
  BY <1>2, <1>3, <1>4, SchedulingTurns
<1>6. Sound(world) /\ world.conductor = NoAgent /\ SameEnds(w, world)
  BY <1>4, <1>5 DEF Turns
<1>7. Follows(world, family, FALSE)
  BY <1>1, <1>3, <1>4, <1>6, SameEndsFollow
<1> QED
  BY <1>2, <1>3, <1>6, <1>7 DEF PlanInv

-----------------------------------------------------------------------------
(* The theorems.                                                            *)

LEMMA PlanCommandSteps ==
    ASSUME PlanInv, PlanCommand(given)
    PROVE  PlanStep
<1>1. /\ given.graph.status \subseteq Task \X Status
      /\ given.graph.delete \subseteq Task /\ given.graph.blocker \subseteq Task \X Task
      /\ given.family \subseteq Task \ {Parent}
  BY PlansAreTyped DEF PlanInv, InputSets, IsPlanInput
<1>2. ASSUME NEW c \in given.graph.status, SetPlanTaskStatus(c[1], c[2])
      PROVE  PlanStep
  <2>1. c[1] \in Task /\ c[2] \in Status
    BY <1>1
  <2> QED
    BY <1>2, <2>1, SetPlanTaskStatusSteps
<1>3. ASSUME NEW t \in given.family, AssignIssue(t)
      PROVE  PlanStep
  BY <1>1, <1>3, AssignIssueSteps
<1>4. ASSUME NEW t \in given.graph.delete, DeletePlanTask(t)
      PROVE  PlanStep
  BY <1>1, <1>4, DeletePlanTaskSteps
<1>5. ASSUME NEW p \in given.graph.blocker,
             AddPlanBlocker(p[1], p[2]) \/ RemovePlanBlocker(p[1], p[2])
      PROVE  PlanStep
  <2>1. p[1] \in Task /\ p[2] \in Task
    BY <1>1
  <2> QED
    BY <1>5, <2>1, AddPlanBlockerSteps, RemovePlanBlockerSteps
<1>6. ASSUME NEW p \in given.graph.reorder, ReorderPlanTasks(p[1], p[2])
      PROVE  PlanStep
  BY <1>6, ReorderPlanTasksSteps
<1>7. ASSUME NEW D \in SUBSET given.graph.merged, SyncPlanPullRequests(D)
      PROVE  PlanStep
  <2>1. D \in SUBSET Task
    BY PlansAreTyped DEF PlanInv, InputSets
  <2> QED
    BY <1>7, <2>1, SyncPlanPullRequestsSteps
<1> QED
  BY <1>2, <1>3, <1>4, <1>5, <1>6, <1>7 DEF PlanCommand

LEMMA PlanEventSteps ==
    ASSUME PlanInv, PlanEvent(given.graph)
    PROVE  PlanStep
<1>1. PICK t \in Task : \E i \in DOMAIN world.runs[t] :
        \/ CancelPlanRun(t, i) \/ PlanHarnessProgress(t, i)
        \/ "conflict" \in given.graph.event /\ PlanHarnessConflict(t, i)
        \/ \E ok \in BOOLEAN : PlanSessionEnd(t, i, ok)
  BY DEF PlanEvent
<1>2. PICK i \in DOMAIN world.runs[t] :
        \/ CancelPlanRun(t, i) \/ PlanHarnessProgress(t, i)
        \/ "conflict" \in given.graph.event /\ PlanHarnessConflict(t, i)
        \/ \E ok \in BOOLEAN : PlanSessionEnd(t, i, ok)
  BY <1>1
<1>3. CASE CancelPlanRun(t, i)
  BY <1>3, CancelPlanRunSteps
<1>4. CASE PlanHarnessProgress(t, i)
  BY <1>4, PlanHarnessProgressSteps
<1>5. CASE "conflict" \in given.graph.event /\ PlanHarnessConflict(t, i)
  BY <1>5, PlanHarnessConflictSteps
<1>6. CASE \E ok \in BOOLEAN : PlanSessionEnd(t, i, ok)
  BY <1>6, PlanSessionEndSteps
<1> QED
  BY <1>2, <1>3, <1>4, <1>5, <1>6

LEMMA PlanNextSteps == PlanInv /\ PlanNext => PlanStep
<1> SUFFICES ASSUME PlanInv, PlanNext PROVE PlanStep
  OBVIOUS
<1>1. CASE PlanCommand(given)
  BY <1>1, PlanCommandSteps
<1>2. CASE PlanEvent(given.graph)
  BY <1>2, PlanEventSteps
<1>3. CASE BesidesThePlan(given.graph) /\ UNCHANGED <<application, family, auto_completed>>
  BY <1>3, StartRunSteps, DeclareDependencySteps DEF BesidesThePlan
<1>4. CASE Restart /\ UNCHANGED <<application, family, auto_completed>>
  BY <1>4, RestartSteps
<1>5. CASE (\E t \in given.graph.chat : StopChat(t))
           /\ UNCHANGED <<application, family, auto_completed>>
  BY <1>5, StopChatSteps
<1> QED
  BY <1>1, <1>2, <1>3, <1>4, <1>5 DEF PlanNext

\* What may happen around a plan is settled, and who is in its family stays
\* a task besides the parent.
LEMMA PlansAreSettled ==
    ASSUME PlanInv, PlanNext
    PROVE  UNCHANGED application /\ family' \subseteq Task \ {Parent}
<1>1. /\ OfInput /\ given.family \subseteq Task \ {Parent} /\ family \subseteq Task \ {Parent}
  BY PlansAreTyped DEF PlanInv, OfInput, IsPlanInput
<1>2. CASE PlanCommand(given)
  BY <1>1, <1>2 DEF PlanCommand, SetPlanTaskStatus, AssignIssue, DeletePlanTask,
                    AddPlanBlocker, RemovePlanBlocker, ReorderPlanTasks,
                    SyncPlanPullRequests
<1>3. CASE PlanEvent(given.graph)
  BY <1>1, <1>3 DEF PlanEvent, CancelPlanRun, PlanHarnessProgress, PlanHarnessConflict,
                    PlanSessionEnd, Ingested
<1> QED
  BY <1>1, <1>2, <1>3 DEF PlanNext

LEMMA PlanInvIsKept == PlanInv /\ [PlanNext]_plan => PlanInv'
<1>1. CASE PlanInv /\ PlanNext
  <2>1. PlanStep /\ UNCHANGED application /\ family' \subseteq Task \ {Parent}
    BY <1>1, PlanNextSteps, PlansAreSettled
  <2>2. OfInput'
    BY <1>1, <2>1 DEF PlanInv, OfInput, PlanStep, application
  <2> QED
    BY <2>1, <2>2 DEF PlanInv, PlanStep, Undisturbed, ParentIsMoved, application
<1>2. CASE PlanInv /\ UNCHANGED plan
  BY <1>2 DEF plan, application, PlanInv, OfInput, Undisturbed, ParentIsMoved, Follows, Sound, Coherent
<1> QED
  BY <1>1, <1>2

LEMMA PlansStayWell == PlanSpec => []PlanInv
BY PlansBeginWell, PlanInvIsKept, PTL DEF PlanSpec

\* The parent of a plan is done exactly as long as all of its present children
\* are and nothing else holds it, whoever moves, sorts, deletes, finishes or
\* reopens tasks around it, merged pull requests included
\* (reconcile_task_plan_parent_statuses), unless a patch that contradicts a
\* commitment takes one back, or somebody sorts the parent itself among the
\* finished tasks.
THEOREM ParentsFollowChildren == PlanSpec => []ParentFollowsChildren
<1>1. PlanInv => ParentFollowsChildren
  <2> SUFFICES ASSUME PlanInv PROVE ParentFollowsChildren
    OBVIOUS
  <2>1. PlanTypeOK
    BY PlansAreTyped DEF PlanInv, OfInput, Sound, PlanTypeOK, TypeOK
  <2>2. Undisturbed => ParentMeansChildren /\ ChildrenMeanParent
    BY DEF PlanInv, Follows, ParentMeansChildren, ChildrenMeanParent, AllDone
  <2> QED
    BY <2>1, <2>2 DEF ParentFollowsChildren, Undisturbed
<1> QED
  BY <1>1, PlansStayWell, PTL

\* No command and no event starts a child of a plan out of its turn, in a plan
\* that was only created or a second time, and none leaves a child waiting
\* that it could have started (reconcile_task_plan_scheduling), but for a restart
\* and for a chat that is stopped.
THEOREM PlansStartChildrenInTurn == PlanSpec => ChildrenStartInTurn
<1>1. PlanInv /\ PlanNext => StartsInTurn /\ StaysParked /\ StartsOnce /\ ForgetsNoChild
  BY PlanNextSteps DEF PlanStep, InTurn
<1>2. PlanSpec => [][PlanNext]_plan
  BY DEF PlanSpec
<1> QED
  BY <1>1, <1>2, PlansStayWell, PTL DEF ChildrenStartInTurn
=============================================================================
