------------------------------ MODULE GraphProofs ------------------------------
(***************************************************************************)
(* What every reachable world is, for any sets of tasks, agents and edges, *)
(* any limits and any inputs.  First, what the operators leave alone: the  *)
(* scheduler only ever changes runs, the gates only ever change statuses   *)
(* with their reasons.  Then: it is well typed, its gates are coherent,    *)
(* its happens-before relation is acyclic and its active edges are         *)
(* current.  Last, on top of that: a task held for its blockers has an     *)
(* unfinished one, and no change around a held task frees it while its     *)
(* gate still has something to wait for.                                   *)
(***************************************************************************)
EXTENDS GraphSafety, FiniteSetTheorems, TLAPS

\* v differs from w at most in its runs and the number of their attempts.
OnlyRuns(w, v) ==
    /\ v \in World
    /\ v.status = w.status /\ v.blocked_reason = w.blocked_reason
    /\ v.deleted = w.deleted /\ v.conductor = w.conductor
    /\ v.issue_blockers = w.issue_blockers /\ v.dependencies = w.dependencies
    /\ v.node_artifacts = w.node_artifacts
    /\ v.materialization = w.materialization /\ v.successes = w.successes
    /\ v.moved = w.moved

\* A task is blocked exactly when it has a reason to be, unless it was sorted
\* into the column it is in.
Coherent(w) ==
    \A t \in Task \ w.moved : w.status[t] = "blocked" <=> w.blocked_reason[t] # "none"

\* v differs from w at most in its statuses and their reasons, and these stay
\* coherent where they were.
OnlyGates(w, v) ==
    /\ v \in World
    /\ Coherent(w) => Coherent(v)
    /\ v.deleted = w.deleted /\ v.conductor = w.conductor
    /\ v.issue_blockers = w.issue_blockers /\ v.dependencies = w.dependencies
    /\ v.node_artifacts = w.node_artifacts
    /\ v.materialization = w.materialization /\ v.successes = w.successes
    /\ v.runs = w.runs /\ v.attempts = w.attempts /\ v.limit = w.limit
    /\ v.moved = w.moved

-----------------------------------------------------------------------------
(* Changing runs.                                                           *)

LEMMA OnlyRunsTransitive ==
    ASSUME NEW u, NEW v, NEW w, OnlyRuns(u, v), OnlyRuns(v, w)
    PROVE  OnlyRuns(u, w)
BY DEF OnlyRuns

LEMMA OnlyRunsReflexive == \A w \in World : OnlyRuns(w, w)
BY DEF OnlyRuns

LEMMA RunsReplaced ==
    ASSUME NEW w \in World, NEW R \in [Task -> Seq(Run)]
    PROVE  OnlyRuns(w, [w EXCEPT !.runs = R])
BY DEF World, OnlyRuns

LEMMA RunsAndAttemptsReplaced ==
    ASSUME NEW w \in World, NEW R \in [Task -> Seq(Run)], NEW A \in [Task -> Nat]
    PROVE  OnlyRuns(w, [w EXCEPT !.runs = R, !.attempts = A])
BY DEF World, OnlyRuns

\* The shape in which every fence, pause and interruption rewrites the runs.
LEMMA SameLength ==
    ASSUME NEW s \in Seq(Run), NEW f, f = [i \in DOMAIN s |-> f[i]],
           \A i \in DOMAIN s : f[i] \in Run
    PROVE  f \in Seq(Run)
BY DEF Run

LEMMA FencesChangeOnlyRuns ==
    ASSUME NEW w \in World, NEW T
    PROVE  OnlyRuns(w, FenceAttempts(w, T))
<1> DEFINE Fence(t, run) ==
        IF t \in T /\ AttemptBlocksClaim(run.lease) /\ run.lease # "succeeded"
        THEN [run EXCEPT !.lease = "paused"] ELSE run
    R == [t \in Task |-> [i \in DOMAIN w.runs[t] |-> Fence(t, w.runs[t][i])]]
<1>1. \A t \in Task, run \in Run : Fence(t, run) \in Run
  BY DEF Run, Lease
<1> HIDE DEF Fence
<1>2. R \in [Task -> Seq(Run)]
  <2> SUFFICES ASSUME NEW t \in Task PROVE R[t] \in Seq(Run)
    OBVIOUS
  <2>1. w.runs[t] \in Seq(Run)
    BY DEF World
  <2>2. \A i \in DOMAIN w.runs[t] : R[t][i] \in Run
    BY <1>1, <2>1
  <2> QED
    BY <2>1, <2>2, SameLength
<1>3. FenceAttempts(w, T) = [w EXCEPT !.runs = R]
  BY DEF FenceAttempts, EachRun, Fence
<1> QED
  BY <1>2, <1>3, RunsReplaced

LEMMA SupersessionChangesOnlyRuns ==
    ASSUME NEW w \in World
    PROVE  OnlyRuns(w, SupersedeReviews(w))
<1> DEFINE
    targets == {w.dependencies[e].target : e \in StaleEdges(w)}
    Supersede(t, run) ==
        IF /\ t \in targets
           /\ run.trigger = "graph_review"
           /\ run.agent # w.conductor
        THEN [run EXCEPT
                !.status = IF @ = "running" THEN "cancelled" ELSE @,
                !.lease = IF @ = "succeeded" THEN @ ELSE "paused"]
        ELSE run
    R == [t \in Task |->
            [i \in DOMAIN w.runs[t] |-> Supersede(t, w.runs[t][i])]]
<1>1. \A t \in Task, run \in Run : Supersede(t, run) \in Run
  <2> SUFFICES ASSUME NEW t \in Task, NEW run \in Run
               PROVE  Supersede(t, run) \in Run
    OBVIOUS
  <2> DEFINE status == IF run.status = "running" THEN "cancelled" ELSE run.status
             lease == IF run.lease = "succeeded" THEN run.lease ELSE "paused"
  <2>1. status \in RunStatus /\ lease \in Lease
    BY DEF Run, RunStatus, Lease
  <2> HIDE DEF targets, status, lease
  <2>2. [run EXCEPT !.status = status, !.lease = lease] \in Run
    BY <2>1 DEF Run
  <2> QED
    BY <2>2 DEF status, lease
<1> HIDE DEF Supersede
<1>2. R \in [Task -> Seq(Run)]
  <2> SUFFICES ASSUME NEW t \in Task PROVE R[t] \in Seq(Run)
    OBVIOUS
  <2>1. w.runs[t] \in Seq(Run)
    BY DEF World
  <2>2. \A i \in DOMAIN w.runs[t] : R[t][i] \in Run
    BY <1>1, <2>1
  <2> QED
    BY <2>1, <2>2, SameLength
<1>3. SupersedeReviews(w) = [w EXCEPT !.runs = R]
  BY DEF SupersedeReviews, EachRun, Supersede
<1> QED
  BY <1>2, <1>3, RunsReplaced

LEMMA StartsChangeOnlyRuns ==
    ASSUME NEW w \in World, NEW run, \A t \in DOMAIN run : run[t] \in Run
    PROVE  OnlyRuns(w, Started(w, run))
<1> DEFINE R == [t \in Task |-> IF t \in DOMAIN run
                                THEN Append(w.runs[t], run[t]) ELSE w.runs[t]]
           A == [t \in Task |-> IF t \in DOMAIN run /\ run[t].attempt # 0
                                THEN run[t].attempt ELSE w.attempts[t]]
<1>1. R \in [Task -> Seq(Run)]
  <2>1. \A t \in Task : w.runs[t] \in Seq(Run)
    BY DEF World
  <2> QED
    BY <2>1
<1>2. A \in [Task -> Nat]
  BY DEF World, Run
<1>3. Started(w, run) = [w EXCEPT !.runs = R, !.attempts = A]
  BY DEF Started
<1> HIDE DEF R, A
<1>4. OnlyRuns(w, [w EXCEPT !.runs = R, !.attempts = A])
  BY <1>1, <1>2, RunsAndAttemptsReplaced
<1> QED
  BY <1>3, <1>4

-----------------------------------------------------------------------------
(* Dispatching.                                                             *)

LEMMA FingerprintsAreTyped ==
    ASSUME NEW w \in World, NEW n \in Task
    PROVE  InputFingerprint(w, n) \in Fingerprint
<1>1. \A e \in EdgesInto(w, n) : e \in EdgeId /\ w.dependencies[e] \in Edge
  BY DEF EdgesInto, Live, World
<1>2. \A e \in EdgesInto(w, n) :
        <<e, w.dependencies[e].current, w.dependencies[e].generation>> \in Part
  BY <1>1 DEF Edge, Part
<1>3. \A b \in IssueBlockerIds(w, n) : <<b, 0, 0>> \in Part
  BY DEF IssueBlockerIds, Part
<1> QED
  BY <1>2, <1>3 DEF InputFingerprint, Fingerprint

LEMMA NewRunsAreTyped ==
    ASSUME NEW agent \in Agent, NEW trigger \in Trigger, NEW attempt \in Nat,
           NEW fingerprint \in Fingerprint
    PROVE  NewRun(agent, trigger, attempt, fingerprint) \in Run
BY DEF NewRun, Run, RunStatus, Lease

LEMMA AttemptsAreNumbered ==
    ASSUME NEW w \in World, NEW t \in Task
    PROVE  NextAttempt(w, t) \in Nat \ {0}
BY DEF World, NextAttempt

LEMMA StartingAssigneesChangesOnlyRuns ==
    ASSUME NEW w \in World, NEW T \in SUBSET Task, NEW trigger \in Trigger,
           NEW C, NEW v \in StartAssignees(w, T, trigger, C)
    PROVE  OnlyRuns(w, v)
<1> DEFINE assigned == {t \in T : w.assignee[t] # NoAgent}
           run(t) == IF t \in C
                     THEN NewRun(w.assignee[t], trigger, NextAttempt(w, t),
                                 InputFingerprint(w, t))
                     ELSE NewRun(w.assignee[t], trigger, 0, {})
<1>1. PICK D \in SUBSET assigned : v = Started(w, [t \in D |-> run(t)])
  BY DEF StartAssignees
<1>2. \A t \in D : run(t) \in Run
  <2> SUFFICES ASSUME NEW t \in D PROVE run(t) \in Run
    OBVIOUS
  <2>1. t \in Task /\ w.assignee[t] \in Agent
    BY <1>1 DEF World
  <2>2. NextAttempt(w, t) \in Nat /\ {} \in Fingerprint
    BY <2>1, AttemptsAreNumbered DEF Fingerprint
  <2>3. InputFingerprint(w, t) \in Fingerprint
    BY <2>1, FingerprintsAreTyped
  <2> QED
    BY <2>1, <2>2, <2>3, NewRunsAreTyped
<1> HIDE DEF run
<1> QED
  BY <1>1, <1>2, StartsChangeOnlyRuns

LEMMA ReviewsChangeOnlyRuns ==
    ASSUME NEW w \in World, w.conductor # NoAgent, NEW u \in DispatchReviews(w)
    PROVE  OnlyRuns(w, u)
<1> DEFINE v == SupersedeReviews(w)
<1>1. OnlyRuns(w, v) /\ v \in World /\ v.conductor \in Agent
  <2>1. OnlyRuns(w, v)
    BY SupersessionChangesOnlyRuns
  <2> QED
    BY <2>1 DEF OnlyRuns, World
<1> HIDE DEF v
<1> DEFINE
    target(e) == v.dependencies[e].target
    fingerprint(e) == ReviewFingerprint(e, v.dependencies[e].generation)
    run(e) == NewRun(v.conductor, "graph_review", NextAttempt(v, target(e)), fingerprint(e))
    reviews(D) == [t \in {target(e) : e \in D} |->
                    run(CHOOSE e \in D : target(e) = t)]
<1>2. PICK D \in SUBSET StaleEdges(v) : u = Started(v, reviews(D))
  BY DEF DispatchReviews, v
<1>3. \A e \in D : run(e) \in Run
  <2> SUFFICES ASSUME NEW e \in D PROVE run(e) \in Run
    OBVIOUS
  <2>1. e \in EdgeId /\ v.dependencies[e] \in Edge
    BY <1>1, <1>2 DEF StaleEdges, Live, World
  <2>2. fingerprint(e) \in Fingerprint
    BY <2>1 DEF ReviewFingerprint, Fingerprint, Part, Edge
  <2>3. "graph_review" \in Trigger /\ NextAttempt(v, target(e)) \in Nat
    BY <1>1, <2>1, AttemptsAreNumbered DEF Trigger, Edge
  <2> HIDE DEF fingerprint
  <2> QED
    BY <1>1, <2>2, <2>3, NewRunsAreTyped
<1> HIDE DEF run, target
<1>4. \A t \in DOMAIN reviews(D) : reviews(D)[t] \in Run
  <2> SUFFICES ASSUME NEW t \in {target(e) : e \in D}
               PROVE  run(CHOOSE e \in D : target(e) = t) \in Run
    OBVIOUS
  <2>1. \E e \in D : target(e) = t
    OBVIOUS
  <2>2. (CHOOSE e \in D : target(e) = t) \in D
    BY <2>1
  <2> QED
    BY <2>2, <1>3
<1> HIDE DEF reviews
<1>5. OnlyRuns(v, u)
  BY <1>1, <1>2, <1>4, StartsChangeOnlyRuns
<1> QED
  BY <1>1, <1>5, OnlyRunsTransitive

LEMMA ReconcileChangesOnlyRuns ==
    ASSUME NEW w \in World, NEW v \in Reconcile(w)
    PROVE  OnlyRuns(w, v)
<1>1. CASE w.conductor = NoAgent
  <2>1. "graph" \in Trigger
    BY DEF Trigger
  <2>2. v \in StartAssignees(w, {t \in Task : ExecutorReady(w, t)}, "graph", Task)
    BY <1>1 DEF Reconcile, DispatchExecutors
  <2> QED
    BY <2>1, <2>2, StartingAssigneesChangesOnlyRuns
<1>2. CASE w.conductor # NoAgent
  BY <1>2, ReviewsChangeOnlyRuns DEF Reconcile
<1> QED
  BY <1>1, <1>2

LEMMA DispatchReadyChangesOnlyRuns ==
    ASSUME NEW w \in World, NEW T \in SUBSET Task, NEW v \in DispatchReady(w, T)
    PROVE  OnlyRuns(w, v)
<1>1. CASE w.conductor = NoAgent
  BY <1>1, OnlyRunsReflexive DEF DispatchReady
<1>2. CASE w.conductor # NoAgent
  <2>1. PICK S \in SUBSET Task : \E C : v \in StartAssignees(w, S, "graph", C)
    BY <1>2 DEF DispatchReady
  <2>2. "graph" \in Trigger
    BY DEF Trigger
  <2> QED
    BY <2>1, <2>2, StartingAssigneesChangesOnlyRuns
<1> QED
  BY <1>1, <1>2

LEMMA ReconcileWorkspaceChangesOnlyRuns ==
    ASSUME NEW w \in World, NEW v \in ReconcileWorkspace(w)
    PROVE  OnlyRuns(w, v)
<1>1. PICK x \in Reconcile(w), T \in SUBSET Task : v \in DispatchReady(x, T)
  BY DEF ReconcileWorkspace
<1>2. OnlyRuns(w, x) /\ x \in World
  BY ReconcileChangesOnlyRuns DEF OnlyRuns
<1>3. OnlyRuns(x, v)
  BY <1>1, <1>2, DispatchReadyChangesOnlyRuns
<1> QED
  BY <1>2, <1>3, OnlyRunsTransitive

LEMMA ReleaseChangesOnlyRuns ==
    ASSUME NEW w \in World, NEW released \in SUBSET Task,
           NEW v \in Release(w, released)
    PROVE  OnlyRuns(w, v)
<1>1. CASE released = {}
  BY <1>1, OnlyRunsReflexive DEF Release
<1>2. CASE v \in DispatchReleased(w, released)
  <2>1. PICK S \in SUBSET Task : v \in StartAssignees(w, S, "issue", {})
    BY <1>2 DEF DispatchReleased
  <2>2. "issue" \in Trigger
    BY DEF Trigger
  <2> QED
    BY <2>1, <2>2, StartingAssigneesChangesOnlyRuns
<1>3. CASE v \in ReconcileWorkspace(w)
  BY <1>3, ReconcileWorkspaceChangesOnlyRuns
<1> QED
  BY <1>1, <1>2, <1>3 DEF Release

-----------------------------------------------------------------------------
(* Gates.                                                                   *)

LEMMA OnlyGatesTransitive ==
    ASSUME NEW u, NEW v, NEW w, OnlyGates(u, v), OnlyGates(v, w)
    PROVE  OnlyGates(u, w)
BY DEF OnlyGates

LEMMA HoldingIsAGate ==
    ASSUME NEW w \in World, NEW T, NEW reason \in Reason \ {"none"}
    PROVE  OnlyGates(w, Held(w, T, reason))
<1> DEFINE status == [t \in Task |-> IF t \in T THEN "blocked" ELSE w.status[t]]
           why == [t \in Task |-> IF t \in T THEN reason ELSE w.blocked_reason[t]]
<1>1. status \in [Task -> Status] /\ why \in [Task -> Reason]
  BY DEF World, Status
<1>2. Held(w, T, reason) = [w EXCEPT !.status = status, !.blocked_reason = why]
  BY DEF Held
<1>3. Coherent(w) => \A t \in Task \ w.moved : status[t] = "blocked" <=> why[t] # "none"
  BY DEF Coherent
<1> HIDE DEF status, why
<1> DEFINE v == [w EXCEPT !.status = status, !.blocked_reason = why]
<1>4. v \in World
  BY <1>1 DEF World
<1>5. Coherent(w) => Coherent(v)
  BY <1>3 DEF Coherent, World
<1> QED
  BY <1>2, <1>4, <1>5 DEF World, OnlyGates

LEMMA ReleasingIsAGate ==
    ASSUME NEW w \in World, NEW T
    PROVE  OnlyGates(w, Unheld(w, T))
<1> DEFINE status == [t \in Task |-> IF t \in T /\ w.status[t] = "blocked"
                                     THEN "open" ELSE w.status[t]]
           why == [t \in Task |-> IF t \in T THEN "none" ELSE w.blocked_reason[t]]
<1>1. status \in [Task -> Status] /\ why \in [Task -> Reason]
  BY DEF World, Status, Reason
<1>2. Unheld(w, T) = [w EXCEPT !.status = status, !.blocked_reason = why]
  BY DEF Unheld
<1>3. Coherent(w) => \A t \in Task \ w.moved : status[t] = "blocked" <=> why[t] # "none"
  BY DEF Coherent
<1> HIDE DEF status, why
<1> DEFINE v == [w EXCEPT !.status = status, !.blocked_reason = why]
<1>4. v \in World
  BY <1>1 DEF World
<1>5. Coherent(w) => Coherent(v)
  BY <1>3 DEF Coherent, World
<1> QED
  BY <1>2, <1>4, <1>5 DEF World, OnlyGates

LEMMA SyncIsAGate ==
    ASSUME NEW w \in World, NEW T
    PROVE  OnlyGates(w, SyncIssueBlockerHold(w, T))
<1>1. PICK C, W : SyncIssueBlockerHold(w, T) = Held(Unheld(w, C), W, "issue")
  BY DEF SyncIssueBlockerHold
<1>2. OnlyGates(w, Unheld(w, C)) /\ Unheld(w, C) \in World
  BY ReleasingIsAGate DEF OnlyGates
<1>3. OnlyGates(Unheld(w, C), Held(Unheld(w, C), W, "issue"))
  BY <1>2, HoldingIsAGate DEF Reason
<1> QED
  BY <1>1, <1>2, <1>3, OnlyGatesTransitive

LEMMA StaleHoldIsAGate ==
    ASSUME NEW w \in World, NEW T
    PROVE  OnlyGates(w, ApplyStaleDependencyHold(w, T))
BY HoldingIsAGate DEF ApplyStaleDependencyHold, Reason

LEMMA RefreshIsAGate ==
    ASSUME NEW w \in World, NEW t
    PROVE  OnlyGates(w, RefreshTaskRunGates(w, t))
BY StaleHoldIsAGate, SyncIsAGate, ReleasingIsAGate DEF RefreshTaskRunGates

-----------------------------------------------------------------------------
(* The cycle check of the kernel.                                           *)

\* Fewer arcs reach less.  This is the case of every command that only
\* removes blockers or dependencies.
LEMMA FewerArcsStayAcyclic ==
    ASSUME NEW Arc, NEW Node, NEW Less \in SUBSET Arc, Acyclic(Arc, Node)
    PROVE  Acyclic(Less, Node)
BY DEF Acyclic, Reaches, Closed

\* Adding the arc <<s, t>> closes no cycle when s is not reachable from t
\* beforehand: the check that both add_issue_blocker and
\* record_dependency_edge make.
LEMMA CheckedArcStaysAcyclic ==
    ASSUME NEW Arc, NEW Node, NEW s, NEW t,
           Acyclic(Arc, Node), ~Reaches(Arc, Node, t, s)
    PROVE  Acyclic(Arc \union {<<s, t>>}, Node)
<1> DEFINE More == Arc \union {<<s, t>>}
<1>1. PICK A \in SUBSET Node : t \in A /\ Closed(Arc, A) /\ s \notin A
  BY DEF Reaches
<1>2. Closed(More, A)
  BY <1>1 DEF Closed
<1>3. SUFFICES ASSUME NEW p \in More, Reaches(More, Node, p[2], p[1])
               PROVE  FALSE
  BY DEF Acyclic
<1>4. CASE p = <<s, t>>
  BY <1>1, <1>2, <1>3, <1>4 DEF Reaches
<1>5. CASE p \in Arc
  <2>1. PICK B \in SUBSET Node : p[2] \in B /\ Closed(Arc, B) /\ p[1] \notin B
    BY <1>5 DEF Acyclic, Reaches
  <2>2. CASE s \notin B
    <3>1. Closed(More, B)
      BY <2>1, <2>2 DEF Closed
    <3> QED
      BY <2>1, <3>1, <1>3 DEF Reaches
  <2>3. CASE s \in B
    \* Either the walk never meets A, or it is caught in it.
    <3>1. Closed(More, A \union B)
      BY <1>1, <2>1 DEF Closed
    <3>2. p[1] \in A
      BY <3>1, <2>1, <1>3 DEF Reaches
    <3>3. Closed(More, A \intersect B)
      BY <1>1, <2>1 DEF Closed
    <3>4. p[2] \in A \intersect B
      BY <3>2, <1>1, <1>5, <2>1 DEF Closed
    <3> QED
      BY <3>3, <3>4, <2>1, <1>3 DEF Reaches
  <2> QED
    BY <2>2, <2>3
<1> QED
  BY <1>4, <1>5

\* A refused arc would have closed a cycle.
LEMMA RefusedArcIsCyclic ==
    ASSUME NEW Arc, NEW Node, NEW s \in Node, NEW t \in Node,
           Reaches(Arc, Node, t, s)
    PROVE  ~Acyclic(Arc \union {<<s, t>>}, Node)
<1> DEFINE More == Arc \union {<<s, t>>}
<1>1. Reaches(More, Node, t, s)
  BY DEF Reaches, Closed
<1>2. <<s, t>> \in More /\ <<s, t>>[1] = s /\ <<s, t>>[2] = t
  OBVIOUS
<1> QED
  BY <1>1, <1>2 DEF Acyclic

\* The cycle check of add_issue_blocker and record_dependency_edge is exact:
\* of an acyclic relation it lets through all the arcs that keep it acyclic,
\* and no other.
THEOREM CycleCheckIsExact ==
    \A Arc, Node : Acyclic(Arc, Node) =>
        \A s, t \in Node :
            Acyclic(Arc \union {<<s, t>>}, Node) <=> ~Reaches(Arc, Node, t, s)
BY CheckedArcStaysAcyclic, RefusedArcIsCyclic

-----------------------------------------------------------------------------
(* Sound worlds.                                                           *)

Current(w) ==
    \A e \in Live(w) :
        LET edge == w.dependencies[e] IN
        edge.kind = "consumes" =>
            /\ edge.current = w.node_artifacts[edge.source]
            /\ edge.state = "active" => edge.observed = edge.current

\* The inductive invariant.  The four parts need each other only through the
\* first: an update of a world is known to have its value only where the
\* world is known to be a record of the right type.
Sound(w) ==
    /\ w \in World
    /\ Coherent(w)
    /\ Acyclic(HappensBeforeArcs(w), Task)
    /\ Current(w)

IInv == Sound(world)

-----------------------------------------------------------------------------
(* The scheduler and the gates.                                             *)

LEMMA RunsDoNotMatter ==
    ASSUME NEW w, NEW v, Sound(w), OnlyRuns(w, v)
    PROVE  Sound(v)
<1>1. Live(v) = Live(w)
  BY DEF OnlyRuns, Live
<1>2. HappensBeforeArcs(v) = HappensBeforeArcs(w)
  BY <1>1 DEF OnlyRuns, HappensBeforeArcs, BlockerArcs, DependencyArcs
<1> QED
  BY <1>1, <1>2 DEF OnlyRuns, Sound, Coherent, Current

LEMMA GatesDoNotMatter ==
    ASSUME NEW w, NEW v, Sound(w), OnlyGates(w, v)
    PROVE  Sound(v)
<1>1. Live(v) = Live(w)
  BY DEF OnlyGates, Live
<1>2. HappensBeforeArcs(v) = HappensBeforeArcs(w)
  BY <1>1 DEF OnlyGates, HappensBeforeArcs, BlockerArcs, DependencyArcs
<1> QED
  BY <1>1, <1>2 DEF OnlyGates, Sound, Current

LEMMA ReconcileIsSound ==
    ASSUME NEW w, Sound(w), NEW v \in Reconcile(w)
    PROVE  Sound(v)
BY ReconcileChangesOnlyRuns, RunsDoNotMatter DEF Sound

LEMMA ReconcileWorkspaceIsSound ==
    ASSUME NEW w, Sound(w), NEW v \in ReconcileWorkspace(w)
    PROVE  Sound(v)
BY ReconcileWorkspaceChangesOnlyRuns, RunsDoNotMatter DEF Sound

LEMMA DispatchReadyIsSound ==
    ASSUME NEW w, Sound(w), NEW T \in SUBSET Task, NEW v \in DispatchReady(w, T)
    PROVE  Sound(v)
BY DispatchReadyChangesOnlyRuns, RunsDoNotMatter DEF Sound

LEMMA ReleaseIsSound ==
    ASSUME NEW w, Sound(w), NEW T \in SUBSET Task, NEW v \in Release(w, T)
    PROVE  Sound(v)
BY ReleaseChangesOnlyRuns, RunsDoNotMatter DEF Sound

\* What Kernel::submit does after a command keeps a sound world sound.
LEMMA FinishIsSound ==
    ASSUME NEW w, Sound(w), NEW T \in SUBSET Task, Finish(w, T)
    PROVE  Sound(world')
BY ReleaseIsSound, ReconcileWorkspaceIsSound DEF Finish

LEMMA SyncIsSound ==
    ASSUME NEW w, Sound(w), NEW T
    PROVE  Sound(SyncIssueBlockerHold(w, T))
BY SyncIsAGate, GatesDoNotMatter DEF Sound

LEMMA HoldIsSound ==
    ASSUME NEW w, Sound(w), NEW T
    PROVE  Sound(Held(w, T, "gate"))
BY HoldingIsAGate, GatesDoNotMatter DEF Sound, Reason

LEMMA RefreshIsSound ==
    ASSUME NEW w, Sound(w), NEW t
    PROVE  Sound(RefreshTaskRunGates(w, t))
BY RefreshIsAGate, GatesDoNotMatter DEF Sound

\* Blockers and edges may always be taken away.
LEMMA FewerBlockersAreSound ==
    ASSUME NEW w, Sound(w), NEW B \in SUBSET w.issue_blockers
    PROVE  Sound([w EXCEPT !.issue_blockers = B])
<1> DEFINE v == [w EXCEPT !.issue_blockers = B]
<1>1. /\ v \in World /\ v.dependencies = w.dependencies
      /\ v.status = w.status /\ v.blocked_reason = w.blocked_reason
      /\ v.node_artifacts = w.node_artifacts /\ v.issue_blockers = B
      /\ v.moved = w.moved
  BY DEF Sound, World
<1> HIDE DEF v
<1>2. Live(v) = Live(w)
  BY <1>1 DEF Live
<1>3. HappensBeforeArcs(v) \subseteq HappensBeforeArcs(w)
  BY <1>1, <1>2 DEF HappensBeforeArcs, BlockerArcs, DependencyArcs
<1>4. Acyclic(HappensBeforeArcs(v), Task)
  BY <1>3, FewerArcsStayAcyclic DEF Sound
<1>5. Coherent(v) /\ Current(v)
  BY <1>1, <1>2 DEF Sound, Coherent, Current
<1> QED
  BY <1>1, <1>4, <1>5 DEF Sound, v

LEMMA CheckedBlockerIsSound ==
    ASSUME NEW w, Sound(w), NEW t \in Task, NEW b \in Task,
           ~IssueGraphReaches(w, t, b)
    PROVE  Sound([w EXCEPT !.issue_blockers = @ \union {<<t, b>>}])
<1> DEFINE B == w.issue_blockers \union {<<t, b>>}
           v == [w EXCEPT !.issue_blockers = B]
<1>0. w \in World /\ B \in SUBSET (Task \X Task)
  <2>1. w \in World
    BY DEF Sound
  <2>2. w.issue_blockers \in SUBSET (Task \X Task)
    BY <2>1 DEF World
  <2>3. <<t, b>> \in Task \X Task
    OBVIOUS
  <2> QED
    BY <2>1, <2>2, <2>3
<1> HIDE DEF B
<1>1. /\ v \in World /\ v.dependencies = w.dependencies
      /\ v.status = w.status /\ v.blocked_reason = w.blocked_reason
      /\ v.node_artifacts = w.node_artifacts /\ v.issue_blockers = B
      /\ v.moved = w.moved
  BY <1>0 DEF World
<1> HIDE DEF v
<1>2. Live(v) = Live(w)
  BY <1>1 DEF Live
<1>3. HappensBeforeArcs(v) = HappensBeforeArcs(w) \union {<<b, t>>}
  <2>1. <<t, b>>[1] = t /\ <<t, b>>[2] = b
    OBVIOUS
  <2>2. BlockerArcs(v) = BlockerArcs(w) \union {<<b, t>>}
    BY <1>1, <2>1, Zenon DEF BlockerArcs, B
  <2>3. DependencyArcs(v) = DependencyArcs(w)
    BY <1>1, <1>2 DEF DependencyArcs
  <2> QED
    BY <2>2, <2>3 DEF HappensBeforeArcs
<1>4. Acyclic(HappensBeforeArcs(v), Task)
  BY <1>3, CheckedArcStaysAcyclic DEF Sound, IssueGraphReaches
<1>5. Coherent(v) /\ Current(v)
  BY <1>1, <1>2 DEF Sound, Coherent, Current
<1> QED
  BY <1>1, <1>4, <1>5 DEF Sound, v, B

-----------------------------------------------------------------------------
(* Dependencies.                                                            *)

\* An edge that keeps its ends and its version may change the rest, as long
\* as it does not become active without being accepted.
LEMMA EdgeChangedIsSound ==
    ASSUME NEW w, Sound(w), NEW e \in Live(w), NEW edge \in Edge,
           edge.source = w.dependencies[e].source,
           edge.target = w.dependencies[e].target,
           edge.kind = w.dependencies[e].kind,
           edge.current = w.dependencies[e].current,
           edge.state = "active" => edge.observed = edge.current
    PROVE  Sound([w EXCEPT !.dependencies = [@ EXCEPT ![e] = edge]])
<1> DEFINE D == [w.dependencies EXCEPT ![e] = edge]
           v == [w EXCEPT !.dependencies = D]
<1>1. /\ w \in World /\ e \in EdgeId /\ w.dependencies[e] \in Edge
      /\ w.dependencies \in [EdgeId -> Edge \union {Unused, Removed}]
  BY DEF Sound, World, Live
<1>2. /\ D \in [EdgeId -> Edge \union {Unused, Removed}]
      /\ D[e] = edge /\ \A x \in EdgeId \ {e} : D[x] = w.dependencies[x]
  BY <1>1
<1> HIDE DEF D
<1>3. /\ v \in World /\ v.dependencies = D
      /\ v.issue_blockers = w.issue_blockers
      /\ v.node_artifacts = w.node_artifacts
      /\ v.status = w.status /\ v.blocked_reason = w.blocked_reason /\ v.moved = w.moved
  BY <1>1, <1>2 DEF World
<1> HIDE DEF v
<1>4. Live(v) = Live(w)
  BY <1>1, <1>2, <1>3, ConstantsAssumption DEF Live
<1>5. HappensBeforeArcs(v) = HappensBeforeArcs(w)
  <2>1. \A x \in Live(w) : /\ D[x].source = w.dependencies[x].source
                           /\ D[x].target = w.dependencies[x].target
    BY <1>2 DEF Live
  <2>2. DependencyArcs(v) = DependencyArcs(w)
    BY <1>3, <1>4, <2>1 DEF DependencyArcs
  <2> QED
    BY <1>3, <2>2 DEF HappensBeforeArcs, BlockerArcs
<1>6. Current(v)
  BY <1>2, <1>3, <1>4 DEF Sound, Current, Live
<1>7. Coherent(v) /\ Acyclic(HappensBeforeArcs(v), Task)
  BY <1>3, <1>5 DEF Sound, Coherent
<1> QED
  BY <1>3, <1>6, <1>7 DEF Sound, v, D

LEMMA ReaffirmedIsSound ==
    ASSUME NEW w, Sound(w), NEW e \in Live(w)
    PROVE  Sound(Reaffirmed(w, e))
<1> DEFINE old == w.dependencies[e]
           edge == [old EXCEPT !.state = "active", !.observed = old.current]
           v == [w EXCEPT !.dependencies = [@ EXCEPT ![e] = edge]]
<1>1. w \in World /\ e \in EdgeId /\ old \in Edge
  BY DEF Sound, World, Live
<1>2. edge \in Edge /\ edge.source = old.source /\ edge.target = old.target
      /\ edge.kind = old.kind /\ edge.current = old.current
      /\ edge.observed = edge.current
  BY <1>1 DEF Edge, EdgeState
<1>3. Sound(v)
  BY <1>2, EdgeChangedIsSound
<1>4. Reaffirmed(w, e) = RefreshTaskRunGates(v, old.target)
  <2>1. /\ "dependencies" \in DOMAIN w /\ e \in DOMAIN w.dependencies
        /\ "state" \in DOMAIN old /\ "observed" \in DOMAIN old
    BY <1>1 DEF World, Edge
  <2> QED
    BY <2>1 DEF Reaffirmed
<1> QED
  BY <1>3, <1>4, RefreshIsSound

LEMMA WithStateIsSound ==
    ASSUME NEW w, Sound(w), NEW e \in Live(w), NEW state \in EdgeState \ {"active"}
    PROVE  Sound(WithState(w, e, state))
<1> DEFINE old == w.dependencies[e]
           edge == [old EXCEPT !.state = state]
           v == [w EXCEPT !.dependencies = [@ EXCEPT ![e] = edge]]
<1>1. w \in World /\ e \in EdgeId /\ old \in Edge
  BY DEF Sound, World, Live
<1>2. edge \in Edge /\ edge.source = old.source /\ edge.target = old.target
      /\ edge.kind = old.kind /\ edge.current = old.current
      /\ edge.state # "active"
  BY <1>1 DEF Edge, EdgeState
<1>3. Sound(v)
  BY <1>2, EdgeChangedIsSound
<1>4. WithState(w, e, state) = RefreshTaskRunGates(v, old.target)
  BY DEF WithState
<1> QED
  BY <1>3, <1>4, RefreshIsSound

LEMMA WithoutIsSound ==
    ASSUME NEW w, Sound(w), NEW e \in Live(w)
    PROVE  Sound(Without(w, e))
<1> DEFINE D == [w.dependencies EXCEPT ![e] = Removed]
           v == [w EXCEPT !.dependencies = D]
<1>1. /\ w \in World /\ e \in EdgeId
      /\ w.dependencies \in [EdgeId -> Edge \union {Unused, Removed}]
  BY DEF Sound, World, Live
<1>2. /\ D \in [EdgeId -> Edge \union {Unused, Removed}]
      /\ D[e] = Removed /\ \A x \in EdgeId \ {e} : D[x] = w.dependencies[x]
  BY <1>1
<1>3. Without(w, e) = RefreshTaskRunGates(v, w.dependencies[e].target)
  BY DEF Without
<1> HIDE DEF D
<1>4. /\ v \in World /\ v.dependencies = D
      /\ v.issue_blockers = w.issue_blockers
      /\ v.node_artifacts = w.node_artifacts
      /\ v.status = w.status /\ v.blocked_reason = w.blocked_reason /\ v.moved = w.moved
  BY <1>1, <1>2 DEF World
<1> HIDE DEF v
<1>5. Live(v) = Live(w) \ {e}
  BY <1>1, <1>2, <1>4 DEF Live
<1>6. HappensBeforeArcs(v) \subseteq HappensBeforeArcs(w)
  <2>1. DependencyArcs(v) \subseteq DependencyArcs(w)
    BY <1>2, <1>4, <1>5 DEF DependencyArcs, Live
  <2> QED
    BY <1>4, <2>1 DEF HappensBeforeArcs, BlockerArcs
<1>7. Acyclic(HappensBeforeArcs(v), Task)
  BY <1>6, FewerArcsStayAcyclic DEF Sound
<1>8. Current(v) /\ Coherent(v)
  BY <1>2, <1>4, <1>5 DEF Sound, Current, Coherent, Live
<1>9. Sound(v)
  BY <1>4, <1>7, <1>8 DEF Sound
<1> QED
  BY <1>3, <1>9, RefreshIsSound

LEMMA DecidedIsSound ==
    ASSUME NEW w, Sound(w), NEW e \in Live(w), NEW choice \in Decision
    PROVE  Sound(Decided(w, e, choice))
<1>1. "pending" \in EdgeState \ {"active"} /\ "rejected" \in EdgeState \ {"active"}
  BY DEF EdgeState
<1>2. CASE choice = "reaffirm"
  BY <1>2, ReaffirmedIsSound DEF Decided
<1>3. CASE choice = "remove"
  BY <1>3, WithoutIsSound DEF Decided
<1>4. CASE choice = "hold"
  BY <1>1, <1>4, WithStateIsSound DEF Decided
<1>5. CASE choice = "replan"
  BY <1>1, <1>5, WithStateIsSound DEF Decided
<1> QED
  BY <1>2, <1>3, <1>4, <1>5 DEF Decision

\* A recorded edge was checked against both lists, and starts at its
\* producer's present version.
LEMMA RecordedIsSound ==
    ASSUME NEW w, Sound(w), NEW e \in EdgeId, w.dependencies[e] = Unused,
           NEW s \in Task, NEW t \in Task, NEW kind \in EdgeKind,
           NEW u \in Recorded(w, e, s, t, kind)
    PROVE  Sound(u)
<1> DEFINE version == w.node_artifacts[s]
           edge == NewEdge(w, s, t, kind)
           D == [w.dependencies EXCEPT ![e] = edge]
           v == [w EXCEPT !.dependencies = D]
<1>1. /\ w \in World /\ w.node_artifacts \in [Task -> Nat]
      /\ w.dependencies \in [EdgeId -> Edge \union {Unused, Removed}]
  BY DEF Sound, World
<1>2. /\ edge \in Edge /\ edge.source = s /\ edge.target = t
      /\ edge.observed = version /\ edge.current = version
  BY <1>1 DEF Edge, EdgeState, NewEdge
<1>3. u = w \/ (u = v /\ ~IssueGraphReaches(w, t, s))
  BY DEF Recorded
<1> HIDE DEF edge
<1>4. /\ D \in [EdgeId -> Edge \union {Unused, Removed}]
      /\ D[e] = edge /\ \A x \in EdgeId \ {e} : D[x] = w.dependencies[x]
  BY <1>1, <1>2
<1> HIDE DEF D
<1>5. SUFFICES ASSUME u = v, ~IssueGraphReaches(w, t, s)
               PROVE  Sound(v)
  BY <1>3
<1>6. /\ v \in World /\ v.dependencies = D
      /\ v.issue_blockers = w.issue_blockers
      /\ v.node_artifacts = w.node_artifacts
      /\ v.status = w.status /\ v.blocked_reason = w.blocked_reason /\ v.moved = w.moved
  BY <1>1, <1>4 DEF World
<1> HIDE DEF v
<1>7. Live(v) = Live(w) \union {e}
  BY <1>2, <1>4, <1>6, ConstantsAssumption DEF Live
<1>8. HappensBeforeArcs(v) = HappensBeforeArcs(w) \union {<<s, t>>}
  <2>1. e \notin Live(w)
    BY DEF Live
  <2>2. \A x \in Live(w) : D[x] = w.dependencies[x]
    BY <2>1, <1>4 DEF Live
  <2>3. DependencyArcs(v) = DependencyArcs(w) \union {<<s, t>>}
    BY <1>2, <1>4, <1>6, <1>7, <2>2 DEF DependencyArcs
  <2> QED
    BY <1>6, <2>3 DEF HappensBeforeArcs, BlockerArcs
<1>9. Acyclic(HappensBeforeArcs(v), Task)
  BY <1>5, <1>8, CheckedArcStaysAcyclic DEF Sound, IssueGraphReaches
<1>10. Current(v)
  BY <1>2, <1>4, <1>6, <1>7 DEF Sound, Current, Live
<1>11. Coherent(v)
  BY <1>6 DEF Sound, Coherent
<1> QED
  BY <1>6, <1>9, <1>10, <1>11 DEF Sound

-----------------------------------------------------------------------------
(* Statuses, patches and runs.                                              *)

\* Statuses and reasons may be anything that is coherent where no column was
\* sorted.
LEMMA StatusesReplaced ==
    ASSUME NEW w, Sound(w), NEW S \in [Task -> Status], NEW R \in [Task -> Reason],
           NEW M \in SUBSET Task,
           \A t \in Task \ M : S[t] = "blocked" <=> R[t] # "none"
    PROVE  Sound([w EXCEPT !.status = S, !.blocked_reason = R, !.moved = M])
<1> DEFINE v == [w EXCEPT !.status = S, !.blocked_reason = R, !.moved = M]
<1>1. /\ v \in World /\ v.dependencies = w.dependencies
      /\ v.issue_blockers = w.issue_blockers
      /\ v.node_artifacts = w.node_artifacts
      /\ v.status = S /\ v.blocked_reason = R /\ v.moved = M
  BY DEF Sound, World
<1> HIDE DEF v
<1>2. Live(v) = Live(w)
  BY <1>1 DEF Live
<1>3. HappensBeforeArcs(v) = HappensBeforeArcs(w)
  BY <1>1, <1>2 DEF HappensBeforeArcs, BlockerArcs, DependencyArcs
<1>4. Current(v) /\ Coherent(v)
  BY <1>1, <1>2 DEF Sound, Current, Coherent
<1> QED
  BY <1>1, <1>3, <1>4 DEF Sound, v

LEMMA WithStatusIsSound ==
    ASSUME NEW w, Sound(w), NEW t \in Task, NEW s \in Status
    PROVE  Sound(WithStatus(w, t, s))
<1> DEFINE
    why == IF s # "blocked" THEN "none"
           ELSE IF w.blocked_reason[t] = "none" THEN "marked"
           ELSE w.blocked_reason[t]
    status == [w.status EXCEPT ![t] = s]
    reason == [w.blocked_reason EXCEPT ![t] = why]
    moved == w.moved \ {t}
<1>1. /\ w \in World /\ w.status \in [Task -> Status]
      /\ w.blocked_reason \in [Task -> Reason] /\ moved \in SUBSET Task
  BY DEF Sound, World
<1>2. why \in Reason /\ (s = "blocked" <=> why # "none")
  BY <1>1 DEF Reason
<1>3. WithStatus(w, t, s)
        = [w EXCEPT !.status = status, !.blocked_reason = reason, !.moved = moved]
  BY <1>1 DEF WithStatus
<1> HIDE DEF why
<1>4. status \in [Task -> Status] /\ reason \in [Task -> Reason]
  BY <1>1, <1>2
<1>5. \A x \in Task \ moved : status[x] = "blocked" <=> reason[x] # "none"
  BY <1>1, <1>2 DEF Sound, Coherent
<1> HIDE DEF status, reason, moved
<1>6. Sound([w EXCEPT !.status = status, !.blocked_reason = reason, !.moved = moved])
  BY <1>1, <1>4, <1>5, StatusesReplaced
<1> QED
  BY <1>3, <1>6, Zenon

\* A column that is sorted parts status and reason, and says so.
LEMMA ReorderedIsSound ==
    ASSUME NEW w, Sound(w), NEW T \in SUBSET Task, NEW s \in Status
    PROVE  Sound(Reordered(w, T, s))
<1> DEFINE status == [t \in Task |-> IF t \in T THEN s ELSE w.status[t]]
           moved == w.moved \union T
<1>1. /\ w \in World /\ w.blocked_reason \in [Task -> Reason]
      /\ status \in [Task -> Status] /\ moved \in SUBSET Task
  BY DEF Sound, World
<1>2. \A t \in Task \ moved : status[t] = "blocked" <=> w.blocked_reason[t] # "none"
  BY DEF Sound, Coherent
<1>3. Reordered(w, T, s)
        = [w EXCEPT !.status = status, !.blocked_reason = w.blocked_reason, !.moved = moved]
  BY <1>1 DEF Reordered, World
<1> HIDE DEF status, moved
<1>4. Sound([w EXCEPT !.status = status, !.blocked_reason = w.blocked_reason, !.moved = moved])
  BY <1>1, <1>2, StatusesReplaced
<1> QED
  BY <1>3, <1>4, Zenon

\* The tasks of D are done and have no reason any more.
LEMMA DoneIsSound ==
    ASSUME NEW w, Sound(w), NEW D \in SUBSET Task
    PROVE  Sound([w EXCEPT
                !.status = [t \in Task |-> IF t \in D THEN "done" ELSE @[t]],
                !.blocked_reason = [t \in Task |-> IF t \in D THEN "none" ELSE @[t]],
                !.moved = @ \ D])
<1> DEFINE status == [t \in Task |-> IF t \in D THEN "done" ELSE w.status[t]]
           reason == [t \in Task |-> IF t \in D THEN "none" ELSE w.blocked_reason[t]]
           moved == w.moved \ D
<1>1. /\ status \in [Task -> Status] /\ reason \in [Task -> Reason]
      /\ moved \in SUBSET Task
  BY DEF Sound, World, Status, Reason
<1>2. \A t \in Task \ moved : status[t] = "blocked" <=> reason[t] # "none"
  BY DEF Sound, Coherent
<1>3. Sound([w EXCEPT !.status = status, !.blocked_reason = reason, !.moved = moved])
  <2> HIDE DEF status, reason, moved
  <2> QED
    BY <1>1, <1>2, StatusesReplaced
<1> QED
  BY <1>3

\* A change of the materializations and the successes.
LEMMA RecordsDoNotMatter ==
    ASSUME NEW w, Sound(w), NEW M \in [Task -> {"none", "active", "stale"}],
           NEW S \in SUBSET (Task \X Fingerprint)
    PROVE  Sound([w EXCEPT !.materialization = M, !.successes = S])
<1> DEFINE v == [w EXCEPT !.materialization = M, !.successes = S]
<1>1. /\ v \in World /\ v.dependencies = w.dependencies
      /\ v.issue_blockers = w.issue_blockers
      /\ v.node_artifacts = w.node_artifacts
      /\ v.status = w.status /\ v.blocked_reason = w.blocked_reason /\ v.moved = w.moved
  BY DEF Sound, World
<1> HIDE DEF v
<1>2. Live(v) = Live(w)
  BY <1>1 DEF Live
<1>3. HappensBeforeArcs(v) = HappensBeforeArcs(w)
  BY <1>1, <1>2 DEF HappensBeforeArcs, BlockerArcs, DependencyArcs
<1> QED
  BY <1>1, <1>2, <1>3 DEF Sound, Coherent, Current, v

LEMMA MarkSucceededIsSound ==
    ASSUME NEW w, Sound(w), NEW n \in Task
    PROVE  Sound(MarkSucceeded(w, n))
<1> DEFINE M == [w.materialization EXCEPT ![n] = "active"]
           S == w.successes \union {<<n, InputFingerprint(w, n)>>}
<1>1. w \in World /\ InputFingerprint(w, n) \in Fingerprint
  BY FingerprintsAreTyped DEF Sound
<1>2. M \in [Task -> {"none", "active", "stale"}] /\ S \in SUBSET (Task \X Fingerprint)
  BY <1>1 DEF World
<1>3. MarkSucceeded(w, n) = [w EXCEPT !.materialization = M, !.successes = S]
  BY DEF MarkSucceeded
<1> HIDE DEF M, S
<1>4. Sound([w EXCEPT !.materialization = M, !.successes = S])
  BY <1>2, RecordsDoNotMatter
<1> QED
  BY <1>3, <1>4

\* One run is replaced by another.
LEMMA RunReplacedIsSound ==
    ASSUME NEW w, Sound(w), NEW t \in Task, NEW i \in DOMAIN w.runs[t],
           NEW run \in Run
    PROVE  Sound([w EXCEPT !.runs[t][i] = run])
<1> DEFINE s == [w.runs[t] EXCEPT ![i] = run]
           R == [w.runs EXCEPT ![t] = s]
<1>1. w \in World /\ w.runs \in [Task -> Seq(Run)]
  BY DEF Sound, World
<1>2. s \in Seq(Run)
  BY <1>1
<1> HIDE DEF s
<1>3. R \in [Task -> Seq(Run)]
  BY <1>1, <1>2
<1>4. [w EXCEPT !.runs[t][i] = run]
        = [w EXCEPT !.runs = R]
  BY DEF s
<1> HIDE DEF R
<1> QED
  BY <1>1, <1>3, <1>4, RunsReplaced, RunsDoNotMatter

LEMMA StartedIsSound ==
    ASSUME NEW w, Sound(w), NEW t \in Task, NEW run \in Run
    PROVE  Sound(Started(w, [x \in {t} |-> run]))
BY StartsChangeOnlyRuns, RunsDoNotMatter DEF Sound

LEMMA StaleEdge ==
    \A edge \in Edge : \A version \in Nat :
        LET new == [edge EXCEPT !.state = "stale", !.generation = @ + 1,
                                !.current = version]
        IN  /\ new \in Edge /\ new.state = "stale" /\ new.current = version
            /\ new.source = edge.source /\ new.target = edge.target
            /\ new.kind = edge.kind
<1> SUFFICES ASSUME NEW edge \in Edge, NEW version \in Nat
             PROVE  LET new == [edge EXCEPT !.state = "stale", !.generation = @ + 1,
                                            !.current = version]
                    IN  /\ new \in Edge /\ new.state = "stale" /\ new.current = version
                        /\ new.source = edge.source /\ new.target = edge.target
                        /\ new.kind = edge.kind
  OBVIOUS
<1>1. edge.generation + 1 \in Nat /\ "stale" \in EdgeState
  BY DEF Edge, EdgeState
<1> QED
  BY <1>1 DEF Edge

\* bump_node_artifact moves a producer's version and invalidate_dependencies
\* moves the version every consumer's edge knows: never one without the other.
LEMMA InvalidatedIsSound ==
    ASSUME NEW w, Sound(w), NEW t \in Task
    PROVE  Sound(Invalidated(w, t))
<1> DEFINE
    version == w.node_artifacts[t] + 1
    consumers == LiveConsumers(w, t)
    stale(e) == IF /\ e \in Live(w)
                   /\ Consumes(w, e)
                   /\ w.dependencies[e].source = t
                THEN [w.dependencies[e] EXCEPT !.state = "stale",
                                               !.generation = @ + 1,
                                               !.current = version]
                ELSE w.dependencies[e]
    A == [w.node_artifacts EXCEPT ![t] = version]
    D == [e \in EdgeId |-> stale(e)]
    v == [w EXCEPT !.node_artifacts = A, !.dependencies = D]
    held == ApplyStaleDependencyHold(FenceAttempts(v, consumers), consumers)
    M == [c \in Task |->
            IF c \in consumers /\ held.status[c] \in {"done", "cancelled"}
            THEN "stale" ELSE held.materialization[c]]
<1>1. /\ w \in World /\ w.node_artifacts \in [Task -> Nat]
      /\ w.dependencies \in [EdgeId -> Edge \union {Unused, Removed}]
  BY DEF Sound, World
<1>2. Invalidated(w, t) = [held EXCEPT !.materialization = M]
  BY <1>1 DEF Invalidated
<1>3. /\ version \in Nat /\ A \in [Task -> Nat] /\ A[t] = version
      /\ \A x \in Task \ {t} : A[x] = w.node_artifacts[x]
  BY <1>1
<1>4. ASSUME NEW e \in Live(w)
      PROVE  /\ stale(e) \in Edge
             /\ stale(e).source = w.dependencies[e].source
             /\ stale(e).target = w.dependencies[e].target
             /\ stale(e).kind = w.dependencies[e].kind
             /\ w.dependencies[e].kind = "consumes" =>
                /\ stale(e).current = A[stale(e).source]
                /\ stale(e).state = "active" => stale(e).observed = stale(e).current
  <2>1. e \in EdgeId /\ w.dependencies[e] \in Edge
    BY <1>1 DEF Live
  <2>2. CASE Consumes(w, e) /\ w.dependencies[e].source = t
    <3> DEFINE new == [w.dependencies[e] EXCEPT !.state = "stale",
                                                !.generation = @ + 1,
                                                !.current = version]
    <3>1. stale(e) = new
      BY <2>2
    <3>2. /\ new \in Edge /\ new.state = "stale" /\ new.current = version
          /\ new.source = t /\ new.target = w.dependencies[e].target
          /\ new.kind = w.dependencies[e].kind
      <4>1. w.dependencies[e] \in Edge /\ version \in Nat
        BY <2>1, <1>3
      <4> HIDE DEF version
      <4> QED
        BY <4>1, <2>2, StaleEdge
    <3> HIDE DEF new, stale
    <3> QED
      BY <2>2, <3>1, <3>2, <1>3
  <2>3. CASE ~(Consumes(w, e) /\ w.dependencies[e].source = t)
    <3>1. stale(e) = w.dependencies[e]
      BY <2>3
    <3> HIDE DEF stale
    <3>2. w.dependencies[e].kind = "consumes" =>
            /\ w.dependencies[e].source # t
            /\ w.dependencies[e].source \in Task
      BY <2>1, <2>3 DEF Consumes, Edge
    <3> QED
      BY <2>1, <3>1, <3>2, <1>3 DEF Sound, Current
  <2> QED
    BY <2>2, <2>3
<1>5. \A e \in EdgeId \ Live(w) : D[e] = w.dependencies[e]
  OBVIOUS
<1>6. \A e \in EdgeId : D[e] = stale(e)
  OBVIOUS
<1>7. D \in [EdgeId -> Edge \union {Unused, Removed}]
  <2> HIDE DEF stale
  <2> QED
    BY <1>1, <1>4, <1>5, <1>6
<1> HIDE DEF stale, D, A
<1>8. /\ v \in World /\ v.dependencies = D /\ v.node_artifacts = A
      /\ v.issue_blockers = w.issue_blockers
      /\ v.status = w.status /\ v.blocked_reason = w.blocked_reason /\ v.moved = w.moved
  BY <1>1, <1>3, <1>7 DEF World
<1> HIDE DEF v
<1>9. Live(v) = Live(w)
  BY <1>1, <1>4, <1>5, <1>6, <1>8, ConstantsAssumption DEF Live
<1>10. HappensBeforeArcs(v) = HappensBeforeArcs(w)
  <2>1. \A e \in Live(w) : /\ D[e].source = w.dependencies[e].source
                           /\ D[e].target = w.dependencies[e].target
    BY <1>4, <1>6 DEF Live
  <2>2. DependencyArcs(v) = DependencyArcs(w)
    BY <1>8, <1>9, <2>1 DEF DependencyArcs
  <2> QED
    BY <1>8, <2>2 DEF HappensBeforeArcs, BlockerArcs
<1>11. Current(v)
  BY <1>4, <1>6, <1>8, <1>9 DEF Current, Live
<1>12. Sound(v)
  BY <1>8, <1>10, <1>11 DEF Sound, Coherent
<1>13. Sound(held)
  <2>1. Sound(FenceAttempts(v, consumers))
    BY <1>12, FencesChangeOnlyRuns, RunsDoNotMatter DEF Sound
  <2> QED
    BY <2>1, StaleHoldIsAGate, GatesDoNotMatter DEF Sound
<1> HIDE DEF held
<1>14. M \in [Task -> {"none", "active", "stale"}]
  BY <1>13 DEF Sound, World
<1> HIDE DEF M
<1>15. Sound([held EXCEPT !.materialization = M, !.successes = held.successes])
  BY <1>13, <1>14, RecordsDoNotMatter DEF Sound, World
<1>16. [held EXCEPT !.materialization = M, !.successes = held.successes]
        = [held EXCEPT !.materialization = M]
  BY <1>13 DEF Sound, World
<1> QED
  BY <1>2, <1>15, <1>16

LEMMA PausingIsSound ==
    ASSUME NEW w, Sound(w), NEW T
    PROVE  Sound(PauseStaleConsumers(w, T))
<1> DEFINE
    Pause(t, run) ==
        IF t \in T /\ ~Settled(w, t) /\ run.status = "running"
        THEN [run EXCEPT !.status = "paused", !.was_paused = TRUE]
        ELSE run
    R == [t \in Task |-> [i \in DOMAIN w.runs[t] |-> Pause(t, w.runs[t][i])]]
<1>1. \A t \in Task, run \in Run : Pause(t, run) \in Run
  BY DEF Run, RunStatus
<1> HIDE DEF Pause
<1>2. R \in [Task -> Seq(Run)]
  <2> SUFFICES ASSUME NEW t \in Task PROVE R[t] \in Seq(Run)
    OBVIOUS
  <2>1. w.runs[t] \in Seq(Run)
    BY DEF Sound, World
  <2>2. \A i \in DOMAIN w.runs[t] : R[t][i] \in Run
    BY <1>1, <2>1
  <2> QED
    BY <2>1, <2>2, SameLength
<1>3. PauseStaleConsumers(w, T) = [w EXCEPT !.runs = R]
  BY DEF PauseStaleConsumers, EachRun, Pause
<1> QED
  BY <1>2, <1>3, RunsReplaced, RunsDoNotMatter DEF Sound

\* interrupt_orphaned_executions
LEMMA RestartIsSound ==
    ASSUME IInv, Restart
    PROVE  Sound(world')
<1> DEFINE
    Interrupt(t, run) ==
        [run EXCEPT
            !.status = IF @ = "running" THEN "interrupted" ELSE @,
            !.lease  = IF @ = "running" THEN "interrupted" ELSE @]
    R == [t \in Task |->
            [i \in DOMAIN world.runs[t] |-> Interrupt(t, world.runs[t][i])]]
<1>1. \A t \in Task, run \in Run : Interrupt(t, run) \in Run
  <2> SUFFICES ASSUME NEW t \in Task, NEW run \in Run
               PROVE  Interrupt(t, run) \in Run
    OBVIOUS
  <2> DEFINE
    status == IF run.status = "running" THEN "interrupted" ELSE run.status
    lease == IF run.lease = "running" THEN "interrupted" ELSE run.lease
  <2>1. status \in RunStatus /\ lease \in Lease
    BY DEF Run, RunStatus, Lease
  <2> HIDE DEF status, lease
  <2>2. [run EXCEPT !.status = status, !.lease = lease] \in Run
    BY <2>1 DEF Run
  <2> QED
    BY <2>2 DEF status, lease
<1> HIDE DEF Interrupt
<1>2. R \in [Task -> Seq(Run)]
  <2> SUFFICES ASSUME NEW t \in Task PROVE R[t] \in Seq(Run)
    OBVIOUS
  <2>1. world.runs[t] \in Seq(Run)
    BY DEF IInv, Sound, World
  <2>2. \A i \in DOMAIN world.runs[t] : R[t][i] \in Run
    BY <1>1, <2>1
  <2> QED
    BY <2>1, <2>2, SameLength
<1>3. world' = [world EXCEPT !.runs = R]
  BY DEF Restart, EachRun, Interrupt
<1> QED
  BY <1>2, <1>3, RunsReplaced, RunsDoNotMatter DEF IInv, Sound

\* A run keeps its type when its status, its lease or its fingerprint change.
LEMMA RunChanged ==
    ASSUME NEW run \in Run, NEW status \in RunStatus, NEW lease \in Lease,
           NEW fingerprint \in Fingerprint
    PROVE  /\ [run EXCEPT !.status = status, !.lease = lease] \in Run
           /\ [run EXCEPT !.lease = lease, !.status = status] \in Run
           /\ \A attempt \in Nat :
                [run EXCEPT !.lease = lease, !.attempt = attempt,
                            !.fingerprint = fingerprint] \in Run
BY DEF Run

LEMMA EnsureAttemptIsSound ==
    ASSUME NEW w, Sound(w), NEW t \in Task, NEW i \in DOMAIN w.runs[t]
    PROVE  /\ Sound(EnsureAttempt(w, t, i))
           /\ DOMAIN EnsureAttempt(w, t, i).runs[t] = DOMAIN w.runs[t]
<1> DEFINE
    run == [w.runs[t][i] EXCEPT !.lease = "running",
                                !.attempt = NextAttempt(w, t),
                                !.fingerprint = InputFingerprint(w, t)]
    R == [w.runs EXCEPT ![t] = [w.runs[t] EXCEPT ![i] = run]]
    A == [w.attempts EXCEPT ![t] = NextAttempt(w, t)]
    v == [w EXCEPT !.runs = R, !.attempts = A]
<1>1. w \in World /\ w.runs \in [Task -> Seq(Run)] /\ w.runs[t] \in Seq(Run)
  BY DEF Sound, World
<1>2. w.runs[t][i] \in Run
  BY <1>1
<1>3. /\ "running" \in Lease /\ NextAttempt(w, t) \in Nat
      /\ InputFingerprint(w, t) \in Fingerprint
  BY <1>1, AttemptsAreNumbered, FingerprintsAreTyped DEF Lease
<1>4. run \in Run
  BY <1>2, <1>3, RunChanged DEF Run
<1>5. EnsureAttempt(w, t, i) = w \/ EnsureAttempt(w, t, i) = v
  BY <1>1, <1>2 DEF EnsureAttempt, World, Run
<1> HIDE DEF run
<1>6. R \in [Task -> Seq(Run)] /\ DOMAIN R[t] = DOMAIN w.runs[t]
  BY <1>1, <1>4
<1>7. A \in [Task -> Nat]
  BY <1>1, <1>3 DEF World
<1> HIDE DEF R, A
<1>8. OnlyRuns(w, v) /\ v.runs = R
  BY <1>1, <1>6, <1>7, RunsAndAttemptsReplaced DEF World
<1> HIDE DEF v
<1> QED
  BY <1>5, <1>6, <1>8, RunsDoNotMatter

LEMMA SessionEndedIsSound ==
    ASSUME NEW w, Sound(w), NEW t \in Task, NEW i \in DOMAIN w.runs[t],
           NEW ok \in BOOLEAN
    PROVE  Sound(SessionEnded(w, t, i, ok))
<1> DEFINE
    run == w.runs[t][i]
    isReview == run.trigger = "graph_review"
    completes == ~(ok /\ isReview) /\ run.lease \notin {"none", "succeeded", "failed"}
    lease == IF completes THEN (IF ok THEN "succeeded" ELSE "failed")
             ELSE IF ok /\ isReview /\ run.lease = "running" THEN "paused"
             ELSE run.lease
    status == IF ok THEN "completed" ELSE "failed"
    new == [run EXCEPT !.lease = lease, !.status = status]
    ended == [w EXCEPT !.runs[t][i] = new]
<1>1. w \in World /\ w.runs \in [Task -> Seq(Run)] /\ w.runs[t] \in Seq(Run)
  BY DEF Sound, World
<1>2. run \in Run
  BY <1>1
<1>3. lease \in Lease /\ status \in RunStatus
  BY <1>2 DEF Run, Lease, RunStatus
<1>4. SessionEnded(w, t, i, ok) = IF completes /\ ok THEN MarkSucceeded(ended, t) ELSE ended
  BY <1>1 DEF SessionEnded, World
<1> HIDE DEF completes, lease, status
<1>5. new \in Run
  BY <1>2, <1>3, RunChanged DEF Run
<1> HIDE DEF new
<1>6. Sound(ended)
  BY <1>5, RunReplacedIsSound
<1> HIDE DEF ended
<1> QED
  BY <1>4, <1>6, MarkSucceededIsSound

LEMMA AfterMessageIsSound ==
    ASSUME NEW w, Sound(w), NEW t, NEW i, NEW v \in AfterMessage(w, t, i)
    PROVE  Sound(v)
<1>1. v \in Reconcile(w) \/ \E x \in Reconcile(w) : v \in ReconcileWorkspace(x)
  BY DEF AfterMessage
<1> QED
  BY <1>1, ReconcileIsSound, ReconcileWorkspaceIsSound

-----------------------------------------------------------------------------
(* Every action keeps the world sound.                                      *)

LEMMA SetTaskStatusIsSound ==
    ASSUME IInv, NEW t \in Task, NEW s \in Status, SetTaskStatus(t, s)
    PROVE  Sound(world')
<1> DEFINE marked == WithStatus(world, t, s)
           w == IF s = "done" THEN MarkSucceeded(marked, t) ELSE marked
           synced == SyncIssueBlockerHold(w, IssueBlockingIds(w, t))
<1>1. Sound(w)
  BY WithStatusIsSound, MarkSucceededIsSound DEF IInv
<1>2. PICK x \in Reconcile(synced) : world' \in Release(x, WouldRelease(w, t))
  BY DEF SetTaskStatus
<1> HIDE DEF w
<1>3. Sound(synced)
  BY <1>1, SyncIsSound
<1> HIDE DEF synced
<1>4. WouldRelease(w, t) \in SUBSET Task
  BY DEF WouldRelease, IssueBlockingIds
<1> QED
  BY <1>2, <1>3, <1>4, ReconcileIsSound, ReleaseIsSound

LEMMA DeleteTaskIsSound ==
    ASSUME IInv, NEW t \in Task, DeleteTask(t)
    PROVE  Sound(world')
<1> DEFINE w == [world EXCEPT !.deleted = @ \union {t}]
           B == {p \in w.issue_blockers : t \notin {p[1], p[2]}}
           cut == [w EXCEPT !.issue_blockers = B]
<1>1. Finish(SyncIssueBlockerHold(cut, IssueBlockingIds(w, t)), WouldRelease(w, t))
  BY DEF DeleteTask
<1>2. /\ w \in World /\ w.dependencies = world.dependencies
      /\ w.issue_blockers = world.issue_blockers
      /\ w.node_artifacts = world.node_artifacts
      /\ w.status = world.status /\ w.blocked_reason = world.blocked_reason /\ w.moved = world.moved
  BY DEF IInv, Sound, World
<1> HIDE DEF w
<1>3. Live(w) = Live(world)
  BY <1>2 DEF Live
<1>4. HappensBeforeArcs(w) = HappensBeforeArcs(world)
  BY <1>2, <1>3 DEF HappensBeforeArcs, BlockerArcs, DependencyArcs
<1>5. Sound(w)
  BY <1>2, <1>3, <1>4 DEF IInv, Sound, Coherent, Current
<1>6. B \in SUBSET w.issue_blockers
  OBVIOUS
<1> HIDE DEF B
<1>7. Sound(cut)
  BY <1>5, <1>6, FewerBlockersAreSound
<1> HIDE DEF cut
<1>8. Sound(SyncIssueBlockerHold(cut, IssueBlockingIds(w, t)))
  BY <1>7, SyncIsSound
<1>9. WouldRelease(w, t) \in SUBSET Task
  BY DEF WouldRelease, IssueBlockingIds
<1> QED
  BY <1>1, <1>8, <1>9, FinishIsSound

LEMMA AddIssueBlockerIsSound ==
    ASSUME IInv, NEW t \in Task, NEW b \in Task, AddIssueBlocker(t, b)
    PROVE  Sound(world')
<1>1. CASE Finish(world, {})
  BY <1>1, FinishIsSound DEF IInv
<1>2. CASE Finish(SyncIssueBlockerHold(
                    [world EXCEPT !.issue_blockers = @ \union {<<t, b>>}], {t}), {})
  <2> DEFINE w == [world EXCEPT !.issue_blockers = @ \union {<<t, b>>}]
  <2>1. Sound(w)
    BY CheckedBlockerIsSound DEF AddIssueBlocker, IInv
  <2> HIDE DEF w
  <2>2. Sound(SyncIssueBlockerHold(w, {t}))
    BY <2>1, SyncIsSound
  <2>3. Finish(SyncIssueBlockerHold(w, {t}), {})
    BY <1>2 DEF w
  <2> QED
    BY <2>2, <2>3, FinishIsSound
<1> QED
  BY <1>1, <1>2 DEF AddIssueBlocker

LEMMA RemoveIssueBlockerIsSound ==
    ASSUME IInv, NEW t \in Task, NEW b \in Task, RemoveIssueBlocker(t, b)
    PROVE  Sound(world')
<1> DEFINE B == world.issue_blockers \ {<<t, b>>}
           w == [world EXCEPT !.issue_blockers = B]
<1>1. Finish(SyncIssueBlockerHold(w, {t}), WouldRelease(world, b) \intersect {t})
  BY DEF RemoveIssueBlocker
<1>2. B \in SUBSET world.issue_blockers
  OBVIOUS
<1> HIDE DEF B
<1>3. Sound(w)
  BY <1>2, FewerBlockersAreSound DEF IInv
<1> HIDE DEF w
<1>4. Sound(SyncIssueBlockerHold(w, {t}))
  BY <1>3, SyncIsSound
<1>5. WouldRelease(world, b) \intersect {t} \in SUBSET Task
  OBVIOUS
<1> QED
  BY <1>1, <1>4, <1>5, FinishIsSound

LEMMA SetWorkspaceConductorIsSound ==
    ASSUME IInv, NEW c \in Agent \union {NoAgent}, SetWorkspaceConductor(c)
    PROVE  Sound(world')
<1> DEFINE w == [world EXCEPT !.conductor = c]
<1>1. /\ w \in World /\ w.dependencies = world.dependencies
      /\ w.issue_blockers = world.issue_blockers
      /\ w.node_artifacts = world.node_artifacts
      /\ w.status = world.status /\ w.blocked_reason = world.blocked_reason /\ w.moved = world.moved
  BY DEF IInv, Sound, World
<1>2. Finish(w, {})
  BY DEF SetWorkspaceConductor
<1> HIDE DEF w
<1>3. Live(w) = Live(world)
  BY <1>1 DEF Live
<1>4. HappensBeforeArcs(w) = HappensBeforeArcs(world)
  BY <1>1, <1>3 DEF HappensBeforeArcs, BlockerArcs, DependencyArcs
<1>5. Sound(w)
  BY <1>1, <1>3, <1>4 DEF IInv, Sound, Coherent, Current
<1> QED
  BY <1>2, <1>5, FinishIsSound

LEMMA ReorderTasksIsSound ==
    ASSUME IInv, NEW T \in SUBSET Task, NEW s \in Status, ReorderTasks(T, s)
    PROVE  Sound(world')
BY ReorderedIsSound DEF IInv, ReorderTasks

LEMMA CompletedIsSound ==
    ASSUME NEW w, Sound(w), NEW D \in SUBSET Task
    PROVE  Sound(Completed(w, D))
<1>1. PICK W : Completed(w, D) =
        SyncIssueBlockerHold(
            [SyncIssueBlockerHold(w, W) EXCEPT
                !.status = [t \in Task |-> IF t \in D THEN "done" ELSE @[t]],
                !.blocked_reason = [t \in Task |-> IF t \in D THEN "none" ELSE @[t]],
                !.moved = @ \ D],
            UNION {IssueBlockingIds(w, t) : t \in D})
  BY DEF Completed
<1>2. Sound(SyncIssueBlockerHold(w, W))
  BY SyncIsSound
<1> QED
  BY <1>1, <1>2, DoneIsSound, SyncIsSound

LEMMA SyncGithubPullRequestsIsSound ==
    ASSUME IInv, NEW D \in SUBSET Task, SyncGithubPullRequests(D)
    PROVE  Sound(world')
<1>1. Sound(Completed(world, D))
  BY CompletedIsSound DEF IInv
<1>2. ReleasedBy(world, D) \in SUBSET Task
  BY DEF ReleasedBy, IssueBlockingIds
<1> QED
  BY <1>1, <1>2, ReleaseIsSound DEF SyncGithubPullRequests

LEMMA DeclareDependencyIsSound ==
    ASSUME IInv, NEW e \in EdgeId, NEW s \in Task, NEW t \in Task,
           NEW kind \in EdgeKind, DeclareDependency(e, s, t, kind)
    PROVE  Sound(world')
<1>1. PICK w \in Recorded(world, e, s, t, kind) : world' \in Reconcile(w)
  BY DEF DeclareDependency
<1>2. Sound(w)
  BY <1>1, RecordedIsSound DEF DeclareDependency, IInv
<1> QED
  BY <1>1, <1>2, ReconcileIsSound

LEMMA ReaffirmDependencyIsSound ==
    ASSUME IInv, NEW e \in Live(world), ReaffirmDependency(e)
    PROVE  Sound(world')
<1>1. PICK x \in Reconcile(Reaffirmed(world, e)) :
        world' \in DispatchReady(x, {world.dependencies[e].target})
  BY DEF ReaffirmDependency
<1>2. {world.dependencies[e].target} \in SUBSET Task
  BY DEF IInv, Sound, World, Live, Edge
<1>3. Sound(x)
  BY <1>1, ReaffirmedIsSound, ReconcileIsSound DEF IInv
<1> QED
  BY <1>1, <1>2, <1>3, DispatchReadyIsSound

LEMMA RemoveDependencyIsSound ==
    ASSUME IInv, NEW e \in Live(world), RemoveDependency(e)
    PROVE  Sound(world')
BY WithoutIsSound, ReconcileIsSound DEF RemoveDependency, IInv

LEMMA ValidationDecisionIsSound ==
    ASSUME IInv, NEW e \in Live(world), NEW choice \in Decision,
           ValidationDecision(e, choice)
    PROVE  Sound(world')
<1>1. Sound(Decided(world, e, choice))
  BY DecidedIsSound DEF IInv
<1> QED
  BY <1>1, FinishIsSound DEF ValidationDecision

LEMMA StartRunIsSound ==
    ASSUME IInv, NEW t \in Task, NEW a \in Agent, StartRun(t, a)
    PROVE  Sound(world')
<1> DEFINE run == NewRun(a, "issue", 0, {})
<1>1. run \in Run
  BY NewRunsAreTyped DEF Trigger, Fingerprint
<1>2. world' = Started(world, [x \in {t} |-> run])
  BY DEF StartRun
<1> HIDE DEF run
<1> QED
  BY <1>1, <1>2, StartedIsSound DEF IInv

\* The run i of t is a run.
LEMMA RunsAreTyped ==
    ASSUME IInv, NEW t \in Task, NEW i \in DOMAIN world.runs[t]
    PROVE  world.runs[t][i] \in Run
<1>1. world.runs[t] \in Seq(Run)
  BY DEF IInv, Sound, World
<1> QED
  BY <1>1

LEMMA CancelRunIsSound ==
    ASSUME IInv, NEW t \in Task, NEW i \in DOMAIN world.runs[t], CancelRun(t, i)
    PROVE  Sound(world')
<1> DEFINE
    run == world.runs[t][i]
    lease == IF run.lease = "running" THEN "cancelled" ELSE run.lease
    new == [run EXCEPT !.status = "cancelled", !.lease = lease]
<1>1. lease \in Lease /\ "cancelled" \in RunStatus
  BY RunsAreTyped DEF Run, Lease, RunStatus
<1>2. new \in Run
  <2>1. run \in Run
    BY RunsAreTyped
  <2> HIDE DEF lease
  <2> QED
    BY <1>1, <2>1, RunChanged DEF Run
<1>3. world' = [world EXCEPT !.runs[t][i] = new]
  <2>1. "runs" \in DOMAIN world /\ t \in DOMAIN world.runs
    BY DEF IInv, Sound, World
  <2>2. run \in Run
    BY RunsAreTyped
  <2>3. "status" \in DOMAIN run /\ "lease" \in DOMAIN run
    BY <2>2 DEF Run
  <2> QED
    BY <2>1, <2>3 DEF CancelRun
<1> HIDE DEF new
<1>4. Sound([world EXCEPT !.runs[t][i] = new])
  BY <1>2, RunReplacedIsSound DEF IInv
<1> QED
  BY <1>3, <1>4

LEMMA StopChatIsSound ==
    ASSUME IInv, NEW c \in Task, StopChat(c)
    PROVE  OnlyRuns(world, world') /\ Sound(world')
<1> DEFINE
    Stop(u, run) ==
        IF u = c /\ run.trigger = "issue" /\ run.status = "running"
        THEN [run EXCEPT !.status = "cancelled"] ELSE run
    R == [t \in Task |-> [i \in DOMAIN world.runs[t] |-> Stop(t, world.runs[t][i])]]
<1>1. \A t \in Task, run \in Run : Stop(t, run) \in Run
  BY DEF Run, RunStatus
<1> HIDE DEF Stop
<1>2. R \in [Task -> Seq(Run)]
  <2> SUFFICES ASSUME NEW t \in Task PROVE R[t] \in Seq(Run)
    OBVIOUS
  <2>1. world.runs[t] \in Seq(Run)
    BY DEF IInv, Sound, World
  <2>2. \A i \in DOMAIN world.runs[t] : R[t][i] \in Run
    BY <1>1, <2>1
  <2> QED
    BY <2>1, <2>2, SameLength
<1>3. world' = [world EXCEPT !.runs = R]
  BY DEF StopChat, EachRun, Stop
<1> QED
  BY <1>2, <1>3, RunsReplaced, RunsDoNotMatter DEF IInv, Sound

LEMMA RetryRunIsSound ==
    ASSUME IInv, NEW t \in Task, NEW i \in DOMAIN world.runs[t], RetryRun(t, i)
    PROVE  Sound(world')
<1> DEFINE
    old == world.runs[t][i]
    isReview == old.trigger = "graph_review"
    agent == IF isReview THEN world.conductor ELSE old.agent
    trigger == IF isReview THEN "graph_review" ELSE "issue"
    attempt == IF old.lease = "none" THEN 0 ELSE NextAttempt(world, t)
    run == NewRun(agent, trigger, attempt, old.fingerprint)
<1>1. agent # NoAgent /\ world' = Started(world, [x \in {t} |-> run])
  BY DEF RetryRun
<1>2. agent \in Agent
  BY <1>1, RunsAreTyped DEF IInv, Sound, World, Run
<1>3. trigger \in Trigger /\ attempt \in Nat /\ old.fingerprint \in Fingerprint
  BY RunsAreTyped, AttemptsAreNumbered DEF Trigger, Run, IInv, Sound
<1> HIDE DEF agent, trigger, attempt, old
<1>4. run \in Run
  BY <1>2, <1>3, NewRunsAreTyped
<1> HIDE DEF run
<1> QED
  BY <1>1, <1>4, StartedIsSound DEF IInv

LEMMA ApplyPatchConflictIsSound ==
    ASSUME IInv, NEW t \in Task, ApplyPatchConflict(t)
    PROVE  Sound(world')
BY HoldIsSound DEF ApplyPatchConflict, IInv

LEMMA ApplyPatchIsSound ==
    ASSUME IInv, NEW t \in Task, ApplyPatch(t)
    PROVE  Sound(world')
<1> DEFINE w == PauseStaleConsumers(Invalidated(world, t), LiveConsumers(world, t))
<1>1. Sound(w)
  BY InvalidatedIsSound, PausingIsSound DEF IInv
<1>2. world' \in ReconcileWorkspace(w)
  BY DEF ApplyPatch
<1> QED
  BY <1>1, <1>2, ReconcileWorkspaceIsSound

LEMMA HarnessProgressIsSound ==
    ASSUME IInv, NEW t \in Task, NEW i \in DOMAIN world.runs[t],
           HarnessProgress(t, i)
    PROVE  Sound(world')
BY AfterMessageIsSound, ReconcileIsSound DEF HarnessProgress, IInv

LEMMA HarnessDependsIsSound ==
    ASSUME IInv, NEW t \in Task, NEW i \in DOMAIN world.runs[t],
           NEW e \in EdgeId, NEW s \in Task, HarnessDepends(t, i, e, s)
    PROVE  Sound(world')
<1>1. PICK w \in Recorded(world, e, s, t, "consumes") :
        world' \in AfterMessage(w, t, i)
  BY DEF HarnessDepends
<1>2. Sound(w)
  <2>1. "consumes" \in EdgeKind
    BY DEF EdgeKind
  <2> QED
    BY <1>1, <2>1, RecordedIsSound DEF HarnessDepends, IInv
<1> QED
  BY <1>1, <1>2, AfterMessageIsSound

LEMMA HarnessDriftIsSound ==
    ASSUME IInv, NEW t \in Task, NEW i \in DOMAIN world.runs[t],
           HarnessDrift(t, i)
    PROVE  Sound(world')
<1> DEFINE
    new == [world.runs[t][i] EXCEPT !.status = "paused", !.was_paused = TRUE]
    w == [world EXCEPT !.runs[t][i] = new]
<1>1. world.runs[t][i] \in Run
  BY RunsAreTyped
<1>2. new \in Run
  BY <1>1 DEF RunStatus, Run
<1>3. world' \in AfterMessage(Held(w, {t}, "gate"), t, i)
  BY DEF HarnessDrift
<1> HIDE DEF new
<1>4. Sound(w)
  BY <1>2, RunReplacedIsSound DEF IInv
<1> HIDE DEF w
<1>5. Sound(Held(w, {t}, "gate"))
  BY <1>4, HoldIsSound
<1> QED
  BY <1>3, <1>5, AfterMessageIsSound

LEMMA HarnessPatchConflictIsSound ==
    ASSUME IInv, NEW t \in Task, NEW i, HarnessPatchConflict(t, i)
    PROVE  Sound(world')
BY HoldIsSound, ReconcileIsSound DEF HarnessPatchConflict, IInv

LEMMA HarnessVerdictIsSound ==
    ASSUME IInv, NEW t \in Task, NEW i \in DOMAIN world.runs[t],
           NEW e \in Live(world), NEW choice \in Decision,
           HarnessVerdict(t, i, e, choice)
    PROVE  Sound(world')
<1> DEFINE
    new == [world.runs[t][i] EXCEPT !.lease = "succeeded"]
    w == [world EXCEPT !.runs[t][i] = new]
<1>1. world.runs[t][i] \in Run
  BY RunsAreTyped
<1>2. new \in Run
  BY <1>1 DEF Lease, Run
<1>3. world' \in AfterMessage(Decided(w, e, choice), t, i)
  <2>1. world.runs \in [Task -> Seq(Run)] /\ world.runs[t] \in Seq(Run)
    BY DEF IInv, Sound, World
  <2>2. [world EXCEPT !.runs[t][i].lease = "succeeded"] = w
    BY <2>1 DEF IInv, Sound, World
  <2> QED
    BY <2>2 DEF HarnessVerdict
<1>4. w.dependencies = world.dependencies
  BY DEF IInv, Sound, World
<1> HIDE DEF new
<1>5. Sound(w)
  BY <1>2, RunReplacedIsSound DEF IInv
<1> HIDE DEF w
<1>6. e \in Live(w)
  BY <1>4 DEF Live
<1>7. Sound(Decided(w, e, choice))
  BY <1>5, <1>6, DecidedIsSound
<1> QED
  BY <1>3, <1>7, AfterMessageIsSound

LEMMA HarnessSessionEndIsSound ==
    ASSUME IInv, NEW t \in Task, NEW i \in DOMAIN world.runs[t],
           NEW ok \in BOOLEAN, HarnessSessionEnd(t, i, ok)
    PROVE  Sound(world')
<1> DEFINE w == SessionEnded(EnsureAttempt(world, t, i), t, i, ok)
<1>1. Sound(w)
  <2>1. /\ Sound(EnsureAttempt(world, t, i))
        /\ i \in DOMAIN EnsureAttempt(world, t, i).runs[t]
    BY EnsureAttemptIsSound DEF IInv
  <2> QED
    BY <2>1, SessionEndedIsSound
<1>2. \E x : /\ x = w \/ x \in Reconcile(w)
             /\ \/ world' = x
                \/ world' \in ReconcileWorkspace(x)
                \/ \E y \in DispatchReady(x, SuccessorTaskIds(x, t)) :
                        world' \in ReconcileWorkspace(y)
  <2> HIDE DEF w
  <2> DEFINE run == w.runs[t][i]
             inconclusive == /\ ok
                             /\ run.trigger = "graph_review"
                             /\ run.lease # "succeeded"
  <2>1. PICK x \in (IF inconclusive THEN {w} ELSE Reconcile(w)) :
            IF ~ok \/ w.conductor = NoAgent THEN world' = x
            ELSE IF IsConductorReview(w, run)
            THEN world' \in (IF run.lease = "succeeded"
                             THEN ReconcileWorkspace(x) ELSE {x})
            ELSE \E y \in DispatchReady(x, SuccessorTaskIds(x, t)) :
                    world' \in ReconcileWorkspace(y)
    BY DEF HarnessSessionEnd, w
  <2> QED
    BY <2>1
<1> HIDE DEF w
<1>3. PICK x : /\ x = w \/ x \in Reconcile(w)
               /\ \/ world' = x
                  \/ world' \in ReconcileWorkspace(x)
                  \/ \E y \in DispatchReady(x, SuccessorTaskIds(x, t)) :
                        world' \in ReconcileWorkspace(y)
  BY <1>2
<1>4. Sound(x)
  BY <1>1, <1>3, ReconcileIsSound
<1>5. SuccessorTaskIds(x, t) \in SUBSET Task
  BY <1>4 DEF SuccessorTaskIds, IssueBlockingIds, LiveConsumers, Live, Sound,
              World, Edge
<1> QED
  BY <1>3, <1>4, <1>5, ReconcileWorkspaceIsSound, DispatchReadyIsSound

-----------------------------------------------------------------------------
(* The invariant.                                                           *)

LEMMA InitIsSound == Init => IInv
<1> SUFFICES ASSUME Init PROVE Sound(world)
  BY DEF IInv
<1>1. PICK c \in Agent \union {NoAgent} :
        world = [assignee |-> Inputs.assignee,
                 limit |-> Inputs.limit,
                 status |-> [t \in Task |-> IF c = NoAgent THEN "open"
                                            ELSE "backlog"],
                 blocked_reason |-> [t \in Task |-> "none"],
                 deleted |-> {},
                 conductor |-> c,
                 issue_blockers |-> {},
                 dependencies |-> [e \in EdgeId |-> Unused],
                 node_artifacts |-> [t \in Task |-> 0],
                 materialization |-> [t \in Task |-> "none"],
                 successes |-> {},
                 attempts |-> [t \in Task |-> 0],
                 runs |-> [t \in Task |-> <<>>],
                 moved |-> {}]
  BY InputsAssumption DEF Init, Begin, InputSets
<1>2. world \in World
  BY <1>1, InputsAssumption DEF World, Status, Reason, InputSets
<1>3. Live(world) = {}
  BY <1>1 DEF Live
<1>4. HappensBeforeArcs(world) = {}
  BY <1>1, <1>3 DEF HappensBeforeArcs, BlockerArcs, DependencyArcs
<1>5. Coherent(world)
  BY <1>1 DEF Coherent
<1> QED
  BY <1>2, <1>3, <1>4, <1>5 DEF Sound, Acyclic, Current

LEMMA TaskCommandIsSound ==
    ASSUME IInv, NEW in \in InputSets, TaskCommand(in)
    PROVE  Sound(world')
<1>1. CASE \E p \in in.status : SetTaskStatus(p[1], p[2])
  BY <1>1, SetTaskStatusIsSound DEF InputSets
<1>2. CASE \E t \in in.delete : DeleteTask(t)
  BY <1>2, DeleteTaskIsSound DEF InputSets
<1>3. CASE \E p \in in.blocker : AddIssueBlocker(p[1], p[2])
  BY <1>3, AddIssueBlockerIsSound DEF InputSets
<1>4. CASE \E p \in in.blocker : RemoveIssueBlocker(p[1], p[2])
  BY <1>4, RemoveIssueBlockerIsSound DEF InputSets
<1>5. CASE \E c \in in.conductor : SetWorkspaceConductor(c)
  BY <1>5, SetWorkspaceConductorIsSound DEF InputSets
<1>6. CASE \E p \in in.reorder : ReorderTasks(p[1], p[2])
  BY <1>6, ReorderTasksIsSound DEF InputSets
<1>7. CASE \E D \in SUBSET in.merged : SyncGithubPullRequests(D)
  BY <1>7, SyncGithubPullRequestsIsSound DEF InputSets
<1> QED
  BY <1>1, <1>2, <1>3, <1>4, <1>5, <1>6, <1>7 DEF TaskCommand

LEMMA EdgeCommandIsSound ==
    ASSUME IInv, NEW in \in InputSets, EdgeCommand(in)
    PROVE  Sound(world')
<1>1. CASE \E e \in EdgeId, p \in in.edge :
            DeclareDependency(e, p[1], p[2], p[3])
  BY <1>1, DeclareDependencyIsSound DEF InputSets
<1>2. CASE \E e \in Live(world) : ReaffirmDependency(e)
  BY <1>2, ReaffirmDependencyIsSound
<1>3. CASE \E e \in Live(world) : RemoveDependency(e)
  BY <1>3, RemoveDependencyIsSound
<1>4. CASE \E e \in Live(world), c \in in.decision : ValidationDecision(e, c)
  BY <1>4, ValidationDecisionIsSound DEF InputSets
<1> QED
  BY <1>1, <1>2, <1>3, <1>4 DEF EdgeCommand

LEMMA RunCommandIsSound ==
    ASSUME IInv, NEW in \in InputSets, RunCommand(in)
    PROVE  Sound(world')
<1>1. CASE \E p \in in.starter : StartRun(p[1], p[2])
  BY <1>1, StartRunIsSound DEF InputSets
<1>2. CASE \E t \in in.patch : ApplyPatch(t)
  BY <1>2, ApplyPatchIsSound DEF InputSets
<1>3. CASE \E t \in in.patch : ApplyPatchConflict(t)
  BY <1>3, ApplyPatchConflictIsSound DEF InputSets
<1>4. CASE \E t \in Task : \E i \in DOMAIN world.runs[t] :
            CancelRun(t, i) \/ RetryRun(t, i)
  BY <1>4, CancelRunIsSound, RetryRunIsSound
<1>5. CASE \E t \in in.chat : StopChat(t)
  BY <1>5, StopChatIsSound DEF InputSets
<1> QED
  BY <1>1, <1>2, <1>3, <1>4, <1>5 DEF RunCommand

LEMMA HarnessEventIsSound ==
    ASSUME IInv, NEW in \in InputSets, HarnessEvent(in)
    PROVE  Sound(world')
<1>1. PICK t \in Task : \E i \in DOMAIN world.runs[t] :
        \/ HarnessProgress(t, i)
        \/ \E e \in EdgeId, p \in in.edge : HarnessDepends(t, i, e, p[1])
        \/ HarnessDrift(t, i)
        \/ HarnessPatchConflict(t, i)
        \/ \E e \in Live(world), c \in in.decision : HarnessVerdict(t, i, e, c)
        \/ HarnessSessionEnd(t, i, TRUE)
        \/ HarnessSessionEnd(t, i, FALSE)
  BY DEF HarnessEvent
<1>2. PICK i \in DOMAIN world.runs[t] :
        \/ HarnessProgress(t, i)
        \/ \E e \in EdgeId, p \in in.edge : HarnessDepends(t, i, e, p[1])
        \/ HarnessDrift(t, i)
        \/ HarnessPatchConflict(t, i)
        \/ \E e \in Live(world), c \in in.decision : HarnessVerdict(t, i, e, c)
        \/ HarnessSessionEnd(t, i, TRUE)
        \/ HarnessSessionEnd(t, i, FALSE)
  BY <1>1
<1>3. CASE HarnessProgress(t, i)
  BY <1>3, HarnessProgressIsSound
<1>4. CASE \E e \in EdgeId, p \in in.edge : HarnessDepends(t, i, e, p[1])
  BY <1>4, HarnessDependsIsSound DEF InputSets
<1>5. CASE HarnessDrift(t, i)
  BY <1>5, HarnessDriftIsSound
<1>6. CASE HarnessPatchConflict(t, i)
  BY <1>6, HarnessPatchConflictIsSound
<1>7. CASE \E e \in Live(world), c \in in.decision : HarnessVerdict(t, i, e, c)
  BY <1>7, HarnessVerdictIsSound DEF InputSets
<1>8. CASE \E ok \in BOOLEAN : HarnessSessionEnd(t, i, ok)
  BY <1>8, HarnessSessionEndIsSound
<1> QED
  BY <1>2, <1>3, <1>4, <1>5, <1>6, <1>7, <1>8

\* Whatever may happen in a step, and so also if that changes on the way.
LEMMA StepIsSound ==
    ASSUME IInv, NEW in \in InputSets, Step(in)
    PROVE  Sound(world')
<1>1. CASE Restart
  BY <1>1, RestartIsSound
<1> QED
  BY <1>1, TaskCommandIsSound, EdgeCommandIsSound, RunCommandIsSound,
     HarnessEventIsSound DEF Step

LEMMA NextIsSound == IInv /\ [Next]_world => IInv'
<1> SUFFICES ASSUME IInv, [Next]_world PROVE Sound(world')
  BY DEF IInv
<1>1. CASE UNCHANGED world
  BY <1>1 DEF IInv
<1> QED
  BY <1>1, StepIsSound, InputsAssumption DEF Next

LEMMA Soundness == Spec => []IInv
BY InitIsSound, NextIsSound, PTL DEF Spec

\* Every field of the world keeps its type.
THEOREM TypeCorrectness == Spec => []TypeOK
<1>1. IInv => TypeOK
  BY DEF IInv, Sound, TypeOK
<1> QED
  BY <1>1, Soundness, PTL

\* A task is blocked exactly when the world records why, whatever the order
\* in which blockers, edges, patches, verdicts, pull requests and people hold and
\* free it: but for a task that was sorted into a column, nothing parts the two.
THEOREM GatesStayCoherent == Spec => []GateCoherent
<1>1. IInv => GateCoherent
  BY DEF IInv, Sound, Coherent, GateCoherent
<1> QED
  BY <1>1, Soundness, PTL

\* No sequence of commands on the two lists closes a cycle between them.
THEOREM HappensBeforeStaysAcyclic == Spec => []HappensBeforeAcyclic
<1>1. IInv => HappensBeforeAcyclic
  BY DEF IInv, Sound, HappensBeforeAcyclic
<1> QED
  BY <1>1, Soundness, PTL

\* An active edge never hides a newer output of its producer.
THEOREM ActiveEdgesStayCurrent == Spec => []ActiveEdgesAreCurrent
<1>1. IInv => ActiveEdgesAreCurrent
  BY DEF IInv, Sound, Current, ActiveEdgesAreCurrent
<1> QED
  BY <1>1, Soundness, PTL

-----------------------------------------------------------------------------
(* Holds: their invariant, and what a step may do to them.                  *)

\* What a hold for blockers is for: one that has not ended, or one whose end was
\* sorted into its column.
HasCause(w, t) ==
    \/ UnresolvedBlockers(w, t) # {}
    \/ IssueBlockerIds(w, t) \intersect w.moved # {}

Justified(w) ==
    \A t \in Task \ w.deleted : w.blocked_reason[t] = "issue" => HasCause(w, t)

\* The gates that held t in w have nothing to wait for in v.
Clear(w, v, t) ==
    /\ UnresolvedBlockers(v, t) = {}
    /\ w.blocked_reason[t] = "stale" => ~HasStaleDependency(v, t)

\* A hold that is gone in v had its reason go first.
Frees(w, v) ==
    \A t \in Task :
        w.blocked_reason[t] \in {"issue", "stale"} /\ v.blocked_reason[t] = "none" =>
            Clear(w, v, t)

\* The same, but for what a person does to a task itself.
Releases(w, v) ==
    \A t \in Task :
        (/\ w.blocked_reason[t] \in {"issue", "stale"}
         /\ v.blocked_reason[t] = "none"
         /\ v.status[t] \notin {"done", "cancelled"}
         /\ Surroundings(v, t) # Surroundings(w, t))
        => Clear(w, v, t)

Justly(w, v) == Justified(v) /\ Releases(w, v)

\* A world that other holds than those of w are not in.
SameHolds(w, v) ==
    /\ v.status = w.status /\ v.blocked_reason = w.blocked_reason
    /\ v.deleted = w.deleted /\ v.issue_blockers = w.issue_blockers
    /\ v.moved = w.moved

LEMMA RunsKeepHolds ==
    ASSUME NEW w, NEW v, OnlyRuns(w, v)
    PROVE  SameHolds(w, v) /\ v.dependencies = w.dependencies
BY DEF OnlyRuns, SameHolds

LEMMA SameHoldsTransitive ==
    ASSUME NEW u, NEW v, NEW w, SameHolds(u, v), SameHolds(v, w)
    PROVE  SameHolds(u, w)
BY DEF SameHolds

LEMMA SameHoldsSameBlockers ==
    ASSUME NEW w, NEW v, SameHolds(w, v)
    PROVE  /\ \A b : IssueBlockerSatisfied(v, b) <=> IssueBlockerSatisfied(w, b)
           /\ \A t : UnresolvedBlockers(v, t) = UnresolvedBlockers(w, t)
           /\ \A t : IssueBlockingIds(v, t) = IssueBlockingIds(w, t)
           /\ \A t : HasCause(v, t) <=> HasCause(w, t)
BY DEF SameHolds, HasCause, IssueBlockerSatisfied, UnresolvedBlockers, IssueBlockerIds,
       IssueBlockingIds

LEMMA SameHoldsStayJustified ==
    ASSUME NEW w, NEW v, Justified(w), SameHolds(w, v)
    PROVE  Justified(v) /\ Frees(w, v)
BY SameHoldsSameBlockers DEF SameHolds, Justified, Frees

\* Whatever the scheduler does after the gates are refreshed leaves them so.
LEMMA ScheduledJustly ==
    ASSUME NEW u, NEW w, NEW v, Justly(u, w), OnlyRuns(w, v)
    PROVE  Justly(u, v)
<1>1. SameHolds(w, v) /\ v.dependencies = w.dependencies
  BY RunsKeepHolds
<1>2. Justified(v)
  BY <1>1, SameHoldsStayJustified DEF Justly
<1>3. \A t : UnresolvedBlockers(v, t) = UnresolvedBlockers(w, t)
  BY <1>1, SameHoldsSameBlockers
<1>4. \A t : HasStaleDependency(v, t) <=> HasStaleDependency(w, t)
  BY <1>1 DEF HasStaleDependency, EdgesInto, Live, Consumes
<1>5. \A t : Surroundings(v, t) = Surroundings(w, t)
  BY <1>1, SameHoldsSameBlockers DEF Surroundings, SameHolds
<1> QED
  BY <1>1, <1>2, <1>3, <1>4, <1>5 DEF Justly, Releases, Clear, SameHolds

\* A change of the lists, the versions or the runs, and then of the gates.
LEMMA FreedJustly ==
    ASSUME NEW u, NEW w, NEW v, w.blocked_reason = u.blocked_reason,
           Justified(v), Frees(w, v)
    PROVE  Justly(u, v)
BY DEF Justly, Releases, Frees, Clear

-----------------------------------------------------------------------------
(* The gates.                                                               *)

\* Who is held in v, given who is held in w.
HeldIn(w, v, T, reason) ==
    \A t \in Task :
        /\ v.status[t] = IF t \in T THEN "blocked" ELSE w.status[t]
        /\ v.blocked_reason[t] = IF t \in T THEN reason ELSE w.blocked_reason[t]

LEMMA HeldTasks ==
    ASSUME NEW w \in World, NEW T, NEW reason
    PROVE  /\ HeldIn(w, Held(w, T, reason), T, reason)
           /\ Held(w, T, reason).deleted = w.deleted
           /\ Held(w, T, reason).issue_blockers = w.issue_blockers
           /\ Held(w, T, reason).moved = w.moved
           /\ Held(w, T, reason).dependencies = w.dependencies
BY DEF Held, World, HeldIn

LEMMA UnheldTasks ==
    ASSUME NEW w \in World, NEW T
    PROVE  /\ \A t \in Task :
                /\ Unheld(w, T).status[t] =
                    IF t \in T /\ w.status[t] = "blocked" THEN "open" ELSE w.status[t]
                /\ Unheld(w, T).blocked_reason[t] =
                    IF t \in T THEN "none" ELSE w.blocked_reason[t]
           /\ Unheld(w, T).deleted = w.deleted
           /\ Unheld(w, T).issue_blockers = w.issue_blockers
           /\ Unheld(w, T).moved = w.moved
           /\ Unheld(w, T).dependencies = w.dependencies
BY DEF Unheld, World

\* A hold for a stale input or for what a person has to look at.
LEMMA HoldIsJust ==
    ASSUME NEW w \in World, Justified(w), NEW T, NEW reason \in {"stale", "gate"}
    PROVE  Justified(Held(w, T, reason)) /\ Frees(w, Held(w, T, reason))
<1> DEFINE v == Held(w, T, reason)
<1>1. /\ HeldIn(w, v, T, reason) /\ v.deleted = w.deleted
      /\ v.issue_blockers = w.issue_blockers /\ v.moved = w.moved
  BY HeldTasks
<1> HIDE DEF v
<1>2. \A b \in Task : IssueBlockerSatisfied(v, b) => IssueBlockerSatisfied(w, b)
  BY <1>1 DEF IssueBlockerSatisfied, HeldIn
<1>3. \A t : UnresolvedBlockers(w, t) \subseteq UnresolvedBlockers(v, t)
  BY <1>1, <1>2 DEF UnresolvedBlockers, IssueBlockerIds
<1>4. Justified(v)
  BY <1>1, <1>3 DEF Justified, HasCause, IssueBlockerIds, HeldIn
<1>5. Frees(w, v)
  BY <1>1 DEF Frees, HeldIn
<1> QED
  BY <1>4, <1>5 DEF v

\* sync_issue_blocker_hold rights the tasks of T, and no other was wrong.
LEMMA SyncIsJust ==
    ASSUME NEW w \in World, NEW T \in SUBSET Task,
           \A t \in Task \ (w.deleted \union T) :
                w.blocked_reason[t] = "issue" => HasCause(w, t)
    PROVE  /\ Justified(SyncIssueBlockerHold(w, T))
           /\ Frees(w, SyncIssueBlockerHold(w, T))
           /\ \A b \in Task : IssueBlockerSatisfied(SyncIssueBlockerHold(w, T), b)
                                <=> IssueBlockerSatisfied(w, b)
           /\ \A t \in Task \ T : SyncIssueBlockerHold(w, T).blocked_reason[t]
                                    = w.blocked_reason[t]
           /\ \A t \in Task : UnresolvedBlockers(SyncIssueBlockerHold(w, T), t)
                                = UnresolvedBlockers(w, t)
<1> DEFINE clear == {t \in T : UnresolvedBlockers(w, t) = {}}
           wait  == {t \in T \ clear : ~Settled(w, t)}
           C == {t \in clear : w.blocked_reason[t] = "issue"}
           W == {t \in wait : w.blocked_reason[t] \in {"none", "issue"}}
           x == Unheld(w, C)
           v == Held(x, W, "issue")
<1>1. SyncIssueBlockerHold(w, T) = v
  BY DEF SyncIssueBlockerHold
<1>2. /\ \A t \in C : t \in T /\ UnresolvedBlockers(w, t) = {}
                      /\ w.blocked_reason[t] = "issue"
      /\ \A t \in W : t \in T /\ UnresolvedBlockers(w, t) # {} /\ ~Settled(w, t)
      /\ \A t \in T \ C : w.blocked_reason[t] = "issue" => UnresolvedBlockers(w, t) # {}
  OBVIOUS
<1> HIDE DEF C, W, clear, wait
<1>3. /\ x \in World
      /\ \A t \in Task :
            /\ x.status[t] = IF t \in C /\ w.status[t] = "blocked" THEN "open"
                             ELSE w.status[t]
            /\ x.blocked_reason[t] = IF t \in C THEN "none" ELSE w.blocked_reason[t]
      /\ x.deleted = w.deleted /\ x.issue_blockers = w.issue_blockers
      /\ x.moved = w.moved
  BY UnheldTasks, ReleasingIsAGate DEF OnlyGates
<1> HIDE DEF x
<1>4. /\ HeldIn(x, v, W, "issue") /\ v.deleted = x.deleted
      /\ v.issue_blockers = x.issue_blockers /\ v.moved = x.moved
  BY <1>3, HeldTasks
<1> HIDE DEF v
<1>5. \A b \in Task : IssueBlockerSatisfied(v, b) <=> IssueBlockerSatisfied(w, b)
  BY <1>2, <1>3, <1>4 DEF HeldIn, IssueBlockerSatisfied, Settled
<1>6. \A t : UnresolvedBlockers(v, t) = UnresolvedBlockers(w, t)
  BY <1>3, <1>4, <1>5 DEF UnresolvedBlockers, IssueBlockerIds
<1>7. Justified(v)
  BY <1>2, <1>3, <1>4, <1>6 DEF Justified, HasCause, IssueBlockerIds, HeldIn
<1>8. Frees(w, v)
  BY <1>2, <1>3, <1>4, <1>6 DEF Frees, Clear, HeldIn
<1>9. \A t \in Task \ T : v.blocked_reason[t] = w.blocked_reason[t]
  BY <1>2, <1>3, <1>4 DEF HeldIn
<1> QED
  BY <1>1, <1>5, <1>6, <1>7, <1>8, <1>9

\* refresh_task_run_gates lets a task go only when no gate waits.
LEMMA RefreshIsJust ==
    ASSUME NEW w \in World, Justified(w), NEW t \in Task
    PROVE  /\ Justified(RefreshTaskRunGates(w, t))
           /\ Frees(w, RefreshTaskRunGates(w, t))
<1>1. CASE HasStaleDependency(w, t)
  BY <1>1, HoldIsJust DEF RefreshTaskRunGates, ApplyStaleDependencyHold
<1>2. CASE ~HasStaleDependency(w, t) /\ UnresolvedBlockers(w, t) # {}
  <2>1. {t} \in SUBSET Task
    OBVIOUS
  <2>2. RefreshTaskRunGates(w, t) = SyncIssueBlockerHold(w, {t})
    BY <1>2 DEF RefreshTaskRunGates
  <2> QED
    BY <2>1, <2>2, SyncIsJust DEF Justified
<1>3. CASE ~HasStaleDependency(w, t) /\ UnresolvedBlockers(w, t) = {}
  <2> DEFINE U == {u \in {t} : w.blocked_reason[u] \in {"issue", "stale"}}
             v == Unheld(w, U)
  <2>1. RefreshTaskRunGates(w, t) = v
    BY <1>3 DEF RefreshTaskRunGates
  <2>2. \A u \in U : u = t
    OBVIOUS
  <2> HIDE DEF U
  <2>3. /\ \A u \in Task :
            /\ v.status[u] = IF u \in U /\ w.status[u] = "blocked" THEN "open"
                             ELSE w.status[u]
            /\ v.blocked_reason[u] = IF u \in U THEN "none" ELSE w.blocked_reason[u]
        /\ v.deleted = w.deleted /\ v.issue_blockers = w.issue_blockers
        /\ v.dependencies = w.dependencies /\ v.moved = w.moved
    BY UnheldTasks
  <2> HIDE DEF v
  <2>4. \A b \in Task : IssueBlockerSatisfied(v, b) <=> IssueBlockerSatisfied(w, b)
    BY <2>3 DEF IssueBlockerSatisfied
  <2>5. \A u : UnresolvedBlockers(v, u) = UnresolvedBlockers(w, u)
    BY <2>3, <2>4 DEF UnresolvedBlockers, IssueBlockerIds
  <2>6. \A u : HasStaleDependency(v, u) <=> HasStaleDependency(w, u)
    BY <2>3 DEF HasStaleDependency, EdgesInto, Live, Consumes
  <2>7. Justified(v)
    BY <2>3, <2>5 DEF Justified, HasCause, IssueBlockerIds
  <2>8. Frees(w, v)
    BY <1>3, <2>2, <2>3, <2>5, <2>6 DEF Frees, Clear
  <2> QED
    BY <2>1, <2>7, <2>8
<1> QED
  BY <1>1, <1>2, <1>3

-----------------------------------------------------------------------------
(* What the actions are made of.                                            *)

LEMMA QuietIsJust ==
    ASSUME NEW u, NEW v, Justified(u), SameHolds(u, v)
    PROVE  Justly(u, v)
BY SameHoldsStayJustified DEF Justly, Releases, SameHolds

LEMMA ReconciledJustly ==
    ASSUME NEW u, NEW w \in World, Justly(u, w), NEW v \in Reconcile(w)
    PROVE  Justly(u, v)
BY ReconcileChangesOnlyRuns, ScheduledJustly

LEMMA WorkspaceReconciledJustly ==
    ASSUME NEW u, NEW w \in World, Justly(u, w), NEW v \in ReconcileWorkspace(w)
    PROVE  Justly(u, v)
BY ReconcileWorkspaceChangesOnlyRuns, ScheduledJustly

LEMMA FinishedJustly ==
    ASSUME NEW w \in World, Justly(world, w), NEW T \in SUBSET Task, Finish(w, T)
    PROVE  Justly(world, world')
<1>1. PICK x \in Release(w, T) : world' \in ReconcileWorkspace(x)
  BY DEF Finish
<1>2. OnlyRuns(w, x) /\ x \in World
  BY ReleaseChangesOnlyRuns DEF OnlyRuns
<1> QED
  BY <1>1, <1>2, ScheduledJustly, WorkspaceReconciledJustly

LEMMA AnsweredJustly ==
    ASSUME NEW w \in World, Justly(world, w), NEW t, NEW i,
           world' \in AfterMessage(w, t, i)
    PROVE  Justly(world, world')
<1>1. world' \in Reconcile(w) \/ \E x \in Reconcile(w) : world' \in ReconcileWorkspace(x)
  BY DEF AfterMessage
<1>2. \A x \in Reconcile(w) : x \in World /\ Justly(world, x)
  BY ReconcileChangesOnlyRuns, ReconciledJustly DEF OnlyRuns
<1> QED
  BY <1>1, <1>2, WorkspaceReconciledJustly

\* The gates of a task are refreshed after any change of the edges.
LEMMA EdgesChangedJustly ==
    ASSUME NEW w \in World, Justified(w),
           NEW D \in [EdgeId -> Edge \union {Unused, Removed}], NEW t \in Task
    PROVE  Justly(w, RefreshTaskRunGates([w EXCEPT !.dependencies = D], t))
<1> DEFINE x == [w EXCEPT !.dependencies = D]
           v == RefreshTaskRunGates(x, t)
<1>1. x \in World /\ SameHolds(w, x)
  BY DEF World, SameHolds
<1> HIDE DEF x
<1>2. Justified(x)
  BY <1>1, SameHoldsStayJustified
<1>3. Justified(v) /\ Frees(x, v)
  BY <1>1, <1>2, RefreshIsJust
<1> HIDE DEF v
<1>4. Justly(w, v)
  BY <1>1, <1>3, FreedJustly DEF SameHolds
<1> QED
  BY <1>4 DEF x, v

LEMMA DecidedIsJust ==
    ASSUME NEW w \in World, Justified(w), NEW e \in Live(w), NEW choice \in Decision
    PROVE  Justly(w, Decided(w, e, choice))
<1> DEFINE old == w.dependencies[e]
           accepted == [old EXCEPT !.state = "active", !.observed = old.current]
           put(state) == [old EXCEPT !.state = state]
           D(edge) == [w.dependencies EXCEPT ![e] = edge]
<1>1. /\ e \in EdgeId /\ old \in Edge /\ old.target \in Task
      /\ w.dependencies \in [EdgeId -> Edge \union {Unused, Removed}]
  BY DEF Live, World, Edge
<1>2. accepted \in Edge /\ put("pending") \in Edge /\ put("rejected") \in Edge
  BY <1>1 DEF Edge, EdgeState
<1>3. \A edge \in Edge \union {Removed} :
        D(edge) \in [EdgeId -> Edge \union {Unused, Removed}]
  BY <1>1
<1>4. \A edge \in Edge \union {Removed} :
        Justly(w, RefreshTaskRunGates([w EXCEPT !.dependencies = D(edge)], old.target))
  BY <1>1, <1>3, EdgesChangedJustly
<1>5. CASE choice = "reaffirm"
  <2>1. /\ "dependencies" \in DOMAIN w /\ e \in DOMAIN w.dependencies
        /\ "state" \in DOMAIN old /\ "observed" \in DOMAIN old
    BY <1>1 DEF World, Edge
  <2>2. Decided(w, e, choice)
            = RefreshTaskRunGates([w EXCEPT !.dependencies = D(accepted)], old.target)
    BY <1>5, <2>1 DEF Decided, Reaffirmed
  <2> QED
    BY <1>2, <1>4, <2>2
<1>6. CASE choice = "remove"
  <2>1. Decided(w, e, choice)
            = RefreshTaskRunGates([w EXCEPT !.dependencies = D(Removed)], old.target)
    BY <1>6 DEF Decided, Without
  <2> QED
    BY <1>4, <2>1
<1>7. CASE choice = "hold"
  <2>1. Decided(w, e, choice)
            = RefreshTaskRunGates([w EXCEPT !.dependencies = D(put("pending"))],
                                  old.target)
    BY <1>7 DEF Decided, WithState
  <2> QED
    BY <1>2, <1>4, <2>1
<1>8. CASE choice = "replan"
  <2>1. Decided(w, e, choice)
            = RefreshTaskRunGates([w EXCEPT !.dependencies = D(put("rejected"))],
                                  old.target)
    BY <1>8 DEF Decided, WithState
  <2> QED
    BY <1>2, <1>4, <2>1
<1> QED
  BY <1>5, <1>6, <1>7, <1>8 DEF Decision

LEMMA RecordedIsQuiet ==
    ASSUME NEW w \in World, NEW e, NEW s, NEW t, NEW kind, NEW u \in Recorded(w, e, s, t, kind)
    PROVE  SameHolds(w, u)
BY DEF Recorded, World, SameHolds

LEMMA MarkSucceededIsQuiet ==
    ASSUME NEW w \in World, NEW t
    PROVE  SameHolds(w, MarkSucceeded(w, t))
BY DEF MarkSucceeded, World, SameHolds

LEMMA RunReplacedIsQuiet ==
    ASSUME NEW w \in World, NEW t \in Task, NEW i, NEW run
    PROVE  /\ SameHolds(w, [w EXCEPT !.runs[t][i] = run])
           /\ [w EXCEPT !.runs[t][i] = run].dependencies = w.dependencies
BY DEF World, SameHolds


\* The edges once t has put out the version.
StaleFrom(w, t, version) ==
    [e \in EdgeId |->
         IF /\ e \in Live(w)
            /\ Consumes(w, e)
            /\ w.dependencies[e].source = t
         THEN [w.dependencies[e] EXCEPT !.state = "stale",
                                        !.generation = @ + 1,
                                        !.current = version]
         ELSE w.dependencies[e]]

LEMMA StaleEdgesAreTyped ==
    ASSUME NEW w \in World, NEW t, NEW version \in Nat
    PROVE  StaleFrom(w, t, version) \in [EdgeId -> Edge \union {Unused, Removed}]
<1> DEFINE new(e) == [w.dependencies[e] EXCEPT !.state = "stale",
                                               !.generation = @ + 1,
                                               !.current = version]
<1>1. \A e \in Live(w) : new(e) \in Edge
  <2> SUFFICES ASSUME NEW e \in Live(w) PROVE new(e) \in Edge
    OBVIOUS
  <2>1. w.dependencies[e] \in Edge
    BY DEF Live, World
  <2> QED
    BY <2>1, StaleEdge
<1> HIDE DEF new
<1>2. \A e \in EdgeId : w.dependencies[e] \in Edge \union {Unused, Removed}
  BY DEF World
<1> QED
  BY <1>1, <1>2 DEF new, StaleFrom

LEMMA InvalidatedIsJust ==
    ASSUME NEW w \in World, Justified(w), NEW t \in Task
    PROVE  Justly(w, Invalidated(w, t))
<1> DEFINE
    version == w.node_artifacts[t] + 1
    consumers == LiveConsumers(w, t)
    A == [w.node_artifacts EXCEPT ![t] = version]
    D == StaleFrom(w, t, version)
    v == [w EXCEPT !.node_artifacts = A, !.dependencies = D]
    fenced == FenceAttempts(v, consumers)
    U == {c \in consumers : /\ ~Settled(fenced, c)
                            /\ fenced.blocked_reason[c] \in {"none", "issue", "stale"}}
    held == Held(fenced, U, "stale")
    M == [c \in Task |->
            IF c \in consumers /\ held.status[c] \in {"done", "cancelled"}
            THEN "stale" ELSE held.materialization[c]]
<1>1. version \in Nat /\ A \in [Task -> Nat]
  BY DEF World
<1>2. D \in [EdgeId -> Edge \union {Unused, Removed}]
  <2> HIDE DEF version
  <2> QED
    BY <1>1, StaleEdgesAreTyped
<1>3. Invalidated(w, t) = [held EXCEPT !.materialization = M]
  BY DEF Invalidated, ApplyStaleDependencyHold, StaleFrom
<1> HIDE DEF A, D
<1>4. v \in World /\ SameHolds(w, v)
  BY <1>1, <1>2 DEF World, SameHolds
<1> HIDE DEF v
<1>5. fenced \in World /\ SameHolds(w, fenced)
  <2>1. OnlyRuns(v, fenced)
    BY <1>4, FencesChangeOnlyRuns
  <2> QED
    BY <2>1, <1>4, RunsKeepHolds, SameHoldsTransitive DEF OnlyRuns
<1> HIDE DEF fenced, U
<1>6. held \in World /\ Justified(held) /\ Frees(fenced, held)
  BY <1>5, SameHoldsStayJustified, HoldIsJust, HoldingIsAGate DEF OnlyGates, Reason
<1> HIDE DEF held, M
<1>7. SameHolds(held, [held EXCEPT !.materialization = M])
      /\ [held EXCEPT !.materialization = M].dependencies = held.dependencies
  BY <1>6 DEF World, SameHolds
<1> DEFINE x == [held EXCEPT !.materialization = M]
<1> HIDE DEF x
<1>8. Justified(x) /\ SameHolds(held, x) /\ x.dependencies = held.dependencies
  BY <1>6, <1>7, SameHoldsStayJustified DEF x
<1>9. \A c : HasStaleDependency(x, c) <=> HasStaleDependency(held, c)
  BY <1>8 DEF HasStaleDependency, EdgesInto, Live, Consumes
<1>10. Frees(fenced, x)
  BY <1>6, <1>8, <1>9, SameHoldsSameBlockers DEF Frees, Clear, SameHolds
<1>11. Justly(w, x)
  BY <1>5, <1>8, <1>10, FreedJustly DEF SameHolds
<1> QED
  BY <1>3, <1>11 DEF x

-----------------------------------------------------------------------------
(* Every action is just.                                                    *)

GInv == IInv /\ Justified(world)

LEMMA GInvWorld == GInv => world \in World /\ Sound(world) /\ Justified(world)
BY DEF GInv, IInv, Sound

LEMMA SetTaskStatusIsJust ==
    ASSUME GInv, NEW t \in Task, NEW s \in Status, SetTaskStatus(t, s)
    PROVE  Justly(world, world')
<1> DEFINE marked == WithStatus(world, t, s)
           w == IF s = "done" THEN MarkSucceeded(marked, t) ELSE marked
           T == IssueBlockingIds(w, t)
           synced == SyncIssueBlockerHold(w, T)
<1>1. /\ Sound(marked) /\ Sound(w)
  BY GInvWorld, WithStatusIsSound, MarkSucceededIsSound
<1>2. PICK x \in Reconcile(synced) : world' \in Release(x, WouldRelease(w, t))
  BY DEF SetTaskStatus
<1>3. /\ \A x1 \in Task \ {t} : /\ marked.status[x1] = world.status[x1]
                                /\ marked.blocked_reason[x1] = world.blocked_reason[x1]
      /\ marked.blocked_reason[t] = "issue" => world.blocked_reason[t] = "issue"
      /\ marked.deleted = world.deleted
      /\ marked.issue_blockers = world.issue_blockers
      /\ marked.dependencies = world.dependencies
      /\ marked.moved = world.moved \ {t}
  BY GInvWorld DEF WithStatus, World
<1>4. w \in World /\ SameHolds(marked, w) /\ w.dependencies = marked.dependencies
  <2>1. marked \in World /\ w \in World
    BY <1>1 DEF Sound
  <2> HIDE DEF marked
  <2>2. SameHolds(marked, MarkSucceeded(marked, t))
        /\ MarkSucceeded(marked, t).dependencies = marked.dependencies
    BY <2>1, MarkSucceededIsQuiet DEF MarkSucceeded, World
  <2> QED
    BY <2>1, <2>2 DEF SameHolds
<1> HIDE DEF w, marked
<1>5. /\ \A b \in Task \ {t} :
            IssueBlockerSatisfied(w, b) <=> IssueBlockerSatisfied(world, b)
      /\ \A b : IssueBlockerIds(w, b) = IssueBlockerIds(world, b)
  BY <1>3, <1>4 DEF SameHolds, IssueBlockerSatisfied, IssueBlockerIds
<1>6. T \in SUBSET Task /\ \A x1 \in Task \ T : t \notin IssueBlockerIds(w, x1)
  BY DEF IssueBlockingIds, IssueBlockerIds
<1>7. \A x1 \in Task \ (w.deleted \union T) :
        w.blocked_reason[x1] = "issue" => HasCause(w, x1)
  <2> SUFFICES ASSUME NEW x1 \in Task, x1 \notin w.deleted, x1 \notin T,
                      w.blocked_reason[x1] = "issue"
               PROVE  HasCause(w, x1)
    OBVIOUS
  <2>1. world.blocked_reason[x1] = "issue" /\ x1 \notin world.deleted
    BY <1>3, <1>4 DEF SameHolds
  <2>2. HasCause(world, x1)
    BY <2>1, GInvWorld DEF Justified
  <2>3. UnresolvedBlockers(w, x1) = UnresolvedBlockers(world, x1)
    BY <1>5, <1>6 DEF UnresolvedBlockers, IssueBlockerIds
  <2>4. t \notin IssueBlockerIds(world, x1) /\ w.moved = world.moved \ {t}
    BY <1>3, <1>4, <1>5, <1>6 DEF SameHolds
  <2> QED
    BY <2>2, <2>3, <2>4, <1>5 DEF HasCause
<1>8. /\ Justified(synced) /\ Frees(w, synced)
      /\ \A b \in Task : IssueBlockerSatisfied(synced, b) <=> IssueBlockerSatisfied(w, b)
      /\ OnlyGates(w, synced) /\ synced \in World
  <2>1. OnlyGates(w, synced)
    BY <1>4, SyncIsAGate
  <2> HIDE DEF T
  <2> QED
    BY <2>1, <1>4, <1>6, <1>7, SyncIsJust DEF OnlyGates
<1>9. WouldRelease(w, t) \in SUBSET Task
  BY DEF WouldRelease, IssueBlockingIds
<1> HIDE DEF synced, T
<1>10. Surroundings(synced, t) = Surroundings(world, t)
  <2>1. \A b \in Task \ {t} :
            IssueBlockerSatisfied(synced, b) <=> IssueBlockerSatisfied(world, b)
    BY <1>5, <1>8
  <2>2. synced.issue_blockers = world.issue_blockers
        /\ synced.dependencies = world.dependencies
    BY <1>3, <1>4, <1>8 DEF OnlyGates, SameHolds
  <2> QED
    BY <2>1, <2>2 DEF Surroundings
<1>11. Justly(world, synced)
  <2> SUFFICES ASSUME NEW x1 \in Task,
                      world.blocked_reason[x1] \in {"issue", "stale"},
                      synced.blocked_reason[x1] = "none",
                      Surroundings(synced, x1) # Surroundings(world, x1)
               PROVE  Clear(world, synced, x1)
    BY <1>8 DEF Justly, Releases
  <2>1. x1 # t
    BY <1>10
  <2>2. w.blocked_reason[x1] = world.blocked_reason[x1]
    BY <2>1, <1>3, <1>4 DEF SameHolds
  <2> QED
    BY <2>2, <1>8 DEF Frees, Clear
<1>12. x \in World /\ Justly(world, x)
  BY <1>2, <1>8, <1>11, ReconciledJustly, ReconcileChangesOnlyRuns DEF OnlyRuns
<1> QED
  BY <1>2, <1>9, <1>12, ReleaseChangesOnlyRuns, ScheduledJustly

LEMMA DeleteTaskIsJust ==
    ASSUME GInv, NEW t \in Task, DeleteTask(t)
    PROVE  Justly(world, world')
<1> DEFINE w == [world EXCEPT !.deleted = @ \union {t}]
           B == {p \in w.issue_blockers : t \notin {p[1], p[2]}}
           cut == [w EXCEPT !.issue_blockers = B]
           T == IssueBlockingIds(w, t)
           synced == SyncIssueBlockerHold(cut, T)
<1>1. Finish(synced, WouldRelease(w, t))
  BY DEF DeleteTask
<1>2. /\ w \in World /\ w.issue_blockers = world.issue_blockers
      /\ w.deleted = world.deleted \union {t} /\ w.status = world.status
      /\ w.blocked_reason = world.blocked_reason /\ w.moved = world.moved
  BY GInvWorld DEF World
<1>3. T \in SUBSET Task /\ \A x \in Task \ T : t \notin IssueBlockerIds(world, x)
  BY <1>2 DEF IssueBlockingIds, IssueBlockerIds
<1> HIDE DEF w, T
<1>4. /\ cut \in World /\ cut.deleted = w.deleted /\ cut.status = w.status
      /\ cut.blocked_reason = w.blocked_reason /\ cut.issue_blockers = B
      /\ cut.moved = w.moved
  BY <1>2 DEF World
<1> HIDE DEF cut
<1>5. \A x \in Task \ T : x # t => IssueBlockerIds(cut, x) = IssueBlockerIds(world, x)
  BY <1>2, <1>3, <1>4 DEF IssueBlockerIds
<1>6. \A b \in Task \ {t} : IssueBlockerSatisfied(cut, b) <=> IssueBlockerSatisfied(world, b)
  BY <1>2, <1>4 DEF IssueBlockerSatisfied
<1>7. \A x \in Task \ (cut.deleted \union T) :
        cut.blocked_reason[x] = "issue" => HasCause(cut, x)
  <2> SUFFICES ASSUME NEW x \in Task, x \notin cut.deleted, x \notin T,
                      cut.blocked_reason[x] = "issue"
               PROVE  HasCause(cut, x)
    OBVIOUS
  <2>1. HasCause(world, x) /\ x # t
    BY <1>2, <1>4, GInvWorld DEF Justified
  <2>2. UnresolvedBlockers(cut, x) = UnresolvedBlockers(world, x)
    BY <2>1, <1>3, <1>5, <1>6 DEF UnresolvedBlockers, IssueBlockerIds
  <2> QED
    BY <2>1, <2>2, <1>2, <1>4, <1>5 DEF HasCause
<1>8. Justified(synced) /\ Frees(cut, synced) /\ synced \in World
  BY <1>3, <1>4, <1>7, SyncIsJust, SyncIsAGate DEF OnlyGates
<1>9. Justly(world, synced)
  BY <1>2, <1>4, <1>8, FreedJustly
<1>10. WouldRelease(w, t) \in SUBSET Task
  BY DEF WouldRelease, IssueBlockingIds
<1> QED
  BY <1>1, <1>8, <1>9, <1>10, FinishedJustly

\* One task's blockers change, and then its gate.
LEMMA BlockersChangedJustly ==
    ASSUME GInv, NEW t \in Task, NEW B \in SUBSET (Task \X Task),
           \A p \in Task \X Task : p[1] # t => (p \in B <=> p \in world.issue_blockers)
    PROVE  LET v == SyncIssueBlockerHold([world EXCEPT !.issue_blockers = B], {t})
           IN  v \in World /\ Justly(world, v)
<1> DEFINE w == [world EXCEPT !.issue_blockers = B]
           T == {t}
           v == SyncIssueBlockerHold(w, T)
<1>1. /\ w \in World /\ w.issue_blockers = B /\ w.deleted = world.deleted
      /\ w.status = world.status /\ w.blocked_reason = world.blocked_reason /\ w.moved = world.moved
  BY GInvWorld DEF World
<1> HIDE DEF w
<1>2. \A x \in Task \ T : /\ UnresolvedBlockers(w, x) = UnresolvedBlockers(world, x)
                          /\ IssueBlockerIds(w, x) = IssueBlockerIds(world, x)
  BY <1>1 DEF UnresolvedBlockers, IssueBlockerIds, IssueBlockerSatisfied
<1>3. \A x \in Task \ (w.deleted \union T) :
        w.blocked_reason[x] = "issue" => HasCause(w, x)
  BY <1>1, <1>2, GInvWorld DEF Justified, HasCause
<1>4. T \in SUBSET Task
  OBVIOUS
<1> HIDE DEF T
<1>5. Justified(v) /\ Frees(w, v) /\ v \in World
  BY <1>1, <1>3, <1>4, SyncIsJust, SyncIsAGate DEF OnlyGates
<1> HIDE DEF v
<1>6. Justly(world, v)
  BY <1>1, <1>5, FreedJustly
<1> QED
  BY <1>5, <1>6 DEF v, w, T

\* A column is sorted: nobody's reason changes, and who depends on a task that
\* was moved is excused from having an unfinished blocker.
LEMMA ReorderTasksIsJust ==
    ASSUME GInv, NEW T \in SUBSET Task, NEW s \in Status, ReorderTasks(T, s)
    PROVE  Justly(world, world')
<1>1. /\ world'.blocked_reason = world.blocked_reason
      /\ world'.deleted = world.deleted
      /\ world'.issue_blockers = world.issue_blockers
      /\ world'.moved = world.moved \union T
      /\ \A t \in Task \ T : world'.status[t] = world.status[t]
  BY GInvWorld DEF ReorderTasks, Reordered, World
<1>2. \A t \in Task : HasCause(world, t) => HasCause(world', t)
  <2> SUFFICES ASSUME NEW t \in Task, HasCause(world, t),
                      IssueBlockerIds(world, t) \intersect (world.moved \union T) = {}
               PROVE  HasCause(world', t)
    BY <1>1 DEF HasCause, IssueBlockerIds
  <2>1. \A b \in IssueBlockerIds(world, t) :
            IssueBlockerSatisfied(world', b) <=> IssueBlockerSatisfied(world, b)
    BY <1>1 DEF IssueBlockerSatisfied, IssueBlockerIds
  <2>2. UnresolvedBlockers(world', t) = UnresolvedBlockers(world, t)
    BY <1>1, <2>1 DEF UnresolvedBlockers, IssueBlockerIds
  <2> QED
    BY <2>2 DEF HasCause
<1>3. Justified(world')
  BY <1>1, <1>2, GInvWorld DEF Justified
<1> QED
  BY <1>1, <1>3 DEF Justly, Releases

\* Pull requests complete the tasks of D.  A task held for one of them is among
\* those whose holds are looked at again.
LEMMA CompletedIsJust ==
    ASSUME GInv, NEW D \in SUBSET Task, Completable(D)
    PROVE  Justly(world, Completed(world, D))
<1> DEFINE W == {t \in Task \ D :
                    Cardinality(UnresolvedBlockers(world, t) \intersect D) > 1}
           between == SyncIssueBlockerHold(world, W)
           done == [between EXCEPT
                      !.status = [t \in Task |-> IF t \in D THEN "done" ELSE @[t]],
                      !.blocked_reason = [t \in Task |-> IF t \in D THEN "none" ELSE @[t]],
                      !.moved = @ \ D]
           T == UNION {IssueBlockingIds(world, t) : t \in D}
           v == SyncIssueBlockerHold(done, T)
<1>1. Completed(world, D) = v
  BY DEF Completed
<1>2. \A t \in W : t \in T /\ UnresolvedBlockers(world, t) # {}
  <2> SUFFICES ASSUME NEW t \in W PROVE t \in T /\ UnresolvedBlockers(world, t) # {}
    OBVIOUS
  <2>1. UnresolvedBlockers(world, t) \intersect D # {}
    <3> SUFFICES ASSUME UnresolvedBlockers(world, t) \intersect D = {} PROVE FALSE
      OBVIOUS
    <3> QED
      BY FS_EmptySet
  <2>2. PICK b \in D : b \in UnresolvedBlockers(world, t)
    BY <2>1
  <2>3. t \in IssueBlockingIds(world, b)
    BY <2>2 DEF UnresolvedBlockers, IssueBlockerIds, IssueBlockingIds
  <2> QED
    BY <2>2, <2>3
<1>3. /\ W \in SUBSET Task /\ T \in SUBSET Task
      /\ \A t \in Task \ T : D \intersect IssueBlockerIds(world, t) = {}
  <2>1. T \in SUBSET Task
    BY DEF IssueBlockingIds
  <2>2. \A t \in Task \ T : D \intersect IssueBlockerIds(world, t) = {}
    <3> SUFFICES ASSUME NEW t \in Task, NEW b \in D, b \in IssueBlockerIds(world, t)
                 PROVE  t \in T
      OBVIOUS
    <3> QED
      BY DEF IssueBlockingIds, IssueBlockerIds
  <2> QED
    BY <2>1, <2>2
<1> HIDE DEF W, T
<1>4. /\ between \in World /\ OnlyGates(world, between)
      /\ \A b \in Task : IssueBlockerSatisfied(between, b) <=> IssueBlockerSatisfied(world, b)
      /\ Frees(world, between)
      /\ \A t \in Task \ W : between.blocked_reason[t] = world.blocked_reason[t]
      /\ \A t \in Task : UnresolvedBlockers(between, t) = UnresolvedBlockers(world, t)
  BY <1>3, GInvWorld, SyncIsAGate, SyncIsJust DEF Justified, OnlyGates
<1>5. \A t \in W : world.blocked_reason[t] \in {"issue", "stale"} =>
                        between.blocked_reason[t] = world.blocked_reason[t]
  BY <1>2, <1>3, GInvWorld DEF SyncIssueBlockerHold, Held, Unheld, World
<1> HIDE DEF between
<1>6. /\ done \in World
      /\ done.deleted = world.deleted /\ done.issue_blockers = world.issue_blockers
      /\ done.dependencies = world.dependencies
      /\ done.moved = world.moved \ D
      /\ \A t \in D : done.status[t] = "done" /\ done.blocked_reason[t] = "none"
      /\ \A t \in Task \ D : /\ done.status[t] = between.status[t]
                            /\ done.blocked_reason[t] = between.blocked_reason[t]
  BY <1>4 DEF World, Status, Reason, OnlyGates
<1> HIDE DEF done
<1>7. \A t \in Task \ (done.deleted \union T) :
        done.blocked_reason[t] = "issue" => HasCause(done, t)
  <2> SUFFICES ASSUME NEW t \in Task, t \notin world.deleted, t \notin T,
                      done.blocked_reason[t] = "issue"
               PROVE  HasCause(done, t)
    BY <1>6
  <2>1. t \notin D /\ t \notin W /\ world.blocked_reason[t] = "issue"
    BY <1>2, <1>4, <1>6
  <2>2. HasCause(world, t)
    BY <2>1, GInvWorld DEF Justified
  <2>3. \A b \in IssueBlockerIds(world, t) :
            IssueBlockerSatisfied(done, b) <=> IssueBlockerSatisfied(world, b)
    <3> SUFFICES ASSUME NEW b \in IssueBlockerIds(world, t)
                 PROVE  IssueBlockerSatisfied(done, b) <=> IssueBlockerSatisfied(between, b)
      BY <1>4 DEF IssueBlockerIds
    <3>1. b \in Task \ D
      BY <1>3 DEF IssueBlockerIds
    <3> QED
      BY <3>1, <1>4, <1>6 DEF IssueBlockerSatisfied, OnlyGates
  <2>4. /\ UnresolvedBlockers(done, t) = UnresolvedBlockers(world, t)
        /\ IssueBlockerIds(done, t) = IssueBlockerIds(world, t)
    BY <1>6, <2>3 DEF UnresolvedBlockers, IssueBlockerIds
  <2> QED
    BY <2>2, <2>4, <1>3, <1>6 DEF HasCause
<1>8. /\ Justified(v) /\ Frees(done, v) /\ OnlyGates(done, v)
      /\ \A b \in Task : IssueBlockerSatisfied(v, b) <=> IssueBlockerSatisfied(done, b)
  BY <1>3, <1>6, <1>7, SyncIsAGate, SyncIsJust
<1> HIDE DEF v
<1>9. Releases(world, v)
  <2> SUFFICES ASSUME NEW t \in Task,
                      world.blocked_reason[t] \in {"issue", "stale"},
                      v.blocked_reason[t] = "none",
                      v.status[t] \notin {"done", "cancelled"}
               PROVE  Clear(world, v, t)
    BY DEF Releases
  <2>1. t \notin D
    BY <1>6, <1>8 DEF Completable, Settled, IssueBlockerSatisfied, OnlyGates
  <2>2. done.blocked_reason[t] = world.blocked_reason[t]
    BY <2>1, <1>4, <1>5, <1>6
  <2> QED
    BY <2>2, <1>8 DEF Frees, Clear
<1> QED
  BY <1>1, <1>8, <1>9 DEF Justly

LEMMA SyncGithubPullRequestsIsJust ==
    ASSUME GInv, NEW D \in SUBSET Task, SyncGithubPullRequests(D)
    PROVE  Justly(world, world')
<1>1. Justly(world, Completed(world, D)) /\ Completed(world, D) \in World
  BY CompletedIsJust, CompletedIsSound DEF SyncGithubPullRequests, GInv, IInv, Sound
<1>2. ReleasedBy(world, D) \in SUBSET Task
  BY DEF ReleasedBy, IssueBlockingIds
<1> QED
  BY <1>1, <1>2, ReleaseChangesOnlyRuns, ScheduledJustly DEF SyncGithubPullRequests

LEMMA NothingIsJust == GInv => Justly(world, world)
BY GInvWorld, QuietIsJust DEF SameHolds

LEMMA AddIssueBlockerIsJust ==
    ASSUME GInv, NEW t \in Task, NEW b \in Task, AddIssueBlocker(t, b)
    PROVE  Justly(world, world')
<1> DEFINE none == {}
<1>1. none \in SUBSET Task
  OBVIOUS
<1> HIDE DEF none
<1>2. CASE Finish(world, none)
  BY <1>1, <1>2, GInvWorld, NothingIsJust, FinishedJustly
<1>3. CASE Finish(SyncIssueBlockerHold(
                [world EXCEPT !.issue_blockers = @ \union {<<t, b>>}], {t}), none)
  <2> DEFINE B == world.issue_blockers \union {<<t, b>>}
             v == SyncIssueBlockerHold([world EXCEPT !.issue_blockers = B], {t})
  <2>1. B \in SUBSET (Task \X Task)
    BY GInvWorld DEF World
  <2>2. \A p \in Task \X Task : p[1] # t => (p \in B <=> p \in world.issue_blockers)
    OBVIOUS
  <2>3. Finish(v, none)
    BY <1>3
  <2> HIDE DEF B
  <2>4. v \in World /\ Justly(world, v)
    BY <2>1, <2>2, BlockersChangedJustly
  <2> HIDE DEF v
  <2> QED
    BY <1>1, <2>3, <2>4, FinishedJustly
<1> QED
  BY <1>2, <1>3 DEF AddIssueBlocker, none

LEMMA RemoveIssueBlockerIsJust ==
    ASSUME GInv, NEW t \in Task, NEW b \in Task, RemoveIssueBlocker(t, b)
    PROVE  Justly(world, world')
<1> DEFINE B == world.issue_blockers \ {<<t, b>>}
           v == SyncIssueBlockerHold([world EXCEPT !.issue_blockers = B], {t})
           released == WouldRelease(world, b) \intersect {t}
<1>1. B \in SUBSET (Task \X Task) /\ released \in SUBSET Task
  BY GInvWorld DEF World
<1>2. \A p \in Task \X Task : p[1] # t => (p \in B <=> p \in world.issue_blockers)
  OBVIOUS
<1>3. Finish(v, released)
  BY DEF RemoveIssueBlocker
<1> HIDE DEF B, released
<1>4. v \in World /\ Justly(world, v)
  BY <1>1, <1>2, BlockersChangedJustly
<1> HIDE DEF v
<1> QED
  BY <1>1, <1>3, <1>4, FinishedJustly

LEMMA SetWorkspaceConductorIsJust ==
    ASSUME GInv, NEW c \in Agent \union {NoAgent}, SetWorkspaceConductor(c)
    PROVE  Justly(world, world')
<1> DEFINE w == [world EXCEPT !.conductor = c]
           none == {}
<1>1. w \in World /\ SameHolds(world, w) /\ none \in SUBSET Task
  BY GInvWorld DEF World, SameHolds
<1>2. Finish(w, none)
  BY DEF SetWorkspaceConductor
<1> HIDE DEF w, none
<1> QED
  BY <1>1, <1>2, GInvWorld, QuietIsJust, FinishedJustly

LEMMA DeclareDependencyIsJust ==
    ASSUME GInv, NEW e \in EdgeId, NEW s \in Task, NEW t \in Task,
           NEW kind \in EdgeKind, DeclareDependency(e, s, t, kind)
    PROVE  Justly(world, world')
<1>1. PICK w \in Recorded(world, e, s, t, kind) : world' \in Reconcile(w)
  BY DEF DeclareDependency
<1>2. w \in World
  BY GInvWorld, RecordedIsSound DEF DeclareDependency, Sound
<1>3. Justly(world, w)
  BY GInvWorld, RecordedIsQuiet, QuietIsJust
<1> QED
  BY <1>1, <1>2, <1>3, ReconciledJustly

LEMMA DecidedWorld ==
    ASSUME GInv, NEW e \in Live(world), NEW choice \in Decision
    PROVE  Decided(world, e, choice) \in World /\ Justly(world, Decided(world, e, choice))
BY GInvWorld, DecidedIsSound, DecidedIsJust DEF Sound

LEMMA ReaffirmDependencyIsJust ==
    ASSUME GInv, NEW e \in Live(world), ReaffirmDependency(e)
    PROVE  Justly(world, world')
<1> DEFINE T == {world.dependencies[e].target}
           w == Decided(world, e, "reaffirm")
<1>1. PICK x \in Reconcile(w) : world' \in DispatchReady(x, T)
  BY DEF ReaffirmDependency, Decided
<1>2. T \in SUBSET Task
  BY GInvWorld DEF Live, World, Edge
<1>3. w \in World /\ Justly(world, w)
  BY DecidedWorld DEF Decision
<1> HIDE DEF w, T
<1>4. x \in World /\ Justly(world, x)
  BY <1>1, <1>3, ReconciledJustly, ReconcileChangesOnlyRuns DEF OnlyRuns
<1> QED
  BY <1>1, <1>2, <1>4, DispatchReadyChangesOnlyRuns, ScheduledJustly

LEMMA RemoveDependencyIsJust ==
    ASSUME GInv, NEW e \in Live(world), RemoveDependency(e)
    PROVE  Justly(world, world')
<1>1. world' \in Reconcile(Decided(world, e, "remove"))
  BY DEF RemoveDependency, Decided
<1> QED
  BY <1>1, DecidedWorld, ReconciledJustly DEF Decision

LEMMA ValidationDecisionIsJust ==
    ASSUME GInv, NEW e \in Live(world), NEW choice \in Decision,
           ValidationDecision(e, choice)
    PROVE  Justly(world, world')
<1> DEFINE none == {}
<1>1. none \in SUBSET Task /\ Finish(Decided(world, e, choice), none)
  BY DEF ValidationDecision
<1> HIDE DEF none
<1> QED
  BY <1>1, DecidedWorld, FinishedJustly

LEMMA StartsAreQuiet ==
    ASSUME NEW w \in World, NEW runs
    PROVE  SameHolds(w, Started(w, runs))
BY DEF Started, World, SameHolds

LEMMA StartRunIsJust ==
    ASSUME GInv, NEW t, NEW a, StartRun(t, a)
    PROVE  Justly(world, world')
BY GInvWorld, StartsAreQuiet, QuietIsJust DEF StartRun

LEMMA StopChatIsJust ==
    ASSUME GInv, NEW t \in Task, StopChat(t)
    PROVE  Justly(world, world')
BY GInvWorld, StopChatIsSound, RunsKeepHolds, QuietIsJust DEF GInv

LEMMA CancelRunIsJust ==
    ASSUME GInv, NEW t, NEW i, CancelRun(t, i)
    PROVE  Justly(world, world')
<1>1. SameHolds(world, world')
  BY GInvWorld DEF CancelRun, World, SameHolds
<1> QED
  BY <1>1, GInvWorld, QuietIsJust

LEMMA RetryRunIsJust ==
    ASSUME GInv, NEW t, NEW i, RetryRun(t, i)
    PROVE  Justly(world, world')
BY GInvWorld, StartsAreQuiet, QuietIsJust DEF RetryRun

LEMMA ApplyPatchConflictIsJust ==
    ASSUME GInv, NEW t \in Task, ApplyPatchConflict(t)
    PROVE  Justly(world, world')
<1>1. Justified(world') /\ Frees(world, world')
  BY GInvWorld, HoldIsJust DEF ApplyPatchConflict
<1> QED
  BY <1>1, FreedJustly

LEMMA ApplyPatchIsJust ==
    ASSUME GInv, NEW t \in Task, ApplyPatch(t)
    PROVE  Justly(world, world')
<1> DEFINE x == Invalidated(world, t)
           w == PauseStaleConsumers(x, LiveConsumers(world, t))
<1>1. Sound(x) /\ Justly(world, x)
  BY GInvWorld, InvalidatedIsSound, InvalidatedIsJust
<1>2. world' \in ReconcileWorkspace(w)
  BY DEF ApplyPatch
<1> HIDE DEF x
<1>3. w \in World
  BY <1>1, PausingIsSound DEF Sound
<1>4. SameHolds(x, w) /\ w.dependencies = x.dependencies
  BY <1>1 DEF PauseStaleConsumers, EachRun, Sound, World, SameHolds
<1>5. OnlyRuns(x, w)
  BY <1>1, <1>3 DEF PauseStaleConsumers, EachRun, Sound, World, OnlyRuns
<1> QED
  BY <1>1, <1>2, <1>3, <1>5, ScheduledJustly, WorkspaceReconciledJustly

LEMMA HarnessProgressIsJust ==
    ASSUME GInv, NEW t, NEW i, HarnessProgress(t, i)
    PROVE  Justly(world, world')
BY GInvWorld, NothingIsJust, AnsweredJustly, ReconciledJustly DEF HarnessProgress

LEMMA HarnessDependsIsJust ==
    ASSUME GInv, NEW t \in Task, NEW i, NEW e \in EdgeId, NEW s \in Task,
           HarnessDepends(t, i, e, s)
    PROVE  Justly(world, world')
<1>1. PICK w \in Recorded(world, e, s, t, "consumes") : world' \in AfterMessage(w, t, i)
  BY DEF HarnessDepends
<1>2. w \in World
  BY GInvWorld, RecordedIsSound DEF HarnessDepends, Sound, EdgeKind
<1>3. Justly(world, w)
  BY GInvWorld, RecordedIsQuiet, QuietIsJust
<1> QED
  BY <1>1, <1>2, <1>3, AnsweredJustly

LEMMA HarnessDriftIsJust ==
    ASSUME GInv, NEW t \in Task, NEW i \in DOMAIN world.runs[t], HarnessDrift(t, i)
    PROVE  Justly(world, world')
<1> DEFINE run == [world.runs[t][i] EXCEPT !.status = "paused", !.was_paused = TRUE]
           paused == [world EXCEPT !.runs[t][i] = run]
           w == Held(paused, {t}, "gate")
<1>1. run \in Run
  <2>1. world.runs[t][i] \in Run
    BY RunsAreTyped DEF GInv
  <2> QED
    BY <2>1 DEF Run, RunStatus
<1>2. world' \in AfterMessage(w, t, i)
  BY DEF HarnessDrift
<1> HIDE DEF run
<1>3. paused \in World /\ SameHolds(world, paused)
  BY <1>1, GInvWorld, RunReplacedIsSound, RunReplacedIsQuiet DEF Sound
<1> HIDE DEF paused
<1>4. Justified(paused)
  BY <1>3, GInvWorld, SameHoldsStayJustified
<1>5. w \in World /\ Justified(w) /\ Frees(paused, w)
  BY <1>3, <1>4, HoldIsJust, HoldingIsAGate DEF OnlyGates, Reason
<1> HIDE DEF w
<1>6. Justly(world, w)
  BY <1>3, <1>5, FreedJustly DEF SameHolds
<1> QED
  BY <1>2, <1>5, <1>6, AnsweredJustly

LEMMA HarnessPatchConflictIsJust ==
    ASSUME GInv, NEW t \in Task, NEW i, HarnessPatchConflict(t, i)
    PROVE  Justly(world, world')
<1> DEFINE w == Held(world, {t}, "gate")
<1>1. w \in World /\ Justified(w) /\ Frees(world, w)
  BY GInvWorld, HoldIsJust, HoldingIsAGate DEF OnlyGates, Reason
<1>2. world' \in Reconcile(w)
  BY DEF HarnessPatchConflict
<1> HIDE DEF w
<1> QED
  BY <1>1, <1>2, FreedJustly, ReconciledJustly

LEMMA HarnessVerdictIsJust ==
    ASSUME GInv, NEW t \in Task, NEW i \in DOMAIN world.runs[t],
           NEW e \in Live(world), NEW choice \in Decision,
           HarnessVerdict(t, i, e, choice)
    PROVE  Justly(world, world')
<1> DEFINE
    new == [world.runs[t][i] EXCEPT !.lease = "succeeded"]
    x == [world EXCEPT !.runs[t][i] = new]
    w == Decided(x, e, choice)
<1>1. new \in Run
  <2>1. world.runs[t][i] \in Run
    BY RunsAreTyped DEF GInv
  <2> QED
    BY <2>1 DEF Lease, Run
<1>2. world' \in AfterMessage(w, t, i)
  <2>1. world.runs \in [Task -> Seq(Run)] /\ world.runs[t] \in Seq(Run)
    BY GInvWorld DEF World
  <2>2. [world EXCEPT !.runs[t][i].lease = "succeeded"] = x
    BY <2>1, GInvWorld DEF World
  <2> QED
    BY <2>2 DEF HarnessVerdict
<1> HIDE DEF new
<1>3. /\ Sound(x) /\ x \in World /\ SameHolds(world, x)
      /\ x.dependencies = world.dependencies
  BY <1>1, GInvWorld, RunReplacedIsSound, RunReplacedIsQuiet DEF Sound
<1> HIDE DEF x
<1>4. e \in Live(x) /\ Justified(x)
  BY <1>3, GInvWorld, SameHoldsStayJustified DEF Live
<1>5. w \in World /\ Justly(x, w)
  BY <1>3, <1>4, DecidedIsSound, DecidedIsJust DEF Sound
<1> HIDE DEF w
<1>6. Justly(world, w)
  BY <1>3, <1>5, SameHoldsSameBlockers
     DEF Justly, Releases, Clear, SameHolds, Surroundings
<1> QED
  BY <1>2, <1>5, <1>6, AnsweredJustly

LEMMA HarnessSessionEndIsJust ==
    ASSUME GInv, NEW t \in Task, NEW i \in DOMAIN world.runs[t],
           NEW ok \in BOOLEAN, HarnessSessionEnd(t, i, ok)
    PROVE  Justly(world, world')
<1> DEFINE u == EnsureAttempt(world, t, i)
           w == SessionEnded(u, t, i, ok)
<1>1. w \in World
  <2>1. Sound(u) /\ i \in DOMAIN u.runs[t]
    BY GInvWorld, EnsureAttemptIsSound
  <2> QED
    BY <2>1, SessionEndedIsSound DEF Sound
<1>2. u \in World /\ SameHolds(world, u)
  <2>1. u \in World
    BY GInvWorld, EnsureAttemptIsSound DEF Sound
  <2>2. SameHolds(world, u)
    BY GInvWorld DEF EnsureAttempt, World, SameHolds
  <2> QED
    BY <2>1, <2>2
<1>3. SameHolds(u, w)
  <2> HIDE DEF u
  <2> QED
    BY <1>2 DEF SessionEnded, MarkSucceeded, World, SameHolds
<1>4. Justly(world, w)
  BY <1>2, <1>3, GInvWorld, SameHoldsTransitive, QuietIsJust
<1>5. PICK x : /\ x = w \/ x \in Reconcile(w)
               /\ \/ world' = x
                  \/ world' \in ReconcileWorkspace(x)
                  \/ \E y \in DispatchReady(x, SuccessorTaskIds(x, t)) :
                        world' \in ReconcileWorkspace(y)
  <2> HIDE DEF w
  <2> DEFINE run == w.runs[t][i]
             inconclusive == /\ ok
                             /\ run.trigger = "graph_review"
                             /\ run.lease # "succeeded"
  <2>1. PICK x \in (IF inconclusive THEN {w} ELSE Reconcile(w)) :
            IF ~ok \/ w.conductor = NoAgent THEN world' = x
            ELSE IF IsConductorReview(w, run)
            THEN world' \in (IF run.lease = "succeeded"
                             THEN ReconcileWorkspace(x) ELSE {x})
            ELSE \E y \in DispatchReady(x, SuccessorTaskIds(x, t)) :
                    world' \in ReconcileWorkspace(y)
    BY DEF HarnessSessionEnd, w, u
  <2> QED
    BY <2>1
<1> HIDE DEF w
<1>6. x \in World /\ Justly(world, x)
  BY <1>1, <1>4, <1>5, ReconciledJustly, ReconcileChangesOnlyRuns DEF OnlyRuns
<1>7. SuccessorTaskIds(x, t) \in SUBSET Task
  BY <1>6 DEF SuccessorTaskIds, IssueBlockingIds, LiveConsumers, Live, World, Edge
<1>8. \A y \in DispatchReady(x, SuccessorTaskIds(x, t)) : y \in World /\ Justly(world, y)
  BY <1>6, <1>7, DispatchReadyChangesOnlyRuns, ScheduledJustly DEF OnlyRuns
<1> QED
  BY <1>5, <1>6, <1>8, WorkspaceReconciledJustly

LEMMA RestartIsJust ==
    ASSUME GInv, Restart
    PROVE  Justly(world, world')
<1>1. SameHolds(world, world')
  BY GInvWorld DEF Restart, EachRun, World, SameHolds
<1> QED
  BY <1>1, GInvWorld, QuietIsJust

LEMMA TaskCommandIsJust ==
    ASSUME GInv, NEW in \in InputSets, TaskCommand(in)
    PROVE  Justly(world, world')
<1>1. CASE \E p \in in.status : SetTaskStatus(p[1], p[2])
  BY <1>1, SetTaskStatusIsJust DEF InputSets
<1>2. CASE \E t \in in.delete : DeleteTask(t)
  BY <1>2, DeleteTaskIsJust DEF InputSets
<1>3. CASE \E p \in in.blocker : AddIssueBlocker(p[1], p[2])
  BY <1>3, AddIssueBlockerIsJust DEF InputSets
<1>4. CASE \E p \in in.blocker : RemoveIssueBlocker(p[1], p[2])
  BY <1>4, RemoveIssueBlockerIsJust DEF InputSets
<1>5. CASE \E c \in in.conductor : SetWorkspaceConductor(c)
  BY <1>5, SetWorkspaceConductorIsJust DEF InputSets
<1>6. CASE \E p \in in.reorder : ReorderTasks(p[1], p[2])
  BY <1>6, ReorderTasksIsJust DEF InputSets
<1>7. CASE \E D \in SUBSET in.merged : SyncGithubPullRequests(D)
  BY <1>7, SyncGithubPullRequestsIsJust DEF InputSets
<1> QED
  BY <1>1, <1>2, <1>3, <1>4, <1>5, <1>6, <1>7 DEF TaskCommand

LEMMA EdgeCommandIsJust ==
    ASSUME GInv, NEW in \in InputSets, EdgeCommand(in)
    PROVE  Justly(world, world')
<1>1. CASE \E e \in EdgeId, p \in in.edge :
            DeclareDependency(e, p[1], p[2], p[3])
  BY <1>1, DeclareDependencyIsJust DEF InputSets
<1>2. CASE \E e \in Live(world) : ReaffirmDependency(e)
  BY <1>2, ReaffirmDependencyIsJust
<1>3. CASE \E e \in Live(world) : RemoveDependency(e)
  BY <1>3, RemoveDependencyIsJust
<1>4. CASE \E e \in Live(world), c \in in.decision : ValidationDecision(e, c)
  BY <1>4, ValidationDecisionIsJust DEF InputSets
<1> QED
  BY <1>1, <1>2, <1>3, <1>4 DEF EdgeCommand

LEMMA RunCommandIsJust ==
    ASSUME GInv, NEW in \in InputSets, RunCommand(in)
    PROVE  Justly(world, world')
<1>1. CASE \E p \in in.starter : StartRun(p[1], p[2])
  BY <1>1, StartRunIsJust DEF InputSets
<1>2. CASE \E t \in in.patch : ApplyPatch(t)
  BY <1>2, ApplyPatchIsJust DEF InputSets
<1>3. CASE \E t \in in.patch : ApplyPatchConflict(t)
  BY <1>3, ApplyPatchConflictIsJust DEF InputSets
<1>4. CASE \E t \in Task : \E i \in DOMAIN world.runs[t] :
            CancelRun(t, i) \/ RetryRun(t, i)
  BY <1>4, CancelRunIsJust, RetryRunIsJust
<1>5. CASE \E t \in in.chat : StopChat(t)
  BY <1>5, StopChatIsJust DEF InputSets
<1> QED
  BY <1>1, <1>2, <1>3, <1>4, <1>5 DEF RunCommand

LEMMA HarnessEventIsJust ==
    ASSUME GInv, NEW in \in InputSets, HarnessEvent(in)
    PROVE  Justly(world, world')
<1>1. PICK t \in Task : \E i \in DOMAIN world.runs[t] :
        \/ HarnessProgress(t, i)
        \/ \E e \in EdgeId, p \in in.edge : HarnessDepends(t, i, e, p[1])
        \/ HarnessDrift(t, i)
        \/ HarnessPatchConflict(t, i)
        \/ \E e \in Live(world), c \in in.decision : HarnessVerdict(t, i, e, c)
        \/ HarnessSessionEnd(t, i, TRUE)
        \/ HarnessSessionEnd(t, i, FALSE)
  BY DEF HarnessEvent
<1>2. PICK i \in DOMAIN world.runs[t] :
        \/ HarnessProgress(t, i)
        \/ \E e \in EdgeId, p \in in.edge : HarnessDepends(t, i, e, p[1])
        \/ HarnessDrift(t, i)
        \/ HarnessPatchConflict(t, i)
        \/ \E e \in Live(world), c \in in.decision : HarnessVerdict(t, i, e, c)
        \/ HarnessSessionEnd(t, i, TRUE)
        \/ HarnessSessionEnd(t, i, FALSE)
  BY <1>1
<1>3. CASE HarnessProgress(t, i)
  BY <1>3, HarnessProgressIsJust
<1>4. CASE \E e \in EdgeId, p \in in.edge : HarnessDepends(t, i, e, p[1])
  BY <1>4, HarnessDependsIsJust DEF InputSets
<1>5. CASE HarnessDrift(t, i)
  BY <1>5, HarnessDriftIsJust
<1>6. CASE HarnessPatchConflict(t, i)
  BY <1>6, HarnessPatchConflictIsJust
<1>7. CASE \E e \in Live(world), c \in in.decision : HarnessVerdict(t, i, e, c)
  BY <1>7, HarnessVerdictIsJust DEF InputSets
<1>8. CASE \E ok \in BOOLEAN : HarnessSessionEnd(t, i, ok)
  BY <1>8, HarnessSessionEndIsJust
<1> QED
  BY <1>2, <1>3, <1>4, <1>5, <1>6, <1>7, <1>8

LEMMA NextIsJust ==
    ASSUME GInv, [Next]_world
    PROVE  Justly(world, world')
<1>1. CASE UNCHANGED world
  BY <1>1, NothingIsJust
<1>2. CASE Restart
  BY <1>2, RestartIsJust
<1>3. CASE Next /\ ~Restart
  BY <1>3, TaskCommandIsJust, EdgeCommandIsJust, RunCommandIsJust,
     HarnessEventIsJust, InputsAssumption DEF Next, Step
<1> QED
  BY <1>1, <1>2, <1>3

LEMMA Justification == Spec => []GInv
<1>1. Init => GInv
  <2> SUFFICES ASSUME Init PROVE IInv /\ Justified(world)
    BY DEF GInv
  <2>1. \A t \in Task : world.blocked_reason[t] = "none"
    BY DEF Init, Begin
  <2> QED
    BY <2>1, InitIsSound DEF Justified
<1>2. GInv /\ [Next]_world => GInv'
  BY NextIsSound, NextIsJust DEF GInv, Justly
<1> QED
  BY <1>1, <1>2, PTL DEF Spec

-----------------------------------------------------------------------------
(* The theorems.                                                            *)

\* A task that is held for its blockers has an unfinished one: whatever ends,
\* deletes or detaches the last of them goes through sync_issue_blocker_hold
\* or refresh_task_run_gates for this task before the command returns.  Sorting
\* a column is the one command that does not, and only until the blocker that it
\* moved is deleted, detached or given a status again.
THEOREM IssueHoldsStayJustified == Spec => []IssueHoldJustified
<1>1. GInv => IssueHoldJustified
  BY DEF GInv, Justified, HasCause, IssueHoldJustified
<1> QED
  BY <1>1, Justification, PTL

\* A change around a held task, of its blockers, its edges or another task,
\* frees it only when all its blockers have ended and, if a stale input held
\* it, none of its inputs is unsettled any more.
THEOREM HoldsStayUntilClear == Spec => HoldReleasedOnlyWhenClear
<1>1. GInv /\ [Next]_world =>
        [\A t \in Task :
            (/\ world.blocked_reason[t] \in {"issue", "stale"}
             /\ world'.blocked_reason[t] = "none"
             /\ world'.status[t] \notin {"done", "cancelled"}
             /\ Surroundings(world', t) # Surroundings(world, t))
            => /\ UnresolvedBlockers(world', t) = {}
               /\ world.blocked_reason[t] = "stale" => ~HasStaleDependency(world', t)
        ]_world
  BY NextIsJust DEF Justly, Releases, Clear
<1> QED
  BY <1>1, Justification, PTL DEF Spec, HoldReleasedOnlyWhenClear
=============================================================================
