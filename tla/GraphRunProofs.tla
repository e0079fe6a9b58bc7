---------------------------- MODULE GraphRunProofs ----------------------------
(***************************************************************************)
(* What the runs and their attempts go through: outcomes are final, starts *)
(* respect the gates, an input has one attempt at work, retries are        *)
(* explicit, verdicts are about the generation they were asked for, for    *)
(* any sets of tasks, agents and edges, any limits and any inputs.  And no *)
(* step forgets a node it should start: a pass of the dispatcher leaves no *)
(* ready node whose agent has a free slot (it fills the slots), what       *)
(* follows the pass only adds running runs (which makes no node ready and  *)
(* frees no slot), and every command but the ones NoNodeForgotten excepts  *)
(* ends in a pass.                                                         *)
(***************************************************************************)
EXTENDS GraphProofs

-----------------------------------------------------------------------------
(* The inductive invariant.  Its first three parts are about the runs s of  *)
(* one task of which n have had attempts.                                   *)

\* An attempt is numbered once, and a run has a lease exactly with a number.
Numbered(s, n) ==
    \A i \in DOMAIN s :
        /\ s[i].attempt <= n
        /\ s[i].lease = "none" <=> s[i].attempt = 0
        /\ \A j \in DOMAIN s :
            s[i].attempt = s[j].attempt /\ s[i].attempt # 0 => i = j

\* Of the attempts at an input only the newest may be at work.
NewestWorks(s) ==
    \A i, j \in DOMAIN s :
        (/\ s[i].fingerprint = s[j].fingerprint
         /\ s[i].attempt # 0 /\ s[i].attempt < s[j].attempt)
        => s[i].lease # "running"

\* When the graph starts a run every executor before it has stopped, and the
\* attempts at its input were all fenced: so none of them can end later.
StartsAfterOthers(s) ==
    \A i, j \in DOMAIN s :
        i < j /\ s[j].trigger = "graph" =>
            /\ s[i].trigger # "graph_review" => s[i].status # "running"
            /\ s[i].fingerprint = s[j].fingerprint /\ s[j].lease # "none" =>
                s[i].lease \in {"none", "paused"}

Orderly(s, n) == Numbered(s, n) /\ NewestWorks(s) /\ StartsAfterOthers(s)

\* A fingerprint of task t: a review's names one edge, an executor's whole
\* inputs; the edges it names have been handed out, and lead into t.
InputPart == (EdgeId \union Task) \X Nat \X Nat
NamesInputs(d, t, run) ==
    /\ IF run.trigger = "graph_review"
       THEN /\ run.attempt # 0
            /\ \E part \in run.fingerprint :
                part \in EdgeId \X Nat /\ run.fingerprint = {part}
       ELSE run.fingerprint \subseteq InputPart
    /\ \A part \in run.fingerprint :
        part[1] \in EdgeId =>
            /\ d[part[1]] # Unused
            /\ d[part[1]] # Removed => d[part[1]].target = t

\* The input is a present one under the dependencies d.
IsPresent(d, fingerprint) ==
    \A part \in fingerprint :
        part[1] \in EdgeId /\ d[part[1]] \notin {Unused, Removed} =>
            Generation(part) = d[part[1]].generation

First(s, i) ==
    \A j \in 1..(i - 1) :
        s[j].lease = "none" \/ s[j].fingerprint # s[i].fingerprint

PresentInputs(d, s) ==
    \A i \in DOMAIN s :
        s[i].lease = "running" /\ First(s, i) => IsPresent(d, s[i].fingerprint)

\* The runs of every task of w.
RunsSound(w) ==
    \A t \in Task :
        /\ Orderly(w.runs[t], w.attempts[t])
        /\ \A i \in DOMAIN w.runs[t] : NamesInputs(w.dependencies, t, w.runs[t][i])
        /\ PresentInputs(w.dependencies, w.runs[t])

WithinLimits(w) ==
    \A a \in Agent :
        /\ IsFiniteSet(RunningRuns(w, a))
        /\ Cardinality(RunningRuns(w, a)) <= ConcurrencyLimit(w, a)

RunInv == RunsSound(world) /\ WithinLimits(world)
-----------------------------------------------------------------------------
(* How a run may change in a step.                                          *)

\* What every change keeps: who runs what, and how it ended.
Kept(old, new) ==
    /\ new.agent = old.agent /\ new.trigger = old.trigger
    /\ old.status \notin {"running", "paused"} => new.status = old.status
    /\ old.status = "paused" => new.status \in {"paused", "cancelled"}
    /\ old.lease = "succeeded" => new.lease = "succeeded"

\* No change but a verdict lets a review succeed.
NoVerdict(old, new) ==
    old.trigger = "graph_review" /\ new.lease = "succeeded" => old.lease = "succeeded"

\* A fence, a pause, a cancellation or an interruption: the run does less.
Faded(old, new) ==
    /\ new.agent = old.agent /\ new.trigger = old.trigger
    /\ new.attempt = old.attempt /\ new.fingerprint = old.fingerprint
    /\ new.status = "running" => old.status = "running"
    /\ old.status \notin {"running", "paused"} => new.status = old.status
    /\ old.status = "paused" => new.status \in {"paused", "cancelled"}
    /\ new.lease = "running" => old.lease = "running"
    /\ new.lease = "none" <=> old.lease = "none"
    /\ new.lease = "succeeded" <=> old.lease = "succeeded"
    /\ old.lease = "paused" => new.lease = "paused"

\* Two lists of the same runs, each of which has faded or is as it was.
AllFaded(s, r) == DOMAIN r = DOMAIN s /\ \A i \in DOMAIN s : Faded(s[i], r[i])

LEMMA RunsAreRuns ==
    ASSUME NEW s \in Seq(Run), NEW i \in DOMAIN s
    PROVE  /\ s[i] \in Run /\ i \in Nat \ {0}
           /\ s[i].attempt \in Nat /\ DOMAIN s = 1..Len(s) /\ Len(s) \in Nat
<1>1. s[i] \in Run /\ DOMAIN s = 1..Len(s) /\ Len(s) \in Nat
  OBVIOUS
<1> QED
  BY <1>1 DEF Run

LEMMA FadedStaysOrderly ==
    ASSUME NEW s \in Seq(Run), NEW r \in Seq(Run), AllFaded(s, r),
           NEW n \in Nat, Orderly(s, n)
    PROVE  Orderly(r, n)
<1>1. Numbered(r, n)
  BY DEF Orderly, Numbered, AllFaded, Faded
<1>2. NewestWorks(r)
  BY DEF Orderly, NewestWorks, AllFaded, Faded
<1>3. StartsAfterOthers(r)
  BY DEF Orderly, StartsAfterOthers, AllFaded, Faded
<1> QED
  BY <1>1, <1>2, <1>3 DEF Orderly

LEMMA FadedStaysPresent ==
    ASSUME NEW s \in Seq(Run), NEW r \in Seq(Run), AllFaded(s, r),
           NEW d, PresentInputs(d, s)
    PROVE  PresentInputs(d, r)
<1> SUFFICES ASSUME NEW i \in DOMAIN r, r[i].lease = "running", First(r, i)
             PROVE  IsPresent(d, r[i].fingerprint)
  BY DEF PresentInputs
<1>1. i \in DOMAIN s /\ \A j \in 1..(i - 1) : j \in DOMAIN s
  BY RunsAreRuns DEF AllFaded
<1>2. First(s, i)
  BY <1>1 DEF First, AllFaded, Faded
<1> QED
  BY <1>1, <1>2 DEF PresentInputs, AllFaded, Faded

LEMMA FadedNamesInputs ==
    ASSUME NEW d, NEW t, NEW old, NEW new, Faded(old, new), NamesInputs(d, t, old)
    PROVE  NamesInputs(d, t, new)
BY DEF Faded, NamesInputs
-----------------------------------------------------------------------------
(* How a run may start.                                                     *)

\* run is one more run of a task whose runs s had n attempts.
InOrder(s, n, run) ==
    /\ run.lease = IF run.attempt = 0 THEN "none" ELSE "running"
    /\ run.attempt # 0 =>
        /\ run.attempt = n + 1
        /\ \A i \in DOMAIN s :
            s[i].fingerprint = run.fingerprint => s[i].lease # "running"
    /\ run.trigger = "graph" =>
        \A i \in DOMAIN s :
            /\ s[i].trigger # "graph_review" => s[i].status # "running"
            /\ s[i].fingerprint = run.fingerprint /\ run.lease # "none" =>
                s[i].lease \in {"none", "paused"}

\* Its input is a present one or was tried before.
PresentOrTried(d, s, run) ==
    run.lease = "running" =>
        \/ IsPresent(d, run.fingerprint)
        \/ \E i \in DOMAIN s :
            s[i].lease # "none" /\ s[i].fingerprint = run.fingerprint

\* The gates of t let it start.
Gated(w, t, run) ==
    /\ w.status[t] # "backlog"
    /\ UnresolvedBlockers(w, t) = {}
    /\ run.trigger # "graph_review" => ~HasStaleDependency(w, t)

MayJoin(w, t, run) ==
    /\ run \in Run
    /\ InOrder(w.runs[t], w.attempts[t], run)
    /\ PresentOrTried(w.dependencies, w.runs[t], run)
    /\ NamesInputs(w.dependencies, t, run)
    /\ Gated(w, t, run)

LEMMA Appended ==
    ASSUME NEW s \in Seq(Run), NEW run \in Run
    PROVE  /\ Append(s, run) \in Seq(Run)
           /\ DOMAIN Append(s, run) = 1..(Len(s) + 1) /\ DOMAIN s = 1..Len(s)
           /\ Len(s) \in Nat
           /\ Append(s, run)[Len(s) + 1] = run
           /\ \A i \in DOMAIN s : Append(s, run)[i] = s[i]
OBVIOUS

LEMMA StartsStayOrderly ==
    ASSUME NEW s \in Seq(Run), NEW run \in Run, NEW n \in Nat, Orderly(s, n),
           InOrder(s, n, run)
    PROVE  Orderly(Append(s, run), IF run.attempt = 0 THEN n ELSE run.attempt)
<1> DEFINE r == Append(s, run)
           m == IF run.attempt = 0 THEN n ELSE run.attempt
           k == Len(s) + 1
<1>1. /\ DOMAIN r = 1..k /\ DOMAIN s = 1..(k - 1) /\ k \in Nat
      /\ r[k] = run /\ \A i \in 1..(k - 1) : r[i] = s[i]
  BY Appended
<1>2. \A i \in 1..k : i \in 1..(k - 1) \/ i = k
  BY <1>1
<1>3. \A i \in 1..(k - 1) : s[i].attempt \in Nat
  BY <1>1, RunsAreRuns
<1>4. run.attempt \in Nat
  BY DEF Run
<1> HIDE DEF r, k
<1>5. Numbered(r, m)
  BY <1>1, <1>2, <1>3, <1>4 DEF Orderly, Numbered, InOrder
<1>6. NewestWorks(r)
  <2> SUFFICES ASSUME NEW i \in 1..k, NEW j \in 1..k,
                      r[i].fingerprint = r[j].fingerprint,
                      r[i].attempt # 0, r[i].attempt < r[j].attempt
               PROVE  r[i].lease # "running"
    BY <1>1 DEF NewestWorks
  <2>1. CASE i = k /\ j \in 1..(k - 1)
    BY <2>1, <1>1, <1>3, <1>4 DEF Orderly, Numbered, InOrder
  <2>2. CASE i \in 1..(k - 1) /\ j = k
    BY <2>2, <1>1, <1>3, <1>4 DEF InOrder
  <2>3. CASE i \in 1..(k - 1) /\ j \in 1..(k - 1)
    BY <2>3, <1>1 DEF Orderly, NewestWorks
  <2>4. ~(i = k /\ j = k)
    BY <1>1, <1>4
  <2> QED
    BY <1>2, <2>1, <2>2, <2>3, <2>4
<1>7. StartsAfterOthers(r)
  <2> SUFFICES ASSUME NEW i \in 1..k, NEW j \in 1..k, i < j, r[j].trigger = "graph"
               PROVE  /\ r[i].trigger # "graph_review" => r[i].status # "running"
                      /\ r[i].fingerprint = r[j].fingerprint /\ r[j].lease # "none" =>
                            r[i].lease \in {"none", "paused"}
    BY <1>1 DEF StartsAfterOthers
  <2>1. i \in 1..(k - 1)
    BY <1>1
  <2>2. CASE j = k
    BY <2>1, <2>2, <1>1 DEF InOrder
  <2>3. CASE j \in 1..(k - 1)
    BY <2>1, <2>3, <1>1 DEF Orderly, StartsAfterOthers
  <2> QED
    BY <1>2, <2>2, <2>3
<1> QED
  BY <1>5, <1>6, <1>7 DEF Orderly, r

LEMMA StartsStayPresent ==
    ASSUME NEW s \in Seq(Run), NEW run \in Run, NEW d, PresentInputs(d, s),
           PresentOrTried(d, s, run)
    PROVE  PresentInputs(d, Append(s, run))
<1> DEFINE r == Append(s, run)
           k == Len(s) + 1
<1>1. /\ DOMAIN r = 1..k /\ DOMAIN s = 1..(k - 1) /\ k \in Nat
      /\ r[k] = run /\ \A i \in 1..(k - 1) : r[i] = s[i]
  BY Appended
<1> HIDE DEF r, k
<1> SUFFICES ASSUME NEW i \in 1..k, r[i].lease = "running", First(r, i)
             PROVE  IsPresent(d, r[i].fingerprint)
  BY <1>1 DEF PresentInputs, r
<1>2. CASE i = k
  BY <1>1, <1>2 DEF PresentOrTried, First
<1>3. CASE i \in 1..(k - 1)
  <2>1. \A j \in 1..(i - 1) : j \in 1..(k - 1)
    BY <1>1, <1>3
  <2>2. First(s, i)
    BY <2>1, <1>1, <1>3 DEF First
  <2> QED
    BY <2>2, <1>1, <1>3 DEF PresentInputs
<1> QED
  BY <1>1, <1>2, <1>3
-----------------------------------------------------------------------------
(* The scheduler: fences and starts, one after the other.                   *)

Fit(w) == w \in World /\ RunsSound(w) /\ WithinLimits(w)

\* What becomes of the runs of w in v, and which are new.
Grows(w, v) ==
    \A t \in Task :
        /\ DOMAIN w.runs[t] \subseteq DOMAIN v.runs[t]
        /\ \A i \in DOMAIN w.runs[t] :
            /\ Kept(w.runs[t][i], v.runs[t][i])
            /\ NoVerdict(w.runs[t][i], v.runs[t][i])
        /\ \A i \in (DOMAIN v.runs[t]) \ DOMAIN w.runs[t] : Gated(w, t, v.runs[t][i])

Schedules(w, v) == Fit(v) /\ OnlyRuns(w, v) /\ Grows(w, v)

LEMMA SameGates ==
    ASSUME NEW w, NEW v, OnlyRuns(w, v), NEW t, NEW old, NEW new,
           new.trigger = old.trigger
    PROVE  Gated(v, t, new) <=> Gated(w, t, old)
<1>1. UnresolvedBlockers(v, t) = UnresolvedBlockers(w, t)
  BY DEF OnlyRuns, UnresolvedBlockers, IssueBlockerIds, IssueBlockerSatisfied
<1>2. HasStaleDependency(v, t) <=> HasStaleDependency(w, t)
  BY DEF OnlyRuns, HasStaleDependency, EdgesInto, Live, Consumes
<1> QED
  BY <1>1, <1>2 DEF Gated, OnlyRuns

LEMMA SchedulesReflexive ==
    ASSUME NEW w, Fit(w)
    PROVE  Schedules(w, w)
BY OnlyRunsReflexive DEF Schedules, Fit, Grows, Kept, NoVerdict

LEMMA SchedulesTransitive ==
    ASSUME NEW u, NEW v, NEW w, Schedules(u, v), Schedules(v, w)
    PROVE  Schedules(u, w)
<1>1. Fit(w) /\ OnlyRuns(u, w) /\ OnlyRuns(u, v)
  BY OnlyRunsTransitive DEF Schedules
<1>2. ASSUME NEW t \in Task
      PROVE  /\ DOMAIN u.runs[t] \subseteq DOMAIN w.runs[t]
             /\ \A i \in DOMAIN u.runs[t] :
                  /\ Kept(u.runs[t][i], w.runs[t][i])
                  /\ NoVerdict(u.runs[t][i], w.runs[t][i])
             /\ \A i \in (DOMAIN w.runs[t]) \ DOMAIN u.runs[t] :
                  Gated(u, t, w.runs[t][i])
  <2>1. /\ DOMAIN u.runs[t] \subseteq DOMAIN v.runs[t]
        /\ DOMAIN v.runs[t] \subseteq DOMAIN w.runs[t]
    BY DEF Schedules, Grows
  <2>2. \A i \in DOMAIN u.runs[t] :
            /\ Kept(u.runs[t][i], w.runs[t][i])
            /\ NoVerdict(u.runs[t][i], w.runs[t][i])
    BY <2>1 DEF Schedules, Grows, Kept, NoVerdict
  <2>3. ASSUME NEW i \in (DOMAIN w.runs[t]) \ DOMAIN u.runs[t]
        PROVE  Gated(u, t, w.runs[t][i])
    <3>1. CASE i \in DOMAIN v.runs[t]
      <4>1. Gated(u, t, v.runs[t][i])
        BY <3>1, <2>3 DEF Schedules, Grows
      <4>2. w.runs[t][i].trigger = v.runs[t][i].trigger
        BY <3>1 DEF Schedules, Grows, Kept
      <4> QED
        BY <4>1, <4>2 DEF Gated
    <3>2. CASE i \notin DOMAIN v.runs[t]
      <4>1. Gated(v, t, w.runs[t][i])
        BY <3>2, <2>3 DEF Schedules, Grows
      <4> QED
        BY <4>1, <1>1, SameGates
    <3> QED
      BY <3>1, <3>2
  <2> QED
    BY <2>1, <2>2, <2>3
<1> QED
  BY <1>1, <1>2 DEF Schedules, Grows

LEMMA RunsOf ==
    ASSUME NEW w \in World, NEW t \in Task
    PROVE  /\ w.runs[t] \in Seq(Run) /\ w.attempts[t] \in Nat
           /\ \A i \in DOMAIN w.runs[t] : w.runs[t][i] \in Run
<1>1. w.runs[t] \in Seq(Run) /\ w.attempts[t] \in Nat
  BY DEF World
<1> QED
  BY <1>1

\* Runs that fade free slots and take none.
LEMMA FewerRunning ==
    ASSUME NEW w \in World, WithinLimits(w), NEW v \in World, v.limit = w.limit,
           \A t \in Task : /\ DOMAIN v.runs[t] = DOMAIN w.runs[t]
                           /\ \A i \in DOMAIN w.runs[t] :
                                /\ v.runs[t][i].agent = w.runs[t][i].agent
                                /\ v.runs[t][i].status = "running" =>
                                        w.runs[t][i].status = "running"
    PROVE  WithinLimits(v)
<1> SUFFICES ASSUME NEW a \in Agent
             PROVE  /\ IsFiniteSet(RunningRuns(v, a))
                    /\ Cardinality(RunningRuns(v, a)) <= ConcurrencyLimit(v, a)
  BY DEF WithinLimits
<1>1. RunningRuns(v, a) \subseteq RunningRuns(w, a)
  BY DEF RunningRuns
<1>2. /\ IsFiniteSet(RunningRuns(w, a))
      /\ Cardinality(RunningRuns(w, a)) <= ConcurrencyLimit(w, a)
  BY DEF WithinLimits
<1>3. /\ IsFiniteSet(RunningRuns(v, a))
      /\ Cardinality(RunningRuns(v, a)) <= Cardinality(RunningRuns(w, a))
  BY <1>1, <1>2, FS_Subset
<1>4. ConcurrencyLimit(v, a) = ConcurrencyLimit(w, a) /\ ConcurrencyLimit(w, a) \in Nat
  BY DEF ConcurrencyLimit, World
<1>5. Cardinality(RunningRuns(v, a)) \in Nat /\ Cardinality(RunningRuns(w, a)) \in Nat
  BY <1>2, <1>3, FS_CardinalityType
<1> QED
  BY <1>2, <1>3, <1>4, <1>5

LEMMA FadingIsFit ==
    ASSUME NEW w, Fit(w), NEW v, OnlyRuns(w, v),
           v.limit = w.limit, v.attempts = w.attempts,
           \A t \in Task : AllFaded(w.runs[t], v.runs[t])
    PROVE  Schedules(w, v)
<1>1. w \in World /\ v \in World /\ v.dependencies = w.dependencies
  BY DEF Fit, OnlyRuns
<1>2. RunsSound(v)
  <2> SUFFICES ASSUME NEW t \in Task
               PROVE  /\ Orderly(v.runs[t], w.attempts[t])
                      /\ \A i \in DOMAIN v.runs[t] :
                            NamesInputs(w.dependencies, t, v.runs[t][i])
                      /\ PresentInputs(w.dependencies, v.runs[t])
    BY <1>1 DEF RunsSound
  <2>1. w.runs[t] \in Seq(Run) /\ v.runs[t] \in Seq(Run) /\ w.attempts[t] \in Nat
    BY <1>1, RunsOf
  <2>2. /\ Orderly(w.runs[t], w.attempts[t])
        /\ \A i \in DOMAIN w.runs[t] : NamesInputs(w.dependencies, t, w.runs[t][i])
        /\ PresentInputs(w.dependencies, w.runs[t])
    BY DEF Fit, RunsSound
  <2>3. \A i \in DOMAIN v.runs[t] : NamesInputs(w.dependencies, t, v.runs[t][i])
    BY <2>2, FadedNamesInputs DEF AllFaded
  <2> QED
    BY <2>1, <2>2, <2>3, FadedStaysOrderly, FadedStaysPresent
<1>3. WithinLimits(v)
  BY <1>1, FewerRunning DEF Fit, AllFaded, Faded
<1>4. Grows(w, v)
  BY DEF Grows, AllFaded, Faded, Kept, NoVerdict
<1> QED
  BY <1>1, <1>2, <1>3, <1>4 DEF Schedules, Fit

\* As many starts as there are free slots.
Counted(w, run) ==
    \A a \in Agent :
        Cardinality({t \in DOMAIN run : run[t].agent = a}) <= FreeSlots(w, a)

LEMMA StartedRuns ==
    ASSUME NEW w \in World, NEW run, DOMAIN run \subseteq Task,
           \A t \in DOMAIN run : run[t] \in Run
    PROVE  LET v == Started(w, run) IN
           /\ OnlyRuns(w, v) /\ v \in World /\ v.limit = w.limit
           /\ v.dependencies = w.dependencies
           /\ \A t \in Task \ DOMAIN run :
                v.runs[t] = w.runs[t] /\ v.attempts[t] = w.attempts[t]
           /\ \A t \in DOMAIN run :
                /\ v.runs[t] = Append(w.runs[t], run[t])
                /\ v.attempts[t] = IF run[t].attempt = 0 THEN w.attempts[t]
                                   ELSE run[t].attempt
<1>1. OnlyRuns(w, Started(w, run))
  BY StartsChangeOnlyRuns
<1>2. /\ Started(w, run).limit = w.limit
      /\ \A t \in Task : Started(w, run).runs[t] =
            IF t \in DOMAIN run THEN Append(w.runs[t], run[t]) ELSE w.runs[t]
      /\ \A t \in Task : Started(w, run).attempts[t] =
            IF t \in DOMAIN run /\ run[t].attempt # 0
            THEN run[t].attempt ELSE w.attempts[t]
  BY DEF Started, World
<1> QED
  BY <1>1, <1>2 DEF OnlyRuns

LEMMA RunningRunsArePairs ==
    ASSUME NEW w, NEW a, NEW p \in RunningRuns(w, a)
    PROVE  \E t \in Task : \E i \in DOMAIN w.runs[t] :
            /\ p = <<t, i>>
            /\ w.runs[t][i].agent = a /\ w.runs[t][i].status = "running"
<1>1. PICK t \in Task : p \in {t} \X DOMAIN w.runs[t]
  BY DEF RunningRuns
<1>2. PICK i \in DOMAIN w.runs[t] : p = <<t, i>>
  BY <1>1
<1> QED
  BY <1>2 DEF RunningRuns

LEMMA StartsAreCounted ==
    ASSUME NEW w, Fit(w), NEW run, DOMAIN run \subseteq Task,
           \A t \in DOMAIN run : run[t] \in Run, Counted(w, run)
    PROVE  WithinLimits(Started(w, run))
<1> DEFINE v == Started(w, run)
<1>1. /\ w \in World /\ v \in World /\ v.limit = w.limit
      /\ \A t \in Task \ DOMAIN run : v.runs[t] = w.runs[t]
      /\ \A t \in DOMAIN run : v.runs[t] = Append(w.runs[t], run[t])
  BY StartedRuns DEF Fit
<1> HIDE DEF v
<1> SUFFICES ASSUME NEW a \in Agent
             PROVE  /\ IsFiniteSet(RunningRuns(v, a))
                    /\ Cardinality(RunningRuns(v, a)) <= ConcurrencyLimit(v, a)
  BY DEF WithinLimits, v
<1> DEFINE
    mine == {t \in DOMAIN run : run[t].agent = a}
    place == [t \in mine |-> <<t, Len(w.runs[t]) + 1>>]
    places == {place[t] : t \in mine}
    old == RunningRuns(w, a)
<1>2. RunningRuns(v, a) \subseteq old \union places
  <2> SUFFICES ASSUME NEW t \in Task, NEW i \in DOMAIN v.runs[t],
                      v.runs[t][i].agent = a, v.runs[t][i].status = "running",
                      <<t, i>> \notin old
               PROVE  <<t, i>> \in places
    <3> HIDE DEF places, old
    <3> QED
      BY RunningRunsArePairs
  <2>1. w.runs[t] \in Seq(Run)
    BY <1>1, RunsOf
  <2>2. ~(i \in DOMAIN w.runs[t] /\ v.runs[t][i] = w.runs[t][i])
    BY DEF RunningRuns
  <2>3. t \in DOMAIN run
    BY <1>1, <2>2
  <2>4. v.runs[t] = Append(w.runs[t], run[t]) /\ run[t] \in Run
    BY <1>1, <2>3
  <2>5. i = Len(w.runs[t]) + 1 /\ v.runs[t][i] = run[t]
    BY <2>1, <2>2, <2>4, Appended
  <2>6. t \in mine
    BY <2>3, <2>5
  <2> QED
    BY <2>5, <2>6
<1>3. IsFiniteSet(mine) /\ Cardinality(mine) <= FreeSlots(w, a)
  BY FS_Subset, ConstantsAssumption DEF Counted
<1>4. IsFiniteSet(old) /\ Cardinality(old) <= ConcurrencyLimit(w, a)
  BY DEF Fit, WithinLimits
<1>5. ConcurrencyLimit(v, a) = ConcurrencyLimit(w, a) /\ ConcurrencyLimit(w, a) \in Nat
  BY <1>1 DEF ConcurrencyLimit, World
<1>6. place \in Surjection(mine, places)
  BY DEF Surjection
<1> HIDE DEF mine, place, places, old
<1>7. IsFiniteSet(places) /\ Cardinality(places) <= Cardinality(mine)
  BY <1>3, <1>6, FS_Surjection
<1>8. /\ IsFiniteSet(old \union places)
      /\ Cardinality(old \union places)
            = Cardinality(old) + Cardinality(places) - Cardinality(old \intersect places)
  BY <1>4, <1>7, FS_Union
<1>9. /\ IsFiniteSet(RunningRuns(v, a))
      /\ Cardinality(RunningRuns(v, a)) <= Cardinality(old \union places)
  BY <1>2, <1>8, FS_Subset
<1>10. /\ Cardinality(RunningRuns(v, a)) \in Nat /\ Cardinality(old) \in Nat
       /\ Cardinality(places) \in Nat /\ Cardinality(mine) \in Nat
       /\ Cardinality(old \union places) \in Nat
       /\ Cardinality(old \intersect places) \in Nat
  <2>1. IsFiniteSet(old \intersect places)
    BY <1>4, FS_Intersection
  <2> QED
    BY <2>1, <1>3, <1>4, <1>7, <1>8, <1>9, FS_CardinalityType
<1>11. FreeSlots(w, a) = ConcurrencyLimit(w, a) - Cardinality(old)
  BY <1>4, <1>5, <1>10 DEF FreeSlots, old
<1> QED
  BY <1>3, <1>4, <1>5, <1>7, <1>8, <1>9, <1>10, <1>11

LEMMA FreeSlotsAreNumbers ==
    ASSUME NEW w, Fit(w), NEW a \in Agent
    PROVE  FreeSlots(w, a) \in Nat
<1>1. IsFiniteSet(RunningRuns(w, a))
  BY DEF Fit, WithinLimits
<1>2. Cardinality(RunningRuns(w, a)) \in Nat
  BY <1>1, FS_CardinalityType
<1>3. ConcurrencyLimit(w, a) \in Nat
  BY DEF ConcurrencyLimit, World, Fit
<1> QED
  BY <1>2, <1>3 DEF FreeSlots

LEMMA StartingIsFit ==
    ASSUME NEW w, Fit(w), NEW run, DOMAIN run \subseteq Task,
           \A t \in DOMAIN run : MayJoin(w, t, run[t]), Counted(w, run)
    PROVE  Schedules(w, Started(w, run))
<1> DEFINE v == Started(w, run)
<1>1. w \in World /\ \A t \in DOMAIN run : run[t] \in Run
  BY DEF Fit, MayJoin
<1>2. /\ OnlyRuns(w, v) /\ v \in World /\ v.dependencies = w.dependencies
      /\ \A t \in Task \ DOMAIN run :
            v.runs[t] = w.runs[t] /\ v.attempts[t] = w.attempts[t]
      /\ \A t \in DOMAIN run :
            /\ v.runs[t] = Append(w.runs[t], run[t])
            /\ v.attempts[t] = IF run[t].attempt = 0 THEN w.attempts[t]
                               ELSE run[t].attempt
  BY <1>1, StartedRuns
<1>3. WithinLimits(v)
  BY <1>1, StartsAreCounted
<1> HIDE DEF v
<1>4. RunsSound(v)
  <2> SUFFICES ASSUME NEW t \in Task
               PROVE  /\ Orderly(v.runs[t], v.attempts[t])
                      /\ \A i \in DOMAIN v.runs[t] :
                            NamesInputs(w.dependencies, t, v.runs[t][i])
                      /\ PresentInputs(w.dependencies, v.runs[t])
    BY <1>2 DEF RunsSound
  <2>1. w.runs[t] \in Seq(Run) /\ w.attempts[t] \in Nat
    BY <1>1, RunsOf
  <2>2. /\ Orderly(w.runs[t], w.attempts[t])
        /\ \A i \in DOMAIN w.runs[t] : NamesInputs(w.dependencies, t, w.runs[t][i])
        /\ PresentInputs(w.dependencies, w.runs[t])
    BY DEF Fit, RunsSound
  <2>3. CASE t \notin DOMAIN run
    BY <2>2, <2>3, <1>2
  <2>4. CASE t \in DOMAIN run
    <3>1. /\ run[t] \in Run /\ InOrder(w.runs[t], w.attempts[t], run[t])
          /\ PresentOrTried(w.dependencies, w.runs[t], run[t])
          /\ NamesInputs(w.dependencies, t, run[t])
      BY <2>4 DEF MayJoin
    <3>2. /\ Orderly(v.runs[t], v.attempts[t])
          /\ PresentInputs(w.dependencies, v.runs[t])
      BY <1>2, <2>1, <2>2, <2>4, <3>1, StartsStayOrderly, StartsStayPresent
    <3>3. \A i \in DOMAIN v.runs[t] :
            \/ v.runs[t][i] = run[t]
            \/ i \in DOMAIN w.runs[t] /\ v.runs[t][i] = w.runs[t][i]
      <4> DEFINE old == w.runs[t]
                 new == run[t]
      <4>1. v.runs[t] = Append(old, new) /\ old \in Seq(Run) /\ new \in Run
        BY <1>2, <2>1, <2>4, <3>1
      <4> HIDE DEF old, new
      <4>2. \A i \in DOMAIN Append(old, new) :
                Append(old, new)[i] = new \/ (i \in DOMAIN old /\ Append(old, new)[i] = old[i])
        BY <4>1, Appended
      <4> QED
        BY <4>1, <4>2 DEF old, new
    <3> QED
      BY <2>2, <3>1, <3>2, <3>3
  <2> QED
    BY <2>3, <2>4
<1>5. Grows(w, v)
  <2> SUFFICES ASSUME NEW t \in Task
               PROVE  /\ DOMAIN w.runs[t] \subseteq DOMAIN v.runs[t]
                      /\ \A i \in DOMAIN w.runs[t] : v.runs[t][i] = w.runs[t][i]
                      /\ \A i \in (DOMAIN v.runs[t]) \ DOMAIN w.runs[t] :
                            Gated(w, t, v.runs[t][i])
    BY DEF Grows, Kept, NoVerdict
  <2>1. w.runs[t] \in Seq(Run)
    BY <1>1, RunsOf
  <2>2. CASE t \in DOMAIN run
    <3>1. v.runs[t] = Append(w.runs[t], run[t]) /\ run[t] \in Run /\ Gated(w, t, run[t])
      BY <1>2, <2>2 DEF MayJoin
    <3> QED
      BY <2>1, <3>1, Appended
  <2> QED
    BY <2>2, <1>2
<1> QED
  BY <1>1, <1>2, <1>3, <1>4, <1>5 DEF Schedules, Fit, v
-----------------------------------------------------------------------------
(* The dispatchers.                                                         *)

LEMMA InputsArePresent ==
    ASSUME NEW w \in World, NEW t \in Task
    PROVE  /\ IsPresent(w.dependencies, InputFingerprint(w, t))
           /\ InputFingerprint(w, t) \subseteq InputPart
           /\ \A part \in InputFingerprint(w, t) :
                part[1] \in EdgeId =>
                    /\ w.dependencies[part[1]] # Unused
                    /\ w.dependencies[part[1]].target = t
<1> SUFFICES ASSUME NEW part \in InputFingerprint(w, t)
             PROVE  /\ part \in InputPart
                    /\ part[1] \in EdgeId =>
                        /\ w.dependencies[part[1]] # Unused
                        /\ w.dependencies[part[1]].target = t
                        /\ Generation(part) = w.dependencies[part[1]].generation
  BY DEF IsPresent
<1>1. CASE \E e \in EdgesInto(w, t) :
            part = <<e, w.dependencies[e].current, w.dependencies[e].generation>>
  <2>1. PICK e \in EdgesInto(w, t) :
            part = <<e, w.dependencies[e].current, w.dependencies[e].generation>>
    BY <1>1
  <2>2. /\ e \in EdgeId /\ w.dependencies[e] \in Edge
        /\ w.dependencies[e] # Unused /\ w.dependencies[e].target = t
    BY DEF EdgesInto, Live, World
  <2>3. w.dependencies[e].current \in Nat /\ w.dependencies[e].generation \in Nat
    BY <2>2 DEF Edge
  <2> QED
    BY <2>1, <2>2, <2>3 DEF InputPart, Generation
<1>2. CASE \E b \in IssueBlockerIds(w, t) : part = <<b, 0, 0>>
  <2>1. PICK b \in Task : part = <<b, 0, 0>>
    BY <1>2 DEF IssueBlockerIds
  <2> QED
    BY <2>1, ConstantsAssumption DEF InputPart
<1> QED
  BY <1>1, <1>2 DEF InputFingerprint

\* An attempt that does not block a claim has stopped.
LEMMA ClaimableInputs ==
    ASSUME NEW w \in World, NEW t \in Task, NEW fingerprint,
           Claimable(w, t, fingerprint), NEW i \in DOMAIN w.runs[t],
           w.runs[t][i].fingerprint = fingerprint
    PROVE  w.runs[t][i].lease \in {"none", "paused"}
<1>1. w.runs[t][i].lease \in Lease
  BY RunsOf DEF Run
<1> QED
  BY <1>1 DEF Claimable, AttemptBlocksClaim, Lease

LEMMA AssigneesMayJoin ==
    ASSUME NEW w \in World, NEW t \in Task, w.assignee[t] # NoAgent,
           NEW trigger \in {"graph", "issue"}, MayStart(w, t, FALSE),
           trigger = "graph" => \A i \in DOMAIN w.runs[t] :
                w.runs[t][i].status = "running" =>
                    w.runs[t][i].trigger = "graph_review"
    PROVE  /\ MayJoin(w, t, NewRun(w.assignee[t], trigger, 0, {}))
           /\ Claimable(w, t, InputFingerprint(w, t)) =>
                MayJoin(w, t, NewRun(w.assignee[t], trigger, NextAttempt(w, t),
                                     InputFingerprint(w, t)))
<1>1. /\ w.assignee[t] \in Agent /\ trigger \in Trigger /\ {} \in Fingerprint
      /\ InputFingerprint(w, t) \in Fingerprint
      /\ NextAttempt(w, t) \in Nat \ {0} /\ NextAttempt(w, t) = w.attempts[t] + 1
  <2>1. w.assignee[t] \in Agent
    BY DEF World
  <2> QED
    BY <2>1, FingerprintsAreTyped, AttemptsAreNumbered
    DEF Trigger, Fingerprint, NextAttempt
<1> DEFINE bare == NewRun(w.assignee[t], trigger, 0, {})
           full == NewRun(w.assignee[t], trigger, NextAttempt(w, t),
                          InputFingerprint(w, t))
<1>2. bare \in Run /\ full \in Run
  BY <1>1, NewRunsAreTyped
<1>3. /\ bare.lease = "none" /\ bare.attempt = 0 /\ bare.fingerprint = {}
      /\ bare.trigger = trigger
      /\ full.lease = "running" /\ full.attempt = NextAttempt(w, t)
      /\ full.fingerprint = InputFingerprint(w, t) /\ full.trigger = trigger
  BY <1>1 DEF NewRun
<1> HIDE DEF bare, full
<1>4. Gated(w, t, bare) /\ Gated(w, t, full)
  BY DEF MayStart, Gated
<1>5. MayJoin(w, t, bare)
  BY <1>2, <1>3, <1>4 DEF MayJoin, InOrder, PresentOrTried, NamesInputs
<1>6. ASSUME Claimable(w, t, InputFingerprint(w, t)) PROVE MayJoin(w, t, full)
  <2>1. \A i \in DOMAIN w.runs[t] :
            w.runs[t][i].fingerprint = full.fingerprint =>
                w.runs[t][i].lease \in {"none", "paused"}
    BY <1>3, <1>6, ClaimableInputs
  <2>2. InOrder(w.runs[t], w.attempts[t], full)
    BY <1>1, <1>3, <2>1 DEF InOrder
  <2>3. NamesInputs(w.dependencies, t, full)
    BY <1>3, InputsArePresent DEF NamesInputs
  <2>4. PresentOrTried(w.dependencies, w.runs[t], full)
    BY <1>3, InputsArePresent DEF PresentOrTried
  <2> QED
    BY <1>2, <1>4, <2>2, <2>3, <2>4 DEF MayJoin
<1> QED
  BY <1>5, <1>6 DEF bare, full

LEMMA StartingAssigneesIsFit ==
    ASSUME NEW w, Fit(w), NEW T \in SUBSET Task, NEW trigger \in {"graph", "issue"},
           NEW C, NEW v \in StartAssignees(w, T, trigger, C),
           \A t \in T :
                /\ MayStart(w, t, FALSE)
                /\ t \in C => Claimable(w, t, InputFingerprint(w, t))
                /\ trigger = "graph" => \A i \in DOMAIN w.runs[t] :
                        w.runs[t][i].status = "running" =>
                            w.runs[t][i].trigger = "graph_review"
    PROVE  Schedules(w, v)
<1> DEFINE assigned == {t \in T : w.assignee[t] # NoAgent}
           start(t) == IF t \in C
                       THEN NewRun(w.assignee[t], trigger, NextAttempt(w, t),
                                   InputFingerprint(w, t))
                       ELSE NewRun(w.assignee[t], trigger, 0, {})
<1>1. PICK D \in SUBSET assigned :
            /\ v = Started(w, [t \in D |-> start(t)])
            /\ FillsSlots(w, assigned, D)
  BY DEF StartAssignees
<1>2. \A t \in D : MayJoin(w, t, start(t))
  BY <1>1, AssigneesMayJoin DEF Fit
<1>3. \A t \in D : start(t).agent = w.assignee[t]
  BY DEF NewRun
<1> DEFINE run == [t \in D |-> start(t)]
<1> HIDE DEF start
<1>4. Counted(w, run)
  <2> SUFFICES ASSUME NEW a \in Agent
               PROVE  Cardinality({t \in DOMAIN run : run[t].agent = a}) <= FreeSlots(w, a)
    BY DEF Counted
  <2>1. {t \in DOMAIN run : run[t].agent = a} = {t \in D : w.assignee[t] = a}
    BY <1>3
  <2> QED
    BY <2>1, <1>1 DEF FillsSlots
<1>5. DOMAIN run \subseteq Task /\ \A t \in DOMAIN run : MayJoin(w, t, run[t])
  BY <1>2
<1> QED
  BY <1>1, <1>4, <1>5, StartingIsFit

LEMMA SupersessionIsFit ==
    ASSUME NEW w, Fit(w)
    PROVE  Schedules(w, SupersedeReviews(w))
<1> DEFINE
    v == SupersedeReviews(w)
    targets == {w.dependencies[e].target : e \in StaleEdges(w)}
    Supersede(t, run) ==
        IF /\ t \in targets
           /\ run.trigger = "graph_review"
           /\ run.agent # w.conductor
        THEN [run EXCEPT
                !.status = IF @ = "running" THEN "cancelled" ELSE @,
                !.lease = IF @ = "succeeded" THEN @ ELSE "paused"]
        ELSE run
    R == [t \in Task |-> [i \in DOMAIN w.runs[t] |-> Supersede(t, w.runs[t][i])]]
<1>1. OnlyRuns(w, v) /\ w \in World
  BY SupersessionChangesOnlyRuns DEF Fit
<1>2. v = [w EXCEPT !.runs = R]
  BY DEF SupersedeReviews, EachRun
<1>3. v.runs = R /\ v.limit = w.limit /\ v.attempts = w.attempts
  BY <1>1, <1>2 DEF World
<1> HIDE DEF v, targets
<1>4. \A t \in Task : AllFaded(w.runs[t], R[t])
  <2> SUFFICES ASSUME NEW t \in Task, NEW i \in DOMAIN w.runs[t]
               PROVE  Faded(w.runs[t][i], Supersede(t, w.runs[t][i]))
    BY DEF AllFaded
  <2>1. /\ w.runs[t][i] \in Run
        /\ w.runs[t][i].trigger = "graph_review" => w.runs[t][i].attempt # 0
        /\ w.runs[t][i].lease = "none" <=> w.runs[t][i].attempt = 0
    BY RunsOf DEF Fit, RunsSound, NamesInputs, Orderly, Numbered
  <2> DEFINE old == w.runs[t][i]
  <2> HIDE DEF old
  <2>2. /\ old \in Run
        /\ old.trigger = "graph_review" => old.lease # "none"
    BY <2>1 DEF old
  <2>3. Faded(old, Supersede(t, old))
    BY <2>2 DEF Faded, Run, RunStatus
  <2> QED
    BY <2>3 DEF old
<1> HIDE DEF R
<1> QED
  BY <1>1, <1>3, <1>4, FadingIsFit DEF v

LEMMA ReviewsMayJoin ==
    ASSUME NEW w \in World, w.conductor \in Agent, NEW e \in Live(w),
           NEW t, t = w.dependencies[e].target,
           Claimable(w, t, ReviewFingerprint(e, w.dependencies[e].generation)),
           MayStart(w, t, TRUE)
    PROVE  /\ t \in Task
           /\ MayJoin(w, t, NewRun(w.conductor, "graph_review", NextAttempt(w, t),
                            ReviewFingerprint(e, w.dependencies[e].generation)))
<1>1. e \in EdgeId /\ w.dependencies[e] \in Edge /\ w.dependencies[e] # Unused
  BY DEF Live, World
<1>2. t \in Task /\ w.dependencies[e].generation \in Nat
  BY <1>1 DEF Edge
<1> DEFINE g == w.dependencies[e].generation
           run == NewRun(w.conductor, "graph_review", NextAttempt(w, t), ReviewFingerprint(e, g))
<1>3. /\ NextAttempt(w, t) \in Nat \ {0} /\ NextAttempt(w, t) = w.attempts[t] + 1
      /\ ReviewFingerprint(e, g) \in Fingerprint /\ "graph_review" \in Trigger
  BY <1>1, <1>2, AttemptsAreNumbered
  DEF NextAttempt, ReviewFingerprint, Fingerprint, Part, Trigger
<1>4. run \in Run
  BY <1>3, NewRunsAreTyped
<1>5. /\ run.lease = "running" /\ run.attempt = NextAttempt(w, t)
      /\ run.fingerprint = {<<e, g>>} /\ run.trigger = "graph_review"
  BY <1>3 DEF NewRun, ReviewFingerprint
<1> HIDE DEF run
<1>6. Gated(w, t, run)
  BY <1>5 DEF MayStart, Gated
<1>7. InOrder(w.runs[t], w.attempts[t], run)
  <2>1. \A i \in DOMAIN w.runs[t] :
            w.runs[t][i].fingerprint = run.fingerprint =>
                w.runs[t][i].lease \in {"none", "paused"}
    BY <1>2, <1>5, ClaimableInputs DEF ReviewFingerprint
  <2> QED
    BY <1>3, <1>5, <2>1 DEF InOrder
<1>8. <<e, g>>[1] = e /\ Generation(<<e, g>>) = g /\ <<e, g>> \in EdgeId \X Nat
  BY <1>1, <1>2 DEF Generation
<1>9. NamesInputs(w.dependencies, t, run)
  BY <1>1, <1>3, <1>5, <1>8 DEF NamesInputs
<1>10. PresentOrTried(w.dependencies, w.runs[t], run)
  BY <1>5, <1>8 DEF PresentOrTried, IsPresent
<1> QED
  BY <1>2, <1>4, <1>6, <1>7, <1>9, <1>10 DEF MayJoin, run

LEMMA ReviewsAreFit ==
    ASSUME NEW w, Fit(w), w.conductor # NoAgent, NEW u \in DispatchReviews(w)
    PROVE  Schedules(w, u)
<1> DEFINE v == SupersedeReviews(w)
<1>1. Schedules(w, v) /\ v \in World /\ Fit(v) /\ v.conductor \in Agent
  <2>1. Schedules(w, v)
    BY SupersessionIsFit
  <2> QED
    BY <2>1 DEF Schedules, OnlyRuns, World
<1> HIDE DEF v
<1> DEFINE
    target(e) == v.dependencies[e].target
    fingerprint(e) == ReviewFingerprint(e, v.dependencies[e].generation)
    run(e) == NewRun(v.conductor, "graph_review", NextAttempt(v, target(e)), fingerprint(e))
    reviews(D) == [t \in {target(e) : e \in D} |->
                    run(CHOOSE e \in D : target(e) = t)]
    slots == FreeSlots(v, v.conductor)
<1>2. PICK D \in SUBSET StaleEdges(v) :
        /\ u = Started(v, reviews(D))
        /\ \A e \in D : /\ Claimable(v, target(e), fingerprint(e))
                        /\ MayStart(v, target(e), TRUE)
        /\ Cardinality(D) <= slots
        /\ \A d1, d2 \in D : target(d1) = target(d2) => d1 = d2
  BY DEF DispatchReviews, v
<1>3. \A e \in D : target(e) \in Task /\ MayJoin(v, target(e), run(e))
  <2> SUFFICES ASSUME NEW e \in D
               PROVE  target(e) \in Task /\ MayJoin(v, target(e), run(e))
    OBVIOUS
  <2>1. e \in Live(v)
    BY <1>2 DEF StaleEdges
  <2> QED
    BY <1>1, <1>2, <2>1, ReviewsMayJoin
<1>4. \A e \in D : run(e).agent = v.conductor
  BY DEF NewRun
<1> DEFINE R == reviews(D)
           Targets == {target(e) : e \in D}
<1>5. \A t \in Targets : \E e \in D : target(e) = t /\ R[t] = run(e)
  <2> SUFFICES ASSUME NEW t \in Targets
               PROVE  \E e \in D : target(e) = t /\ R[t] = run(e)
    OBVIOUS
  <2> DEFINE e == CHOOSE x \in D : target(x) = t
  <2> HIDE DEF run
  <2>1. e \in D /\ target(e) = t
    OBVIOUS
  <2> QED
    BY <2>1
<1>6. DOMAIN R = Targets
  OBVIOUS
<1> HIDE DEF run, R
<1>7. DOMAIN R \subseteq Task /\ \A t \in DOMAIN R : MayJoin(v, t, R[t])
  BY <1>3, <1>5, <1>6
<1>8. Counted(v, R)
  <2> SUFFICES ASSUME NEW a \in Agent
               PROVE  Cardinality({t \in DOMAIN R : R[t].agent = a}) <= FreeSlots(v, a)
    BY DEF Counted
  <2> DEFINE into == [e \in D |-> target(e)]
             mine == {t \in DOMAIN R : R[t].agent = a}
  <2>1. IsFiniteSet(Targets)
    BY <1>6, <1>7, ConstantsAssumption, FS_Subset
  <2>2. into \in Injection(D, Targets) /\ into \in Surjection(D, Targets)
    <3> HIDE DEF fingerprint, target
    <3> QED
      BY <1>2 DEF Injection, Surjection, IsInjective
  <2> HIDE DEF into, Targets, mine
  <2>3. IsFiniteSet(D) /\ Cardinality(Targets) <= Cardinality(D)
    BY <2>1, <2>2, FS_Injection, FS_Surjection
  <2>4. /\ Cardinality(D) \in Nat /\ Cardinality(Targets) \in Nat
        /\ FreeSlots(v, a) \in Nat
    BY <1>1, <2>1, <2>3, FreeSlotsAreNumbers, FS_CardinalityType
  <2>5. CASE a = v.conductor
    <3>1. mine \in SUBSET Targets
      BY <1>6 DEF mine
    <3>2. IsFiniteSet(mine) /\ Cardinality(mine) <= Cardinality(Targets)
      BY <2>1, <3>1, FS_Subset
    <3>3. Cardinality(mine) \in Nat
      BY <3>2, FS_CardinalityType
    <3> QED
      BY <1>2, <2>3, <2>4, <2>5, <3>2, <3>3 DEF mine
  <2>6. CASE a # v.conductor
    <3>1. mine = {}
      BY <1>4, <1>5, <1>6, <2>6 DEF mine
    <3> QED
      BY <2>4, <3>1, FS_EmptySet DEF mine
  <2> QED
    BY <2>5, <2>6
<1>9. Schedules(v, u)
  BY <1>1, <1>2, <1>7, <1>8, StartingIsFit DEF R
<1> QED
  BY <1>1, <1>9, SchedulesTransitive

LEMMA ReconcileIsFit ==
    ASSUME NEW w, Fit(w), NEW v \in Reconcile(w)
    PROVE  Schedules(w, v)
<1>1. CASE w.conductor = NoAgent
  <2> DEFINE S == {t \in Task : ExecutorReady(w, t)}
  <2>1. v \in StartAssignees(w, S, "graph", Task) /\ S \in SUBSET Task
    BY <1>1 DEF Reconcile, DispatchExecutors
  <2>2. \A t \in S :
            /\ MayStart(w, t, FALSE)
            /\ Claimable(w, t, InputFingerprint(w, t))
            /\ \A i \in DOMAIN w.runs[t] : w.runs[t][i].status # "running"
    BY DEF ExecutorReady, HasRunningRun
  <2> HIDE DEF S
  <2> QED
    BY <2>1, <2>2, StartingAssigneesIsFit
<1>2. CASE w.conductor # NoAgent
  BY <1>2, ReviewsAreFit DEF Reconcile
<1> QED
  BY <1>1, <1>2

LEMMA DispatchReadyIsFit ==
    ASSUME NEW w, Fit(w), NEW T \in SUBSET Task, NEW v \in DispatchReady(w, T)
    PROVE  Schedules(w, v)
<1>1. CASE w.conductor = NoAgent
  BY <1>1, SchedulesReflexive DEF DispatchReady
<1>2. CASE w.conductor # NoAgent
  <2> DEFINE declared == {t \in Task : NodeOnDeclaredGraph(w, t)}
             S == {t \in T : /\ ReadyForGraphDispatch(w, t)
                             /\ t \in declared =>
                                /\ Ready(w, t)
                                /\ Claimable(w, t, InputFingerprint(w, t))}
  <2>1. v \in StartAssignees(w, S, "graph", declared)
    BY <1>2 DEF DispatchReady
  <2>2. \A t \in S :
            /\ MayStart(w, t, FALSE)
            /\ t \in declared => Claimable(w, t, InputFingerprint(w, t))
            /\ \A i \in DOMAIN w.runs[t] :
                w.runs[t][i].status = "running" =>
                    w.runs[t][i].trigger = "graph_review"
    BY DEF ReadyForGraphDispatch, MayStart, IsConductorReview
  <2> HIDE DEF declared
  <2> QED
    BY <2>1, <2>2, StartingAssigneesIsFit
<1> QED
  BY <1>1, <1>2

LEMMA ReconcileWorkspaceIsFit ==
    ASSUME NEW w, Fit(w), NEW v \in ReconcileWorkspace(w)
    PROVE  Schedules(w, v)
<1>1. PICK x \in Reconcile(w), T \in SUBSET Task : v \in DispatchReady(x, T)
  BY DEF ReconcileWorkspace
<1>2. Schedules(w, x) /\ Fit(x)
  BY ReconcileIsFit DEF Schedules
<1>3. Schedules(x, v)
  BY <1>1, <1>2, DispatchReadyIsFit
<1> QED
  BY <1>2, <1>3, SchedulesTransitive

LEMMA ReleaseIsFit ==
    ASSUME NEW w, Fit(w), NEW released \in SUBSET Task, NEW v \in Release(w, released)
    PROVE  Schedules(w, v)
<1>1. CASE released = {}
  BY <1>1, SchedulesReflexive DEF Release
<1>2. CASE v \in DispatchReleased(w, released)
  <2> DEFINE S == {t \in released :
                    /\ t \notin w.deleted
                    /\ w.status[t] \notin {"backlog", "done", "cancelled"}
                    /\ w.blocked_reason[t] # "marked"
                    /\ ~HasRunningRun(w, t)
                    /\ MayStart(w, t, FALSE)}
             nobody == {}
  <2>1. v \in StartAssignees(w, S, "issue", nobody)
    BY <1>2 DEF DispatchReleased
  <2>2. S \in SUBSET Task /\ \A t \in S : MayStart(w, t, FALSE) /\ t \notin nobody
    OBVIOUS
  <2> HIDE DEF S, nobody
  <2> QED
    BY <2>1, <2>2, StartingAssigneesIsFit
<1>3. CASE v \in ReconcileWorkspace(w)
  BY <1>3, ReconcileWorkspaceIsFit
<1> QED
  BY <1>1, <1>2, <1>3 DEF Release

LEMMA FinishIsFit ==
    ASSUME NEW w, Fit(w), NEW T \in SUBSET Task, Finish(w, T)
    PROVE  Schedules(w, world')
<1>1. PICK x \in Release(w, T) : world' \in ReconcileWorkspace(x)
  BY DEF Finish
<1>2. Schedules(w, x) /\ Fit(x)
  BY ReleaseIsFit DEF Schedules
<1>3. Schedules(x, world')
  BY <1>1, <1>2, ReconcileWorkspaceIsFit
<1> QED
  BY <1>2, <1>3, SchedulesTransitive
-----------------------------------------------------------------------------
(* What a handler changes before the scheduler runs.                        *)

\* An edge keeps its target and its generation for as long as it lives, and
\* an id is never handed out twice.
EdgesKeep(w, v) ==
    \A e \in EdgeId :
        \/ v.dependencies[e] = w.dependencies[e]
        \/ w.dependencies[e] = Unused /\ v.dependencies[e] \in Edge
        \/ /\ e \in Live(w)
           /\ \/ v.dependencies[e] = Removed
              \/ /\ v.dependencies[e] \in Edge
                 /\ v.dependencies[e].target = w.dependencies[e].target
                 /\ v.dependencies[e].generation = w.dependencies[e].generation

\* The runs are left alone.
Around(w, v) ==
    /\ v \in World /\ v.runs = w.runs /\ v.attempts = w.attempts /\ v.limit = w.limit
    /\ EdgesKeep(w, v)

LEMMA AroundIsFit ==
    ASSUME NEW w, Fit(w), NEW v, Around(w, v)
    PROVE  Fit(v)
<1>1. w \in World /\ v \in World
  BY DEF Fit, Around
<1>2. RunsSound(v)
  <2> SUFFICES ASSUME NEW t \in Task
               PROVE  /\ \A i \in DOMAIN w.runs[t] :
                            NamesInputs(v.dependencies, t, w.runs[t][i])
                      /\ PresentInputs(v.dependencies, w.runs[t])
    BY DEF RunsSound, Fit, Around
  <2>1. /\ \A i \in DOMAIN w.runs[t] : NamesInputs(w.dependencies, t, w.runs[t][i])
        /\ PresentInputs(w.dependencies, w.runs[t])
    BY DEF Fit, RunsSound
  <2>2. ASSUME NEW i \in DOMAIN w.runs[t]
        PROVE  /\ NamesInputs(v.dependencies, t, w.runs[t][i])
               /\ IsPresent(w.dependencies, w.runs[t][i].fingerprint) =>
                    IsPresent(v.dependencies, w.runs[t][i].fingerprint)
    <3> DEFINE run == w.runs[t][i]
    <3>1. NamesInputs(w.dependencies, t, run)
      BY <2>1
    <3> HIDE DEF run
    <3>2. ASSUME NEW part \in run.fingerprint, part[1] \in EdgeId
          PROVE  /\ v.dependencies[part[1]] # Unused
                 /\ v.dependencies[part[1]] # Removed =>
                    /\ w.dependencies[part[1]] \notin {Unused, Removed}
                    /\ v.dependencies[part[1]].target = w.dependencies[part[1]].target
                    /\ v.dependencies[part[1]].generation
                            = w.dependencies[part[1]].generation
      <4>1. w.dependencies[part[1]] # Unused
        BY <3>1, <3>2 DEF NamesInputs
      <4> QED
        BY <3>2, <4>1, ConstantsAssumption DEF Around, EdgesKeep, Live
    <3>3. NamesInputs(v.dependencies, t, run)
      BY <3>1, <3>2 DEF NamesInputs
    <3>4. IsPresent(w.dependencies, run.fingerprint) => IsPresent(v.dependencies, run.fingerprint)
      BY <3>2 DEF IsPresent
    <3> QED
      BY <3>3, <3>4 DEF run
  <2> QED
    BY <2>1, <2>2 DEF PresentInputs
<1>3. WithinLimits(v)
  <2>1. /\ \A a \in Agent : RunningRuns(v, a) = RunningRuns(w, a)
        /\ \A a \in Agent : ConcurrencyLimit(v, a) = ConcurrencyLimit(w, a)
    BY DEF RunningRuns, ConcurrencyLimit, Around
  <2> QED
    BY <2>1 DEF WithinLimits, Fit
<1> QED
  BY <1>1, <1>2, <1>3 DEF Fit

\* The verdict of run i of t: it settles the edge and the generation that the
\* run was given.
Settles(w, v, t, i) ==
    \E e \in Live(w) :
        LET g == w.dependencies[e].generation IN
        /\ w.runs[t][i].fingerprint = ReviewFingerprint(e, g)
        /\ w.dependencies[e].target = t
        /\ v.dependencies[e] # Removed =>
            v.dependencies[e].generation = g /\ v.dependencies[e].state # "stale"

\* w has become v, and nothing was started yet.
Prepares(w, v) ==
    /\ Fit(v)
    /\ \A t \in Task :
        /\ DOMAIN v.runs[t] = DOMAIN w.runs[t]
        /\ \A i \in DOMAIN w.runs[t] :
            /\ Kept(w.runs[t][i], v.runs[t][i])
            /\ NoVerdict(w.runs[t][i], v.runs[t][i]) \/ Settles(w, v, t, i)

\* What a whole step does to the runs.
Advances(w, v) ==
    /\ Fit(v)
    /\ \A t \in Task :
        /\ DOMAIN w.runs[t] \subseteq DOMAIN v.runs[t]
        /\ \A i \in DOMAIN w.runs[t] :
            /\ Kept(w.runs[t][i], v.runs[t][i])
            /\ NoVerdict(w.runs[t][i], v.runs[t][i]) \/ Settles(w, v, t, i)
        /\ \A i \in (DOMAIN v.runs[t]) \ DOMAIN w.runs[t] : Gated(v, t, v.runs[t][i])

LEMMA PreparedAndScheduled ==
    ASSUME NEW u, NEW w, NEW v, Prepares(u, w), Schedules(w, v)
    PROVE  Advances(u, v)
<1>1. OnlyRuns(w, v) /\ Grows(w, v) /\ Fit(v) /\ v.dependencies = w.dependencies
  BY DEF Schedules, OnlyRuns
<1> SUFFICES ASSUME NEW t \in Task
             PROVE  /\ DOMAIN u.runs[t] \subseteq DOMAIN v.runs[t]
                    /\ \A i \in DOMAIN u.runs[t] :
                        /\ Kept(u.runs[t][i], v.runs[t][i])
                        /\ NoVerdict(u.runs[t][i], v.runs[t][i]) \/ Settles(u, v, t, i)
                    /\ \A i \in (DOMAIN v.runs[t]) \ DOMAIN u.runs[t] :
                        Gated(v, t, v.runs[t][i])
  BY <1>1 DEF Advances
<1>2. DOMAIN w.runs[t] = DOMAIN u.runs[t] /\ DOMAIN w.runs[t] \subseteq DOMAIN v.runs[t]
  BY <1>1 DEF Prepares, Grows
<1>3. \A i \in DOMAIN u.runs[t] : Kept(u.runs[t][i], v.runs[t][i])
  BY <1>1, <1>2 DEF Prepares, Grows, Kept
<1>4. \A i \in DOMAIN u.runs[t] :
        NoVerdict(u.runs[t][i], v.runs[t][i]) \/ Settles(u, v, t, i)
  <2> SUFFICES ASSUME NEW i \in DOMAIN u.runs[t], ~NoVerdict(u.runs[t][i], v.runs[t][i])
               PROVE  Settles(u, v, t, i)
    OBVIOUS
  <2>1. /\ Kept(u.runs[t][i], w.runs[t][i]) /\ NoVerdict(w.runs[t][i], v.runs[t][i])
        /\ NoVerdict(u.runs[t][i], w.runs[t][i]) \/ Settles(u, w, t, i)
    BY <1>1, <1>2 DEF Prepares, Grows
  <2>2. Settles(u, w, t, i)
    BY <2>1 DEF NoVerdict, Kept
  <2> QED
    BY <2>2, <1>1 DEF Settles
<1>5. \A i \in (DOMAIN v.runs[t]) \ DOMAIN u.runs[t] : Gated(v, t, v.runs[t][i])
  BY <1>1, <1>2, SameGates DEF Grows
<1> QED
  BY <1>2, <1>3, <1>4, <1>5

LEMMA AroundPrepares ==
    ASSUME NEW w, Fit(w), NEW v, Around(w, v)
    PROVE  Prepares(w, v)
BY AroundIsFit DEF Prepares, Around, Kept, NoVerdict

LEMMA GatesAround ==
    ASSUME NEW u, NEW w, NEW v, Around(u, w), OnlyGates(w, v)
    PROVE  Around(u, v)
BY DEF Around, OnlyGates, EdgesKeep

LEMMA AroundReflexive ==
    ASSUME NEW w \in World PROVE Around(w, w)
BY DEF Around, EdgesKeep

LEMMA SyncAround ==
    ASSUME NEW u, NEW w, NEW T, Around(u, w)
    PROVE  Around(u, SyncIssueBlockerHold(w, T))
BY SyncIsAGate, GatesAround DEF Around

LEMMA HoldAround ==
    ASSUME NEW u, NEW w, NEW T, Around(u, w)
    PROVE  Around(u, Held(w, T, "gate"))
BY HoldingIsAGate, GatesAround DEF Around, Reason

LEMMA RefreshAround ==
    ASSUME NEW u, NEW w, NEW t, Around(u, w)
    PROVE  Around(u, RefreshTaskRunGates(w, t))
BY RefreshIsAGate, GatesAround DEF Around

LEMMA StatusAround ==
    ASSUME NEW w, Sound(w), NEW t \in Task, NEW s \in Status
    PROVE  Around(w, WithStatus(w, t, s))
<1>1. WithStatus(w, t, s) \in World
  BY WithStatusIsSound DEF Sound
<1> QED
  BY <1>1 DEF Sound, World, WithStatus, Around, EdgesKeep

LEMMA SuccessAround ==
    ASSUME NEW u, NEW w, Sound(w), Around(u, w), NEW n \in Task
    PROVE  Around(u, MarkSucceeded(w, n))
<1>1. MarkSucceeded(w, n) \in World
  BY MarkSucceededIsSound DEF Sound
<1> QED
  BY <1>1 DEF Sound, World, MarkSucceeded, Around, EdgesKeep

LEMMA EdgeChangedAround ==
    ASSUME NEW w \in World, NEW e \in Live(w), NEW edge,
           \/ edge = Removed
           \/ /\ edge \in Edge /\ edge.target = w.dependencies[e].target
              /\ edge.generation = w.dependencies[e].generation
    PROVE  LET v == [w EXCEPT !.dependencies = [@ EXCEPT ![e] = edge]]
           IN  Around(w, v) /\ v.dependencies[e] = edge
<1> DEFINE D == [w.dependencies EXCEPT ![e] = edge]
           v == [w EXCEPT !.dependencies = D]
<1>1. e \in EdgeId /\ w.dependencies \in [EdgeId -> Edge \union {Unused, Removed}]
  BY DEF World, Live
<1>2. /\ D \in [EdgeId -> Edge \union {Unused, Removed}]
      /\ D[e] = edge /\ \A x \in EdgeId \ {e} : D[x] = w.dependencies[x]
  BY <1>1
<1> HIDE DEF D
<1>3. /\ v \in World /\ v.dependencies = D /\ v.runs = w.runs
      /\ v.attempts = w.attempts /\ v.limit = w.limit
  BY <1>2 DEF World
<1> HIDE DEF v
<1> QED
  BY <1>2, <1>3 DEF Around, EdgesKeep, v, D

\* A decision settles the edge at its present generation.
LEMMA DecidedAround ==
    ASSUME NEW w, Sound(w), NEW e \in Live(w), NEW choice \in Decision
    PROVE  LET v == Decided(w, e, choice) IN
           /\ Around(w, v)
           /\ v.dependencies[e] # Removed =>
                /\ v.dependencies[e].generation = w.dependencies[e].generation
                /\ v.dependencies[e].state # "stale"
<1> DEFINE
    old == w.dependencies[e]
    with(edge) == [w EXCEPT !.dependencies = [@ EXCEPT ![e] = edge]]
    active == [old EXCEPT !.state = "active", !.observed = old.current]
    state == IF choice = "hold" THEN "pending" ELSE "rejected"
    settled == [old EXCEPT !.state = state]
<1>1. w \in World /\ e \in EdgeId /\ old \in Edge
  BY DEF Sound, World, Live
<1>2. PICK edge :
        /\ Decided(w, e, choice) = RefreshTaskRunGates(with(edge), old.target)
        /\ \/ edge = Removed
           \/ /\ edge \in Edge /\ edge.target = old.target
              /\ edge.generation = old.generation /\ edge.state # "stale"
  <2>1. CASE choice = "reaffirm"
    <3>1. /\ active \in Edge /\ active.target = old.target
          /\ active.generation = old.generation /\ active.state # "stale"
      BY <1>1 DEF Edge, EdgeState
    <3>2. Reaffirmed(w, e) = RefreshTaskRunGates(with(active), old.target)
      <4>1. /\ "dependencies" \in DOMAIN w /\ e \in DOMAIN w.dependencies
            /\ "state" \in DOMAIN old /\ "observed" \in DOMAIN old
        BY <1>1 DEF World, Edge
      <4> QED
        BY <4>1 DEF Reaffirmed
    <3> QED
      BY <2>1, <3>1, <3>2 DEF Decided
  <2>2. CASE choice = "remove"
    BY <2>2 DEF Decided, Without
  <2>3. CASE choice \in {"hold", "replan"}
    <3>1. /\ settled \in Edge /\ settled.target = old.target
          /\ settled.generation = old.generation /\ settled.state # "stale"
      BY <1>1 DEF Edge, EdgeState
    <3>2. Decided(w, e, choice) = WithState(w, e, state)
      BY <2>3 DEF Decided
    <3>3. WithState(w, e, state) = RefreshTaskRunGates(with(settled), old.target)
      BY DEF WithState
    <3> QED
      BY <3>1, <3>2, <3>3
  <2> QED
    BY <2>1, <2>2, <2>3 DEF Decision
<1> DEFINE v == with(edge)
<1>3. Around(w, v) /\ v.dependencies[e] = edge
  BY <1>1, <1>2, EdgeChangedAround
<1> HIDE DEF v
<1>4. OnlyGates(v, RefreshTaskRunGates(v, old.target))
  BY <1>3, RefreshIsAGate DEF Around
<1>5. Decided(w, e, choice) = RefreshTaskRunGates(v, old.target)
  BY <1>2 DEF v
<1> QED
  BY <1>2, <1>3, <1>4, <1>5, GatesAround DEF OnlyGates

LEMMA RecordedAround ==
    ASSUME NEW w \in World, NEW e \in EdgeId, w.dependencies[e] = Unused,
           NEW s \in Task, NEW t \in Task, NEW kind \in EdgeKind,
           NEW u \in Recorded(w, e, s, t, kind)
    PROVE  Around(w, u)
<1> DEFINE edge == NewEdge(w, s, t, kind)
           D == [w.dependencies EXCEPT ![e] = edge]
           v == [w EXCEPT !.dependencies = D]
<1>1. /\ w.node_artifacts \in [Task -> Nat]
      /\ w.dependencies \in [EdgeId -> Edge \union {Unused, Removed}]
  BY DEF World
<1>2. edge \in Edge
  BY <1>1 DEF Edge, EdgeState, NewEdge
<1>3. u = w \/ u = v
  BY DEF Recorded
<1> HIDE DEF edge
<1>4. /\ D \in [EdgeId -> Edge \union {Unused, Removed}]
      /\ D[e] = edge /\ \A x \in EdgeId \ {e} : D[x] = w.dependencies[x]
  BY <1>1, <1>2
<1> HIDE DEF D
<1>5. /\ v \in World /\ v.dependencies = D /\ v.runs = w.runs
      /\ v.attempts = w.attempts /\ v.limit = w.limit
  BY <1>4 DEF World
<1> HIDE DEF v
<1> QED
  BY <1>2, <1>3, <1>4, <1>5, AroundReflexive DEF Around, EdgesKeep

-----------------------------------------------------------------------------
(* A patch: the edges out of t go stale and the runs of its consumers are   *)
(* fenced, one never without the other.                                     *)

LEMMA FencedRuns ==
    ASSUME NEW w \in World, NEW T
    PROVE  /\ FenceAttempts(w, T).limit = w.limit
           /\ FenceAttempts(w, T).attempts = w.attempts
           /\ \A t \in Task :
                /\ AllFaded(w.runs[t], FenceAttempts(w, T).runs[t])
                /\ t \in T => \A i \in DOMAIN w.runs[t] :
                        FenceAttempts(w, T).runs[t][i].lease # "running"
<1> DEFINE Fence(t, run) ==
        IF t \in T /\ AttemptBlocksClaim(run.lease) /\ run.lease # "succeeded"
        THEN [run EXCEPT !.lease = "paused"] ELSE run
    R == [t \in Task |-> [i \in DOMAIN w.runs[t] |-> Fence(t, w.runs[t][i])]]
<1>1. /\ FenceAttempts(w, T).runs = R
      /\ FenceAttempts(w, T).limit = w.limit
      /\ FenceAttempts(w, T).attempts = w.attempts
  BY DEF FenceAttempts, EachRun, World
<1>2. ASSUME NEW t \in Task, NEW run \in Run
      PROVE  /\ Faded(run, Fence(t, run))
             /\ t \in T => Fence(t, run).lease # "running"
  BY DEF Faded, Run, AttemptBlocksClaim
<1> HIDE DEF Fence
<1>3. \A t \in Task : \A i \in DOMAIN w.runs[t] : w.runs[t][i] \in Run
  BY RunsOf
<1> QED
  BY <1>1, <1>2, <1>3 DEF AllFaded

\* The part of invalidate_dependencies that the runs depend on.
LEMMA InvalidatedRuns ==
    ASSUME NEW w, Sound(w), NEW t \in Task
    PROVE  LET v == Invalidated(w, t)
               T == LiveConsumers(w, t)
           IN  /\ v.limit = w.limit /\ v.attempts = w.attempts
               /\ \A x \in Task :
                    /\ AllFaded(w.runs[x], v.runs[x])
                    /\ x \in T => \A i \in DOMAIN w.runs[x] :
                            v.runs[x][i].lease # "running"
               /\ \A e \in EdgeId :
                    \/ v.dependencies[e] = w.dependencies[e]
                    \/ /\ e \in Live(w) /\ v.dependencies[e] \in Edge
                       /\ v.dependencies[e].target = w.dependencies[e].target
                       /\ w.dependencies[e].target \in T
<1> DEFINE
    version == w.node_artifacts[t] + 1
    consumers == LiveConsumers(w, t)
    stale(e) == IF /\ e \in Live(w)
                   /\ Consumes(w, e)
                   /\ w.dependencies[e].source = t
                THEN [w.dependencies[e] EXCEPT !.state = "stale",
                                               !.generation = @ + 1,
                                               !.current = version]
                ELSE w.dependencies[e]
    A == [w.node_artifacts EXCEPT ![t] = version]
    D == [e \in EdgeId |-> stale(e)]
    v == [w EXCEPT !.node_artifacts = A, !.dependencies = D]
    fenced == FenceAttempts(v, consumers)
    held == ApplyStaleDependencyHold(fenced, consumers)
<1>1. /\ w \in World /\ w.node_artifacts \in [Task -> Nat]
      /\ w.dependencies \in [EdgeId -> Edge \union {Unused, Removed}]
  BY DEF Sound, World
<1>2. version \in Nat /\ A \in [Task -> Nat]
  BY <1>1
<1>3. \A e \in Live(w) : stale(e) \in Edge /\ stale(e).target = w.dependencies[e].target
  <2> SUFFICES ASSUME NEW e \in Live(w)
               PROVE  stale(e) \in Edge /\ stale(e).target = w.dependencies[e].target
    OBVIOUS
  <2>1. w.dependencies[e] \in Edge
    BY <1>1 DEF Live
  <2> HIDE DEF version
  <2> QED
    BY <2>1, <1>2, StaleEdge
<1>4. \A e \in EdgeId :
        \/ stale(e) = w.dependencies[e]
        \/ e \in Live(w) /\ w.dependencies[e].target \in consumers
  BY DEF LiveConsumers
<1>5. \A e \in EdgeId : D[e] = stale(e)
  OBVIOUS
<1> HIDE DEF stale
<1>6. D \in [EdgeId -> Edge \union {Unused, Removed}]
  <2>1. \A e \in EdgeId : stale(e) \in Edge \union {Unused, Removed}
    BY <1>1, <1>3, <1>4
  <2> QED
    BY <2>1
<1>7. Invalidated(w, t).runs = held.runs /\ Invalidated(w, t).limit = held.limit
      /\ Invalidated(w, t).attempts = held.attempts
      /\ Invalidated(w, t).dependencies = held.dependencies
  <2>1. held = ApplyStaleDependencyHold(FenceAttempts(
                [w EXCEPT !.node_artifacts[t] = version,
                          !.dependencies = [e \in EdgeId |-> stale(e)]], consumers), consumers)
    OBVIOUS
  <2>2. held \in World
    <3>1. v \in World
      <4> HIDE DEF A, D
      <4> QED
        BY <1>1, <1>2, <1>6 DEF World
    <3>2. fenced \in World
      BY <3>1, FencesChangeOnlyRuns DEF OnlyRuns
    <3> QED
      BY <3>2, StaleHoldIsAGate DEF OnlyGates
  <2>3. Invalidated(w, t) = [held EXCEPT !.materialization =
            [c \in Task |->
                IF c \in consumers /\ held.status[c] \in {"done", "cancelled"}
                THEN "stale" ELSE @[c]]]
    BY <2>1 DEF Invalidated, stale
  <2> HIDE DEF held
  <2> QED
    BY <2>2, <2>3 DEF World
<1> HIDE DEF A, D
<1>8. /\ v \in World /\ v.dependencies = D /\ v.runs = w.runs
      /\ v.limit = w.limit /\ v.attempts = w.attempts
  BY <1>1, <1>2, <1>6 DEF World
<1> HIDE DEF v
<1> HIDE DEF consumers
<1>9. /\ OnlyRuns(v, fenced) /\ fenced \in World
      /\ fenced.limit = v.limit /\ fenced.attempts = v.attempts
      /\ \A x \in Task : /\ AllFaded(v.runs[x], fenced.runs[x])
                         /\ x \in consumers => \A i \in DOMAIN v.runs[x] :
                                fenced.runs[x][i].lease # "running"
  <2>1. OnlyRuns(v, fenced)
    BY <1>8, FencesChangeOnlyRuns
  <2>2. fenced \in World
    BY <2>1 DEF OnlyRuns
  <2> QED
    BY <1>8, <2>1, <2>2, FencedRuns
<1> HIDE DEF fenced
<1>10. /\ held.runs = fenced.runs /\ held.limit = fenced.limit
       /\ held.attempts = fenced.attempts /\ held.dependencies = fenced.dependencies
  BY <1>9, StaleHoldIsAGate DEF OnlyGates
<1> HIDE DEF held
<1> QED
  BY <1>3, <1>4, <1>5, <1>7, <1>8, <1>9, <1>10 DEF OnlyRuns, consumers

LEMMA InvalidatedPrepares ==
    ASSUME NEW w, Sound(w), Fit(w), NEW t \in Task
    PROVE  Prepares(w, Invalidated(w, t))
<1> DEFINE v == Invalidated(w, t)
           T == LiveConsumers(w, t)
<1>1. w \in World /\ v \in World
  BY InvalidatedIsSound DEF Sound
<1>2. /\ v.limit = w.limit /\ v.attempts = w.attempts
      /\ \A x \in Task :
            /\ AllFaded(w.runs[x], v.runs[x])
            /\ x \in T => \A i \in DOMAIN w.runs[x] : v.runs[x][i].lease # "running"
      /\ \A e \in EdgeId :
            \/ v.dependencies[e] = w.dependencies[e]
            \/ /\ e \in Live(w) /\ v.dependencies[e] \in Edge
               /\ v.dependencies[e].target = w.dependencies[e].target
               /\ w.dependencies[e].target \in T
  BY InvalidatedRuns
<1> HIDE DEF v, T
<1>3. RunsSound(v)
  <2> SUFFICES ASSUME NEW x \in Task
               PROVE  /\ Orderly(v.runs[x], w.attempts[x])
                      /\ \A i \in DOMAIN v.runs[x] :
                            NamesInputs(v.dependencies, x, v.runs[x][i])
                      /\ PresentInputs(v.dependencies, v.runs[x])
    BY <1>2 DEF RunsSound
  <2>1. w.runs[x] \in Seq(Run) /\ v.runs[x] \in Seq(Run) /\ w.attempts[x] \in Nat
    BY <1>1, RunsOf
  <2>2. /\ Orderly(w.runs[x], w.attempts[x])
        /\ \A i \in DOMAIN w.runs[x] : NamesInputs(w.dependencies, x, w.runs[x][i])
        /\ PresentInputs(w.dependencies, w.runs[x])
        /\ AllFaded(w.runs[x], v.runs[x])
    BY <1>2 DEF Fit, RunsSound
  <2>3. /\ Orderly(v.runs[x], w.attempts[x])
        /\ PresentInputs(w.dependencies, v.runs[x])
        /\ \A i \in DOMAIN v.runs[x] : NamesInputs(w.dependencies, x, v.runs[x][i])
    BY <2>1, <2>2, FadedStaysOrderly, FadedStaysPresent, FadedNamesInputs DEF AllFaded
  <2>4. ASSUME NEW i \in DOMAIN v.runs[x]
        PROVE  /\ NamesInputs(v.dependencies, x, v.runs[x][i])
               /\ /\ v.runs[x][i].lease = "running"
                  /\ IsPresent(w.dependencies, v.runs[x][i].fingerprint)
                  => IsPresent(v.dependencies, v.runs[x][i].fingerprint)
    <3> DEFINE run == v.runs[x][i]
    <3>1. NamesInputs(w.dependencies, x, run) /\ (x \in T => run.lease # "running")
      BY <2>2, <2>3, <1>2 DEF AllFaded
    <3> HIDE DEF run
    <3>2. ASSUME NEW part \in run.fingerprint, part[1] \in EdgeId
          PROVE  /\ v.dependencies[part[1]] # Unused
                 /\ v.dependencies[part[1]] # Removed =>
                    /\ v.dependencies[part[1]].target = x
                    /\ x \in T \/ v.dependencies[part[1]] = w.dependencies[part[1]]
      BY <1>2, <3>1, <3>2, ConstantsAssumption DEF NamesInputs, Live
    <3>3. NamesInputs(v.dependencies, x, run)
      BY <3>1, <3>2 DEF NamesInputs
    <3>4. run.lease = "running" /\ IsPresent(w.dependencies, run.fingerprint) =>
            IsPresent(v.dependencies, run.fingerprint)
      BY <3>1, <3>2 DEF IsPresent
    <3> QED
      BY <3>3, <3>4 DEF run
  <2> QED
    BY <2>3, <2>4 DEF PresentInputs
<1>4. WithinLimits(v)
  BY <1>1, <1>2, FewerRunning DEF Fit, AllFaded, Faded
<1>5. \A x \in Task : /\ DOMAIN v.runs[x] = DOMAIN w.runs[x]
                      /\ \A i \in DOMAIN w.runs[x] :
                            /\ Kept(w.runs[x][i], v.runs[x][i])
                            /\ NoVerdict(w.runs[x][i], v.runs[x][i])
  BY <1>2 DEF AllFaded, Faded, Kept, NoVerdict
<1> QED
  BY <1>1, <1>3, <1>4, <1>5 DEF Prepares, Fit, v

LEMMA FadingPrepares ==
    ASSUME NEW w, Fit(w), NEW v, Schedules(w, v),
           \A t \in Task : DOMAIN v.runs[t] = DOMAIN w.runs[t]
    PROVE  Prepares(w, v)
BY DEF Schedules, Grows, Prepares

LEMMA PreparedWithGates ==
    ASSUME NEW u, NEW w, NEW v, Prepares(u, w), Around(w, v),
           v.dependencies = w.dependencies
    PROVE  Prepares(u, v)
BY AroundIsFit DEF Prepares, Around, Settles

LEMMA PausedRuns ==
    ASSUME NEW run \in Run, run.status = "running"
    PROVE  LET new == [run EXCEPT !.status = "paused", !.was_paused = TRUE]
           IN  new \in Run /\ Faded(run, new)
<1> DEFINE new == [run EXCEPT !.status = "paused", !.was_paused = TRUE]
<1>1. new \in Run
  BY DEF Run, RunStatus
<1>2. /\ new.agent = run.agent /\ new.trigger = run.trigger
      /\ new.attempt = run.attempt /\ new.fingerprint = run.fingerprint
      /\ new.lease = run.lease /\ new.status = "paused"
  BY DEF Run
<1> HIDE DEF new
<1> QED
  BY <1>1, <1>2 DEF Faded, new

LEMMA PausingIsFit ==
    ASSUME NEW w, Fit(w), NEW T
    PROVE  Schedules(w, PauseStaleConsumers(w, T))
<1> DEFINE
    Pause(t, run) ==
        IF t \in T /\ ~Settled(w, t) /\ run.status = "running"
        THEN [run EXCEPT !.status = "paused", !.was_paused = TRUE]
        ELSE run
    R == [t \in Task |-> [i \in DOMAIN w.runs[t] |-> Pause(t, w.runs[t][i])]]
    v == [w EXCEPT !.runs = R]
<1>1. PauseStaleConsumers(w, T) = v
  BY DEF PauseStaleConsumers, EachRun
<1>2. \A t \in Task, run \in Run : Pause(t, run) \in Run /\ Faded(run, Pause(t, run))
  BY PausedRuns DEF Faded
<1> HIDE DEF Pause
<1>3. \A t \in Task : R[t] \in Seq(Run) /\ AllFaded(w.runs[t], R[t])
  <2> SUFFICES ASSUME NEW t \in Task
               PROVE  R[t] \in Seq(Run) /\ AllFaded(w.runs[t], R[t])
    OBVIOUS
  <2>1. w.runs[t] \in Seq(Run) /\ \A i \in DOMAIN w.runs[t] : w.runs[t][i] \in Run
    BY RunsOf DEF Fit
  <2>2. \A i \in DOMAIN w.runs[t] : R[t][i] \in Run /\ Faded(w.runs[t][i], R[t][i])
    BY <1>2, <2>1
  <2> QED
    BY <2>1, <2>2, SameLength DEF AllFaded
<1>4. R \in [Task -> Seq(Run)]
  BY <1>3
<1> HIDE DEF R
<1>5. /\ OnlyRuns(w, v) /\ v.runs = R
      /\ v.limit = w.limit /\ v.attempts = w.attempts
  BY <1>4, RunsReplaced DEF Fit, World
<1> HIDE DEF v
<1> QED
  BY <1>1, <1>3, <1>5, FadingIsFit

\* w has become v, and no review has succeeded.
Calm(w, v) ==
    /\ Fit(v)
    /\ \A t \in Task :
        /\ DOMAIN v.runs[t] = DOMAIN w.runs[t]
        /\ \A i \in DOMAIN w.runs[t] :
            /\ Kept(w.runs[t][i], v.runs[t][i])
            /\ NoVerdict(w.runs[t][i], v.runs[t][i])

LEMMA CalmTransitive ==
    ASSUME NEW u, NEW w, NEW v, Calm(u, w), Calm(w, v)
    PROVE  Calm(u, v)
<1>1. Fit(v) /\ \A t \in Task : /\ DOMAIN w.runs[t] = DOMAIN u.runs[t]
                                /\ DOMAIN v.runs[t] = DOMAIN u.runs[t]
  BY DEF Calm
<1>2. \A t \in Task : \A i \in DOMAIN u.runs[t] :
        /\ Kept(u.runs[t][i], w.runs[t][i]) /\ NoVerdict(u.runs[t][i], w.runs[t][i])
        /\ Kept(w.runs[t][i], v.runs[t][i]) /\ NoVerdict(w.runs[t][i], v.runs[t][i])
  BY DEF Calm
<1>3. \A t \in Task : \A i \in DOMAIN u.runs[t] :
        Kept(u.runs[t][i], v.runs[t][i]) /\ NoVerdict(u.runs[t][i], v.runs[t][i])
  BY <1>2 DEF Kept, NoVerdict
<1> QED
  BY <1>1, <1>3 DEF Calm

LEMMA CalmPrepares ==
    ASSUME NEW w, NEW v, Calm(w, v)
    PROVE  Prepares(w, v)
BY DEF Calm, Prepares

LEMMA AroundIsCalm ==
    ASSUME NEW w, Fit(w), NEW v, Around(w, v)
    PROVE  Calm(w, v)
BY AroundIsFit DEF Calm, Around, Kept, NoVerdict

-----------------------------------------------------------------------------
(* One run is changed.                                                      *)

LEMMA ReplacedRuns ==
    ASSUME NEW w \in World, NEW t \in Task, NEW i \in DOMAIN w.runs[t],
           NEW run \in Run
    PROVE  LET v == [w EXCEPT !.runs[t][i] = run] IN
           /\ OnlyRuns(w, v) /\ v.limit = w.limit /\ v.attempts = w.attempts
           /\ v.dependencies = w.dependencies
           /\ \A x \in Task : DOMAIN v.runs[x] = DOMAIN w.runs[x]
           /\ \A x \in Task \ {t} : v.runs[x] = w.runs[x]
           /\ v.runs[t][i] = run
           /\ \A j \in (DOMAIN w.runs[t]) \ {i} : v.runs[t][j] = w.runs[t][j]
<1> DEFINE s == [w.runs[t] EXCEPT ![i] = run]
           R == [w.runs EXCEPT ![t] = s]
           v == [w EXCEPT !.runs = R]
<1>1. w.runs \in [Task -> Seq(Run)] /\ w.runs[t] \in Seq(Run)
  BY DEF World
<1>2. /\ s \in Seq(Run) /\ DOMAIN s = DOMAIN w.runs[t] /\ s[i] = run
      /\ \A j \in (DOMAIN w.runs[t]) \ {i} : s[j] = w.runs[t][j]
  BY <1>1
<1> HIDE DEF s
<1>3. /\ R \in [Task -> Seq(Run)] /\ R[t] = s
      /\ \A x \in Task \ {t} : R[x] = w.runs[x]
  BY <1>1, <1>2
<1> HIDE DEF R
<1>4. /\ OnlyRuns(w, v) /\ v.runs = R /\ v.limit = w.limit
      /\ v.attempts = w.attempts /\ v.dependencies = w.dependencies
  BY <1>3, RunsReplaced DEF World
<1>5. v = [w EXCEPT !.runs[t][i] = run]
  BY DEF R, s
<1> HIDE DEF v
<1> QED
  BY <1>2, <1>3, <1>4, <1>5

LEMMA OneFades ==
    ASSUME NEW w, Fit(w), NEW t \in Task, NEW i \in DOMAIN w.runs[t],
           NEW run \in Run, Faded(w.runs[t][i], run)
    PROVE  /\ Schedules(w, [w EXCEPT !.runs[t][i] = run])
           /\ Prepares(w, [w EXCEPT !.runs[t][i] = run])
<1> DEFINE v == [w EXCEPT !.runs[t][i] = run]
<1>1. /\ OnlyRuns(w, v) /\ v.limit = w.limit /\ v.attempts = w.attempts
      /\ \A x \in Task : DOMAIN v.runs[x] = DOMAIN w.runs[x]
      /\ \A x \in Task \ {t} : v.runs[x] = w.runs[x]
      /\ v.runs[t][i] = run
      /\ \A j \in (DOMAIN w.runs[t]) \ {i} : v.runs[t][j] = w.runs[t][j]
  BY ReplacedRuns DEF Fit
<1> HIDE DEF v
<1>2. \A old : Faded(old, old)
  BY DEF Faded
<1>3. \A x \in Task : AllFaded(w.runs[x], v.runs[x])
  BY <1>1, <1>2 DEF AllFaded
<1>4. Schedules(w, v)
  BY <1>1, <1>3, FadingIsFit
<1> QED
  BY <1>1, <1>4, FadingPrepares DEF v

\* A running run ends, or its attempt does.
Ends(old, new) ==
    /\ old.status = "running"
    /\ new.agent = old.agent /\ new.trigger = old.trigger
    /\ new.attempt = old.attempt /\ new.fingerprint = old.fingerprint
    /\ new.lease = "running" => old.lease = "running"
    /\ new.lease = "none" <=> old.lease = "none"
    /\ old.lease = "succeeded" => new.lease = "succeeded"

\* No executor names an input that a review names.
LEMMA ReviewsNameOthers ==
    ASSUME NEW d, NEW t, NEW one, NEW other, NamesInputs(d, t, one),
           NamesInputs(d, t, other), one.trigger = "graph_review",
           other.trigger # "graph_review"
    PROVE  one.fingerprint # other.fingerprint
<1> SUFFICES ASSUME one.fingerprint = other.fingerprint
             PROVE  FALSE
  OBVIOUS
<1>1. PICK part \in one.fingerprint : part \in EdgeId \X Nat /\ part \in InputPart
  BY DEF NamesInputs
<1>2. Len(part) = 2 /\ Len(part) = 3
  BY <1>1 DEF InputPart
<1> QED
  BY <1>2

LEMMA EndingIsFit ==
    ASSUME NEW w, Fit(w), NEW t \in Task, NEW i \in DOMAIN w.runs[t],
           NEW run \in Run, Ends(w.runs[t][i], run)
    PROVE  Fit([w EXCEPT !.runs[t][i] = run])
<1> DEFINE v == [w EXCEPT !.runs[t][i] = run]
<1>1. /\ OnlyRuns(w, v) /\ v.limit = w.limit /\ v.attempts = w.attempts
      /\ v.dependencies = w.dependencies
      /\ \A x \in Task : DOMAIN v.runs[x] = DOMAIN w.runs[x]
      /\ \A x \in Task \ {t} : v.runs[x] = w.runs[x]
      /\ v.runs[t][i] = run
      /\ \A j \in (DOMAIN w.runs[t]) \ {i} : v.runs[t][j] = w.runs[t][j]
  BY ReplacedRuns DEF Fit
<1> HIDE DEF v
<1>2. w \in World /\ v \in World
  BY <1>1 DEF OnlyRuns, Fit
<1> DEFINE s == w.runs[t]
           r == v.runs[t]
           n == w.attempts[t]
<1>3. /\ s \in Seq(Run) /\ n \in Nat /\ DOMAIN r = DOMAIN s /\ i \in DOMAIN s
      /\ Ends(s[i], r[i]) /\ \A j \in (DOMAIN s) \ {i} : r[j] = s[j]
  BY <1>1, <1>2, RunsOf
<1>4. /\ Orderly(s, n) /\ PresentInputs(w.dependencies, s)
      /\ \A j \in DOMAIN s : NamesInputs(w.dependencies, t, s[j])
  BY DEF Fit, RunsSound
<1> HIDE DEF s, r, n
<1>5. Numbered(r, n)
  BY <1>3, <1>4 DEF Orderly, Numbered, Ends
<1>6. NewestWorks(r)
  BY <1>3, <1>4 DEF Orderly, NewestWorks, Ends
<1>7. StartsAfterOthers(r)
  <2> SUFFICES ASSUME NEW j \in DOMAIN s, NEW k \in DOMAIN s, j < k,
                      r[k].trigger = "graph"
               PROVE  /\ r[j].trigger # "graph_review" => r[j].status # "running"
                      /\ r[j].fingerprint = r[k].fingerprint /\ r[k].lease # "none" =>
                            r[j].lease \in {"none", "paused"}
    BY <1>3 DEF StartsAfterOthers
  <2>1. /\ s[k].trigger = "graph" /\ s[j].trigger = r[j].trigger
        /\ r[j].fingerprint = s[j].fingerprint /\ r[k].fingerprint = s[k].fingerprint
        /\ s[k].lease = "none" <=> r[k].lease = "none"
    BY <1>3 DEF Ends
  <2>2. /\ s[j].trigger # "graph_review" => s[j].status # "running"
        /\ s[j].fingerprint = s[k].fingerprint /\ s[k].lease # "none" =>
                s[j].lease \in {"none", "paused"}
    BY <2>1, <1>4 DEF Orderly, StartsAfterOthers
  <2>3. CASE j # i
    BY <2>1, <2>2, <2>3, <1>3
  <2>4. CASE j = i
    <3>1. s[j].trigger = "graph_review"
      BY <2>2, <2>4, <1>3 DEF Ends
    <3>2. s[j].fingerprint # s[k].fingerprint
      BY <3>1, <2>1, <1>4, ReviewsNameOthers
    <3> QED
      BY <2>1, <3>1, <3>2
  <2> QED
    BY <2>3, <2>4
<1>8. PresentInputs(w.dependencies, r)
  <2> SUFFICES ASSUME NEW k \in DOMAIN s, r[k].lease = "running", First(r, k)
               PROVE  IsPresent(w.dependencies, r[k].fingerprint)
    BY <1>3 DEF PresentInputs
  <2>1. /\ s[k].lease = "running"
        /\ \A j \in DOMAIN s : /\ r[j].fingerprint = s[j].fingerprint
                               /\ r[j].lease = "none" <=> s[j].lease = "none"
    BY <1>3 DEF Ends
  <2>2. \A j \in 1..(k - 1) : j \in DOMAIN s
    BY <1>3, RunsAreRuns
  <2>3. First(s, k)
    BY <2>1, <2>2 DEF First
  <2> QED
    BY <2>1, <2>3, <1>4 DEF PresentInputs
<1>9. \A j \in DOMAIN s : NamesInputs(w.dependencies, t, r[j])
  BY <1>3, <1>4 DEF NamesInputs, Ends
<1>10. RunsSound(v)
  <2>1. \A x \in Task \ {t} :
            /\ Orderly(v.runs[x], v.attempts[x])
            /\ \A j \in DOMAIN v.runs[x] : NamesInputs(v.dependencies, x, v.runs[x][j])
            /\ PresentInputs(v.dependencies, v.runs[x])
    BY <1>1 DEF Fit, RunsSound
  <2> QED
    BY <2>1, <1>1, <1>3, <1>5, <1>6, <1>7, <1>8, <1>9 DEF RunsSound, Orderly, r, s, n
<1>11. WithinLimits(v)
  <2>1. \A x \in Task : \A j \in DOMAIN w.runs[x] :
            /\ v.runs[x][j].agent = w.runs[x][j].agent
            /\ v.runs[x][j].status = "running" => w.runs[x][j].status = "running"
    BY <1>1 DEF Ends
  <2> QED
    BY <2>1, <1>1, <1>2, FewerRunning DEF Fit
<1> QED
  BY <1>2, <1>10, <1>11 DEF Fit, v

\* A running executor of the graph without an attempt takes one.
Takes(w, t, i, run) ==
    LET old == w.runs[t][i] IN
    /\ old.status = "running" /\ old.trigger = "graph" /\ old.lease = "none"
    /\ Claimable(w, t, InputFingerprint(w, t))
    /\ run.agent = old.agent /\ run.trigger = old.trigger
    /\ run.status = old.status /\ run.lease = "running"
    /\ run.attempt = NextAttempt(w, t)
    /\ run.fingerprint = InputFingerprint(w, t)

Taken(w, t, i, run) ==
    [w EXCEPT !.runs = [w.runs EXCEPT ![t] = [w.runs[t] EXCEPT ![i] = run]],
              !.attempts = [w.attempts EXCEPT ![t] = NextAttempt(w, t)]]

LEMMA TakingIsFit ==
    ASSUME NEW w, Fit(w), NEW t \in Task, NEW i \in DOMAIN w.runs[t],
           NEW run \in Run, Takes(w, t, i, run)
    PROVE  /\ Calm(w, Taken(w, t, i, run))
           /\ Taken(w, t, i, run).runs[t][i] = run
<1> DEFINE
    s == w.runs[t]
    n == w.attempts[t]
    r == [s EXCEPT ![i] = run]
    R == [w.runs EXCEPT ![t] = r]
    A == [w.attempts EXCEPT ![t] = NextAttempt(w, t)]
    v == [w EXCEPT !.runs = R, !.attempts = A]
<1>1. /\ w \in World /\ w.runs \in [Task -> Seq(Run)] /\ w.attempts \in [Task -> Nat]
      /\ s \in Seq(Run) /\ n \in Nat
  BY DEF Fit, World
<1>2. /\ r \in Seq(Run) /\ DOMAIN r = DOMAIN s /\ r[i] = run /\ i \in DOMAIN s
      /\ \A j \in (DOMAIN s) \ {i} : r[j] = s[j]
  BY <1>1
<1>3. /\ s[i].trigger = "graph" /\ s[i].status = "running" /\ s[i].lease = "none"
      /\ run.trigger = "graph" /\ run.lease = "running"
      /\ run.attempt = n + 1 /\ run.fingerprint = InputFingerprint(w, t)
  BY DEF NextAttempt, Takes
<1>4. /\ Orderly(s, n) /\ PresentInputs(w.dependencies, s)
      /\ \A j \in DOMAIN s : NamesInputs(w.dependencies, t, s[j])
  BY DEF Fit, RunsSound
<1>5. \A j \in DOMAIN s : s[j].fingerprint = run.fingerprint =>
            s[j].lease \in {"none", "paused"}
  BY <1>1, ClaimableInputs DEF Takes
<1>6. Kept(s[i], run) /\ NoVerdict(s[i], run)
  BY <1>3 DEF Kept, NoVerdict, Takes
<1>7. NextAttempt(w, t) = n + 1
  BY DEF NextAttempt
<1> HIDE DEF s, r, n
<1>8. /\ R \in [Task -> Seq(Run)] /\ R[t] = r /\ \A x \in Task \ {t} : R[x] = w.runs[x]
      /\ A \in [Task -> Nat] /\ A[t] = n + 1
      /\ \A x \in Task \ {t} : A[x] = w.attempts[x]
  BY <1>1, <1>2, <1>7
<1> HIDE DEF R, A
<1>9. /\ OnlyRuns(w, v) /\ v.runs = R /\ v.attempts = A /\ v.limit = w.limit
      /\ v.dependencies = w.dependencies
  BY <1>1, <1>8, RunsAndAttemptsReplaced DEF World
<1> HIDE DEF v
<1>10. Numbered(r, n + 1)
  <2>1. \A j \in DOMAIN s : s[j].attempt \in Nat /\ s[j].attempt <= n
    BY <1>1, <1>4, RunsAreRuns DEF Orderly, Numbered
  <2>2. \A j \in DOMAIN s :
            /\ s[j].lease = "none" <=> s[j].attempt = 0
            /\ \A k \in DOMAIN s :
                s[j].attempt = s[k].attempt /\ s[j].attempt # 0 => j = k
    BY <1>4 DEF Orderly, Numbered
  <2>3. /\ n + 1 \in Nat /\ n + 1 # 0
        /\ \A j \in DOMAIN s : s[j].attempt <= n + 1 /\ s[j].attempt # n + 1
    BY <2>1, <1>1
  <2>4. r[i] = run /\ run.attempt = n + 1 /\ run.lease = "running"
    BY <1>2, <1>3
  <2> QED
    BY <2>2, <2>3, <2>4, <1>2 DEF Numbered
<1>11. NewestWorks(r)
  <2>1. \A j \in DOMAIN s : s[j].attempt \in Nat /\ s[j].attempt <= n
    BY <1>1, <1>4, RunsAreRuns DEF Orderly, Numbered
  <2> SUFFICES ASSUME NEW j \in DOMAIN s, NEW k \in DOMAIN s,
                      r[j].fingerprint = r[k].fingerprint,
                      r[j].attempt # 0, r[j].attempt < r[k].attempt
               PROVE  r[j].lease # "running"
    BY <1>2 DEF NewestWorks
  <2>2. j # i
    <3>1. r[k].attempt = n + 1 \/ (r[k].attempt \in Nat /\ r[k].attempt <= n)
      BY <2>1, <1>2, <1>3
    <3>2. ~(n + 1 < r[k].attempt)
      BY <3>1, <1>1
    <3> QED
      BY <3>2, <1>2, <1>3
  <2>3. CASE k = i
    BY <2>2, <2>3, <1>2, <1>5
  <2>4. CASE k # i
    BY <2>2, <2>4, <1>2, <1>4 DEF Orderly, NewestWorks
  <2> QED
    BY <2>3, <2>4
<1>12. StartsAfterOthers(r)
  <2> SUFFICES ASSUME NEW j \in DOMAIN s, NEW k \in DOMAIN s, j < k,
                      r[k].trigger = "graph"
               PROVE  /\ r[j].trigger # "graph_review" => r[j].status # "running"
                      /\ r[j].fingerprint = r[k].fingerprint /\ r[k].lease # "none" =>
                            r[j].lease \in {"none", "paused"}
    BY <1>2 DEF StartsAfterOthers
  <2>1. s[k].trigger = "graph"
    BY <1>2, <1>3
  <2>2. s[j].trigger # "graph_review" => s[j].status # "running"
    BY <2>1, <1>4 DEF Orderly, StartsAfterOthers
  <2>3. j # i
    BY <2>2, <1>3
  <2>4. CASE k = i
    BY <2>2, <2>3, <2>4, <1>2, <1>5
  <2>5. CASE k # i
    BY <2>3, <2>5, <1>2, <1>4 DEF Orderly, StartsAfterOthers
  <2> QED
    BY <2>4, <2>5
<1>13. PresentInputs(w.dependencies, r)
  <2> SUFFICES ASSUME NEW k \in DOMAIN s, r[k].lease = "running", First(r, k)
               PROVE  IsPresent(w.dependencies, r[k].fingerprint)
    BY <1>2 DEF PresentInputs
  <2>1. CASE k = i
    BY <2>1, <1>1, <1>2, <1>3, InputsArePresent
  <2>2. CASE k # i
    <3>1. \A j \in 1..(k - 1) : j \in DOMAIN s
      BY <1>1, RunsAreRuns
    <3>2. First(s, k)
      BY <2>2, <3>1, <1>2, <1>3 DEF First
    <3> QED
      BY <2>2, <3>2, <1>2, <1>4 DEF PresentInputs
  <2> QED
    BY <2>1, <2>2
<1>14. \A j \in DOMAIN s : NamesInputs(w.dependencies, t, r[j])
  <2>1. NamesInputs(w.dependencies, t, run)
    BY <1>1, <1>3, InputsArePresent DEF NamesInputs
  <2> QED
    BY <2>1, <1>2, <1>4
<1>15. RunsSound(v)
  <2>1. \A x \in Task \ {t} :
            /\ Orderly(v.runs[x], v.attempts[x])
            /\ \A j \in DOMAIN v.runs[x] : NamesInputs(v.dependencies, x, v.runs[x][j])
            /\ PresentInputs(v.dependencies, v.runs[x])
    BY <1>8, <1>9 DEF Fit, RunsSound
  <2> QED
    BY <2>1, <1>2, <1>8, <1>9, <1>10, <1>11, <1>12, <1>13, <1>14 DEF RunsSound, Orderly
<1>16. \A x \in Task : DOMAIN v.runs[x] = DOMAIN w.runs[x]
  BY <1>2, <1>8, <1>9 DEF s
<1>17. \A x \in Task : \A j \in DOMAIN w.runs[x] :
            \/ v.runs[x][j] = w.runs[x][j]
            \/ x = t /\ j = i /\ v.runs[x][j] = run
  BY <1>2, <1>8, <1>9 DEF s
<1>18. WithinLimits(v)
  <2>1. w \in World /\ WithinLimits(w) /\ v \in World /\ v.limit = w.limit
    BY <1>9 DEF Fit, OnlyRuns
  <2>2. \A x \in Task : \A j \in DOMAIN w.runs[x] :
            /\ v.runs[x][j].agent = w.runs[x][j].agent
            /\ v.runs[x][j].status = "running" => w.runs[x][j].status = "running"
    BY <1>17 DEF Takes
  <2> QED
    BY <1>16, <2>1, <2>2, FewerRunning
<1>19. Fit(v)
  BY <1>9, <1>15, <1>18 DEF Fit, OnlyRuns
<1>20. Calm(w, v)
  BY <1>6, <1>16, <1>17, <1>19 DEF Calm, Kept, NoVerdict, s
<1> QED
  BY <1>2, <1>8, <1>9, <1>20 DEF v, R, A, r, s, Taken

LEMMA EnsureAttemptIsCalm ==
    ASSUME NEW w, Sound(w), Fit(w), NEW t \in Task, NEW i \in DOMAIN w.runs[t],
           w.runs[t][i].status = "running"
    PROVE  LET v == EnsureAttempt(w, t, i) IN
           /\ Calm(w, v)
           /\ v.runs[t][i].status = "running"
           /\ v.dependencies = w.dependencies
<1> DEFINE
    old == w.runs[t][i]
    run == [old EXCEPT !.lease = "running",
                       !.attempt = NextAttempt(w, t),
                       !.fingerprint = InputFingerprint(w, t)]
<1>1. w \in World /\ w.runs \in [Task -> Seq(Run)] /\ w.runs[t] \in Seq(Run)
  BY DEF Sound, World
<1>2. old \in Run
  BY <1>1
<1>3. /\ "running" \in Lease /\ NextAttempt(w, t) \in Nat
      /\ InputFingerprint(w, t) \in Fingerprint
  BY <1>1, AttemptsAreNumbered, FingerprintsAreTyped DEF Lease
<1>4. run \in Run
  BY <1>2, <1>3, RunChanged DEF Run
<1>5. \/ EnsureAttempt(w, t, i) = w
      \/ /\ EnsureAttempt(w, t, i) = Taken(w, t, i, run)
         /\ old.lease = "none" /\ old.trigger = "graph"
         /\ Claimable(w, t, InputFingerprint(w, t))
  BY <1>1, <1>2 DEF EnsureAttempt, World, Run, Taken
<1>6. /\ run.agent = old.agent /\ run.trigger = old.trigger
      /\ run.status = old.status /\ run.lease = "running"
      /\ run.attempt = NextAttempt(w, t)
      /\ run.fingerprint = InputFingerprint(w, t)
  BY <1>2 DEF Run
<1>7. Taken(w, t, i, run).dependencies = w.dependencies
  BY <1>1 DEF World, Taken
<1>8. Calm(w, w)
  BY DEF Calm, Kept, NoVerdict
<1> HIDE DEF run
<1>9. ASSUME old.lease = "none", old.trigger = "graph",
             Claimable(w, t, InputFingerprint(w, t))
      PROVE  /\ Calm(w, Taken(w, t, i, run))
             /\ Taken(w, t, i, run).runs[t][i] = run
  <2>1. Takes(w, t, i, run)
    BY <1>6, <1>9 DEF Takes
  <2> QED
    BY <1>4, <2>1, TakingIsFit
<1> QED
  BY <1>5, <1>6, <1>7, <1>8, <1>9

LEMMA SessionEndedIsCalm ==
    ASSUME NEW w, Sound(w), Fit(w), NEW t \in Task, NEW i \in DOMAIN w.runs[t],
           w.runs[t][i].status = "running", NEW ok \in BOOLEAN
    PROVE  Calm(w, SessionEnded(w, t, i, ok))
<1> DEFINE
    run == w.runs[t][i]
    isReview == run.trigger = "graph_review"
    completes == ~(ok /\ isReview) /\ run.lease \notin {"none", "succeeded", "failed"}
    lease == IF completes THEN (IF ok THEN "succeeded" ELSE "failed")
             ELSE IF ok /\ isReview /\ run.lease = "running" THEN "paused"
             ELSE run.lease
    status == IF ok THEN "completed" ELSE "failed"
    new == [run EXCEPT !.lease = lease, !.status = status]
    ended == [w EXCEPT !.runs[t][i] = new]
<1>1. w \in World /\ w.runs \in [Task -> Seq(Run)] /\ w.runs[t] \in Seq(Run)
  BY DEF Sound, World
<1>2. run \in Run /\ run.status = "running"
  BY <1>1
<1>3. lease \in Lease /\ status \in RunStatus
  BY <1>2 DEF Run, Lease, RunStatus
<1>4. SessionEnded(w, t, i, ok) = IF completes /\ ok THEN MarkSucceeded(ended, t) ELSE ended
  BY <1>1 DEF SessionEnded, World
<1>5. /\ lease = "running" => run.lease = "running"
      /\ lease = "none" <=> run.lease = "none"
      /\ run.lease = "succeeded" => lease = "succeeded"
      /\ run.trigger = "graph_review" /\ lease = "succeeded" => run.lease = "succeeded"
  OBVIOUS
<1> HIDE DEF completes, lease, status
<1>6. new \in Run
  BY <1>2, <1>3, RunChanged DEF Run
<1>7. /\ new.agent = run.agent /\ new.trigger = run.trigger /\ new.lease = lease
      /\ new.attempt = run.attempt /\ new.fingerprint = run.fingerprint
  BY <1>2 DEF Run
<1> HIDE DEF new
<1>8. Ends(run, new) /\ Kept(run, new) /\ NoVerdict(run, new)
  BY <1>2, <1>5, <1>7 DEF Ends, Kept, NoVerdict
<1>9. /\ \A x \in Task : DOMAIN ended.runs[x] = DOMAIN w.runs[x]
      /\ \A x \in Task \ {t} : ended.runs[x] = w.runs[x]
      /\ ended.runs[t][i] = new
      /\ \A j \in (DOMAIN w.runs[t]) \ {i} : ended.runs[t][j] = w.runs[t][j]
  BY <1>1, <1>6, ReplacedRuns
<1>10. Fit(ended)
  BY <1>6, <1>8, EndingIsFit
<1>11. Sound(ended)
  BY <1>6, RunReplacedIsSound
<1> HIDE DEF ended
<1>12. Calm(w, ended)
  <2>1. \A x \in Task : \A j \in DOMAIN w.runs[x] :
            ended.runs[x][j] = w.runs[x][j] \/ (x = t /\ j = i)
    BY <1>9
  <2> QED
    BY <2>1, <1>8, <1>9, <1>10 DEF Calm, Kept, NoVerdict
<1>13. Calm(w, MarkSucceeded(ended, t))
  <2>1. Around(ended, ended)
    BY <1>10, AroundReflexive DEF Fit
  <2>2. Around(ended, MarkSucceeded(ended, t))
    BY <1>11, <2>1, SuccessAround
  <2> QED
    BY <1>10, <1>12, <2>2, AroundIsCalm, CalmTransitive
<1> QED
  BY <1>4, <1>12, <1>13

-----------------------------------------------------------------------------
(* Every action advances the runs.                                          *)

LEMMA PreparedAlone ==
    ASSUME NEW w, NEW v, Prepares(w, v)
    PROVE  Advances(w, v)
BY SchedulesReflexive, PreparedAndScheduled DEF Prepares

LEMMA AroundAdvances ==
    ASSUME NEW u, Fit(u), NEW w, Around(u, w), NEW v, Schedules(w, v)
    PROVE  Advances(u, v)
BY AroundPrepares, PreparedAndScheduled

LEMMA ScheduledAlone ==
    ASSUME NEW w, Fit(w), NEW v, Schedules(w, v)
    PROVE  Advances(w, v)
BY AroundReflexive, AroundAdvances DEF Fit

LEMMA AfterMessageIsFit ==
    ASSUME NEW w, Fit(w), NEW t, NEW i, NEW v \in AfterMessage(w, t, i)
    PROVE  Schedules(w, v)
<1>1. CASE v \in Reconcile(w)
  BY <1>1, ReconcileIsFit
<1>2. CASE \E x \in Reconcile(w) : v \in ReconcileWorkspace(x)
  <2>1. PICK x \in Reconcile(w) : v \in ReconcileWorkspace(x)
    BY <1>2
  <2>2. Schedules(w, x) /\ Fit(x)
    BY ReconcileIsFit DEF Schedules
  <2>3. Schedules(x, v)
    BY <2>1, <2>2, ReconcileWorkspaceIsFit
  <2> QED
    BY <2>2, <2>3, SchedulesTransitive
<1> QED
  BY <1>1, <1>2 DEF AfterMessage

LEMMA SetTaskStatusAdvances ==
    ASSUME IInv, Fit(world), NEW t \in Task, NEW s \in Status, SetTaskStatus(t, s)
    PROVE  Advances(world, world')
<1> DEFINE marked == WithStatus(world, t, s)
           w == IF s = "done" THEN MarkSucceeded(marked, t) ELSE marked
           synced == SyncIssueBlockerHold(w, IssueBlockingIds(w, t))
<1>1. Around(world, w)
  <2>1. Around(world, marked) /\ Sound(marked)
    BY StatusAround, WithStatusIsSound DEF IInv
  <2> HIDE DEF marked
  <2> QED
    BY <2>1, SuccessAround
<1>2. PICK x \in Reconcile(synced) : world' \in Release(x, WouldRelease(w, t))
  BY DEF SetTaskStatus
<1> HIDE DEF w
<1>3. Around(world, synced)
  BY <1>1, SyncAround
<1> HIDE DEF synced
<1>4. WouldRelease(w, t) \in SUBSET Task
  BY DEF WouldRelease, IssueBlockingIds
<1>5. Schedules(synced, x) /\ Fit(x)
  BY <1>2, <1>3, AroundIsFit, ReconcileIsFit DEF Schedules
<1>6. Schedules(x, world')
  BY <1>2, <1>4, <1>5, ReleaseIsFit
<1> QED
  BY <1>3, <1>5, <1>6, SchedulesTransitive, AroundAdvances

LEMMA ReorderTasksAdvances ==
    ASSUME IInv, Fit(world), NEW T \in SUBSET Task, NEW s \in Status, ReorderTasks(T, s)
    PROVE  Advances(world, world')
<1>1. world' \in World
  BY ReorderTasksIsSound DEF Sound
<1>2. Around(world, world')
  BY <1>1 DEF ReorderTasks, Reordered, Fit, World, Around, EdgesKeep
<1> QED
  BY <1>2, AroundIsFit, SchedulesReflexive, AroundAdvances

LEMMA SyncGithubPullRequestsAdvances ==
    ASSUME IInv, Fit(world), NEW D \in SUBSET Task, SyncGithubPullRequests(D)
    PROVE  Advances(world, world')
<1>1. PICK W : Completed(world, D) =
        SyncIssueBlockerHold(
            [SyncIssueBlockerHold(world, W) EXCEPT
                !.status = [t \in Task |-> IF t \in D THEN "done" ELSE @[t]],
                !.blocked_reason = [t \in Task |-> IF t \in D THEN "none" ELSE @[t]],
                !.moved = @ \ D],
            UNION {IssueBlockingIds(world, t) : t \in D})
  BY DEF Completed
<1> DEFINE between == SyncIssueBlockerHold(world, W)
           done == [between EXCEPT
                      !.status = [t \in Task |-> IF t \in D THEN "done" ELSE @[t]],
                      !.blocked_reason = [t \in Task |-> IF t \in D THEN "none" ELSE @[t]],
                      !.moved = @ \ D]
<1>2. Sound(between) /\ Around(world, between)
  BY AroundReflexive, SyncAround, SyncIsSound DEF Fit, IInv
<1> HIDE DEF between
<1>3. Sound(done)
  BY <1>2, DoneIsSound
<1>4. /\ done.runs = between.runs /\ done.attempts = between.attempts
      /\ done.limit = between.limit /\ done.dependencies = between.dependencies
  BY <1>2 DEF Sound, World
<1> HIDE DEF done
<1>5. Around(world, done)
  BY <1>2, <1>3, <1>4 DEF Around, EdgesKeep, Sound
<1>6. Around(world, Completed(world, D))
  BY <1>1, <1>5, SyncAround DEF between, done
<1>7. ReleasedBy(world, D) \in SUBSET Task
  BY DEF ReleasedBy, IssueBlockingIds
<1> QED
  BY <1>6, <1>7, AroundIsFit, ReleaseIsFit, AroundAdvances DEF SyncGithubPullRequests

LEMMA DeleteTaskAdvances ==
    ASSUME IInv, Fit(world), NEW t \in Task, DeleteTask(t)
    PROVE  Advances(world, world')
<1> DEFINE w == [world EXCEPT !.deleted = @ \union {t}]
           B == {p \in w.issue_blockers : t \notin {p[1], p[2]}}
           cut == [w EXCEPT !.issue_blockers = B]
           synced == SyncIssueBlockerHold(cut, IssueBlockingIds(w, t))
<1>1. Finish(synced, WouldRelease(w, t))
  BY DEF DeleteTask
<1>2. B \in SUBSET (Task \X Task) /\ world \in World
  BY DEF Fit, World
<1> HIDE DEF B
<1>3. /\ cut \in World /\ cut.runs = world.runs /\ cut.attempts = world.attempts
      /\ cut.limit = world.limit /\ cut.dependencies = world.dependencies
  BY <1>2 DEF World
<1>4. Around(world, cut)
  BY <1>3 DEF Around, EdgesKeep
<1> HIDE DEF cut, w
<1>5. Around(world, synced)
  BY <1>4, SyncAround
<1> HIDE DEF synced
<1>6. WouldRelease(w, t) \in SUBSET Task
  BY DEF WouldRelease, IssueBlockingIds
<1> QED
  BY <1>1, <1>5, <1>6, AroundIsFit, FinishIsFit, AroundAdvances

LEMMA BlockersAround ==
    ASSUME NEW w \in World, NEW B \in SUBSET (Task \X Task)
    PROVE  Around(w, [w EXCEPT !.issue_blockers = B])
<1> DEFINE v == [w EXCEPT !.issue_blockers = B]
<1>1. /\ v \in World /\ v.runs = w.runs /\ v.attempts = w.attempts
      /\ v.limit = w.limit /\ v.dependencies = w.dependencies
  BY DEF World
<1> QED
  BY <1>1 DEF Around, EdgesKeep

LEMMA AddIssueBlockerAdvances ==
    ASSUME IInv, Fit(world), NEW t \in Task, NEW b \in Task, AddIssueBlocker(t, b)
    PROVE  Advances(world, world')
<1> DEFINE nobody == {}
<1>1. CASE Finish(world, nobody)
  <2>1. nobody \in SUBSET Task
    OBVIOUS
  <2> HIDE DEF nobody
  <2> QED
    BY <1>1, <2>1, FinishIsFit, ScheduledAlone
<1>2. CASE Finish(SyncIssueBlockerHold(
                    [world EXCEPT !.issue_blockers = @ \union {<<t, b>>}], {t}), nobody)
  <2> DEFINE B == world.issue_blockers \union {<<t, b>>}
             w == [world EXCEPT !.issue_blockers = B]
             synced == SyncIssueBlockerHold(w, {t})
  <2>1. B \in SUBSET (Task \X Task) /\ world \in World
    <3>1. world \in World
      BY DEF Fit
    <3>2. world.issue_blockers \in SUBSET (Task \X Task)
      BY <3>1 DEF World
    <3>3. <<t, b>> \in Task \X Task
      OBVIOUS
    <3> QED
      BY <3>1, <3>2, <3>3
  <2>2. Finish(synced, nobody) /\ nobody \in SUBSET Task
    BY <1>2
  <2> HIDE DEF B, nobody
  <2>3. Around(world, w)
    BY <2>1, BlockersAround
  <2> HIDE DEF w
  <2>4. Around(world, synced)
    BY <2>3, SyncAround
  <2> HIDE DEF synced
  <2> QED
    BY <2>2, <2>4, AroundIsFit, FinishIsFit, AroundAdvances
<1> QED
  BY <1>1, <1>2 DEF AddIssueBlocker

LEMMA RemoveIssueBlockerAdvances ==
    ASSUME IInv, Fit(world), NEW t \in Task, NEW b \in Task, RemoveIssueBlocker(t, b)
    PROVE  Advances(world, world')
<1> DEFINE B == world.issue_blockers \ {<<t, b>>}
           w == [world EXCEPT !.issue_blockers = B]
           synced == SyncIssueBlockerHold(w, {t})
           released == WouldRelease(world, b) \intersect {t}
<1>1. B \in SUBSET (Task \X Task) /\ world \in World
  BY DEF Fit, World
<1>2. Finish(synced, released) /\ released \in SUBSET Task
  BY DEF RemoveIssueBlocker
<1> HIDE DEF B, released
<1>3. Around(world, w)
  BY <1>1, BlockersAround
<1> HIDE DEF w
<1>4. Around(world, synced)
  BY <1>3, SyncAround
<1> HIDE DEF synced
<1> QED
  BY <1>2, <1>4, AroundIsFit, FinishIsFit, AroundAdvances

LEMMA SetWorkspaceConductorAdvances ==
    ASSUME IInv, Fit(world), NEW c \in Agent \union {NoAgent}, SetWorkspaceConductor(c)
    PROVE  Advances(world, world')
<1> DEFINE w == [world EXCEPT !.conductor = c]
           nobody == {}
<1>1. /\ w \in World /\ w.runs = world.runs /\ w.attempts = world.attempts
      /\ w.limit = world.limit /\ w.dependencies = world.dependencies
  BY DEF Fit, World
<1>2. Finish(w, nobody) /\ nobody \in SUBSET Task
  BY DEF SetWorkspaceConductor
<1> HIDE DEF w, nobody
<1>3. Around(world, w)
  BY <1>1 DEF Around, EdgesKeep
<1> QED
  BY <1>2, <1>3, AroundIsFit, FinishIsFit, AroundAdvances

LEMMA DeclareDependencyAdvances ==
    ASSUME IInv, Fit(world), NEW e \in EdgeId, NEW s \in Task, NEW t \in Task,
           NEW kind \in EdgeKind, DeclareDependency(e, s, t, kind)
    PROVE  Advances(world, world')
<1>1. PICK w \in Recorded(world, e, s, t, kind) : world' \in Reconcile(w)
  BY DEF DeclareDependency
<1>2. Around(world, w)
  BY <1>1, RecordedAround DEF DeclareDependency, Fit
<1> QED
  BY <1>1, <1>2, AroundIsFit, ReconcileIsFit, AroundAdvances

LEMMA ReaffirmDependencyAdvances ==
    ASSUME IInv, Fit(world), NEW e \in Live(world), ReaffirmDependency(e)
    PROVE  Advances(world, world')
<1> DEFINE w == Reaffirmed(world, e)
           T == {world.dependencies[e].target}
<1>1. PICK x \in Reconcile(w) : world' \in DispatchReady(x, T)
  BY DEF ReaffirmDependency
<1>2. T \in SUBSET Task
  BY DEF IInv, Sound, World, Live, Edge
<1>3. w = Decided(world, e, "reaffirm") /\ "reaffirm" \in Decision
  BY DEF Decided, Decision
<1>4. Around(world, w)
  BY <1>3, DecidedAround DEF IInv
<1> HIDE DEF w, T
<1>5. Schedules(w, x) /\ Fit(x)
  BY <1>1, <1>4, AroundIsFit, ReconcileIsFit DEF Schedules
<1>6. Schedules(x, world')
  BY <1>1, <1>2, <1>5, DispatchReadyIsFit
<1> QED
  BY <1>4, <1>5, <1>6, SchedulesTransitive, AroundAdvances

LEMMA RemoveDependencyAdvances ==
    ASSUME IInv, Fit(world), NEW e \in Live(world), RemoveDependency(e)
    PROVE  Advances(world, world')
<1>1. Without(world, e) = Decided(world, e, "remove") /\ "remove" \in Decision
  BY DEF Decided, Decision
<1>2. Around(world, Without(world, e))
  BY <1>1, DecidedAround DEF IInv
<1>3. world' \in Reconcile(Without(world, e))
  BY DEF RemoveDependency
<1> QED
  BY <1>2, <1>3, AroundIsFit, ReconcileIsFit, AroundAdvances

LEMMA ValidationDecisionAdvances ==
    ASSUME IInv, Fit(world), NEW e \in Live(world), NEW choice \in Decision,
           ValidationDecision(e, choice)
    PROVE  Advances(world, world')
<1> DEFINE w == Decided(world, e, choice)
           nobody == {}
<1>1. Around(world, w)
  BY DecidedAround DEF IInv
<1>2. Finish(w, nobody) /\ nobody \in SUBSET Task
  BY DEF ValidationDecision
<1> HIDE DEF w, nobody
<1> QED
  BY <1>1, <1>2, AroundIsFit, FinishIsFit, AroundAdvances

LEMMA OneStart ==
    ASSUME NEW w, Fit(w), NEW t \in Task, NEW run, MayJoin(w, t, run),
           FreeSlots(w, run.agent) > 0
    PROVE  Schedules(w, Started(w, [x \in {t} |-> run]))
<1> DEFINE one == [x \in {t} |-> run]
<1>1. DOMAIN one = {t} /\ one[t] = run
  OBVIOUS
<1> HIDE DEF one
<1>2. Counted(w, one)
  <2> SUFFICES ASSUME NEW a \in Agent
               PROVE  Cardinality({x \in DOMAIN one : one[x].agent = a}) <= FreeSlots(w, a)
    BY DEF Counted
  <2> DEFINE mine == {x \in DOMAIN one : one[x].agent = a}
  <2>1. CASE run.agent = a
    <3>1. mine = {t}
      BY <2>1, <1>1
    <3> HIDE DEF mine
    <3>2. Cardinality(mine) = 1
      BY <3>1, FS_Singleton
    <3> QED
      BY <2>1, <3>2, FreeSlotsAreNumbers DEF mine
  <2>2. CASE run.agent # a
    <3>1. mine = {}
      BY <2>2, <1>1
    <3> HIDE DEF mine
    <3>2. Cardinality(mine) = 0
      BY <3>1, FS_EmptySet
    <3> QED
      BY <3>2, FreeSlotsAreNumbers DEF mine
  <2> QED
    BY <2>1, <2>2
<1> QED
  BY <1>1, <1>2, StartingIsFit DEF one

LEMMA StartRunAdvances ==
    ASSUME IInv, Fit(world), NEW t \in Task, NEW a \in Agent, StartRun(t, a)
    PROVE  Advances(world, world')
<1> DEFINE run == NewRun(a, "issue", 0, {})
<1>1. run \in Run
  BY NewRunsAreTyped DEF Trigger, Fingerprint
<1>2. /\ run.lease = "none" /\ run.attempt = 0 /\ run.fingerprint = {}
      /\ run.trigger = "issue" /\ run.agent = a
  BY DEF NewRun
<1>3. /\ world' = Started(world, [x \in {t} |-> run])
      /\ FreeSlots(world, a) > 0 /\ MayStart(world, t, FALSE)
  BY DEF StartRun
<1> HIDE DEF run
<1>4. MayJoin(world, t, run)
  BY <1>1, <1>2, <1>3 DEF MayJoin, InOrder, PresentOrTried, NamesInputs, Gated, MayStart
<1> QED
  BY <1>2, <1>3, <1>4, OneStart, ScheduledAlone

LEMMA CancelRunAdvances ==
    ASSUME IInv, Fit(world), NEW t \in Task, NEW i \in DOMAIN world.runs[t],
           CancelRun(t, i)
    PROVE  Advances(world, world')
<1> DEFINE
    run == world.runs[t][i]
    lease == IF run.lease = "running" THEN "cancelled" ELSE run.lease
    new == [run EXCEPT !.status = "cancelled", !.lease = lease]
<1>1. lease \in Lease /\ "cancelled" \in RunStatus /\ run \in Run
  BY RunsAreTyped DEF Run, Lease, RunStatus
<1>2. new \in Run
  <2> HIDE DEF lease
  <2> QED
    BY <1>1, RunChanged DEF Run
<1>3. world' = [world EXCEPT !.runs[t][i] = new] /\ run.status \in {"running", "paused"}
  <2>1. "runs" \in DOMAIN world /\ t \in DOMAIN world.runs
    BY DEF IInv, Sound, World
  <2>2. "status" \in DOMAIN run /\ "lease" \in DOMAIN run
    BY <1>1 DEF Run
  <2> QED
    BY <2>1, <2>2 DEF CancelRun
<1>4. /\ new.agent = run.agent /\ new.trigger = run.trigger
      /\ new.attempt = run.attempt /\ new.fingerprint = run.fingerprint
      /\ new.lease = lease /\ new.status = "cancelled"
  BY <1>1 DEF Run
<1> HIDE DEF new
<1>5. Faded(run, new)
  BY <1>3, <1>4 DEF Faded
<1> QED
  BY <1>2, <1>3, <1>5, OneFades, ScheduledAlone

LEMMA ApplyPatchConflictAdvances ==
    ASSUME IInv, Fit(world), NEW t \in Task, ApplyPatchConflict(t)
    PROVE  Advances(world, world')
<1>1. Around(world, world')
  BY AroundReflexive, HoldAround DEF ApplyPatchConflict, Fit
<1> QED
  BY <1>1, AroundPrepares, PreparedAlone

LEMMA ApplyPatchAdvances ==
    ASSUME IInv, Fit(world), NEW t \in Task, ApplyPatch(t)
    PROVE  Advances(world, world')
<1> DEFINE w == Invalidated(world, t)
           T == LiveConsumers(world, t)
<1>1. Prepares(world, w)
  BY InvalidatedPrepares DEF IInv
<1>2. world' \in ReconcileWorkspace(PauseStaleConsumers(w, T))
  BY DEF ApplyPatch
<1> HIDE DEF w, T
<1> DEFINE v == PauseStaleConsumers(w, T)
<1>3. Schedules(w, v) /\ Fit(v)
  BY <1>1, PausingIsFit DEF Prepares, Schedules
<1> HIDE DEF v
<1>4. Schedules(v, world')
  BY <1>2, <1>3, ReconcileWorkspaceIsFit DEF v
<1> QED
  BY <1>1, <1>3, <1>4, SchedulesTransitive, PreparedAndScheduled

LEMMA HarnessProgressAdvances ==
    ASSUME IInv, Fit(world), NEW t \in Task, NEW i \in DOMAIN world.runs[t],
           HarnessProgress(t, i)
    PROVE  Advances(world, world')
BY AfterMessageIsFit, ReconcileIsFit, ScheduledAlone DEF HarnessProgress

LEMMA HarnessDependsAdvances ==
    ASSUME IInv, Fit(world), NEW t \in Task, NEW i \in DOMAIN world.runs[t],
           NEW e \in EdgeId, NEW s \in Task, HarnessDepends(t, i, e, s)
    PROVE  Advances(world, world')
<1>1. PICK w \in Recorded(world, e, s, t, "consumes") :
        world' \in AfterMessage(w, t, i)
  BY DEF HarnessDepends
<1>2. Around(world, w)
  <2>1. "consumes" \in EdgeKind
    BY DEF EdgeKind
  <2> QED
    BY <1>1, <2>1, RecordedAround DEF HarnessDepends, Fit
<1> QED
  BY <1>1, <1>2, AroundIsFit, AfterMessageIsFit, AroundAdvances

LEMMA HarnessDriftAdvances ==
    ASSUME IInv, Fit(world), NEW t \in Task, NEW i \in DOMAIN world.runs[t],
           HarnessDrift(t, i)
    PROVE  Advances(world, world')
<1> DEFINE
    new == [world.runs[t][i] EXCEPT !.status = "paused", !.was_paused = TRUE]
    w == [world EXCEPT !.runs[t][i] = new]
    v == Held(w, {t}, "gate")
<1>1. world.runs[t][i] \in Run /\ world.runs[t][i].status = "running"
  BY RunsAreTyped DEF HarnessDrift, Running
<1>2. new \in Run /\ Faded(world.runs[t][i], new)
  BY <1>1, PausedRuns
<1>3. world' \in AfterMessage(v, t, i)
  BY DEF HarnessDrift
<1> HIDE DEF new
<1>4. Prepares(world, w) /\ Fit(w) /\ w \in World
  BY <1>2, OneFades DEF Prepares, Fit
<1> HIDE DEF w
<1>5. Around(w, v) /\ v.dependencies = w.dependencies
  BY <1>4, AroundReflexive, HoldAround, HoldingIsAGate DEF OnlyGates, Reason
<1> HIDE DEF v
<1>6. Prepares(world, v) /\ Fit(v)
  BY <1>4, <1>5, PreparedWithGates DEF Prepares
<1> QED
  BY <1>3, <1>6, AfterMessageIsFit, PreparedAndScheduled

LEMMA HarnessPatchConflictAdvances ==
    ASSUME IInv, Fit(world), NEW t \in Task, NEW i, HarnessPatchConflict(t, i)
    PROVE  Advances(world, world')
<1> DEFINE w == Held(world, {t}, "gate")
<1>1. Around(world, w)
  BY AroundReflexive, HoldAround DEF Fit
<1>2. world' \in Reconcile(w)
  BY DEF HarnessPatchConflict
<1> HIDE DEF w
<1> QED
  BY <1>1, <1>2, AroundIsFit, ReconcileIsFit, AroundAdvances

\* An explicit retry is of the newest attempt at its input, so no attempt at
\* this input is at work.
LEMMA RetriesAreNewest ==
    ASSUME IInv, Fit(world), NEW t \in Task, NEW i \in DOMAIN world.runs[t],
           RetriesAttempt(t, i), NEW j \in DOMAIN world.runs[t],
           world.runs[t][j].fingerprint = world.runs[t][i].fingerprint
    PROVE  world.runs[t][j].lease # "running"
<1> DEFINE s == world.runs[t]
           n == world.attempts[t]
<1>1. /\ s \in Seq(Run) /\ n \in Nat /\ i \in DOMAIN s /\ j \in DOMAIN s
      /\ Numbered(s, n) /\ NewestWorks(s) /\ s[j].fingerprint = s[i].fingerprint
  BY RunsOf DEF Fit, RunsSound, Orderly
<1>2. /\ s[i].lease \in {"failed", "cancelled", "interrupted"}
      /\ s[j].attempt <= s[i].attempt
  BY DEF RetriesAttempt
<1> SUFFICES s[j].lease # "running"
  OBVIOUS
<1> HIDE DEF s, n
<1>3. s[i].attempt \in Nat /\ s[j].attempt \in Nat
  BY <1>1, RunsAreRuns
<1>4. CASE s[j].attempt = 0
  BY <1>1, <1>4 DEF Numbered
<1>5. CASE s[j].attempt # 0 /\ s[j].attempt = s[i].attempt
  <2>1. i = j
    BY <1>1, <1>5 DEF Numbered
  <2> QED
    BY <2>1, <1>2
<1>6. CASE s[j].attempt # 0 /\ s[j].attempt < s[i].attempt
  BY <1>1, <1>6 DEF NewestWorks
<1> QED
  BY <1>2, <1>3, <1>4, <1>5, <1>6

LEMMA RetryRunAdvances ==
    ASSUME IInv, Fit(world), NEW t \in Task, NEW i \in DOMAIN world.runs[t],
           RetryRun(t, i)
    PROVE  Advances(world, world')
<1> DEFINE
    s == world.runs[t]
    n == world.attempts[t]
    old == s[i]
    isReview == old.trigger = "graph_review"
    agent == IF isReview THEN world.conductor ELSE old.agent
    trigger == IF isReview THEN "graph_review" ELSE "issue"
    attempt == IF old.lease = "none" THEN 0 ELSE NextAttempt(world, t)
    run == NewRun(agent, trigger, attempt, old.fingerprint)
<1>1. /\ agent # NoAgent /\ world' = Started(world, [x \in {t} |-> run])
      /\ old.lease # "none" => RetriesAttempt(t, i)
      /\ MayStart(world, t, isReview) /\ FreeSlots(world, agent) > 0
  BY DEF RetryRun
<1>2. agent \in Agent
  BY <1>1, RunsAreTyped DEF IInv, Sound, World, Run
<1>3. /\ trigger \in Trigger /\ attempt \in Nat /\ old.fingerprint \in Fingerprint
      /\ old \in Run
  BY RunsAreTyped, AttemptsAreNumbered DEF Trigger, Run, IInv, Sound
<1>4. NextAttempt(world, t) = n + 1 /\ n \in Nat
  BY RunsOf DEF NextAttempt, Fit
<1>5. /\ attempt = IF old.lease = "none" THEN 0 ELSE n + 1
      /\ trigger = "graph_review" <=> isReview
      /\ trigger = "graph_review" \/ trigger = "issue"
      /\ n + 1 # 0
  BY <1>4
<1>6. NamesInputs(world.dependencies, t, old) /\ (old.lease = "none" <=> old.attempt = 0)
  BY DEF Fit, RunsSound, Orderly, Numbered
<1>7. \A j \in DOMAIN s :
        s[j].fingerprint = old.fingerprint /\ old.lease # "none" => s[j].lease # "running"
  BY <1>1, RetriesAreNewest
<1>8. i \in DOMAIN s
  OBVIOUS
<1> HIDE DEF agent, trigger, attempt
<1>9. /\ run \in Run /\ run.agent = agent /\ run.trigger = trigger
      /\ run.attempt = attempt /\ run.fingerprint = old.fingerprint
      /\ run.lease = IF attempt = 0 THEN "none" ELSE "running"
  BY <1>2, <1>3, NewRunsAreTyped DEF NewRun
<1> HIDE DEF run
<1>10. InOrder(s, n, run)
  BY <1>5, <1>7, <1>9 DEF InOrder
<1>11. PresentOrTried(world.dependencies, s, run)
  BY <1>5, <1>8, <1>9 DEF PresentOrTried
<1>12. NamesInputs(world.dependencies, t, run)
  BY <1>5, <1>6, <1>9 DEF NamesInputs
<1>13. Gated(world, t, run)
  BY <1>1, <1>5, <1>9 DEF Gated, MayStart
<1>14. MayJoin(world, t, run)
  BY <1>9, <1>10, <1>11, <1>12, <1>13 DEF MayJoin
<1> QED
  BY <1>1, <1>9, <1>14, OneStart, ScheduledAlone

LEMMA HarnessVerdictAdvances ==
    ASSUME IInv, Fit(world), NEW t \in Task, NEW i \in DOMAIN world.runs[t],
           NEW e \in Live(world), NEW choice \in Decision,
           HarnessVerdict(t, i, e, choice)
    PROVE  Advances(world, world')
<1> DEFINE
    old == world.runs[t][i]
    new == [old EXCEPT !.lease = "succeeded"]
    w == [world EXCEPT !.runs[t][i] = new]
    v == Decided(w, e, choice)
    g == world.dependencies[e].generation
<1>1. old \in Run /\ world \in World
  BY RunsAreTyped DEF Fit
<1>2. new \in Run
  BY <1>1 DEF Lease, Run
<1>3. world' \in AfterMessage(v, t, i)
  <2>1. world.runs \in [Task -> Seq(Run)] /\ world.runs[t] \in Seq(Run)
    BY DEF IInv, Sound, World
  <2>2. [world EXCEPT !.runs[t][i].lease = "succeeded"] = w
    BY <2>1 DEF IInv, Sound, World
  <2> QED
    BY <2>2 DEF HarnessVerdict
<1>4. /\ old.status = "running" /\ old.lease = "running" /\ old.trigger = "graph_review"
      /\ old.fingerprint = ReviewFingerprint(e, g)
  BY DEF HarnessVerdict, Running
<1>5. /\ new.agent = old.agent /\ new.trigger = old.trigger
      /\ new.attempt = old.attempt /\ new.fingerprint = old.fingerprint
      /\ new.lease = "succeeded" /\ new.status = old.status
  BY <1>1 DEF Run
<1> HIDE DEF new
<1>6. Ends(old, new) /\ Kept(old, new)
  BY <1>4, <1>5 DEF Ends, Kept
<1>7. Fit(w) /\ Sound(w)
  BY <1>2, <1>6, EndingIsFit, RunReplacedIsSound DEF IInv
<1>8. /\ OnlyRuns(world, w) /\ w.limit = world.limit /\ w.attempts = world.attempts
      /\ w.dependencies = world.dependencies
      /\ \A x \in Task : DOMAIN w.runs[x] = DOMAIN world.runs[x]
      /\ \A x \in Task \ {t} : w.runs[x] = world.runs[x]
      /\ w.runs[t][i] = new
      /\ \A j \in (DOMAIN world.runs[t]) \ {i} : w.runs[t][j] = world.runs[t][j]
  BY <1>1, <1>2, ReplacedRuns
<1>9. world.dependencies[e].target = t
  <2>1. <<e, g>> \in old.fingerprint /\ <<e, g>>[1] = e
    BY <1>4 DEF ReviewFingerprint
  <2>2. NamesInputs(world.dependencies, t, old)
    BY DEF Fit, RunsSound
  <2> QED
    BY <2>1, <2>2 DEF NamesInputs, Live
<1> HIDE DEF w
<1>10. e \in Live(w)
  BY <1>8 DEF Live
<1>11. /\ Around(w, v)
       /\ v.dependencies[e] # Removed =>
            v.dependencies[e].generation = g /\ v.dependencies[e].state # "stale"
  BY <1>7, <1>8, <1>10, DecidedAround
<1> HIDE DEF v
<1>12. Settles(world, v, t, i)
  BY <1>4, <1>9, <1>11 DEF Settles
<1>13. Prepares(world, v)
  <2>1. Fit(v) /\ v.runs = w.runs
    BY <1>7, <1>11, AroundIsFit DEF Around
  <2> SUFFICES ASSUME NEW x \in Task
               PROVE  /\ DOMAIN v.runs[x] = DOMAIN world.runs[x]
                      /\ \A j \in DOMAIN world.runs[x] :
                            /\ Kept(world.runs[x][j], v.runs[x][j])
                            /\ \/ NoVerdict(world.runs[x][j], v.runs[x][j])
                               \/ Settles(world, v, x, j)
    BY <2>1 DEF Prepares
  <2>2. \A run : Kept(run, run) /\ NoVerdict(run, run)
    BY DEF Kept, NoVerdict
  <2>3. \A j \in DOMAIN world.runs[x] :
            w.runs[x][j] = world.runs[x][j] \/ (x = t /\ j = i)
    BY <1>8
  <2> QED
    BY <2>1, <2>2, <2>3, <1>6, <1>8, <1>12
<1>14. Schedules(v, world')
  BY <1>3, <1>13, AfterMessageIsFit DEF Prepares
<1> QED
  BY <1>13, <1>14, PreparedAndScheduled

LEMMA HarnessSessionEndAdvances ==
    ASSUME IInv, Fit(world), NEW t \in Task, NEW i \in DOMAIN world.runs[t],
           NEW ok \in BOOLEAN, HarnessSessionEnd(t, i, ok)
    PROVE  Advances(world, world')
<1> DEFINE v == EnsureAttempt(world, t, i)
           w == SessionEnded(v, t, i, ok)
<1>1. Calm(world, v) /\ v.runs[t][i].status = "running"
  BY EnsureAttemptIsCalm DEF IInv, HarnessSessionEnd, Running
<1>2. Sound(v) /\ i \in DOMAIN v.runs[t]
  BY EnsureAttemptIsSound DEF IInv
<1>3. \E x : /\ x = w \/ x \in Reconcile(w)
             /\ \/ world' = x
                \/ world' \in ReconcileWorkspace(x)
                \/ \E y \in DispatchReady(x, SuccessorTaskIds(x, t)) :
                        world' \in ReconcileWorkspace(y)
  <2> HIDE DEF w
  <2> DEFINE run == w.runs[t][i]
             inconclusive == /\ ok
                             /\ run.trigger = "graph_review"
                             /\ run.lease # "succeeded"
  <2>1. PICK x \in (IF inconclusive THEN {w} ELSE Reconcile(w)) :
            IF ~ok \/ w.conductor = NoAgent THEN world' = x
            ELSE IF IsConductorReview(w, run)
            THEN world' \in (IF run.lease = "succeeded"
                             THEN ReconcileWorkspace(x) ELSE {x})
            ELSE \E y \in DispatchReady(x, SuccessorTaskIds(x, t)) :
                    world' \in ReconcileWorkspace(y)
    BY DEF HarnessSessionEnd, w
  <2> QED
    BY <2>1
<1> HIDE DEF v
<1>4. Calm(v, w)
  BY <1>1, <1>2, SessionEndedIsCalm DEF Calm
<1> HIDE DEF w
<1>5. Prepares(world, w) /\ Fit(w)
  BY <1>1, <1>4, CalmTransitive, CalmPrepares DEF Calm
<1>6. PICK x : /\ x = w \/ x \in Reconcile(w)
               /\ \/ world' = x
                  \/ world' \in ReconcileWorkspace(x)
                  \/ \E y \in DispatchReady(x, SuccessorTaskIds(x, t)) :
                        world' \in ReconcileWorkspace(y)
  BY <1>3
<1>7. Schedules(w, x) /\ Fit(x)
  BY <1>5, <1>6, ReconcileIsFit, SchedulesReflexive DEF Schedules
<1>8. SuccessorTaskIds(x, t) \in SUBSET Task
  BY <1>7 DEF SuccessorTaskIds, IssueBlockingIds, LiveConsumers, Live, Fit, World, Edge
<1>9. Schedules(w, world')
  <2>1. CASE world' = x
    BY <2>1, <1>7
  <2>2. CASE world' \in ReconcileWorkspace(x)
    BY <2>2, <1>7, ReconcileWorkspaceIsFit, SchedulesTransitive
  <2>3. CASE \E y \in DispatchReady(x, SuccessorTaskIds(x, t)) :
                world' \in ReconcileWorkspace(y)
    <3>1. PICK y \in DispatchReady(x, SuccessorTaskIds(x, t)) :
            world' \in ReconcileWorkspace(y)
      BY <2>3
    <3>2. Schedules(x, y) /\ Fit(y)
      BY <1>7, <1>8, DispatchReadyIsFit DEF Schedules
    <3>3. Schedules(y, world')
      BY <3>1, <3>2, ReconcileWorkspaceIsFit
    <3> QED
      BY <1>7, <3>2, <3>3, SchedulesTransitive
  <2> QED
    BY <1>6, <2>1, <2>2, <2>3
<1> QED
  BY <1>5, <1>9, PreparedAndScheduled

LEMMA StopChatAdvances ==
    ASSUME IInv, Fit(world), NEW c \in Task, StopChat(c)
    PROVE  Advances(world, world')
<1> DEFINE
    Stop(u, run) ==
        IF u = c /\ run.trigger = "issue" /\ run.status = "running"
        THEN [run EXCEPT !.status = "cancelled"] ELSE run
<1>1. \A t \in Task, run \in Run : Faded(run, Stop(t, run))
  BY DEF Run, Faded
<1>2. /\ OnlyRuns(world, world')
      /\ world'.limit = world.limit /\ world'.attempts = world.attempts
      /\ \A t \in Task :
            /\ DOMAIN world'.runs[t] = DOMAIN world.runs[t]
            /\ \A i \in DOMAIN world.runs[t] : world'.runs[t][i] = Stop(t, world.runs[t][i])
  BY StopChatIsSound DEF StopChat, EachRun, Fit, World
<1> HIDE DEF Stop
<1>3. \A t \in Task : AllFaded(world.runs[t], world'.runs[t])
  BY <1>1, <1>2, RunsOf DEF AllFaded, Fit
<1> QED
  BY <1>2, <1>3, FadingIsFit, ScheduledAlone

LEMMA RestartAdvances ==
    ASSUME IInv, Fit(world), Restart
    PROVE  Advances(world, world')
<1> DEFINE
    Interrupt(t, run) ==
        [run EXCEPT
            !.status = IF @ = "running" THEN "interrupted" ELSE @,
            !.lease  = IF @ = "running" THEN "interrupted" ELSE @]
    R == [t \in Task |->
            [i \in DOMAIN world.runs[t] |-> Interrupt(t, world.runs[t][i])]]
    w == [world EXCEPT !.runs = R]
<1>1. \A t \in Task, run \in Run : Interrupt(t, run) \in Run /\ Faded(run, Interrupt(t, run))
  <2> SUFFICES ASSUME NEW t \in Task, NEW run \in Run
               PROVE  Interrupt(t, run) \in Run /\ Faded(run, Interrupt(t, run))
    OBVIOUS
  <2> DEFINE
    status == IF run.status = "running" THEN "interrupted" ELSE run.status
    lease == IF run.lease = "running" THEN "interrupted" ELSE run.lease
    new == [run EXCEPT !.status = status, !.lease = lease]
  <2>1. /\ status \in RunStatus /\ lease \in Lease
        /\ status # "running" /\ (run.status # "running" => status = run.status)
        /\ lease # "running" /\ (run.lease # "running" => lease = run.lease)
        /\ (run.lease = "running" => lease = "interrupted")
    BY DEF Run, RunStatus, Lease
  <2>2. Interrupt(t, run) = new
    OBVIOUS
  <2> HIDE DEF status, lease
  <2>3. /\ new \in Run /\ new.agent = run.agent /\ new.trigger = run.trigger
        /\ new.attempt = run.attempt /\ new.fingerprint = run.fingerprint
        /\ new.status = status /\ new.lease = lease
    BY <2>1 DEF Run
  <2> HIDE DEF new, Interrupt
  <2> QED
    BY <2>1, <2>2, <2>3 DEF Faded
<1>2. world' = w
  BY DEF Restart, EachRun
<1> HIDE DEF Interrupt
<1>3. \A t \in Task : R[t] \in Seq(Run) /\ AllFaded(world.runs[t], R[t])
  <2> SUFFICES ASSUME NEW t \in Task
               PROVE  R[t] \in Seq(Run) /\ AllFaded(world.runs[t], R[t])
    OBVIOUS
  <2>1. world.runs[t] \in Seq(Run) /\ \A i \in DOMAIN world.runs[t] : world.runs[t][i] \in Run
    BY RunsOf DEF Fit
  <2>2. \A i \in DOMAIN world.runs[t] :
            R[t][i] \in Run /\ Faded(world.runs[t][i], R[t][i])
    BY <1>1, <2>1
  <2> QED
    BY <2>1, <2>2, SameLength DEF AllFaded
<1>4. R \in [Task -> Seq(Run)]
  BY <1>3
<1> HIDE DEF R
<1>5. /\ OnlyRuns(world, w) /\ w.runs = R
      /\ w.limit = world.limit /\ w.attempts = world.attempts
  BY <1>4, RunsReplaced DEF Fit, World
<1> HIDE DEF w
<1> QED
  BY <1>2, <1>3, <1>5, FadingIsFit, ScheduledAlone

-----------------------------------------------------------------------------
(* The invariant.                                                           *)

LEMMA InitIsFit == Init => Fit(world)
<1> SUFFICES ASSUME Init PROVE Fit(world)
  OBVIOUS
<1>1. world \in World
  BY InitIsSound DEF IInv, Sound
<1>2. \A t \in Task : world.runs[t] = <<>>
  BY DEF Init, Begin
<1>3. DOMAIN <<>> = {}
  OBVIOUS
<1>4. RunsSound(world)
  BY <1>2, <1>3 DEF RunsSound, Orderly, Numbered, NewestWorks, StartsAfterOthers,
                   PresentInputs
<1>5. WithinLimits(world)
  <2> SUFFICES ASSUME NEW a \in Agent
               PROVE  /\ IsFiniteSet(RunningRuns(world, a))
                      /\ Cardinality(RunningRuns(world, a)) <= ConcurrencyLimit(world, a)
    BY DEF WithinLimits
  <2>1. RunningRuns(world, a) = {}
    BY <1>2, <1>3, RunningRunsArePairs
  <2>2. ConcurrencyLimit(world, a) \in Nat
    BY <1>1 DEF ConcurrencyLimit, World
  <2>3. IsFiniteSet({}) /\ Cardinality({}) = 0
    BY FS_EmptySet
  <2> QED
    BY <2>1, <2>2, <2>3
<1> QED
  BY <1>1, <1>4, <1>5 DEF Fit

LEMMA TaskCommandAdvances ==
    ASSUME IInv, Fit(world), NEW in \in InputSets, TaskCommand(in)
    PROVE  Advances(world, world')
<1>1. CASE \E p \in in.status : SetTaskStatus(p[1], p[2])
  BY <1>1, SetTaskStatusAdvances DEF InputSets
<1>2. CASE \E t \in in.delete : DeleteTask(t)
  BY <1>2, DeleteTaskAdvances DEF InputSets
<1>3. CASE \E p \in in.blocker : AddIssueBlocker(p[1], p[2])
  BY <1>3, AddIssueBlockerAdvances DEF InputSets
<1>4. CASE \E p \in in.blocker : RemoveIssueBlocker(p[1], p[2])
  BY <1>4, RemoveIssueBlockerAdvances DEF InputSets
<1>5. CASE \E c \in in.conductor : SetWorkspaceConductor(c)
  BY <1>5, SetWorkspaceConductorAdvances DEF InputSets
<1>6. CASE \E p \in in.reorder : ReorderTasks(p[1], p[2])
  BY <1>6, ReorderTasksAdvances DEF InputSets
<1>7. CASE \E D \in SUBSET in.merged : SyncGithubPullRequests(D)
  BY <1>7, SyncGithubPullRequestsAdvances DEF InputSets
<1> QED
  BY <1>1, <1>2, <1>3, <1>4, <1>5, <1>6, <1>7 DEF TaskCommand

LEMMA EdgeCommandAdvances ==
    ASSUME IInv, Fit(world), NEW in \in InputSets, EdgeCommand(in)
    PROVE  Advances(world, world')
<1>1. CASE \E e \in EdgeId, p \in in.edge :
            DeclareDependency(e, p[1], p[2], p[3])
  BY <1>1, DeclareDependencyAdvances DEF InputSets
<1>2. CASE \E e \in Live(world) : ReaffirmDependency(e)
  BY <1>2, ReaffirmDependencyAdvances
<1>3. CASE \E e \in Live(world) : RemoveDependency(e)
  BY <1>3, RemoveDependencyAdvances
<1>4. CASE \E e \in Live(world), c \in in.decision : ValidationDecision(e, c)
  BY <1>4, ValidationDecisionAdvances DEF InputSets
<1> QED
  BY <1>1, <1>2, <1>3, <1>4 DEF EdgeCommand

LEMMA RunCommandAdvances ==
    ASSUME IInv, Fit(world), NEW in \in InputSets, RunCommand(in)
    PROVE  Advances(world, world')
<1>1. CASE \E p \in in.starter : StartRun(p[1], p[2])
  BY <1>1, StartRunAdvances DEF InputSets
<1>2. CASE \E t \in in.patch : ApplyPatch(t)
  BY <1>2, ApplyPatchAdvances DEF InputSets
<1>3. CASE \E t \in in.patch : ApplyPatchConflict(t)
  BY <1>3, ApplyPatchConflictAdvances DEF InputSets
<1>4. CASE \E t \in Task : \E i \in DOMAIN world.runs[t] :
            CancelRun(t, i) \/ RetryRun(t, i)
  BY <1>4, CancelRunAdvances, RetryRunAdvances
<1>5. CASE \E t \in in.chat : StopChat(t)
  BY <1>5, StopChatAdvances DEF InputSets
<1> QED
  BY <1>1, <1>2, <1>3, <1>4, <1>5 DEF RunCommand

LEMMA HarnessEventAdvances ==
    ASSUME IInv, Fit(world), NEW in \in InputSets, HarnessEvent(in)
    PROVE  Advances(world, world')
<1>1. PICK t \in Task : \E i \in DOMAIN world.runs[t] :
        \/ HarnessProgress(t, i)
        \/ \E e \in EdgeId, p \in in.edge : HarnessDepends(t, i, e, p[1])
        \/ HarnessDrift(t, i)
        \/ HarnessPatchConflict(t, i)
        \/ \E e \in Live(world), c \in in.decision : HarnessVerdict(t, i, e, c)
        \/ HarnessSessionEnd(t, i, TRUE)
        \/ HarnessSessionEnd(t, i, FALSE)
  BY DEF HarnessEvent
<1>2. PICK i \in DOMAIN world.runs[t] :
        \/ HarnessProgress(t, i)
        \/ \E e \in EdgeId, p \in in.edge : HarnessDepends(t, i, e, p[1])
        \/ HarnessDrift(t, i)
        \/ HarnessPatchConflict(t, i)
        \/ \E e \in Live(world), c \in in.decision : HarnessVerdict(t, i, e, c)
        \/ HarnessSessionEnd(t, i, TRUE)
        \/ HarnessSessionEnd(t, i, FALSE)
  BY <1>1
<1>3. CASE HarnessProgress(t, i)
  BY <1>3, HarnessProgressAdvances
<1>4. CASE \E e \in EdgeId, p \in in.edge : HarnessDepends(t, i, e, p[1])
  BY <1>4, HarnessDependsAdvances DEF InputSets
<1>5. CASE HarnessDrift(t, i)
  BY <1>5, HarnessDriftAdvances
<1>6. CASE HarnessPatchConflict(t, i)
  BY <1>6, HarnessPatchConflictAdvances
<1>7. CASE \E e \in Live(world), c \in in.decision : HarnessVerdict(t, i, e, c)
  BY <1>7, HarnessVerdictAdvances DEF InputSets
<1>8. CASE \E ok \in BOOLEAN : HarnessSessionEnd(t, i, ok)
  BY <1>8, HarnessSessionEndAdvances
<1> QED
  BY <1>2, <1>3, <1>4, <1>5, <1>6, <1>7, <1>8

RIInv == IInv /\ Fit(world)

LEMMA NextAdvances ==
    ASSUME RIInv, [Next]_world
    PROVE  Advances(world, world')
<1>1. CASE UNCHANGED world
  BY <1>1, SchedulesReflexive, ScheduledAlone DEF RIInv
<1>2. CASE Restart
  BY <1>2, RestartAdvances DEF RIInv
<1>3. CASE Next /\ ~Restart
  BY <1>3, TaskCommandAdvances, EdgeCommandAdvances, RunCommandAdvances,
     HarnessEventAdvances, InputsAssumption DEF RIInv, Next, Step
<1> QED
  BY <1>1, <1>2, <1>3

LEMMA NextIsFit == RIInv /\ [Next]_world => RIInv'
BY NextIsSound, NextAdvances DEF RIInv, Advances

LEMMA Fitness == Spec => []RIInv
<1>1. Init => RIInv
  BY InitIsSound, InitIsFit DEF RIInv
<1> QED
  BY <1>1, NextIsFit, PTL DEF Spec

-----------------------------------------------------------------------------
(* The theorems.                                                            *)

OneAtWork(s) ==
    \A i, j \in DOMAIN s :
        (/\ s[i].lease = "running" /\ s[j].lease = "running"
         /\ s[i].fingerprint = s[j].fingerprint) => i = j

LEMMA OrderlyRunsAreAlone ==
    ASSUME NEW s \in Seq(Run), NEW n \in Nat, Orderly(s, n)
    PROVE  OneAtWork(s)
<1> SUFFICES ASSUME NEW i \in DOMAIN s, NEW j \in DOMAIN s,
                    s[i].lease = "running", s[j].lease = "running",
                    s[i].fingerprint = s[j].fingerprint
             PROVE  i = j
  BY DEF OneAtWork
<1>1. s[i].attempt \in Nat /\ s[j].attempt \in Nat
  BY RunsAreRuns
<1>2. s[i].attempt # 0 /\ s[j].attempt # 0
  BY DEF Orderly, Numbered
<1>3. ~(s[i].attempt < s[j].attempt) /\ ~(s[j].attempt < s[i].attempt)
  BY <1>2 DEF Orderly, NewestWorks
<1>4. s[i].attempt = s[j].attempt
  BY <1>1, <1>3
<1> QED
  BY <1>2, <1>4 DEF Orderly, Numbered

\* Two attempts at one input never work side by side, and a lease that the
\* scheduler gave out names the present generation of every edge it read:
\* claim_node_attempt, claim_explicit_retry and fence_attempts together.
THEOREM AttemptsStayFenced == Spec => []AttemptsAreFenced
<1>1. RIInv => OneAttemptPerInput
  <2> SUFFICES ASSUME RIInv, NEW t \in Task,
                      NEW i \in DOMAIN world.runs[t], NEW j \in DOMAIN world.runs[t],
                      world.runs[t][i].lease = "running",
                      world.runs[t][j].lease = "running",
                      world.runs[t][i].fingerprint = world.runs[t][j].fingerprint
               PROVE  i = j
    BY DEF OneAttemptPerInput
  <2>1. OneAtWork(world.runs[t])
    BY RunsOf, OrderlyRunsAreAlone DEF RIInv, Fit, RunsSound
  <2> QED
    BY <2>1 DEF OneAtWork
<1>2. RIInv => LeasesAreCurrent
  BY DEF RIInv, Fit, RunsSound, PresentInputs, First, FirstAtInput, IsPresent,
         LeasesAreCurrent, Live
<1> QED
  BY <1>1, <1>2, Fitness, PTL DEF AttemptsAreFenced

\* Every start was due, whatever started it: nobody works on its input, an
\* executor at an input tried before was asked for by a person, and its agent
\* had a slot.  This is what claim_node_attempt, claim_explicit_retry, the
\* dispatchers' executor filter and agent_capacity promise together.
THEOREM StartsStayDue == Spec => []StartsWereDue
<1>1. AttemptsAreFenced => OneAttemptPerInput
  BY DEF AttemptsAreFenced
<1>2. RIInv => RetriesAreExplicit
  <2> SUFFICES ASSUME RIInv, NEW t \in Task,
                      NEW i \in DOMAIN world.runs[t], NEW j \in DOMAIN world.runs[t],
                      i < j,
                      world.runs[t][i].fingerprint = world.runs[t][j].fingerprint,
                      world.runs[t][i].lease \notin {"none", "paused"},
                      world.runs[t][j].lease \notin {"none", "paused"}
               PROVE  world.runs[t][j].trigger # "graph"
    BY DEF RetriesAreExplicit
  <2>1. StartsAfterOthers(world.runs[t])
    BY DEF RIInv, Fit, RunsSound, Orderly
  <2> QED
    BY <2>1 DEF StartsAfterOthers
<1>3. RIInv => WithinConcurrencyLimit
  BY DEF RIInv, Fit, WithinLimits, WithinConcurrencyLimit
<1> QED
  BY <1>1, <1>2, <1>3, AttemptsStayFenced, Fitness, PTL DEF StartsWereDue

\* How a run ended is never rewritten, a paused run is only ever cancelled and
\* a success is never taken back, by any event that comes late, any fence, any
\* cancellation and any restart.
THEOREM OutcomesStayFinal == Spec => OutcomesAreFinal
<1>1. RIInv /\ [Next]_world =>
        [\A t \in Task : \A i \in DOMAIN world.runs[t] :
            LET old == world.runs[t][i]
                new == world'.runs[t][i]
            IN  /\ old.status \notin {"running", "paused"} => new.status = old.status
                /\ old.status = "paused" => new.status \in {"paused", "cancelled"}
                /\ old.lease = "succeeded" => new.lease = "succeeded"]_world
  BY NextAdvances DEF Advances, Kept
<1> QED
  BY <1>1, Fitness, PTL DEF Spec, OutcomesAreFinal

\* A review succeeds only in the step that settles the edge it was started
\* for, at the generation it was started for: a verdict that arrives after the
\* edge went stale again counts for nothing.
THEOREM VerdictsSettleTheirGeneration == Spec => VerdictSettlesItsGeneration
<1>1. RIInv /\ [Next]_world =>
        [\A t \in Task : \A i \in DOMAIN world.runs[t] :
            LET old == world.runs[t][i]
                new == world'.runs[t][i]
            IN  (/\ old.trigger = "graph_review"
                 /\ old.lease # "succeeded" /\ new.lease = "succeeded")
                => \E e \in Live(world) :
                    LET g == world.dependencies[e].generation IN
                    /\ old.fingerprint = ReviewFingerprint(e, g)
                    /\ world.dependencies[e].target = t
                    /\ world'.dependencies[e] # Removed =>
                        /\ world'.dependencies[e].generation = g
                        /\ world'.dependencies[e].state # "stale"]_world
  BY NextAdvances DEF Advances, NoVerdict, Settles
<1> QED
  BY <1>1, Fitness, PTL DEF Spec, VerdictSettlesItsGeneration

\* No command, event or retry starts a run past a gate: in the world it is
\* left in, a task that got a run is out of the backlog and waits for no
\* blocker, and an executor's inputs are settled.
THEOREM StartsKeepToGates == Spec => StartsRespectGates
<1>1. RIInv /\ [Next]_world =>
        [\A t \in Task : NewRuns(t) # {} =>
            /\ world'.status[t] # "backlog"
            /\ UnresolvedBlockers(world', t) = {}
            /\ \A i \in NewRuns(t) :
                world'.runs[t][i].trigger # "graph_review" =>
                    ~HasStaleDependency(world', t)]_world
  BY NextAdvances DEF Advances, Gated, NewRuns
<1> QED
  BY <1>1, Fitness, PTL DEF Spec, StartsRespectGates

-----------------------------------------------------------------------------
(* Starting runs makes no node wait.                                        *)

\* v is w with more runs, and the new ones are running.
Extended(w, v) ==
    /\ OnlyRuns(w, v)
    /\ v.limit = w.limit /\ v.assignee = w.assignee
    /\ \A t \in Task :
        /\ DOMAIN w.runs[t] \subseteq DOMAIN v.runs[t]
        /\ \A i \in DOMAIN w.runs[t] : v.runs[t][i] = w.runs[t][i]
        /\ v.runs[t] = w.runs[t] \/ HasRunningRun(v, t)

LEMMA RunningRunsAreFinite ==
    ASSUME NEW w \in World, NEW a
    PROVE  IsFiniteSet(RunningRuns(w, a))
<1> DEFINE places == [t \in Task |-> {t} \X DOMAIN w.runs[t]]
           S == {places[t] : t \in Task}
<1>1. places \in Surjection(Task, S)
  BY DEF Surjection
<1>2. \A t \in Task : IsFiniteSet(places[t])
  <2> SUFFICES ASSUME NEW t \in Task PROVE IsFiniteSet({t} \X DOMAIN w.runs[t])
    OBVIOUS
  <2> DEFINE one == {t}
             dom == DOMAIN w.runs[t]
  <2>1. dom = 1..Len(w.runs[t]) /\ 1 \in Int /\ Len(w.runs[t]) \in Int
    BY RunsOf
  <2> HIDE DEF dom
  <2>2. IsFiniteSet(one) /\ IsFiniteSet(dom)
    BY <2>1, FS_Interval, FS_Singleton
  <2> HIDE DEF one
  <2>3. IsFiniteSet(one \X dom)
    BY <2>2, FS_Product
  <2> QED
    BY <2>3 DEF one, dom
<1>3. UNION {{t} \X DOMAIN w.runs[t] : t \in Task} = UNION S
  OBVIOUS
<1>4. RunningRuns(w, a) \subseteq UNION {{t} \X DOMAIN w.runs[t] : t \in Task}
  BY DEF RunningRuns
<1> HIDE DEF places
<1>5. IsFiniteSet(S) /\ \A T \in S : IsFiniteSet(T)
  BY <1>1, <1>2, ConstantsAssumption, FS_Surjection
<1> HIDE DEF S
<1>6. IsFiniteSet(UNION S)
  BY <1>5, FS_UNION
<1> QED
  BY <1>3, <1>4, <1>6, FS_Subset

LEMMA SlotsOnlyFill ==
    ASSUME NEW w \in World, NEW v, Extended(w, v), NEW a \in Agent,
           FreeSlots(v, a) > 0
    PROVE  FreeSlots(w, a) > 0
<1>1. v \in World
  BY DEF Extended, OnlyRuns
<1>2. RunningRuns(w, a) \subseteq RunningRuns(v, a)
  BY DEF Extended, RunningRuns
<1>3. IsFiniteSet(RunningRuns(w, a)) /\ IsFiniteSet(RunningRuns(v, a))
  BY <1>1, RunningRunsAreFinite
<1>4. Cardinality(RunningRuns(w, a)) <= Cardinality(RunningRuns(v, a))
  BY <1>2, <1>3, FS_Subset
<1>5. /\ Cardinality(RunningRuns(w, a)) \in Nat
      /\ Cardinality(RunningRuns(v, a)) \in Nat
  BY <1>3, FS_CardinalityType
<1>6. ConcurrencyLimit(v, a) = ConcurrencyLimit(w, a) /\ ConcurrencyLimit(w, a) \in Nat
  BY DEF Extended, ConcurrencyLimit, World
<1> QED
  BY <1>4, <1>5, <1>6 DEF FreeSlots

\* The rest of the world, and the runs of t itself, decide whether t is ready.
LEMMA ReadinessIsKept ==
    ASSUME NEW w \in World, NEW v, OnlyRuns(w, v), NEW t \in Task,
           v.runs[t] = w.runs[t], ExecutorReady(v, t)
    PROVE  ExecutorReady(w, t)
<1>1. Live(v) = Live(w) /\ EdgesInto(v, t) = EdgesInto(w, t)
  BY DEF OnlyRuns, Live, EdgesInto
<1>2. IssueBlockerIds(v, t) = IssueBlockerIds(w, t)
  BY DEF OnlyRuns, IssueBlockerIds
<1>3. InputFingerprint(v, t) = InputFingerprint(w, t)
  BY <1>1, <1>2 DEF OnlyRuns, InputFingerprint
<1>4. \A n : UpstreamSucceeded(v, n) <=> UpstreamSucceeded(w, n)
  BY DEF OnlyRuns, UpstreamSucceeded
<1>5. Succeeded(v, t) <=> Succeeded(w, t)
  BY <1>3 DEF OnlyRuns, Succeeded
<1>6. InFlight(v, t) <=> InFlight(w, t)
  BY DEF InFlight
<1>7. Ready(w, t)
  BY <1>1, <1>2, <1>4, <1>5, <1>6 DEF ExecutorReady, Ready, OnlyRuns
<1>8. NodeOnDeclaredGraph(w, t)
  BY <1>1 DEF ExecutorReady, NodeOnDeclaredGraph, OnlyRuns
<1>9. ~HasRunningRun(w, t) /\ Claimable(w, t, InputFingerprint(w, t))
  BY <1>3 DEF ExecutorReady, HasRunningRun, Claimable
<1>10. MayStart(w, t, FALSE)
  BY <1>1, <1>2 DEF ExecutorReady, MayStart, UnresolvedBlockers,
                    IssueBlockerSatisfied, HasStaleDependency, Consumes, OnlyRuns
<1> QED
  BY <1>7, <1>8, <1>9, <1>10 DEF ExecutorReady, OnlyRuns

LEMMA StartsMakeNothingWait ==
    ASSUME NEW w \in World, NEW v, Extended(w, v)
    PROVE  Waiting(v) \subseteq Waiting(w)
<1> SUFFICES ASSUME NEW t \in Task, t \in Waiting(v) PROVE t \in Waiting(w)
  BY DEF Waiting
<1>1. /\ v.conductor = NoAgent /\ ExecutorReady(v, t)
      /\ v.assignee[t] # NoAgent /\ FreeSlots(v, v.assignee[t]) > 0
  BY DEF Waiting
<1>2. OnlyRuns(w, v) /\ v.assignee = w.assignee /\ v.conductor = w.conductor
  BY DEF Extended, OnlyRuns
<1>3. v.runs[t] = w.runs[t]
  BY <1>1 DEF Extended, ExecutorReady
<1>4. ExecutorReady(w, t)
  BY <1>1, <1>2, <1>3, ReadinessIsKept
<1>5. w.assignee[t] \in Agent
  BY <1>1, <1>2 DEF World
<1>6. FreeSlots(w, w.assignee[t]) > 0
  BY <1>1, <1>2, <1>5, SlotsOnlyFill
<1> QED
  BY <1>1, <1>2, <1>4, <1>6 DEF Waiting

LEMMA StartedExtends ==
    ASSUME NEW w \in World, NEW run, DOMAIN run \subseteq Task,
           \A t \in DOMAIN run : run[t] \in Run /\ run[t].status = "running"
    PROVE  Extended(w, Started(w, run))
<1> DEFINE v == Started(w, run)
<1>1. /\ OnlyRuns(w, v) /\ v \in World /\ v.limit = w.limit
      /\ \A t \in Task \ DOMAIN run : v.runs[t] = w.runs[t]
      /\ \A t \in DOMAIN run : v.runs[t] = Append(w.runs[t], run[t])
  BY StartedRuns
<1>2. v.assignee = w.assignee
  BY DEF Started, World
<1> HIDE DEF v
<1>3. ASSUME NEW t \in DOMAIN run
      PROVE  /\ DOMAIN w.runs[t] \subseteq DOMAIN v.runs[t]
             /\ \A i \in DOMAIN w.runs[t] : v.runs[t][i] = w.runs[t][i]
             /\ HasRunningRun(v, t)
  <2>1. w.runs[t] \in Seq(Run) /\ run[t] \in Run /\ run[t].status = "running"
    BY RunsOf
  <2>2. /\ DOMAIN v.runs[t] = 1..(Len(w.runs[t]) + 1)
        /\ DOMAIN w.runs[t] = 1..Len(w.runs[t]) /\ Len(w.runs[t]) \in Nat
        /\ v.runs[t][Len(w.runs[t]) + 1] = run[t]
        /\ \A i \in DOMAIN w.runs[t] : v.runs[t][i] = w.runs[t][i]
    BY <1>1, <2>1, Appended
  <2>3. Len(w.runs[t]) + 1 \in DOMAIN v.runs[t]
    BY <2>2
  <2>4. DOMAIN w.runs[t] \subseteq DOMAIN v.runs[t]
    BY <2>2
  <2> QED
    BY <2>1, <2>2, <2>3, <2>4 DEF HasRunningRun
<1>4. Extended(w, v)
  BY <1>1, <1>2, <1>3 DEF Extended
<1> QED
  BY <1>4 DEF v

-----------------------------------------------------------------------------
(* A pass fills the slots.                                                  *)

\* The tasks of the pass, and the runs that StartAssignees starts for D.
Assigned(w, T) == {t \in T : w.assignee[t] # NoAgent}
AssigneeRuns(w, trigger, C, D) ==
    [t \in D |->
        IF t \in C THEN NewRun(w.assignee[t], trigger, NextAttempt(w, t),
                               InputFingerprint(w, t))
        ELSE NewRun(w.assignee[t], trigger, 0, {})]

LEMMA PassesStart ==
    ASSUME NEW w \in World, NEW T \in SUBSET Task, NEW trigger \in Trigger,
           NEW C, NEW v \in StartAssignees(w, T, trigger, C)
    PROVE  \E D \in SUBSET Assigned(w, T) :
            LET run == AssigneeRuns(w, trigger, C, D) IN
            /\ FillsSlots(w, Assigned(w, T), D) /\ v = Started(w, run)
            /\ DOMAIN run = D
            /\ \A t \in D : /\ run[t] \in Run /\ run[t].status = "running"
                            /\ run[t].agent = w.assignee[t]
<1>1. PICK D \in SUBSET Assigned(w, T) :
        /\ FillsSlots(w, Assigned(w, T), D)
        /\ v = Started(w, AssigneeRuns(w, trigger, C, D))
  BY DEF StartAssignees, Assigned, AssigneeRuns
<1> DEFINE run == AssigneeRuns(w, trigger, C, D)
<1>2. ASSUME NEW t \in D
      PROVE  run[t] \in Run /\ run[t].status = "running" /\ run[t].agent = w.assignee[t]
  <2>1. t \in Task /\ w.assignee[t] \in Agent
    BY <1>1 DEF World, Assigned
  <2>2. NextAttempt(w, t) \in Nat /\ 0 \in Nat /\ {} \in Fingerprint
    BY <2>1, AttemptsAreNumbered DEF Fingerprint
  <2>3. InputFingerprint(w, t) \in Fingerprint
    BY <2>1, FingerprintsAreTyped
  <2>4. run[t] = IF t \in C THEN NewRun(w.assignee[t], trigger, NextAttempt(w, t),
                                        InputFingerprint(w, t))
                 ELSE NewRun(w.assignee[t], trigger, 0, {})
    BY DEF AssigneeRuns
  <2> HIDE DEF run
  <2>5. run[t] \in Run
    BY <2>1, <2>2, <2>3, <2>4, NewRunsAreTyped
  <2>6. run[t].status = "running" /\ run[t].agent = w.assignee[t]
    BY <2>4 DEF NewRun
  <2> QED
    BY <2>5, <2>6
<1>3. DOMAIN run = D
  BY DEF AssigneeRuns
<1> QED
  BY <1>1, <1>2, <1>3

LEMMA PassesExtend ==
    ASSUME NEW w \in World, NEW T \in SUBSET Task, NEW trigger \in Trigger,
           NEW C, NEW v \in StartAssignees(w, T, trigger, C)
    PROVE  Extended(w, v)
<1>1. PICK D \in SUBSET Assigned(w, T) :
        LET run == AssigneeRuns(w, trigger, C, D) IN
        /\ FillsSlots(w, Assigned(w, T), D) /\ v = Started(w, run)
        /\ DOMAIN run = D
        /\ \A t \in D : /\ run[t] \in Run /\ run[t].status = "running"
                        /\ run[t].agent = w.assignee[t]
  BY PassesStart
<1>2. D \subseteq Task
  BY DEF Assigned
<1> QED
  BY <1>1, <1>2, StartedExtends

\* A start uses up a slot: the runs of D of the agent a, and no fewer, are
\* now running besides those that were.
LEMMA StartsUseUpSlots ==
    ASSUME NEW w \in World, NEW run, DOMAIN run \subseteq Task,
           \A t \in DOMAIN run : run[t] \in Run /\ run[t].status = "running",
           NEW a \in Agent,
           Cardinality({t \in DOMAIN run : run[t].agent = a}) = FreeSlots(w, a)
    PROVE  FreeSlots(Started(w, run), a) = 0
<1> DEFINE
    v == Started(w, run)
    mine == {t \in DOMAIN run : run[t].agent = a}
    place == [t \in mine |-> <<t, Len(w.runs[t]) + 1>>]
    places == {place[t] : t \in mine}
    old == RunningRuns(w, a)
    new == RunningRuns(v, a)
<1>1. /\ v \in World /\ v.limit = w.limit
      /\ \A t \in Task \ DOMAIN run : v.runs[t] = w.runs[t]
      /\ \A t \in DOMAIN run : v.runs[t] = Append(w.runs[t], run[t])
  BY StartedRuns
<1>2. Extended(w, v)
  BY StartedExtends
<1> HIDE DEF v
<1>3. old \subseteq new
  BY <1>2 DEF Extended, RunningRuns
<1>4. \A t \in mine : place[t] \in new /\ place[t] \notin old
  <2> SUFFICES ASSUME NEW t \in mine
               PROVE  <<t, Len(w.runs[t]) + 1>> \in new \ old
    OBVIOUS
  <2>1. t \in Task /\ w.runs[t] \in Seq(Run) /\ run[t] \in Run
    BY RunsOf
  <2>2. /\ DOMAIN v.runs[t] = 1..(Len(w.runs[t]) + 1)
        /\ DOMAIN w.runs[t] = 1..Len(w.runs[t]) /\ Len(w.runs[t]) \in Nat
        /\ v.runs[t][Len(w.runs[t]) + 1] = run[t]
    BY <1>1, <2>1, Appended
  <2> DEFINE k == Len(w.runs[t]) + 1
  <2>3. k \in DOMAIN v.runs[t] /\ k \notin DOMAIN w.runs[t]
    BY <2>2
  <2>4. v.runs[t][k].agent = a /\ v.runs[t][k].status = "running"
    BY <2>2
  <2> HIDE DEF k
  <2>5. <<t, k>> \in {t} \X DOMAIN v.runs[t]
    BY <2>3
  <2>6. <<t, k>> \in new
    BY <2>1, <2>4, <2>5 DEF RunningRuns
  <2>7. <<t, k>> \notin old
    <3> SUFFICES ASSUME <<t, k>> \in old PROVE FALSE
      OBVIOUS
    <3>1. PICK x \in Task : <<t, k>> \in {x} \X DOMAIN w.runs[x]
      BY DEF RunningRuns
    <3> QED
      BY <3>1, <2>3
  <2> QED
    BY <2>6, <2>7 DEF k
<1>5. \A t, u \in mine : place[t] = place[u] => t = u
  OBVIOUS
<1>6. place \in Bijection(mine, places)
  BY <1>5 DEF Bijection, Injection, Surjection, IsInjective
<1>7. places \subseteq new \ old
  BY <1>4
<1>8. IsFiniteSet(mine)
  BY FS_Subset, ConstantsAssumption
<1>9. IsFiniteSet(old) /\ IsFiniteSet(new)
  BY <1>1, RunningRunsAreFinite
<1>10. Cardinality(mine) = FreeSlots(w, a)
  OBVIOUS
<1> HIDE DEF mine, place, places, old, new
<1>11. IsFiniteSet(places) /\ Cardinality(places) = Cardinality(mine)
  BY <1>6, <1>8, FS_Bijection DEF ExistsBijection
<1>12. old \intersect places = {} /\ old \union places \subseteq new
  BY <1>3, <1>7
<1>13. /\ IsFiniteSet(old \union places)
       /\ Cardinality(old \union places) = Cardinality(old) + Cardinality(places)
  <2>1. /\ IsFiniteSet(old \union places)
        /\ Cardinality(old \union places)
              = Cardinality(old) + Cardinality(places) - Cardinality(old \intersect places)
    BY <1>9, <1>11, FS_Union
  <2>2. Cardinality(old \intersect places) = 0
    BY <1>12, FS_EmptySet
  <2>3. Cardinality(old) \in Nat /\ Cardinality(places) \in Nat
    BY <1>9, <1>11, FS_CardinalityType
  <2> QED
    BY <2>1, <2>2, <2>3
<1>14. Cardinality(old \union places) <= Cardinality(new)
  BY <1>9, <1>12, FS_Subset
<1>15. /\ Cardinality(old) \in Nat /\ Cardinality(new) \in Nat
       /\ Cardinality(mine) \in Nat
  BY <1>8, <1>9, FS_CardinalityType
<1>16. ConcurrencyLimit(v, a) = ConcurrencyLimit(w, a) /\ ConcurrencyLimit(w, a) \in Nat
  BY <1>1 DEF ConcurrencyLimit, World
<1>17. ConcurrencyLimit(w, a) <= Cardinality(old) + FreeSlots(w, a)
  BY <1>15, <1>16 DEF FreeSlots, old
<1>18. ConcurrencyLimit(w, a) <= Cardinality(new)
  BY <1>10, <1>11, <1>13, <1>14, <1>15, <1>16, <1>17
<1>19. FreeSlots(v, a) = 0
  BY <1>15, <1>16, <1>18 DEF FreeSlots, new
<1> QED
  BY <1>19 DEF v

LEMMA DispatchLeavesNothingWaiting ==
    ASSUME NEW w \in World, w.conductor = NoAgent, NEW v \in DispatchExecutors(w)
    PROVE  Waiting(v) = {}
<1> DEFINE T == {t \in Task : ExecutorReady(w, t)}
<1>1. /\ "graph" \in Trigger /\ T \in SUBSET Task
      /\ v \in StartAssignees(w, T, "graph", Task)
  BY DEF Trigger, DispatchExecutors
<1>2. \A t \in Waiting(w) : t \in Assigned(w, T) /\ w.assignee[t] \in Agent
  BY DEF Waiting, Assigned, World
<1> HIDE DEF T
<1>3. PICK D \in SUBSET Assigned(w, T) :
        LET run == AssigneeRuns(w, "graph", Task, D) IN
        /\ FillsSlots(w, Assigned(w, T), D) /\ v = Started(w, run)
        /\ DOMAIN run = D
        /\ \A t \in D : /\ run[t] \in Run /\ run[t].status = "running"
                        /\ run[t].agent = w.assignee[t]
  BY <1>1, PassesStart
<1>4. D \subseteq Task
  BY <1>1 DEF Assigned
<1> DEFINE run == AssigneeRuns(w, "graph", Task, D)
<1>5. /\ v = Started(w, run) /\ DOMAIN run = D
      /\ \A t \in D : /\ run[t] \in Run /\ run[t].status = "running"
                      /\ run[t].agent = w.assignee[t]
  BY <1>3
<1> HIDE DEF run
<1>6. Extended(w, v)
  BY <1>4, <1>5, StartedExtends
<1> SUFFICES ASSUME NEW t \in Task, t \in Waiting(v) PROVE FALSE
  BY DEF Waiting
<1>7. t \in Waiting(w)
  BY <1>6, StartsMakeNothingWait
<1> DEFINE a == w.assignee[t]
<1>8. t \in Assigned(w, T) /\ a \in Agent
  BY <1>2, <1>7
<1>9. t \notin D
  <2> SUFFICES ASSUME t \in D PROVE FALSE
    OBVIOUS
  <2>1. v.runs[t] = Append(w.runs[t], run[t])
    BY <1>4, <1>5, StartedRuns
  <2>2. w.runs[t] \in Seq(Run) /\ run[t] \in Run
    BY <1>5, RunsOf
  <2>3. /\ DOMAIN v.runs[t] = 1..(Len(w.runs[t]) + 1) /\ Len(w.runs[t]) \in Nat
        /\ v.runs[t][Len(w.runs[t]) + 1] = run[t]
    BY <2>1, <2>2, Appended
  <2>4. Len(w.runs[t]) + 1 \in DOMAIN v.runs[t]
    BY <2>3
  <2> QED
    BY <2>3, <2>4, <1>5 DEF Waiting, ExecutorReady, HasRunningRun
<1>10. Cardinality({x \in D : w.assignee[x] = a}) = FreeSlots(w, a)
  BY <1>3, <1>8, <1>9 DEF FillsSlots
<1>11. {x \in D : w.assignee[x] = a} = {x \in DOMAIN run : run[x].agent = a}
  BY <1>5
<1>12. FreeSlots(v, a) = 0
  BY <1>4, <1>5, <1>8, <1>10, <1>11, StartsUseUpSlots
<1>13. v.assignee[t] = a
  BY <1>6 DEF Extended
<1> QED
  BY <1>12, <1>13 DEF Waiting

-----------------------------------------------------------------------------
(* What follows a pass leaves nothing waiting either.                       *)

LEMMA ConductedWaitForNothing ==
    ASSUME NEW w, w.conductor # NoAgent
    PROVE  Waiting(w) = {}
BY DEF Waiting

LEMMA ReconcileLeavesNothingWaiting ==
    ASSUME NEW w \in World, NEW v \in Reconcile(w)
    PROVE  Waiting(v) = {}
<1>1. v.conductor = w.conductor
  BY ReconcileChangesOnlyRuns DEF OnlyRuns
<1>2. CASE w.conductor = NoAgent
  BY <1>2, DispatchLeavesNothingWaiting DEF Reconcile
<1> QED
  BY <1>1, <1>2, ConductedWaitForNothing

LEMMA DispatchReadyLeavesNothingWaiting ==
    ASSUME NEW w \in World, Waiting(w) = {}, NEW T \in SUBSET Task,
           NEW v \in DispatchReady(w, T)
    PROVE  Waiting(v) = {}
<1>1. v.conductor = w.conductor
  BY DispatchReadyChangesOnlyRuns DEF OnlyRuns
<1>2. CASE w.conductor = NoAgent
  BY <1>2 DEF DispatchReady
<1> QED
  BY <1>1, <1>2, ConductedWaitForNothing

LEMMA ReconcileWorkspaceLeavesNothingWaiting ==
    ASSUME NEW w \in World, NEW v \in ReconcileWorkspace(w)
    PROVE  Waiting(v) = {}
<1> DEFINE candidates(x) ==
            {t \in Task :
                \/ NodeOnDeclaredGraph(x, t)
                \/ \A i \in DOMAIN x.runs[t] :
                    \/ x.runs[t][i].trigger = "graph_review"
                    \/ x.runs[t][i].status # "completed"}
<1>1. PICK x \in Reconcile(w) : v \in DispatchReady(x, candidates(x))
  BY DEF ReconcileWorkspace
<1>2. candidates(x) \in SUBSET Task
  OBVIOUS
<1> HIDE DEF candidates
<1>3. x \in World
  BY ReconcileChangesOnlyRuns DEF OnlyRuns
<1> QED
  BY <1>1, <1>2, <1>3, ReconcileLeavesNothingWaiting, DispatchReadyLeavesNothingWaiting

LEMMA ReleasedExtends ==
    ASSUME NEW w \in World, NEW released \in SUBSET Task,
           NEW v \in DispatchReleased(w, released)
    PROVE  Extended(w, v)
<1>1. PICK T \in SUBSET Task, C \in SUBSET Task : v \in StartAssignees(w, T, "issue", C)
  BY DEF DispatchReleased
<1>2. "issue" \in Trigger
  BY DEF Trigger
<1> QED
  BY <1>1, <1>2, PassesExtend

LEMMA ReleaseLeavesNothingWaiting ==
    ASSUME NEW w \in World, Waiting(w) = {}, NEW released \in SUBSET Task,
           NEW v \in Release(w, released)
    PROVE  Waiting(v) = {}
<1>1. CASE v \in DispatchReleased(w, released)
  BY <1>1, ReleasedExtends, StartsMakeNothingWait
<1>2. CASE v \in ReconcileWorkspace(w)
  BY <1>2, ReconcileWorkspaceLeavesNothingWaiting
<1> QED
  BY <1>1, <1>2 DEF Release

LEMMA FinishLeavesNothingWaiting ==
    ASSUME NEW w \in World, NEW released \in SUBSET Task, Finish(w, released)
    PROVE  Waiting(world') = {}
<1>1. PICK x \in Release(w, released) : world' \in ReconcileWorkspace(x)
  BY DEF Finish
<1>2. x \in World
  BY ReleaseChangesOnlyRuns DEF OnlyRuns
<1> QED
  BY <1>1, <1>2, ReconcileWorkspaceLeavesNothingWaiting

LEMMA AfterMessageLeavesNothingWaiting ==
    ASSUME NEW w \in World, NEW t, NEW i, NEW v \in AfterMessage(w, t, i)
    PROVE  Waiting(v) = {}
<1>1. CASE v \in Reconcile(w)
  BY <1>1, ReconcileLeavesNothingWaiting
<1>2. CASE \E x \in Reconcile(w) : v \in ReconcileWorkspace(x)
  <2>1. PICK x \in Reconcile(w) : v \in ReconcileWorkspace(x)
    BY <1>2
  <2>2. x \in World
    BY ReconcileChangesOnlyRuns DEF OnlyRuns
  <2> QED
    BY <2>1, <2>2, ReconcileWorkspaceLeavesNothingWaiting
<1> QED
  BY <1>1, <1>2 DEF AfterMessage

-----------------------------------------------------------------------------
(* Every command and event leaves nothing waiting, or starts one run.       *)

LEMMA SetTaskStatusForgetsNothing ==
    ASSUME IInv, NEW t \in Task, NEW s \in Status, SetTaskStatus(t, s)
    PROVE  Waiting(world') = {}
<1> DEFINE marked == WithStatus(world, t, s)
           w == IF s = "done" THEN MarkSucceeded(marked, t) ELSE marked
           synced == SyncIssueBlockerHold(w, IssueBlockingIds(w, t))
<1>1. Sound(w)
  BY WithStatusIsSound, MarkSucceededIsSound DEF IInv
<1>2. PICK x \in Reconcile(synced) : world' \in Release(x, WouldRelease(w, t))
  BY DEF SetTaskStatus
<1> HIDE DEF w
<1>3. synced \in World
  BY <1>1, SyncIsSound DEF Sound
<1> HIDE DEF synced
<1>4. WouldRelease(w, t) \in SUBSET Task
  BY DEF WouldRelease, IssueBlockingIds
<1>5. x \in World /\ Waiting(x) = {}
  BY <1>3, ReconcileChangesOnlyRuns, ReconcileLeavesNothingWaiting DEF OnlyRuns
<1> QED
  BY <1>2, <1>4, <1>5, ReleaseLeavesNothingWaiting

LEMMA DeleteTaskForgetsNothing ==
    ASSUME IInv, NEW t \in Task, DeleteTask(t)
    PROVE  Waiting(world') = {}
<1> DEFINE w == [world EXCEPT !.deleted = @ \union {t}]
           cut == [w EXCEPT !.issue_blockers = {p \in @ : t \notin {p[1], p[2]}}]
           synced == SyncIssueBlockerHold(cut, IssueBlockingIds(w, t))
<1>1. Finish(synced, WouldRelease(w, t))
  BY DEF DeleteTask
<1>2. cut \in World
  BY DEF IInv, Sound, World
<1>3. WouldRelease(w, t) \in SUBSET Task
  BY DEF WouldRelease, IssueBlockingIds
<1> HIDE DEF w, cut
<1>4. synced \in World
  BY <1>2, SyncIsAGate DEF OnlyGates
<1> QED
  BY <1>1, <1>3, <1>4, FinishLeavesNothingWaiting

LEMMA AddIssueBlockerForgetsNothing ==
    ASSUME IInv, NEW t \in Task, NEW b \in Task, AddIssueBlocker(t, b)
    PROVE  Waiting(world') = {}
<1> DEFINE w == [world EXCEPT !.issue_blockers = @ \union {<<t, b>>}]
           synced == SyncIssueBlockerHold(w, {t})
           none == {}
<1>1. Finish(world, none) \/ Finish(synced, none)
  BY DEF AddIssueBlocker
<1>2. world \in World /\ none \in SUBSET Task
  BY DEF IInv, Sound
<1>3. w \in World
  BY CheckedBlockerIsSound DEF AddIssueBlocker, IInv, Sound
<1> HIDE DEF w, none
<1>4. synced \in World
  BY <1>3, SyncIsAGate DEF OnlyGates
<1> QED
  BY <1>1, <1>2, <1>4, FinishLeavesNothingWaiting

LEMMA RemoveIssueBlockerForgetsNothing ==
    ASSUME IInv, NEW t \in Task, NEW b \in Task, RemoveIssueBlocker(t, b)
    PROVE  Waiting(world') = {}
<1> DEFINE w == [world EXCEPT !.issue_blockers = @ \ {<<t, b>>}]
           synced == SyncIssueBlockerHold(w, {t})
           released == WouldRelease(world, b) \intersect {t}
<1>1. Finish(synced, released)
  BY DEF RemoveIssueBlocker
<1>2. w \in World /\ released \in SUBSET Task
  BY DEF IInv, Sound, World
<1> HIDE DEF w, released
<1>3. synced \in World
  BY <1>2, SyncIsAGate DEF OnlyGates
<1> QED
  BY <1>1, <1>2, <1>3, FinishLeavesNothingWaiting

LEMMA SetWorkspaceConductorForgetsNothing ==
    ASSUME IInv, NEW c \in Agent \union {NoAgent}, SetWorkspaceConductor(c)
    PROVE  Waiting(world') = {}
<1> DEFINE w == [world EXCEPT !.conductor = c]
           none == {}
<1>1. Finish(w, none)
  BY DEF SetWorkspaceConductor
<1>2. w \in World /\ none \in SUBSET Task
  BY DEF IInv, Sound, World
<1> HIDE DEF w, none
<1> QED
  BY <1>1, <1>2, FinishLeavesNothingWaiting

LEMMA DeclareDependencyForgetsNothing ==
    ASSUME IInv, NEW e \in EdgeId, NEW s \in Task, NEW t \in Task,
           NEW kind \in EdgeKind, DeclareDependency(e, s, t, kind)
    PROVE  Waiting(world') = {}
<1>1. PICK w \in Recorded(world, e, s, t, kind) : world' \in Reconcile(w)
  BY DEF DeclareDependency
<1>2. w \in World
  BY <1>1, RecordedIsSound DEF DeclareDependency, IInv, Sound
<1> QED
  BY <1>1, <1>2, ReconcileLeavesNothingWaiting

LEMMA ReaffirmDependencyForgetsNothing ==
    ASSUME IInv, NEW e \in Live(world), ReaffirmDependency(e)
    PROVE  Waiting(world') = {}
<1>1. PICK x \in Reconcile(Reaffirmed(world, e)) :
        world' \in DispatchReady(x, {world.dependencies[e].target})
  BY DEF ReaffirmDependency
<1>2. {world.dependencies[e].target} \in SUBSET Task
  BY DEF IInv, Sound, World, Live, Edge
<1>3. Reaffirmed(world, e) \in World
  BY ReaffirmedIsSound DEF IInv, Sound
<1>4. x \in World /\ Waiting(x) = {}
  BY <1>3, ReconcileChangesOnlyRuns, ReconcileLeavesNothingWaiting DEF OnlyRuns
<1> QED
  BY <1>1, <1>2, <1>4, DispatchReadyLeavesNothingWaiting

LEMMA RemoveDependencyForgetsNothing ==
    ASSUME IInv, NEW e \in Live(world), RemoveDependency(e)
    PROVE  Waiting(world') = {}
<1>1. Without(world, e) \in World /\ world' \in Reconcile(Without(world, e))
  BY WithoutIsSound DEF RemoveDependency, IInv, Sound
<1> QED
  BY <1>1, ReconcileLeavesNothingWaiting

LEMMA ValidationDecisionForgetsNothing ==
    ASSUME IInv, NEW e \in Live(world), NEW choice \in Decision,
           ValidationDecision(e, choice)
    PROVE  Waiting(world') = {}
<1> DEFINE none == {}
<1>1. Decided(world, e, choice) \in World /\ none \in SUBSET Task
  BY DecidedIsSound DEF IInv, Sound
<1>2. Finish(Decided(world, e, choice), none)
  BY DEF ValidationDecision
<1> HIDE DEF none
<1> QED
  BY <1>1, <1>2, FinishLeavesNothingWaiting

LEMMA OneStartForgetsNothing ==
    ASSUME IInv, NEW t \in Task, NEW run \in Run, run.status = "running",
           world' = Started(world, [x \in {t} |-> run])
    PROVE  Waiting(world') \subseteq Waiting(world)
<1> DEFINE runs == [x \in {t} |-> run]
<1>1. /\ DOMAIN runs \subseteq Task /\ world \in World
      /\ \A x \in DOMAIN runs : runs[x] \in Run /\ runs[x].status = "running"
  BY DEF IInv, Sound
<1>2. world' = Started(world, runs)
  OBVIOUS
<1> HIDE DEF runs
<1>3. Extended(world, Started(world, runs))
  BY <1>1, StartedExtends
<1> QED
  BY <1>1, <1>2, <1>3, StartsMakeNothingWait

LEMMA StartRunForgetsNothing ==
    ASSUME IInv, NEW t \in Task, NEW a \in Agent, StartRun(t, a)
    PROVE  Waiting(world') \subseteq Waiting(world)
<1> DEFINE run == NewRun(a, "issue", 0, {})
<1>1. run \in Run /\ run.status = "running"
  BY NewRunsAreTyped DEF Trigger, Fingerprint, NewRun
<1>2. world' = Started(world, [x \in {t} |-> run])
  BY DEF StartRun
<1> HIDE DEF run
<1> QED
  BY <1>1, <1>2, OneStartForgetsNothing

LEMMA RetryRunForgetsNothing ==
    ASSUME IInv, NEW t \in Task, NEW i \in DOMAIN world.runs[t], RetryRun(t, i)
    PROVE  Waiting(world') \subseteq Waiting(world)
<1> DEFINE
    old == world.runs[t][i]
    isReview == old.trigger = "graph_review"
    agent == IF isReview THEN world.conductor ELSE old.agent
    trigger == IF isReview THEN "graph_review" ELSE "issue"
    attempt == IF old.lease = "none" THEN 0 ELSE NextAttempt(world, t)
    run == NewRun(agent, trigger, attempt, old.fingerprint)
<1>1. agent # NoAgent /\ world' = Started(world, [x \in {t} |-> run])
  BY DEF RetryRun
<1>2. agent \in Agent
  BY <1>1, RunsAreTyped DEF IInv, Sound, World, Run
<1>3. trigger \in Trigger /\ attempt \in Nat /\ old.fingerprint \in Fingerprint
  BY RunsAreTyped, AttemptsAreNumbered DEF Trigger, Run, IInv, Sound
<1> HIDE DEF agent, trigger, attempt
<1>4. run \in Run /\ run.status = "running"
  BY <1>2, <1>3, NewRunsAreTyped DEF NewRun
<1> HIDE DEF run
<1> QED
  BY <1>1, <1>4, OneStartForgetsNothing

LEMMA ApplyPatchForgetsNothing ==
    ASSUME IInv, NEW t \in Task, ApplyPatch(t)
    PROVE  Waiting(world') = {}
<1> DEFINE w == Invalidated(world, t)
           T == LiveConsumers(world, t)
           v == PauseStaleConsumers(w, T)
<1>1. world' \in ReconcileWorkspace(v)
  BY DEF ApplyPatch
<1>2. Sound(w)
  BY InvalidatedIsSound DEF IInv
<1> HIDE DEF w, T
<1>3. v \in World
  BY <1>2, PausingIsSound DEF Sound
<1> HIDE DEF v
<1> QED
  BY <1>1, <1>3, ReconcileWorkspaceLeavesNothingWaiting

LEMMA HarnessProgressForgetsNothing ==
    ASSUME IInv, NEW t \in Task, NEW i \in DOMAIN world.runs[t],
           HarnessProgress(t, i)
    PROVE  Waiting(world') = {}
BY AfterMessageLeavesNothingWaiting, ReconcileLeavesNothingWaiting
   DEF HarnessProgress, IInv, Sound

LEMMA HarnessDependsForgetsNothing ==
    ASSUME IInv, NEW t \in Task, NEW i \in DOMAIN world.runs[t],
           NEW e \in EdgeId, NEW s \in Task, HarnessDepends(t, i, e, s)
    PROVE  Waiting(world') = {}
<1>1. PICK w \in Recorded(world, e, s, t, "consumes") : world' \in AfterMessage(w, t, i)
  BY DEF HarnessDepends
<1>2. "consumes" \in EdgeKind
  BY DEF EdgeKind
<1>3. w \in World
  BY <1>1, <1>2, RecordedIsSound DEF HarnessDepends, IInv, Sound
<1> QED
  BY <1>1, <1>3, AfterMessageLeavesNothingWaiting

LEMMA HarnessDriftForgetsNothing ==
    ASSUME IInv, NEW t \in Task, NEW i \in DOMAIN world.runs[t],
           HarnessDrift(t, i)
    PROVE  Waiting(world') = {}
<1> DEFINE run == [world.runs[t][i] EXCEPT !.status = "paused", !.was_paused = TRUE]
           paused == [world EXCEPT !.runs[t][i] = run]
           one == {t}
<1>1. world' \in AfterMessage(Held(paused, one, "gate"), t, i)
  BY DEF HarnessDrift
<1>2. run \in Run
  BY RunsAreTyped, PausedRuns DEF HarnessDrift, Running
<1> HIDE DEF run, one
<1>3. Sound(paused)
  BY <1>2, RunReplacedIsSound DEF IInv
<1> HIDE DEF paused
<1>4. Held(paused, one, "gate") \in World
  BY <1>3, HoldIsSound DEF Sound
<1> QED
  BY <1>1, <1>4, AfterMessageLeavesNothingWaiting

LEMMA HarnessPatchConflictForgetsNothing ==
    ASSUME IInv, NEW t \in Task, NEW i, HarnessPatchConflict(t, i)
    PROVE  Waiting(world') = {}
<1> DEFINE one == {t}
<1>1. world' \in Reconcile(Held(world, one, "gate"))
  BY DEF HarnessPatchConflict
<1> HIDE DEF one
<1>2. Held(world, one, "gate") \in World
  BY HoldIsSound DEF IInv, Sound
<1> QED
  BY <1>1, <1>2, ReconcileLeavesNothingWaiting

LEMMA HarnessVerdictForgetsNothing ==
    ASSUME IInv, NEW t \in Task, NEW i \in DOMAIN world.runs[t],
           NEW e \in Live(world), NEW choice \in Decision,
           HarnessVerdict(t, i, e, choice)
    PROVE  Waiting(world') = {}
<1> DEFINE run == [world.runs[t][i] EXCEPT !.lease = "succeeded"]
           w == [world EXCEPT !.runs[t][i] = run]
<1>1. world \in World /\ run \in Run
  BY RunsAreTyped DEF IInv, Sound, Run, Lease
<1>2. w = [world EXCEPT !.runs[t][i].lease = "succeeded"]
  <2>1. world.runs \in [Task -> Seq(Run)] /\ world.runs[t] \in Seq(Run)
    BY <1>1 DEF World
  <2> QED
    BY <1>1, <2>1 DEF World
<1>3. world' \in AfterMessage(Decided(w, e, choice), t, i)
  BY <1>2 DEF HarnessVerdict
<1>4. w.dependencies = world.dependencies
  BY <1>1 DEF World
<1> HIDE DEF run
<1>5. Sound(w)
  BY <1>1, RunReplacedIsSound DEF IInv
<1> HIDE DEF w
<1>6. e \in Live(w)
  BY <1>4 DEF Live
<1>7. Decided(w, e, choice) \in World
  BY <1>5, <1>6, DecidedIsSound DEF Sound
<1> QED
  BY <1>3, <1>7, AfterMessageLeavesNothingWaiting

LEMMA HarnessSessionEndForgetsNothing ==
    ASSUME RIInv, NEW t \in Task, NEW i \in DOMAIN world.runs[t],
           NEW ok \in BOOLEAN, HarnessSessionEnd(t, i, ok), ~EndsInconclusive(t, i)
    PROVE  Waiting(world') = {}
<1> DEFINE old == world.runs[t][i]
           v == EnsureAttempt(world, t, i)
           w == SessionEnded(v, t, i, ok)
           run == w.runs[t][i]
           inconclusive == ok /\ run.trigger = "graph_review" /\ run.lease # "succeeded"
<1>1. Calm(world, v) /\ v.runs[t][i].status = "running"
  BY EnsureAttemptIsCalm DEF RIInv, IInv, HarnessSessionEnd, Running
<1>2. Sound(v) /\ i \in DOMAIN v.runs[t]
  BY EnsureAttemptIsSound DEF RIInv, IInv
<1>3. PICK x \in (IF inconclusive THEN {w} ELSE Reconcile(w)) :
        \/ world' = x
        \/ world' \in ReconcileWorkspace(x)
        \/ \E y \in DispatchReady(x, SuccessorTaskIds(x, t)) :
                world' \in ReconcileWorkspace(y)
  <2> HIDE DEF w
  <2>1. PICK x \in (IF inconclusive THEN {w} ELSE Reconcile(w)) :
            IF ~ok \/ w.conductor = NoAgent THEN world' = x
            ELSE IF IsConductorReview(w, run)
            THEN world' \in (IF run.lease = "succeeded"
                             THEN ReconcileWorkspace(x) ELSE {x})
            ELSE \E y \in DispatchReady(x, SuccessorTaskIds(x, t)) :
                    world' \in ReconcileWorkspace(y)
    BY DEF HarnessSessionEnd, w
  <2> QED
    BY <2>1
<1> HIDE DEF v
<1>4. Calm(v, w)
  BY <1>1, <1>2, SessionEndedIsCalm DEF Calm
<1> HIDE DEF w
<1>5. Calm(world, w)
  BY <1>1, <1>4, CalmTransitive
<1>6. Kept(old, run) /\ w \in World
  BY <1>5 DEF Calm, Fit
<1>7. ~inconclusive
  <2>1. ok /\ old.trigger = "graph_review" /\ old.lease # "succeeded" => EndsInconclusive(t, i)
    BY DEF EndsInconclusive
  <2> QED
    BY <2>1, <1>6 DEF Kept
<1>8. x \in World /\ Waiting(x) = {}
  BY <1>3, <1>6, <1>7, ReconcileChangesOnlyRuns, ReconcileLeavesNothingWaiting
     DEF OnlyRuns
<1>9. SuccessorTaskIds(x, t) \in SUBSET Task
  BY <1>8 DEF SuccessorTaskIds, IssueBlockingIds, LiveConsumers, Live, World, Edge
<1>10. \A y \in DispatchReady(x, SuccessorTaskIds(x, t)) : y \in World
  BY <1>8, <1>9, DispatchReadyChangesOnlyRuns DEF OnlyRuns
<1> QED
  BY <1>3, <1>8, <1>10, ReconcileWorkspaceLeavesNothingWaiting

-----------------------------------------------------------------------------
(* The theorem.                                                             *)

LEMMA TaskCommandForgetsNothing ==
    ASSUME IInv, NEW in \in InputSets, TaskCommand(in), ~ReconcilesNothing
    PROVE  Waiting(world') = {}
<1>1. CASE \E p \in in.status : SetTaskStatus(p[1], p[2])
  BY <1>1, SetTaskStatusForgetsNothing DEF InputSets
<1>2. CASE \E t \in in.delete : DeleteTask(t)
  BY <1>2, DeleteTaskForgetsNothing DEF InputSets
<1>3. CASE \E p \in in.blocker : AddIssueBlocker(p[1], p[2])
  BY <1>3, AddIssueBlockerForgetsNothing DEF InputSets
<1>4. CASE \E p \in in.blocker : RemoveIssueBlocker(p[1], p[2])
  BY <1>4, RemoveIssueBlockerForgetsNothing DEF InputSets
<1>5. CASE \E c \in in.conductor : SetWorkspaceConductor(c)
  BY <1>5, SetWorkspaceConductorForgetsNothing DEF InputSets
<1>6. in.reorder \subseteq (SUBSET Task) \X Status /\ in.merged \subseteq Task
  BY DEF InputSets
<1>7. /\ \A p \in in.reorder : ~ReorderTasks(p[1], p[2])
      /\ \A D \in SUBSET in.merged : ~SyncGithubPullRequests(D)
  BY <1>6 DEF ReconcilesNothing
<1> QED
  BY <1>1, <1>2, <1>3, <1>4, <1>5, <1>7 DEF TaskCommand

LEMMA EdgeCommandForgetsNothing ==
    ASSUME IInv, NEW in \in InputSets, EdgeCommand(in)
    PROVE  Waiting(world') = {}
<1>1. CASE \E e \in EdgeId, p \in in.edge :
            DeclareDependency(e, p[1], p[2], p[3])
  BY <1>1, DeclareDependencyForgetsNothing DEF InputSets
<1>2. CASE \E e \in Live(world) : ReaffirmDependency(e)
  BY <1>2, ReaffirmDependencyForgetsNothing
<1>3. CASE \E e \in Live(world) : RemoveDependency(e)
  BY <1>3, RemoveDependencyForgetsNothing
<1>4. CASE \E e \in Live(world), c \in in.decision : ValidationDecision(e, c)
  BY <1>4, ValidationDecisionForgetsNothing DEF InputSets
<1> QED
  BY <1>1, <1>2, <1>3, <1>4 DEF EdgeCommand

LEMMA RunCommandForgetsNothing ==
    ASSUME IInv, NEW in \in InputSets, RunCommand(in), ~ReconcilesNothing
    PROVE  Waiting(world') \subseteq Waiting(world)
<1>1. CASE \E p \in in.starter : StartRun(p[1], p[2])
  BY <1>1, StartRunForgetsNothing DEF InputSets
<1>2. CASE \E t \in in.patch : ApplyPatch(t)
  BY <1>2, ApplyPatchForgetsNothing DEF InputSets
<1>3. CASE \E t \in Task : \E i \in DOMAIN world.runs[t] : RetryRun(t, i)
  BY <1>3, RetryRunForgetsNothing
<1>4. in.patch \subseteq Task /\ in.chat \subseteq Task
  BY DEF InputSets
<1>5. /\ \A t \in in.patch : ~ApplyPatchConflict(t)
      /\ \A t \in in.chat : ~StopChat(t)
      /\ \A t \in Task : \A i \in DOMAIN world.runs[t] : ~CancelRun(t, i)
  BY <1>4 DEF ReconcilesNothing
<1> QED
  BY <1>1, <1>2, <1>3, <1>5 DEF RunCommand

LEMMA HarnessEventForgetsNothing ==
    ASSUME RIInv, NEW in \in InputSets, HarnessEvent(in),
           \A t \in Task : \A i \in DOMAIN world.runs[t] : ~EndsInconclusive(t, i)
    PROVE  Waiting(world') = {}
<1>1. PICK t \in Task : \E i \in DOMAIN world.runs[t] :
        \/ HarnessProgress(t, i)
        \/ \E e \in EdgeId, p \in in.edge : HarnessDepends(t, i, e, p[1])
        \/ HarnessDrift(t, i)
        \/ HarnessPatchConflict(t, i)
        \/ \E e \in Live(world), c \in in.decision : HarnessVerdict(t, i, e, c)
        \/ HarnessSessionEnd(t, i, TRUE)
        \/ HarnessSessionEnd(t, i, FALSE)
  BY DEF HarnessEvent
<1>2. PICK i \in DOMAIN world.runs[t] :
        \/ HarnessProgress(t, i)
        \/ \E e \in EdgeId, p \in in.edge : HarnessDepends(t, i, e, p[1])
        \/ HarnessDrift(t, i)
        \/ HarnessPatchConflict(t, i)
        \/ \E e \in Live(world), c \in in.decision : HarnessVerdict(t, i, e, c)
        \/ HarnessSessionEnd(t, i, TRUE)
        \/ HarnessSessionEnd(t, i, FALSE)
  BY <1>1
<1>3. IInv
  BY DEF RIInv
<1>4. CASE HarnessProgress(t, i)
  BY <1>3, <1>4, HarnessProgressForgetsNothing
<1>5. CASE \E e \in EdgeId, p \in in.edge : HarnessDepends(t, i, e, p[1])
  BY <1>3, <1>5, HarnessDependsForgetsNothing DEF InputSets
<1>6. CASE HarnessDrift(t, i)
  BY <1>3, <1>6, HarnessDriftForgetsNothing
<1>7. CASE HarnessPatchConflict(t, i)
  BY <1>3, <1>7, HarnessPatchConflictForgetsNothing
<1>8. CASE \E e \in Live(world), c \in in.decision : HarnessVerdict(t, i, e, c)
  BY <1>3, <1>8, HarnessVerdictForgetsNothing DEF InputSets
<1>9. CASE \E ok \in BOOLEAN : HarnessSessionEnd(t, i, ok)
  BY <1>9, HarnessSessionEndForgetsNothing
<1> QED
  BY <1>2, <1>4, <1>5, <1>6, <1>7, <1>8, <1>9

\* A step that makes a node ready, or frees a slot of an agent, starts what
\* the free slots allow before the command or event returns (reconcile_graph
\* and the paths through it): none of it waits for a later step, except after
\* the seven kinds of step that ReconcilesNothing names.
THEOREM NoNodeIsForgotten == Spec => NoNodeForgotten
<1>1. RIInv /\ [Next]_world =>
        [Waiting(world') \subseteq Waiting(world) \/ ReconcilesNothing]_world
  <2> SUFFICES ASSUME RIInv, Next, ~ReconcilesNothing
               PROVE  Waiting(world') \subseteq Waiting(world)
    OBVIOUS
  <2>1. IInv /\ Inputs \in InputSets
    BY InputsAssumption DEF RIInv
  <2>2. CASE TaskCommand(Inputs)
    BY <2>1, <2>2, TaskCommandForgetsNothing
  <2>3. CASE EdgeCommand(Inputs)
    BY <2>1, <2>3, EdgeCommandForgetsNothing
  <2>4. CASE RunCommand(Inputs)
    BY <2>1, <2>4, RunCommandForgetsNothing
  <2>5. CASE HarnessEvent(Inputs)
    <3>1. \A t \in Task : \A i \in DOMAIN world.runs[t] : ~EndsInconclusive(t, i)
      BY DEF ReconcilesNothing
    <3> QED
      BY <2>1, <2>5, <3>1, HarnessEventForgetsNothing
  <2>6. ~Restart
    BY DEF ReconcilesNothing
  <2> QED
    BY <2>2, <2>3, <2>4, <2>5, <2>6 DEF Next, Step
<1> QED
  BY <1>1, Fitness, PTL DEF Spec, NoNodeForgotten
=============================================================================
