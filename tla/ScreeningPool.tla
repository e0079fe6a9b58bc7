----------------------------- MODULE ScreeningPool -----------------------------
(***************************************************************************)
(* From windows to candidates.  Every session that holds a window of the   *)
(* same Goal and boundary adds an observation to one opportunity; from the *)
(* opportunities a bounded, Goal-balanced list of candidates is drawn,     *)
(* some places of which are kept for windows where nothing was noticed.    *)
(***************************************************************************)
EXTENDS Naturals, Sequences, FiniteSets, SequencesExt

CONSTANTS Keys,          \* pairs of a Goal and a boundary, numbered
          RootOf,        \* the Goal of each
          Observations,  \* what one session's window may look like
          MaxSessions,   \* bound on the sessions scanned
          HighPlaces, ProbePlaces, MaxCandidates  \* 6, 3 and 30 in the program

ConstantsAreSound == /\ Keys \subseteq Nat /\ RootOf \in [Keys -> Nat]
                     /\ {HighPlaces, ProbePlaces, MaxCandidates, MaxSessions} \subseteq Nat

VARIABLES
  seen,        \* the windows of the sessions scanned so far, in order
  pool,        \* the opportunities, in the order of their first observation
  candidates   \* the keys drawn, in order; <<>> before the draw

vars == <<seen, pool, candidates>>

Keyed(seq, k) == {i \in DOMAIN seq : seq[i].key = k}
\* Outcomes first, then signals, then actions.
Outranks(a, b) == \/ a.outcome /\ ~b.outcome
                  \/ a.outcome = b.outcome /\ Cardinality(a.signals) > Cardinality(b.signals)
                  \/ /\ a.outcome = b.outcome /\ Cardinality(a.signals) = Cardinality(b.signals)
                     /\ a.actions > b.actions

Least(m, n) == IF m < n THEN m ELSE n
Larger(m, n) == IF m > n THEN m ELSE n

\* The opportunity gathers what any session showed; the session it is
\* reviewed in changes when the new window outranks all that was gathered.
Merge(x, o, session) ==
  [x EXCEPT !.count = @ + 1,
            !.pre = @ \/ o.pre, !.outcome = @ \/ o.outcome,
            !.signals = @ \cup o.signals,
            !.actions = Larger(@, o.actions),
            !.session = IF Outranks(o, x) THEN session ELSE @]

Opportunity(o, session) ==
  [key |-> o.key, pre |-> o.pre, outcome |-> o.outcome, signals |-> o.signals,
   actions |-> o.actions, session |-> session, count |-> 1]

\* One more session's window is read.
Observe(o) ==
  LET session == Len(seen) + 1 IN
  /\ candidates = <<>> /\ Len(seen) < MaxSessions
  /\ seen' = Append(seen, o)
  /\ pool' = IF Keyed(pool, o.key) = {} THEN Append(pool, Opportunity(o, session))
             ELSE [i \in DOMAIN pool |-> IF pool[i].key = o.key THEN Merge(pool[i], o, session)
                                         ELSE pool[i]]
  /\ UNCHANGED candidates

-----------------------------------------------------------------------------
Structural(x) == x.pre /\ x.actions > 0
Root(x) == RootOf[x.key]

\* The Goals take turns, in the order of an age that each of them has.
Balanced(seq, limit, age) ==
  LET turn(i) == Cardinality({j \in 1..i : Root(seq[j]) = Root(seq[i])})
      order == SetToSortSeq(DOMAIN seq, LAMBDA i, j :
                 turn(i) < turn(j) \/ (turn(i) = turn(j) /\ age[seq[i]] < age[seq[j]]))
  IN [i \in 1..Least(Len(seq), limit) |-> seq[order[i]].key]

\* The best first: structural, with an outcome, with more signals and actions;
\* then in the order of the boundaries' times, which the keys stand for.
Before(x, y) ==
  LET less(a, b) == a < b
      num(b) == IF b THEN 0 ELSE 1
      rank(z) == <<num(Structural(z)), num(z.outcome), 9 - Cardinality(z.signals), 9 - z.actions, z.key>>
  IN \E d \in 1..5 : /\ rank(x)[d] < rank(y)[d]
                     /\ \A e \in 1..(d - 1) : rank(x)[e] = rank(y)[e]
ByRank(seq, limit) ==
  LET ranked == SetToSortSeq({seq[i] : i \in DOMAIN seq}, Before)
      first == [x \in ToSet(ranked) |-> Min({i \in DOMAIN ranked : Root(ranked[i]) = Root(x)})]
  IN Balanced(ranked, limit, first)

\* Drawn in the order of hashes of the Goal and of the opportunity, which the
\* numbers stand for.
Sample(seq, limit) ==
  LET hashed == SetToSortSeq(ToSet(seq), LAMBDA x, y : x.key < y.key)
  IN Balanced(hashed, limit, [x \in ToSet(seq) |-> Root(x)])
Among(P(_)) == SelectSeq(pool, P)

\* High signals, probes of the unnoticed, healthy ones, and then by rank.
Drawn ==
  ByRank(Among(LAMBDA x : x.signals # {} /\ x.outcome), HighPlaces)
  \o Sample(Among(LAMBDA x : Structural(x) /\ x.signals = {}), ProbePlaces)
  \o Sample(Among(LAMBDA x : Structural(x) /\ ~x.outcome), ProbePlaces)
  \o ByRank(pool, MaxCandidates)

\* What is drawn a second time is passed over.
Draw ==
  LET drawn == Drawn
      fresh == {i \in DOMAIN drawn : \A j \in 1..(i - 1) : drawn[j] # drawn[i]}
      kept == SetToSortSeq(fresh, <)
  IN /\ candidates = <<>> /\ pool # <<>>
     /\ candidates' = [i \in 1..Least(Len(kept), MaxCandidates) |-> drawn[kept[i]]]
     /\ UNCHANGED <<seen, pool>>

PoolInit == seen = <<>> /\ pool = <<>> /\ candidates = <<>>
PoolNext == (\E o \in Observations : Observe(o)) \/ Draw
PoolSpec == PoolInit /\ [][PoolNext]_vars
-----------------------------------------------------------------------------
Drawns == {candidates[i] : i \in DOMAIN candidates}
IsDrawn == candidates # <<>>
Pool == {pool[i] : i \in DOMAIN pool}

\* One opportunity for each Goal and boundary, counting each session once, and
\* no candidate twice.
PoolTypeOK == /\ \A x \in Pool : Cardinality(Keyed(pool, x.key)) = 1
                                 /\ x.count = Cardinality(Keyed(seen, x.key))
              /\ Cardinality(Drawns) = Len(candidates) /\ Len(candidates) <= MaxCandidates

\* An opportunity with an outcome is reviewed in a session whose own window
\* has one: its card can show what the opportunity was chosen for.
ReviewedWhereItHurt == \A x \in Pool :
  /\ seen[x.session].key = x.key
  /\ x.outcome => seen[x.session].outcome

\* Candidates leave nothing out unless every place is taken.
NothingLeftOutForNothing ==
  IsDrawn => Len(candidates) = Least(MaxCandidates, Len(pool))

\* However many windows were noticed, the windows where nothing was noticed
\* keep their places.
UnnoticedKeepTheirPlaces ==
  LET unnoticed == {x.key : x \in {y \in Pool : Structural(y) /\ y.signals = {}}} IN
  IsDrawn /\ MaxCandidates >= HighPlaces + ProbePlaces =>
    Cardinality(unnoticed \cap Drawns) >= Least(ProbePlaces, Cardinality(unnoticed))
=============================================================================
