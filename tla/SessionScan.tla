------------------------------ MODULE SessionScan ------------------------------
(***************************************************************************)
(* Four readings of one session's log: the screening cuts it into windows  *)
(* at the compaction boundaries, the state packets and the causal packets  *)
(* reconstruct each window for the judges, and the evidence card does for  *)
(* people.  Each recognises the markers of one boundary in its own way.    *)
(* A row of the log is its number; a time is a number of seconds.          *)
(***************************************************************************)
EXTENDS Naturals, Sequences, FiniteSets, FiniteSetsExt

CONSTANTS Kinds,    \* the kinds of rows a log of this instance has
          Gaps,     \* seconds between a row and the next
          Budget,   \* rows for which an announced failure is expected
          MaxRows   \* bound on the log's length

VARIABLES
  log,      \* [kind, at, call]: an output names the row of its call
  windows,  \* screening: [row, state, first, hurt]
  marks,    \* screening: the last marker's row, and whether state was seen yet
  grace,    \* screening: rows an announced failure is still expected for
  packets,  \* state packets: [row, summary, plan]
  causal,   \* causal packets: [row, actions, outcomes, followups]
  calls     \* causal scan: the calls an output may answer

vars == <<log, windows, marks, grace, packets, causal, calls>>

Markers == {"compacted", "context_compacted"}
Users == {"user", "correction"}
Here == Len(log) + 1
Apart(a, b) == IF a < b THEN b - a ELSE a - b
\* Timestamps no more than five seconds apart.
AreClose(a, b) == Apart(a, b) <= 5
At(row) == log[row].at
Is(row, kinds) == log[row].kind \in kinds
Rows(from, to, kinds) == {r \in from..to : r \in DOMAIN log /\ Is(r, kinds)}
ToLast(seq, F(_)) == IF seq = <<>> THEN seq ELSE [seq EXCEPT ![Len(seq)] = F(seq[Len(seq)])]

-----------------------------------------------------------------------------
\* screening: markers within five rows and five seconds of the last marker are
\* the same boundary's.
SameBoundary(at) == marks.row > 0 /\ Here - marks.row <= 5 /\ AreClose(At(marks.row), at)

Opens(kind, at) == kind \in Markers /\ ~SameBoundary(at)

\* Calls that undo something, failing outputs and people's corrections.
Consequences == {"rollback", "failure", "correction"}
Actions == {"assistant", "announce", "call", "rollback"}

\* An agent that announces a failure is excused for it: for some rows, and
\* until the first failure however late that comes.
Expected == grace.left > 0 \/ grace.pending
GraceAfter(kind) ==
  IF kind = "announce" THEN [left |-> Budget, pending |-> TRUE]
  ELSE [left |-> IF grace.left > 0 THEN grace.left - 1 ELSE 0,
        pending |-> grace.pending /\ kind # "failure"]

ScreenRow(kind, at) ==
  LET seen(w) == [w EXCEPT
        !.first = IF @ = 0 /\ kind \in Actions THEN Here ELSE @,
        !.hurt = @ \/ kind \in {"rollback", "correction"} \/ (kind = "failure" /\ ~Expected)]
  IN /\ windows' = IF Opens(kind, at)
                   THEN Append(windows, [row |-> Here, state |-> marks.state, first |-> 0,
                                         hurt |-> FALSE])
                   ELSE ToLast(windows, seen)
     /\ marks' = [row |-> IF kind \in Markers THEN Here ELSE marks.row,
                  state |-> marks.state \/ kind \in Users]
     /\ grace' = GraceAfter(kind)

\* A scan is inside its last packet until a marker that is not close to it.
Inside(scan) == scan # <<>> /\
  \A r \in Rows(scan[Len(scan)].row + 1, Len(log), Markers) : AreClose(At(scan[Len(scan)].row), At(r))
Merges(scan, at) == Inside(scan) /\ AreClose(At(scan[Len(scan)].row), at)

\* State packets: a marker close to the packet's boundary adds to its summary,
\* any other ends the packet and starts one if it is an opportunity's.
StateRow(kind, at, target) ==
  LET summary(p) == [p EXCEPT !.summary = @ \cup {Here}]
      plan(p) == IF kind \in {"assistant", "announce"} THEN [p EXCEPT !.plan = @ \cup {Here}] ELSE p
  IN packets' = CASE kind \in Markers /\ Merges(packets, at) -> ToLast(packets, summary)
                  [] kind \in Markers /\ ~Merges(packets, at) /\ target ->
                       Append(packets, [row |-> Here, summary |-> {Here}, plan |-> {}])
                  [] kind \notin Markers /\ Inside(packets) -> ToLast(packets, plan)
                  [] OTHER -> packets

-----------------------------------------------------------------------------
\* Mutant: calls made before the boundary still wait for their outputs.
CausalRowKeepsCalls(kind, at, call, target) ==
  LET add(p) == [p EXCEPT
        !.actions = @ \cup {r \in {Here} : kind \in {"call", "rollback"}},
        !.outcomes = @ \cup {r \in {call} : kind \in {"output", "failure"} /\ call \in calls},
        !.followups = @ \cup {r \in {Here} : kind \in Users}]
  IN /\ causal' = CASE kind \in Markers /\ target ->
                         Append(causal, [row |-> Here, actions |-> {}, outcomes |-> {}, followups |-> {}])
                    [] kind \notin Markers /\ Inside(causal) -> ToLast(causal, add)
                    [] OTHER -> causal
     /\ calls' = calls \cup {r \in {Here} : kind \in {"call", "rollback"}}

\* Causal packets: a marker that is a target is never merged; a boundary
\* forgets the calls before it, so a late output is nobody's outcome.
CausalRow(kind, at, call, target) ==
  LET add(p) == [p EXCEPT
        !.actions = @ \cup {r \in {Here} : kind \in {"call", "rollback", "patch"}},
        !.outcomes = @ \cup {r \in {call} : kind \in {"output", "failure"} /\ call \in calls}
                       \cup {r \in {Here} : kind = "patch"},
        !.followups = @ \cup {r \in {Here} : kind \in Users}]
  IN /\ causal' = CASE kind \in Markers /\ target ->
                         Append(causal, [row |-> Here, actions |-> {}, outcomes |-> {}, followups |-> {}])
                    [] kind \notin Markers /\ Inside(causal) -> ToLast(causal, add)
                    [] OTHER -> causal
     /\ calls' = CASE kind \in Markers -> IF Merges(causal, at) /\ ~target THEN calls ELSE {}
                   [] kind \in {"call", "rollback"} -> calls \cup {Here}
                   [] OTHER -> calls

-----------------------------------------------------------------------------
\* The next row of the log, read by all of them.
ReadRow(kind, gap, call) ==
  LET at == IF log = <<>> THEN 0 ELSE At(Len(log)) + gap
      target == Opens(kind, at)
  IN /\ Len(log) < MaxRows
     /\ kind \in {"output", "failure"} => call > 0 /\ Is(call, {"call", "rollback"})
     /\ kind \notin {"output", "failure"} => call = 0
     /\ log' = Append(log, [kind |-> kind, at |-> at, call |-> call])
     /\ ScreenRow(kind, at) /\ StateRow(kind, at, target)
     /\ CausalRow(kind, at, call, target)

ScanInit == /\ log = <<>> /\ windows = <<>> /\ marks = [row |-> 0, state |-> FALSE]
            /\ grace = [left |-> 0, pending |-> FALSE]
            /\ packets = <<>> /\ causal = <<>> /\ calls = {}

ScanNext == \E kind \in Kinds, gap \in Gaps, call \in 0..Len(log) : ReadRow(kind, gap, call)

ScanSpec == ScanInit /\ [][ScanNext]_vars
-----------------------------------------------------------------------------
\* The opportunity's event: the first thing done after the boundary.
Target(w) == IF w.first = 0 THEN w.row ELSE w.first

\* The card's cutoff: the last marker before the target, or the primary one
\* that marker is paired with.
Cutoff(w) ==
  LET before == Rows(1, Target(w) - 1, Markers)
      last == Max(before \cup {0})
      primary == {r \in before : Is(r, {"compacted"}) /\ last - r <= 5 /\ AreClose(At(r), At(last))}
  IN IF last > 0 /\ ~Is(last, {"compacted"}) /\ primary # {} THEN Max(primary) ELSE last

\* What happened after the boundary: from past its paired markers to the next.
CausalRows(w) ==
  LET cut == Cutoff(w)
      paired == {r \in Rows(cut + 1, cut + 5, Markers) : cut > 0 /\ AreClose(At(cut), At(r))}
      start == Max(paired \cup {cut}) + 1
      end == Min(Rows(start, Len(log), Markers) \cup {Len(log) + 1})
  IN start..(end - 1)

First(rows) == IF rows = {} THEN 0 ELSE Min(rows)
Last(rows) == IF rows = {} THEN 0 ELSE Max(rows)

\* The chain people are asked about, T0 to T5; 0 where nothing was found.
Chain(w) == LET after == CausalRows(w)
                among(kinds) == {r \in after : Is(r, kinds)} IN
  [cut  |-> Cutoff(w),
   t0   |-> IF Cutoff(w) = 0 THEN 0 ELSE Last(Rows(1, Cutoff(w) - 1, Users \cup {"assistant", "announce"})),
   t2   |-> First(among({"assistant", "announce"})),
   t3   |-> First(among({"call", "rollback"})),
   t4   |-> IF w.hurt THEN First(among(Consequences)) ELSE 0,
   t5   |-> First(among({"correction"}))]

Opportunities == {windows[i] : i \in DOMAIN windows}
Until(w) == Min({v.row : v \in {x \in Opportunities : x.row > w.row}} \cup {Len(log) + 1}) - 1
StateOf(w) == {p \in {packets[i] : i \in DOMAIN packets} : p.row = w.row}
CausalOf(w) == {p \in {causal[i] : i \in DOMAIN causal} : p.row = w.row}
\* No two opportunities within five seconds of one another.
WellApart == \A v, w \in Opportunities : v # w => ~AreClose(At(v.row), At(w.row))
-----------------------------------------------------------------------------
\* A log of rows in order of time, and each scan knows rows of the log only.
ScanTypeOK == /\ \A i \in 1..(Len(log) - 1) : At(i) <= At(i + 1)
              /\ \A w \in Opportunities : w.first \in {0} \cup ((w.row + 1)..Len(log))
              /\ calls \subseteq 1..Len(log)

\* As long as opportunities are more than five seconds apart the state and the
\* causal packets are those of the opportunities, one each.
PacketsMatchOpportunities ==
  WellApart => \A w \in Opportunities :
    Cardinality(StateOf(w)) = 1 /\ Cardinality(CausalOf(w)) = 1

\* The plans a state packet shows are made in its window, and an outcome is of
\* a call the agent made in it too: a call that straddles a boundary is not.
NothingFromOtherWindows ==
  WellApart => \A w \in Opportunities :
    /\ \A p \in StateOf(w) : p.plan \cup p.summary \subseteq w.row..Until(w)
    /\ \A p \in CausalOf(w) : p.actions \cup p.outcomes \cup p.followups \subseteq w.row..Until(w)

\* The card of an opportunity after which the agent acted is cut at one of its
\* own markers, and its chain stays in the opportunity's window.
CardShowsItsWindow ==
  WellApart => \A w \in {v \in Opportunities : v.first > 0} : LET c == Chain(w) IN
    /\ c.cut \in w.row..Until(w) /\ c.t0 < c.cut
    /\ {c.t2, c.t3, c.t4, c.t5} \subseteq {0} \cup (w.row..Until(w))

=============================================================================
