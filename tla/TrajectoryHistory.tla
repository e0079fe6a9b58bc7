--------------------------- MODULE TrajectoryHistory ---------------------------
(***************************************************************************)
(* From the logs of one Goal to what a detector may see at a cutoff.  The  *)
(* logs are cut into natural windows at the boundaries the screening       *)
(* opened; when people have named the loss (T1) and the first wrong action *)
(* (T2), the history until T2 is put together again from the windows.      *)
(* A session may be a fork: it then begins with a copy of another's rows.  *)
(***************************************************************************)
EXTENDS Naturals, Sequences, FiniteSets, FiniteSetsExt

CONSTANTS Sessions,  \* the rollouts of the Goal, numbered
          Reach,     \* rows within which two markers are one boundary's: 5
          Near,      \* and seconds: 5
          Gaps,      \* seconds between a row and the next of any session
          MaxRows    \* bound on the rows written, copies apart

ConstantsAreSound == /\ Sessions \subseteq Nat \ {0}
                     /\ Gaps \subseteq Nat /\ {Reach, Near, MaxRows} \subseteq Nat

VARIABLES
  logs,     \* session -> rows [id, kind, at]; a copied row keeps its id
  written,  \* rows written so far, and the time of the last one
  stage,    \* "writing", "frozen", "indexed", "asked" or "refused"
  units,    \* the discovery units: [session, line, since, until]
  context   \* what was built for a cutoff

vars == <<logs, written, stage, units, context>>

Row(s, i) == logs[s][i]
Lines(s, kind) == {i \in DOMAIN logs[s] : Row(s, i).kind = kind}
Marks(s) == Lines(s, "marker")
MarkBefore(s, i) == Max({0} \cup {m \in Marks(s) : m < i})
MarkAfter(s, i) == Min({Len(logs[s]) + 1} \cup {m \in Marks(s) : m > i})

-----------------------------------------------------------------------------
\* The runtime writes a row.  A compaction may leave two markers.
Write(s, kind, gap) ==
  /\ stage = "writing" /\ written.rows < MaxRows
  /\ LET at == written.at + gap
         row == [id |-> <<s, Len(logs[s]) + 1>>, kind |-> kind, at |-> at]
     IN /\ logs' = [logs EXCEPT ![s] = Append(@, row)]
        /\ written' = [rows |-> written.rows + 1, at |-> at]
  /\ UNCHANGED <<stage, units, context>>

\* A session is resumed as a new rollout, which repeats the rows before it.
Fork(s, t, n) ==
  /\ stage = "writing" /\ logs[s] = <<>> /\ n \in DOMAIN logs[t]
  /\ logs' = [logs EXCEPT ![s] = SubSeq(logs[t], 1, n)]
  /\ UNCHANGED <<written, stage, units, context>>

\* The screening opens a boundary at a marker unless the last one is near.
Opens(s, i) ==
  LET m == MarkBefore(s, i)
  IN i \in Marks(s) /\ (m = 0 \/ i - m > Reach \/ Row(s, i).at - Row(s, m).at > Near)
OpenedIn(s) == {Row(s, i).id : i \in {j \in Marks(s) : Opens(s, j)}}
\* Sessions that share a boundary have one opportunity, which is one session's.
Owners == {own \in [UNION {OpenedIn(s) : s \in Sessions} -> Sessions] :
             \A b \in DOMAIN own : b \in OpenedIn(own[b])}

Events(s, from, to) == {i \in Lines(s, "event") : from < i /\ i < to}

\* Rows after a marker are its window's; if it has none they are kept for the
\* window of the next marker, and forgotten if that has none either.
Window(s, i, owned) ==
  LET m == MarkBefore(s, i)
  IN [session |-> s, line |-> i,
      since |-> IF m \in owned THEN {} ELSE Events(s, m, i),
      until |-> Events(s, i, MarkAfter(s, i))]

\* A session that was never compacted is a unit without a boundary.
Silent(s) == [session |-> s, line |-> 0, since |-> Lines(s, "event"), until |-> {}]

Prepare(own) ==
  LET owned(s) == {i \in Marks(s) : Row(s, i).id \in DOMAIN own /\ own[Row(s, i).id] = s}
  IN /\ stage = "writing" /\ \E s \in Sessions : Marks(s) # {}
     /\ stage' = "frozen"
     /\ units' = UNION {{Window(s, i, owned(s)) : i \in owned(s)} : s \in Sessions}
                 \cup {Silent(s) : s \in {t \in Sessions : logs[t] # <<>> /\ Marks(t) = {}}}
     /\ UNCHANGED <<logs, written, context>>

\* A compacted session all of whose boundaries are other sessions' has no
\* window: then the history of no Goal is indexed.
Index ==
  /\ stage = "frozen"
  /\ stage' = IF \A s \in Sessions : logs[s] # <<>> => \E u \in units : u.session = s
              THEN "indexed" ELSE "refused"
  /\ UNCHANGED <<logs, written, units, context>>

-----------------------------------------------------------------------------
\* Where a row stands in the Goal: its time, its line, its session.
Place(s, i) == <<Row(s, i).at, i, s>>
Before(a, b) == \/ a[1] < b[1]
                \/ a[1] = b[1] /\ (a[2] < b[2] \/ (a[2] = b[2] /\ a[3] < b[3]))
AtMost(a, b) == a = b \/ Before(a, b)
Held(u) == u.since \cup u.until
Copies == {[unit |-> u, line |-> i] : u \in units, i \in 1..(MaxRows + MaxRows)}
SourceEvents == {c \in Copies : c.line \in Held(c.unit)}
Losses == {u \in units : u.line > 0}
PlaceOf(c) == Place(c.unit.session, c.line)
IdOf(c) == Row(c.unit.session, c.line).id

\* Mutant: later evidence is told by its line, as within one session.
LaterByLine(c, action) == c.line > action.line

\* Evidence of what came after T2 must lie after it.
Later(c, action) == Before(PlaceOf(action), PlaceOf(c))

\* The prefix: every event at most at the cutoff, of all units of the Goal and
\* of copies the one whose unit comes first.  The cutoff bears the name the
\* action has in its case, the event bears its source's: two digests, and which
\* of them is smaller is chance.  Boundary rows, always there, are left out.
Prefix(action, luck, turn) ==
  LET early(c) == Before(PlaceOf(c), PlaceOf(action)) \/ (PlaceOf(c) = PlaceOf(action) /\ luck)
      earlier(s, t) == IF turn = "up" THEN s < t ELSE t < s
  IN {c \in SourceEvents :
        /\ early(c)
        /\ ~ \E d \in SourceEvents : /\ early(d) /\ IdOf(d) = IdOf(c)
                                     /\ earlier(d.unit.session, c.unit.session)}

Pre(prefix, losses) ==
  {c \in prefix : \A u \in losses : Before(PlaceOf(c), Place(u.session, u.line))}
Post(prefix, losses) ==
  {c \in prefix : \A u \in losses : Before(Place(u.session, u.line), PlaceOf(c))}

\* What commitments may be drawn from: before the cutoff and not the action.
Visible(prefix, action) == {c \in prefix : c # action /\ Before(PlaceOf(c), PlaceOf(action))}

\* A judge read a unit to its end: its findings count only if that is before
\* the cutoff.
Heard(action) ==
  LET rows(u) == Held(u) \cup (IF u.line > 0 THEN {u.line} ELSE {})
  IN {u \in units : rows(u) # {} /\ \A i \in rows(u) : AtMost(Place(u.session, i), PlaceOf(action))}

\* People named the boundaries of the loss, the action and perhaps an outcome.
Ask(losses, action, outcomes, luck, turn) ==
  LET cutoff == PlaceOf(action)
      prefix == Prefix(action, luck, turn)
  IN /\ stage = "indexed"
     /\ IF /\ \A u \in losses : Before(Place(u.session, u.line), cutoff)
           /\ \A c \in outcomes : Later(c, action)
        THEN /\ stage' = "asked"
             /\ context' = {[losses |-> losses, action |-> action, outcomes |-> outcomes,
                             prefix |-> prefix, pre |-> Pre(prefix, losses),
                             post |-> Post(prefix, losses),
                             visible |-> Visible(prefix, action), heard |-> Heard(action)]}
        ELSE stage' = "refused" /\ UNCHANGED context
     /\ UNCHANGED <<logs, written, units>>

HistoryInit == /\ logs = [s \in Sessions |-> <<>>] /\ written = [rows |-> 0, at |-> 0]
               /\ stage = "writing" /\ units = {} /\ context = {}

HistoryNext ==
  \/ \E s \in Sessions, kind \in {"event", "marker"}, gap \in Gaps : Write(s, kind, gap)
  \/ \E s, t \in Sessions : \E n \in DOMAIN logs[t] : Fork(s, t, n)
  \/ \E own \in Owners : Prepare(own)
  \/ Index
  \/ \E losses \in SUBSET Losses \ {{}}, action \in SourceEvents,
        outcomes \in {{}} \cup {{c} : c \in SourceEvents}, luck \in BOOLEAN, turn \in {"up", "down"} :
       Ask(losses, action, outcomes, luck, turn)

HistorySpec == HistoryInit /\ [][HistoryNext]_vars

-----------------------------------------------------------------------------
(* Lines stay in their log and the context, once there, is one. *)
HistoryTypeOK ==
  /\ \A s \in Sessions, i \in 1..(MaxRows + MaxRows) :
       i \in DOMAIN logs[s] => Row(s, i).kind \in {"event", "marker"} /\ Row(s, i).at <= written.at
  /\ \A u \in units : u.session \in Sessions /\ Held(u) \subseteq DOMAIN logs[u.session]
  /\ stage \in {"writing", "frozen", "indexed", "asked", "refused"}
  /\ (stage = "asked") = (context # {}) /\ Cardinality(context) <= 1

(* No row of a session is in two windows or on both sides of a boundary: what *)
(* two judges of neighbouring windows find they find in different rows.       *)
NoRowTwice ==
  \A u, v \in units : /\ u.since \cap u.until = {}
                      /\ u # v /\ u.session = v.session => Held(u) \cap Held(v) = {}

\* Every marker of every session opened a boundary and is its own session's.
NoMarkerTwice ==
  \A s \in Sessions, m \in UNION {Marks(t) : t \in Sessions} :
    m \in Marks(s) => \E u \in units : u.session = s /\ u.line = m

(* Where no compaction left two markers and no boundary is shared, the prefix *)
(* holds every event any session of the Goal had written before the action,   *)
(* through cutting into windows and joining them again.                       *)
PrefixIsWhole ==
  NoMarkerTwice => \A x \in context : \A s \in Sessions : \A i \in Lines(s, "event") :
    Before(Place(s, i), PlaceOf(x.action)) => \E c \in x.prefix : IdOf(c) = Row(s, i).id

(* Nothing in the prefix is an outcome people named, in whichever session it   *)
(* is a copy of it, unless they named the action's copy.  Only the copy they   *)
(* cited is compared with the cutoff, so one way remains: a fork repeats the   *)
(* outcome at the action's very time and line, in a session before it.         *)
OutcomeIsHidden ==
  \A x \in context, y \in SourceEvents :
    y \in x.outcomes /\ IdOf(y) # IdOf(x.action) =>
      \A c \in x.prefix : IdOf(c) = IdOf(y) =>
        /\ c # y /\ c.unit.session < x.action.unit.session
        /\ PlaceOf(c)[1] = PlaceOf(x.action)[1] /\ c.line = x.action.line

(* The side of a boundary on which a window holds a row, by line, is the side  *)
(* on which the detector sees it, by time: no row from after a loss is shown   *)
(* as what was lost, nor the reverse, whichever boundaries people named.       *)
SplitAtTheLoss ==
  \A x \in context : \A c \in {d \in x.prefix : d.unit \in x.losses} :
    /\ c.line \in c.unit.since => c \notin x.post
    /\ c.line \in c.unit.until => c \notin x.pre
    /\ Cardinality(x.losses) = 1 => (c \in x.pre) = (c.line \in c.unit.since)

(* The action is no evidence for what it is judged against, except where a    *)
(* fork repeats it and the copy is the one that was kept.                     *)
ActionIsNoEvidence ==
  \A x \in context : \A c \in x.visible :
    IdOf(c) = IdOf(x.action) => c.unit.session < x.action.unit.session

(* A judge whose findings count never saw a row, cited or not, that any log   *)
(* of the Goal received after the action; so the unit in which the action     *)
(* happened is silent unless the action was its last row.                     *)
NobodyForetells ==
  \A x \in context : \A u \in x.heard :
    /\ \A i \in Held(u) : Row(u.session, i).at <= Row(x.action.unit.session, x.action.line).at
    /\ u = x.action.unit => x.action.line = Max(Held(u))
=============================================================================
