---------------------------- MODULE CommitmentLedger ----------------------------
(***************************************************************************)
(* What a person has asked for and not taken back.  Judges report          *)
(* commitments with the events that state them, and updates with the       *)
(* events they supersede; the findings are united, and one after another   *)
(* entered into a ledger in which a later one may close an earlier one.    *)
(***************************************************************************)
EXTENDS Naturals, Sequences, FiniteSets, FiniteSetsExt, Functions

CONSTANTS Events,      \* the visible events that carry authority, numbered
          Line,        \* the line of each in its own session's log
          Time,        \* when it was written
          SessionOf,   \* and by which session
          Texts,       \* what a finding may state, numbered
          Object,      \* what each text is about
          Changing,    \* the texts that say "instead", "replace" and the like
          MaxFindings  \* bound on the findings

ConstantsAreSound ==
  /\ Events \subseteq Nat /\ Texts \subseteq Nat /\ Changing \subseteq Texts
  /\ MaxFindings \in Nat
  /\ {Line, Time, SessionOf} \subseteq [Events -> Nat] /\ DOMAIN Object = Texts

VARIABLES
  findings,  \* the union: [kind, text, sources, closes]
  reporting, \* judges still report
  left,      \* the findings not yet entered
  rows,      \* the ledger: [id, status, by], by the id of the replacement
  refused    \* a ValueError: no ledger, and no packets for any case

vars == <<findings, reporting, left, rows, refused>>

Nobody == <<>>
Kinds == {"COMMITMENT", "AUTHORIZED_UPDATE"}
Id(f) == <<f.text, f.sources>>
SourcesOf(row) == row.id[2]
ObjectOf(row) == Object[row.id[1]]

\* Findings cite events of one window, at most two here; an update names at
\* least one event it supersedes, at most one here.
Reportable ==
  {f \in [kind : Kinds, text : Texts,
          sources : {s \in SUBSET Events : Cardinality(s) \in 1..2},
          closes : {{}} \cup {{e} : e \in Events}] :
     /\ \A d, e \in f.sources : SessionOf[d] = SessionOf[e]
     /\ f.kind = "AUTHORIZED_UPDATE" => f.closes # {}}

\* One more finding; the union keeps one of those that agree in everything.
Report(f) ==
  /\ reporting /\ f \notin findings /\ Cardinality(findings) < MaxFindings
  /\ findings' = findings \cup {f}
  /\ UNCHANGED <<reporting, left, rows, refused>>

Unite == /\ reporting /\ findings # {} /\ reporting' = FALSE /\ left' = findings
         /\ UNCHANGED <<findings, rows, refused>>

-----------------------------------------------------------------------------
\* The first of its sources by line, then by time and by name.
Ahead(d, e) == \/ Line[d] < Line[e]
               \/ Line[d] = Line[e] /\ (Time[d] < Time[e] \/ (Time[d] = Time[e] /\ d < e))
Foremost(sources) == CHOOSE e \in sources : \A d \in sources \ {e} : Ahead(e, d)
FirstOf(f) == Foremost(f.sources)

\* Mutant: in the order of the last of its sources.
SoonerByLast(f, g) ==
  LET last(h) == CHOOSE e \in h.sources : \A d \in h.sources \ {e} : Ahead(d, e)
  IN Ahead(last(f), last(g))

\* Findings with the same first source keep the order of the union: by kind and
\* by statement, and beyond that by chance.
Sooner(f, g) ==
  \/ Ahead(FirstOf(f), FirstOf(g))
  \/ /\ FirstOf(f) = FirstOf(g)
     /\ \/ f.kind = "AUTHORIZED_UPDATE" /\ g.kind = "COMMITMENT"
        \/ f.kind = g.kind /\ f.text < g.text
NextToEnter == {f \in left : \A g \in left : ~Sooner(g, f)}

Named == UNION {SourcesOf(r) : r \in Range(rows)}
Known(f) == \E i \in DOMAIN rows : rows[i].id = Id(f)
RowOf(e) == CHOOSE i \in DOMAIN rows : e \in SourcesOf(rows[i])

\* A commitment that speaks of a change closes the latest that stands on its
\* object; an update never does by its text alone.
ClosedByText(f) ==
  IF f.kind = "COMMITMENT" /\ f.text \in Changing
  THEN LET standing == {i \in DOMAIN rows : /\ rows[i].status = "ACTIVE"
                                            /\ ObjectOf(rows[i]) = Object[f.text]}
       IN IF standing = {} THEN {} ELSE {Max(standing)}
  ELSE {}

ClosedByName(f) == {RowOf(e) : e \in f.closes}

WithRow(f) ==
  [i \in 1..Len(rows) + 1 |->
     IF i > Len(rows) THEN [id |-> Id(f), status |-> "ACTIVE", by |-> Nobody]
     ELSE IF rows[i].status = "ACTIVE" /\ i \in ClosedByText(f) \cup ClosedByName(f)
     THEN [rows[i] EXCEPT !.status = "SUPERSEDED", !.by = Id(f)] ELSE rows[i]]

\* What it supersedes must be in the ledger already, and none of its sources
\* may be another row's.
Sound(f) == f.closes \subseteq Named /\ f.sources \cap Named = {}

\* A finding of the same identity was entered: this one adds nothing.
Repeat(f) ==
  /\ ~reporting /\ ~refused /\ f \in NextToEnter /\ Known(f)
  /\ left' = left \ {f} /\ UNCHANGED <<findings, reporting, rows, refused>>

Enter(f) ==
  /\ ~reporting /\ ~refused /\ f \in NextToEnter /\ ~Known(f) /\ Sound(f)
  /\ rows' = WithRow(f) /\ left' = left \ {f} /\ UNCHANGED <<findings, reporting, refused>>

Refuse(f) ==
  /\ ~reporting /\ ~refused /\ f \in NextToEnter /\ ~Known(f) /\ ~Sound(f)
  /\ refused' = TRUE /\ UNCHANGED <<findings, reporting, left, rows>>

LedgerInit == findings = {} /\ reporting = TRUE /\ left = {} /\ rows = <<>> /\ refused = FALSE
LedgerNext == \/ \E f \in Reportable : Report(f)
              \/ Unite
              \/ ~reporting /\ \E f \in left : Repeat(f) \/ Enter(f) \/ Refuse(f)
LedgerSpec == LedgerInit /\ [][LedgerNext]_vars
-----------------------------------------------------------------------------
(* Rows are of findings, and what is closed names its replacement. *)
LedgerTypeOK ==
  /\ Cardinality(findings) <= MaxFindings /\ left \subseteq findings
  /\ \A r \in Range(rows) : /\ \E f \in findings : Id(f) = r.id
                            /\ r.status \in {"ACTIVE", "SUPERSEDED"}
                            /\ (r.status = "ACTIVE") = (r.by = Nobody)
  /\ reporting \in BOOLEAN /\ refused \in BOOLEAN

(* What a person said once is one commitment: an event that a later finding   *)
(* supersedes leads to one row, whichever of its sources is named.            *)
OneRowPerEvent ==
  \A i, j \in DOMAIN rows : i # j => SourcesOf(rows[i]) \cap SourcesOf(rows[j]) = {}

(* From every commitment that was replaced, the names of the replacements lead *)
(* to one that stands: they never go round, and never out of the ledger.       *)
SomethingStands ==
  \A i \in DOMAIN rows : rows[i].status = "SUPERSEDED" =>
    \E j \in DOMAIN rows : j > i /\ rows[j].id = rows[i].by

(* What replaces a commitment was said after it, if both are of one session:  *)
(* nobody takes back what has not been said.  Sessions number their own lines, *)
(* and the ledger goes by lines: of two sessions the older may close the newer.*)
ClosedByNewer ==
  \A r, q \in Range(rows) :
    r.by = q.id => LET d == Foremost(SourcesOf(r)) e == Foremost(SourcesOf(q)) IN
                   /\ Ahead(d, e)
                   /\ SessionOf[d] = SessionOf[e] => Time[d] < Time[e]

(* A commitment is closed only by a finding that names one of its sources or,  *)
(* if that is no update, speaks of a change of the same object.                *)
ClosedForAReason ==
  \A r \in Range(rows) : r.status = "SUPERSEDED" =>
    \E f \in findings : /\ Id(f) = r.by
                        /\ \/ f.closes \cap SourcesOf(r) # {}
                           \/ f.kind = "COMMITMENT" /\ f.text \in Changing
                              /\ Object[f.text] = ObjectOf(r)

(* What was replaced keeps the name of its first replacement. *)
KeepsFirstReplacement ==
  \A i \in DOMAIN rows : rows[i].status = "SUPERSEDED" => rows'[i] = rows[i]

Entered == ~reporting /\ left = {} /\ ~refused
Obeyed(f) == \A r \in Range(rows) : f.closes \cap SourcesOf(r) # {} => r.status = "SUPERSEDED"

(* When all is entered, nothing that a finding supersedes stands, unless the   *)
(* finding shares text and sources with another: only the first is read.       *)
ObeyedUnlessRepeated ==
  Entered => \A f \in findings : (\A g \in findings \ {f} : Id(g) # Id(f)) => Obeyed(f)
=============================================================================
