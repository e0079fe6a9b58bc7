----------------------------- MODULE SessionJournal -----------------------------
(***************************************************************************)
(* The journal of a developer (add_session.py): numbered files that a      *)
(* session's entry is appended to, a new file when the last is full, and   *)
(* an index that counts the sessions.  Nothing is locked: windows read,    *)
(* append and rewrite at the same time, and one may be stopped between.    *)
(***************************************************************************)
EXTENDS Naturals, FiniteSets

CONSTANTS Windows,
          Sizes,                 \* how many lines an entry may have
          MaxLines, HeaderLines, \* 2000 and 7 in the program
          MaxEntries,            \* bound on the entries begun
          MayStop

ConstantsAreSound == /\ Sizes \subseteq Nat \ {0} /\ HeaderLines \in Nat \ {0}
                     /\ MaxLines \in Nat /\ MaxEntries \in Nat

VARIABLES
  journals,  \* each file's number: its lines, and the entries in it
  total,     \* the sessions the index counts
  run,       \* what each window is doing and what it has read
  begun      \* the entries begun so far, which tell them apart

vars == <<journals, total, run, begun>>

Numbers == 1..(MaxEntries + 1)
NoJournal == [lines |-> 0, entries |-> {}]
Header == [lines |-> HeaderLines, entries |-> {}]
Idle == [at |-> "idle", entry |-> 0, size |-> 0, session |-> 0, file |-> 0]

\* The file with the highest number is the current one.
Latest == CHOOSE n \in Numbers : /\ journals[n] # NoJournal
                                 /\ \A m \in Numbers : m > n => journals[m] = NoJournal

\* add_session reads the latest journal and the index, and decides on a file.
Begin(w, size) ==
  LET full == journals[Latest].lines + size > MaxLines IN
  /\ run[w] = Idle /\ begun < MaxEntries
  /\ begun' = begun + 1
  /\ run' = [run EXCEPT ![w] = [at |-> IF full THEN "create" ELSE "append", entry |-> begun + 1,
                                size |-> size, session |-> total + 1,
                                file |-> IF full THEN Latest + 1 ELSE Latest]]
  /\ UNCHANGED <<journals, total>>

\* The new file is written whole, whatever was there.
CreateFile(w) == /\ run[w].at = "create"
                 /\ journals' = [journals EXCEPT ![run[w].file] = Header]
                 /\ run' = [run EXCEPT ![w].at = "append"]
                 /\ UNCHANGED <<total, begun>>

\* The entry goes to the end of the file that was decided on.
AppendEntry(w) ==
  /\ run[w].at = "append"
  /\ journals' = [journals EXCEPT ![run[w].file] =
                    [lines |-> @.lines + run[w].size,
                     entries |-> @.entries \cup {[entry |-> run[w].entry, session |-> run[w].session]}]]
  /\ run' = [run EXCEPT ![w].at = "index"]
  /\ UNCHANGED <<total, begun>>

\* The index is rewritten with the number computed at the beginning.
UpdateIndex(w) == /\ run[w].at = "index"
                  /\ total' = run[w].session
                  /\ run' = [run EXCEPT ![w] = Idle]
                  /\ UNCHANGED <<journals, begun>>

Stop(w) == /\ MayStop /\ run[w] # Idle
           /\ run' = [run EXCEPT ![w] = Idle]
           /\ UNCHANGED <<journals, total, begun>>

\* init_developer makes the first file and the index.
JournalInit == /\ journals = [n \in Numbers |-> IF n = 1 THEN Header ELSE NoJournal]
               /\ total = 0 /\ begun = 0 /\ run = [w \in Windows |-> Idle]
JournalNext == \E w \in Windows : \/ \E size \in Sizes : Begin(w, size)
                                  \/ CreateFile(w) \/ AppendEntry(w) \/ UpdateIndex(w) \/ Stop(w)
JournalSpec == JournalInit /\ [][JournalNext]_vars
-----------------------------------------------------------------------------
Entries == UNION {journals[n].entries : n \in Numbers}

\* Files have a line at least for each of their entries.
JournalTypeOK == /\ total \in 0..MaxEntries
                 /\ \A n \in Numbers : Cardinality(journals[n].entries) <= journals[n].lines
                 /\ \A w \in Windows : run[w].file \in Numbers \cup {0}

\* What the index counts is in the journal: every session up to the total has
\* an entry with its number, even where a command was stopped or a file is new.
CountedIsRecorded == \A k \in 1..total : \E e \in Entries : e.session = k

\* A file passes the limit only with an entry that no file could hold.
FilesStayShort == \A n \in Numbers : journals[n].lines > MaxLines =>
  Cardinality(journals[n].entries) = 1 /\ \E size \in Sizes : HeaderLines + size > MaxLines
=============================================================================
