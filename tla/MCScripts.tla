------------------------------ MODULE MCScripts ------------------------------
(***************************************************************************)
(* The scripts of the repository for TLC: tasks and the sessions that work *)
(* on them, the journal, and what is committed of both.  A behaviour is    *)
(* about one of them, in a regime chosen at the start.  No definition      *)
(* chooses between tasks, so those of the links may be permuted.           *)
(***************************************************************************)
EXTENDS TLC

CONSTANTS s1, s2, s3, t1, t2, t3, only, u1, u2, w1, none, nokey

VARIABLES part,
  live, pointer, tickets, touched, archived, json, run, past,
  journals, total, writing, entries,
  work, index, head, edits, last

linking == <<live, pointer, tickets, touched, archived, json, run, past>>
recording == <<journals, total, writing, entries>>
committing == <<work, index, head, edits, last>>
all == <<part, linking, recording, committing>>

\* One session links three tasks and runs every command to its end; a task may be
\* created once more under its name.
Links == INSTANCE TaskCommands WITH
    Sessions <- {s1}, Exporting <- {}, Prompt <- FALSE, Tasks <- {t1, t2, t3},
    NoTask <- none, NoKey <- nokey,
    Commands <- {"create", "archive", "add", "remove", "start", "set"},
    OneAtATime <- TRUE, Recreates <- TRUE, MayDie <- FALSE, MaxCommands <- 5

\* The same, but any command may die between two files.
Crashes == INSTANCE TaskCommands WITH
    Sessions <- {s1}, Exporting <- {}, Prompt <- FALSE, Tasks <- {t1, t2, t3},
    NoTask <- none, NoKey <- nokey, Commands <- {"create", "archive", "add", "remove"},
    OneAtATime <- TRUE, Recreates <- TRUE, MayDie <- TRUE, MaxCommands <- 5

\* Three sessions, one of which exports its key, share one task.
Keys == INSTANCE TaskCommands WITH
    Sessions <- {s1, s2, s3}, Exporting <- {s1}, Prompt <- TRUE, Tasks <- {only},
    NoTask <- none, NoKey <- nokey,
    Commands <- {"create", "archive", "start", "finish", "current"},
    OneAtATime <- TRUE, Recreates <- TRUE, MayDie <- TRUE, MaxCommands <- 3

\* Two sessions at the same time, neither of which exports its key; their hooks may
\* be missing or their commands late, so that a ticket is not theirs.
AtOnce == INSTANCE TaskCommands WITH
    Sessions <- {s1, s2}, Exporting <- {}, Prompt <- FALSE, Tasks <- {only},
    NoTask <- none, NoKey <- nokey,
    Commands <- {"create", "archive", "start", "finish", "current"},
    OneAtATime <- FALSE, Recreates <- FALSE, MayDie <- FALSE, MaxCommands <- 3

\* One window that may be stopped, and entries that fill files or burst them.
Journal == INSTANCE SessionJournal WITH
    Windows <- {w1}, Sizes <- {1, 2, 4}, MaxLines <- 4, HeaderLines <- 1,
    MaxEntries <- 5, MayStop <- TRUE, run <- writing, begun <- entries

\* Two tasks, and five edits of windows, people and scripts.
Commits == INSTANCE TaskCommits WITH
    Tasks <- {u1, u2}, NoTask <- none, MaxEdits <- 5

ASSUME RegimesAreSound == /\ Links!ConstantsAreSound /\ Keys!ConstantsAreSound
                          /\ Journal!ConstantsAreSound /\ Commits!ConstantsAreSound

TaskSymmetry == Permutations({t1, t2, t3})

MCInit ==
    /\ part \in {"links", "crashes", "keys", "at_once", "journal", "commits"}
    /\ CASE part = "keys" -> Keys!TaskInit
         [] part = "at_once" -> AtOnce!TaskInit
         [] OTHER -> Links!TaskInit
    /\ Journal!JournalInit /\ Commits!CommitsInit

MCNext ==
    /\ UNCHANGED part
    /\ \/ /\ \/ part = "links" /\ Links!TaskNext
             \/ part = "crashes" /\ Crashes!TaskNext
             \/ part = "keys" /\ Keys!TaskNext
             \/ part = "at_once" /\ AtOnce!TaskNext
          /\ UNCHANGED <<recording, committing>>
       \/ part = "journal" /\ Journal!JournalNext /\ UNCHANGED <<linking, committing>>
       \/ part = "commits" /\ Commits!CommitsNext /\ UNCHANGED <<linking, recording>>

MCSpec == MCInit /\ [][MCNext]_all

-----------------------------------------------------------------------------
(* The properties of the parts.                                             *)

\* What the scripts write in several files holds together: a task that names a
\* parent is among the children of a live task and, unless it is under itself,
\* in the list people work from - but where the parent was created anew, or a
\* remove-subtask died; no session points at a directory that was moved away;
\* every session the index counts is in the journal, whose files stay short; and
\* an archive that reports success leaves no deletion behind, unless git refused
\* to unstage the old place.
RecordsHoldTogether ==
    /\ part = "links" => Links!LinksAreMutual /\ Links!TasksOutsideCyclesAreListed
    /\ part = "crashes" => Crashes!LinksAreMutual /\ Crashes!TasksOutsideCyclesAreListed
    /\ part = "keys" => Keys!TaskTypeOK /\ Keys!PointersOfLiveTasks
    /\ part = "journal" => /\ Journal!JournalTypeOK /\ Journal!CountedIsRecorded
                           /\ Journal!FilesStayShort
    /\ part = "commits" => Commits!CommitsTypeOK /\ Commits!NoPhantomDeletes

\* A child that was counted as done stays done; another session's pointer is used
\* only where there is no other, or by a command without a fresh ticket of its own
\* for which only that session has one; and what nobody has staged is never
\* committed for another task.
WindowsStayApart ==
    [][/\ part = "links" => Links!KeepsProgress
       /\ part = "keys" => Keys!GuessesNothing
       /\ part = "at_once" => AtOnce!GuessesNothing
       /\ part = "commits" => Commits!CommitsItsOwn]_all
=============================================================================
