------------------------------ MODULE TaskCommits ------------------------------
(***************************************************************************)
(* What the task scripts commit, where config.yaml leaves that on.         *)
(* Archiving a task and adding a session stage a few paths of their own    *)
(* and commit, next to windows that edit other tasks and people who stage  *)
(* and commit as they like.  A path's content is a number that grows with  *)
(* every edit; 0 is no file.                                               *)
(***************************************************************************)
EXTENDS Naturals, FiniteSets

CONSTANTS Tasks, NoTask,
          MaxEdits  \* bound on the edits

ConstantsAreSound == NoTask \notin Tasks /\ MaxEdits \in Nat

VARIABLES
  work, index, head,  \* the content of each path in the three trees
  edits,              \* the edits so far, which number the contents
  last                \* the last archive or session: its task, the tasks whose
                      \* paths are its own, what it found and what it reported

vars == <<work, index, head, edits, last>>

Live(t) == <<"tasks", t>>
Archived(t) == <<"archive", t>>
Journal == <<"journal", NoTask>>
LivePaths(ts) == {Live(t) : t \in ts}
ArchivePaths == {Archived(t) : t \in Tasks}
Paths == LivePaths(Tasks) \cup ArchivePaths \cup {Journal}
IsLive(t) == work[Live(t)] # 0

\* git add: the paths as they are in the work tree, of those that exist.
Added(tree, paths) == [p \in Paths |-> IF p \in paths /\ tree[p] # 0 THEN tree[p] ELSE index[p]]
Nothing == [what |-> "nothing", task |-> NoTask, own |-> {}, tracked |-> FALSE,
            obeyed |-> TRUE, ok |-> TRUE]

-----------------------------------------------------------------------------
\* A window edits a task, or makes one whose name was never used.
Edit(t) == /\ edits < MaxEdits /\ edits' = edits + 1
           /\ work[Archived(t)] = 0
           /\ work' = [work EXCEPT ![Live(t)] = edits']
           /\ last' = Nothing /\ UNCHANGED <<index, head>>

\* A person or an agent stages a task's files, or commits what is staged.
Stage(t) == IsLive(t) /\ index' = Added(work, {Live(t)}) /\ last' = Nothing /\ UNCHANGED <<work, head, edits>>
Commit == head' = index /\ last' = Nothing /\ UNCHANGED <<work, index, edits>>

\* The archive with all that is in it and the children that lost their parent;
\* then the directory that was moved is taken out of the index, if git obeys.
Staged(tree, t, children, obeyed) ==
  LET added == Added(tree, ArchivePaths \cup LivePaths(children))
  IN [added EXCEPT ![Live(t)] = IF obeyed THEN 0 ELSE @]

\* Refused by .gitignore nothing is staged; refused by a hook nothing is
\* committed; either is reported only if git said before that it knew the task.
\* Nobody asks whether git obeyed when it was told to forget the old place.
CommitArchive(t, children, known, obeyed) ==
  LET report(ok) == [what |-> "archive", task |-> t, own |-> children \cup {t},
                     tracked |-> known, obeyed |-> obeyed, ok |-> ok]
  IN \/ UNCHANGED <<index, head>> /\ last' = report(~known)
     \/ /\ index' = Staged(work', t, children, obeyed)
        /\ \/ head' = index' /\ last' = report(TRUE)
           \/ head' = head /\ last' = report(~known)

\* archive: the move on disk, the children's files, then git, which may fail to
\* list what it knows: then the task counts as one it did not know.
ArchiveTask(t, children) ==
  /\ IsLive(t) /\ t \notin children /\ \A c \in children : IsLive(c)
  /\ edits < MaxEdits /\ edits' = edits + 1
  /\ work' = [p \in Paths |-> IF p = Live(t) THEN 0
                              ELSE IF p \in {Archived(t)} \cup LivePaths(children) THEN edits'
                              ELSE work[p]]
  /\ \E known \in {index[Live(t)] # 0, FALSE}, obeyed \in BOOLEAN :
       CommitArchive(t, children, known, obeyed)

\* Mutant: without a current task every task is staged.
SessionPathsWide(t) == {Journal} \cup (IF t = NoTask THEN LivePaths(Tasks) ELSE {Live(t)})

\* The journal and the current task's own directory, if the session has one;
\* where archived tasks really are is not among them.
SessionPaths(t) == {Journal} \cup {Live(c) : c \in {t} \ {NoTask}}

\* add_session: the journal, then git, whose refusals are only warned about.
AddSession(t) ==
  /\ edits < MaxEdits /\ edits' = edits + 1
  /\ work' = [work EXCEPT ![Journal] = edits']
  /\ \/ UNCHANGED <<index, head>>
     \/ /\ index' = Added(work', SessionPaths(t))
        /\ head' = index' \/ head' = head
  /\ last' = [what |-> "session", task |-> t, own |-> {t} \ {NoTask}, tracked |-> FALSE,
              obeyed |-> TRUE, ok |-> head'[Journal] = edits']

CommitsInit == /\ work = [p \in Paths |-> 0] /\ index = work /\ head = work
               /\ edits = 0 /\ last = Nothing

CommitsNext == \/ \E t \in Tasks : Edit(t) \/ Stage(t)
               \/ \E t \in Tasks, children \in SUBSET Tasks : ArchiveTask(t, children)
               \/ \E t \in Tasks \cup {NoTask} : AddSession(t)
               \/ Commit

CommitsSpec == CommitsInit /\ [][CommitsNext]_vars
-----------------------------------------------------------------------------
\* Contents that some edit made, and no task both live and archived.
CommitsTypeOK == /\ \A tree \in {work, index, head} : tree \in [Paths -> 0..edits]
                 /\ \A t \in Tasks : ~(IsLive(t) /\ work[Archived(t)] # 0)

\* An archive that reports success for a task git said it knew has left no
\* deletion behind for a later commit, unless git refused to unstage the old place,
\* which the script does not notice: the move is committed as a whole.
NoPhantomDeletes == last.what = "archive" /\ last.tracked /\ last.obeyed /\ last.ok =>
  /\ index[Live(last.task)] = 0 /\ head[Live(last.task)] = 0
  /\ head[Archived(last.task)] = work[Archived(last.task)]

\* What a window has edited and nobody has staged is never committed by the
\* archive or the session of another task.
CommitsItsOwn ==
  \A t \in Tasks : head'[Live(t)] \notin {head[Live(t)], index[Live(t)]} => t \in last'.own
=============================================================================
