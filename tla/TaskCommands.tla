------------------------------ MODULE TaskCommands ------------------------------
(***************************************************************************)
(* The task scripts of the repository (task.py): directories with a        *)
(* task.json that names a status, a parent and children, made, linked,     *)
(* started and archived by commands that read whole files and write them   *)
(* back one by one, without a lock and wherever a session runs them.       *)
(***************************************************************************)
EXTENDS TaskSessions, Relation

CONSTANTS Commands,    \* the commands run in an instance
          OneAtATime,  \* a command begins only when none is under way
          Recreates,   \* people create a task under the name of a live one
          MayDie, MaxCommands

VARIABLES
  archived,  \* the names of the directories under archive/
  json,      \* each live task's task.json, or NoFile
  run,       \* each session's command: its step and what it has in memory
  past       \* what the files do not show: the commands begun, the names created
             \* anew while live, the children whose unlinking was cut short

vars == <<live, pointer, tickets, touched, archived, json, run, past>>

\* The fields the scripts act on; a set-* command rewrites the others.
Content(status, parent, children) == [status |-> status, parent |-> parent, children |-> children]
Blank == Content("planning", NoTask, {})
NoFile == Content("none", NoTask, {})
Contents == [status : {"none", "planning", "in_progress", "completed"},
             parent : Tasks \cup {NoTask}, children : SUBSET Tasks]
HasFile(t) == t \in live /\ json[t] # NoFile

Idle == [cmd |-> "idle", at |-> "idle", task |-> NoTask, other |-> NoTask,
         mine |-> NoFile, theirs |-> NoFile, todo |-> {}]
Resting == \A s \in Sessions : run[s] = Idle

Begins(s, cmd) == /\ run[s] = Idle /\ cmd \in Commands
                  /\ OneAtATime => Resting
                  /\ past.commands < MaxCommands
Counted == past' = [past EXCEPT !.commands = @ + 1]
At(s, cmd, step) == run[s].cmd = cmd /\ run[s].at = step
Goto(s, step) == run' = [run EXCEPT ![s].at = step]
Ends(s) == run' = [run EXCEPT ![s] = Idle]
Task(s) == run[s].task
Other(s) == run[s].other

\* A file is replaced whole; where the directory has gone nothing is written
\* and nobody is told.
Write(t, content) == json' = IF t \in live THEN [json EXCEPT ![t] = content] ELSE json
Adopt(content, t) == [content EXCEPT !.children = @ \cup {t}]

-----------------------------------------------------------------------------
\* create: a name that was archived is refused, one that is live is only
\* warned about.
Create(s, t, parent) ==
  /\ Begins(s, "create")
  /\ t \notin archived /\ (t \in live => Recreates)
  /\ live' = live \cup {t}
  /\ past' = [past EXCEPT !.commands = @ + 1, !.remade = @ \cup (live \cap {t})]
  /\ run' = [run EXCEPT ![s] = [Idle EXCEPT !.cmd = "create", !.at = "json",
                                            !.task = t, !.other = parent]]
  /\ UNCHANGED <<pointer, tickets, touched, archived, json>>

\* The new task.json overwrites an older one; without the directory the command
\* ends at the next file it writes.
CreateWrites(s) == /\ At(s, "create", "json")
                   /\ Write(Task(s), Blank)
                   /\ IF Task(s) \in live THEN Goto(s, "parent") ELSE Ends(s)
                   /\ UNCHANGED <<live, pointer, tickets, touched, archived, past>>

\* With no parent, or one without a file, there is no link to make.
CreateReadsParent(s) ==
  /\ At(s, "create", "parent")
  /\ run' = IF Other(s) # NoTask /\ HasFile(Other(s))
            THEN [run EXCEPT ![s].at = "adopt", ![s].theirs = json[Other(s)]]
            ELSE [run EXCEPT ![s].at = "point"]
  /\ UNCHANGED <<live, pointer, tickets, touched, archived, json, past>>

CreateAdopts(s) == /\ At(s, "create", "adopt")
                   /\ Write(Other(s), Adopt(run[s].theirs, Task(s)))
                   /\ Goto(s, "child")
                   /\ UNCHANGED <<live, pointer, tickets, touched, archived, past>>

\* What is written is the new task as it was in memory, now with a parent.
CreateNamesParent(s) == /\ At(s, "create", "child")
                        /\ Write(Task(s), [Blank EXCEPT !.parent = Other(s)])
                        /\ Goto(s, "point")
                        /\ UNCHANGED <<live, pointer, tickets, touched, archived, past>>

\* The new task becomes the session's, unless --no-start was given.
CreatePoints(s) == /\ At(s, "create", "point")
                   /\ LET key == ContextKey(s, "create", Task(s)) IN
                      \/ SetPointer(key, Task(s)) /\ Touches(s, key)
                      \/ UNCHANGED <<pointer, touched>>
                   /\ Ends(s)
                   /\ UNCHANGED <<live, tickets, archived, json, past>>

-----------------------------------------------------------------------------
\* archive: the status, the children's parents, the sessions, then the move.
Archive(s, t) ==
  /\ Begins(s, "archive") /\ Counted /\ t \in live
  /\ run' = [run EXCEPT ![s] = [Idle EXCEPT !.cmd = "archive", !.task = t, !.mine = json[t],
                                            !.todo = json[t].children,
                                            !.at = IF HasFile(t) THEN "status" ELSE "sessions"]]
  /\ UNCHANGED <<live, pointer, tickets, touched, archived, json>>

\* Mutant: the directory is moved before its children are released.
ArchiveMovesFirst(s) == /\ At(s, "archive", "status")
                        /\ live' = live \ {Task(s)} /\ archived' = archived \cup {Task(s)}
                        /\ json' = [json EXCEPT ![Task(s)] = NoFile]
                        /\ Goto(s, "children")
                        /\ UNCHANGED <<pointer, tickets, touched, past>>

\* The status is written first, and the children are those that were read with it.
ArchiveCompletes(s) == /\ At(s, "archive", "status")
                       /\ Write(Task(s), [run[s].mine EXCEPT !.status = "completed"])
                       /\ Goto(s, "children")
                       /\ UNCHANGED <<live, pointer, tickets, touched, archived, past>>

ArchiveReadsChild(s) ==
  /\ At(s, "archive", "children") /\ run[s].todo # {}
  /\ \E c \in run[s].todo :
       run' = [run EXCEPT ![s].todo = @ \ {c}, ![s].other = c, ![s].theirs = json[c],
                          ![s].at = IF HasFile(c) THEN "orphan" ELSE "children"]
  /\ UNCHANGED <<live, pointer, tickets, touched, archived, json, past>>

ArchiveOrphans(s) == /\ At(s, "archive", "orphan")
                     /\ Write(Other(s), [run[s].theirs EXCEPT !.parent = NoTask])
                     /\ Goto(s, "children")
                     /\ UNCHANGED <<live, pointer, tickets, touched, archived, past>>

ArchiveClears(s) == /\ \/ At(s, "archive", "children") /\ run[s].todo = {}
                       \/ At(s, "archive", "sessions")
                    /\ ClearFromSessions(Task(s))
                    /\ Goto(s, "move")
                    /\ UNCHANGED <<live, tickets, touched, archived, json, past>>

ArchiveMoves(s) == /\ At(s, "archive", "move")
                   /\ live' = live \ {Task(s)}
                   /\ archived' = archived \cup (live \cap {Task(s)})
                   /\ json' = [json EXCEPT ![Task(s)] = NoFile]
                   /\ Ends(s)
                   /\ UNCHANGED <<pointer, tickets, touched, past>>

-----------------------------------------------------------------------------
\* add-subtask reads both files, refuses a child that has a parent, and writes
\* the parent's file before the child's.
AddSubtask(s, p, c) ==
  /\ Begins(s, "add") /\ Counted /\ HasFile(p) /\ HasFile(c)
  /\ json[c].parent = NoTask
  /\ run' = [run EXCEPT ![s] = [Idle EXCEPT !.cmd = "add", !.at = "parent", !.task = c, !.other = p,
                                  !.theirs = Adopt(json[p], c),
                                  !.mine = [json[c] EXCEPT !.parent = p]]]
  /\ UNCHANGED <<live, pointer, tickets, touched, archived, json>>

\* remove-subtask does not look whether the child is this parent's.
RemoveSubtask(s, p, c) ==
  /\ Begins(s, "remove") /\ Counted /\ HasFile(p) /\ HasFile(c)
  /\ run' = [run EXCEPT ![s] = [Idle EXCEPT !.cmd = "remove", !.at = "parent", !.task = c, !.other = p,
                                  !.theirs = [json[p] EXCEPT !.children = @ \ {c}],
                                  !.mine = [json[c] EXCEPT !.parent = NoTask]]]
  /\ UNCHANGED <<live, pointer, tickets, touched, archived, json>>

LinkWritesParent(s) == /\ run[s].cmd \in {"add", "remove"} /\ run[s].at = "parent"
                       /\ Write(Other(s), run[s].theirs)
                       /\ Goto(s, "child")
                       /\ UNCHANGED <<live, pointer, tickets, touched, archived, past>>

LinkWritesChild(s) == /\ run[s].cmd \in {"add", "remove"} /\ run[s].at = "child"
                      /\ Write(Task(s), run[s].mine)
                      /\ Ends(s)
                      /\ UNCHANGED <<live, pointer, tickets, touched, archived, past>>

\* set-branch, set-base-branch, set-scope and set-meta write the file back as
\* it was, but for a field nothing here looks at.
SetField(s, t) == /\ Begins(s, "set") /\ Counted /\ HasFile(t)
                  /\ run' = [run EXCEPT ![s] = [Idle EXCEPT !.cmd = "set", !.at = "write", !.task = t,
                                                            !.mine = json[t]]]
                  /\ UNCHANGED <<live, pointer, tickets, touched, archived, json>>

SetWrites(s) == /\ At(s, "set", "write")
                /\ Write(Task(s), run[s].mine)
                /\ Ends(s)
                /\ UNCHANGED <<live, pointer, tickets, touched, archived, past>>

-----------------------------------------------------------------------------
\* start: without a key the pointer is skipped and the status still changes.
Start(s, t) == /\ Begins(s, "start") /\ Counted /\ t \in live /\ Announced(s, "start", t)
               /\ LET key == ContextKey(s, "start", t) IN SetPointer(key, t) /\ Touches(s, key)
               /\ run' = [run EXCEPT ![s] = [Idle EXCEPT !.cmd = "start", !.at = "read", !.task = t]]
               /\ UNCHANGED <<live, tickets, archived, json>>

StartReads(s) ==
  /\ At(s, "start", "read")
  /\ run' = [run EXCEPT ![s] = IF HasFile(Task(s)) /\ json[Task(s)].status = "planning"
                               THEN [@ EXCEPT !.at = "write", !.mine = json[Task(s)]] ELSE Idle]
  /\ UNCHANGED <<live, pointer, tickets, touched, archived, json, past>>

StartWrites(s) == /\ At(s, "start", "write")
                  /\ Write(Task(s), [run[s].mine EXCEPT !.status = "in_progress"])
                  /\ Ends(s)
                  /\ UNCHANGED <<live, pointer, tickets, touched, archived, past>>

FinishTask(s) == Begins(s, "finish") /\ Counted /\ Finish(s) /\ UNCHANGED <<archived, json, run>>
ShowCurrent(s) == Begins(s, "current") /\ Counted /\ Current(s) /\ UNCHANGED <<archived, json, run>>

\* The person presses Ctrl-C between two files.
Dies(s) == /\ MayDie /\ run[s] # Idle
           /\ past' = [past EXCEPT !.severed = @ \cup {c \in {Task(s)} : At(s, "remove", "child")}]
           /\ Ends(s)
           /\ UNCHANGED <<live, pointer, tickets, touched, archived, json>>

\* The hook of a session, and time.
Hook(s) == /\ \E cmd \in SessionCommands \cap Commands, t \in Tasks \cup {NoTask} :
                (cmd = "start") = (t # NoTask) /\ Announce(s, cmd, t)
           /\ UNCHANGED <<archived, json, run, past>>
TicketExpires == Expire /\ UNCHANGED <<archived, json, run, past>>

TaskInit == /\ SessionInit /\ archived = {}
            /\ past = [commands |-> 0, remade |-> {}, severed |-> {}]
            /\ json = [t \in Tasks |-> NoFile] /\ run = [s \in Sessions |-> Idle]

Began(s) == \/ \E t \in Tasks, parent \in Tasks \cup {NoTask} : Create(s, t, parent)
            \/ \E t \in Tasks : Archive(s, t) \/ SetField(s, t) \/ Start(s, t)
            \/ \E p, c \in Tasks : AddSubtask(s, p, c) \/ RemoveSubtask(s, p, c)
            \/ FinishTask(s) \/ ShowCurrent(s)

Goes(s) == \/ CreateWrites(s) \/ CreateReadsParent(s) \/ CreateAdopts(s) \/ CreateNamesParent(s)
           \/ CreatePoints(s)
           \/ ArchiveCompletes(s) \/ ArchiveReadsChild(s) \/ ArchiveOrphans(s) \/ ArchiveClears(s)
           \/ ArchiveMoves(s)
           \/ LinkWritesParent(s) \/ LinkWritesChild(s) \/ SetWrites(s)
           \/ StartReads(s) \/ StartWrites(s) \/ Dies(s)

TaskNext == (\E s \in Sessions : Began(s) \/ Goes(s) \/ Hook(s)) \/ TicketExpires
TaskSpec == TaskInit /\ [][TaskNext]_vars
-----------------------------------------------------------------------------
Known == {t \in live : json[t] # NoFile}

\* task.py list: the tasks at the top, and below each task the children it names.
OnTop == {t \in Known : json[t].parent \notin Known}
Below == {<<p, c>> \in Known \X Known : c \in json[p].children}
Listed == LET under == TransitiveClosure([x, y \in Known |-> <<x, y>> \in Below], Known) IN
          OnTop \cup {c \in Known : \E p \in OnTop : under[p, c]}
Ancestors(t) == LET up == TransitiveClosure([x, y \in Known |-> json[x].parent = y], Known)
                IN {a \in Known : up[t, a]}

\* Progress counts a child that is not live as done.
Done(p) == {c \in json[p].children : c \notin Known \/ json[c].status = "completed"}

\* Whole files, and every name live or archived but never both.
TaskTypeOK == /\ SessionTypeOK /\ live \cap archived = {}
              /\ archived \subseteq Tasks /\ json \in [Tasks -> Contents] /\ past.commands \in 0..MaxCommands
              /\ \A s \in Sessions : run[s].mine \in Contents /\ run[s].theirs \in Contents

\* A parent that was created anew has lost its children, who still name it; so
\* has one whose remove-subtask died between the parent's file and the child's.
Disowned(c) == json[c].parent \in past.remade \/ c \in past.severed

\* Between commands, a task that names a parent (other than itself) is one of
\* the children of a live task, unless it was disowned.
LinksAreMutual == Resting =>
  \A c \in Known : LET p == json[c].parent IN
    p \in Tasks \ {c} /\ ~Disowned(c) => p \in Known /\ c \in json[p].children

\* A task that is not under itself is in the list people work from, unless it or
\* a task above it was disowned: the list takes such a task for a child that is
\* shown with its parent, and the parent does not show it.
TasksOutsideCyclesAreListed == Resting =>
  \A t \in Known :
    (\A a \in Ancestors(t) \cup {t} : a \notin Ancestors(a) /\ ~Disowned(a)) => t \in Listed

\* A child that was counted as done stays done, for as long as it is a child.
KeepsProgress ==
  \A p \in Known : p \in Known' => Done(p) \cap json'[p].children \subseteq Done(p)'

\* Between commands, no session points at a directory that was moved away.
PointersOfLiveTasks == Resting => \A s \in Sessions : pointer[s] \in live \cup {NoTask}

\* A command looks at or writes the pointer of another session only where there is
\* no other pointer, or where that session alone has a fresh ticket for what is run
\* and the command's own has expired or was never written.
GuessesNothing ==
  \A s \in Sessions : touched'[s] \notin {touched[s], s, NoKey} =>
    \/ Pointing = {touched'[s]}
    \/ ~Prompt /\ \E cmd \in SessionCommands, t \in Tasks \cup {NoTask} :
                     {k.key : k \in Matching(cmd, t)} = {touched'[s]}
=============================================================================
