------------------------------ MODULE TaskSessions ------------------------------
(***************************************************************************)
(* The active task of a session (active_task.py).  A session's pointer is  *)
(* a file named after its key; a shell command learns the key from its     *)
(* environment where the platform exports it, and otherwise from a ticket  *)
(* that a hook wrote just before the command, which counts for 30 seconds. *)
(* A ticket says what is run and not by which shell: a command without one *)
(* takes the other window's, if that is the only one that fits; and a      *)
(* session without a pointer takes the only pointer there is.              *)
(***************************************************************************)
EXTENDS Naturals, FiniteSets

CONSTANTS Sessions,   \* a session is also its key
          Exporting,  \* those whose platform exports the key to the shell
          Prompt,     \* commands run within 30 seconds of their hook
          Tasks, NoTask, NoKey

ConstantsAreSound == /\ Exporting \subseteq Sessions
                     /\ NoTask \notin Tasks /\ NoKey \notin Sessions

VARIABLES
  live,     \* the directories directly under tasks/
  pointer,  \* each session file: the task it names, NoTask when there is none
  tickets,  \* what the hooks announced: whose command, which, on which task
  touched     \* whose pointer `current` last showed each session

\* Only these commands are looked up among the tickets.
SessionCommands == {"start", "current", "finish"}
Matching(cmd, t) == {k \in tickets : k.cmd = cmd /\ (cmd = "start" => k.task = t)}

\* The key a command of session s acts under.
ContextKey(s, cmd, t) ==
  LET keys == {k.key : k \in Matching(cmd, t)} IN
  IF s \in Exporting THEN s
  ELSE IF cmd \in SessionCommands /\ Cardinality(keys) = 1 THEN CHOOSE k \in keys : TRUE
  ELSE NoKey

Pointing == {s \in Sessions : pointer[s] # NoTask}

\* Whose pointer is the active task's: the key's own, else the only one.
Holder(key) == IF key \in Pointing THEN key
               ELSE IF Cardinality(Pointing) = 1 THEN CHOOSE s \in Pointing : TRUE
               ELSE NoKey

\* set_active_task: nothing without a key, or when the directory is gone.
Points(key, t) == key # NoKey /\ t \in live
SetPointer(key, t) == pointer' = IF Points(key, t) THEN [pointer EXCEPT ![key] = t] ELSE pointer

\* clear_active_task, with the fallback of the only pointer.
ClearPointer(key) ==
  pointer' = IF key # NoKey /\ Holder(key) # NoKey THEN [pointer EXCEPT ![Holder(key)] = NoTask]
             ELSE pointer

\* clear_task_from_sessions: whoever points at the task.
ClearFromSessions(t) == pointer' = [s \in Sessions |-> IF pointer[s] = t THEN NoTask ELSE pointer[s]]

-----------------------------------------------------------------------------
\* A hook announces the command its session is about to run.
Announce(s, cmd, t) ==
  /\ s \notin Exporting
  /\ tickets' = tickets \cup {[key |-> s, cmd |-> cmd, task |-> t]}
  /\ UNCHANGED <<live, pointer, touched>>

\* Thirty seconds have passed.
Expire == /\ \E k \in tickets : tickets' = tickets \ {k}
          /\ UNCHANGED <<live, pointer, touched>>

\* A platform without exported keys may have hooks, whose tickets wear out.  With
\* Prompt a command runs while its own is fresh; otherwise it may have none, and
\* is taken for the window that announced the same command, if only one did.
Announced(s, cmd, t) == s \in Exporting \/ (Prompt => \E k \in Matching(cmd, t) : k.key = s)

Touches(s, key) == touched' = [touched EXCEPT ![s] = key]

\* `current` shows the active task and changes nothing.
Current(s) == /\ Announced(s, "current", NoTask)
              /\ Touches(s, Holder(ContextKey(s, "current", NoTask)))
              /\ UNCHANGED <<live, pointer, tickets>>

\* `finish` deletes the file the active task was read from.
Finish(s) == LET key == ContextKey(s, "finish", NoTask) IN
             /\ Announced(s, "finish", NoTask)
             /\ ClearPointer(key)
             /\ Touches(s, IF key = NoKey THEN NoKey ELSE Holder(key))
             /\ UNCHANGED <<live, tickets>>

SessionInit == /\ live = {} /\ tickets = {}
               /\ pointer = [s \in Sessions |-> NoTask] /\ touched = [s \in Sessions |-> NoKey]

\* Session files name tasks, whether these exist or not, and only the sessions
\* that need tickets have any.
SessionTypeOK == /\ live \subseteq Tasks
                 /\ pointer \in [Sessions -> Tasks \cup {NoTask}]
                 /\ tickets \subseteq [key : Sessions \ Exporting, cmd : SessionCommands,
                                       task : Tasks \cup {NoTask}]
                 /\ touched \in [Sessions -> Sessions \cup {NoKey}]
=============================================================================
