----------------------------- MODULE DaemonRuntime -----------------------------
(***************************************************************************)
(* The local daemon around the kernel: commands, the ingest thread and the *)
(* sweep change one world in memory and save it whole; runs are sessions   *)
(* on threads of their own that talk to the ingest thread by a channel.    *)
(* One gate keeps change and save together.  A save may fail, before the   *)
(* snapshot is written or after, and the daemon may die between any two    *)
(* steps, which its sessions' processes may survive.  The import of agents *)
(* found on the machine changes the world without the gate.                *)
(***************************************************************************)
EXTENDS Naturals, Sequences

CONSTANTS Runs,       \* run ids, each drawn once
          Things,     \* what else commands create
          Agents,     \* what imports change: agents made, and older ones archived
          Failures,   \* how a save may fail: "early", "late"
          MaxCrashes

ASSUME DaemonAssumption == Failures \subseteq {"early", "late"} /\ MaxCrashes \in Nat

VARIABLES
  up, crashes,
  world, disk,     \* the kernel's world, and the saved snapshot
  gate,            \* who holds persist_gate
  command,         \* the command or sweep under way, and the world before it
  channel, ingest, \* events on their way; the one the ingest thread works on
  thread, child,   \* each run's session thread and agent process
  pids,            \* the registered processes
  used,            \* the run ids drawn
  acked, refused,  \* the commands answered, and those answered with a failed save
  importing,       \* what the import under way has changed
  imported,        \* what imports were acknowledged for
  beside           \* the command that was under way when an import changed something

vars == <<up, crashes, world, disk, gate, command, channel, ingest, thread, child, pids,
          used, acked, refused, importing, imported, beside>>
sessions == <<thread, child, pids, channel>>
answers == <<acked, refused>>
imports == <<importing, imported, beside>>

Worlds == [run : [Runs -> {"none", "running", "paused", "completed", "failed", "cancelled",
                           "interrupted"}],
           things : SUBSET Things, agents : SUBSET Agents]
Fresh == [run |-> [r \in Runs |-> "none"], things |-> {}, agents |-> {}]
NoRun == "no run"
NotYet == <<"not yet", NoRun>>
NoEvent == [run |-> NoRun, what |-> "none"]
Idle == [what |-> "none", of |-> NoRun, at |-> "idle", before |-> Fresh]
Quiet == [event |-> NoEvent, at |-> "idle"]
With(r, status) == [world EXCEPT !.run[r] = status]

-----------------------------------------------------------------------------
\* An unchanged world is not written; the snapshot is committed before the
\* event log and the outbox are.
Saves == {[ok |-> TRUE, disk |-> world]}
         \cup (IF "early" \in Failures THEN {[ok |-> FALSE, disk |-> disk]} ELSE {})
         \cup (IF "late" \in Failures /\ disk # world THEN {[ok |-> FALSE, disk |-> world]} ELSE {})
Failed(save) == IF save.disk = disk THEN "early" ELSE "late"

\* A command takes the gate, and a copy of the world.
Begins(what, of, at) ==
  /\ up /\ gate = "free" /\ gate' = "command"
  /\ command' = [what |-> what, of |-> of, at |-> at, before |-> world]

\* Any command that starts and stops no run.
Create(t) == /\ Begins("create", t, "save") /\ t \notin world.things
             /\ world' = [world EXCEPT !.things = @ \cup {t}]
             /\ UNCHANGED <<up, crashes, disk, ingest, used, sessions, answers, imports>>

\* A run is recorded and its thread is started within the command.
Starts(what, r) == /\ Begins(what, r, "save") /\ r \notin used
                   /\ used' = used \cup {r}
                   /\ world' = With(r, "running")
                   /\ thread' = [thread EXCEPT ![r] = "spawned"]
                   /\ UNCHANGED <<up, crashes, disk, ingest, child, pids, channel,
                                  answers, imports>>

StartRun(r) == Starts("start", r)
\* An automation that is due starts a run as well.
SweepAutomations(r) == Starts("sweep", r)

CancelRun(r) == /\ Begins("cancel", r, "kill") /\ world.run[r] \in {"running", "paused"}
                /\ world' = With(r, "cancelled")
                /\ UNCHANGED <<up, crashes, disk, ingest, used, sessions, answers, imports>>

\* kill_child: only a registered process is told to stop, and its entry goes.
Kill == /\ command.at = "kill"
        /\ LET r == command.of IN
           /\ child' = IF r \in pids /\ child[r] = "works" THEN [child EXCEPT ![r] = "told"]
                       ELSE child
           /\ pids' = pids \ {r}
        /\ command' = [command EXCEPT !.at = "save"]
        /\ UNCHANGED <<up, crashes, world, disk, gate, ingest, thread, channel, used,
                       answers, imports>>

\* Mutant: the failed command's changes stay in memory.
AnswerUnchanged ==
  /\ command.at = "save"
  /\ \E save \in Saves : /\ disk' = save.disk
                         /\ IF save.ok THEN acked' = acked \cup {<<command.what, command.of>>}
                                            /\ UNCHANGED refused
                            ELSE refused' = refused \cup {<<command.what, command.of, Failed(save)>>}
                                 /\ UNCHANGED acked
  /\ command' = Idle /\ gate' = "free"
  /\ UNCHANGED <<up, crashes, world, ingest, used, sessions, imports>>

\* Mutant: the answer does not wait for the save.
AnswerAnyway ==
  /\ command.at = "save"
  /\ \E save \in Saves : disk' = save.disk
  /\ acked' = acked \cup {<<command.what, command.of>>}
  /\ command' = Idle /\ gate' = "free"
  /\ UNCHANGED <<up, crashes, world, refused, ingest, used, sessions, imports>>

\* submit_and_persist: a failed save puts the old world back, in memory; a sweep
\* does not look at how its save went, nor has it anybody to answer.
Answer ==
  /\ command.at = "save"
  /\ \E save \in Saves :
       /\ disk' = save.disk
       /\ world' = IF save.ok \/ command.what = "sweep" THEN world ELSE command.before
       /\ acked' = IF save.ok /\ command.what # "sweep"
                   THEN acked \cup {<<command.what, command.of>>} ELSE acked
       /\ refused' = IF ~save.ok /\ command.what # "sweep"
                     THEN refused \cup {<<command.what, command.of, Failed(save)>>}
                     ELSE refused
  /\ command' = Idle /\ gate' = "free"
  /\ UNCHANGED <<up, crashes, ingest, used, sessions, imports>>

-----------------------------------------------------------------------------
\* import_agents: the kernel takes each change at once, whoever has the gate,
ImportAgent(a) == /\ up /\ beside[a] = NotYet
                  /\ beside' = [beside EXCEPT ![a] = <<command.what, command.of>>]
                  /\ world' = [world EXCEPT !.agents = @ \cup {a}]
                  /\ importing' = importing \cup {a}
                  /\ UNCHANGED <<up, crashes, disk, gate, command, ingest, used, imported,
                                 sessions, answers>>

\* and what is then in memory is saved in the gate; a failed save changes nothing there.
ImportAnswers == /\ up /\ importing # {} /\ gate = "free"
                 /\ \E save \in Saves :
                      /\ disk' = save.disk
                      /\ imported' = IF save.ok THEN imported \cup importing ELSE imported
                 /\ importing' = {}
                 /\ UNCHANGED <<up, crashes, world, gate, command, ingest, used, beside,
                                sessions, answers>>

-----------------------------------------------------------------------------
\* A session: the agent's program is found, started, registered and waited for.
Sends(r, what) == channel' = Append(channel, [run |-> r, what |-> what])

Launch(r) == /\ thread[r] = "spawned"
             /\ \/ thread' = [thread EXCEPT ![r] = "launched"]
                   /\ child' = [child EXCEPT ![r] = "works"]
                \/ thread' = [thread EXCEPT ![r] = "ended"] /\ UNCHANGED child
             /\ UNCHANGED <<up, crashes, world, disk, gate, command, ingest, pids,
                            channel, used, answers, imports>>

Register(r) == /\ thread[r] = "launched"
               /\ thread' = [thread EXCEPT ![r] = "registered"]
               /\ pids' = pids \cup {r}
               /\ UNCHANGED <<up, crashes, world, disk, gate, command, ingest, child,
                              channel, used, answers, imports>>

\* The agent contradicts a commitment.  Said twice, or of a run that is not
\* running, it changes nothing.
Drift(r) == /\ thread[r] = "registered" /\ child[r] # "gone" /\ world.run[r] = "running"
            /\ \A i \in DOMAIN channel : channel[i].run # r
            /\ Sends(r, "drift")
            /\ UNCHANGED <<up, crashes, world, disk, gate, command, ingest, thread,
                           child, pids, used, answers, imports>>

\* By itself or because it was told to; also when the daemon is gone.
ChildEnds(r) == /\ child[r] \in {"works", "told"}
                /\ child' = [child EXCEPT ![r] = "gone"]
                /\ UNCHANGED <<up, crashes, world, disk, gate, command, ingest, thread,
                               pids, channel, used, answers, imports>>

\* A protocol session that is over forgets its process and then kills it.
EndTurn(r) == /\ thread[r] = "registered" /\ child[r] # "gone"
              /\ thread' = [thread EXCEPT ![r] = "closing"]
              /\ pids' = pids \ {r}
              /\ UNCHANGED <<up, crashes, world, disk, gate, command, ingest, child,
                             channel, used, answers, imports>>

\* The session forgets its process before it says its last word.
Unregister(r) == /\ thread[r] \in {"registered", "closing"} /\ child[r] = "gone"
                 /\ thread' = [thread EXCEPT ![r] = "ended"]
                 /\ pids' = pids \ {r}
                 /\ UNCHANGED <<up, crashes, world, disk, gate, command, ingest, child,
                                channel, used, answers, imports>>

\* Mutant: a session that failed to start sends nothing but its message.
LastWordOfLaunched(r) ==
  /\ thread[r] = "ended"
  /\ thread' = [thread EXCEPT ![r] = "none"]
  /\ IF child[r] = "none" THEN UNCHANGED channel
     ELSE \E what \in {"ok", "failed"} : Sends(r, what)
  /\ UNCHANGED <<up, crashes, world, disk, gate, command, ingest, child, pids, used,
                 answers, imports>>

\* Whatever happened, the session event is the last thing a thread sends.
LastWord(r) == /\ thread[r] = "ended"
               /\ thread' = [thread EXCEPT ![r] = "none"]
               /\ \E what \in {"ok", "failed"} : Sends(r, what)
               /\ UNCHANGED <<up, crashes, world, disk, gate, command, ingest, child,
                              pids, used, answers, imports>>

-----------------------------------------------------------------------------
\* The ingest thread takes an event before it waits for the gate.
Receive == /\ up /\ ingest = Quiet /\ channel # <<>>
           /\ ingest' = [event |-> Head(channel), at |-> "wait"]
           /\ channel' = Tail(channel)
           /\ UNCHANGED <<up, crashes, world, disk, gate, command, thread, child, pids,
                          used, answers, imports>>

\* IngestHarnessEvent: an event of a run that is not running is refused.
Ingested == LET r == ingest.event.run IN
  IF world.run[r] # "running" THEN world
  ELSE With(r, CASE ingest.event.what = "drift" -> "paused"
                 [] ingest.event.what = "ok" -> "completed"
                 [] ingest.event.what = "failed" -> "failed")

\* Mutant: the ingest thread does not take the gate.
ApplyUngated == /\ ingest.at = "wait"
                /\ world' = Ingested
                /\ ingest' = [ingest EXCEPT !.at = "save"]
                /\ UNCHANGED <<up, crashes, disk, gate, command, used, sessions,
                               answers, imports>>

Apply == /\ ingest.at = "wait" /\ gate = "free" /\ gate' = "ingest"
         /\ world' = Ingested
         /\ ingest' = [ingest EXCEPT !.at = "save"]
         /\ UNCHANGED <<up, crashes, disk, command, used, sessions, answers, imports>>

\* How the save went is not looked at; the next one tries again.
Keep == /\ ingest.at = "save"
        /\ \E save \in Saves : disk' = save.disk
        /\ ingest' = Quiet /\ gate' = IF gate = "ingest" THEN "free" ELSE gate
        /\ UNCHANGED <<up, crashes, world, command, used, sessions, answers, imports>>

-----------------------------------------------------------------------------
\* The threads and what they hold are gone, the agents' processes may live on.
Crash == /\ up /\ crashes < MaxCrashes
         /\ up' = FALSE /\ crashes' = crashes + 1
         /\ world' = Fresh /\ gate' = "free" /\ command' = Idle /\ ingest' = Quiet
         /\ channel' = <<>> /\ pids' = {} /\ thread' = [r \in Runs |-> "none"] /\ importing' = {}
         /\ UNCHANGED <<disk, child, used, answers, imported, beside>>

\* Mutant: the world is taken as it was saved.
LoadedAsIs == disk

\* interrupt_orphaned_executions: no run outlives its daemon.
Loaded == [disk EXCEPT !.run = [r \in Runs |-> IF @[r] = "running" THEN "interrupted" ELSE @[r]]]

\* Runtime::open: a world that was changed is saved, or the daemon does not start.
Open == /\ ~up
        /\ \/ up' = TRUE /\ world' = Loaded /\ disk' = Loaded
           \/ /\ "late" \in Failures /\ disk # Loaded
              /\ disk' = Loaded /\ UNCHANGED <<up, world>>
        /\ UNCHANGED <<crashes, gate, command, ingest, used, sessions, answers, imports>>

-----------------------------------------------------------------------------
Init == /\ up = TRUE /\ crashes = 0 /\ world = Fresh /\ disk = Fresh /\ gate = "free"
        /\ command = Idle /\ channel = <<>> /\ ingest = Quiet
        /\ thread = [r \in Runs |-> "none"] /\ child = [r \in Runs |-> "none"]
        /\ pids = {} /\ used = {} /\ acked = {} /\ refused = {}
        /\ importing = {} /\ imported = {} /\ beside = [a \in Agents |-> NotYet]

Session(r) == Launch(r) \/ Register(r) \/ ChildEnds(r) \/ EndTurn(r) \/ Unregister(r) \/ LastWord(r)
Ingest == Receive \/ Apply \/ Keep

Next == \/ \E t \in Things : Create(t)
        \/ ImportAnswers \/ \E a \in Agents : ImportAgent(a)
        \/ \E r \in Runs : StartRun(r) \/ SweepAutomations(r) \/ CancelRun(r)
        \/ \E r \in Runs : Session(r) \/ Drift(r)
        \/ Kill \/ Answer \/ Ingest \/ Crash \/ Open

Spec == Init /\ [][Next]_vars

\* Threads are scheduled and a session ends; the gate is passed on to whoever
\* has waited.  Nothing is assumed of people, of saves or of a dead daemon.
FairSpec == /\ Spec /\ WF_vars(Kill \/ Answer) /\ WF_vars(Receive \/ Keep) /\ SF_vars(Apply)
            /\ \A r \in Runs : WF_vars(Session(r))

-----------------------------------------------------------------------------
DaemonTypeOK ==
  /\ world \in Worlds /\ disk \in Worlds
  /\ pids \subseteq {r \in Runs : thread[r] = "registered"}
  /\ gate = "command" <=> command # Idle
  /\ gate = "ingest" <=> ingest.at = "save"

Effect(w, c) == CASE c[1] = "create" -> c[2] \in w.things
                  [] c[1] = "start"  -> w.run[c[2]] # "none"
                  [] c[1] = "cancel" -> w.run[c[2]] = "cancelled"

\* The rollback of the command that was under way when an agent came in takes it
\* away again.
SweptAway(a) == \E c \in refused : beside[a] = <<c[1], c[2]>>

\* What was acknowledged is on disk from then on, whatever fails or dies
\* (submit_and_persist).  So is what was imported, without the gate, unless the
\* command beside which it came in was refused (import_agents).
AcknowledgedIsDurable == /\ \A c \in acked : Effect(disk, c)
                         /\ \A a \in imported : a \in disk.agents \/ SweptAway(a)

IsLastWord(event, r) == event.run = r /\ event.what \in {"ok", "failed"}
Heard(r) == \/ thread[r] # "none"
            \/ IsLastWord(ingest.event, r)
            \/ \E i \in DOMAIN channel : IsLastWord(channel[i], r)

\* A run that is shown as running will be heard of: its thread is alive, or its
\* last word is on its way.  A failed save, a restart or a rollback leaves no
\* run behind that waits for ever.
RunningIsHeardOf ==
  up /\ gate = "free" => \A r \in Runs : world.run[r] = "running" => Heard(r)

\* What a session came to is not taken back while the daemon lives, not even by
\* the rollback of a command that was under way at the same time.
OutcomesStand ==
  [][\A r \in Runs : up /\ up' /\ world.run[r] \in {"completed", "failed", "interrupted"} =>
       world'.run[r] = world.run[r]]_vars

\* A running run comes to an end, unless its daemon does before.
RunsEnd == \A r \in Runs : up /\ world.run[r] = "running" ~> ~up \/ world.run[r] # "running"

\* A command that was answered with a failed save has not happened, not in
\* memory and not after a restart, unless a save of it failed late or it was
\* asked for again, and whatever is imported beside it.  Nothing is said of an
\* import whose save fails: it is not rolled back, and the next save has it.
RefusedIsForgotten ==
  \A c \in refused :
    LET asked == <<c[1], c[2]>> IN
    c[1] # "cancel" /\ asked \notin acked /\ <<c[1], c[2], "late">> \notin refused =>
      ~Effect(disk, asked) /\ (gate = "free" => ~Effect(world, asked))
================================================================================
