------------------------------ MODULE DaemonProofs ------------------------------
(***************************************************************************)
(* For any runs, things, imports, failing saves and restarts: what was     *)
(* acknowledged stays on disk, what was refused is forgotten, what a       *)
(* session came to stays while the daemon lives, and every running run is  *)
(* heard of.                                                               *)
(***************************************************************************)
EXTENDS DaemonRuntime, SequenceTheorems, TLAPS

Ended == {"completed", "failed", "interrupted"}
Event == [run : Runs, what : {"drift", "ok", "failed"}]
Answers == ({"create"} \X Things) \cup ({"start", "cancel"} \X Runs)

WorldsOK == world \in Worlds /\ disk \in Worlds /\ command.before \in Worlds

\* Who holds the gate is at work, and nobody is when the daemon is dead.
GateOK ==
  /\ command \in [what : {"none", "create", "start", "sweep", "cancel"}, of : Runs \cup Things \cup {NoRun},
                  at : {"idle", "kill", "save"}, before : Worlds]
  /\ command.at = "idle" => command = Idle
  /\ command.what = "create" => command.of \in Things
  /\ command.what \in {"start", "sweep", "cancel"} => command.of \in Runs
  /\ command.at = "save" => command.what # "none"
  /\ command.at = "kill" => command.what = "cancel"
  /\ ingest \in [event : Event \cup {NoEvent}, at : {"idle", "wait", "save"}]
  /\ ingest.at = "idle" <=> ingest = Quiet
  /\ ingest.at # "idle" => ingest.event \in Event
  /\ gate = "command" <=> command.at # "idle"
  /\ gate = "ingest" <=> ingest.at = "save"
  /\ ~up => command.at = "idle" /\ ingest.at = "idle"
  /\ up \in BOOLEAN

ThreadsOK ==
  /\ thread \in [Runs -> {"none", "spawned", "launched", "registered", "closing", "ended"}]
  /\ child \in [Runs -> {"none", "works", "told", "gone"}]
  /\ channel \in Seq(Event)
  /\ pids \subseteq {r \in Runs : thread[r] = "registered"}
  /\ \A r \in Runs : thread[r] # "none" => r \in used

\* Ids are drawn before a run is known anywhere.
UsedOK == \A r \in Runs : world.run[r] # "none" \/ disk.run[r] # "none"
                          \/ command.before.run[r] # "none" => r \in used

Keeps(w) == \A c \in acked : Effect(w, c)

\* What was acknowledged is wherever the world may be taken from; what is about
\* to be, is in the world that is saved.
DurableOK ==
  /\ acked \subseteq Answers
  /\ Keeps(disk)
  /\ up => Keeps(world)
  /\ gate = "command" => Keeps(command.before)
  /\ command.at = "save" /\ command.what # "sweep" => Effect(world, <<command.what, command.of>>)
  /\ command.at = "kill" => world.run[command.of] = "cancelled"

\* A rollback changes no outcome.
OutcomesOK == gate = "command" => \A r \in Runs : world.run[r] \in Ended => command.before.run[r] = world.run[r]

\* Also a run that a rollback makes running again is heard of.
HeardOK ==
  /\ up => \A r \in Runs : world.run[r] = "running" => Heard(r)
  /\ gate = "command" => \A r \in Runs : command.before.run[r] = "running" => Heard(r)
  /\ ingest.at = "save" => \A r \in Runs : IsLastWord(ingest.event, r) => world.run[r] # "running"

IInv == WorldsOK /\ GateOK /\ ThreadsOK /\ UsedOK /\ DurableOK /\ OutcomesOK /\ HeardOK

-----------------------------------------------------------------------------
(* What the steps have in common.                                           *)

LEMMA WithIsAWorld ==
  ASSUME WorldsOK, NEW r \in Runs,
         NEW status \in {"running", "paused", "completed", "failed", "cancelled", "interrupted"}
  PROVE  /\ With(r, status) \in Worlds
         /\ With(r, status).things = world.things /\ With(r, status).agents = world.agents
         /\ With(r, status).run[r] = status
         /\ \A q \in Runs \ {r} : With(r, status).run[q] = world.run[q]
BY DEF WorldsOK, Worlds, With

LEMMA FreshIsAWorld == Fresh \in Worlds /\ \A r \in Runs : Fresh.run[r] = "none"
BY DEF Fresh, Worlds

\* A save leaves the old snapshot or the present world on disk; one that
\* succeeds, the latter.
LEMMA SavesAre ==
  \A save \in Saves : save.disk \in {disk, world} /\ (save.ok => save.disk = world)
BY DEF Saves

\* Sessions change neither world nor snapshot, nor what is under way with them.
LEMMA SessionsOnlyReport ==
  ASSUME NEW r \in Runs, Session(r) \/ Drift(r)
  PROVE  UNCHANGED <<up, crashes, world, disk, gate, command, ingest, used, acked, refused>>
BY DEF Session, Drift, Launch, Register, ChildEnds, EndTurn, Unregister, LastWord, Sends, answers

\* An import adds to the world and is otherwise seen by nobody; its answer saves.
LEMMA ImportsAddAgents ==
  ASSUME WorldsOK, NEW a \in Agents, ImportAgent(a)
  PROVE  /\ world' \in Worlds /\ world'.agents = world.agents \cup {a}
         /\ world'.things = world.things /\ world'.run = world.run
         /\ UNCHANGED <<up, crashes, disk, gate, command, channel, ingest, thread, child, pids,
                        used, acked, refused>>
BY DEF WorldsOK, Worlds, ImportAgent, sessions, answers

LEMMA ImportsAreAnswered ==
  ASSUME ImportAnswers
  PROVE  /\ gate = "free" /\ disk' \in {disk, world}
         /\ UNCHANGED <<up, crashes, world, gate, command, channel, ingest, thread, child, pids,
                        used, acked, refused>>
BY SavesAre DEF ImportAnswers, sessions, answers

\* An event changes at most its own run, and that only from running.
LEMMA IngestedIs ==
  ASSUME WorldsOK, ingest.event \in Event
  PROVE  \/ Ingested = world
         \/ /\ world.run[ingest.event.run] = "running"
            /\ \E status \in {"paused", "completed", "failed"} :
                 /\ Ingested = With(ingest.event.run, status)
                 /\ ingest.event.what = "drift" => status = "paused"
BY DEF Ingested, Event

LEMMA EventLeavesNothingRunning ==
  ASSUME WorldsOK, ingest.event \in Event
  PROVE  Ingested.run[ingest.event.run] # "running"
<1>1. CASE world.run[ingest.event.run] = "running"
  BY <1>1, WithIsAWorld DEF Ingested, Event
<1>2. CASE world.run[ingest.event.run] # "running"
  BY <1>2 DEF Ingested
<1> QED BY <1>1, <1>2

LEMMA LoadedIs ==
  ASSUME WorldsOK
  PROVE  /\ Loaded \in Worlds /\ Loaded.things = disk.things /\ Loaded.agents = disk.agents
         /\ \A r \in Runs : Loaded.run[r] = IF disk.run[r] = "running" THEN "interrupted" ELSE disk.run[r]
BY DEF WorldsOK, Worlds, Loaded

-----------------------------------------------------------------------------
(* The initial state, and the types.                                        *)

LEMMA InitIsSound == Init => IInv
<1> SUFFICES ASSUME Init PROVE IInv
  OBVIOUS
<1>1. WorldsOK /\ UsedOK
  BY FreshIsAWorld DEF Init, WorldsOK, UsedOK, Idle
<1>2. GateOK
  BY FreshIsAWorld DEF Init, GateOK, Idle, Quiet
<1>3. ThreadsOK
  BY DEF Init, ThreadsOK
<1>4. DurableOK
  BY DEF Init, DurableOK, Keeps, Idle
<1>5. OutcomesOK /\ HeardOK
  BY FreshIsAWorld DEF Init, OutcomesOK, HeardOK, Quiet
<1> QED BY <1>1, <1>2, <1>3, <1>4, <1>5 DEF IInv

LEMMA WorldsStayOK ==
  ASSUME IInv, [Next]_vars
  PROVE  WorldsOK'
<1> USE DEF IInv, WorldsOK
<1>1. ASSUME NEW t \in Things, Create(t) PROVE WorldsOK'
  BY <1>1 DEF Create, Begins, Worlds
<1>2. ASSUME NEW r \in Runs, NEW what, Starts(what, r) PROVE WorldsOK'
  BY <1>2, WithIsAWorld DEF Starts, Begins
<1>3. ASSUME NEW r \in Runs, CancelRun(r) PROVE WorldsOK'
  BY <1>3, WithIsAWorld DEF CancelRun, Begins
<1>4. ASSUME NEW r \in Runs, Session(r) \/ Drift(r) PROVE WorldsOK'
  BY <1>4, SessionsOnlyReport
<1>5. CASE Kill
  BY <1>5 DEF Kill, GateOK
<1>6. CASE Answer
  BY <1>6, SavesAre, FreshIsAWorld DEF Answer, Idle
<1>7. CASE Receive
  BY <1>7 DEF Receive
<1>8. CASE Apply
  BY <1>8, IngestedIs, WithIsAWorld DEF Apply, GateOK, Event
<1>9. CASE Keep
  BY <1>9, SavesAre DEF Keep
<1>10. CASE Crash
  BY <1>10, FreshIsAWorld DEF Crash, Idle
<1>11. CASE Open
  BY <1>11, LoadedIs DEF Open
<1>12. CASE UNCHANGED vars
  BY <1>12 DEF vars
<1>13. ASSUME NEW a \in Agents, ImportAgent(a) PROVE WorldsOK'
  BY <1>13, ImportsAddAgents
<1>14. CASE ImportAnswers
  BY <1>14, ImportsAreAnswered
<1> QED
  BY <1>1, <1>2, <1>3, <1>4, <1>5, <1>6, <1>7, <1>8, <1>9, <1>10, <1>11, <1>12, <1>13,
     <1>14 DEF Next, StartRun, SweepAutomations, Ingest

LEMMA GateStaysOK ==
  ASSUME IInv, [Next]_vars
  PROVE  GateOK'
<1> USE DEF IInv, GateOK
<1>1. ASSUME NEW t \in Things, Create(t) PROVE GateOK'
  BY <1>1 DEF Create, Begins, WorldsOK, Idle
<1>2. ASSUME NEW r \in Runs, NEW what \in {"start", "sweep"}, Starts(what, r) PROVE GateOK'
  BY <1>2 DEF Starts, Begins, WorldsOK, Idle
<1>3. ASSUME NEW r \in Runs, CancelRun(r) PROVE GateOK'
  BY <1>3 DEF CancelRun, Begins, WorldsOK, Idle
<1>4. ASSUME NEW r \in Runs, Session(r) \/ Drift(r) PROVE GateOK'
  BY <1>4, SessionsOnlyReport
<1>5. CASE Kill
  BY <1>5 DEF Kill, Idle
<1>6. CASE Answer
  BY <1>6, FreshIsAWorld DEF Answer, Idle
<1>7. CASE Receive
  <2>1. channel # <<>> /\ channel \in Seq(Event)
    BY <1>7 DEF Receive, ThreadsOK
  <2>2. Head(channel) \in Event
    BY <2>1
  <2> QED BY <1>7, <2>2 DEF Receive, Quiet
<1>8. CASE Apply
  BY <1>8 DEF Apply, Quiet
<1>9. CASE Keep
  BY <1>9 DEF Keep, Quiet
<1>10. CASE Crash
  BY <1>10, FreshIsAWorld DEF Crash, Idle, Quiet
<1>11. CASE Open
  BY <1>11 DEF Open
<1>12. CASE UNCHANGED vars
  BY <1>12 DEF vars
<1>13. ASSUME NEW a \in Agents, ImportAgent(a) PROVE GateOK'
  BY <1>13, ImportsAddAgents
<1>14. CASE ImportAnswers
  BY <1>14, ImportsAreAnswered
<1> QED
  BY <1>1, <1>2, <1>3, <1>4, <1>5, <1>6, <1>7, <1>8, <1>9, <1>10, <1>11, <1>12, <1>13,
     <1>14 DEF Next, StartRun, SweepAutomations, Ingest

LEMMA SendsIsTyped ==
  ASSUME ThreadsOK, NEW r \in Runs, NEW what \in {"drift", "ok", "failed"}, Sends(r, what)
  PROVE  /\ channel' \in Seq(Event)
         /\ \A i \in DOMAIN channel : i \in DOMAIN channel' /\ channel'[i] = channel[i]
         /\ \E i \in DOMAIN channel' : channel'[i] = [run |-> r, what |-> what]
<1> DEFINE event == [run |-> r, what |-> what]
<1>1. event \in Event /\ channel \in Seq(Event) /\ channel' = Append(channel, event)
  BY DEF ThreadsOK, Sends, Event
<1> HIDE DEF event
<1>2. /\ channel' \in Seq(Event) /\ Len(channel') = Len(channel) + 1 /\ Len(channel) \in Nat
      /\ \A i \in 1..Len(channel) : channel'[i] = channel[i]
      /\ channel'[Len(channel) + 1] = event
  BY <1>1
<1>3. DOMAIN channel = 1..Len(channel) /\ DOMAIN channel' = 1..Len(channel')
  BY <1>1, <1>2, LenProperties
<1> QED BY <1>2, <1>3 DEF event

LEMMA ThreadsStayOK ==
  ASSUME IInv, [Next]_vars
  PROVE  ThreadsOK'
<1> USE DEF IInv, ThreadsOK
<1>1. ASSUME NEW t \in Things, Create(t) PROVE ThreadsOK'
  BY <1>1 DEF Create, sessions
<1>2. ASSUME NEW r \in Runs, NEW what, Starts(what, r) PROVE ThreadsOK'
  BY <1>2 DEF Starts
<1>3. ASSUME NEW r \in Runs, CancelRun(r) PROVE ThreadsOK'
  BY <1>3 DEF CancelRun, sessions
<1>4. ASSUME NEW r \in Runs, Session(r) PROVE ThreadsOK'
  <2>1. CASE Launch(r)
    BY <2>1 DEF Launch
  <2>2. CASE Register(r)
    BY <2>2 DEF Register
  <2>3. CASE ChildEnds(r)
    BY <2>3 DEF ChildEnds
  <2>4. CASE EndTurn(r)
    BY <2>4 DEF EndTurn
  <2>5. CASE Unregister(r)
    BY <2>5 DEF Unregister
  <2>6. CASE LastWord(r)
    BY <2>6, SendsIsTyped DEF LastWord
  <2> QED BY <1>4, <2>1, <2>2, <2>3, <2>4, <2>5, <2>6 DEF Session
<1>5. ASSUME NEW r \in Runs, Drift(r) PROVE ThreadsOK'
  BY <1>5, SendsIsTyped DEF Drift
<1>6. CASE Kill
  BY <1>6 DEF Kill, GateOK
<1>7. CASE Answer
  BY <1>7 DEF Answer, sessions
<1>8. CASE Receive
  BY <1>8 DEF Receive
<1>9. CASE Apply \/ Keep
  BY <1>9 DEF Apply, Keep, sessions
<1>10. CASE Crash
  BY <1>10 DEF Crash
<1>11. CASE Open
  BY <1>11 DEF Open, sessions
<1>12. CASE UNCHANGED vars
  BY <1>12 DEF vars, sessions
<1>13. ASSUME NEW a \in Agents, ImportAgent(a) PROVE ThreadsOK'
  BY <1>13, ImportsAddAgents
<1>14. CASE ImportAnswers
  BY <1>14, ImportsAreAnswered
<1> QED
  BY <1>1, <1>2, <1>3, <1>4, <1>5, <1>6, <1>7, <1>8, <1>9, <1>10, <1>11, <1>12, <1>13,
     <1>14 DEF Next, StartRun, SweepAutomations, Ingest

LEMMA UsedStaysOK ==
  ASSUME IInv, [Next]_vars
  PROVE  UsedOK'
<1> USE DEF IInv, UsedOK
<1>1. ASSUME NEW t \in Things, Create(t) PROVE UsedOK'
  BY <1>1 DEF Create, Begins, WorldsOK, Worlds
<1>2. ASSUME NEW r \in Runs, NEW what, Starts(what, r) PROVE UsedOK'
  BY <1>2, WithIsAWorld DEF Starts, Begins
<1>3. ASSUME NEW r \in Runs, CancelRun(r) PROVE UsedOK'
  BY <1>3, WithIsAWorld DEF CancelRun, Begins
<1>4. ASSUME NEW r \in Runs, Session(r) \/ Drift(r) PROVE UsedOK'
  BY <1>4, SessionsOnlyReport
<1>5. CASE Kill
  BY <1>5 DEF Kill, GateOK
<1>6. CASE Answer
  BY <1>6, SavesAre, FreshIsAWorld DEF Answer, Idle
<1>7. CASE Receive
  BY <1>7 DEF Receive
<1>8. CASE Apply
  BY <1>8, IngestedIs, WithIsAWorld DEF Apply, GateOK, Event
<1>9. CASE Keep
  BY <1>9, SavesAre DEF Keep
<1>10. CASE Crash
  BY <1>10, FreshIsAWorld DEF Crash, Idle
<1>11. CASE Open
  BY <1>11, LoadedIs DEF Open
<1>12. CASE UNCHANGED vars
  BY <1>12 DEF vars
<1>13. ASSUME NEW a \in Agents, ImportAgent(a) PROVE UsedOK'
  BY <1>13, ImportsAddAgents
<1>14. CASE ImportAnswers
  BY <1>14, ImportsAreAnswered
<1> QED
  BY <1>1, <1>2, <1>3, <1>4, <1>5, <1>6, <1>7, <1>8, <1>9, <1>10, <1>11, <1>12, <1>13,
     <1>14 DEF Next, StartRun, SweepAutomations, Ingest

-----------------------------------------------------------------------------
(* What was acknowledged stays.                                             *)

LEMMA EffectIs ==
  ASSUME NEW w, NEW c \in Answers
  PROVE  Effect(w, c) <=> \/ c[1] = "create" /\ c[2] \in w.things
                          \/ c[1] = "start" /\ w.run[c[2]] # "none"
                          \/ c[1] = "cancel" /\ w.run[c[2]] = "cancelled"
BY DEF Answers, Effect

\* Nothing that was created goes, no run is forgotten, and a cancelled run
\* stays so.
Later(w, v) == /\ w.things \subseteq v.things
               /\ \A r \in Runs : /\ w.run[r] # "none" => v.run[r] # "none"
                                  /\ w.run[r] = "cancelled" => v.run[r] = "cancelled"

LEMMA EffectsLast ==
  ASSUME NEW w, NEW v, Later(w, v), acked \subseteq Answers, Keeps(w)
  PROVE  Keeps(v)
<1> SUFFICES ASSUME NEW c \in acked PROVE Effect(v, c)
  BY DEF Keeps
<1>1. Effect(w, c) /\ c \in Answers
  BY DEF Keeps
<1> QED BY <1>1, EffectIs DEF Later, Answers

LEMMA DurableStaysOK ==
  ASSUME IInv, [Next]_vars
  PROVE  DurableOK'
<1> USE DEF IInv, DurableOK
<1>1. ASSUME NEW t \in Things, Create(t) PROVE DurableOK'
  <2>1. Later(world, world')
    BY <1>1 DEF Create, Begins, WorldsOK, Worlds, Later
  <2>2. t \in world'.things
    BY <1>1 DEF Create, Begins, WorldsOK, Worlds
  <2>3. Effect(world', <<"create", t>>)
    BY <2>2, EffectIs DEF Answers
  <2> QED BY <1>1, <2>1, <2>3, EffectsLast DEF Create, Begins, answers, Keeps
<1>2. ASSUME NEW r \in Runs, NEW what \in {"start", "sweep"}, Starts(what, r) PROVE DurableOK'
  <2>1. Later(world, world')
    BY <1>2, WithIsAWorld DEF Starts, UsedOK, Later
  <2>2. Effect(world', <<"start", r>>)
    BY <1>2, WithIsAWorld, EffectIs DEF Starts, Answers
  <2> QED BY <1>2, <2>1, <2>2, EffectsLast DEF Starts, Begins, answers, Keeps
<1>3. ASSUME NEW r \in Runs, CancelRun(r) PROVE DurableOK'
  <2>1. Later(world, world')
    BY <1>3, WithIsAWorld DEF CancelRun, Later
  <2> QED BY <1>3, <2>1, EffectsLast, WithIsAWorld DEF CancelRun, Begins, answers, Keeps
<1>4. ASSUME NEW r \in Runs, Session(r) \/ Drift(r) PROVE DurableOK'
  BY <1>4, SessionsOnlyReport DEF Keeps
<1>5. CASE Kill
  <2>1. command.what = "cancel" /\ command.of \in Runs /\ world.run[command.of] = "cancelled"
    BY <1>5 DEF Kill, GateOK
  <2>2. Effect(world, <<"cancel", command.of>>)
    BY <2>1, EffectIs DEF Answers
  <2>3. command' = [command EXCEPT !.at = "save"] /\ UNCHANGED <<up, world, disk, gate, acked>>
    BY <1>5 DEF Kill, answers
  <2>4. /\ command'.what = "cancel" /\ command'.of = command.of /\ command'.at = "save"
        /\ command'.before = command.before
    BY <2>1, <2>3 DEF GateOK
  <2> QED BY <2>2, <2>3, <2>4 DEF Keeps
<1>6. CASE Answer
  <2> DEFINE done == <<command.what, command.of>>
  <2>1. command.at = "save" /\ gate = "command" /\ up
    BY <1>6 DEF Answer, GateOK
  <2>2. command.what # "sweep" => done \in Answers /\ Effect(world, done)
    BY <2>1 DEF GateOK, Answers
  <2>3. PICK save \in Saves :
          /\ disk' = save.disk
          /\ world' = IF save.ok \/ command.what = "sweep" THEN world ELSE command.before
          /\ acked' = IF save.ok /\ command.what # "sweep" THEN acked \cup {done} ELSE acked
    BY <1>6 DEF Answer
  <2>4. acked' \subseteq Answers
    BY <2>2, <2>3
  <2>5. Keeps(disk)'
    BY <2>1, <2>2, <2>3, SavesAre DEF Keeps
  <2>6. Keeps(world)'
    BY <2>1, <2>2, <2>3 DEF Keeps
  <2> QED BY <1>6, <2>4, <2>5, <2>6 DEF Answer, Idle
<1>7. CASE Receive
  BY <1>7 DEF Receive, answers, Keeps
<1>8. CASE Apply
  <2>1. ingest.event \in Event /\ up /\ command.at = "idle"
    BY <1>8 DEF Apply, GateOK
  <2>2. Later(world, world')
    BY <1>8, <2>1, IngestedIs, WithIsAWorld DEF Apply, Event, Later
  <2> QED BY <1>8, <2>1, <2>2, EffectsLast DEF Apply, answers, Keeps
<1>9. CASE Keep
  <2>1. up
    BY <1>9 DEF Keep, GateOK
  <2>2. Keeps(disk)'
    BY <1>9, <2>1, SavesAre DEF Keep, answers, Keeps
  <2> QED BY <1>9, <2>2 DEF Keep, answers, Keeps, GateOK
<1>10. CASE Crash
  BY <1>10 DEF Crash, Idle, answers, Keeps
<1>11. CASE Open
  <2>1. Later(disk, Loaded)
    BY LoadedIs DEF Later
  <2>2. Keeps(Loaded)
    BY <2>1, EffectsLast
  <2> QED BY <1>11, <2>2 DEF Open, answers, Keeps, GateOK
<1>12. CASE UNCHANGED vars
  BY <1>12 DEF vars, answers, Keeps
<1>13. ASSUME NEW a \in Agents, ImportAgent(a) PROVE DurableOK'
  <2>1. \A c : Effect(world', c) <=> Effect(world, c)
    BY <1>13, ImportsAddAgents DEF Effect
  <2> QED BY <1>13, <2>1, ImportsAddAgents DEF Keeps
<1>14. CASE ImportAnswers
  <2>1. up /\ disk' \in {disk, world}
    BY <1>14, ImportsAreAnswered DEF ImportAnswers
  <2> QED BY <1>14, <2>1, ImportsAreAnswered DEF Keeps
<1> QED
  BY <1>1, <1>2, <1>3, <1>4, <1>5, <1>6, <1>7, <1>8, <1>9, <1>10, <1>11, <1>12, <1>13,
     <1>14 DEF Next, StartRun, SweepAutomations, Ingest

-----------------------------------------------------------------------------
(* What was imported stays, or a rollback takes it.                          *)

Came(w, a) == a \in w.agents \/ SweptAway(a)
Known == imported \cup importing

\* What an import brought in is wherever the world may be taken from, but for the
\* snapshot that the command it came in beside would go back to.
ImportsOK ==
  /\ Known \subseteq Agents /\ beside = [a \in Agents |-> beside[a]]
  /\ importing # {} => up
  /\ \A a \in Known : beside[a] # NotYet
  /\ \A a \in imported : Came(disk, a)
  /\ up => \A a \in Known : Came(world, a)
  /\ gate = "command" => \A a \in Known :
       Came(command.before, a) \/ beside[a] = <<command.what, command.of>>

\* A command begins: the snapshot it may go back to is the present world.
LEMMA ImportsOutlastBeginnings ==
  ASSUME ImportsOK, up, gate = "free", command'.before = world, world'.agents = world.agents,
         UNCHANGED <<up, disk, refused, importing, imported, beside>>
  PROVE  ImportsOK'
BY DEF ImportsOK, Known, Came, SweptAway

LEMMA ImportsStayOK ==
  ASSUME IInv, ImportsOK, [Next]_vars
  PROVE  ImportsOK'
<1> USE DEF ImportsOK, Known, Came
<1>1. ASSUME NEW t \in Things, Create(t) PROVE ImportsOK'
  <2>1. world'.agents = world.agents
    BY <1>1 DEF Create, IInv, WorldsOK, Worlds
  <2> QED BY <1>1, <2>1, ImportsOutlastBeginnings DEF Create, Begins, answers, imports
<1>2. ASSUME NEW r \in Runs, NEW what, Starts(what, r) PROVE ImportsOK'
  <2>1. world'.agents = world.agents
    BY <1>2, WithIsAWorld DEF Starts, IInv
  <2> QED BY <1>2, <2>1, ImportsOutlastBeginnings DEF Starts, Begins, answers, imports
<1>3. ASSUME NEW r \in Runs, CancelRun(r) PROVE ImportsOK'
  <2>1. world'.agents = world.agents
    BY <1>3, WithIsAWorld DEF CancelRun, IInv
  <2> QED BY <1>3, <2>1, ImportsOutlastBeginnings DEF CancelRun, Begins, answers, imports
<1>4. ASSUME NEW r \in Runs, Session(r) \/ Drift(r) PROVE ImportsOK'
  <2>1. UNCHANGED <<importing, imported, beside>>
    BY <1>4 DEF Session, Drift, Launch, Register, ChildEnds, EndTurn, Unregister, LastWord, imports
  <2> QED BY <1>4, <2>1, SessionsOnlyReport DEF SweptAway
<1>5. CASE Kill
  BY <1>5 DEF Kill, IInv, GateOK, answers, imports, SweptAway
<1>6. CASE Answer
  <2>1. /\ command.at = "save" /\ gate = "command" /\ up /\ gate' = "free"
        /\ UNCHANGED <<up, importing, imported, beside>>
    BY <1>6 DEF Answer, IInv, GateOK, imports
  <2>2. PICK save \in Saves :
          /\ disk' = save.disk
          /\ world' = IF save.ok \/ command.what = "sweep" THEN world ELSE command.before
          /\ refused' = IF ~save.ok /\ command.what # "sweep"
                        THEN refused \cup {<<command.what, command.of, Failed(save)>>}
                        ELSE refused
    BY <1>6 DEF Answer
  <2>3. \A a \in Known : SweptAway(a) => SweptAway(a)'
    BY <2>1, <2>2 DEF SweptAway
  <2>4. \A a \in imported : Came(disk, a)'
    BY <2>1, <2>2, <2>3, SavesAre
  <2>5. ASSUME NEW a \in Known PROVE Came(world, a)'
    <3>1. CASE save.ok \/ command.what = "sweep"
      BY <2>1, <2>2, <2>3, <3>1
    <3>2. CASE ~save.ok /\ command.what # "sweep"
      <4>1. beside[a] = <<command.what, command.of>> => SweptAway(a)'
        <5> DEFINE c == <<command.what, command.of, Failed(save)>>
        <5>1. c \in refused' /\ c[1] = command.what /\ c[2] = command.of /\ beside' = beside
          BY <2>1, <2>2, <3>2
        <5> HIDE DEF c
        <5> QED BY <5>1 DEF SweptAway
      <4>2. world' = command.before
        BY <2>2, <3>2
      <4> QED BY <2>1, <2>3, <4>1, <4>2
    <3> QED BY <3>1, <3>2
  <2> QED BY <2>1, <2>4, <2>5
<1>7. CASE Receive
  BY <1>7 DEF Receive, answers, imports, SweptAway
<1>8. CASE Apply
  <2>1. world'.agents = world.agents
    BY <1>8, IngestedIs, WithIsAWorld DEF Apply, IInv, GateOK, Event
  <2> QED BY <1>8, <2>1 DEF Apply, answers, imports, SweptAway
<1>9. CASE Keep
  <2>1. up /\ gate' = "free" /\ disk' \in {disk, world}
    BY <1>9, SavesAre DEF Keep, IInv, GateOK
  <2> QED BY <1>9, <2>1 DEF Keep, answers, imports, SweptAway
<1>10. CASE Crash
  BY <1>10 DEF Crash, answers, SweptAway
<1>11. CASE Open
  <2>1. /\ gate' # "command" /\ importing' = importing /\ importing = {} /\ imported' = imported
        /\ beside' = beside /\ disk' = Loaded /\ (up' => world' = Loaded)
    BY <1>11 DEF Open, IInv, GateOK, imports
  <2>2. Loaded.agents = disk.agents /\ \A a \in Known : SweptAway(a) => SweptAway(a)'
    BY <1>11, LoadedIs DEF Open, IInv, answers, imports, SweptAway
  <2> QED BY <2>1, <2>2
<1>12. CASE UNCHANGED vars
  BY <1>12 DEF vars, SweptAway
<1>13. ASSUME NEW a \in Agents, ImportAgent(a) PROVE ImportsOK'
  <2>1. /\ up /\ beside[a] = NotYet /\ importing' = importing \cup {a} /\ imported' = imported
        /\ beside' = [beside EXCEPT ![a] = <<command.what, command.of>>]
    BY <1>13 DEF ImportAgent
  <2>2. /\ a \notin Known /\ beside'[a] = <<command.what, command.of>>
        /\ \A b \in Known : beside'[b] = beside[b]
    BY <2>1
  <2>3. <<command.what, command.of>> # NotYet
    BY DEF IInv, GateOK, NotYet
  <2>4. \A b \in Known : SweptAway(b) => SweptAway(b)'
    BY <1>13, <2>2, ImportsAddAgents DEF IInv, SweptAway
  <2> QED BY <1>13, <2>1, <2>2, <2>3, <2>4, ImportsAddAgents DEF IInv
<1>14. CASE ImportAnswers
  <2>1. UNCHANGED beside /\ importing' = {} /\ importing # {}
    BY <1>14 DEF ImportAnswers
  <2>2. \/ imported' = imported
        \/ imported' = imported \cup importing /\ disk' = world
    BY <1>14, SavesAre DEF ImportAnswers
  <2> QED BY <1>14, <2>1, <2>2, ImportsAreAnswered DEF SweptAway
<1> QED
  BY <1>1, <1>2, <1>3, <1>4, <1>5, <1>6, <1>7, <1>8, <1>9, <1>10, <1>11, <1>12, <1>13, <1>14
     DEF Next, StartRun, SweepAutomations, Ingest

-----------------------------------------------------------------------------
(* What sessions came to stays.                                             *)

LEMMA OutcomesStayOK ==
  ASSUME IInv, [Next]_vars
  PROVE  OutcomesOK'
<1> USE DEF IInv, OutcomesOK
<1>1. ASSUME NEW t \in Things, Create(t) PROVE OutcomesOK'
  BY <1>1 DEF Create, Begins, WorldsOK, Worlds
<1>2. ASSUME NEW r \in Runs, NEW what, Starts(what, r) PROVE OutcomesOK'
  BY <1>2, WithIsAWorld DEF Starts, Begins, Ended
<1>3. ASSUME NEW r \in Runs, CancelRun(r) PROVE OutcomesOK'
  BY <1>3, WithIsAWorld DEF CancelRun, Begins, Ended
<1>4. ASSUME NEW r \in Runs, Session(r) \/ Drift(r) PROVE OutcomesOK'
  BY <1>4, SessionsOnlyReport
<1>5. CASE Kill
  BY <1>5 DEF Kill, GateOK
<1>6. CASE Receive
  BY <1>6 DEF Receive
<1>7. CASE Keep
  BY <1>7 DEF Keep, GateOK
<1>8. CASE Answer \/ Apply \/ Crash \/ Open
  BY <1>8 DEF Answer, Apply, Crash, Open, GateOK
<1>9. CASE UNCHANGED vars
  BY <1>9 DEF vars
<1>10. ASSUME NEW a \in Agents, ImportAgent(a) PROVE OutcomesOK'
  BY <1>10, ImportsAddAgents DEF GateOK
<1>11. CASE ImportAnswers
  BY <1>11, ImportsAreAnswered DEF GateOK
<1> QED
  BY <1>1, <1>2, <1>3, <1>4, <1>5, <1>6, <1>7, <1>8, <1>9, <1>10,
     <1>11 DEF Next, StartRun, SweepAutomations, Ingest

LEMMA OutcomesStandInAStep ==
  ASSUME IInv, [Next]_vars, up, up'
  PROVE  \A r \in Runs : world.run[r] \in Ended => world'.run[r] = world.run[r]
<1> SUFFICES ASSUME NEW r \in Runs, world.run[r] \in Ended PROVE world'.run[r] = world.run[r]
  OBVIOUS
<1> USE DEF IInv
<1>1. ASSUME NEW t \in Things, Create(t) PROVE world'.run[r] = world.run[r]
  BY <1>1 DEF Create, WorldsOK, Worlds
<1>2. ASSUME NEW q \in Runs, NEW what, Starts(what, q) PROVE world'.run[r] = world.run[r]
  <2>1. r # q
    BY <1>2 DEF Starts, UsedOK, Ended
  <2> QED BY <1>2, <2>1, WithIsAWorld DEF Starts
<1>3. ASSUME NEW q \in Runs, CancelRun(q) PROVE world'.run[r] = world.run[r]
  BY <1>3, WithIsAWorld DEF CancelRun, Ended
<1>4. ASSUME NEW q \in Runs, Session(q) \/ Drift(q) PROVE world'.run[r] = world.run[r]
  BY <1>4, SessionsOnlyReport
<1>5. CASE Answer
  BY <1>5 DEF Answer, GateOK, OutcomesOK
<1>6. CASE Apply
  BY <1>6, IngestedIs, WithIsAWorld DEF Apply, GateOK, Event, Ended
<1>7. CASE Kill \/ Receive \/ Keep \/ Crash \/ Open
  BY <1>7 DEF Kill, Receive, Keep, Crash, Open
<1>8. CASE UNCHANGED vars
  BY <1>8 DEF vars
<1>9. ASSUME NEW a \in Agents, ImportAgent(a) PROVE world'.run[r] = world.run[r]
  BY <1>9, ImportsAddAgents
<1>10. CASE ImportAnswers
  BY <1>10, ImportsAreAnswered
<1> QED
  BY <1>1, <1>2, <1>3, <1>4, <1>5, <1>6, <1>7, <1>8, <1>9,
     <1>10 DEF Next, StartRun, SweepAutomations, Ingest

-----------------------------------------------------------------------------
(* Running runs are heard of.                                               *)

\* A step of a session leaves its run heard of, and all others too.
LEMMA SessionsStayHeard ==
  ASSUME IInv, NEW r \in Runs, Session(r) \/ Drift(r), NEW q \in Runs, Heard(q)
  PROVE  Heard(q)'
<1> USE DEF IInv, ThreadsOK
<1>1. CASE Launch(r) \/ Register(r) \/ ChildEnds(r) \/ EndTurn(r) \/ Unregister(r)
  BY <1>1 DEF Launch, Register, ChildEnds, EndTurn, Unregister, Heard, IsLastWord
<1>2. CASE LastWord(r)
  <2>1. PICK what \in {"ok", "failed"} : Sends(r, what)
    BY <1>2 DEF LastWord
  <2>2. CASE q = r
    BY <2>1, <2>2, SendsIsTyped DEF Heard, IsLastWord
  <2>3. CASE q # r
    BY <1>2, <2>1, <2>3, SendsIsTyped DEF LastWord, Heard, IsLastWord
  <2> QED BY <2>2, <2>3
<1>3. CASE Drift(r)
  BY <1>3, SendsIsTyped DEF Drift, Heard, IsLastWord
<1> QED BY <1>1, <1>2, <1>3 DEF Session

\* An event that is received goes from the channel to the ingest thread.
LEMMA ReceivedStaysHeard ==
  ASSUME IInv, Receive, NEW q \in Runs, Heard(q)
  PROVE  Heard(q)'
<1> USE DEF IInv, ThreadsOK
<1>1. /\ channel \in Seq(Event) /\ channel # <<>> /\ channel' = Tail(channel)
      /\ ingest'.event = Head(channel) /\ thread' = thread /\ ingest.event = NoEvent
  BY DEF Receive, Quiet
<1>2. CASE thread[q] # "none"
  BY <1>1, <1>2 DEF Heard
<1>3. ~IsLastWord(ingest.event, q)
  BY <1>1 DEF IsLastWord, NoEvent
<1>4. ASSUME NEW i \in DOMAIN channel, IsLastWord(channel[i], q) PROVE Heard(q)'
  <2>1. CASE i = 1
    BY <1>1, <1>4, <2>1 DEF Heard, IsLastWord
  <2>2. CASE i # 1
    <3>1. i - 1 \in DOMAIN channel' /\ channel'[i - 1] = channel[i]
      BY <1>1, <2>2
    <3> QED BY <1>4, <3>1 DEF Heard, IsLastWord
  <2> QED BY <2>1, <2>2
<1> QED BY <1>2, <1>3, <1>4 DEF Heard

LEMMA HeardStaysOK ==
  ASSUME IInv, [Next]_vars
  PROVE  HeardOK'
<1> USE DEF IInv, HeardOK
<1>1. ASSUME NEW t \in Things, Create(t) PROVE HeardOK'
  BY <1>1 DEF Create, Begins, WorldsOK, Worlds, sessions, Heard, IsLastWord, GateOK
<1>2. ASSUME NEW r \in Runs, NEW what, Starts(what, r) PROVE HeardOK'
  <2>1. /\ thread' = [thread EXCEPT ![r] = "spawned"]
        /\ UNCHANGED <<up, ingest, channel>> /\ gate = "free" /\ up
        /\ command'.before = world /\ world' = With(r, "running")
    BY <1>2 DEF Starts, Begins
  <2>2. ASSUME NEW q \in Runs, Heard(q) \/ q = r PROVE Heard(q)'
    BY <2>1, <2>2 DEF Heard, IsLastWord, ThreadsOK
  <2> QED BY <2>1, <2>2, WithIsAWorld DEF GateOK
<1>3. ASSUME NEW r \in Runs, CancelRun(r) PROVE HeardOK'
  <2>1. /\ UNCHANGED <<up, ingest, thread, channel>> /\ gate = "free" /\ up
        /\ command'.before = world /\ world' = With(r, "cancelled")
    BY <1>3 DEF CancelRun, Begins, sessions
  <2>2. ASSUME NEW q \in Runs, Heard(q) PROVE Heard(q)'
    BY <2>1, <2>2 DEF Heard, IsLastWord
  <2> QED BY <2>1, <2>2, WithIsAWorld DEF GateOK
<1>4. ASSUME NEW r \in Runs, Session(r) \/ Drift(r) PROVE HeardOK'
  BY <1>4, SessionsOnlyReport, SessionsStayHeard DEF IsLastWord
<1>5. CASE Kill
  BY <1>5 DEF Kill, Heard, IsLastWord, GateOK
<1>6. CASE Answer
  BY <1>6 DEF Answer, sessions, Heard, IsLastWord, GateOK
<1>7. CASE Receive
  BY <1>7, ReceivedStaysHeard DEF Receive, IsLastWord
<1>8. CASE Apply
  <2>1. /\ ingest.event \in Event /\ up /\ gate' = "ingest" /\ world' = Ingested
        /\ ingest'.event = ingest.event /\ UNCHANGED <<up, thread, channel>>
    BY <1>8 DEF Apply, GateOK, sessions
  <2>2. ASSUME NEW q \in Runs, Heard(q) PROVE Heard(q)'
    BY <2>1, <2>2 DEF Heard, IsLastWord
  <2>3. ASSUME NEW q \in Runs, world'.run[q] = "running" PROVE world.run[q] = "running"
    BY <2>1, <2>3, IngestedIs, WithIsAWorld DEF Event
  <2>4. world'.run[ingest.event.run] # "running"
    BY <2>1, EventLeavesNothingRunning
  <2> QED BY <2>1, <2>2, <2>3, <2>4 DEF IsLastWord
<1>9. CASE Keep
  <2>1. UNCHANGED <<up, world, thread, channel>> /\ gate' = "free" /\ ingest' = Quiet /\ ingest.at = "save"
    BY <1>9 DEF Keep, GateOK, sessions
  <2>2. ASSUME NEW q \in Runs, Heard(q), world.run[q] = "running" PROVE Heard(q)'
    BY <2>1, <2>2 DEF Heard, IsLastWord
  <2> QED BY <2>1, <2>2 DEF Quiet
<1>10. CASE Crash
  BY <1>10 DEF Crash, Quiet
<1>11. CASE Open
  BY <1>11, LoadedIs DEF Open, GateOK
<1>12. CASE UNCHANGED vars
  BY <1>12 DEF vars, sessions, Heard, IsLastWord
<1>13. ASSUME NEW a \in Agents, ImportAgent(a) PROVE HeardOK'
  BY <1>13, ImportsAddAgents DEF Heard, IsLastWord, GateOK
<1>14. CASE ImportAnswers
  BY <1>14, ImportsAreAnswered DEF Heard, IsLastWord, GateOK
<1> QED
  BY <1>1, <1>2, <1>3, <1>4, <1>5, <1>6, <1>7, <1>8, <1>9, <1>10, <1>11, <1>12, <1>13,
     <1>14 DEF Next, StartRun, SweepAutomations, Ingest

-----------------------------------------------------------------------------
(* The theorems.                                                            *)

LEMMA DaemonInvariant == Spec => []IInv
<1>1. IInv /\ [Next]_vars => IInv'
  BY WorldsStayOK, GateStaysOK, ThreadsStayOK, UsedStaysOK, DurableStaysOK, OutcomesStayOK, HeardStaysOK
     DEF IInv
<1> QED BY InitIsSound, <1>1, PTL DEF Spec

\* The daemon's state has its types, and its gate one holder, always.
THEOREM DaemonTypeCorrectness == Spec => []DaemonTypeOK
<1>1. IInv => DaemonTypeOK
  BY DEF IInv, WorldsOK, GateOK, ThreadsOK, DaemonTypeOK, Idle
<1> QED BY DaemonInvariant, <1>1, PTL

\* What submit_and_persist has acknowledged is on disk from then on, for any
\* commands, imports, failures of a save and restarts; and so is what an import was
\* acknowledged for, unless the command it came in beside was refused.
THEOREM AcknowledgedStays == Spec => []AcknowledgedIsDurable
<1>1. Init => ImportsOK
  BY DEF Init, ImportsOK, Known
<1>2. IInv /\ ImportsOK => AcknowledgedIsDurable
  BY DEF IInv, DurableOK, Keeps, ImportsOK, Came, AcknowledgedIsDurable
<1> QED BY DaemonInvariant, ImportsStayOK, <1>1, <1>2, PTL DEF Spec

\* Whoever is shown as running has a thread, or a last word on its way.
THEOREM RunningStaysHeard == Spec => []RunningIsHeardOf
<1>1. IInv => RunningIsHeardOf
  BY DEF IInv, HeardOK, RunningIsHeardOf
<1> QED BY DaemonInvariant, <1>1, PTL

\* No rollback and no event changes what a session came to, while the daemon
\* lives.
THEOREM OutcomesAreKept == Spec => OutcomesStand
<1>1. IInv /\ [Next]_vars =>
        [\A r \in Runs : up /\ up' /\ world.run[r] \in {"completed", "failed", "interrupted"} =>
           world'.run[r] = world.run[r]]_vars
  BY OutcomesStandInAStep DEF Ended
<1> QED BY DaemonInvariant, <1>1, PTL DEF Spec, OutcomesStand

-----------------------------------------------------------------------------
(* What was refused is forgotten.                                           *)

\* The world that the next command would find if the one under way failed.
Standing == IF gate = "command" THEN command.before ELSE world

\* What a command changes is what it was asked for, and was not there before.
CommandOK ==
  gate = "command" =>
    /\ command.what = "create" => command.of \notin command.before.things
    /\ command.before.things \subseteq world.things
    /\ \A t \in world.things : \/ t \in command.before.things
                               \/ command.what = "create" /\ t = command.of
    /\ command.what \in {"start", "sweep"} =>
         command.before.run[command.of] = "none" /\ disk.run[command.of] = "none"
    /\ \A r \in Runs : \/ world.run[r] = "none" \/ command.before.run[r] # "none"
                       \/ command.what \in {"start", "sweep"} /\ r = command.of

\* The snapshot is ahead of the world only with what a late failure left there.
AheadOK == up => \A t \in disk.things : t \in Standing.things \/ <<"create", t, "late">> \in refused

\* What RefusedIsForgotten excuses.
Excused(c) == \/ c[1] = "cancel" \/ <<c[1], c[2]>> \in acked
              \/ <<c[1], c[2], "late">> \in refused

Forgotten(w) == \A c \in refused : Excused(c) \/ ~Effect(w, <<c[1], c[2]>>)

\* A refused start keeps its id, so that a sweep cannot do what was refused.
RefusedOK ==
  /\ \A c \in refused : <<c[1], c[2]>> \in Answers
  /\ \A c \in refused : c[1] = "start" => c[2] \in used
  /\ gate = "command" /\ command.what = "sweep" =>
       \A c \in refused : c[1] = "start" => c[2] # command.of
  /\ Forgotten(disk) /\ Forgotten(Standing)

FInv == IInv /\ CommandOK /\ AheadOK /\ RefusedOK

LEMMA FreshHasNoEffects ==
  ASSUME NEW c \in Answers
  PROVE  ~Effect(Fresh, c)
BY EffectIs, FreshIsAWorld DEF Answers, Fresh

\* Nothing comes into being that was not there: no thing and no run.
Adds(w, v) == \/ \E t \in v.things : t \notin w.things
              \/ \E r \in Runs : w.run[r] = "none" /\ v.run[r] # "none"

LEMMA ForgottenLasts ==
  ASSUME NEW w, NEW v, ~Adds(w, v), \A c \in refused : <<c[1], c[2]>> \in Answers, Forgotten(w)
  PROVE  Forgotten(v)
<1> SUFFICES ASSUME NEW c \in refused, ~Excused(c), Effect(v, <<c[1], c[2]>>) PROVE FALSE
  BY DEF Forgotten
<1>1. <<c[1], c[2]>> \in Answers /\ ~Effect(w, <<c[1], c[2]>>) /\ c[1] # "cancel"
  BY DEF Forgotten, Excused
<1> DEFINE asked == <<c[1], c[2]>>
<1>2. asked[1] = c[1] /\ asked[2] = c[2] /\ asked \in Answers
  BY <1>1
<1>3. CASE c[1] = "create"
  BY <1>1, <1>2, <1>3, EffectIs DEF Adds
<1>4. CASE c[1] = "start"
  BY <1>1, <1>2, <1>4, EffectIs DEF Adds, Answers
<1> QED BY <1>1, <1>3, <1>4 DEF Answers

LEMMA InitForgets == Init => FInv
<1> SUFFICES ASSUME Init PROVE FInv
  OBVIOUS
<1> QED BY InitIsSound DEF Init, FInv, CommandOK, AheadOK, RefusedOK, Forgotten, Standing, Fresh

LEMMA CommandStaysOK ==
  ASSUME FInv, [Next]_vars
  PROVE  CommandOK'
<1> USE DEF FInv, IInv, CommandOK
<1>1. ASSUME NEW t \in Things, Create(t) PROVE CommandOK'
  <2>1. /\ command'.what = "create" /\ command'.of = t /\ command'.before = world
        /\ t \notin world.things
    BY <1>1 DEF Create, Begins
  <2>2. world'.things = world.things \cup {t} /\ world'.run = world.run
    BY <1>1 DEF Create, WorldsOK, Worlds
  <2> QED BY <2>1, <2>2
<1>2. ASSUME NEW r \in Runs, NEW what \in {"start", "sweep"}, Starts(what, r) PROVE CommandOK'
  <2>1. /\ command'.what = what /\ command'.of = r /\ command'.before = world
        /\ disk' = disk /\ r \notin used /\ world' = With(r, "running")
    BY <1>2 DEF Starts, Begins
  <2>2. world.run[r] = "none" /\ disk.run[r] = "none"
    BY <2>1 DEF UsedOK
  <2>3. /\ world'.things = world.things
        /\ \A q \in Runs : q = r \/ world'.run[q] = world.run[q]
    BY <2>1, WithIsAWorld
  <2> QED BY <2>1, <2>2, <2>3
<1>3. ASSUME NEW r \in Runs, CancelRun(r) PROVE CommandOK'
  <2>1. /\ command'.what = "cancel" /\ command'.before = world
        /\ world' = With(r, "cancelled") /\ world.run[r] # "none"
    BY <1>3 DEF CancelRun, Begins
  <2>2. /\ world'.things = world.things
        /\ \A q \in Runs : q = r \/ world'.run[q] = world.run[q]
    BY <2>1, WithIsAWorld
  <2> QED BY <2>1, <2>2
<1>4. ASSUME NEW r \in Runs, Session(r) \/ Drift(r) PROVE CommandOK'
  BY <1>4, SessionsOnlyReport
<1>5. CASE Kill
  BY <1>5 DEF Kill, GateOK
<1>6. CASE Receive \/ Keep
  BY <1>6 DEF Receive, Keep, GateOK
<1>7. CASE Answer \/ Apply \/ Crash \/ Open
  BY <1>7 DEF Answer, Apply, Crash, Open, GateOK
<1>8. CASE UNCHANGED vars
  BY <1>8 DEF vars
<1>9. ASSUME NEW a \in Agents, ImportAgent(a) PROVE CommandOK'
  BY <1>9, ImportsAddAgents DEF GateOK
<1>10. CASE ImportAnswers
  BY <1>10, ImportsAreAnswered DEF GateOK
<1> QED
  BY <1>1, <1>2, <1>3, <1>4, <1>5, <1>6, <1>7, <1>8, <1>9,
     <1>10 DEF Next, StartRun, SweepAutomations, Ingest

LEMMA AheadStaysOK ==
  ASSUME FInv, [Next]_vars
  PROVE  AheadOK'
<1> USE DEF FInv, IInv, AheadOK, Standing
<1>1. ASSUME NEW t \in Things, Create(t) PROVE AheadOK'
  BY <1>1 DEF Create, Begins, answers
<1>2. ASSUME NEW r \in Runs, NEW what, Starts(what, r) PROVE AheadOK'
  BY <1>2 DEF Starts, Begins, answers
<1>3. ASSUME NEW r \in Runs, CancelRun(r) PROVE AheadOK'
  BY <1>3 DEF CancelRun, Begins, answers
<1>4. ASSUME NEW r \in Runs, Session(r) \/ Drift(r) PROVE AheadOK'
  <2>1. UNCHANGED <<up, world, disk, gate, command, refused>>
    BY <1>4, SessionsOnlyReport
  <2>2. Standing' = Standing
    BY <2>1
  <2> QED BY <2>1, <2>2
<1>5. CASE Kill
  BY <1>5 DEF Kill, GateOK, answers
<1>6. CASE Answer
  <2>1. command.at = "save" /\ gate = "command" /\ up
    BY <1>6 DEF Answer, GateOK
  <2>2. PICK save \in Saves :
          /\ disk' = save.disk
          /\ world' = IF save.ok \/ command.what = "sweep" THEN world ELSE command.before
          /\ refused' = IF ~save.ok /\ command.what # "sweep"
                        THEN refused \cup {<<command.what, command.of, Failed(save)>>}
                        ELSE refused
    BY <1>6 DEF Answer
  <2>3. Standing' = world' /\ refused \subseteq refused'
    BY <1>6, <2>2 DEF Answer
  <2>4. SUFFICES ASSUME NEW t \in save.disk.things
                 PROVE  t \in world'.things \/ <<"create", t, "late">> \in refused'
    BY <2>2, <2>3
  <2>5. command.before.things \subseteq world.things
    BY <2>1 DEF CommandOK
  <2>6. CASE save.disk = disk
    BY <2>1, <2>2, <2>3, <2>4, <2>5, <2>6
  <2>7. CASE save.disk # disk
    <3>1. save.disk = world /\ Failed(save) = "late"
      BY <2>7, SavesAre DEF Failed
    <3> QED BY <2>1, <2>2, <2>3, <2>4, <3>1 DEF CommandOK
  <2> QED BY <2>6, <2>7
<1>7. CASE Receive
  BY <1>7 DEF Receive, answers
<1>8. CASE Apply
  <2>1. /\ ingest.event \in Event /\ world' = Ingested /\ gate = "free" /\ gate' = "ingest" /\ up
        /\ disk' = disk /\ refused' = refused
    BY <1>8 DEF Apply, GateOK, answers
  <2>2. world'.things = world.things
    BY <2>1, IngestedIs, WithIsAWorld DEF Event
  <2> QED BY <2>1, <2>2
<1>9. CASE Keep
  BY <1>9, SavesAre DEF Keep, GateOK, answers
<1>10. CASE Crash
  BY <1>10 DEF Crash
<1>11. CASE Open
  BY <1>11 DEF Open, GateOK
<1>12. CASE UNCHANGED vars
  BY <1>12 DEF vars, answers
<1>13. ASSUME NEW a \in Agents, ImportAgent(a) PROVE AheadOK'
  BY <1>13, ImportsAddAgents
<1>14. CASE ImportAnswers
  BY <1>14, ImportsAreAnswered
<1> QED
  BY <1>1, <1>2, <1>3, <1>4, <1>5, <1>6, <1>7, <1>8, <1>9, <1>10, <1>11, <1>12, <1>13,
     <1>14 DEF Next, StartRun, SweepAutomations, Ingest

\* While a command is under way, the world has of what was refused no more than
\* what this very command was asked for again.
LEMMA OnlyWhatWasAsked ==
  ASSUME FInv, gate = "command", NEW c \in refused, ~Excused(c),
         Effect(world, <<c[1], c[2]>>)
  PROVE  <<c[1], c[2]>> = <<command.what, command.of>> /\ command.what # "sweep"
<1> USE DEF FInv, IInv, RefusedOK, Standing, CommandOK
<1>1. /\ <<c[1], c[2]>> \in Answers /\ c[1] # "cancel"
      /\ ~Effect(command.before, <<c[1], c[2]>>)
  BY DEF Forgotten, Excused
<1>2. CASE c[1] = "create"
  BY <1>1, <1>2, EffectIs DEF Answers
<1>3. CASE c[1] = "start"
  <2>1. c[2] \in Runs /\ world.run[c[2]] # "none" /\ command.before.run[c[2]] = "none"
    BY <1>1, <1>3, EffectIs DEF Answers
  <2> QED BY <1>3, <2>1
<1> QED BY <1>1, <1>2, <1>3 DEF Answers

\* A failed save forgets what is rolled back, unless it failed late; a save that
\* succeeds is of no refused command, but the one that is answered now.
LEMMA AnswersForget ==
  ASSUME FInv, Answer
  PROVE  RefusedOK'
<1> USE DEF FInv, IInv
<1> DEFINE done == <<command.what, command.of>>
<1>1. command.at = "save" /\ gate = "command" /\ up /\ gate' = "free" /\ used' = used
  BY DEF Answer, GateOK
<1>2. command.what # "sweep" => done \in Answers
  BY <1>1 DEF GateOK, Answers
<1>3. PICK save \in Saves :
        /\ disk' = save.disk
        /\ world' = IF save.ok \/ command.what = "sweep" THEN world ELSE command.before
        /\ acked' = IF save.ok /\ command.what # "sweep" THEN acked \cup {done} ELSE acked
        /\ refused' = IF ~save.ok /\ command.what # "sweep"
                      THEN refused \cup {<<command.what, command.of, Failed(save)>>}
                      ELSE refused
  BY DEF Answer
<1>4. Forgotten(disk) /\ Forgotten(command.before) /\ Standing' = world'
  BY <1>1 DEF RefusedOK, Standing
<1>5. ASSUME NEW c \in refused PROVE Excused(c) => Excused(c)'
  BY <1>3 DEF Excused
<1>6. ASSUME NEW c \in refused', <<c[1], c[2]>> \notin acked',
             <<c[1], c[2], "late">> \notin refused', c[1] # "cancel"
      PROVE  ~Effect(disk', <<c[1], c[2]>>) /\ ~Effect(world', <<c[1], c[2]>>)
  <2> DEFINE asked == <<c[1], c[2]>>
  <2>1. CASE c \in refused
    <3>1. ~Excused(c)
      BY <1>5, <1>6, <2>1 DEF Excused
    <3>2. ~Effect(disk, asked) /\ ~Effect(command.before, asked)
      BY <1>4, <2>1, <3>1 DEF Forgotten
    <3>3. Effect(world, asked) => asked = done /\ command.what # "sweep"
      BY <1>1, <2>1, <3>1, OnlyWhatWasAsked
    <3>4. CASE save.ok
      BY <1>3, <1>6, <3>3, <3>4, SavesAre
    <3>5. CASE ~save.ok /\ command.what = "sweep"
      BY <1>3, <3>2, <3>3, <3>5, SavesAre
    <3>6. CASE ~save.ok /\ command.what # "sweep"
      <4>1. save.disk # disk => save.disk = world /\ Failed(save) = "late"
        BY SavesAre DEF Failed
      <4> QED BY <1>3, <1>6, <3>2, <3>3, <3>6, <4>1
    <3> QED BY <3>4, <3>5, <3>6
  <2>2. CASE c \notin refused
    <3>1. /\ ~save.ok /\ command.what # "sweep" /\ world' = command.before
          /\ c = <<command.what, command.of, Failed(save)>>
      BY <1>3, <1>6, <2>2
    <3>2. asked = done /\ c[1] = command.what /\ c[2] = command.of
      BY <3>1
    <3>3. save.disk = disk
      BY <1>3, <1>6, <3>1, <3>2 DEF Failed
    <3>4. CASE command.what = "create"
      <4>1. command.of \notin command.before.things /\ command.of \notin disk.things
        BY <1>1, <1>3, <1>6, <3>1, <3>2, <3>4 DEF CommandOK, AheadOK, Standing
      <4> QED BY <1>2, <1>3, <3>1, <3>2, <3>3, <3>4, <4>1, EffectIs
    <3>5. CASE command.what = "start"
      BY <1>1, <1>2, <1>3, <3>1, <3>2, <3>3, <3>5, EffectIs DEF CommandOK
    <3> QED BY <1>1, <1>2, <1>6, <3>1, <3>2, <3>4, <3>5 DEF Answers
  <2> QED BY <2>1, <2>2
<1>7. Forgotten(disk)' /\ Forgotten(Standing)'
  BY <1>4, <1>6 DEF Forgotten, Excused
<1>8. command.what = "start" => command.of \in used
  BY <1>1, <1>2, EffectIs DEF DurableOK, UsedOK, GateOK
<1>9. /\ \A c \in refused' : <<c[1], c[2]>> \in Answers
      /\ \A c \in refused' : c[1] = "start" => c[2] \in used'
  BY <1>1, <1>2, <1>3, <1>8 DEF RefusedOK
<1> QED BY <1>1, <1>7, <1>9 DEF RefusedOK

LEMMA RefusedStaysOK ==
  ASSUME FInv, [Next]_vars
  PROVE  RefusedOK'
<1> USE DEF FInv, IInv, RefusedOK
<1>1. ASSUME NEW t \in Things, Create(t) PROVE RefusedOK'
  BY <1>1 DEF Create, Begins, answers, Standing, Forgotten, Excused
<1>2. ASSUME NEW r \in Runs, NEW what, Starts(what, r) PROVE RefusedOK'
  BY <1>2 DEF Starts, Begins, answers, Standing, Forgotten, Excused
<1>3. ASSUME NEW r \in Runs, CancelRun(r) PROVE RefusedOK'
  BY <1>3 DEF CancelRun, Begins, answers, Standing, Forgotten, Excused
<1>4. ASSUME NEW r \in Runs, Session(r) \/ Drift(r) PROVE RefusedOK'
  BY <1>4, SessionsOnlyReport DEF Standing, Forgotten, Excused
<1>5. CASE Kill
  BY <1>5 DEF Kill, GateOK, answers, Standing, Forgotten, Excused
<1>6. CASE Answer
  BY <1>6, AnswersForget
<1>7. CASE Receive
  BY <1>7 DEF Receive, answers, Standing, Forgotten, Excused
<1>8. CASE Apply
  <2>1. /\ Standing' = world' /\ Standing = world /\ gate' = "ingest" /\ disk' = disk
        /\ UNCHANGED <<acked, refused, used>>
    BY <1>8 DEF Apply, Standing, answers
  <2>2. ~Adds(world, world')
    BY <1>8, IngestedIs, WithIsAWorld DEF Apply, GateOK, Event, Adds
  <2>3. Forgotten(world')
    BY <2>1, <2>2, ForgottenLasts
  <2> QED BY <2>1, <2>3 DEF Forgotten, Excused
<1>9. CASE Keep
  <2>1. /\ Standing' = world /\ Standing = world /\ gate' = "free" /\ disk' \in {disk, world}
        /\ UNCHANGED <<acked, refused, used>>
    BY <1>9, SavesAre DEF Keep, GateOK, Standing, answers
  <2>2. Forgotten(disk')
    BY <2>1
  <2> QED BY <2>1, <2>2 DEF Forgotten, Excused
<1>10. CASE Crash
  <2>1. /\ Standing' = Fresh /\ gate' = "free" /\ disk' = disk
        /\ UNCHANGED <<acked, refused, used>>
    BY <1>10 DEF Crash, Standing, answers
  <2>2. Forgotten(Fresh)
    BY FreshHasNoEffects DEF Forgotten
  <2> QED BY <2>1, <2>2 DEF Forgotten, Excused
<1>11. CASE Open
  <2>1. /\ Standing = world /\ Standing' = world' /\ gate' # "command"
        /\ disk' = Loaded /\ world' \in {world, Loaded}
        /\ UNCHANGED <<acked, refused, used>>
    BY <1>11 DEF Open, GateOK, Standing, answers
  <2>2. ~Adds(disk, Loaded)
    BY LoadedIs DEF Adds
  <2>3. Forgotten(disk') /\ Forgotten(world')
    BY <2>1, <2>2, ForgottenLasts
  <2> QED BY <2>1, <2>3 DEF Forgotten, Excused
<1>12. CASE UNCHANGED vars
  BY <1>12 DEF vars, answers, Standing, Forgotten, Excused
<1>13. ASSUME NEW a \in Agents, ImportAgent(a) PROVE RefusedOK'
  <2>1. \A c : Effect(Standing', c) <=> Effect(Standing, c)
    BY <1>13, ImportsAddAgents DEF Effect, Standing
  <2> QED BY <1>13, <2>1, ImportsAddAgents DEF Forgotten, Excused
<1>14. CASE ImportAnswers
  BY <1>14, ImportsAreAnswered DEF Forgotten, Excused, Standing
<1> QED
  BY <1>1, <1>2, <1>3, <1>4, <1>5, <1>6, <1>7, <1>8, <1>9, <1>10, <1>11, <1>12, <1>13,
     <1>14 DEF Next, StartRun, SweepAutomations, Ingest

\* A command that was answered with a failed save has not happened, in memory
\* or on disk, through any crashes, sweeps, imports and rollbacks that follow.
THEOREM RefusedStaysForgotten == Spec => []RefusedIsForgotten
<1>1. FInv /\ [Next]_vars => FInv'
  <2>1. IInv /\ [Next]_vars => IInv'
    BY WorldsStayOK, GateStaysOK, ThreadsStayOK, UsedStaysOK, DurableStaysOK, OutcomesStayOK,
       HeardStaysOK DEF IInv
  <2> QED BY <2>1, CommandStaysOK, AheadStaysOK, RefusedStaysOK DEF FInv
<1>2. FInv => RefusedIsForgotten
  <2> SUFFICES ASSUME FInv, NEW c \in refused, c[1] # "cancel", <<c[1], c[2]>> \notin acked,
                      <<c[1], c[2], "late">> \notin refused
               PROVE  /\ ~Effect(disk, <<c[1], c[2]>>)
                      /\ gate = "free" => ~Effect(world, <<c[1], c[2]>>)
    BY DEF RefusedIsForgotten
  <2> QED BY DEF FInv, RefusedOK, Forgotten, Excused, Standing
<1> QED BY InitForgets, <1>1, <1>2, PTL DEF Spec
================================================================================
