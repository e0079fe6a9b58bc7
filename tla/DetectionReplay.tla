--------------------------- MODULE DetectionReplay ---------------------------
(***************************************************************************)
(* The detection replay (research/s0-validation/src/coordy/replay.py).     *)
(* Cutoff packets are frozen with a manifest that binds them; a run builds *)
(* the recursive state batch by batch and probes every condition, keeping  *)
(* each answer in a checkpoint; the results are scored by one more call.   *)
(* No lock is taken: several processes may work on the same files.         *)
(***************************************************************************)
EXTENDS Naturals, Sequences, FiniteSets

CONSTANTS Procs,       \* the processes
          Setups       \* what may be replayed: see Init

VARIABLES sources,    \* s0c_detection_replay_sources.jsonl: its kind and version
          labels,     \* s0c_incident_replay_labels.jsonl: its version
          manifest,   \* s0c_detection_replay_manifest.json
          checkpoint, \* the checkpoint file of each runner
          results,    \* s0c_detection_results.jsonl
          scores,     \* the score files of the detection and of the healthy cases
          fate, sends, \* the dispatch records of the calls
          code,       \* versions of the detector instructions and comparison rule
          job,        \* what each process is doing
          jobs,       \* bound: commands given so far
          setup       \* what is replayed, settled once

\* A setup: the kinds of packets, the processes, the sends of a request, what a
\* call may answer, and the bounds.
ASSUME SetupsAreReplays ==
    \A s \in Setups : /\ s.processes \subseteq Procs /\ "none" \notin s.answers
                      /\ {s.budget, s.versions, s.upgrades, s.jobs} \subseteq Nat

calls == <<fate, sends>>
files == <<sources, labels, manifest, checkpoint, results, scores>>
vars == <<files, calls, code, job, jobs, setup>>

Kinds == setup.kinds            \* the kinds of packets prepared: see Steps
Budget == setup.budget          \* how often one request may leave
Answers == setup.answers        \* what a call may answer; "bad" is not valid
MaxVersions == setup.versions   \* bound: how often packets are prepared
MaxUpgrades == setup.upgrades   \* bound: how often the program changes
MaxJobs == setup.jobs           \* bound: how many commands are given

------------------------------------------------------------------------------
(* The steps of one case, with the earlier answers each of them reads       *)

Step(id, bucket, reads) == [id |-> id, bucket |-> bucket, reads |-> reads]

\* run_incident_detection_replay: batches of recursive state, then conditions
\* A to E, of which only B reads the state; run_detection_replay: the batches,
\* the better compaction, then the conditions that read one or the other.
Steps(kind) ==
    IF kind = "incident"
    THEN << Step("batch1", "states", {}), Step("batch2", "states", {"batch1"}),
            Step("A", "probes", {}), Step("B", "probes", {"batch2"}) >>
    ELSE << Step("batch1", "states", {}), Step("better", "states", {}),
            Step("native", "probes", {}), Step("compacted", "probes", {"better"}),
            Step("coordy", "probes", {"batch1"}) >>

StepIds == {Steps(k)[n].id : k \in Kinds, n \in 1..4} \cup {"coordy"}
Runner(kind) == IF kind = "incident" THEN "incident" ELSE "audit"
Runners == {Runner(k) : k \in Kinds}

None == "none"
NoAnswers == [s \in StepIds |-> None]

\* What the answer of a step is filed under: the packets, the answers it reads,
\* in the incident runner the instructions and, for the probe of the structured
\* state, the comparison rule that the code adds.
Input(kind, step, version, got) ==
    [version |-> version, reads |-> [s \in step.reads |-> got[s]],
     instr |-> IF kind = "incident" /\ step.bucket = "probes" THEN code.instr ELSE 0,
     rule |-> IF step.id = "coordy" THEN code.rule ELSE 0]
NoInput == [version |-> 0, reads |-> <<>>, instr |-> 0, rule |-> 0]
NoRow == [input |-> NoInput, answer |-> None]
HasRow(row) == row.answer # None

\* The call's dispatch record: its name holds the evidence ids of the packets
\* and, for a probe, the instructions.
CallKey(step, version) ==
    <<step.id, version, IF step.bucket = "probes" THEN code.instr ELSE 0>>
ScoreKey(of) == <<"score", of.version, of.instr>>
Versions == 0..MaxVersions
CallKeys == (StepIds \cup {"score"}) \X Versions \X (0..MaxUpgrades)

Ledger == INSTANCE RequestLedger WITH Items <- {}, budget <- Budget

\* _validate_unique_bound_evidence and the checks of a detector's verdict.
Validated(answer) == answer # "bad"

NoResults == [version |-> 0, instr |-> 0, rule |-> 0, got |-> NoAnswers]
NoScores == [detection |-> NoResults, healthy |-> NoResults]
NoManifest == [status |-> "NONE", kind |-> None, version |-> 0, labels |-> 0,
               results |-> NoResults, scores |-> NoScores]
NoCheckpoint == [version |-> 0, instr |-> 0, rows |-> [s \in StepIds |-> NoRow]]
Idle == [pc |-> "idle", man |-> NoManifest, mem |-> NoCheckpoint, k |-> 0,
         got |-> NoAnswers, answer |-> None]

Enter(p) == /\ job[p].pc = "idle" /\ jobs < MaxJobs
            /\ jobs' = jobs + 1
Exit(p) == job' = [job EXCEPT ![p] = Idle]
Goto(p, label) == job' = [job EXCEPT ![p].pc = label]
At(p, label) == job[p].pc = label

------------------------------------------------------------------------------
(* Preparing: packets, labels and manifest are three writes                 *)

PrepareSources(p, kind) ==
    /\ Enter(p)
    /\ sources.version < MaxVersions
    /\ sources' = [kind |-> kind, version |-> sources.version + 1]
    /\ job' = [job EXCEPT ![p].pc = IF kind = "incident" THEN "labels" ELSE "binding",
                          ![p].man = [NoManifest EXCEPT !.kind = kind,
                                         !.version = sources.version + 1]]
    /\ UNCHANGED <<labels, manifest, checkpoint, results, scores, calls, code>>

PrepareLabels(p) ==
    /\ At(p, "labels")
    /\ labels' = job[p].man.version
    /\ job' = [job EXCEPT ![p].pc = "binding", ![p].man.labels = job[p].man.version]
    /\ UNCHANGED <<sources, manifest, checkpoint, results, scores, calls, code, jobs>>

\* A skipped incident, or none at all, keeps the packets from being replayed.
PrepareManifest(p) ==
    /\ At(p, "binding")
    /\ \E status \in {"PENDING_CONTEXT_CONSTRUCTION"} \cup
                     (IF job[p].man.kind = "incident" THEN {"INCOMPLETE"} ELSE {}) :
          manifest' = [job[p].man EXCEPT !.status = status]
    /\ Exit(p)
    /\ UNCHANGED <<sources, labels, checkpoint, results, scores, calls, code, jobs>>

------------------------------------------------------------------------------
(* Replaying                                                                *)

SourcesAreBound == /\ manifest.status # "NONE"
                   /\ manifest.version = sources.version

CheckpointMatches(file) == file.version \in {0, manifest.version}

\* The detectors of the audit runner are forgotten when their instructions
\* changed; the incident runner keeps everything.
Reloaded(kind, file) ==
    LET Forgotten == {Steps(kind)[n].id : n \in {n \in DOMAIN Steps(kind) :
                          /\ kind # "incident" /\ file.instr # code.instr
                          /\ Steps(kind)[n].bucket = "probes"}}
    IN  [version |-> manifest.version, instr |-> code.instr,
         rows |-> [s \in StepIds |-> IF s \in Forgotten THEN NoRow ELSE file.rows[s]]]

StartReplay(p) ==
    /\ Enter(p)
    /\ SourcesAreBound
    /\ manifest.kind = "incident" => manifest.status = "PENDING_CONTEXT_CONSTRUCTION"
    /\ LET file == checkpoint[Runner(manifest.kind)]
       IN  /\ CheckpointMatches(file)
           /\ job' = [job EXCEPT ![p] = [Idle EXCEPT
                  !.pc = "replaying", !.man = manifest, !.k = 1,
                  !.mem = Reloaded(manifest.kind, file)]]
    /\ UNCHANGED <<files, calls, code>>

CurrentStep(p) == Steps(job[p].man.kind)[job[p].k]
StepsLeft(p) == job[p].k <= Len(Steps(job[p].man.kind))
SavedRow(p) == job[p].mem.rows[CurrentStep(p).id]
CurrentInput(p) == Input(job[p].man.kind, CurrentStep(p), job[p].man.version, job[p].got)
InputMatches(p) == HasRow(SavedRow(p)) /\ SavedRow(p).input = CurrentInput(p)

TakeSaved(p) ==
    /\ At(p, "replaying") /\ StepsLeft(p)
    /\ InputMatches(p)
    /\ job' = [job EXCEPT ![p].pc = "validating", ![p].answer = SavedRow(p).answer]
    /\ UNCHANGED <<files, calls, code, jobs>>

\* A row that answered something else ends the run, but for the structured
\* state, which is asked again.
Asks(p) == \/ ~HasRow(SavedRow(p))
           \/ ~InputMatches(p) /\ CurrentStep(p).id = "coordy"

RefuseSaved(p) ==
    /\ At(p, "replaying") /\ StepsLeft(p)
    /\ HasRow(SavedRow(p)) /\ ~InputMatches(p) /\ CurrentStep(p).id # "coordy"
    /\ Exit(p)
    /\ UNCHANGED <<files, calls, code, jobs>>

CurrentKey(p) == IF At(p, "scoring") \/ At(p, "scored")
                 THEN ScoreKey(job[p].man.results)
                 ELSE CallKey(CurrentStep(p), job[p].man.version)

Calling(p) == \/ At(p, "replaying") /\ StepsLeft(p) /\ Asks(p)
              \/ At(p, "scoring")
Waiting(p) == job[p].pc \in {"asked", "scored"}

ClaimCall(p) ==
    /\ Calling(p)
    /\ Ledger!Send(CurrentKey(p))
    /\ Goto(p, IF At(p, "scoring") THEN "scored" ELSE "asked")
    /\ UNCHANGED <<files, code, jobs>>

RearmCall(p) ==
    /\ Calling(p)
    /\ sends[CurrentKey(p)] < Budget
    /\ Ledger!Rearm(CurrentKey(p))
    /\ UNCHANGED <<files, code, job, jobs>>

\* Mutant: the run waits for a record that is out.
RefuseAnsweredCall(p) ==
    /\ Calling(p)
    /\ \/ fate[CurrentKey(p)] = "answered"
       \/ sends[CurrentKey(p)] >= Budget
    /\ Exit(p)
    /\ UNCHANGED <<files, calls, code, jobs>>

\* The record of an earlier call without an answer in the checkpoint.
RefuseCall(p) ==
    /\ Calling(p)
    /\ \/ fate[CurrentKey(p)] \in {"out", "answered"}
       \/ sends[CurrentKey(p)] >= Budget
    /\ Exit(p)
    /\ UNCHANGED <<files, calls, code, jobs>>

CallFails(p) ==
    /\ Waiting(p)
    /\ \/ Ledger!Settle(CurrentKey(p))
       \/ UNCHANGED calls
    /\ Exit(p)
    /\ UNCHANGED <<files, code, jobs>>

CallAnswered(p) ==
    /\ At(p, "asked")
    /\ Ledger!Settle(CurrentKey(p)) /\ fate'[CurrentKey(p)] = "answered"
    /\ \E answer \in Answers :
          job' = [job EXCEPT ![p].pc = "saving", ![p].answer = answer]
    /\ UNCHANGED <<files, code, jobs>>

\* The answer is saved before it is validated.
SaveAnswer(p) ==
    /\ At(p, "saving")
    /\ LET mem == [job[p].mem EXCEPT
                      !.rows[CurrentStep(p).id] = [input |-> CurrentInput(p),
                                                   answer |-> job[p].answer]]
       IN  /\ checkpoint' = [checkpoint EXCEPT ![Runner(job[p].man.kind)] = mem]
           /\ job' = [job EXCEPT ![p].pc = "validating", ![p].mem = mem]
    /\ UNCHANGED <<sources, labels, manifest, results, scores, calls, code, jobs>>

ValidateAnswer(p) ==
    /\ At(p, "validating")
    /\ IF Validated(job[p].answer)
       THEN job' = [job EXCEPT ![p].pc = "replaying", ![p].k = @ + 1, ![p].answer = None,
                               ![p].got[CurrentStep(p).id] = job[p].answer]
       ELSE Exit(p)
    /\ UNCHANGED <<files, calls, code, jobs>>

Computed(p) == [version |-> job[p].man.version, instr |-> code.instr, rule |-> code.rule,
                got |-> job[p].got]

WriteResults(p) ==
    /\ At(p, "replaying") /\ ~StepsLeft(p)
    /\ results' = Computed(p)
    /\ Goto(p, "finishing")
    /\ UNCHANGED <<sources, labels, manifest, checkpoint, scores, calls, code, jobs>>

\* Mutant: the manifest is read again instead of the one the run started from.
FinishReplayRereads(p) ==
    /\ At(p, "finishing")
    /\ manifest' = [manifest EXCEPT !.status = "PENDING_DETECTION_SCORING",
                                    !.results = Computed(p)]
    /\ Exit(p)
    /\ UNCHANGED <<sources, labels, checkpoint, results, scores, calls, code, jobs>>

\* Everything else in the manifest is what the run read when it started.
FinishReplay(p) ==
    /\ At(p, "finishing")
    /\ manifest' = [job[p].man EXCEPT !.status = "PENDING_DETECTION_SCORING",
                                      !.results = Computed(p)]
    /\ Exit(p)
    /\ UNCHANGED <<sources, labels, checkpoint, results, scores, calls, code, jobs>>

------------------------------------------------------------------------------
(* Scoring                                                                  *)

Scorable == /\ SourcesAreBound
            /\ manifest.status \in {"PENDING_DETECTION_SCORING",
                                    "PENDING_HEALTHY_FALSE_ALARM_CHECK"}
            /\ manifest.results = results
            /\ manifest.kind = "incident" => manifest.labels = labels

StartScoring(p) ==
    /\ Enter(p)
    /\ Scorable
    /\ job' = [job EXCEPT ![p] = [Idle EXCEPT !.pc = "scoring", !.man = [manifest EXCEPT
                  !.status = "PENDING_HEALTHY_FALSE_ALARM_CHECK",
                  !.scores.detection = manifest.results]]]
    /\ UNCHANGED <<files, calls, code>>

\* The scores are in no checkpoint: what fails here is never asked again.
ScoreAnswered(p) ==
    /\ At(p, "scored")
    /\ Ledger!Settle(CurrentKey(p)) /\ fate'[CurrentKey(p)] = "answered"
    /\ \E answer \in Answers :
          IF Validated(answer) THEN Goto(p, "writing scores") ELSE Exit(p)
    /\ UNCHANGED <<files, code, jobs>>

\* score_healthy_false_alarms needs no call and looks at no status.
StartHealthy(p) ==
    /\ Enter(p)
    /\ SourcesAreBound /\ manifest.kind = "healthy"
    /\ manifest.results = results /\ results # NoResults
    /\ job' = [job EXCEPT ![p] = [Idle EXCEPT !.pc = "writing scores", !.man = [manifest EXCEPT
                  !.status = "PENDING_ACTION_PROBE_DECISION",
                  !.scores.healthy = manifest.results]]]
    /\ UNCHANGED <<files, calls, code>>

WriteScores(p) ==
    /\ At(p, "writing scores")
    /\ scores' = IF job[p].man.status = "PENDING_ACTION_PROBE_DECISION"
                 THEN [scores EXCEPT !.healthy = job[p].man.results]
                 ELSE [scores EXCEPT !.detection = job[p].man.results]
    /\ Goto(p, "binding scores")
    /\ UNCHANGED <<sources, labels, manifest, checkpoint, results, calls, code, jobs>>

BindScores(p) ==
    /\ At(p, "binding scores")
    /\ manifest' = job[p].man
    /\ Exit(p)
    /\ UNCHANGED <<sources, labels, checkpoint, results, scores, calls, code, jobs>>

------------------------------------------------------------------------------
Crash(p) == /\ job[p].pc # "idle"
            /\ Exit(p)
            /\ UNCHANGED <<files, calls, code, jobs>>

\* The program is changed between two commands: its detector instructions, or
\* the rule it adds to the structured state.
Upgrade ==
    /\ \A p \in Procs : job[p].pc = "idle"
    /\ code.instr + code.rule < MaxUpgrades
    /\ \/ code' = [code EXCEPT !.instr = @ + 1]
       \/ code' = [code EXCEPT !.rule = @ + 1]
    /\ UNCHANGED <<files, calls, job, jobs>>

Init == /\ setup \in Setups
        /\ sources = [kind |-> None, version |-> 0]
        /\ labels = 0
        /\ manifest = NoManifest
        /\ checkpoint = [r \in Runners |-> NoCheckpoint]
        /\ results = NoResults
        /\ scores = NoScores
        /\ fate = [c \in CallKeys |-> "ready"]
        /\ sends = [c \in CallKeys |-> 0]
        /\ code = [instr |-> 0, rule |-> 0]
        /\ job = [p \in Procs |-> Idle]
        /\ jobs = 0

\* What a process does by itself once it was given a command.
Proceed(p) ==
    \/ PrepareLabels(p) \/ PrepareManifest(p)
    \/ TakeSaved(p) \/ RefuseSaved(p) \/ ClaimCall(p) \/ RearmCall(p) \/ RefuseCall(p)
    \/ CallFails(p) \/ CallAnswered(p) \/ SaveAnswer(p) \/ ValidateAnswer(p)
    \/ WriteResults(p) \/ FinishReplay(p)
    \/ ScoreAnswered(p) \/ WriteScores(p) \/ BindScores(p)

Process(p) == \/ \E kind \in Kinds : PrepareSources(p, kind)
              \/ StartReplay(p) \/ StartScoring(p) \/ StartHealthy(p)
              \/ Proceed(p) \/ Crash(p)

Next == /\ (\E p \in setup.processes : Process(p)) \/ Upgrade
        /\ UNCHANGED setup

Spec == Init /\ [][Next]_vars

\* A command runs on: every call it makes is answered, fails or times out.
FairSpec == Spec /\ \A p \in Procs : WF_vars(Proceed(p) /\ UNCHANGED setup)

------------------------------------------------------------------------------
(* What the manifest and the checkpoint promise of the results.              *)

StatusesOfManifest == {"NONE", "INCOMPLETE", "PENDING_CONTEXT_CONSTRUCTION",
                       "PENDING_DETECTION_SCORING", "PENDING_HEALTHY_FALSE_ALARM_CHECK",
                       "PENDING_ACTION_PROBE_DECISION"}

\* Every file and job is one the code can produce.
ReplayTypeOK ==
    /\ manifest.status \in StatusesOfManifest
    /\ \A r \in Runners, s \in StepIds :
          checkpoint[r].rows[s].answer \in Answers \cup {None}
    /\ \A p \in Procs : job[p].k \in 0..6

\* Results that a manifest offers for scoring answer every step of the packets
\* it binds, were computed from those packets and no others, and passed the
\* validation of their step: whatever was cached, by whom, and in which order.
ResultsBelongToSources ==
    manifest.status \in {"PENDING_DETECTION_SCORING", "PENDING_HEALTHY_FALSE_ALARM_CHECK",
                         "PENDING_ACTION_PROBE_DECISION"}
        => /\ manifest.results.version = manifest.version
           /\ \A n \in DOMAIN Steps(manifest.kind) :
                 manifest.results.got[Steps(manifest.kind)[n].id] \in Answers \ {"bad"}

\* A manifest that calls the detection scored binds scores of the very results
\* it binds.
ScoresBelongToResults ==
    /\ manifest.status = "PENDING_HEALTHY_FALSE_ALARM_CHECK"
          => manifest.scores.detection = manifest.results
    /\ manifest.status = "PENDING_ACTION_PROBE_DECISION"
          => manifest.scores.healthy = manifest.results

\* Replaying the same packets with the same program gives the same results: a
\* rerun takes its answers from the checkpoint, and none can be asked twice.
RerunReproduces ==
    [][/\ results.version # 0
       /\ [results' EXCEPT !.got = NoAnswers] = [results EXCEPT !.got = NoAnswers]
       => results' = results]_vars

\* What the manifest calls complete belongs together, results and scores, and
\* does not depend on how often a run was stopped.
ResultsAreBound == /\ [](ReplayTypeOK /\ ResultsBelongToSources /\ ScoresBelongToResults)
                   /\ RerunReproduces

\* A command comes to its end.
ReplayEnds == \A p \in Procs : job[p].pc # "idle" ~> job[p].pc = "idle"
==============================================================================
