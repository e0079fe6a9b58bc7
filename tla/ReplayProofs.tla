---------------------------- MODULE ReplayProofs -----------------------------
(***************************************************************************)
(* For any kinds of packets, processes, answers and bounds: what a replay  *)
(* calls complete belongs together, and a rerun reproduces it.             *)
(***************************************************************************)
EXTENDS DetectionReplay, TLAPS

Given == Answers \cup {None}
Result == [version : Versions, instr : 0..MaxUpgrades, rule : Nat, got : [StepIds -> Given]]
Question == [version : Versions, reads : UNION {[S -> Given] : S \in SUBSET StepIds},
             instr : 0..MaxUpgrades, rule : Nat]
File == [version : Versions, instr : 0..MaxUpgrades,
         rows : [StepIds -> [input : Question, answer : Given]]]
Manifest == [status : StatusesOfManifest, kind : Kinds \cup {None}, version : Versions,
             labels : Versions, results : Result,
             scores : [detection : Result, healthy : Result]]

Preparing == {"labels", "binding"}
Replaying == {"replaying", "asked", "saving", "validating", "finishing"}
Scoring == {"scoring", "scored", "writing scores", "binding scores"}
Job == [pc : {"idle"} \cup Preparing \cup Replaying \cup Scoring, man : Manifest,
        mem : File, k : 0..6, got : [StepIds -> Given], answer : Given]

TypesOK ==
  /\ setup \in Setups
  /\ sources \in [kind : Kinds \cup {None}, version : Versions] /\ labels \in Versions
  /\ manifest \in Manifest /\ checkpoint \in [Runners -> File]
  /\ results \in Result /\ scores \in [detection : Result, healthy : Result]
  /\ fate \in [CallKeys -> {"ready", "out", "failed", "answered"}]
  /\ code \in [instr : 0..MaxUpgrades, rule : 0..MaxUpgrades]
  /\ job \in [Procs -> Job]

\* What the answers of a kind of packets are filed under.
Ids(kind) == {Steps(kind)[n].id : n \in DOMAIN Steps(kind)}
Before(kind, k) == {Steps(kind)[n].id : n \in 1..(k - 1)}
\* One valid answer for each of these steps, and no other.
Answered(got, ids) ==
  \A s \in StepIds : IF s \in ids THEN got[s] \in Answers \ {"bad"} ELSE got[s] = None

Scored == {"PENDING_HEALTHY_FALSE_ALARM_CHECK", "PENDING_ACTION_PROBE_DECISION"}
Complete == Scored \cup {"PENDING_DETECTION_SCORING"}

\* What a manifest binds belongs to it.
ManifestOK(m) ==
  /\ m.status # "NONE" => m.version # 0 /\ m.kind \in Kinds
  /\ m.status \in Complete => m.results # NoResults
  /\ m.results # NoResults => /\ m.results.version = m.version
                              /\ Answered(m.results.got, Ids(m.kind))
  /\ m.status = "PENDING_HEALTHY_FALSE_ALARM_CHECK" => m.scores.detection = m.results
  /\ m.status = "PENDING_ACTION_PROBE_DECISION" => m.scores.healthy = m.results

\* A file holds rows of its own runner.
FileOK(f, runner) ==
  \A s \in StepIds : HasRow(f.rows[s]) => \E kind \in Kinds : Runner(kind) = runner /\ s \in Ids(kind)

JobOK(j, instr) ==
  /\ ManifestOK(j.man)
  /\ j.pc = "idle" => j = Idle
  /\ j.pc \in Preparing => /\ j.man.status = "NONE" /\ j.man.results = NoResults
                           /\ j.man.version # 0 /\ j.man.kind \in Kinds
  /\ j.pc \in Replaying =>
       /\ j.man.status # "NONE"
       /\ j.mem.instr = instr /\ FileOK(j.mem, Runner(j.man.kind))
       /\ j.k \in 1..(Len(Steps(j.man.kind)) + 1)
       /\ j.pc \in {"asked", "saving", "validating"} => j.k <= Len(Steps(j.man.kind))
       /\ j.pc = "finishing" => j.k > Len(Steps(j.man.kind))
       /\ j.pc \in {"saving", "validating"} => j.answer \in Answers
       /\ Answered(j.got, Before(j.man.kind, j.k))
  /\ j.pc \notin Replaying => j.mem = NoCheckpoint /\ j.got = NoAnswers
  /\ j.pc \in Scoring => j.man.status \in Scored

\* Packets of one version are of one kind.
Mans == {manifest} \cup {job[p].man : p \in Procs}
KindsAgree ==
  /\ \A m \in Mans : m.version <= sources.version
  /\ results.version <= sources.version
  /\ \A m, o \in Mans : m.version # 0 /\ m.version = o.version => m.kind = o.kind
  /\ \A m \in Mans : m.version # 0 /\ m.version = results.version
                        => Answered(results.got, Ids(m.kind))

\* The call an answer was given in.
Probes == {"A", "B", "native", "compacted", "coordy"}
KeyFor(id, version, instr) == <<id, version, IF id \in Probes THEN instr ELSE 0>>
RowKey(f, s) ==
  KeyFor(s, f.rows[s].input.version, IF s \in {"A", "B"} THEN f.rows[s].input.instr ELSE f.instr)

\* An answer that is anywhere, with its call.
InFile(f, c, a) == \E s \in StepIds : a = f.rows[s].answer /\ c = RowKey(f, s)
InGot(got, version, instr, c, a) == \E s \in StepIds : a = got[s] /\ c = KeyFor(s, version, instr)
InHand(j, instr, c, a) ==
  /\ j.pc \in {"saving", "validating"} /\ a = j.answer
  /\ c = KeyFor(Steps(j.man.kind)[j.k].id, j.man.version, instr)
InJob(j, instr, c, a) == \/ InFile(j.mem, c, a) \/ InHand(j, instr, c, a)
                         \/ InGot(j.got, j.man.version, instr, c, a)
Held(c, a) == \/ \E r \in Runners : InFile(checkpoint[r], c, a)
              \/ \E p \in Procs : InJob(job[p], code.instr, c, a)
              \/ InGot(results.got, results.version, results.instr, c, a)

\* A call is answered once.
AnsweredOnce ==
  \A c \in CallKeys, a, b \in Answers :
    Held(c, a) => fate[c] = "answered" /\ (Held(c, b) => a = b)

IInv == /\ TypesOK /\ ManifestOK(manifest)
        /\ \A r \in Runners : FileOK(checkpoint[r], r)
        /\ \A p \in Procs : JobOK(job[p], code.instr)
        /\ KindsAgree /\ AnsweredOnce

------------------------------------------------------------------------------
(* Steps, files and calls.                                                   *)

LEMMA SetupIsOK ==
  ASSUME setup \in Setups
  PROVE  /\ None \notin Answers /\ setup.processes \subseteq Procs
         /\ MaxVersions \in Nat /\ MaxUpgrades \in Nat /\ Budget \in Nat /\ MaxJobs \in Nat
BY SetupsAreReplays DEF Answers, None, MaxVersions, MaxUpgrades, Budget, MaxJobs

LEMMA StepsAreSequences ==
  ASSUME NEW kind
  PROVE  Len(Steps(kind)) \in 4..5 /\ DOMAIN Steps(kind) = 1..Len(Steps(kind))
<1>1. CASE kind = "incident"
  BY <1>1 DEF Steps
<1>2. CASE kind # "incident"
  BY <1>2 DEF Steps
<1> QED BY <1>1, <1>2

\* The steps of a kind of packets, one by one.
LEMMA StepFacts ==
  ASSUME NEW kind \in Kinds, NEW n \in 1..Len(Steps(kind))
  PROVE  /\ Len(Steps(kind)) \in 4..5 /\ DOMAIN Steps(kind) = 1..Len(Steps(kind))
         /\ Steps(kind)[n].id \in StepIds \cap Ids(kind)
         /\ Steps(kind)[n].reads \subseteq StepIds
         /\ Steps(kind)[n].bucket = "probes" <=> Steps(kind)[n].id \in Probes
         /\ Steps(kind)[n].id \in {"A", "B"} => kind = "incident"
         /\ Steps(kind)[n].id \in {"native", "compacted", "coordy"} => kind # "incident"
<1>1. CASE kind = "incident"
  <2>1. /\ Len(Steps(kind)) = 4 /\ DOMAIN Steps(kind) = 1..4
        /\ Steps(kind)[1] = Step("batch1", "states", {})
        /\ Steps(kind)[2] = Step("batch2", "states", {"batch1"})
        /\ Steps(kind)[3] = Step("A", "probes", {})
        /\ Steps(kind)[4] = Step("B", "probes", {"batch2"})
    BY <1>1 DEF Steps
  <2>2. {Steps(kind)[1].id, Steps(kind)[2].id, Steps(kind)[3].id, Steps(kind)[4].id}
          \subseteq StepIds \cap Ids(kind)
    BY <2>1 DEF StepIds, Ids
  <2>3. n \in {1, 2, 3, 4}
    BY <2>1
  <2> QED BY <1>1, <2>1, <2>2, <2>3 DEF Step, Probes
<1>2. CASE kind # "incident"
  <2>1. /\ Len(Steps(kind)) = 5 /\ DOMAIN Steps(kind) = 1..5
        /\ Steps(kind)[1] = Step("batch1", "states", {})
        /\ Steps(kind)[2] = Step("better", "states", {})
        /\ Steps(kind)[3] = Step("native", "probes", {})
        /\ Steps(kind)[4] = Step("compacted", "probes", {"better"})
        /\ Steps(kind)[5] = Step("coordy", "probes", {"batch1"})
    BY <1>2 DEF Steps
  <2>2. {Steps(kind)[1].id, Steps(kind)[2].id, Steps(kind)[3].id, Steps(kind)[4].id,
         Steps(kind)[5].id} \subseteq StepIds \cap Ids(kind)
    BY <2>1 DEF StepIds, Ids, Step
  <2>3. n \in {1, 2, 3, 4, 5}
    BY <2>1
  <2> QED BY <1>2, <2>1, <2>2, <2>3 DEF Step, Probes
<1> QED BY <1>1, <1>2

LEMMA KeysAreCalls ==
  ASSUME TypesOK, NEW s \in StepIds, NEW version \in Versions, NEW instr \in 0..MaxUpgrades
  PROVE  KeyFor(s, version, instr) \in CallKeys
BY SetupIsOK DEF TypesOK, KeyFor, CallKeys

LEMMA CallOfStep ==
  ASSUME NEW kind \in Kinds, NEW n \in 1..Len(Steps(kind)), NEW version
  PROVE  CallKey(Steps(kind)[n], version) = KeyFor(Steps(kind)[n].id, version, code.instr)
BY StepFacts DEF CallKey, KeyFor

\* What a row holds that answers the call of a step.
LEMMA InputOfStep ==
  ASSUME NEW kind \in Kinds, NEW n \in 1..Len(Steps(kind)), NEW version, NEW got
  PROVE  /\ Input(kind, Steps(kind)[n], version, got).version = version
         /\ Steps(kind)[n].id \in {"A", "B"} =>
              Input(kind, Steps(kind)[n], version, got).instr = code.instr
BY StepFacts DEF Input, Probes

LEMMA EmptyThings ==
  ASSUME setup \in Setups
  PROVE  /\ NoResults \in Result /\ NoScores \in [detection : Result, healthy : Result]
         /\ NoManifest \in Manifest /\ NoCheckpoint \in File /\ Idle \in Job
<1>1. {MaxVersions, MaxUpgrades} \subseteq Nat
  BY SetupIsOK
<1>2. NoAnswers \in [StepIds -> Given] /\ None \in Given
  BY DEF NoAnswers, Given
<1>3. NoResults \in Result
  BY <1>1, <1>2 DEF NoResults, Result, Versions
<1>4. NoScores \in [detection : Result, healthy : Result]
  BY <1>3 DEF NoScores
<1>5. NoManifest \in Manifest
  BY <1>1, <1>3, <1>4 DEF NoManifest, Manifest, Versions, StatusesOfManifest
<1>6. NoInput \in Question
  <2>1. <<>> \in [{} -> Given] /\ {} \in SUBSET StepIds
    OBVIOUS
  <2>2. <<>> \in UNION {[S -> Given] : S \in SUBSET StepIds}
    BY <2>1
  <2> QED BY <1>1, <2>2 DEF NoInput, Question, Versions
<1>7. NoCheckpoint \in File
  BY <1>1, <1>2, <1>6 DEF NoCheckpoint, File, NoRow, Versions
<1>8. Idle \in Job
  BY <1>2, <1>5, <1>7 DEF Idle, Job
<1> QED BY <1>3, <1>4, <1>5, <1>7, <1>8

LEMMA EmptyThingsAreOK ==
  ASSUME setup \in Setups, NEW instr
  PROVE  /\ ManifestOK(NoManifest) /\ \A runner : FileOK(NoCheckpoint, runner)
         /\ JobOK(Idle, instr)
         /\ \A c, a : a \in Answers => ~InFile(NoCheckpoint, c, a) /\ ~InJob(Idle, instr, c, a)
<1>0. None \notin Answers
  BY SetupIsOK
<1>1. ManifestOK(NoManifest)
  BY DEF ManifestOK, NoManifest, Complete, Scored
<1>2. \A runner : FileOK(NoCheckpoint, runner)
  BY DEF FileOK, NoCheckpoint, HasRow, NoRow
<1>3. JobOK(Idle, instr)
  BY <1>1 DEF JobOK, Idle, Preparing, Replaying, Scoring
<1>4. \A c, a : a \in Answers => ~InFile(NoCheckpoint, c, a)
  BY <1>0 DEF InFile, NoCheckpoint, NoRow
<1>5. \A c, a : a \in Answers => ~InJob(Idle, instr, c, a)
  BY <1>0, <1>4 DEF InJob, InHand, InGot, Idle, NoAnswers
<1> QED BY <1>1, <1>2, <1>3, <1>4, <1>5

------------------------------------------------------------------------------
(* What every step leaves.                                                   *)

LEMMA SetupStays ==
  ASSUME setup' = setup
  PROVE  /\ Kinds' = Kinds /\ Answers' = Answers /\ Versions' = Versions
         /\ MaxUpgrades' = MaxUpgrades /\ StepIds' = StepIds /\ Runners' = Runners
         /\ CallKeys' = CallKeys /\ Given' = Given /\ NoAnswers' = NoAnswers
         /\ NoResults' = NoResults /\ NoCheckpoint' = NoCheckpoint /\ Idle' = Idle
         /\ Result' = Result /\ File' = File /\ Manifest' = Manifest /\ Job' = Job
<1>1. /\ Kinds' = Kinds /\ Answers' = Answers /\ MaxVersions' = MaxVersions
      /\ MaxUpgrades' = MaxUpgrades
  BY DEF Kinds, Answers, MaxVersions, MaxUpgrades
<1>2. Versions' = Versions /\ StepIds' = StepIds /\ Runners' = Runners /\ Given' = Given
  BY <1>1 DEF Versions, StepIds, Runners, Given
<1>3. CallKeys' = CallKeys /\ NoAnswers' = NoAnswers
  BY <1>1, <1>2 DEF CallKeys, NoAnswers
<1>4. NoResults' = NoResults /\ NoCheckpoint' = NoCheckpoint
  BY <1>2, <1>3 DEF NoResults, NoCheckpoint
<1>5. NoManifest' = NoManifest
  BY <1>4 DEF NoManifest, NoScores
<1>6. Idle' = Idle
  BY <1>3, <1>4, <1>5 DEF Idle
<1>7. Result' = Result
  BY <1>1, <1>2 DEF Result
<1>8. Question' = Question
  BY <1>1, <1>2 DEF Question
<1>9. File' = File
  BY <1>1, <1>2, <1>8 DEF File
<1>10. Manifest' = Manifest
  BY <1>1, <1>2, <1>7 DEF Manifest
<1>11. Job' = Job
  BY <1>2, <1>9, <1>10 DEF Job
<1> QED BY <1>1, <1>2, <1>3, <1>4, <1>6, <1>7, <1>9, <1>10, <1>11

\* The invariant, said of the next state.
LEMMA InvariantNext ==
  ASSUME setup \in Setups, setup' = setup,
         sources' \in [kind : Kinds \cup {None}, version : Versions], labels' \in Versions,
         manifest' \in Manifest, checkpoint' \in [Runners -> File], results' \in Result,
         scores' \in [detection : Result, healthy : Result],
         fate' \in [CallKeys -> {"ready", "out", "failed", "answered"}],
         code' \in [instr : 0..MaxUpgrades, rule : 0..MaxUpgrades],
         job' \in [Procs -> Job],
         ManifestOK(manifest'), \A r \in Runners : FileOK(checkpoint'[r], r),
         \A p \in Procs : JobOK(job'[p], code'.instr),
         KindsAgree', AnsweredOnce'
  PROVE  IInv'
<1>1. TypesOK'
  BY SetupStays DEF TypesOK
<1>2. ManifestOK(manifest)'
  BY SetupStays DEF ManifestOK, Answered
<1>3. \A r \in Runners' : FileOK(checkpoint[r], r)'
  BY SetupStays DEF FileOK
<1>4. ASSUME NEW p \in Procs PROVE JobOK(job[p], code.instr)'
  <2>1. JobOK(job'[p], code'.instr)
    OBVIOUS
  <2>2. ManifestOK(job[p].man)'
    BY <2>1, SetupStays DEF JobOK, ManifestOK, Answered
  <2>3. job'[p].pc \in Replaying => FileOK(job[p].mem, Runner(job[p].man.kind))'
    BY <2>1, SetupStays DEF JobOK, FileOK
  <2>4. job'[p].pc \in Replaying => Answered(job[p].got, Before(job[p].man.kind, job[p].k))'
    BY <2>1, SetupStays DEF JobOK, Answered
  <2> QED BY <2>1, <2>2, <2>3, <2>4, SetupStays DEF JobOK
<1> QED BY <1>1, <1>2, <1>3, <1>4 DEF IInv

LEMMA KindsStay ==
  ASSUME IInv, setup' = setup, sources' = sources, results' = results,
         \A m \in Mans' : m.version = 0 \/ \E o \in Mans : m.version = o.version /\ m.kind = o.kind
  PROVE  KindsAgree'
<1>1. KindsAgree /\ sources.version \in Nat
  BY SetupIsOK DEF IInv, TypesOK, Versions
<1>2. \A m \in Mans' : m.version <= sources.version
  BY <1>1 DEF KindsAgree
<1>3. \A m, o \in Mans' : m.version # 0 /\ m.version = o.version => m.kind = o.kind
  BY <1>1 DEF KindsAgree
<1>4. \A m \in Mans' : m.version # 0 /\ m.version = results.version
                        => Answered(results.got, Ids(m.kind))
  BY <1>1 DEF KindsAgree
<1> QED BY <1>1, <1>2, <1>3, <1>4, SetupStays DEF KindsAgree, Answered

LEMMA HeldStays ==
  ASSUME IInv, setup' = setup,
         \A c \in CallKeys : fate[c] = "answered" => fate'[c] = "answered",
         \A c \in CallKeys, a \in Answers : Held(c, a)' => Held(c, a)
  PROVE  AnsweredOnce'
BY SetupStays DEF IInv, AnsweredOnce

\* A step of one process, with what it holds afterwards.
JobBecomes(p, j) == /\ j \in Job /\ job' = [job EXCEPT ![p] = j]
                    /\ JobOK(j, code.instr)

LEMMA JobsStayOK ==
  ASSUME IInv, setup' = setup, code' = code, NEW p \in Procs, NEW j, JobBecomes(p, j)
  PROVE  job' \in [Procs -> Job] /\ \A q \in Procs : JobOK(job'[q], code'.instr)
BY DEF IInv, TypesOK, JobBecomes

LEMMA HeldByJob ==
  ASSUME IInv, setup' = setup, code' = code, NEW p \in Procs, NEW j, JobBecomes(p, j),
         NEW c, NEW a, Held(c, a)'
  PROVE  \/ InJob(j, code.instr, c, a) \/ Held(c, a)
         \/ \E r \in Runners : InFile(checkpoint'[r], c, a)
         \/ InGot(results'.got, results'.version, results'.instr, c, a)
<1>1. job'[p] = j /\ \A q \in Procs : q # p => job'[q] = job[q]
  BY DEF IInv, TypesOK, JobBecomes
<1>2. CASE \E r \in Runners' : InFile(checkpoint[r], c, a)'
  BY <1>2, SetupStays DEF InFile, RowKey
<1>3. CASE \E q \in Procs : InJob(job[q], code.instr, c, a)'
  <2>1. PICK q \in Procs : InJob(job[q], code.instr, c, a)'
    BY <1>3
  <2>2. InJob(job'[q], code.instr, c, a)
    BY <2>1, SetupStays DEF InJob, InFile, InHand, InGot, RowKey
  <2> QED BY <1>1, <2>2 DEF Held
<1>4. CASE InGot(results.got, results.version, results.instr, c, a)'
  BY <1>4, SetupStays DEF InGot
<1> QED BY <1>2, <1>3, <1>4 DEF Held

\* The packets a process works on are those of the manifest, or its own.
LEMMA MansStay ==
  ASSUME IInv, setup' = setup, sources' = sources, results' = results,
         NEW p \in Procs, NEW j, JobBecomes(p, j),
         \/ manifest' = manifest
         \/ /\ manifest'.version = job[p].man.version
            /\ manifest'.kind = job[p].man.kind,
         \/ j.man.version = 0
         \/ \E o \in {manifest, job[p].man} : j.man.version = o.version /\ j.man.kind = o.kind
  PROVE  KindsAgree'
<1>1. ASSUME NEW m \in Mans'
      PROVE  m.version = 0 \/ \E o \in Mans : m.version = o.version /\ m.kind = o.kind
  <2>1. CASE m = manifest'
    BY <2>1 DEF Mans
  <2>2. CASE \E q \in Procs : m = job'[q].man
    <3>1. PICK q \in Procs : m = job'[q].man
      BY <2>2
    <3>2. CASE q = p
      BY <3>1, <3>2 DEF Mans, JobBecomes, IInv, TypesOK
    <3>3. CASE q # p
      BY <3>1, <3>3 DEF Mans, JobBecomes, IInv, TypesOK
    <3> QED BY <3>2, <3>3
  <2> QED BY <2>1, <2>2 DEF Mans
<1> QED BY <1>1, KindsStay

\* A step that changes no packets, checkpoint or results, and finds no answer.
LEMMA QuietStep ==
  ASSUME IInv, UNCHANGED <<setup, code, sources, checkpoint, results>>,
         NEW p \in Procs, NEW j, JobBecomes(p, j),
         labels' \in Versions, scores' \in [detection : Result, healthy : Result],
         manifest' \in Manifest, ManifestOK(manifest'),
         \/ manifest' = manifest
         \/ /\ manifest'.version = job[p].man.version
            /\ manifest'.kind = job[p].man.kind,
         \/ j.man.version = 0
         \/ \E o \in {manifest, job[p].man} : j.man.version = o.version /\ j.man.kind = o.kind,
         fate' \in [CallKeys -> {"ready", "out", "failed", "answered"}],
         \A c \in CallKeys : fate[c] = "answered" => fate'[c] = "answered",
         \A c, a : a \in Answers /\ InJob(j, code.instr, c, a) => Held(c, a)
  PROVE  IInv'
<1>1. job' \in [Procs -> Job] /\ \A q \in Procs : JobOK(job'[q], code'.instr)
  BY JobsStayOK
<1>2. KindsAgree'
  BY MansStay
<1>3. AnsweredOnce'
  <2>1. ASSUME NEW c \in CallKeys, NEW a \in Answers, Held(c, a)'
        PROVE  Held(c, a)
    BY <2>1, HeldByJob DEF Held
  <2> QED BY <2>1, HeldStays
<1> QED BY <1>1, <1>2, <1>3, InvariantNext DEF IInv, TypesOK

\* What a call may do to the records.
CallsMove == /\ fate' \in [CallKeys -> {"ready", "out", "failed", "answered"}]
             /\ \A c \in CallKeys : fate[c] = "answered" => fate'[c] = "answered"

LEMMA LedgerMoves ==
  ASSUME IInv, NEW k, Ledger!Send(k) \/ Ledger!Settle(k) \/ Ledger!Rearm(k) \/ UNCHANGED calls
  PROVE  CallsMove
BY DEF IInv, TypesOK, CallsMove, Ledger!Send, Ledger!Settle, Ledger!Rearm, calls

LEMMA NothingNewHeld ==
  ASSUME NEW p \in Procs, NEW j, j.mem = job[p].mem, j.got = job[p].got,
         j.man.version = job[p].man.version, j.pc \notin {"saving", "validating"}
  PROVE  \A c, a : InJob(j, code.instr, c, a) => Held(c, a)
BY DEF InJob, InHand, Held

LEMMA NothingHeld ==
  ASSUME IInv, NEW j, j.mem = NoCheckpoint, j.got = NoAnswers,
         j.pc \notin {"saving", "validating"}
  PROVE  \A c, a : a \in Answers => ~InJob(j, code.instr, c, a)
BY SetupIsOK, EmptyThingsAreOK DEF IInv, TypesOK, InJob, InHand, InGot, NoAnswers

\* A process is gone, or has written nothing.
LEMMA ExitStep ==
  ASSUME IInv, UNCHANGED <<setup, code, sources, labels, checkpoint, results, scores>>,
         NEW p \in Procs, Exit(p), CallsMove,
         manifest' \in Manifest, ManifestOK(manifest'),
         \/ manifest' = manifest
         \/ /\ manifest'.version = job[p].man.version
            /\ manifest'.kind = job[p].man.kind
  PROVE  IInv'
<1>1. JobBecomes(p, Idle)
  BY EmptyThings, EmptyThingsAreOK DEF JobBecomes, Exit, IInv, TypesOK
<1>2. Idle.man.version = 0
  BY DEF Idle, NoManifest
<1>3. \A c, a : a \in Answers => ~InJob(Idle, code.instr, c, a)
  BY EmptyThingsAreOK DEF IInv, TypesOK
<1> QED BY <1>1, <1>2, <1>3, QuietStep DEF IInv, TypesOK, CallsMove

------------------------------------------------------------------------------
(* One lemma per action.                                                     *)

LEMMA PrepareSourcesIsSound ==
  ASSUME IInv, setup' = setup, NEW p \in Procs, NEW kind \in Kinds, PrepareSources(p, kind)
  PROVE  IInv'
<1> DEFINE v == sources.version + 1
           j == [job[p] EXCEPT !.pc = IF kind = "incident" THEN "labels" ELSE "binding",
                               !.man = [NoManifest EXCEPT !.kind = kind, !.version = v]]
<1>1. v \in Versions /\ v # 0 /\ v > sources.version /\ sources.version \in Nat
  BY SetupIsOK DEF IInv, TypesOK, Versions, PrepareSources
<1>2. job[p] = Idle
  BY DEF IInv, JobOK, PrepareSources, Enter
<1>3. j.man \in Manifest /\ j.man.status = "NONE" /\ j.man.results = NoResults
      /\ j.man.version = v /\ j.man.kind = kind
  <2>1. job[p] \in Job /\ NoManifest \in Manifest
    BY EmptyThings DEF IInv, TypesOK
  <2>2. j.man = [NoManifest EXCEPT !.kind = kind, !.version = v]
    BY <2>1 DEF Job
  <2> HIDE DEF v, j
  <2>3. j.man \in Manifest
    BY <1>1, <2>1, <2>2 DEF Manifest
  <2> QED BY <2>2, <2>3 DEF NoManifest
<1>4. ManifestOK(j.man)
  BY <1>3 DEF ManifestOK, Complete, Scored
<1>5. j.mem = NoCheckpoint /\ j.got = NoAnswers /\ j.pc \in Preparing
  BY <1>2, EmptyThings DEF IInv, TypesOK, Idle, Preparing, Job
<1>6. JobBecomes(p, j)
  <2>1. j \in Job
    BY <1>3, <1>5 DEF IInv, TypesOK, Job
  <2>2. job' = [job EXCEPT ![p] = j]
    BY DEF PrepareSources, IInv, TypesOK, Job
  <2>3. JobOK(j, code.instr)
    BY <1>1, <1>3, <1>4, <1>5 DEF JobOK, Preparing, Replaying, Scoring
  <2> QED BY <2>1, <2>2, <2>3 DEF JobBecomes
<1>7. UNCHANGED <<code, manifest, labels, checkpoint, results, scores, fate>>
  BY DEF PrepareSources, calls
<1>8. sources' \in [kind : Kinds \cup {None}, version : Versions] /\ sources'.version = v
  BY <1>1 DEF PrepareSources
<1>9. job' \in [Procs -> Job] /\ \A q \in Procs : JobOK(job'[q], code'.instr)
  BY <1>6, <1>7, JobsStayOK
<1>10. \A m \in Mans' : m = j.man \/ m \in Mans
  BY <1>6, <1>7 DEF Mans, JobBecomes, IInv, TypesOK
<1>11. KindsAgree'
  <2>1. KindsAgree /\ results.version \in Nat /\ \A m \in Mans : m.version \in Nat
    BY SetupIsOK DEF IInv, TypesOK, Versions, Result, Mans, Manifest, Job
  <2>2. \A m \in Mans' : m.version <= v
    <3>1. v = sources.version + 1 /\ j.man.version = v
      BY <1>3
    <3> HIDE DEF v, j
    <3>2. ASSUME NEW m \in Mans PROVE m.version <= v
      BY <1>1, <2>1, <3>1, <3>2 DEF KindsAgree
    <3>3. v <= v
      BY <1>1, <3>1
    <3> QED BY <1>10, <3>1, <3>2, <3>3
  <2>3. results.version <= v /\ results.version # v
    BY <1>1, <2>1 DEF KindsAgree
  <2>4. \A m \in Mans : m.version # v
    BY <1>1, <2>1 DEF KindsAgree
  <2>5. \A m, o \in Mans' : m.version # 0 /\ m.version = o.version => m.kind = o.kind
    BY <1>3, <1>10, <2>1, <2>4 DEF KindsAgree
  <2>6. \A m \in Mans' : m.version # 0 /\ m.version = results.version
                          => Answered(results.got, Ids(m.kind))
    BY <1>3, <1>10, <2>1, <2>3 DEF KindsAgree
  <2> QED BY <1>7, <1>8, <2>2, <2>3, <2>5, <2>6, SetupStays DEF KindsAgree, Answered
<1>12. AnsweredOnce'
  <2>1. ASSUME NEW c \in CallKeys, NEW a \in Answers, Held(c, a)' PROVE Held(c, a)
    BY <1>5, <1>6, <1>7, <2>1, HeldByJob, NothingHeld DEF Held, Preparing
  <2> QED BY <1>7, <2>1, HeldStays
<1> QED BY <1>7, <1>8, <1>9, <1>11, <1>12, InvariantNext DEF IInv, TypesOK

LEMMA PrepareLabelsIsSound ==
  ASSUME IInv, setup' = setup, NEW p \in Procs, PrepareLabels(p)
  PROVE  IInv'
<1> DEFINE j == [job[p] EXCEPT !.pc = "binding", !.man.labels = job[p].man.version]
<1>1. job[p] \in Job /\ job[p].pc = "labels" /\ JobOK(job[p], code.instr)
  BY DEF IInv, TypesOK, PrepareLabels, At
<1>2. /\ job[p].man.status = "NONE" /\ job[p].man.results = NoResults
      /\ job[p].mem = NoCheckpoint /\ job[p].got = NoAnswers
      /\ job[p].man.version # 0 /\ job[p].man.kind \in Kinds
  BY <1>1 DEF JobOK, Preparing, Replaying
<1>3. /\ j \in Job /\ j.man.status = "NONE" /\ j.man.results = NoResults /\ j.pc = "binding"
      /\ j.mem = NoCheckpoint /\ j.got = NoAnswers
      /\ j.man.version = job[p].man.version /\ j.man.kind = job[p].man.kind
  BY <1>1, <1>2 DEF Job, Manifest, Preparing
<1>4. ManifestOK(j.man)
  BY <1>3 DEF ManifestOK, Complete, Scored
<1>5. JobBecomes(p, j)
  <2>1. job' = [job EXCEPT ![p] = j]
    BY <1>1 DEF PrepareLabels, IInv, TypesOK, Job, Manifest
  <2>2. JobOK(j, code.instr)
    BY <1>2, <1>3, <1>4 DEF JobOK, Preparing, Replaying, Scoring
  <2> QED BY <1>3, <2>1, <2>2 DEF JobBecomes
<1>6. UNCHANGED <<sources, manifest, checkpoint, results, scores, code, fate>>
      /\ labels' \in Versions
  BY <1>1 DEF PrepareLabels, calls, Job, Manifest
<1>7. \A c, a : a \in Answers => ~InJob(j, code.instr, c, a)
  BY <1>3, NothingHeld
<1> QED BY <1>3, <1>5, <1>6, <1>7, QuietStep DEF IInv, TypesOK

LEMMA PrepareManifestIsSound ==
  ASSUME IInv, setup' = setup, NEW p \in Procs, PrepareManifest(p)
  PROVE  IInv'
<1>1. job[p] \in Job /\ job[p].pc = "binding" /\ JobOK(job[p], code.instr)
  BY DEF IInv, TypesOK, PrepareManifest, At
<1>2. PICK status \in {"PENDING_CONTEXT_CONSTRUCTION", "INCOMPLETE"} :
         manifest' = [job[p].man EXCEPT !.status = status]
  BY DEF PrepareManifest
<1>3. /\ manifest' \in Manifest /\ manifest'.status = status
      /\ manifest'.results = NoResults
      /\ manifest'.version # 0 /\ manifest'.kind \in Kinds
      /\ manifest'.version = job[p].man.version /\ manifest'.kind = job[p].man.kind
  BY <1>1, <1>2 DEF Job, Manifest, JobOK, Preparing, StatusesOfManifest
<1>4. ManifestOK(manifest')
  BY <1>3 DEF ManifestOK, Complete, Scored
<1>5. UNCHANGED <<sources, labels, checkpoint, results, scores, code, fate>> /\ Exit(p)
  BY DEF PrepareManifest, calls
<1>6. CallsMove
  BY <1>5 DEF CallsMove, IInv, TypesOK
<1> QED BY <1>3, <1>4, <1>5, <1>6, ExitStep

\* Commands that end without a change of files.
LEMMA EndsAreSound ==
  ASSUME IInv, setup' = setup, NEW p \in Procs,
         RefuseSaved(p) \/ RefuseCall(p) \/ CallFails(p) \/ Crash(p)
  PROVE  IInv'
<1>1. UNCHANGED <<files, code>> /\ Exit(p)
  BY DEF RefuseSaved, RefuseCall, CallFails, Crash
<1>2. CallsMove
  BY LedgerMoves DEF RefuseSaved, RefuseCall, CallFails, Crash
<1> QED BY <1>1, <1>2, ExitStep DEF files, IInv, TypesOK

LEMMA StartReplayIsSound ==
  ASSUME IInv, setup' = setup, NEW p \in Procs, StartReplay(p)
  PROVE  IInv'
<1> DEFINE kind == manifest.kind
           file == checkpoint[Runner(kind)]
           j == [Idle EXCEPT !.pc = "replaying", !.man = manifest, !.k = 1,
                             !.mem = Reloaded(kind, file)]
<1>1. /\ manifest \in Manifest /\ ManifestOK(manifest) /\ manifest.status # "NONE"
      /\ code.instr \in 0..MaxUpgrades /\ setup \in Setups
  BY DEF IInv, TypesOK, StartReplay, SourcesAreBound
<1>2. kind \in Kinds /\ manifest.version # 0 /\ Runner(kind) \in Runners
  BY <1>1 DEF ManifestOK, Runners
<1>3. file \in File /\ FileOK(file, Runner(kind))
  BY <1>2 DEF IInv, TypesOK
<1> DEFINE mem == Reloaded(kind, file)
<1>4. /\ mem \in File /\ mem.version = manifest.version /\ mem.instr = code.instr
      /\ \A s \in StepIds : mem.rows[s] = NoRow \/ mem.rows[s] = file.rows[s]
      /\ \A s \in StepIds : kind # "incident" /\ file.instr # code.instr
                             /\ HasRow(mem.rows[s]) => s \notin Probes
  <2> DEFINE Forgotten == {Steps(kind)[n].id : n \in {n \in DOMAIN Steps(kind) :
                              /\ kind # "incident" /\ file.instr # code.instr
                              /\ Steps(kind)[n].bucket = "probes"}}
             rows == [s \in StepIds |-> IF s \in Forgotten THEN NoRow ELSE file.rows[s]]
  <2>1. mem = [version |-> manifest.version, instr |-> code.instr, rows |-> rows]
    BY DEF Reloaded
  <2>2. NoRow \in [input : Question, answer : Given] /\ NoRow = NoCheckpoint.rows["coordy"]
    <3>1. NoCheckpoint \in File /\ "coordy" \in StepIds
      BY <1>1, EmptyThings DEF StepIds
    <3>2. NoRow = NoCheckpoint.rows["coordy"]
      BY <3>1 DEF NoCheckpoint
    <3> QED BY <3>1, <3>2 DEF File
  <2>3. rows \in [StepIds -> [input : Question, answer : Given]]
    BY <1>3, <2>2 DEF File
  <2>4. mem \in File
    BY <1>1, <2>1, <2>3 DEF File, Manifest
  <2>5. ASSUME NEW s \in StepIds, kind # "incident", file.instr # code.instr,
               HasRow(mem.rows[s]), s \in Probes
        PROVE  FALSE
    <3>1. s \notin Forgotten /\ HasRow(file.rows[s])
      BY <2>1, <2>5 DEF HasRow, NoRow
    <3>2. PICK o \in Kinds : Runner(o) = Runner(kind) /\ s \in Ids(o)
      BY <1>3, <2>5, <3>1 DEF FileOK
    <3>3. o # "incident" /\ Steps(o) = Steps(kind)
      BY <2>5, <3>2 DEF Runner, Steps
    <3>4. PICK n \in DOMAIN Steps(kind) : s = Steps(kind)[n].id
      BY <3>2, <3>3 DEF Ids
    <3>5. DOMAIN Steps(kind) = 1..Len(Steps(kind))
      BY StepsAreSequences
    <3>6. Steps(kind)[n].bucket = "probes"
      BY <1>2, <2>5, <3>4, <3>5, StepFacts
    <3> QED BY <2>5, <3>1, <3>4, <3>6
  <2> QED BY <2>1, <2>4, <2>5
<1> HIDE DEF mem
<1>5. FileOK(mem, Runner(kind))
  BY <1>3, <1>4 DEF FileOK, HasRow, NoRow
<1>6. j = [Idle EXCEPT !.pc = "replaying", !.man = manifest, !.k = 1, !.mem = mem]
  BY DEF mem
<1> HIDE DEF j
<1>7. /\ j \in Job /\ j.pc = "replaying" /\ j.man = manifest /\ j.k = 1 /\ j.mem = mem
      /\ j.got = NoAnswers
  <2>1. Idle \in Job /\ Idle.got = NoAnswers
    BY <1>1, EmptyThings DEF Idle
  <2>2. mem \in File /\ manifest \in Manifest /\ "replaying" \in Replaying /\ 1 \in 0..6
    BY <1>1, <1>4 DEF Replaying
  <2>3. j \in Job
    BY <1>6, <2>1, <2>2 DEF Job
  <2> QED BY <1>6, <2>1, <2>2, <2>3 DEF Job
<1>8. JobOK(j, code.instr)
  <2>1. Len(Steps(kind)) \in Nat
    BY StepsAreSequences
  <2>2. Answered(NoAnswers, Before(kind, 1))
    BY DEF Answered, NoAnswers, Before
  <2> QED BY <1>1, <1>4, <1>5, <1>7, <2>1, <2>2 DEF JobOK, Preparing, Replaying, Scoring
<1>9. UNCHANGED <<code, sources, labels, manifest, checkpoint, results, scores, fate>>
  BY DEF StartReplay, files, calls
<1>10. job' = [job EXCEPT ![p] = j]
  BY <1>6 DEF StartReplay, mem
<1>11. ASSUME NEW c, NEW a \in Answers, InJob(j, code.instr, c, a)
       PROVE  Held(c, a)
  <2>0. None \notin Answers
    BY <1>1, SetupIsOK
  <2>1. InFile(mem, c, a)
    BY <1>7, <1>11, <2>0 DEF InJob, InHand, InGot, NoAnswers
  <2>2. PICK s \in StepIds : a = mem.rows[s].answer /\ c = RowKey(mem, s)
    BY <2>1 DEF InFile
  <2>3. HasRow(mem.rows[s]) /\ mem.rows[s] = file.rows[s]
    BY <1>4, <2>0, <2>2 DEF HasRow, NoRow
  <2>4. s \in Probes \ {"A", "B"} => mem.instr = file.instr
    <3>1. CASE kind = "incident"
      <4>1. PICK o \in Kinds : Runner(o) = Runner(kind) /\ s \in Ids(o)
        BY <1>5, <2>3 DEF FileOK
      <4>2. o = "incident"
        BY <3>1, <4>1 DEF Runner
      <4>3. PICK n \in DOMAIN Steps(o) : s = Steps(o)[n].id
        BY <4>1 DEF Ids
      <4>4. DOMAIN Steps(o) = 1..Len(Steps(o))
        BY StepsAreSequences
      <4> QED BY <4>2, <4>3, <4>4, StepFacts DEF Probes
    <3>2. CASE kind # "incident"
      BY <1>4, <2>3, <3>2
    <3> QED BY <3>1, <3>2
  <2>5. RowKey(mem, s) = RowKey(file, s)
    BY <2>3, <2>4 DEF RowKey, KeyFor
  <2>6. InFile(file, c, a)
    BY <2>2, <2>3, <2>5 DEF InFile
  <2> QED BY <1>2, <2>6 DEF Held
<1> QED BY <1>1, <1>7, <1>8, <1>9, <1>10, <1>11, QuietStep DEF IInv, TypesOK, JobBecomes

LEMMA TakeSavedIsSound ==
  ASSUME IInv, setup' = setup, NEW p \in Procs, TakeSaved(p)
  PROVE  IInv'
<1> DEFINE n == job[p].k
           kind == job[p].man.kind
           s == Steps(kind)[n].id
           row == job[p].mem.rows[s]
           j == [job[p] EXCEPT !.pc = "validating", !.answer = row.answer]
<1>1. job[p] \in Job /\ job[p].pc = "replaying" /\ JobOK(job[p], code.instr)
  BY DEF IInv, TypesOK, TakeSaved, At
<1>2. kind \in Kinds /\ n \in 1..Len(Steps(kind)) /\ job[p].mem.instr = code.instr
  <2>1. Len(Steps(kind)) \in Nat
    BY StepsAreSequences
  <2> QED BY <1>1, <2>1 DEF JobOK, ManifestOK, Replaying, TakeSaved, StepsLeft
<1>3. /\ row.answer # None
      /\ row.input = Input(kind, Steps(kind)[n], job[p].man.version, job[p].got)
  BY DEF TakeSaved, InputMatches, HasRow, SavedRow, CurrentInput, CurrentStep
<1>4. s \in StepIds
  BY <1>2, StepFacts
<1>5. row.answer \in Answers /\ row.answer \in Given
  BY <1>1, <1>3, <1>4 DEF Job, File, Given
<1>6. /\ j \in Job /\ j.pc = "validating" /\ j.answer = row.answer /\ j.man = job[p].man
      /\ j.mem = job[p].mem /\ j.k = n /\ j.got = job[p].got
  BY <1>1, <1>5 DEF Job, Replaying
<1>7. job' = [job EXCEPT ![p] = j]
  BY DEF TakeSaved, SavedRow, CurrentStep, IInv, TypesOK
<1> HIDE DEF j
<1>8. JobOK(j, code.instr)
  <2>1. /\ ManifestOK(j.man) /\ j.man.status # "NONE" /\ j.mem.instr = code.instr
        /\ FileOK(j.mem, Runner(kind)) /\ j.k \in 1..(Len(Steps(kind)) + 1)
        /\ Answered(j.got, Before(kind, j.k))
    BY <1>1, <1>6 DEF JobOK, Replaying
  <2>2. j.k <= Len(Steps(kind)) /\ j.answer \in Answers /\ j.man.kind = kind
    <3>1. Len(Steps(kind)) \in Nat
      BY StepsAreSequences
    <3>2. j.k <= Len(Steps(kind))
      BY <1>2, <1>6, <3>1
    <3>3. j.man.kind = kind
      BY <1>6
    <3> QED BY <1>5, <1>6, <3>2, <3>3
  <2> QED BY <1>6, <2>1, <2>2 DEF JobOK, Preparing, Replaying, Scoring
<1>9. ASSUME NEW c, NEW a \in Answers, InJob(j, code.instr, c, a)
      PROVE  Held(c, a)
  <2>1. CASE InHand(j, code.instr, c, a)
    <3>1. a = row.answer /\ c = KeyFor(s, job[p].man.version, code.instr)
      BY <1>6, <2>1 DEF InHand
    <3>2. /\ row.input.version = job[p].man.version
          /\ s \in {"A", "B"} => row.input.instr = code.instr
      <4> DEFINE input == Input(kind, Steps(kind)[n], job[p].man.version, job[p].got)
      <4>1. /\ input.version = job[p].man.version
            /\ s \in {"A", "B"} => input.instr = code.instr
        <5>1. kind \in Kinds /\ n \in 1..Len(Steps(kind))
          BY <1>2
        <5> HIDE DEF kind, n
        <5> QED BY <5>1, InputOfStep
      <4> HIDE DEF input
      <4>2. row.input = input
        BY <1>3 DEF input
      <4> QED BY <4>1, <4>2
    <3>3. RowKey(job[p].mem, s) = c
      BY <1>2, <3>1, <3>2 DEF RowKey, KeyFor
    <3>4. InFile(job[p].mem, c, a)
      BY <1>4, <3>1, <3>3 DEF InFile
    <3> QED BY <3>4 DEF Held, InJob
  <2>2. CASE ~InHand(j, code.instr, c, a)
    BY <1>6, <1>9, <2>2 DEF InJob, Held
  <2> QED BY <2>1, <2>2
<1>10. UNCHANGED <<code, sources, labels, manifest, checkpoint, results, scores, fate>>
  BY DEF TakeSaved, files, calls
<1> QED BY <1>6, <1>7, <1>8, <1>9, <1>10, QuietStep DEF IInv, TypesOK, JobBecomes

\* Where a process stands in its replay.
LEMMA AtStep ==
  ASSUME IInv, NEW p \in Procs, job[p].pc \in Replaying
  PROVE  /\ job[p] \in Job /\ JobOK(job[p], code.instr)
         /\ job[p].man.kind \in Kinds /\ job[p].man.version # 0
         /\ job[p].mem.instr = code.instr /\ job[p].k \in Nat
         /\ StepsLeft(p) => job[p].k \in 1..Len(Steps(job[p].man.kind))
<1>1. job[p] \in Job /\ JobOK(job[p], code.instr)
  BY DEF IInv, TypesOK
<1>2. Len(Steps(job[p].man.kind)) \in Nat
  BY StepsAreSequences
<1> QED BY <1>1, <1>2 DEF JobOK, ManifestOK, StepsLeft

LEMMA StillReplaying ==
  ASSUME NEW instr, NEW o, NEW j, JobOK(o, instr), o.pc \in Replaying, j.pc \in Replaying,
         j.man = o.man, j.mem = o.mem, j.got = o.got, j.k = o.k,
         j.pc \in {"asked", "saving", "validating"} => j.k <= Len(Steps(j.man.kind)),
         j.pc = "finishing" => j.k > Len(Steps(j.man.kind)),
         j.pc \in {"saving", "validating"} => j.answer \in Answers
  PROVE  JobOK(j, instr)
BY DEF JobOK, Replaying, Preparing, Scoring

LEMMA StillScoring ==
  ASSUME NEW instr, NEW o, NEW j, JobOK(o, instr), o.pc \in Scoring, j.pc \in Scoring,
         j.man = o.man, j.mem = o.mem, j.got = o.got
  PROVE  JobOK(j, instr)
BY DEF JobOK, Replaying, Preparing, Scoring

LEMMA ClaimCallIsSound ==
  ASSUME IInv, setup' = setup, NEW p \in Procs, ClaimCall(p)
  PROVE  IInv'
<1> DEFINE j == [job[p] EXCEPT !.pc = IF At(p, "scoring") THEN "scored" ELSE "asked"]
<1>1. job[p] \in Job /\ JobOK(job[p], code.instr)
  BY DEF IInv, TypesOK
<1>2. job' = [job EXCEPT ![p] = j]
  BY DEF ClaimCall, Goto, IInv, TypesOK
<1>3. /\ j \in Job /\ j.man = job[p].man /\ j.mem = job[p].mem /\ j.got = job[p].got
      /\ j.k = job[p].k /\ j.pc = IF job[p].pc = "scoring" THEN "scored" ELSE "asked"
  BY <1>1 DEF Job, At, Replaying, Scoring
<1> HIDE DEF j
<1>4. JobOK(j, code.instr)
  <2>1. CASE job[p].pc = "scoring"
    BY <1>1, <1>3, <2>1, StillScoring DEF Scoring
  <2>2. CASE job[p].pc = "replaying" /\ StepsLeft(p)
    BY <1>1, <1>3, <2>2, StillReplaying DEF Replaying, StepsLeft
  <2> QED BY <2>1, <2>2 DEF ClaimCall, Calling, At
<1>5. CallsMove
  BY LedgerMoves DEF ClaimCall
<1>6. \A c, a : InJob(j, code.instr, c, a) => Held(c, a)
  BY <1>3, NothingNewHeld
<1>7. UNCHANGED <<files, code>>
  BY DEF ClaimCall
<1> QED BY <1>2, <1>3, <1>4, <1>5, <1>6, <1>7, QuietStep
        DEF IInv, TypesOK, JobBecomes, CallsMove, files

LEMMA RearmCallIsSound ==
  ASSUME IInv, setup' = setup, NEW p \in Procs, RearmCall(p)
  PROVE  IInv'
<1>1. JobBecomes(p, job[p])
  BY DEF RearmCall, JobBecomes, IInv, TypesOK
<1>2. CallsMove
  BY LedgerMoves DEF RearmCall
<1>3. \A c, a : InJob(job[p], code.instr, c, a) => Held(c, a)
  BY DEF Held
<1> QED BY <1>1, <1>2, <1>3, QuietStep DEF RearmCall, IInv, TypesOK, CallsMove, files

LEMMA CallAnsweredIsSound ==
  ASSUME IInv, setup' = setup, NEW p \in Procs, CallAnswered(p)
  PROVE  IInv'
<1> DEFINE kind == job[p].man.kind
           s == Steps(kind)[job[p].k].id
           key == KeyFor(s, job[p].man.version, code.instr)
<1>0. job[p].pc = "asked" /\ job[p].pc \in Replaying
  BY DEF CallAnswered, At, Replaying
<1>1. /\ job[p] \in Job /\ JobOK(job[p], code.instr) /\ StepsLeft(p)
      /\ kind \in Kinds /\ job[p].k \in 1..Len(Steps(kind))
  BY <1>0, AtStep DEF JobOK, StepsLeft
<1>2. CurrentKey(p) = key
  BY <1>0, <1>1, CallOfStep DEF CurrentKey, At, CurrentStep
<1>3. key \in CallKeys
  BY <1>1, StepFacts, KeysAreCalls DEF IInv, TypesOK, Job, Manifest
<1>4. fate[key] = "out" /\ fate'[key] = "answered" /\ CallsMove
  BY <1>2, LedgerMoves DEF CallAnswered, Ledger!Settle
<1>5. PICK answer \in Answers :
         job' = [job EXCEPT ![p].pc = "saving", ![p].answer = answer]
  BY DEF CallAnswered
<1> DEFINE j == [job[p] EXCEPT !.pc = "saving", !.answer = answer]
<1>6. job' = [job EXCEPT ![p] = j]
  BY <1>5 DEF IInv, TypesOK
<1>7. /\ j \in Job /\ j.man = job[p].man /\ j.mem = job[p].mem /\ j.got = job[p].got
      /\ j.k = job[p].k /\ j.pc = "saving" /\ j.answer = answer
  BY <1>1 DEF Job, Replaying, Given
<1> HIDE DEF j
<1>8. JobBecomes(p, j)
  BY <1>0, <1>1, <1>6, <1>7, StillReplaying DEF JobBecomes, Replaying, StepsLeft
<1>9. UNCHANGED <<files, code>>
  BY DEF CallAnswered
<1>10. KindsAgree'
  BY <1>7, <1>8, <1>9, MansStay DEF files
<1>11. ASSUME NEW c \in CallKeys, NEW a \in Answers, Held(c, a)'
       PROVE  Held(c, a) \/ (c = key /\ a = answer)
  <2>1. InJob(j, code.instr, c, a) \/ Held(c, a)
    BY <1>8, <1>9, <1>11, HeldByJob DEF Held, files
  <2>2. CASE InHand(j, code.instr, c, a)
    BY <1>7, <2>2 DEF InHand
  <2>3. CASE ~InHand(j, code.instr, c, a)
    BY <1>7, <2>1, <2>3 DEF Held, InJob
  <2> QED BY <2>2, <2>3
<1>12. \A a \in Answers : ~Held(key, a)
  BY <1>3, <1>4 DEF IInv, AnsweredOnce
<1>13. AnsweredOnce'
  <2>1. SUFFICES ASSUME NEW c \in CallKeys, NEW a \in Answers, NEW b \in Answers, Held(c, a)'
                 PROVE  fate'[c] = "answered" /\ (Held(c, b)' => a = b)
    BY SetupStays DEF AnsweredOnce
  <2>2. CASE c = key
    BY <1>4, <1>11, <1>12, <2>1, <2>2
  <2>3. CASE c # key
    BY <1>4, <1>11, <2>1, <2>3 DEF IInv, AnsweredOnce, CallsMove
  <2> QED BY <2>2, <2>3
<1>14. job' \in [Procs -> Job] /\ \A q \in Procs : JobOK(job'[q], code'.instr)
  BY <1>8, <1>9, JobsStayOK
<1> QED BY <1>4, <1>9, <1>10, <1>13, <1>14, InvariantNext DEF IInv, TypesOK, CallsMove, files

LEMMA InputIsQuestion ==
  ASSUME TypesOK, NEW kind \in Kinds, NEW n \in 1..Len(Steps(kind)),
         NEW version \in Versions, NEW got \in [StepIds -> Given]
  PROVE  Input(kind, Steps(kind)[n], version, got) \in Question
<1> DEFINE step == Steps(kind)[n]
           reads == [s \in step.reads |-> got[s]]
<1>1. step.reads \subseteq StepIds
  BY StepFacts
<1>2. reads \in [step.reads -> Given]
  BY <1>1
<1>3. reads \in UNION {[S -> Given] : S \in SUBSET StepIds}
  BY <1>1, <1>2
<1>4. code.instr \in 0..MaxUpgrades /\ code.rule \in Nat /\ 0 \in 0..MaxUpgrades
  BY SetupIsOK DEF TypesOK
<1> QED BY <1>3, <1>4 DEF Input, Question

LEMMA SaveAnswerIsSound ==
  ASSUME IInv, setup' = setup, NEW p \in Procs, SaveAnswer(p)
  PROVE  IInv'
<1> DEFINE kind == job[p].man.kind
           s == Steps(kind)[job[p].k].id
           input == Input(kind, Steps(kind)[job[p].k], job[p].man.version, job[p].got)
           mem == [job[p].mem EXCEPT !.rows[s] = [input |-> input, answer |-> job[p].answer]]
           j == [job[p] EXCEPT !.pc = "validating", !.mem = mem]
<1>0. job[p].pc = "saving" /\ job[p].pc \in Replaying
  BY DEF SaveAnswer, At, Replaying
<1>1. /\ job[p] \in Job /\ JobOK(job[p], code.instr) /\ job[p].k <= Len(Steps(kind))
      /\ kind \in Kinds /\ job[p].k \in 1..Len(Steps(kind)) /\ job[p].mem.instr = code.instr
      /\ job[p].answer \in Answers /\ FileOK(job[p].mem, Runner(kind))
  BY <1>0, AtStep DEF JobOK, StepsLeft
<1>2. s \in StepIds \cap Ids(kind)
  BY <1>1, StepFacts
<1>3. /\ input \in Question
      /\ input.version = job[p].man.version
      /\ s \in {"A", "B"} => input.instr = code.instr
  <2>1. job[p].man.version \in Versions /\ job[p].got \in [StepIds -> Given]
    BY <1>1 DEF Job, Manifest
  <2> DEFINE n == job[p].k
  <2>2. kind \in Kinds /\ n \in 1..Len(Steps(kind))
    BY <1>1
  <2> HIDE DEF kind, n
  <2>3. Input(kind, Steps(kind)[n], job[p].man.version, job[p].got) \in Question
    BY <2>1, <2>2, InputIsQuestion DEF IInv
  <2>4. /\ Input(kind, Steps(kind)[n], job[p].man.version, job[p].got).version = job[p].man.version
        /\ Steps(kind)[n].id \in {"A", "B"} =>
             Input(kind, Steps(kind)[n], job[p].man.version, job[p].got).instr = code.instr
    BY <2>2, InputOfStep
  <2> QED BY <2>3, <2>4 DEF n
<1>4. /\ job' = [job EXCEPT ![p] = j]
      /\ checkpoint' = [checkpoint EXCEPT ![Runner(kind)] = mem]
  BY DEF SaveAnswer, CurrentStep, CurrentInput, IInv, TypesOK
<1>5. /\ mem \in File /\ mem.instr = code.instr
      /\ mem.rows[s] = [input |-> input, answer |-> job[p].answer]
      /\ \A t \in StepIds : t # s => mem.rows[t] = job[p].mem.rows[t]
  <2> HIDE DEF s, input
  <2>1. job[p].mem \in File /\ job[p].answer \in Given /\ s \in StepIds
    BY <1>1, <1>2 DEF Job
  <2>2. mem = [job[p].mem EXCEPT !.rows =
                  [job[p].mem.rows EXCEPT ![s] = [input |-> input, answer |-> job[p].answer]]]
    BY <2>1 DEF File
  <2> QED BY <1>1, <1>3, <2>1, <2>2 DEF File
<1> HIDE DEF input, mem
<1>6. /\ j \in Job /\ j.man = job[p].man /\ j.mem = mem /\ j.got = job[p].got
      /\ j.k = job[p].k /\ j.pc = "validating" /\ j.answer = job[p].answer
  BY <1>1, <1>5 DEF Job, Replaying
<1> HIDE DEF j
<1>7. FileOK(mem, Runner(kind))
  <2>1. ASSUME NEW t \in StepIds, HasRow(mem.rows[t])
        PROVE  \E o \in Kinds : Runner(o) = Runner(kind) /\ t \in Ids(o)
    <3>1. CASE t = s
      BY <1>1, <1>2, <3>1
    <3>2. CASE t # s
      BY <1>1, <1>5, <2>1, <3>2 DEF FileOK
    <3> QED BY <3>1, <3>2
  <2> QED BY <2>1 DEF FileOK
<1>8. JobBecomes(p, j)
  <2>1. JobOK(j, code.instr)
    BY <1>0, <1>1, <1>5, <1>6, <1>7 DEF JobOK, Replaying, Preparing, Scoring
  <2> QED BY <1>4, <1>6, <2>1 DEF JobBecomes
<1>9. Runner(kind) \in Runners /\ checkpoint \in [Runners -> File]
  BY <1>1 DEF Runners, IInv, TypesOK
<1>10. /\ checkpoint' \in [Runners -> File]
       /\ \A r \in Runners : IF r = Runner(kind) THEN checkpoint'[r] = mem
                             ELSE checkpoint'[r] = checkpoint[r]
  BY <1>4, <1>5, <1>9
<1>11. \A r \in Runners : FileOK(checkpoint'[r], r)
  BY <1>7, <1>10 DEF IInv
<1>12. UNCHANGED <<sources, labels, manifest, results, scores, code, fate>>
  BY DEF SaveAnswer, calls
<1>13. KindsAgree'
  BY <1>6, <1>8, <1>12, MansStay
<1>14. ASSUME NEW c, NEW a \in Answers, InFile(mem, c, a)
       PROVE  Held(c, a)
  <2>1. PICK t \in StepIds : a = mem.rows[t].answer /\ c = RowKey(mem, t)
    BY <1>14 DEF InFile
  <2>2. CASE t = s
    <3>1. /\ mem.rows[s].input.version = job[p].man.version
          /\ s \in {"A", "B"} => mem.rows[s].input.instr = code.instr
          /\ a = job[p].answer
      <4>1. mem.rows[s].input = input /\ mem.rows[s].answer = job[p].answer
        BY <1>5
      <4>2. a = mem.rows[s].answer
        BY <2>1, <2>2
      <4> HIDE DEF s, kind
      <4> QED BY <1>3, <4>1, <4>2
    <3>2. c = KeyFor(s, job[p].man.version, code.instr)
      BY <1>5, <2>1, <2>2, <3>1 DEF RowKey, KeyFor
    <3>3. InHand(job[p], code.instr, c, a)
      BY <1>0, <3>1, <3>2 DEF InHand
    <3> QED BY <3>3 DEF Held, InJob
  <2>3. CASE t # s
    <3>1. RowKey(mem, t) = RowKey(job[p].mem, t)
      BY <1>1, <1>5, <2>3 DEF RowKey
    <3>2. InFile(job[p].mem, c, a)
      BY <1>5, <2>1, <2>3, <3>1 DEF InFile
    <3> QED BY <3>2 DEF Held, InJob
  <2> QED BY <2>2, <2>3
<1>15. AnsweredOnce'
  <2>1. ASSUME NEW c \in CallKeys, NEW a \in Answers, Held(c, a)'
        PROVE  Held(c, a)
    <3>1. CASE InJob(j, code.instr, c, a)
      <4>1. InFile(mem, c, a) \/ InHand(j, code.instr, c, a)
            \/ InGot(job[p].got, job[p].man.version, code.instr, c, a)
        BY <1>6, <3>1 DEF InJob
      <4>2. InHand(j, code.instr, c, a) => InHand(job[p], code.instr, c, a)
        BY <1>0, <1>6 DEF InHand
      <4> QED BY <1>14, <4>1, <4>2 DEF Held, InJob
    <3>2. CASE \E r \in Runners : InFile(checkpoint'[r], c, a)
      BY <1>10, <1>14, <3>2 DEF Held
    <3>3. CASE InGot(results'.got, results'.version, results'.instr, c, a)
      BY <1>12, <3>3 DEF Held
    <3> QED BY <1>8, <1>12, <2>1, <3>1, <3>2, <3>3, HeldByJob
  <2> QED BY <1>12, <2>1, HeldStays
<1>16. job' \in [Procs -> Job] /\ \A q \in Procs : JobOK(job'[q], code'.instr)
  BY <1>8, <1>12, JobsStayOK
<1> QED BY <1>10, <1>11, <1>12, <1>13, <1>15, <1>16, InvariantNext DEF IInv, TypesOK

LEMMA ValidateAnswerIsSound ==
  ASSUME IInv, setup' = setup, NEW p \in Procs, ValidateAnswer(p)
  PROVE  IInv'
<1> DEFINE kind == job[p].man.kind
           n == job[p].k
           s == Steps(kind)[n].id
           got == [job[p].got EXCEPT ![s] = job[p].answer]
           j == [job[p] EXCEPT !.pc = "replaying", !.k = n + 1, !.answer = None, !.got = got]
<1>0. job[p].pc = "validating" /\ job[p].pc \in Replaying
  BY DEF ValidateAnswer, At, Replaying
<1>1. /\ job[p] \in Job /\ JobOK(job[p], code.instr) /\ n <= Len(Steps(kind))
      /\ kind \in Kinds /\ n \in 1..Len(Steps(kind)) /\ job[p].mem.instr = code.instr
      /\ job[p].answer \in Answers /\ Answered(job[p].got, Before(kind, n))
      /\ job[p].got \in [StepIds -> Given]
  BY <1>0, AtStep DEF JobOK, StepsLeft, Job
<1>2. s \in StepIds /\ Len(Steps(kind)) \in 4..5
  BY <1>1, StepFacts
<1>3. UNCHANGED <<files, fate, code>>
  BY DEF ValidateAnswer, calls
<1>4. CASE ~Validated(job[p].answer)
  <2>1. Exit(p) /\ CallsMove
    BY <1>3, <1>4 DEF ValidateAnswer, CallsMove, IInv, TypesOK
  <2> QED BY <1>3, <2>1, ExitStep DEF files, IInv, TypesOK
<1>5. CASE Validated(job[p].answer)
  <2>1. job' = [job EXCEPT ![p] = j]
    BY <1>1, <1>5 DEF ValidateAnswer, CurrentStep, IInv, TypesOK, Job
  <2>2. got \in [StepIds -> Given] /\ got[s] = job[p].answer
        /\ \A t \in StepIds : t # s => got[t] = job[p].got[t]
    BY <1>1, <1>2 DEF Given
  <2> HIDE DEF got
  <2>3. /\ j \in Job /\ j.man = job[p].man /\ j.mem = job[p].mem /\ j.got = got
        /\ j.k = n + 1 /\ j.pc = "replaying"
    <3>1. n + 1 \in 0..6 /\ None \in Given
      BY <1>1, <1>2 DEF Given
    <3> QED BY <1>1, <2>2, <3>1 DEF Job, Replaying
  <2> HIDE DEF j
  <2>4. \A t : t \in Before(kind, n + 1) <=> t \in Before(kind, n) \/ t = s
    BY <1>1, <1>2 DEF Before
  <2>5. Answered(got, Before(kind, n + 1))
    BY <1>1, <1>5, <2>2, <2>4 DEF Answered, Validated
  <2>6. n + 1 \in 1..(Len(Steps(kind)) + 1)
    BY <1>1, <1>2
  <2>7. JobOK(j, code.instr)
    BY <1>0, <1>1, <2>3, <2>5, <2>6 DEF JobOK, Replaying, Preparing, Scoring
  <2>8. ASSUME NEW c, NEW a \in Answers, InJob(j, code.instr, c, a)
        PROVE  Held(c, a)
    <3>1. CASE InFile(job[p].mem, c, a)
      BY <3>1 DEF Held, InJob
    <3>2. CASE InGot(got, job[p].man.version, code.instr, c, a)
      <4>1. PICK t \in StepIds : a = got[t] /\ c = KeyFor(t, job[p].man.version, code.instr)
        BY <3>2 DEF InGot
      <4>2. CASE t = s
        BY <1>0, <2>2, <4>1, <4>2 DEF Held, InJob, InHand
      <4>3. CASE t # s
        BY <2>2, <4>1, <4>3 DEF Held, InJob, InGot
      <4> QED BY <4>2, <4>3
    <3> QED BY <2>3, <2>8, <3>1, <3>2 DEF InJob, InHand
  <2> QED BY <1>3, <2>1, <2>3, <2>7, <2>8, QuietStep DEF IInv, TypesOK, JobBecomes, files
<1> QED BY <1>4, <1>5

\* What a replay that has gone through its steps binds.
LEMMA Computes ==
  ASSUME IInv, NEW p \in Procs, job[p].pc \in Replaying, ~StepsLeft(p)
  PROVE  /\ Computed(p) \in Result /\ Computed(p) # NoResults
         /\ Computed(p).version = job[p].man.version
         /\ Answered(Computed(p).got, Ids(job[p].man.kind))
<1>1. /\ job[p] \in Job /\ JobOK(job[p], code.instr) /\ job[p].man.version # 0
      /\ job[p].k \in Nat
  BY AtStep
<1>2. Computed(p) \in Result
  BY <1>1, SetupIsOK DEF IInv, TypesOK, Computed, Result, Job, Manifest
<1>3. Computed(p) # NoResults
  BY <1>1 DEF Computed, NoResults
<1>4. job[p].k = Len(Steps(job[p].man.kind)) + 1
  BY <1>1, StepsAreSequences DEF JobOK, StepsLeft
<1>5. Before(job[p].man.kind, job[p].k) = Ids(job[p].man.kind)
  <2> DEFINE kind == job[p].man.kind
  <2>1. job[p].k - 1 = Len(Steps(kind)) /\ DOMAIN Steps(kind) = 1..Len(Steps(kind))
    BY <1>4, StepsAreSequences
  <2> QED BY <2>1 DEF Before, Ids
<1>6. Answered(job[p].got, Ids(job[p].man.kind))
  BY <1>1, <1>5 DEF JobOK
<1> QED BY <1>2, <1>3, <1>6 DEF Computed

LEMMA WriteResultsIsSound ==
  ASSUME IInv, setup' = setup, NEW p \in Procs, WriteResults(p)
  PROVE  IInv'
<1> DEFINE j == [job[p] EXCEPT !.pc = "finishing"]
<1>0. job[p].pc = "replaying" /\ job[p].pc \in Replaying /\ ~StepsLeft(p)
  BY DEF WriteResults, At, Replaying
<1>1. /\ job[p] \in Job /\ JobOK(job[p], code.instr) /\ job[p].k \in Nat
      /\ job[p].man.version # 0
  BY <1>0, AtStep
<1>2. /\ results' \in Result /\ results'.version = job[p].man.version
      /\ Answered(results'.got, Ids(job[p].man.kind))
      /\ results'.instr = code.instr /\ results'.got = job[p].got
  BY <1>0, Computes DEF WriteResults, Computed
<1>3. job' = [job EXCEPT ![p] = j]
  BY DEF WriteResults, Goto, IInv, TypesOK
<1>4. /\ j \in Job /\ j.man = job[p].man /\ j.mem = job[p].mem /\ j.got = job[p].got
      /\ j.k = job[p].k /\ j.pc = "finishing"
  BY <1>1 DEF Job, Replaying
<1> HIDE DEF j
<1>5. j.k > Len(Steps(j.man.kind))
  BY <1>0, <1>1, <1>4, StepsAreSequences DEF StepsLeft
<1>6. JobBecomes(p, j)
  BY <1>0, <1>1, <1>3, <1>4, <1>5, StillReplaying DEF JobBecomes, Replaying
<1>7. UNCHANGED <<sources, labels, manifest, checkpoint, scores, code, fate>>
  BY DEF WriteResults, calls
<1>8. Mans' = Mans
  BY <1>1, <1>4, <1>6, <1>7 DEF Mans, JobBecomes, IInv, TypesOK
<1>9. job[p].man \in Mans
  BY DEF Mans
<1>10. KindsAgree'
  <2>1. KindsAgree
    BY DEF IInv
  <2>2. \A m \in Mans : m.version # 0 /\ m.version = results'.version
                          => Answered(results'.got, Ids(m.kind))
    BY <1>1, <1>2, <1>9, <2>1 DEF KindsAgree
  <2>3. \A m \in Mans : m.version # 0 /\ m.version = results'.version
                          => Answered(results.got, Ids(m.kind))'
    BY <2>2, SetupStays DEF Answered
  <2> QED BY <1>2, <1>7, <1>8, <1>9, <2>1, <2>3 DEF KindsAgree
<1>11. AnsweredOnce'
  <2>1. ASSUME NEW c \in CallKeys, NEW a \in Answers, Held(c, a)'
        PROVE  Held(c, a)
    <3>1. InJob(j, code.instr, c, a) => Held(c, a)
      BY <1>4, NothingNewHeld
    <3>2. InGot(results'.got, results'.version, results'.instr, c, a) => Held(c, a)
      BY <1>2 DEF Held, InJob
    <3> QED BY <1>6, <1>7, <2>1, <3>1, <3>2, HeldByJob DEF Held
  <2> QED BY <1>7, <2>1, HeldStays
<1>12. job' \in [Procs -> Job] /\ \A q \in Procs : JobOK(job'[q], code'.instr)
  BY <1>6, <1>7, JobsStayOK
<1> QED BY <1>2, <1>7, <1>10, <1>11, <1>12, InvariantNext DEF IInv, TypesOK

LEMMA FinishReplayIsSound ==
  ASSUME IInv, setup' = setup, NEW p \in Procs, FinishReplay(p)
  PROVE  IInv'
<1>0. job[p].pc = "finishing" /\ job[p].pc \in Replaying
  BY DEF FinishReplay, At, Replaying
<1>1. /\ job[p] \in Job /\ JobOK(job[p], code.instr) /\ job[p].man.version # 0
      /\ job[p].man.kind \in Kinds /\ ~StepsLeft(p)
  BY <1>0, AtStep, StepsAreSequences DEF JobOK, StepsLeft
<1>2. /\ Computed(p) \in Result /\ Computed(p) # NoResults
      /\ Computed(p).version = job[p].man.version
      /\ Answered(Computed(p).got, Ids(job[p].man.kind))
  BY <1>0, <1>1, Computes
<1>3. /\ manifest' \in Manifest /\ manifest'.status = "PENDING_DETECTION_SCORING"
      /\ manifest'.results = Computed(p)
      /\ manifest'.version = job[p].man.version /\ manifest'.kind = job[p].man.kind
  BY <1>1, <1>2 DEF FinishReplay, Job, Manifest, StatusesOfManifest
<1>4. ManifestOK(manifest')
  BY <1>1, <1>2, <1>3 DEF ManifestOK, Complete, Scored
<1>5. UNCHANGED <<sources, labels, checkpoint, results, scores, code, fate>> /\ Exit(p)
  BY DEF FinishReplay, calls
<1>6. CallsMove
  BY <1>5 DEF CallsMove, IInv, TypesOK
<1> QED BY <1>3, <1>4, <1>5, <1>6, ExitStep

\* A process begins to score results that are bound.
LEMMA ScoringBegins ==
  ASSUME IInv, setup' = setup, NEW p \in Procs, NEW man, NEW pc \in Scoring,
         UNCHANGED <<files, calls, code>>,
         job' = [job EXCEPT ![p] = [Idle EXCEPT !.pc = pc, !.man = man]],
         man \in Manifest, ManifestOK(man), man.status \in Scored,
         man.version = manifest.version, man.kind = manifest.kind
  PROVE  IInv'
<1> DEFINE j == [Idle EXCEPT !.pc = pc, !.man = man]
<1>1. Idle \in Job /\ Idle.mem = NoCheckpoint /\ Idle.got = NoAnswers
  BY EmptyThings DEF IInv, TypesOK, Idle
<1>2. /\ j \in Job /\ j.pc = pc /\ j.man = man /\ j.mem = NoCheckpoint /\ j.got = NoAnswers
  BY <1>1 DEF Job
<1> HIDE DEF j
<1>3. JobOK(j, code.instr)
  BY <1>2 DEF JobOK, Scoring, Replaying, Preparing
<1>4. JobBecomes(p, j)
  BY <1>2, <1>3 DEF JobBecomes, j
<1>5. \A c, a : a \in Answers => ~InJob(j, code.instr, c, a)
  BY <1>2, NothingHeld DEF Scoring
<1> QED BY <1>2, <1>4, <1>5, QuietStep DEF IInv, TypesOK, files, calls

LEMMA StartScoringIsSound ==
  ASSUME IInv, setup' = setup, NEW p \in Procs, StartScoring(p)
  PROVE  IInv'
<1> DEFINE man == [manifest EXCEPT !.status = "PENDING_HEALTHY_FALSE_ALARM_CHECK",
                                   !.scores.detection = manifest.results]
<1>1. manifest \in Manifest /\ ManifestOK(manifest) /\ manifest.status \in Complete
  BY DEF IInv, TypesOK, StartScoring, Scorable, Complete, Scored
<1>2. /\ man \in Manifest /\ man.status = "PENDING_HEALTHY_FALSE_ALARM_CHECK"
      /\ man.version = manifest.version /\ man.kind = manifest.kind
      /\ man.results = manifest.results /\ man.scores.detection = manifest.results
  BY <1>1 DEF Manifest, StatusesOfManifest
<1>3. job' = [job EXCEPT ![p] = [Idle EXCEPT !.pc = "scoring", !.man = man]]
      /\ UNCHANGED <<files, calls, code>>
  BY DEF StartScoring
<1> HIDE DEF man
<1>4. ManifestOK(man)
  BY <1>1, <1>2 DEF ManifestOK, Complete, Scored
<1> QED BY <1>2, <1>3, <1>4, ScoringBegins DEF Scoring, Scored

LEMMA StartHealthyIsSound ==
  ASSUME IInv, setup' = setup, NEW p \in Procs, StartHealthy(p)
  PROVE  IInv'
<1> DEFINE man == [manifest EXCEPT !.status = "PENDING_ACTION_PROBE_DECISION",
                                   !.scores.healthy = manifest.results]
<1>1. /\ manifest \in Manifest /\ ManifestOK(manifest) /\ manifest.status # "NONE"
      /\ manifest.results # NoResults
  BY DEF IInv, TypesOK, StartHealthy, SourcesAreBound
<1>2. /\ man \in Manifest /\ man.status = "PENDING_ACTION_PROBE_DECISION"
      /\ man.version = manifest.version /\ man.kind = manifest.kind
      /\ man.results = manifest.results /\ man.scores.healthy = manifest.results
  BY <1>1 DEF Manifest, StatusesOfManifest
<1>3. job' = [job EXCEPT ![p] = [Idle EXCEPT !.pc = "writing scores", !.man = man]]
      /\ UNCHANGED <<files, calls, code>>
  BY DEF StartHealthy
<1> HIDE DEF man
<1>4. ManifestOK(man)
  BY <1>1, <1>2 DEF ManifestOK, Complete, Scored
<1> QED BY <1>2, <1>3, <1>4, ScoringBegins DEF Scoring, Scored

\* A scoring goes on.
LEMMA ScoringGoesOn ==
  ASSUME IInv, setup' = setup, NEW p \in Procs, NEW pc \in Scoring, Goto(p, pc),
         job[p].pc \in Scoring, CallsMove,
         UNCHANGED <<sources, labels, manifest, checkpoint, results, code>>,
         scores' \in [detection : Result, healthy : Result]
  PROVE  IInv'
<1> DEFINE j == [job[p] EXCEPT !.pc = pc]
<1>1. job[p] \in Job /\ JobOK(job[p], code.instr)
  BY DEF IInv, TypesOK
<1>2. /\ j \in Job /\ j.pc = pc /\ j.man = job[p].man /\ j.mem = job[p].mem
      /\ j.got = job[p].got
  BY <1>1 DEF Job
<1>3. job' = [job EXCEPT ![p] = j]
  BY DEF Goto, IInv, TypesOK
<1> HIDE DEF j
<1>4. JobBecomes(p, j)
  BY <1>1, <1>2, <1>3, StillScoring DEF JobBecomes
<1>5. \A c, a : InJob(j, code.instr, c, a) => Held(c, a)
  BY <1>2, NothingNewHeld DEF Scoring
<1> QED BY <1>2, <1>4, <1>5, QuietStep DEF IInv, TypesOK, CallsMove

LEMMA ScoreAnsweredIsSound ==
  ASSUME IInv, setup' = setup, NEW p \in Procs, ScoreAnswered(p)
  PROVE  IInv'
<1>1. UNCHANGED <<files, code>> /\ CallsMove
  BY LedgerMoves DEF ScoreAnswered
<1>2. CASE Exit(p)
  BY <1>1, <1>2, ExitStep DEF files, IInv, TypesOK
<1>3. CASE Goto(p, "writing scores")
  BY <1>1, <1>3, ScoringGoesOn DEF ScoreAnswered, At, Scoring, files, IInv, TypesOK
<1> QED BY <1>2, <1>3 DEF ScoreAnswered

LEMMA WriteScoresIsSound ==
  ASSUME IInv, setup' = setup, NEW p \in Procs, WriteScores(p)
  PROVE  IInv'
<1>1. UNCHANGED <<sources, labels, manifest, checkpoint, results, fate, code>>
  BY DEF WriteScores, calls
<1>2. CallsMove
  BY <1>1 DEF CallsMove, IInv, TypesOK
<1>3. scores' \in [detection : Result, healthy : Result]
  BY DEF WriteScores, IInv, TypesOK, Job, Manifest
<1> QED BY <1>1, <1>2, <1>3, ScoringGoesOn DEF WriteScores, At, Scoring

LEMMA BindScoresIsSound ==
  ASSUME IInv, setup' = setup, NEW p \in Procs, BindScores(p)
  PROVE  IInv'
<1>1. UNCHANGED <<sources, labels, checkpoint, results, scores, fate, code>> /\ Exit(p)
  BY DEF BindScores, calls
<1>2. CallsMove
  BY <1>1 DEF CallsMove, IInv, TypesOK
<1>3. manifest' = job[p].man /\ manifest' \in Manifest /\ ManifestOK(manifest')
  BY DEF BindScores, IInv, TypesOK, Job, JobOK
<1> QED BY <1>1, <1>2, <1>3, ExitStep

LEMMA UpgradeIsSound ==
  ASSUME IInv, setup' = setup, Upgrade
  PROVE  IInv'
<1>1. UNCHANGED <<files, fate, job>>
  BY DEF Upgrade, calls
<1>2. \A p \in Procs : job[p] = Idle
  BY DEF Upgrade, IInv, JobOK
<1>3. code' \in [instr : 0..MaxUpgrades, rule : 0..MaxUpgrades]
  <2>1. code.instr \in Nat /\ code.rule \in Nat /\ MaxUpgrades \in Nat
    BY SetupIsOK DEF IInv, TypesOK
  <2> QED BY <2>1 DEF Upgrade, IInv, TypesOK
<1>4. \A p \in Procs : JobOK(job'[p], code'.instr)
  BY <1>1, <1>2, EmptyThingsAreOK DEF IInv, TypesOK
<1>5. Mans' = Mans
  BY <1>1 DEF Mans, files
<1>6. KindsAgree'
  BY <1>1, <1>5, SetupStays DEF KindsAgree, Answered, IInv, files
<1>7. AnsweredOnce'
  <2>1. ASSUME NEW c \in CallKeys, NEW a \in Answers, Held(c, a)'
        PROVE  Held(c, a)
    <3>1. CASE \E p \in Procs : InJob(job[p], code.instr, c, a)'
      <4>1. PICK p \in Procs : InJob(job[p], code.instr, c, a)'
        BY <3>1
      <4>2. InJob(Idle, code'.instr, c, a)
        BY <1>1, <1>2, <4>1, SetupStays DEF InJob, InFile, InHand, InGot, RowKey
      <4> QED BY <4>2, EmptyThingsAreOK DEF IInv, TypesOK
    <3>2. CASE \E r \in Runners' : InFile(checkpoint[r], c, a)'
      BY <1>1, <3>2, SetupStays DEF InFile, RowKey, Held, files
    <3>3. CASE InGot(results.got, results.version, results.instr, c, a)'
      BY <1>1, <3>3, SetupStays DEF InGot, Held, files
    <3> QED BY <2>1, <3>1, <3>2, <3>3 DEF Held
  <2> QED BY <1>1, <2>1, HeldStays
<1> QED BY <1>1, <1>3, <1>4, <1>6, <1>7, InvariantNext DEF IInv, TypesOK, files

LEMMA NextIsSound ==
  ASSUME IInv, [Next]_vars
  PROVE  IInv'
<1>1. CASE UNCHANGED vars
  <2>1. UNCHANGED <<files, fate, code, job, setup>>
    BY <1>1 DEF vars, calls
  <2>2. Mans' = Mans
    BY <2>1 DEF Mans, files
  <2>3. KindsAgree'
    BY <2>1, <2>2, SetupStays DEF KindsAgree, Answered, IInv, files
  <2>4. AnsweredOnce'
    <3>1. ASSUME NEW c \in CallKeys, NEW a \in Answers, Held(c, a)'
          PROVE  Held(c, a)
      BY <2>1, <3>1, SetupStays DEF Held, InJob, InFile, InHand, InGot, RowKey, files
    <3> QED BY <2>1, <3>1, HeldStays
  <2> QED BY <2>1, <2>3, <2>4, InvariantNext DEF IInv, TypesOK, files
<1>2. CASE Next
  <2>1. setup' = setup /\ setup.processes \subseteq Procs
    BY <1>2, SetupIsOK DEF Next, IInv, TypesOK
  <2>2. CASE Upgrade
    BY <2>1, <2>2, UpgradeIsSound
  <2>3. ASSUME NEW p \in Procs, Process(p) PROVE IInv'
    <3>1. ASSUME NEW kind \in Kinds, PrepareSources(p, kind) PROVE IInv'
      BY <2>1, <3>1, PrepareSourcesIsSound
    <3>2. CASE StartReplay(p) \/ StartScoring(p) \/ StartHealthy(p)
      BY <2>1, <3>2, StartReplayIsSound, StartScoringIsSound, StartHealthyIsSound
    <3>3. CASE PrepareLabels(p) \/ PrepareManifest(p)
      BY <2>1, <3>3, PrepareLabelsIsSound, PrepareManifestIsSound
    <3>4. CASE TakeSaved(p) \/ ClaimCall(p) \/ RearmCall(p) \/ CallAnswered(p)
      BY <2>1, <3>4, TakeSavedIsSound, ClaimCallIsSound, RearmCallIsSound,
         CallAnsweredIsSound
    <3>5. CASE RefuseSaved(p) \/ RefuseCall(p) \/ CallFails(p) \/ Crash(p)
      BY <2>1, <3>5, EndsAreSound
    <3>6. CASE SaveAnswer(p) \/ ValidateAnswer(p) \/ WriteResults(p) \/ FinishReplay(p)
      BY <2>1, <3>6, SaveAnswerIsSound, ValidateAnswerIsSound, WriteResultsIsSound,
         FinishReplayIsSound
    <3>7. CASE ScoreAnswered(p) \/ WriteScores(p) \/ BindScores(p)
      BY <2>1, <3>7, ScoreAnsweredIsSound, WriteScoresIsSound, BindScoresIsSound
    <3> QED BY <2>3, <3>1, <3>2, <3>3, <3>4, <3>5, <3>6, <3>7 DEF Process, Proceed
  <2> QED BY <1>2, <2>1, <2>2, <2>3 DEF Next
<1> QED BY <1>1, <1>2

LEMMA InitIsSound ==
  ASSUME Init
  PROVE  IInv
<1>1. /\ setup \in Setups /\ manifest = NoManifest /\ results = NoResults
      /\ scores = NoScores /\ sources = [kind |-> None, version |-> 0] /\ labels = 0
      /\ code = [instr |-> 0, rule |-> 0] /\ job = [p \in Procs |-> Idle]
      /\ checkpoint = [r \in Runners |-> NoCheckpoint] /\ fate = [c \in CallKeys |-> "ready"]
  BY DEF Init
<1>2. TypesOK
  BY <1>1, EmptyThings, SetupIsOK DEF TypesOK, Versions
<1>3. /\ ManifestOK(manifest) /\ \A r \in Runners : FileOK(checkpoint[r], r)
      /\ \A p \in Procs : JobOK(job[p], code.instr)
  BY <1>1, EmptyThingsAreOK
<1>4. KindsAgree
  BY <1>1 DEF KindsAgree, Mans, NoManifest, NoResults, Idle
<1>5. \A c \in CallKeys, a \in Answers : ~Held(c, a)
  <2>1. None \notin Answers
    BY <1>1, SetupIsOK
  <2> QED BY <1>1, <2>1, EmptyThingsAreOK DEF Held, InGot, NoResults, NoAnswers
<1>6. AnsweredOnce
  BY <1>5 DEF AnsweredOnce
<1> QED BY <1>2, <1>3, <1>4, <1>6 DEF IInv

\* Whatever is prepared, replayed, scored, stopped and upgraded in between, by
\* any processes side by side: the invariant above holds.
THEOREM ReplayInvariant == Spec => []IInv
<1>1. Init => IInv
  BY InitIsSound
<1>2. IInv /\ [Next]_vars => IInv'
  BY NextIsSound
<1> QED BY <1>1, <1>2, PTL DEF Spec

------------------------------------------------------------------------------
(* What follows.                                                             *)

LEMMA BoundResultsAreSound ==
  ASSUME IInv
  PROVE  ReplayTypeOK /\ ResultsBelongToSources /\ ScoresBelongToResults
<1>1. manifest \in Manifest /\ ManifestOK(manifest)
  BY DEF IInv, TypesOK
<1>2. ReplayTypeOK
  BY DEF IInv, TypesOK, ReplayTypeOK, Manifest, Job, File, Given
<1>3. ResultsBelongToSources
  <2>1. SUFFICES ASSUME manifest.status \in Complete
                 PROVE  /\ manifest.results.version = manifest.version
                        /\ \A n \in DOMAIN Steps(manifest.kind) :
                              manifest.results.got[Steps(manifest.kind)[n].id] \in Answers \ {"bad"}
    BY DEF ResultsBelongToSources, Complete, Scored
  <2>2. /\ manifest.kind \in Kinds /\ manifest.results.version = manifest.version
        /\ Answered(manifest.results.got, Ids(manifest.kind))
    BY <1>1, <2>1 DEF ManifestOK, Complete, Scored
  <2>3. ASSUME NEW n \in DOMAIN Steps(manifest.kind)
        PROVE  Steps(manifest.kind)[n].id \in StepIds \cap Ids(manifest.kind)
    BY <2>2, StepsAreSequences, StepFacts
  <2> QED BY <2>2, <2>3 DEF Answered
<1>4. ScoresBelongToResults
  BY <1>1 DEF ManifestOK, ScoresBelongToResults
<1> QED BY <1>2, <1>3, <1>4

LEMMA RerunsReproduce ==
  ASSUME IInv, [Next]_vars, results.version # 0,
         [results' EXCEPT !.got = NoAnswers] = [results EXCEPT !.got = NoAnswers]
  PROVE  results' = results
<1>1. SUFFICES ASSUME NEW p \in Procs, WriteResults(p) PROVE results' = results
  <2>1. setup.processes \subseteq Procs
    BY SetupIsOK DEF IInv, TypesOK
  <2> QED BY <2>1 DEF Next, Process, Proceed, Upgrade, vars, files, Crash, PrepareSources,
      PrepareLabels, PrepareManifest, StartReplay, TakeSaved, RefuseSaved, ClaimCall,
      RearmCall, RefuseCall, CallFails, CallAnswered, SaveAnswer, ValidateAnswer,
      FinishReplay, StartScoring, ScoreAnswered, StartHealthy, WriteScores, BindScores
<1> DEFINE kind == job[p].man.kind
<1>2. job[p].pc \in Replaying /\ ~StepsLeft(p)
  BY <1>1 DEF WriteResults, At, Replaying
<1>3. /\ results' = Computed(p) /\ results' \in Result /\ results \in Result
      /\ results'.version = job[p].man.version /\ Answered(results'.got, Ids(kind))
      /\ results'.got = job[p].got /\ results'.instr = code.instr
  BY <1>1, <1>2, Computes DEF WriteResults, Computed, IInv, TypesOK
<1>4. /\ results'.version = results.version /\ results'.instr = results.instr
      /\ results'.rule = results.rule
  BY <1>3 DEF Result
<1>5. Answered(results.got, Ids(kind))
  BY <1>3, <1>4 DEF IInv, KindsAgree, Mans
<1>6. ASSUME NEW s \in StepIds PROVE results'.got[s] = results.got[s]
  <2>1. CASE s \notin Ids(kind)
    BY <1>3, <1>5, <2>1 DEF Answered
  <2>2. CASE s \in Ids(kind)
    <3> DEFINE c == KeyFor(s, results.version, results.instr)
    <3>1. results'.got[s] \in Answers /\ results.got[s] \in Answers
      BY <1>3, <1>5, <2>2 DEF Answered
    <3>2. c \in CallKeys
      BY <1>3, KeysAreCalls DEF Result, IInv
    <3>3. Held(c, results.got[s])
      BY DEF Held, InGot
    <3>4. Held(c, results'.got[s])
      BY <1>3, <1>4 DEF Held, InJob, InGot
    <3> QED BY <3>1, <3>2, <3>3, <3>4 DEF IInv, AnsweredOnce
  <2> QED BY <2>1, <2>2
<1>7. results'.got = results.got
  BY <1>3, <1>6 DEF Result
<1> QED BY <1>3, <1>4, <1>7 DEF Result

\* What the manifest calls complete belongs together, and results are written
\* again only as they were (run_incident_detection_replay, run_detection_replay,
\* score_detection, score_healthy_false_alarms).
THEOREM ResultsStayBound == Spec => ResultsAreBound
<1>1. IInv => ReplayTypeOK /\ ResultsBelongToSources /\ ScoresBelongToResults
  BY BoundResultsAreSound
<1>2. IInv /\ [Next]_vars =>
        [/\ results.version # 0
         /\ [results' EXCEPT !.got = NoAnswers] = [results EXCEPT !.got = NoAnswers]
         => results' = results]_vars
  BY RerunsReproduce
<1> QED BY <1>1, <1>2, ReplayInvariant, PTL DEF Spec, ResultsAreBound, RerunReproduces
==============================================================================
