----------------------------- MODULE JudgeProofs -----------------------------
(***************************************************************************)
(* For every setup a judge and its runner allow, any number of packets,    *)
(* processes and starts: the checkpoint stays sound, an accepted row stays *)
(* saved, and the dispatch log implements the request ledger.              *)
(***************************************************************************)
EXTENDS JudgeSafety, TLAPS

Kinds == {"504", "502", "dns"}
Row == [kind : {"none", "judged", "mended", "placeholder"}, attempt : Nat]
Record == [status : Statuses, attempt : Nat, http : Nat, requestId : BOOLEAN,
           failures : [Kinds -> Nat], responseId : BOOLEAN, accepted : BOOLEAN,
           sound : BOOLEAN]

TypesOK ==
  /\ setup \in Setups
  /\ rec \in [Items -> Record]
  /\ armed \in [Items -> BOOLEAN] /\ sends \in [Items -> Nat]
  /\ pc \in [Runs -> [Items -> Labels]]
  /\ plan \in [Runs -> [Items -> Record]]
  /\ result \in [Runs -> [Items -> Row]] /\ saved \in [Runs -> [Items -> Row]]
  /\ checkpoint \in [Items -> Row]
  /\ phase \in [Runs -> {"down", "binding", "grading", "regrading"}]
  /\ window \in [Runs -> SUBSET Items]
  /\ manifest \in [bound : BOOLEAN, rows : [Items -> Row]]

\* The runs are started one after the other.
Alone == Apart(setup)
Retries == Judge.retry504 \/ Judge.retry502
Unclaimed == {"ABSENT", "EMPTY"}

\* What the attempts before the present one ended in.
Prior(x, kind) ==
  x.failures[kind] - (IF \/ kind = "dns" /\ x.status = NoDns
                         \/ kind = "504" /\ x.status = HttpError /\ x.http = 504
                         \/ kind = "502" /\ x.status = HttpError /\ x.http = 502
                      THEN 1 ELSE 0)

\* An attempt follows two failures of a kind at most, one if it was a 502.
WithinRetries(x) ==
  /\ x.attempt = 1 + Prior(x, "504") + Prior(x, "502") + Prior(x, "dns")
  /\ Prior(x, "504") \in 0..2 /\ Prior(x, "502") \in 0..1 /\ Prior(x, "dns") \in 0..2
  /\ ~Judge.retry502 => Prior(x, "502") = 0
  /\ ~Retries => x.attempt = 1

RecordOK(x) ==
  /\ x.status \in Unclaimed => x.attempt = 0
  /\ x.status \notin Unclaimed =>
       /\ IF x.status = Placeholder THEN x.attempt \in 1..Budget ELSE WithinRetries(x)
       /\ x.sound /\ Judge.checksAttempts => x.attempt \in 1..3
  /\ x.accepted => x.status = Validated /\ x.sound

\* The sends are the attempts, but for one that has not left yet.
CountsSends(i) == sends[i] + (IF armed[i] THEN 1 ELSE 0) = rec[i].attempt

LedgerOK(i) ==
  /\ rec[i].responseId => rec[i].status \in {Unvalidated, Validated, Rejected, Mended, Placeholder}
  /\ rec[i].status \in {Validated, Rejected, Mended} => rec[i].responseId
  /\ CountsSends(i)
  /\ armed[i] => rec[i].status = Unknown

RecordsOK == \A i \in Items : RecordOK(rec[i]) /\ (Resends \/ LedgerOK(i))

\* Where a worker has the request to itself.
Owning == {"created", "rearming", "claimed", "sent", "answered"}
ClaimOK(r, i) ==
  /\ pc[r][i] = "created" => rec[i].status = "EMPTY"
  /\ pc[r][i] = "rearming" => plan[r][i] = rec[i] /\ Retryable(rec[i])
  /\ pc[r][i] = "claimed" => (rec[i].status = Unknown /\ armed[i]) \/ ReturnsAsIs(rec[i])
  /\ pc[r][i] = "sent" => (rec[i].status = Unknown /\ ~armed[i])
                          \/ (Resends /\ rec[i].status = Rejected)
  /\ pc[r][i] = "answered" => rec[i].status = Validated
  /\ pc[r][i] = "refused" /\ Judge.recovers => rec[i].status # Validated

ClaimsOK == \A r \in Runs, i \in Items : ClaimOK(r, i)
OneOwner == \A r, q \in Runs, i \in Items :
  pc[r][i] \in Owning /\ pc[q][i] \in Owning => r = q

Up(r) == phase[r] # "down"
ProcessesOK ==
  /\ \A r \in Runs : Up(r) => r \in setup.processes
  /\ Alone => \A r, q \in Runs : Up(r) /\ Up(q) => r = q
  /\ \A r \in Runs : ~Grading(r) => window[r] = {} /\ \A i \in Items : pc[r][i] = "idle"
  /\ \A r \in Runs : phase[r] = "binding" => Runner.legacy

\* A row, on disk or in memory, is backed by its record.
RowOK(i, row) ==
  /\ row.kind = "judged" => /\ rec[i].status = Validated /\ rec[i].sound
                            /\ Runner.check = "dispatch" => rec[i].accepted
  /\ row.kind = "mended" => rec[i].status = Mended /\ Judge.renormalizes
  /\ row.kind = "placeholder" => rec[i].status = Placeholder
  /\ IF row.kind = "none" THEN row = NoRow ELSE row.attempt = rec[i].attempt

FileOK == \A i \in Items : RowOK(i, checkpoint[i])
MemoryOK == \A r \in Runs, i \in Items :
  /\ RowOK(i, saved[r][i])
  /\ pc[r][i] = "graded" => RowOK(i, result[r][i]) /\ result[r][i] # NoRow

\* What a run holds in memory and what is on disk.
SavedOK == \A r \in Runs, i \in Items :
  /\ Grading(r) /\ saved[r][i] # NoRow => checkpoint[i] # NoRow
  /\ Alone /\ Up(r) /\ checkpoint[i] # NoRow => saved[r][i] = checkpoint[i]
  /\ saved[r][i] = NoRow \/ pc[r][i] = "done" \/ (pc[r][i] = "idle" /\ i \notin window[r])

IInv == /\ TypesOK /\ RecordsOK /\ ClaimsOK /\ OneOwner /\ ProcessesOK
        /\ FileOK /\ MemoryOK /\ SavedOK /\ ManifestCoversInputs

-----------------------------------------------------------------------------
(* The judges and their runners.                                            *)

\* What the setups have in common.
ProfileOK ==
  /\ Judge.max504 = 3
  /\ {Judge.retry504, Judge.retry502, Judge.returnsRejected, Judge.renormalizes,
      Judge.recovers, Judge.storesAccepted, Judge.checksAttempts} \subseteq BOOLEAN
  /\ {Runner.legacy, Runner.perItem, Runner.locked} \subseteq BOOLEAN
  /\ setup.packets \in Nat /\ setup.processes \subseteq Runs
  /\ Alone \/ /\ ~Retries /\ ~Judge.returnsRejected /\ ~Judge.recovers /\ Runner.perItem
  /\ Runner.perItem => ~Runner.legacy
  /\ Runner.locked => Alone
  /\ Judge.recovers => Alone
  /\ Runner.legacy => Alone
  /\ Runner.check = "dispatch" =>
       Judge.storesAccepted /\ Judge.checksAttempts /\ ~Judge.renormalizes
  /\ Runner.check = "attempt" /\ ~Judge.retry504 => ~Retries /\ Judge.maxAttempts = 1
  /\ Runner.check \in {"none", "attempt", "dispatch"}


\* The fields of a judge that the promises of its stage rest on.
RetriesAs(judge, again504, again502) ==
  judge.max504 = 3 /\ judge.retry504 = again504 /\ judge.retry502 = again502
Handles(judge, rejected, normalizes, recovered) ==
  /\ judge.returnsRejected = rejected /\ judge.renormalizes = normalizes
  /\ judge.recovers = recovered /\ judge.storesAccepted = recovered
  /\ judge.checksAttempts = recovered

LEMMA StateFields ==
  ASSUME NEW again504 \in BOOLEAN
  PROVE  /\ RetriesAs(StateJudge(again504), again504, FALSE)
         /\ Handles(StateJudge(again504), TRUE, TRUE, FALSE)
         /\ ~again504 => StateJudge(again504).maxAttempts = 1
BY DEF RetriesAs, Handles, StateJudge

LEMMA TrajectoryFields ==
  ASSUME NEW again504 \in BOOLEAN, NEW again502 \in BOOLEAN
  PROVE  /\ RetriesAs(TrajectoryJudge(again504, again502), again504, again502)
         /\ Handles(TrajectoryJudge(again504, again502), TRUE, TRUE, FALSE)
BY DEF RetriesAs, Handles, StateJudge, TrajectoryJudge

LEMMA FragmentFields ==
  ASSUME NEW again504 \in BOOLEAN, NEW again502 \in BOOLEAN
  PROVE  /\ RetriesAs(FragmentJudge(again504, again502), again504, again502)
         /\ Handles(FragmentJudge(again504, again502), FALSE, TRUE, FALSE)
BY DEF RetriesAs, Handles, StateJudge, TrajectoryJudge, FragmentJudge

LEMMA LinkFields ==
  ASSUME NEW again504 \in BOOLEAN, NEW again502 \in BOOLEAN
  PROVE  /\ RetriesAs(LinkJudge(again504, again502), again504, again502)
         /\ Handles(LinkJudge(again504, again502), TRUE, FALSE, FALSE)
BY DEF RetriesAs, Handles, StateJudge, TrajectoryJudge, LinkJudge

LEMMA IncidentFields ==
  ASSUME NEW again504 \in BOOLEAN, NEW again502 \in BOOLEAN
  PROVE  /\ RetriesAs(IncidentJudge(again504, again502), again504, again502)
         /\ Handles(IncidentJudge(again504, again502), FALSE, FALSE, TRUE)
BY DEF RetriesAs, Handles, StateJudge, TrajectoryJudge, FragmentJudge, IncidentJudge

LEMMA CausalFields ==
  /\ RetriesAs(CausalJudge, FALSE, FALSE) /\ Handles(CausalJudge, FALSE, FALSE, FALSE)
  /\ CausalJudge.maxAttempts = 1
BY DEF RetriesAs, Handles, CausalJudge

\* The fields of a runner.
Checks(runner, check, locked, perItem, legacy) ==
  /\ runner.check = check /\ runner.locked = locked
  /\ runner.perItem = perItem /\ runner.legacy = legacy

LEMMA RunnerFields ==
  ASSUME NEW n, NEW legacy \in BOOLEAN
  PROVE  /\ Checks(StateRunner(n), "attempt", TRUE, FALSE, FALSE)
         /\ Checks(CausalRunner(n), "attempt", TRUE, FALSE, FALSE)
         /\ Checks(TrajectoryRunner(n), "none", FALSE, FALSE, FALSE)
         /\ Checks(FragmentRunner(n), "none", FALSE, FALSE, FALSE)
         /\ Checks(IncidentRunner(n, legacy), "dispatch", FALSE, FALSE, legacy)
         /\ Checks(ActionRunner, "none", FALSE, TRUE, FALSE)
<1>1. Checks(StateRunner(n), "attempt", TRUE, FALSE, FALSE)
  BY DEF Checks, StateRunner
<1>2. Checks(CausalRunner(n), "attempt", TRUE, FALSE, FALSE)
  BY DEF Checks, StateRunner, CausalRunner
<1>3. Checks(TrajectoryRunner(n), "none", FALSE, FALSE, FALSE)
  BY DEF Checks, StateRunner, TrajectoryRunner
<1>4. Checks(FragmentRunner(n), "none", FALSE, FALSE, FALSE)
  BY DEF Checks, StateRunner, TrajectoryRunner, FragmentRunner
<1>5. Checks(IncidentRunner(n, legacy), "dispatch", FALSE, FALSE, legacy)
  BY DEF Checks, StateRunner, TrajectoryRunner, FragmentRunner, IncidentRunner
<1>6. Checks(ActionRunner, "none", FALSE, TRUE, FALSE)
  BY DEF Checks, StateRunner, TrajectoryRunner, ActionRunner
<1> QED BY <1>1, <1>2, <1>3, <1>4, <1>5, <1>6

LEMMA ProfileIsOK ==
  ASSUME setup \in Setups
  PROVE  ProfileOK
<1> DEFINE n == setup.runner.workers
<1>0. /\ setup.packets \in Nat /\ setup.processes \subseteq Runs
      /\ Grades(Runner, Judge)
      /\ Apart(setup) \/ Runner.perItem
      /\ Runner.locked => Apart(setup)
  BY SetupsAreGradings DEF Runner, Judge, Apart
<1>1. ASSUME NEW again504 \in BOOLEAN, NEW again502 \in BOOLEAN, NEW legacy \in BOOLEAN,
             Judge = CausalJudge, Runner = CausalRunner(n)
      PROVE  ProfileOK
  <2>1. /\ RetriesAs(Judge, FALSE, FALSE) /\ Handles(Judge, FALSE, FALSE, FALSE)
        /\ Checks(Runner, "attempt", TRUE, FALSE, FALSE)
    BY <1>1, RunnerFields, CausalFields
  <2> QED BY <1>0, <1>1, <2>1, CausalFields DEF ProfileOK, Retries, Alone, RetriesAs, Handles, Checks
<1>2. ASSUME NEW again504 \in BOOLEAN, NEW again502 \in BOOLEAN, NEW legacy \in BOOLEAN,
             Judge = CausalJudge, Runner = ActionRunner
      PROVE  ProfileOK
  <2>1. /\ RetriesAs(Judge, FALSE, FALSE) /\ Handles(Judge, FALSE, FALSE, FALSE)
        /\ Checks(Runner, "none", FALSE, TRUE, FALSE)
    BY <1>2, RunnerFields, CausalFields
  <2> QED BY <1>0, <1>2, <2>1 DEF ProfileOK, Retries, Alone, RetriesAs, Handles, Checks
<1>3. ASSUME NEW again504 \in BOOLEAN, NEW again502 \in BOOLEAN, NEW legacy \in BOOLEAN,
             Judge = StateJudge(again504), Runner = StateRunner(n)
      PROVE  ProfileOK
  <2>1. /\ RetriesAs(Judge, again504, FALSE) /\ Handles(Judge, TRUE, TRUE, FALSE)
        /\ Checks(Runner, "attempt", TRUE, FALSE, FALSE)
    BY <1>3, RunnerFields, StateFields
  <2> QED BY <1>0, <1>3, <2>1, StateFields DEF ProfileOK, Retries, Alone, RetriesAs, Handles, Checks
<1>4. ASSUME NEW again504 \in BOOLEAN, NEW again502 \in BOOLEAN, NEW legacy \in BOOLEAN,
             Judge = TrajectoryJudge(again504, again502), Runner = TrajectoryRunner(n)
      PROVE  ProfileOK
  <2>1. /\ RetriesAs(Judge, again504, again502) /\ Handles(Judge, TRUE, TRUE, FALSE)
        /\ Checks(Runner, "none", FALSE, FALSE, FALSE)
    BY <1>4, RunnerFields, TrajectoryFields
  <2> QED BY <1>0, <1>4, <2>1 DEF ProfileOK, Retries, Alone, RetriesAs, Handles, Checks
<1>5. ASSUME NEW again504 \in BOOLEAN, NEW again502 \in BOOLEAN, NEW legacy \in BOOLEAN,
             Judge = FragmentJudge(again504, again502), Runner = FragmentRunner(n)
      PROVE  ProfileOK
  <2>1. /\ RetriesAs(Judge, again504, again502) /\ Handles(Judge, FALSE, TRUE, FALSE)
        /\ Checks(Runner, "none", FALSE, FALSE, FALSE)
    BY <1>5, RunnerFields, FragmentFields
  <2> QED BY <1>0, <1>5, <2>1 DEF ProfileOK, Retries, Alone, RetriesAs, Handles, Checks
<1>6. ASSUME NEW again504 \in BOOLEAN, NEW again502 \in BOOLEAN, NEW legacy \in BOOLEAN,
             Judge = LinkJudge(again504, again502), Runner = LinkRunner(n)
      PROVE  ProfileOK
  <2>1. /\ RetriesAs(Judge, again504, again502) /\ Handles(Judge, TRUE, FALSE, FALSE)
        /\ Checks(Runner, "none", FALSE, FALSE, FALSE)
    BY <1>6, RunnerFields, LinkFields DEF LinkRunner
  <2> QED BY <1>0, <1>6, <2>1 DEF ProfileOK, Retries, Alone, RetriesAs, Handles, Checks
<1>7. ASSUME NEW again504 \in BOOLEAN, NEW again502 \in BOOLEAN, NEW legacy \in BOOLEAN,
             Judge = IncidentJudge(again504, again502), Runner = IncidentRunner(n, legacy)
      PROVE  ProfileOK
  <2>1. /\ RetriesAs(Judge, again504, again502) /\ Handles(Judge, FALSE, FALSE, TRUE)
        /\ Checks(Runner, "dispatch", FALSE, FALSE, legacy)
    BY <1>7, RunnerFields, IncidentFields
  <2> QED BY <1>0, <1>7, <2>1 DEF ProfileOK, Retries, Alone, RetriesAs, Handles, Checks
<1> QED BY <1>0, <1>1, <1>2, <1>3, <1>4, <1>5, <1>6, <1>7 DEF Grades, Runner, ActionProbe, ActionJudge

-----------------------------------------------------------------------------
(* A worker's step.                                                         *)

LEMMA SetupStays ==
  ASSUME setup' = setup
  PROVE  /\ Items' = Items /\ Judge' = Judge /\ Runner' = Runner /\ Budget' = Budget
         /\ Alone' = Alone /\ Resends' = Resends /\ Retries' = Retries
BY DEF Items, Judge, Runner, Budget, Alone, Apart, Resends, Retries

\* It is about one run and one item.
Local(r, i) ==
  /\ UNCHANGED <<setup, runVars>>
  /\ \A j \in Items : j # i =>
       rec'[j] = rec[j] /\ armed'[j] = armed[j] /\ sends'[j] = sends[j]
  /\ \A q \in Runs, j \in Items : (q # r \/ j # i) =>
       pc'[q][j] = pc[q][j] /\ plan'[q][j] = plan[q][j] /\ result'[q][j] = result[q][j]

\* No other run is at work on the item.
Sole(r, i) == \A q \in Runs : q # r =>
  pc[q][i] \notin Owning /\ (Judge.recovers => pc[q][i] = "idle")

\* A record that backs a row keeps what the row rests on.
KeepsRows(i) ==
  \/ rec[i].status \notin {Validated, Mended, Placeholder}
  \/ rec[i].status = Validated /\ ~rec[i].sound
  \/ /\ rec'[i].status = rec[i].status /\ rec'[i].attempt = rec[i].attempt
     /\ rec[i].sound => rec'[i].sound
     /\ Runner.check = "dispatch" /\ rec[i].accepted => rec'[i].accepted

LEMMA BackedRowsStay ==
  ASSUME NEW i \in Items, NEW row \in Row, setup' = setup, KeepsRows(i), RowOK(i, row)
  PROVE  /\ row.kind = "judged" => /\ rec'[i].status = Validated /\ rec'[i].sound
                                   /\ Runner.check = "dispatch" => rec'[i].accepted
         /\ row.kind = "mended" => rec'[i].status = Mended /\ Judge.renormalizes
         /\ row.kind = "placeholder" => rec'[i].status = Placeholder
         /\ IF row.kind = "none" THEN row = NoRow ELSE row.attempt = rec'[i].attempt
BY DEF KeepsRows, RowOK, Row, Validated, Mended, Placeholder

\* What a worker's step owes at its item.
Owed(r, i) ==
  /\ RecordOK(rec[i])' /\ (Resends \/ LedgerOK(i)') /\ ClaimOK(r, i)'
  /\ KeepsRows(i)
  /\ pc'[r][i] = "graded" => RowOK(i, result[r][i])' /\ result'[r][i] # NoRow
  /\ pc[r][i] # "done" /\ (pc[r][i] = "idle" => i \in window[r])
  /\ pc'[r][i] \notin {"idle", "done"}
  /\ Sole(r, i) \/ /\ rec'[i] = rec[i] /\ armed'[i] = armed[i]
                   /\ pc'[r][i] \notin Owning

LEMMA LocalStepsKeepRecords ==
  ASSUME IInv, NEW r \in Runs, NEW i \in Items, Local(r, i), Owed(r, i)
  PROVE  RecordsOK'
<1>0. setup' = setup
  BY DEF Local
<1>1. SUFFICES ASSUME NEW j \in Items PROVE RecordOK(rec[j])' /\ (Resends \/ LedgerOK(j)')
  BY <1>0, SetupStays DEF RecordsOK
<1>2. CASE j = i
  BY <1>2 DEF Owed
<1>3. CASE j # i
  <2>1. rec'[j] = rec[j] /\ armed'[j] = armed[j] /\ sends'[j] = sends[j]
    BY <1>3 DEF Local
  <2>2. RecordOK(rec[j])'
    BY <1>0, <2>1, SetupStays DEF IInv, RecordsOK, RecordOK, WithinRetries
  <2>3. Resends \/ LedgerOK(j)'
    BY <1>0, <2>1 DEF IInv, RecordsOK, LedgerOK, CountsSends
  <2> QED BY <2>2, <2>3
<1> QED BY <1>2, <1>3

LEMMA LocalStepsKeepClaims ==
  ASSUME IInv, NEW r \in Runs, NEW i \in Items, Local(r, i), Owed(r, i)
  PROVE  ClaimsOK' /\ OneOwner'
<1>0. setup' = setup
  BY DEF Local
<1>1. ASSUME NEW q \in Runs, NEW j \in Items, q # r \/ j # i PROVE ClaimOK(q, j)'
  <2>1. pc'[q][j] = pc[q][j] /\ plan'[q][j] = plan[q][j]
    BY <1>1 DEF Local
  <2>2. CASE rec'[j] = rec[j] /\ armed'[j] = armed[j]
    BY <1>0, <2>1, <2>2, SetupStays
       DEF IInv, ClaimsOK, ClaimOK, Retryable, Retryable504, Retryable502, RetryableDns, ReturnsAsIs
  <2>3. CASE j = i /\ Sole(r, i)
    <3>1. pc[q][j] \notin Owning /\ (Judge.recovers => pc[q][j] = "idle")
      BY <1>1, <2>3 DEF Sole
    <3> QED BY <1>0, <2>1, <3>1, SetupStays DEF ClaimOK, Owning
  <2> QED BY <2>2, <2>3 DEF Local, Owed
<1>2. ClaimsOK'
  BY <1>0, <1>1, SetupStays DEF ClaimsOK, Owed
<1>3. OneOwner'
  <2> SUFFICES ASSUME NEW p \in Runs, NEW q \in Runs, NEW j \in Items,
                      pc'[p][j] \in Owning, pc'[q][j] \in Owning
               PROVE  p = q
    BY <1>0, SetupStays DEF OneOwner, Owning
  <2>1. CASE j # i \/ (p # r /\ q # r)
    BY <2>1 DEF Local, IInv, OneOwner
  <2>2. CASE j = i /\ p = r /\ q # r
    BY <2>2 DEF Owed, Sole, Local
  <2>3. CASE j = i /\ q = r /\ p # r
    BY <2>3 DEF Owed, Sole, Local
  <2> QED BY <2>1, <2>2, <2>3
<1> QED BY <1>2, <1>3

LEMMA LocalStepsKeepRows ==
  ASSUME IInv, TypesOK', NEW r \in Runs, NEW i \in Items, Local(r, i), Owed(r, i)
  PROVE  FileOK' /\ MemoryOK'
<1>0. /\ setup' = setup /\ saved' = saved /\ checkpoint' = checkpoint
  BY DEF Local, runVars
<1>1. ASSUME NEW j \in Items PROVE KeepsRows(j)
  BY <1>1 DEF Local, Owed, KeepsRows
<1>2. ASSUME NEW j \in Items PROVE RowOK(j, checkpoint[j])'
  <2>1. RowOK(j, checkpoint[j]) /\ checkpoint[j] \in Row
    BY DEF IInv, FileOK, TypesOK
  <2> QED BY <1>0, <1>1, <2>1, BackedRowsStay, SetupStays DEF RowOK
<1>3. ASSUME NEW q \in Runs, NEW j \in Items PROVE RowOK(j, saved[q][j])'
  <2>1. RowOK(j, saved[q][j]) /\ saved[q][j] \in Row
    BY DEF IInv, MemoryOK, TypesOK
  <2> QED BY <1>0, <1>1, <2>1, BackedRowsStay, SetupStays DEF RowOK
<1>4. ASSUME NEW q \in Runs, NEW j \in Items, pc'[q][j] = "graded"
      PROVE  RowOK(j, result[q][j])' /\ result'[q][j] # NoRow
  <2>1. CASE q = r /\ j = i
    BY <1>4, <2>1 DEF Owed
  <2>2. CASE q # r \/ j # i
    <3>1. result'[q][j] = result[q][j] /\ pc[q][j] = "graded"
      BY <1>4, <2>2 DEF Local
    <3>2. RowOK(j, result[q][j]) /\ result[q][j] \in Row /\ result[q][j] # NoRow
      BY <3>1 DEF IInv, MemoryOK, TypesOK
    <3> QED BY <1>0, <1>1, <3>1, <3>2, BackedRowsStay, SetupStays DEF RowOK
  <2> QED BY <2>1, <2>2
<1> QED BY <1>0, <1>2, <1>3, <1>4, SetupStays DEF FileOK, MemoryOK

LEMMA LocalStepsKeepProcesses ==
  ASSUME IInv, NEW r \in Runs, NEW i \in Items, Local(r, i), Owed(r, i), Grading(r)
  PROVE  ProcessesOK' /\ SavedOK' /\ ManifestCoversInputs'
<1>0. /\ setup' = setup /\ saved' = saved /\ checkpoint' = checkpoint /\ phase' = phase
      /\ window' = window /\ manifest' = manifest
  BY DEF Local, runVars
<1>1. ProcessesOK'
  <2>1. ASSUME NEW q \in Runs, ~Grading(q), NEW j \in Items PROVE pc'[q][j] = "idle"
    BY <2>1 DEF IInv, ProcessesOK, Local
  <2> QED BY <1>0, <2>1, SetupStays DEF IInv, ProcessesOK, Up, Grading
<1>2. SavedOK'
  <2>1. ASSUME NEW q \in Runs, NEW j \in Items
        PROVE  saved[q][j] = NoRow \/ pc'[q][j] = "done" \/ (pc'[q][j] = "idle" /\ j \notin window[q])
    <3>1. CASE q = r /\ j = i
      BY <3>1 DEF IInv, SavedOK, Owed
    <3>2. CASE q # r \/ j # i
      BY <3>2 DEF IInv, SavedOK, Local
    <3> QED BY <3>1, <3>2
  <2> QED BY <1>0, <2>1, SetupStays DEF IInv, SavedOK, Up, Grading
<1>3. ManifestCoversInputs'
  BY <1>0, SetupStays DEF IInv, ManifestCoversInputs
<1> QED BY <1>1, <1>2, <1>3

LEMMA LocalStepsKeepAll ==
  ASSUME IInv, TypesOK', NEW r \in Runs, NEW i \in Items, Local(r, i), Owed(r, i), Grading(r)
  PROVE  IInv'
BY LocalStepsKeepRecords, LocalStepsKeepClaims, LocalStepsKeepRows, LocalStepsKeepProcesses DEF IInv

-----------------------------------------------------------------------------
(* The steps of _claim_api_dispatch.                                        *)

LEMMA OwnersAreSole ==
  ASSUME IInv, NEW r \in Runs, NEW i \in Items, Grading(r),
         pc[r][i] \in Owning \/ rec[i].status = "ABSENT" \/ Alone
  PROVE  Sole(r, i)
<1> SUFFICES ASSUME NEW q \in Runs, q # r
             PROVE  pc[q][i] \notin Owning /\ (Judge.recovers => pc[q][i] = "idle")
  BY DEF Sole
<1>0. ProfileOK
  BY ProfileIsOK DEF IInv, TypesOK
<1>1. Alone => pc[q][i] = "idle"
  BY DEF IInv, ProcessesOK, Up, Grading
<1>2. CASE pc[r][i] \in Owning \/ Alone
  BY <1>0, <1>1, <1>2 DEF IInv, OneOwner, ProfileOK, Owning
<1>3. CASE rec[i].status = "ABSENT"
  <2>1. ClaimOK(q, i)
    BY DEF IInv, ClaimsOK
  <2>2. pc[q][i] \notin Owning
    BY <1>3, <2>1 DEF ClaimOK, Owning, Retryable, Retryable504, Retryable502, RetryableDns,
       ReturnsAsIs, Unknown, HttpError, NoDns, Rejected, Validated
  <2> QED BY <1>0, <1>1, <2>2 DEF ProfileOK
<1> QED BY <1>2, <1>3

LEMMA FreshRecordIs ==
  ASSUME NEW n \in Nat, NEW f \in [Kinds -> Nat]
  PROVE  LET x == FreshRecord(n, f)
         IN  /\ x \in Record
             /\ x.status = Unknown /\ x.attempt = n /\ x.failures = f
             /\ x.responseId = FALSE /\ x.accepted = FALSE /\ x.sound = FALSE
BY DEF FreshRecord, Blank, Record, Kinds, Statuses

LEMMA BlankIs ==
  /\ Blank \in Record /\ [Blank EXCEPT !.status = "EMPTY"] \in Record
  /\ Blank.status = "ABSENT" /\ Blank.attempt = 0 /\ Blank.responseId = FALSE
  /\ Blank.accepted = FALSE /\ Blank.failures = [k \in Kinds |-> 0]
  /\ Blank.failures \in [Kinds -> Nat]
BY DEF Blank, Record, Kinds, Statuses

LEMMA CreateRecordKeeps ==
  ASSUME IInv, setup' = setup, UNCHANGED runVars, NEW r \in Runs, NEW i \in Items, Grading(r),
         CreateRecord(r, i)
  PROVE  IInv'
<1>1. TypesOK' /\ Local(r, i)
  BY BlankIs, SetupStays DEF IInv, TypesOK, CreateRecord, SecureWrite, Goto, Local, runVars, Labels
<1>2. /\ rec'[i] = [Blank EXCEPT !.status = "EMPTY"] /\ rec[i].status = "ABSENT"
      /\ armed' = armed /\ sends' = sends /\ pc[r][i] = "begun" /\ pc'[r][i] = "created"
  BY DEF IInv, TypesOK, CreateRecord, SecureWrite, Goto
<1>3. /\ rec'[i].status = "EMPTY" /\ rec'[i].attempt = 0 /\ rec'[i].responseId = FALSE
      /\ rec'[i].accepted = FALSE
  BY <1>2, BlankIs DEF Record
<1>4. RecordOK(rec[i])'
  BY <1>3, BlankIs DEF RecordOK, Unclaimed
<1>5. Resends \/ LedgerOK(i)'
  <2>1. rec[i].attempt = 0
    BY <1>2 DEF IInv, RecordsOK, RecordOK, Unclaimed
  <2> QED BY <1>2, <1>3, <2>1 DEF IInv, RecordsOK, LedgerOK, CountsSends, Unknown, Validated, Rejected, Mended
<1>6. ClaimOK(r, i)' /\ KeepsRows(i) /\ Sole(r, i)
  BY <1>2, <1>3, OwnersAreSole DEF ClaimOK, KeepsRows, Validated, Mended, Placeholder
<1> QED BY <1>1, <1>2, <1>4, <1>5, <1>6, LocalStepsKeepAll DEF Owed

LEMMA FillRecordKeeps ==
  ASSUME IInv, setup' = setup, UNCHANGED runVars, NEW r \in Runs, NEW i \in Items, Grading(r),
         FillRecord(r, i)
  PROVE  IInv'
<1>0. /\ FreshRecord(1, Blank.failures) \in Record
      /\ LET x == FreshRecord(1, Blank.failures)
         IN  /\ x.status = Unknown /\ x.attempt = 1 /\ x.failures = [k \in Kinds |-> 0]
             /\ x.responseId = FALSE /\ x.accepted = FALSE /\ x.sound = FALSE
  <2>1. 1 \in Nat /\ Blank.failures \in [Kinds -> Nat] /\ Blank.failures = [k \in Kinds |-> 0]
    BY BlankIs
  <2> QED BY <2>1, FreshRecordIs
<1>1. TypesOK' /\ Local(r, i)
  BY <1>0, SetupStays DEF IInv, TypesOK, FillRecord, SecureWrite, Goto, Local, runVars, Labels
<1>2. /\ rec'[i] = FreshRecord(1, Blank.failures)
      /\ armed'[i] = TRUE /\ sends' = sends /\ pc[r][i] = "created" /\ pc'[r][i] = "claimed"
  BY DEF IInv, TypesOK, FillRecord, SecureWrite, Goto
<1>3. /\ rec'[i].status = Unknown /\ rec'[i].attempt = 1 /\ rec'[i].responseId = FALSE
      /\ rec'[i].accepted = FALSE /\ rec'[i].sound = FALSE /\ rec'[i].failures = [k \in Kinds |-> 0]
  BY <1>0, <1>2
<1>4. rec[i].status = "EMPTY"
  BY <1>2 DEF IInv, ClaimsOK, ClaimOK
<1>5. RecordOK(rec[i])'
  BY <1>3 DEF RecordOK, WithinRetries, Prior, Kinds, Unclaimed, Unknown, NoDns, HttpError, Placeholder,
     Validated
<1>6. Resends \/ LedgerOK(i)'
  <2>1. rec[i].attempt = 0
    BY <1>4 DEF IInv, RecordsOK, RecordOK, Unclaimed
  <2>2. Resends \/ sends[i] = 0
    BY <1>4, <2>1 DEF IInv, RecordsOK, LedgerOK, CountsSends, Unknown, TypesOK
  <2> QED BY <1>2, <1>3, <2>2 DEF LedgerOK, CountsSends, Unknown, Validated, Rejected, Mended
<1>7. ClaimOK(r, i)' /\ KeepsRows(i) /\ Sole(r, i)
  BY <1>2, <1>3, <1>4, OwnersAreSole DEF ClaimOK, KeepsRows, Owning, Validated, Mended, Placeholder
<1> QED BY <1>1, <1>2, <1>5, <1>6, <1>7, LocalStepsKeepAll DEF Owed

LEMMA ReadRecordKeeps ==
  ASSUME IInv, setup' = setup, UNCHANGED runVars, NEW r \in Runs, NEW i \in Items, Grading(r),
         ReadRecord(r, i)
  PROVE  IInv'
<1>0. ProfileOK
  BY ProfileIsOK DEF IInv, TypesOK
<1>1. TypesOK' /\ Local(r, i)
  <2>1. PICK label \in {"claimed", "rearming", "refused"} : Goto(r, i, label)
    BY DEF ReadRecord
  <2>2. plan' \in [Runs -> [Items -> Record]]
        /\ \A q \in Runs, j \in Items : (q # r \/ j # i) => plan'[q][j] = plan[q][j]
    <3>1. CASE UNCHANGED plan
      BY <3>1 DEF IInv, TypesOK
    <3>2. CASE plan' = [plan EXCEPT ![r][i] = rec[i]]
      BY <3>2 DEF IInv, TypesOK
    <3> QED BY <3>1, <3>2 DEF ReadRecord
  <2>3. pc' \in [Runs -> [Items -> Labels]]
        /\ \A q \in Runs, j \in Items : (q # r \/ j # i) => pc'[q][j] = pc[q][j]
    BY <2>1 DEF Goto, Labels, IInv, TypesOK
  <2> QED BY <2>2, <2>3, SetupStays DEF ReadRecord, IInv, TypesOK, Local, runVars
<1>2. rec' = rec /\ armed' = armed /\ sends' = sends /\ pc[r][i] = "begun"
  BY DEF ReadRecord
<1>3. \/ pc'[r][i] = "claimed" /\ ReturnsAsIs(rec[i])
      \/ pc'[r][i] = "rearming" /\ Retryable(rec[i]) /\ plan'[r][i] = rec[i]
      \/ pc'[r][i] = "refused" /\ ~ReturnsAsIs(rec[i])
  BY DEF IInv, TypesOK, ReadRecord, Goto
<1>4. RecordOK(rec[i])' /\ (Resends \/ LedgerOK(i)')
  BY <1>2, SetupStays DEF IInv, RecordsOK, RecordOK, WithinRetries, LedgerOK, CountsSends
<1>5. ClaimOK(r, i)'
  BY <1>2, <1>3, SetupStays DEF ClaimOK, Retryable, Retryable504, Retryable502, RetryableDns, ReturnsAsIs
<1>6. KeepsRows(i)
  BY <1>2 DEF KeepsRows
<1>7. Sole(r, i) \/ pc'[r][i] \notin Owning
  <2>1. Alone \/ (~Retryable(rec[i]) /\ ~ReturnsAsIs(rec[i]))
    BY <1>0 DEF ProfileOK, Retries, Retryable, ReturnsAsIs
  <2> QED BY <1>3, <2>1, OwnersAreSole DEF Owning
<1> QED BY <1>1, <1>2, <1>3, <1>4, <1>5, <1>6, <1>7, LocalStepsKeepAll DEF Owed

LEMMA RearmRecordKeeps ==
  ASSUME IInv, setup' = setup, UNCHANGED runVars, NEW r \in Runs, NEW i \in Items, Grading(r),
         RearmRecord(r, i)
  PROVE  IInv'
<1>0. ProfileOK /\ rec[i] \in Record
  BY ProfileIsOK DEF IInv, TypesOK
<1>1. pc[r][i] = "rearming" /\ plan[r][i] = rec[i] /\ Retryable(rec[i])
  BY DEF RearmRecord, IInv, ClaimsOK, ClaimOK
<1> DEFINE x == FreshRecord(rec[i].attempt + 1, rec[i].failures)
<1>2. /\ x \in Record /\ x.status = Unknown /\ x.attempt = rec[i].attempt + 1
      /\ x.failures = rec[i].failures
      /\ x.responseId = FALSE /\ x.accepted = FALSE /\ x.sound = FALSE
  <2>1. rec[i].attempt + 1 \in Nat /\ rec[i].failures \in [Kinds -> Nat]
    BY <1>0 DEF Record
  <2> QED BY <2>1, FreshRecordIs
<1>3. /\ rec' = [rec EXCEPT ![i] = x] /\ armed' = [armed EXCEPT ![i] = TRUE] /\ sends' = sends
      /\ pc' = [pc EXCEPT ![r][i] = "claimed"] /\ UNCHANGED <<plan, result>>
  BY <1>1 DEF RearmRecord, SecureWrite, Goto
<1> HIDE DEF x
<1>4. TypesOK' /\ Local(r, i)
  BY <1>2, <1>3, SetupStays DEF IInv, TypesOK, Local, runVars, Labels
<1>5. rec'[i] = x /\ armed'[i] = TRUE /\ pc'[r][i] = "claimed"
  BY <1>3 DEF IInv, TypesOK
<1>6. rec[i].status \in {HttpError, NoDns}
  BY <1>1 DEF Retryable, Retryable504, Retryable502, RetryableDns
<1>7. Resends \/ sends[i] = rec[i].attempt
  <2>1. rec[i].status \notin Unclaimed \cup {Unknown}
    BY <1>6 DEF Unclaimed, Unknown, HttpError, NoDns
  <2>2. sends[i] \in Nat
    BY DEF IInv, TypesOK
  <2> QED BY <2>1, <2>2 DEF IInv, RecordsOK, LedgerOK, CountsSends
<1>8. RecordOK(rec[i])'
  <2>1. WithinRetries(rec[i])
    BY <1>6 DEF IInv, RecordsOK, RecordOK, Unclaimed, HttpError, NoDns, Placeholder
  <2> DEFINE a == rec[i].failures["504"]
             b == rec[i].failures["502"]
             c == rec[i].failures["dns"]
  <2>3. a \in Nat /\ b \in Nat /\ c \in Nat /\ rec[i].attempt \in Nat
    BY <1>0 DEF Record, Kinds
  <2>4. Prior(x, "504") = a /\ Prior(x, "502") = b /\ Prior(x, "dns") = c
    BY <1>2, <2>3 DEF Prior, HttpError, NoDns, Unknown
  <2>5. \/ /\ rec[i].status = HttpError /\ rec[i].http = 504 /\ a < 3
           /\ Prior(rec[i], "504") = a - 1 /\ Prior(rec[i], "502") = b /\ Prior(rec[i], "dns") = c
        \/ /\ rec[i].status = HttpError /\ rec[i].http = 502 /\ b < 2 /\ Judge.retry502
           /\ Prior(rec[i], "504") = a /\ Prior(rec[i], "502") = b - 1 /\ Prior(rec[i], "dns") = c
        \/ /\ rec[i].status = NoDns /\ c < 3
           /\ Prior(rec[i], "504") = a /\ Prior(rec[i], "502") = b /\ Prior(rec[i], "dns") = c - 1
    BY <1>0, <1>1, <2>3 DEF ProfileOK, Prior, Retryable, Retryable504, Retryable502, RetryableDns,
       HttpError, NoDns
  <2> HIDE DEF a, b, c
  <2>6. Retries
    BY <1>1 DEF Retries, Retryable
  <2>2. WithinRetries(x)
    BY <1>2, <2>1, <2>3, <2>4, <2>5, <2>6 DEF WithinRetries
  <2>7. WithinRetries(rec[i])'
    BY <1>5, <2>2, SetupStays DEF WithinRetries
  <2> QED BY <1>2, <1>5, <2>7 DEF RecordOK, Unknown, Placeholder, Unclaimed
<1>9. Resends \/ LedgerOK(i)'
  BY <1>2, <1>3, <1>5, <1>7 DEF LedgerOK, CountsSends, Unclaimed, Unknown, Validated, Rejected, Mended
<1>10. ClaimOK(r, i)' /\ KeepsRows(i) /\ Sole(r, i)
  BY <1>1, <1>2, <1>5, <1>6, OwnersAreSole DEF ClaimOK, KeepsRows, Owning, HttpError, NoDns,
     Validated, Mended, Placeholder
<1> QED BY <1>1, <1>4, <1>5, <1>8, <1>9, <1>10, LocalStepsKeepAll DEF Owed

-----------------------------------------------------------------------------
(* The steps of grade() and of _run_responses_api_structured.               *)

\* An answer written over a claimed record leaves what came before it.
LEMMA RewritesKeepRecords ==
  ASSUME NEW x \in Record, NEW y \in Record, RecordOK(x),
         x.status \in {Unknown, Rejected, Validated},
         y.status \notin Unclaimed \cup {Placeholder}, y.attempt = x.attempt,
         Prior(y, "504") = Prior(x, "504"), Prior(y, "502") = Prior(x, "502"),
         Prior(y, "dns") = Prior(x, "dns"),
         y.sound /\ Judge.checksAttempts => y.attempt \in 1..3,
         y.accepted => y.status = Validated /\ y.sound
  PROVE  RecordOK(y)
BY DEF RecordOK, WithinRetries, Unclaimed, Unknown, Rejected, Validated, Placeholder

LEMMA RecordOKNext ==
  ASSUME setup' = setup, NEW i \in Items, RecordOK(rec'[i])
  PROVE  RecordOK(rec[i])'
BY SetupStays DEF RecordOK, WithinRetries, Prior

LEMMA RenormalizeKeeps ==
  ASSUME IInv, setup' = setup, UNCHANGED runVars, NEW r \in Runs, NEW i \in Items, Grading(r),
         NEW mends \in BOOLEAN, Renormalize(r, i, mends)
  PROVE  IInv'
<1>0. rec[i] \in Record /\ RecordOK(rec[i]) /\ Sole(r, i)
  BY OwnersAreSole DEF IInv, TypesOK, RecordsOK, Renormalize, Owning
<1>1. CASE mends
  <2> DEFINE y == [rec[i] EXCEPT !.status = Mended]
             row == [kind |-> "mended", attempt |-> rec[i].attempt]
  <2>1. /\ rec' = [rec EXCEPT ![i] = y] /\ UNCHANGED <<armed, sends, plan>>
        /\ pc' = [pc EXCEPT ![r][i] = "graded"] /\ result' = [result EXCEPT ![r][i] = row]
        /\ pc[r][i] = "claimed" /\ Judge.renormalizes /\ rec[i].status = Rejected
    BY <1>1 DEF Renormalize, Renormalizing, SecureWrite, Return, Goto
  <2>2. /\ y \in Record /\ y.status = Mended /\ y.attempt = rec[i].attempt
        /\ y.failures = rec[i].failures /\ y.responseId = rec[i].responseId
        /\ y.accepted = rec[i].accepted /\ y.sound = rec[i].sound
    BY <1>0 DEF Record, Statuses
  <2>3. row \in Row /\ row.kind = "mended" /\ row.attempt = rec[i].attempt
    BY <1>0 DEF Row, Record
  <2> HIDE DEF y, row
  <2>4. TypesOK' /\ Local(r, i)
    BY <2>1, <2>2, <2>3, SetupStays DEF IInv, TypesOK, Local, runVars, Labels
  <2>5. rec'[i] = y /\ pc'[r][i] = "graded" /\ result'[r][i] = row
    BY <2>1 DEF IInv, TypesOK
  <2>6. RecordOK(rec[i])'
    <3>1. \A k \in Kinds : Prior(y, k) = Prior(rec[i], k)
      BY <2>1, <2>2 DEF Prior, Rejected, Mended, NoDns, HttpError
    <3>2. RecordOK(y)
      BY <1>0, <2>1, <2>2, <3>1, RewritesKeepRecords
         DEF RecordOK, Kinds, Unclaimed, Mended, Placeholder, Rejected, Validated
    <3> QED BY <2>5, <3>2, RecordOKNext
  <2>7. Resends \/ LedgerOK(i)'
    BY <2>1, <2>2, <2>5 DEF IInv, RecordsOK, LedgerOK, CountsSends, Unclaimed, Unknown, Rejected, Mended
  <2>8. ClaimOK(r, i)' /\ KeepsRows(i)
    BY <2>1, <2>5 DEF ClaimOK, KeepsRows, Rejected, Validated, Mended, Placeholder
  <2>9. RowOK(i, result[r][i])' /\ result'[r][i] # NoRow
    BY <2>1, <2>2, <2>3, <2>5, SetupStays DEF RowOK, NoRow
  <2> QED BY <1>0, <2>1, <2>4, <2>5, <2>6, <2>7, <2>8, <2>9, LocalStepsKeepAll DEF Owed
<1>2. CASE ~mends
  <2>1. /\ pc' = [pc EXCEPT ![r][i] = "failed"] /\ UNCHANGED <<rec, armed, sends, plan, result>>
        /\ pc[r][i] = "claimed"
    BY <1>2 DEF Renormalize, Fail, Goto
  <2>2. TypesOK' /\ Local(r, i) /\ pc'[r][i] = "failed"
    BY <2>1, SetupStays DEF IInv, TypesOK, Local, runVars, Labels
  <2>3. RecordOK(rec[i])' /\ (Resends \/ LedgerOK(i)')
    BY <1>0, <2>1, RecordOKNext DEF IInv, RecordsOK, LedgerOK, CountsSends
  <2>4. ClaimOK(r, i)' /\ KeepsRows(i)
    BY <2>1, <2>2 DEF ClaimOK, KeepsRows
  <2> QED BY <1>0, <2>1, <2>2, <2>3, <2>4, LocalStepsKeepAll DEF Owed
<1> QED BY <1>1, <1>2

LEMMA RecoverValidatedKeeps ==
  ASSUME IInv, setup' = setup, UNCHANGED runVars, NEW r \in Runs, NEW i \in Items, Grading(r),
         RecoverValidated(r, i)
  PROVE  IInv'
<1>0. rec[i] \in Record /\ RecordOK(rec[i]) /\ Sole(r, i)
  BY OwnersAreSole DEF IInv, TypesOK, RecordsOK, RecoverValidated, Owning
<1>1. CASE rec[i].accepted \/ rec[i].sound
  <2> DEFINE y == [rec[i] EXCEPT !.accepted = TRUE]
             row == [kind |-> "judged", attempt |-> rec[i].attempt]
  <2>1. /\ rec' = [rec EXCEPT ![i] = y] /\ UNCHANGED <<armed, sends, plan>>
        /\ pc' = [pc EXCEPT ![r][i] = "graded"] /\ result' = [result EXCEPT ![r][i] = row]
        /\ pc[r][i] = "claimed" /\ rec[i].status = Validated
    BY <1>1 DEF RecoverValidated, Recovering, SecureWrite, Return, Goto
  <2>2. /\ y \in Record /\ y.status = Validated /\ y.attempt = rec[i].attempt
        /\ y.failures = rec[i].failures /\ y.responseId = rec[i].responseId
        /\ y.accepted /\ y.sound /\ rec[i].sound
    BY <1>0, <1>1, <2>1 DEF Record, RecordOK
  <2>3. row \in Row /\ row.kind = "judged" /\ row.attempt = rec[i].attempt
    BY <1>0 DEF Row, Record
  <2> HIDE DEF y, row
  <2>4. TypesOK' /\ Local(r, i)
    BY <2>1, <2>2, <2>3, SetupStays DEF IInv, TypesOK, Local, runVars, Labels
  <2>5. rec'[i] = y /\ pc'[r][i] = "graded" /\ result'[r][i] = row
    BY <2>1 DEF IInv, TypesOK
  <2>6. RecordOK(rec[i])'
    <3>1. \A k \in Kinds : Prior(y, k) = Prior(rec[i], k)
      BY <2>1, <2>2 DEF Prior, Validated, NoDns, HttpError
    <3>2. RecordOK(y)
      BY <1>0, <2>1, <2>2, <3>1, RewritesKeepRecords
         DEF RecordOK, Kinds, Unclaimed, Placeholder, Validated
    <3> QED BY <2>5, <3>2, RecordOKNext
  <2>7. Resends \/ LedgerOK(i)'
    BY <2>1, <2>2, <2>5 DEF IInv, RecordsOK, LedgerOK, CountsSends, Unclaimed, Unknown, Validated
  <2>8. ClaimOK(r, i)' /\ KeepsRows(i)
    BY <2>1, <2>2, <2>5 DEF ClaimOK, KeepsRows
  <2>9. RowOK(i, result[r][i])' /\ result'[r][i] # NoRow
    BY <2>1, <2>2, <2>3, <2>5, SetupStays DEF RowOK, NoRow
  <2> QED BY <1>0, <2>1, <2>4, <2>5, <2>6, <2>7, <2>8, <2>9, LocalStepsKeepAll DEF Owed
<1>2. CASE ~(rec[i].accepted \/ rec[i].sound)
  <2>1. /\ pc' = [pc EXCEPT ![r][i] = "failed"] /\ UNCHANGED <<rec, armed, sends, plan, result>>
        /\ pc[r][i] = "claimed"
    BY <1>2 DEF RecoverValidated, Fail, Goto
  <2>2. TypesOK' /\ Local(r, i) /\ pc'[r][i] = "failed"
    BY <2>1, SetupStays DEF IInv, TypesOK, Local, runVars, Labels
  <2>3. RecordOK(rec[i])' /\ (Resends \/ LedgerOK(i)')
    BY <1>0, <2>1, RecordOKNext DEF IInv, RecordsOK, LedgerOK, CountsSends
  <2>4. ClaimOK(r, i)' /\ KeepsRows(i)
    BY <2>1, <2>2 DEF ClaimOK, KeepsRows
  <2> QED BY <1>0, <2>1, <2>2, <2>3, <2>4, LocalStepsKeepAll DEF Owed
<1> QED BY <1>1, <1>2

LEMMA SendRequestKeeps ==
  ASSUME IInv, setup' = setup, UNCHANGED runVars, NEW r \in Runs, NEW i \in Items, Grading(r),
         SendRequest(r, i)
  PROVE  IInv'
<1>0. rec[i] \in Record /\ RecordOK(rec[i]) /\ Sole(r, i) /\ ClaimOK(r, i)
  BY OwnersAreSole DEF IInv, TypesOK, RecordsOK, ClaimsOK, SendRequest, Owning
<1>1. TypesOK' /\ Local(r, i)
  <2>1. sends' \in [Items -> Nat] /\ armed' \in [Items -> BOOLEAN]
    BY DEF SendRequest, IInv, TypesOK
  <2>2. pc' \in [Runs -> [Items -> Labels]]
    BY DEF SendRequest, Goto, IInv, TypesOK, Labels
  <2> QED BY <2>1, <2>2, SetupStays DEF SendRequest, Goto, IInv, TypesOK, Local, runVars
<1>2. /\ rec' = rec /\ armed'[i] = FALSE /\ sends'[i] = sends[i] + 1 /\ sends[i] \in Nat
      /\ pc[r][i] = "claimed" /\ pc'[r][i] = "sent"
  BY DEF SendRequest, Goto, IInv, TypesOK
<1>3. \/ rec[i].status = Unknown /\ armed[i] /\ Judge.renormalizes \in BOOLEAN
      \/ Resends /\ rec[i].status = Rejected
  BY <1>0, <1>2, ProfileIsOK DEF ClaimOK, ReturnsAsIs, SendRequest, Renormalizing, Recovering, Resends,
     ProfileOK, IInv, TypesOK
<1>4. RecordOK(rec[i])'
  BY <1>0, <1>2, RecordOKNext
<1>5. Resends \/ LedgerOK(i)'
  BY <1>2, <1>3 DEF IInv, RecordsOK, LedgerOK, CountsSends, Unclaimed, Unknown
<1>6. ClaimOK(r, i)' /\ KeepsRows(i)
  BY <1>2, <1>3, SetupStays DEF ClaimOK, KeepsRows
<1> QED BY <1>0, <1>1, <1>2, <1>4, <1>5, <1>6, LocalStepsKeepAll DEF Owed

\* Where a request is out: never sent before, or a rejected one sent again.
LEMMA SentRecords ==
  ASSUME IInv, NEW r \in Runs, NEW i \in Items, Grading(r), pc[r][i] = "sent"
  PROVE  /\ rec[i] \in Record /\ RecordOK(rec[i]) /\ Sole(r, i)
         /\ rec[i].status \in {Unknown, Rejected} /\ ~rec[i].accepted
         /\ Resends \/ /\ rec[i].status = Unknown /\ ~armed[i] /\ ~rec[i].responseId
                       /\ sends[i] = rec[i].attempt
<1>1. rec[i] \in Record /\ RecordOK(rec[i]) /\ Sole(r, i) /\ sends[i] \in Nat
  BY OwnersAreSole DEF IInv, TypesOK, RecordsOK, Owning
<1>2. (rec[i].status = Unknown /\ ~armed[i]) \/ (Resends /\ rec[i].status = Rejected)
  BY DEF IInv, ClaimsOK, ClaimOK
<1>3. ~rec[i].accepted
  BY <1>1, <1>2 DEF RecordOK, Unknown, Rejected, Validated
<1>4. Resends \/ LedgerOK(i)
  BY DEF IInv, RecordsOK
<1> QED BY <1>1, <1>2, <1>3, <1>4 DEF LedgerOK, CountsSends, Unclaimed, Unknown, Unvalidated, Validated,
     Rejected, Mended, Placeholder

\* An outcome that ends the attempt is written and the worker gives up.
LEMMA EndedAttemptsKeep ==
  ASSUME IInv, setup' = setup, UNCHANGED runVars, NEW r \in Runs, NEW i \in Items, Grading(r),
         pc[r][i] = "sent", NEW y \in Record,
         SecureWrite(i, y), Fail(r, i), UNCHANGED <<armed, sends, plan, result>>,
         y.status \in {HttpError, NoDns, Transport, Unparsed, Unvalidated},
         y.attempt = rec[i].attempt, ~y.accepted, y.sound => rec[i].sound,
         y.responseId => y.status = Unvalidated \/ rec[i].responseId,
         \A k \in Kinds : Prior(y, k) = Prior(rec[i], k)
  PROVE  IInv'
<1>0. /\ rec[i] \in Record /\ RecordOK(rec[i]) /\ Sole(r, i)
      /\ rec[i].status \in {Unknown, Rejected}
      /\ Resends \/ /\ rec[i].status = Unknown /\ ~armed[i] /\ ~rec[i].responseId
                    /\ sends[i] = rec[i].attempt
  BY SentRecords
<1>1. rec' = [rec EXCEPT ![i] = y] /\ pc' = [pc EXCEPT ![r][i] = "failed"]
  BY DEF SecureWrite, Fail, Goto
<1>2. TypesOK' /\ Local(r, i)
  BY <1>1, SetupStays DEF IInv, TypesOK, Local, runVars, Labels
<1>3. rec'[i] = y /\ armed'[i] = armed[i] /\ sends'[i] = sends[i] /\ pc'[r][i] = "failed"
  BY <1>1 DEF IInv, TypesOK
<1>4. RecordOK(rec[i])'
  <2>1. y.status \notin Unclaimed \cup {Placeholder}
    BY DEF Unclaimed, Placeholder, HttpError, NoDns, Transport, Unparsed, Unvalidated
  <2>2. rec[i].status \notin Unclaimed
    BY <1>0 DEF Unclaimed, Unknown, Rejected
  <2>3. RecordOK(y)
    BY <1>0, <2>1, <2>2, RewritesKeepRecords DEF RecordOK, Kinds
  <2> QED BY <1>3, <2>3, RecordOKNext
<1>5. Resends \/ LedgerOK(i)'
  <2>1. y.status \notin Unclaimed \cup {Unknown, Validated, Rejected, Mended}
    BY DEF Unclaimed, Unknown, Validated, Rejected, Mended, HttpError, NoDns, Transport,
       Unparsed, Unvalidated
  <2>2. sends[i] \in Nat
    BY DEF IInv, TypesOK
  <2> QED BY <1>0, <1>3, <2>1, <2>2 DEF LedgerOK, CountsSends
<1>6. ClaimOK(r, i)' /\ KeepsRows(i)
  BY <1>0, <1>3 DEF ClaimOK, KeepsRows, Unknown, Rejected, Validated, Mended, Placeholder
<1> QED BY <1>0, <1>2, <1>3, <1>4, <1>5, <1>6, LocalStepsKeepAll DEF Owed

LEMMA CountedIs ==
  ASSUME NEW x \in Record, NEW kind \in Kinds
  PROVE  /\ Counted(x, kind) \in [Kinds -> Nat]
         /\ Counted(x, kind)[kind] = x.failures[kind] + 1
         /\ \A k \in Kinds : k # kind => Counted(x, kind)[k] = x.failures[k]
BY DEF Counted, Record

LEMMA HttpErrorAnswerKeeps ==
  ASSUME IInv, setup' = setup, UNCHANGED runVars, NEW r \in Runs, NEW i \in Items, Grading(r),
         HttpErrorAnswer(r, i)
  PROVE  IInv'
<1>1. PICK code \in {500, 502, 504}, named \in BOOLEAN :
        SecureWrite(i, [rec[i] EXCEPT
              !.status = HttpError, !.http = code, !.requestId = named,
              !.failures = CASE code = 504 -> Counted(rec[i], "504")
                             [] code = 502 -> Counted(rec[i], "502")
                             [] OTHER -> @])
  BY DEF HttpErrorAnswer
<1> DEFINE failures == CASE code = 504 -> Counted(rec[i], "504")
                         [] code = 502 -> Counted(rec[i], "502")
                         [] OTHER -> rec[i].failures
           y == [rec[i] EXCEPT !.status = HttpError, !.http = code, !.requestId = named,
                               !.failures = failures]
<1>2. pc[r][i] = "sent" /\ Fail(r, i) /\ UNCHANGED <<armed, sends, plan, result>>
  BY DEF HttpErrorAnswer
<1>3. rec[i] \in Record /\ rec[i].status \in {Unknown, Rejected} /\ ~rec[i].accepted
  BY <1>2, SentRecords
<1>4. /\ failures \in [Kinds -> Nat]
      /\ \A k \in Kinds : failures[k] = rec[i].failures[k] +
           (IF (k = "504" /\ code = 504) \/ (k = "502" /\ code = 502) THEN 1 ELSE 0)
  <2>0. rec[i].failures \in [Kinds -> Nat]
    BY <1>3 DEF Record
  <2>1. CASE code = 504
    <3>1. failures = Counted(rec[i], "504")
      BY <2>1
    <3> QED BY <1>3, <2>0, <2>1, <3>1, CountedIs DEF Kinds
  <2>2. CASE code = 502
    <3>1. failures = Counted(rec[i], "502")
      BY <2>2
    <3> QED BY <1>3, <2>0, <2>2, <3>1, CountedIs DEF Kinds
  <2>3. CASE code = 500
    <3>1. failures = rec[i].failures
      BY <2>3
    <3> QED BY <2>0, <2>3, <3>1
  <2> QED BY <2>1, <2>2, <2>3
<1> HIDE DEF failures
<1>5. /\ y \in Record /\ y.status = HttpError /\ y.http = code /\ y.attempt = rec[i].attempt
      /\ y.failures = failures /\ y.responseId = rec[i].responseId
      /\ y.accepted = rec[i].accepted /\ y.sound = rec[i].sound
  <2>1. y.status = HttpError /\ y.http = code /\ y.attempt = rec[i].attempt /\ y.failures = failures
    BY <1>3 DEF Record
  <2>2. y.responseId = rec[i].responseId /\ y.accepted = rec[i].accepted /\ y.sound = rec[i].sound
    BY <1>3 DEF Record
  <2>3. HttpError \in Statuses /\ code \in Nat /\ named \in BOOLEAN
    BY DEF Statuses
  <2>4. y \in Record
    <3>1. failures \in [Kinds -> Nat] /\ rec[i] \in Record
      BY <1>3, <1>4
    <3> QED BY ONLY <2>3, <3>1 DEF Record
  <2> QED BY <2>1, <2>2, <2>4
<1>6. SecureWrite(i, y)
  BY <1>1 DEF failures
<1> HIDE DEF y
<1>7. \A k \in Kinds : Prior(y, k) = Prior(rec[i], k)
  <2>1. ASSUME NEW k \in Kinds PROVE Prior(rec[i], k) = rec[i].failures[k] /\ rec[i].failures[k] \in Nat
    <3>1. rec[i].status # HttpError /\ rec[i].status # NoDns /\ rec[i].failures[k] \in Nat
      BY <1>3 DEF Unknown, Rejected, HttpError, NoDns, Record
    <3> QED BY <3>1 DEF Prior
  <2>2. ASSUME NEW k \in Kinds PROVE Prior(y, k) = failures[k] -
          (IF (k = "504" /\ code = 504) \/ (k = "502" /\ code = 502) THEN 1 ELSE 0)
    BY <1>5 DEF Prior, HttpError, NoDns
  <2> QED BY <1>4, <2>1, <2>2
<1> QED BY <1>2, <1>3, <1>5, <1>6, <1>7, EndedAttemptsKeep

LEMMA TransportErrorKeeps ==
  ASSUME IInv, setup' = setup, UNCHANGED runVars, NEW r \in Runs, NEW i \in Items, Grading(r),
         TransportError(r, i)
  PROVE  IInv'
<1>1. PICK status \in {NoDns, Transport} :
        SecureWrite(i, [rec[i] EXCEPT
              !.status = status,
              !.failures = IF status = NoDns THEN Counted(rec[i], "dns") ELSE @])
  BY DEF TransportError
<1> DEFINE failures == IF status = NoDns THEN Counted(rec[i], "dns") ELSE rec[i].failures
           y == [rec[i] EXCEPT !.status = status, !.failures = failures]
<1>2. pc[r][i] = "sent" /\ Fail(r, i) /\ UNCHANGED <<armed, sends, plan, result>>
  BY DEF TransportError
<1>3. rec[i] \in Record /\ rec[i].status \in {Unknown, Rejected} /\ ~rec[i].accepted
  BY <1>2, SentRecords
<1>4. /\ failures \in [Kinds -> Nat]
      /\ \A k \in Kinds : failures[k] = rec[i].failures[k] +
           (IF k = "dns" /\ status = NoDns THEN 1 ELSE 0)
  <2>1. CASE status = NoDns
    BY <1>3, <2>1, CountedIs DEF Kinds, Record
  <2>2. CASE status # NoDns
    BY <1>3, <2>2 DEF Kinds, Record
  <2> QED BY <2>1, <2>2
<1> HIDE DEF failures
<1>5. /\ y \in Record /\ y.status = status /\ y.attempt = rec[i].attempt
      /\ y.failures = failures /\ y.responseId = rec[i].responseId
      /\ y.accepted = rec[i].accepted /\ y.sound = rec[i].sound
  BY <1>3, <1>4 DEF Record, Statuses
<1>6. SecureWrite(i, y)
  BY <1>1 DEF failures
<1> HIDE DEF y
<1>7. \A k \in Kinds : Prior(y, k) = Prior(rec[i], k)
  BY <1>3, <1>4, <1>5 DEF Prior, Kinds, Unknown, Rejected, HttpError, NoDns, Transport, Record
<1> QED BY <1>2, <1>3, <1>5, <1>6, <1>7, EndedAttemptsKeep

LEMMA ReadTimeoutKeeps ==
  ASSUME IInv, setup' = setup, UNCHANGED runVars, NEW r \in Runs, NEW i \in Items, Grading(r),
         ReadTimeout(r, i)
  PROVE  IInv'
<1>1. /\ UNCHANGED <<rec, armed, sends, plan, result>> /\ pc[r][i] = "sent"
      /\ pc' = [pc EXCEPT ![r][i] = "failed"]
  BY DEF ReadTimeout, Fail, Goto
<1>2. TypesOK' /\ Local(r, i) /\ pc'[r][i] = "failed"
  BY <1>1, SetupStays DEF IInv, TypesOK, Local, runVars, Labels
<1>3. RecordOK(rec[i])' /\ (Resends \/ LedgerOK(i)')
  BY <1>1, RecordOKNext DEF IInv, RecordsOK, LedgerOK, CountsSends
<1>4. ClaimOK(r, i)' /\ KeepsRows(i)
  BY <1>1, <1>2 DEF ClaimOK, KeepsRows
<1> QED BY <1>1, <1>2, <1>3, <1>4, LocalStepsKeepAll DEF Owed, Owning

LEMMA ResponseReceivedKeeps ==
  ASSUME IInv, setup' = setup, UNCHANGED runVars, NEW r \in Runs, NEW i \in Items, Grading(r),
         ResponseReceived(r, i)
  PROVE  IInv'
<1>0. pc[r][i] = "sent" /\ UNCHANGED <<armed, sends, plan, result>>
  BY DEF ResponseReceived
<1>1. /\ rec[i] \in Record /\ RecordOK(rec[i]) /\ Sole(r, i)
      /\ rec[i].status \in {Unknown, Rejected} /\ ~rec[i].accepted
      /\ Resends \/ /\ rec[i].status = Unknown /\ ~armed[i] /\ ~rec[i].responseId
                    /\ sends[i] = rec[i].attempt
  BY <1>0, SentRecords
<1>2. ASSUME NEW status \in {Unparsed, Unvalidated}, Fail(r, i),
             SecureWrite(i, [rec[i] EXCEPT !.status = status,
                                           !.responseId = @ \/ status = Unvalidated])
      PROVE  IInv'
  <2> DEFINE named == rec[i].responseId \/ status = Unvalidated
             y == [rec[i] EXCEPT !.status = status, !.responseId = named]
  <2>1. SecureWrite(i, y)
    BY <1>2
  <2>2. named \in BOOLEAN /\ status \in Statuses
    BY <1>2 DEF Statuses
  <2> HIDE DEF named
  <2>3. y \in Record
    <3>1. rec[i] \in Record
      BY <1>1
    <3> QED BY ONLY <2>2, <3>1 DEF Record
  <2>4. /\ y.status = status /\ y.attempt = rec[i].attempt /\ y.failures = rec[i].failures
        /\ y.responseId = named /\ y.accepted = rec[i].accepted /\ y.sound = rec[i].sound
    <3>1. rec[i] \in Record
      BY <1>1
    <3> QED BY ONLY <3>1 DEF Record
  <2>5. y.responseId => y.status = Unvalidated \/ rec[i].responseId
    BY <2>4 DEF named
  <2>6. ~y.accepted /\ (y.sound => rec[i].sound)
    BY <1>1, <2>4
  <2>7. \A k \in Kinds : Prior(y, k) = Prior(rec[i], k)
    BY <1>1, <1>2, <2>4 DEF Prior, Unknown, Rejected, HttpError, NoDns, Unparsed, Unvalidated
  <2>8. y.status \in {HttpError, NoDns, Transport, Unparsed, Unvalidated}
    BY <1>2, <2>4
  <2> HIDE DEF y
  <2> QED BY <1>0, <1>2, <2>1, <2>3, <2>4, <2>5, <2>6, <2>7, <2>8, EndedAttemptsKeep
<1>3. ASSUME NEW good \in BOOLEAN, Goto(r, i, "answered"),
             SecureWrite(i, [rec[i] EXCEPT !.status = Validated, !.responseId = TRUE,
                    !.sound = good /\ (Judge.checksAttempts => rec[i].attempt \in 1..3)])
      PROVE  IInv'
  <2> DEFINE sound == good /\ (Judge.checksAttempts => rec[i].attempt \in 1..3)
             y == [rec[i] EXCEPT !.status = Validated, !.responseId = TRUE, !.sound = sound]
  <2>1. /\ rec' = [rec EXCEPT ![i] = y] /\ pc' = [pc EXCEPT ![r][i] = "answered"]
    BY <1>3 DEF SecureWrite, Goto
  <2>2. sound \in BOOLEAN /\ Validated \in Statuses
    BY DEF Statuses
  <2>3. sound /\ Judge.checksAttempts => rec[i].attempt \in 1..3
    OBVIOUS
  <2> HIDE DEF sound
  <2>4. y \in Record
    <3>1. rec[i] \in Record
      BY <1>1
    <3> QED BY ONLY <2>2, <3>1 DEF Record
  <2>5. /\ y.status = Validated /\ y.attempt = rec[i].attempt /\ y.failures = rec[i].failures
        /\ y.responseId = TRUE /\ y.accepted = rec[i].accepted /\ y.sound = sound
    <3>1. rec[i] \in Record
      BY <1>1
    <3> QED BY ONLY <3>1 DEF Record
  <2> HIDE DEF y
  <2>6. TypesOK' /\ Local(r, i)
    BY <1>0, <2>1, <2>4, SetupStays DEF IInv, TypesOK, Local, runVars, Labels
  <2>7. rec'[i] = y /\ armed' = armed /\ sends' = sends /\ pc'[r][i] = "answered"
    BY <1>0, <2>1 DEF IInv, TypesOK
  <2>8. RecordOK(rec[i])'
    <3>1. \A k \in Kinds : Prior(y, k) = Prior(rec[i], k)
      BY <1>1, <2>5 DEF Prior, Unknown, Rejected, HttpError, NoDns, Validated
    <3>2. y.status \notin Unclaimed \cup {Placeholder}
      BY <2>5 DEF Unclaimed, Placeholder, Validated
    <3>3. ~y.accepted /\ (y.sound /\ Judge.checksAttempts => y.attempt \in 1..3)
      BY <1>1, <2>3, <2>5
    <3>4. RecordOK(y)
      BY <1>1, <2>4, <2>5, <3>1, <3>2, <3>3, RewritesKeepRecords DEF Kinds
    <3> QED BY <2>7, <3>4, RecordOKNext
  <2>9. Resends \/ LedgerOK(i)'
    <3>1. Validated \notin Unclaimed \cup {Unknown}
      BY DEF Unclaimed, Validated, Unknown
    <3>2. sends[i] \in Nat
      BY DEF IInv, TypesOK
    <3> QED BY <1>1, <2>5, <2>7, <3>1, <3>2 DEF LedgerOK, CountsSends
  <2>10. ClaimOK(r, i)' /\ KeepsRows(i)
    BY <1>1, <2>5, <2>7 DEF ClaimOK, KeepsRows, Unknown, Rejected, Validated, Mended, Placeholder
  <2> QED BY <1>0, <1>1, <2>6, <2>7, <2>8, <2>9, <2>10, LocalStepsKeepAll DEF Owed
<1> QED BY <1>2, <1>3 DEF ResponseReceived

LEMMA LocalValidationKeeps ==
  ASSUME IInv, setup' = setup, UNCHANGED runVars, NEW r \in Runs, NEW i \in Items, Grading(r),
         LocalValidation(r, i)
  PROVE  IInv'
<1>0. rec[i] \in Record /\ RecordOK(rec[i]) /\ Sole(r, i) /\ ProfileOK
  BY OwnersAreSole, ProfileIsOK DEF IInv, TypesOK, RecordsOK, LocalValidation, Owning
<1>1. pc[r][i] = "answered" /\ rec[i].status = Validated /\ UNCHANGED <<armed, sends, plan>>
  BY DEF LocalValidation, IInv, ClaimsOK, ClaimOK
<1>2. CASE rec[i].sound
  <2> DEFINE y == [rec[i] EXCEPT !.accepted = Judge.storesAccepted]
             row == [kind |-> "judged", attempt |-> rec[i].attempt]
  <2>1. /\ rec' = [rec EXCEPT ![i] = y]
        /\ pc' = [pc EXCEPT ![r][i] = "graded"] /\ result' = [result EXCEPT ![r][i] = row]
    BY <1>2 DEF LocalValidation, SecureWrite, Return, Goto
  <2>2. Judge.storesAccepted \in BOOLEAN
    BY <1>0 DEF ProfileOK
  <2>3. y \in Record
    BY ONLY <1>0, <2>2 DEF Record
  <2>4. /\ y.status = rec[i].status /\ y.attempt = rec[i].attempt /\ y.failures = rec[i].failures
        /\ y.responseId = rec[i].responseId /\ y.accepted = Judge.storesAccepted
        /\ y.sound = rec[i].sound
    BY ONLY <1>0 DEF Record
  <2>5. row \in Row /\ row.kind = "judged" /\ row.attempt = rec[i].attempt
    BY <1>0 DEF Row, Record
  <2> HIDE DEF y, row
  <2>6. TypesOK' /\ Local(r, i)
    BY <1>1, <2>1, <2>3, <2>5, SetupStays DEF IInv, TypesOK, Local, runVars, Labels
  <2>7. rec'[i] = y /\ pc'[r][i] = "graded" /\ result'[r][i] = row
    BY <2>1 DEF IInv, TypesOK
  <2>8. RecordOK(rec[i])'
    <3>1. \A k \in Kinds : Prior(y, k) = Prior(rec[i], k)
      BY <1>1, <2>4 DEF Prior, Validated, NoDns, HttpError
    <3>2. y.status \notin Unclaimed \cup {Placeholder} /\ rec[i].status \notin Unclaimed
      BY <1>1, <2>4 DEF Unclaimed, Placeholder, Validated
    <3>3. RecordOK(y)
      BY <1>0, <1>1, <1>2, <2>3, <2>4, <3>1, <3>2, RewritesKeepRecords DEF RecordOK, Kinds
    <3> QED BY <2>7, <3>3, RecordOKNext
  <2>9. Resends \/ LedgerOK(i)'
    BY <1>1, <2>4, <2>7 DEF IInv, RecordsOK, LedgerOK, CountsSends
  <2>10. KeepsRows(i)
    BY <1>0, <1>2, <2>4, <2>7 DEF KeepsRows, ProfileOK
  <2>11. ClaimOK(r, i)'
    BY <2>7 DEF ClaimOK
  <2>12. RowOK(i, result[r][i])' /\ result'[r][i] # NoRow
    <3>1. rec'[i].status = Validated /\ rec'[i].sound /\ rec'[i].attempt = rec[i].attempt
      BY <1>1, <1>2, <2>4, <2>7
    <3>2. Runner.check = "dispatch" => rec'[i].accepted
      BY <1>0, <2>4, <2>7 DEF ProfileOK
    <3> QED BY <2>5, <2>7, <3>1, <3>2, SetupStays DEF RowOK, NoRow
  <2> QED BY <1>0, <1>1, <2>6, <2>7, <2>8, <2>9, <2>10, <2>11, <2>12, LocalStepsKeepAll DEF Owed
<1>3. CASE ~rec[i].sound
  <2> DEFINE y == [rec[i] EXCEPT !.status = Rejected]
  <2>1. /\ rec' = [rec EXCEPT ![i] = y] /\ UNCHANGED result
        /\ pc' = [pc EXCEPT ![r][i] = "failed"]
    BY <1>3 DEF LocalValidation, SecureWrite, Fail, Goto
  <2>2. Rejected \in Statuses
    BY DEF Statuses
  <2>3. y \in Record
    BY ONLY <1>0, <2>2 DEF Record
  <2>4. /\ y.status = Rejected /\ y.attempt = rec[i].attempt /\ y.failures = rec[i].failures
        /\ y.responseId = rec[i].responseId /\ y.accepted = rec[i].accepted
        /\ y.sound = rec[i].sound
    BY ONLY <1>0 DEF Record
  <2> HIDE DEF y
  <2>5. TypesOK' /\ Local(r, i)
    BY <1>1, <2>1, <2>3, SetupStays DEF IInv, TypesOK, Local, runVars, Labels
  <2>6. rec'[i] = y /\ pc'[r][i] = "failed"
    BY <2>1 DEF IInv, TypesOK
  <2>7. ~rec[i].accepted
    BY <1>0, <1>3 DEF RecordOK
  <2>8. RecordOK(rec[i])'
    <3>1. \A k \in Kinds : Prior(y, k) = Prior(rec[i], k)
      BY <1>1, <2>4 DEF Prior, Validated, Rejected, NoDns, HttpError
    <3>2. y.status \notin Unclaimed \cup {Placeholder}
      BY <2>4 DEF Unclaimed, Placeholder, Rejected
    <3>3. RecordOK(y)
      BY <1>0, <1>1, <1>3, <2>3, <2>4, <2>7, <3>1, <3>2, RewritesKeepRecords DEF Kinds
    <3> QED BY <2>6, <3>3, RecordOKNext
  <2>9. Resends \/ LedgerOK(i)'
    BY <1>1, <2>4, <2>6 DEF IInv, RecordsOK, LedgerOK, CountsSends, Unclaimed, Unknown, Validated, Rejected
  <2>10. ClaimOK(r, i)' /\ KeepsRows(i)
    BY <1>1, <1>3, <2>6 DEF ClaimOK, KeepsRows
  <2> QED BY <1>0, <1>1, <2>5, <2>6, <2>8, <2>9, <2>10, LocalStepsKeepAll DEF Owed
<1> QED BY <1>2, <1>3

LEMMA WorkKeeps ==
  ASSUME IInv, setup' = setup, NEW r \in Runs, NEW i \in Items, Work(r, i)
  PROVE  IInv'
<1>1. Grading(r) /\ UNCHANGED runVars /\ Grade(r, i)
  BY DEF Work
<1>2. CASE ClaimApiDispatch(r, i)
  BY <1>1, <1>2, CreateRecordKeeps, FillRecordKeeps, ReadRecordKeeps, RearmRecordKeeps DEF ClaimApiDispatch
<1>3. ASSUME NEW mends \in BOOLEAN, Renormalize(r, i, mends) PROVE IInv'
  BY <1>1, <1>3, RenormalizeKeeps
<1>4. CASE RecoverValidated(r, i)
  BY <1>1, <1>4, RecoverValidatedKeeps
<1>5. CASE RunResponsesApi(r, i)
  BY <1>1, <1>5, SendRequestKeeps, HttpErrorAnswerKeeps, TransportErrorKeeps, ReadTimeoutKeeps,
     ResponseReceivedKeeps, LocalValidationKeeps DEF RunResponsesApi
<1> QED BY <1>1, <1>2, <1>3, <1>4, <1>5 DEF Grade

-----------------------------------------------------------------------------
(* The steps of a runner.                                                   *)

LEMMA BeginItemKeeps ==
  ASSUME IInv, setup' = setup, NEW r \in Runs, NEW i \in Items, BeginItem(r, i)
  PROVE  IInv'
<1>1. /\ UNCHANGED <<rec, armed, sends, plan, result, runVars>> /\ pc[r][i] = "idle"
      /\ pc' = [pc EXCEPT ![r][i] = "begun"] /\ Grading(r) /\ i \in window[r]
  BY DEF BeginItem, Goto
<1>2. TypesOK' /\ Local(r, i) /\ pc'[r][i] = "begun"
  BY <1>1, SetupStays DEF IInv, TypesOK, Local, runVars, Labels
<1>3. RecordOK(rec[i])' /\ (Resends \/ LedgerOK(i)')
  BY <1>1, RecordOKNext DEF IInv, RecordsOK, LedgerOK, CountsSends
<1>4. ClaimOK(r, i)' /\ KeepsRows(i)
  BY <1>1, <1>2 DEF ClaimOK, KeepsRows
<1> QED BY <1>1, <1>2, <1>3, <1>4, LocalStepsKeepAll DEF Owed, Owning

\* Workers go on where they were or are gone.
LEMMA CalmStepsKeepClaims ==
  ASSUME IInv, UNCHANGED <<setup, rec, armed, sends>>,
         \A q \in Runs, j \in Items : \/ pc'[q][j] = pc[q][j] /\ plan'[q][j] = plan[q][j]
                                      \/ pc'[q][j] \in {"idle", "done"}
  PROVE  RecordsOK' /\ ClaimsOK' /\ OneOwner'
<1>1. RecordsOK'
  <2> SUFFICES ASSUME NEW j \in Items PROVE RecordOK(rec[j])' /\ (Resends \/ LedgerOK(j)')
    BY SetupStays DEF RecordsOK
  <2> QED BY RecordOKNext DEF IInv, RecordsOK, LedgerOK, CountsSends
<1>2. ClaimsOK'
  <2> SUFFICES ASSUME NEW q \in Runs, NEW j \in Items PROVE ClaimOK(q, j)'
    BY SetupStays DEF ClaimsOK
  <2> QED BY SetupStays
       DEF IInv, ClaimsOK, ClaimOK, Retryable, Retryable504, Retryable502, RetryableDns, ReturnsAsIs
<1>3. OneOwner'
  BY SetupStays DEF IInv, OneOwner, Owning
<1> QED BY <1>1, <1>2, <1>3

\* Rows stay as well backed as their records are.
LEMMA SameRecordsBackRows ==
  ASSUME UNCHANGED <<setup, rec>>, NEW j \in Items, NEW row, RowOK(j, row)
  PROVE  /\ row.kind = "judged" => /\ rec'[j].status = Validated /\ rec'[j].sound
                                   /\ Runner.check = "dispatch" => rec'[j].accepted
         /\ row.kind = "mended" => rec'[j].status = Mended /\ Judge.renormalizes
         /\ row.kind = "placeholder" => rec'[j].status = Placeholder
         /\ IF row.kind = "none" THEN row = NoRow ELSE row.attempt = rec'[j].attempt
BY DEF RowOK

LEMMA NoRowIs == NoRow \in Row /\ NoRows \in [Items -> Row]
BY DEF NoRow, NoRows, Row

LEMMA ExitKeeps ==
  ASSUME IInv, UNCHANGED <<setup, rec, armed, sends, checkpoint, starts>>, NEW r \in Runs, Exit(r),
         \/ manifest' = manifest
         \/ manifest' = [bound |-> TRUE, rows |-> checkpoint] /\ \A i \in Items : checkpoint[i] # NoRow
  PROVE  IInv'
<1>1. TypesOK'
  <2>1. Blank \in Record /\ NoRow \in Row
    BY BlankIs, NoRowIs
  <2>2. pc' \in [Runs -> [Items -> Labels]]
    BY DEF IInv, TypesOK, Exit, Labels
  <2>6. plan' \in [Runs -> [Items -> Record]]
    <3>1. [i \in Items |-> Blank] \in [Items -> Record]
      BY <2>1
    <3> QED BY <3>1 DEF IInv, TypesOK, Exit
  <2>3. result' \in [Runs -> [Items -> Row]] /\ saved' \in [Runs -> [Items -> Row]]
    <3>1. NoRows \in [Items -> Row]
      BY NoRowIs
    <3>2. result' = [result EXCEPT ![r] = NoRows] /\ saved' = [saved EXCEPT ![r] = NoRows]
      BY DEF Exit
    <3> QED BY <3>1, <3>2 DEF IInv, TypesOK
  <2>4. /\ phase' \in [Runs -> {"down", "binding", "grading", "regrading"}]
        /\ window' \in [Runs -> SUBSET Items]
    <3>1. {} \in SUBSET Items
      OBVIOUS
    <3>2. phase' \in [Runs -> {"down", "binding", "grading", "regrading"}]
      BY DEF IInv, TypesOK, Exit
    <3> QED BY <3>1, <3>2 DEF IInv, TypesOK, Exit
  <2>5. manifest' \in [bound : BOOLEAN, rows : [Items -> Row]]
    <3>1. checkpoint \in [Items -> Row] /\ manifest \in [bound : BOOLEAN, rows : [Items -> Row]]
      BY DEF IInv, TypesOK
    <3>2. [bound |-> TRUE, rows |-> checkpoint] \in [bound : BOOLEAN, rows : [Items -> Row]]
      BY <3>1
    <3> QED BY <3>1, <3>2
  <2> QED BY <2>2, <2>3, <2>4, <2>5, <2>6, SetupStays DEF IInv, TypesOK
<1>2. \A q \in Runs, j \in Items :
        /\ q # r => /\ pc'[q][j] = pc[q][j] /\ plan'[q][j] = plan[q][j] /\ saved'[q] = saved[q]
                    /\ result'[q][j] = result[q][j] /\ phase'[q] = phase[q] /\ window'[q] = window[q]
        /\ q = r => /\ pc'[q][j] = "idle" /\ saved'[q][j] = NoRow
  BY DEF Exit, IInv, TypesOK, NoRows
<1>3. phase'[r] = "down" /\ window'[r] = {}
  BY DEF Exit, IInv, TypesOK
<1>4. RecordsOK' /\ ClaimsOK' /\ OneOwner'
  BY <1>2, CalmStepsKeepClaims
<1>5. ProcessesOK'
  <2>1. \A q \in Runs : q # r => phase'[q] = phase[q] /\ window'[q] = window[q]
    BY DEF Exit, IInv, TypesOK
  <2> QED BY <1>2, <1>3, <2>1, SetupStays DEF IInv, ProcessesOK, Up, Grading
<1>6. FileOK'
  BY SameRecordsBackRows, SetupStays DEF IInv, FileOK, RowOK
<1>7. MemoryOK'
  <2> SUFFICES ASSUME NEW q \in Runs, NEW j \in Items
               PROVE  /\ RowOK(j, saved[q][j])'
                      /\ pc'[q][j] = "graded" => RowOK(j, result[q][j])' /\ result'[q][j] # NoRow
    BY SetupStays DEF MemoryOK
  <2>1. CASE q = r
    BY <1>2, <2>1 DEF RowOK, NoRow
  <2>2. CASE q # r
    BY <1>2, <2>2, SameRecordsBackRows, SetupStays DEF IInv, MemoryOK, RowOK
  <2> QED BY <2>1, <2>2
<1>8. SavedOK'
  BY <1>2, <1>3, SetupStays DEF IInv, SavedOK, Up, Grading
<1>9. ManifestCoversInputs'
  BY SetupStays DEF IInv, ManifestCoversInputs
<1> QED BY <1>1, <1>4, <1>5, <1>6, <1>7, <1>8, <1>9 DEF IInv

LEMMA StartRunKeeps ==
  ASSUME IInv, setup' = setup, NEW r \in Runs, r \in setup.processes, StartRun(r)
  PROVE  IInv'
<1>0. ProfileOK
  BY ProfileIsOK DEF IInv, TypesOK
<1>1. /\ UNCHANGED <<rec, armed, sends, pc, plan, result, window, checkpoint, manifest>>
      /\ phase[r] = "down" /\ saved' = [saved EXCEPT ![r] = checkpoint]
      /\ \/ phase' = [phase EXCEPT ![r] = "grading"]
         \/ Runner.legacy /\ phase' = [phase EXCEPT ![r] = "binding"]
      /\ Runner.locked => LockHolders = {}
  BY DEF StartRun, dispatchVars
<1>2. TypesOK'
  BY <1>1, SetupStays DEF IInv, TypesOK
<1>3. /\ saved'[r] = checkpoint /\ \A q \in Runs : q # r => saved'[q] = saved[q] /\ phase'[q] = phase[q]
      /\ phase'[r] = "grading" \/ (Runner.legacy /\ phase'[r] = "binding")
      /\ window[r] = {} /\ \A j \in Items : pc[r][j] = "idle"
  BY <1>1 DEF IInv, TypesOK, ProcessesOK, Grading
<1>4. Alone => \A q \in Runs : q # r => phase[q] = "down"
  BY <1>0, <1>1 DEF Alone, Apart, LockHolders, Runner, IInv, ProcessesOK, Up
<1>5. RecordsOK' /\ ClaimsOK' /\ OneOwner'
  BY <1>1, CalmStepsKeepClaims
<1>6. ProcessesOK'
  BY <1>1, <1>3, <1>4, SetupStays DEF IInv, ProcessesOK, Up, Grading
<1>7. FileOK'
  BY <1>1, SameRecordsBackRows, SetupStays DEF IInv, FileOK, RowOK
<1>8. MemoryOK'
  <2> SUFFICES ASSUME NEW q \in Runs, NEW j \in Items
               PROVE  /\ RowOK(j, saved[q][j])'
                      /\ pc'[q][j] = "graded" => RowOK(j, result[q][j])' /\ result'[q][j] # NoRow
    BY SetupStays DEF MemoryOK
  <2>1. RowOK(j, saved'[q][j])
    BY <1>3 DEF IInv, FileOK, MemoryOK
  <2> QED BY <1>1, <2>1, SameRecordsBackRows, SetupStays DEF IInv, MemoryOK, RowOK
<1>9. SavedOK'
  BY <1>1, <1>3, <1>4, SetupStays DEF IInv, SavedOK, Up, Grading
<1>10. ManifestCoversInputs'
  BY <1>1, SetupStays DEF IInv, ManifestCoversInputs
<1> QED BY <1>2, <1>5, <1>6, <1>7, <1>8, <1>9, <1>10 DEF IInv

LEMMA RowsWithTheSameFiles ==
  ASSUME IInv, UNCHANGED <<setup, rec, checkpoint, saved, result, manifest>>,
         \A q \in Runs, j \in Items : pc'[q][j] = pc[q][j]
  PROVE  FileOK' /\ MemoryOK' /\ ManifestCoversInputs'
BY SameRecordsBackRows, SetupStays DEF IInv, FileOK, MemoryOK, RowOK, ManifestCoversInputs

LEMMA RefuseCheckpointKeeps ==
  ASSUME IInv, setup' = setup, NEW r \in Runs, RefuseCheckpoint(r)
  PROVE  IInv'
<1>1. UNCHANGED <<rec, armed, sends, pc, plan, result, phase, saved, window, checkpoint, manifest>>
  BY DEF RefuseCheckpoint, dispatchVars
<1>2. TypesOK' /\ ProcessesOK' /\ SavedOK'
  BY <1>1, SetupStays DEF IInv, TypesOK, ProcessesOK, SavedOK, Up, Grading
<1> QED BY <1>1, <1>2, CalmStepsKeepClaims, RowsWithTheSameFiles DEF IInv

LEMMA OpenWindowKeeps ==
  ASSUME IInv, setup' = setup, NEW r \in Runs, OpenWindow(r)
  PROVE  IInv'
<1>1. /\ UNCHANGED <<rec, armed, sends, pc, plan, result, phase, saved, checkpoint, manifest>>
      /\ Grading(r)
  BY DEF OpenWindow, dispatchVars
<1>2. PICK W \in SUBSET Missing(r) : window' = [window EXCEPT ![r] = W]
  BY DEF OpenWindow, First
<1>3. \A i \in W : i \in Items /\ saved[r][i] = NoRow
  BY DEF Missing
<1>4. TypesOK' /\ ProcessesOK'
  BY <1>1, <1>2, <1>3, SetupStays DEF IInv, TypesOK, ProcessesOK, Up, Grading
<1>5. SavedOK'
  BY <1>1, <1>2, <1>3, SetupStays DEF IInv, SavedOK, Up, Grading, TypesOK
<1> QED BY <1>1, <1>4, <1>5, CalmStepsKeepClaims, RowsWithTheSameFiles DEF IInv

LEMMA ReadCachedKeeps ==
  ASSUME IInv, setup' = setup, NEW r \in Runs, NEW i \in Items, ReadCached(r, i)
  PROVE  IInv'
<1>1. /\ UNCHANGED <<rec, armed, sends, plan, result, phase, window, checkpoint, manifest>>
      /\ saved' = [saved EXCEPT ![r][i] = checkpoint[i]] /\ pc' = [pc EXCEPT ![r][i] = "done"]
      /\ Grading(r) /\ checkpoint[i] # NoRow
  BY DEF ReadCached, Cached, Goto
<1>2. TypesOK'
  BY <1>1, SetupStays DEF IInv, TypesOK, Labels
<1>3. /\ pc'[r][i] = "done" /\ saved'[r][i] = checkpoint[i]
      /\ \A q \in Runs, j \in Items : (q # r \/ j # i) =>
           pc'[q][j] = pc[q][j] /\ saved'[q][j] = saved[q][j]
  BY <1>1 DEF IInv, TypesOK
<1>4. RecordsOK' /\ ClaimsOK' /\ OneOwner'
  BY <1>1, <1>3, CalmStepsKeepClaims
<1>5. ProcessesOK'
  <2>1. ASSUME NEW q \in Runs, ~Grading(q), NEW j \in Items PROVE pc'[q][j] = "idle"
    BY <1>1, <1>3, <2>1 DEF IInv, ProcessesOK
  <2> QED BY <1>1, <2>1, SetupStays DEF IInv, ProcessesOK, Up, Grading
<1>6. FileOK'
  BY <1>1, SameRecordsBackRows, SetupStays DEF IInv, FileOK, RowOK
<1>7. MemoryOK'
  <2> SUFFICES ASSUME NEW q \in Runs, NEW j \in Items
               PROVE  /\ RowOK(j, saved[q][j])'
                      /\ pc'[q][j] = "graded" => RowOK(j, result[q][j])' /\ result'[q][j] # NoRow
    BY SetupStays DEF MemoryOK
  <2>1. RowOK(j, saved'[q][j])
    BY <1>3 DEF IInv, FileOK, MemoryOK
  <2>2. pc'[q][j] = "graded" => RowOK(j, result[q][j]) /\ result[q][j] # NoRow
    BY <1>3 DEF IInv, MemoryOK
  <2> QED BY <1>1, <2>1, <2>2, SameRecordsBackRows, SetupStays DEF RowOK
<1>8. SavedOK'
  BY <1>1, <1>3, SetupStays DEF IInv, SavedOK, Up, Grading
<1>9. ManifestCoversInputs'
  BY <1>1, SetupStays DEF IInv, ManifestCoversInputs
<1> QED BY <1>2, <1>4, <1>5, <1>6, <1>7, <1>8, <1>9 DEF IInv

LEMMA CollectRowKeeps ==
  ASSUME IInv, setup' = setup, NEW r \in Runs, NEW i \in Items, CollectRow(r, i)
  PROVE  IInv'
<1>0. ProfileOK
  BY ProfileIsOK DEF IInv, TypesOK
<1> DEFINE row == result[r][i]
<1>1. /\ UNCHANGED <<rec, armed, sends, plan, result, phase, window, manifest>>
      /\ saved' = [saved EXCEPT ![r][i] = row] /\ pc' = [pc EXCEPT ![r][i] = "done"]
      /\ Grading(r) /\ pc[r][i] = "graded"
      /\ checkpoint' = IF Runner.perItem THEN [checkpoint EXCEPT ![i] = row] ELSE saved'[r]
  BY DEF CollectRow, Goto
<1>2. row \in Row /\ RowOK(i, row) /\ row # NoRow /\ saved[r][i] = NoRow
  BY <1>1 DEF IInv, TypesOK, MemoryOK, SavedOK
<1> HIDE DEF row
<1>3. TypesOK'
  <2>1. saved' \in [Runs -> [Items -> Row]] /\ pc' \in [Runs -> [Items -> Labels]]
    BY <1>1, <1>2 DEF IInv, TypesOK, Labels
  <2>2. checkpoint' \in [Items -> Row]
    BY <1>1, <1>2, <2>1 DEF IInv, TypesOK
  <2> QED BY <1>1, <2>1, <2>2, SetupStays DEF IInv, TypesOK
<1>4. /\ pc'[r][i] = "done" /\ saved'[r][i] = row
      /\ \A q \in Runs, j \in Items : (q # r \/ j # i) =>
           pc'[q][j] = pc[q][j] /\ saved'[q][j] = saved[q][j]
  BY <1>1 DEF IInv, TypesOK
<1>5. checkpoint'[i] = row
  BY <1>1, <1>4 DEF IInv, TypesOK
<1>6. \A j \in Items : j # i =>
        checkpoint'[j] = IF Runner.perItem THEN checkpoint[j] ELSE saved[r][j]
  BY <1>1, <1>4 DEF IInv, TypesOK
<1>7. ~Runner.perItem => Alone
  BY <1>0 DEF ProfileOK
<1>8. Alone => \A q \in Runs : q # r => ~Up(q)
  BY <1>1 DEF IInv, ProcessesOK, Up, Grading
<1>9. Alone => \A j \in Items : (j # i /\ checkpoint[j] # NoRow) => checkpoint'[j] = checkpoint[j]
  BY <1>1, <1>6 DEF IInv, SavedOK, Up, Grading
<1>10. RecordsOK' /\ ClaimsOK' /\ OneOwner'
  BY <1>1, <1>4, CalmStepsKeepClaims
<1>11. ProcessesOK'
  <2>1. ASSUME NEW q \in Runs, ~Grading(q), NEW j \in Items PROVE pc'[q][j] = "idle"
    BY <1>1, <1>4, <2>1 DEF IInv, ProcessesOK
  <2> QED BY <1>1, <2>1, SetupStays DEF IInv, ProcessesOK, Up, Grading
<1>12. FileOK'
  <2> SUFFICES ASSUME NEW j \in Items PROVE RowOK(j, checkpoint[j])'
    BY SetupStays DEF FileOK
  <2>1. RowOK(j, checkpoint'[j])
    BY <1>2, <1>5, <1>6 DEF IInv, FileOK, MemoryOK
  <2> QED BY <1>1, <2>1, SameRecordsBackRows, SetupStays DEF RowOK
<1>13. MemoryOK'
  <2> SUFFICES ASSUME NEW q \in Runs, NEW j \in Items
               PROVE  /\ RowOK(j, saved[q][j])'
                      /\ pc'[q][j] = "graded" => RowOK(j, result[q][j])' /\ result'[q][j] # NoRow
    BY SetupStays DEF MemoryOK
  <2>1. RowOK(j, saved'[q][j])
    BY <1>2, <1>4 DEF IInv, MemoryOK
  <2>2. pc'[q][j] = "graded" => RowOK(j, result[q][j]) /\ result[q][j] # NoRow
    BY <1>4 DEF IInv, MemoryOK
  <2> QED BY <1>1, <2>1, <2>2, SameRecordsBackRows, SetupStays DEF RowOK
<1>14. SavedOK'
  <2> SUFFICES ASSUME NEW q \in Runs, NEW j \in Items
               PROVE  /\ Grading(q) /\ saved'[q][j] # NoRow => checkpoint'[j] # NoRow
                      /\ Alone /\ Up(q) /\ checkpoint'[j] # NoRow => saved'[q][j] = checkpoint'[j]
                      /\ \/ saved'[q][j] = NoRow \/ pc'[q][j] = "done"
                         \/ pc'[q][j] = "idle" /\ j \notin window[q]
    BY <1>1, SetupStays DEF SavedOK, Up, Grading
  <2>1. CASE j = i
    BY <1>2, <1>4, <1>5, <1>8, <2>1 DEF IInv, SavedOK
  <2>2. CASE j # i /\ q = r
    BY <1>1, <1>4, <1>6, <1>9, <2>2 DEF IInv, SavedOK, Up, Grading
  <2>3. CASE j # i /\ q # r
    BY <1>4, <1>6, <1>7, <1>8, <2>3 DEF IInv, SavedOK, Up, Grading
  <2> QED BY <2>1, <2>2, <2>3
<1>15. ManifestCoversInputs'
  BY <1>1, SetupStays DEF IInv, ManifestCoversInputs
<1> QED BY <1>3, <1>10, <1>11, <1>12, <1>13, <1>14, <1>15 DEF IInv

\* Placeholders are bound by a run that is alone.
LEMMA BindersAreAlone ==
  ASSUME IInv, NEW r \in Runs, phase[r] = "binding"
  PROVE  /\ Alone /\ ~Runner.perItem /\ \A q \in Runs : q # r => ~Up(q)
         /\ \A q \in Runs, j \in Items : pc[q][j] = "idle"
         /\ \A q \in Runs : window[q] = {} /\ ~Grading(q)
<1>1. ProfileOK /\ Runner.legacy
  BY ProfileIsOK DEF IInv, TypesOK, ProcessesOK
<1>2. Alone /\ ~Runner.perItem
  BY <1>1 DEF ProfileOK
<1>3. \A q \in Runs : q # r => ~Up(q)
  BY <1>2 DEF IInv, ProcessesOK, Up
<1>4. \A q \in Runs : ~Grading(q)
  BY <1>3 DEF Up, Grading
<1> QED BY <1>2, <1>3, <1>4 DEF IInv, ProcessesOK

LEMMA PersistPlaceholdersKeeps ==
  ASSUME IInv, setup' = setup, NEW r \in Runs, PersistPlaceholders(r)
  PROVE  IInv'
<1>1. /\ UNCHANGED <<rec, armed, sends, pc, plan, result, saved, window, manifest>>
      /\ phase[r] = "binding" /\ phase' = [phase EXCEPT ![r] = "regrading"]
      /\ checkpoint' = IF saved[r] = NoRows THEN checkpoint ELSE saved[r]
  BY DEF PersistPlaceholders, dispatchVars
<1>2. /\ Alone /\ \A q \in Runs : q # r => ~Up(q)
      /\ \A q \in Runs, j \in Items : pc[q][j] = "idle"
      /\ \A q \in Runs : window[q] = {} /\ ~Grading(q)
  BY <1>1, BindersAreAlone
<1>3. phase'[r] = "regrading" /\ \A q \in Runs : q # r => phase'[q] = phase[q]
  BY <1>1 DEF IInv, TypesOK
<1>4. TypesOK'
  BY <1>1, SetupStays DEF IInv, TypesOK
<1>5. RecordsOK' /\ ClaimsOK' /\ OneOwner'
  BY <1>1, CalmStepsKeepClaims
<1>6. ProcessesOK'
  BY <1>1, <1>2, <1>3, SetupStays DEF IInv, ProcessesOK, Up, Grading
<1>7. FileOK'
  <2> SUFFICES ASSUME NEW j \in Items PROVE RowOK(j, checkpoint[j])'
    BY SetupStays DEF FileOK
  <2>1. RowOK(j, checkpoint'[j])
    BY <1>1 DEF IInv, FileOK, MemoryOK
  <2> QED BY <1>1, <2>1, SameRecordsBackRows, SetupStays DEF RowOK
<1>8. MemoryOK'
  <2> SUFFICES ASSUME NEW q \in Runs, NEW j \in Items
               PROVE  RowOK(j, saved[q][j])' /\ pc'[q][j] # "graded"
    BY SetupStays DEF MemoryOK
  <2>1. RowOK(j, saved[q][j])
    BY DEF IInv, MemoryOK
  <2> QED BY <1>1, <1>2, <2>1, SameRecordsBackRows, SetupStays DEF RowOK
<1>9. SavedOK'
  <2>1. ASSUME NEW j \in Items
        PROVE  /\ saved[r][j] # NoRow => checkpoint'[j] # NoRow
               /\ checkpoint'[j] # NoRow => saved[r][j] = checkpoint'[j]
    <3>1. CASE saved[r] = NoRows
      BY <1>1, <1>2, <3>1 DEF IInv, SavedOK, Up, NoRows
    <3>2. CASE saved[r] # NoRows
      BY <1>1, <3>2
    <3> QED BY <3>1, <3>2
  <2> QED BY <1>1, <1>2, <1>3, <2>1, SetupStays DEF IInv, SavedOK, Up, Grading
<1>10. ManifestCoversInputs'
  BY <1>1, SetupStays DEF IInv, ManifestCoversInputs
<1> QED BY <1>4, <1>5, <1>6, <1>7, <1>8, <1>9, <1>10 DEF IInv

\* The retry limits add up to Budget.
LEMMA AttemptsAreWithinBudget ==
  ASSUME ProfileOK, NEW x \in Record, WithinRetries(x)
  PROVE  x.attempt \in 1..Budget
BY DEF ProfileOK, WithinRetries, Budget, Retries, Record

LEMMA BindPlaceholderKeeps ==
  ASSUME IInv, setup' = setup, NEW r \in Runs, NEW i \in Items, BindPlaceholder(r, i)
  PROVE  IInv'
<1>0. ProfileOK /\ rec[i] \in Record /\ RecordOK(rec[i])
  BY ProfileIsOK DEF IInv, TypesOK, RecordsOK
<1> DEFINE y == [rec[i] EXCEPT !.status = Placeholder]
           row == [kind |-> "placeholder", attempt |-> rec[i].attempt]
<1>1. /\ rec' = [rec EXCEPT ![i] = y] /\ saved' = [saved EXCEPT ![r][i] = row]
      /\ UNCHANGED <<armed, sends, pc, plan, result, phase, window, checkpoint, manifest>>
      /\ phase[r] = "binding" /\ saved[r][i] = NoRow
      /\ rec[i].status \in LegacyTerminal \cup {Placeholder}
  BY DEF BindPlaceholder, SecureWrite, Pending, Missing
<1>2. /\ Alone /\ \A q \in Runs : q # r => ~Up(q)
      /\ \A q \in Runs, j \in Items : pc[q][j] = "idle"
      /\ \A q \in Runs : window[q] = {} /\ ~Grading(q)
  BY <1>1, BindersAreAlone
<1>3. y \in Record
  <2>1. Placeholder \in Statuses
    BY DEF Statuses
  <2> QED BY ONLY <1>0, <2>1 DEF Record
<1>4. /\ y.status = Placeholder /\ y.attempt = rec[i].attempt /\ y.responseId = rec[i].responseId
      /\ y.accepted = rec[i].accepted /\ y.sound = rec[i].sound
  BY ONLY <1>0 DEF Record
<1>5. row \in Row /\ row.kind = "placeholder" /\ row.attempt = rec[i].attempt
  BY <1>0 DEF Row, Record
<1> HIDE DEF y, row
<1>6. TypesOK'
  BY <1>1, <1>3, <1>5, SetupStays DEF IInv, TypesOK
<1>7. /\ rec'[i] = y /\ \A j \in Items : j # i => rec'[j] = rec[j]
      /\ saved'[r][i] = row
      /\ \A q \in Runs, j \in Items : (q # r \/ j # i) => saved'[q][j] = saved[q][j]
  BY <1>1 DEF IInv, TypesOK
<1>8. rec[i].status \notin Unclaimed \cup {Unknown, Validated, Mended}
  BY <1>1 DEF LegacyTerminal, Unclaimed, Unknown, Validated, Mended, HttpError, NoDns, Transport,
     Rejected, Placeholder
<1>9. RecordOK(y)
  <2>1. y.attempt \in 1..Budget
    BY <1>0, <1>4, <1>8, AttemptsAreWithinBudget DEF RecordOK
  <2> QED BY <1>0, <1>4, <1>8, <2>1 DEF RecordOK, Unclaimed, Placeholder
<1>10. RecordsOK'
  <2> SUFFICES ASSUME NEW j \in Items PROVE RecordOK(rec[j])' /\ (Resends \/ LedgerOK(j)')
    BY SetupStays DEF RecordsOK
  <2>1. RecordOK(rec[j])'
    BY <1>7, <1>9, RecordOKNext DEF IInv, RecordsOK
  <2>2. CASE j = i
    <3>1. Resends \/ LedgerOK(i)
      BY DEF IInv, RecordsOK
    <3>2. Placeholder \notin Unclaimed \cup {Validated, Rejected, Mended, Unknown}
      BY DEF Placeholder, Unclaimed, Validated, Rejected, Mended, Unknown
    <3>3. Resends \/ LedgerOK(i)'
      BY <1>1, <1>4, <1>7, <1>8, <3>1, <3>2 DEF LedgerOK, CountsSends
    <3> QED BY <2>1, <2>2, <3>3
  <2>3. CASE j # i
    BY <1>1, <1>7, <2>1, <2>3 DEF IInv, RecordsOK, LedgerOK, CountsSends
  <2> QED BY <2>2, <2>3
<1>11. ClaimsOK' /\ OneOwner'
  BY <1>1, <1>2, SetupStays DEF ClaimsOK, ClaimOK, OneOwner, Owning
<1>12. ProcessesOK'
  BY <1>1, SetupStays DEF IInv, ProcessesOK, Up, Grading
<1>13. \A j \in Items : KeepsRows(j)
  BY <1>4, <1>7, <1>8, <1>0 DEF KeepsRows, RecordOK, Validated, Placeholder
<1>14. FileOK'
  <2> SUFFICES ASSUME NEW j \in Items PROVE RowOK(j, checkpoint[j])'
    BY SetupStays DEF FileOK
  <2>1. RowOK(j, checkpoint[j]) /\ checkpoint[j] \in Row
    BY DEF IInv, FileOK, TypesOK
  <2> QED BY <1>1, <1>13, <2>1, BackedRowsStay, SetupStays DEF RowOK
<1>15. MemoryOK'
  <2> SUFFICES ASSUME NEW q \in Runs, NEW j \in Items
               PROVE  RowOK(j, saved[q][j])' /\ pc'[q][j] # "graded"
    BY SetupStays DEF MemoryOK
  <2>1. CASE q = r /\ j = i
    BY <1>1, <1>2, <1>4, <1>5, <1>7, <2>1 DEF RowOK
  <2>2. CASE q # r \/ j # i
    <3>1. RowOK(j, saved[q][j]) /\ saved[q][j] \in Row /\ saved'[q][j] = saved[q][j]
      BY <1>7, <2>2 DEF IInv, MemoryOK, TypesOK
    <3> QED BY <1>1, <1>2, <1>13, <3>1, BackedRowsStay, SetupStays DEF RowOK
  <2> QED BY <2>1, <2>2
<1>16. SavedOK'
  <2>1. checkpoint[i] = NoRow
    BY <1>1, <1>2 DEF IInv, SavedOK, Up
  <2> QED BY <1>1, <1>2, <1>7, <2>1, SetupStays DEF IInv, SavedOK, Up, Grading
<1>17. ManifestCoversInputs'
  BY <1>1, SetupStays DEF IInv, ManifestCoversInputs
<1> QED BY <1>6, <1>10, <1>11, <1>12, <1>14, <1>15, <1>16, <1>17 DEF IInv

-----------------------------------------------------------------------------
(* The invariant.                                                           *)

LEMMA InitIsSound == Init => IInv
<1> SUFFICES ASSUME Init PROVE IInv
  OBVIOUS
<1>1. \A i \in Items : rec[i] = Blank /\ armed[i] = FALSE /\ sends[i] = 0
  BY DEF Init, DispatchInit
<1>2. TypesOK
  <2>1. NoRow \in Row /\ NoRows \in [Items -> Row] /\ Blank \in Record
    BY NoRowIs, BlankIs
  <2>2. rec \in [Items -> Record] /\ armed \in [Items -> BOOLEAN] /\ sends \in [Items -> Nat]
    BY <2>1 DEF Init, DispatchInit
  <2>3. pc \in [Runs -> [Items -> Labels]] /\ plan \in [Runs -> [Items -> Record]]
    BY <2>1 DEF Init, DispatchInit, Labels
  <2>4. result \in [Runs -> [Items -> Row]] /\ saved \in [Runs -> [Items -> Row]]
    BY <2>1 DEF Init, DispatchInit
  <2>5. manifest \in [bound : BOOLEAN, rows : [Items -> Row]]
    BY <2>1 DEF Init, Unbound
  <2>6. window \in [Runs -> SUBSET Items] /\ checkpoint \in [Items -> Row]
    BY <2>1 DEF Init
  <2> QED BY <2>2, <2>3, <2>4, <2>5, <2>6 DEF Init, TypesOK
<1>3. RecordsOK
  BY <1>1, BlankIs DEF RecordsOK, RecordOK, LedgerOK, CountsSends, Unclaimed, Validated, Rejected, Mended
<1>4. \A r \in Runs : phase[r] = "down" /\ saved[r] = NoRows /\ window[r] = {}
                      /\ \A i \in Items : pc[r][i] = "idle" /\ saved[r][i] = NoRow
  BY DEF Init, DispatchInit, NoRows
<1>5. ClaimsOK /\ OneOwner /\ ProcessesOK
  BY <1>4 DEF ClaimsOK, ClaimOK, OneOwner, Owning, ProcessesOK, Up, Grading
<1>6. FileOK /\ MemoryOK
  BY <1>4 DEF Init, FileOK, MemoryOK, RowOK, NoRows, NoRow
<1>7. SavedOK /\ ManifestCoversInputs
  BY <1>4 DEF SavedOK, Up, Grading, Init, Unbound, ManifestCoversInputs, NoRows
<1> QED BY <1>2, <1>3, <1>5, <1>6, <1>7 DEF IInv

LEMMA ManagerKeeps ==
  ASSUME IInv, setup' = setup, NEW r \in Runs, Manager(r)
  PROVE  IInv'
<1>1. CASE OpenWindow(r)
  BY <1>1, OpenWindowKeeps
<1>2. CASE RunFails(r) \/ RefuseLegacy(r)
  BY <1>2, ExitKeeps DEF RunFails, RefuseLegacy, dispatchVars
<1>3. CASE RunCompletes(r)
  <2>1. \A i \in Items : checkpoint[i] # NoRow
    BY <1>3 DEF RunCompletes, Missing, IInv, SavedOK
  <2> QED BY <1>3, <2>1, ExitKeeps DEF RunCompletes
<1>4. CASE PersistPlaceholders(r)
  BY <1>4, PersistPlaceholdersKeeps
<1>5. ASSUME NEW i \in Items,
             ReadCached(r, i) \/ BeginItem(r, i) \/ CollectRow(r, i) \/ BindPlaceholder(r, i)
      PROVE  IInv'
  BY <1>5, ReadCachedKeeps, BeginItemKeeps, CollectRowKeeps, BindPlaceholderKeeps
<1> QED BY <1>1, <1>2, <1>3, <1>4, <1>5 DEF Manager

LEMMA NextIsSound ==
  ASSUME IInv, [Next]_vars
  PROVE  IInv'
<1>1. ASSUME NEW r \in setup.processes, Step(r), setup' = setup PROVE IInv'
  <2>0. r \in Runs
    BY ProfileIsOK DEF IInv, TypesOK, ProfileOK
  <2>1. CASE StartRun(r) \/ RefuseCheckpoint(r)
    BY <1>1, <2>0, <2>1, StartRunKeeps, RefuseCheckpointKeeps
  <2>2. CASE Crash(r)
    BY <1>1, <2>0, <2>2, ExitKeeps DEF Crash
  <2>3. CASE Manager(r)
    BY <1>1, <2>0, <2>3, ManagerKeeps
  <2>4. ASSUME NEW i \in Items, Work(r, i) PROVE IInv'
    BY <1>1, <2>0, <2>4, WorkKeeps
  <2> QED BY <1>1, <2>1, <2>2, <2>3, <2>4 DEF Step
<1>2. CASE UNCHANGED vars
  <2>1. UNCHANGED <<setup, rec, armed, sends, pc, plan, result, phase, saved, window, checkpoint, manifest>>
    BY <1>2 DEF vars, dispatchVars, runVars
  <2>2. TypesOK' /\ ProcessesOK' /\ SavedOK'
    BY <2>1, SetupStays DEF IInv, TypesOK, ProcessesOK, SavedOK, Up, Grading
  <2> QED BY <2>1, <2>2, CalmStepsKeepClaims, RowsWithTheSameFiles DEF IInv
<1> QED BY <1>1, <1>2 DEF Next

\* What holds in every state a graded stage comes to.
THEOREM InvariantHolds == Spec => []IInv
BY InitIsSound, NextIsSound, PTL DEF Spec

-----------------------------------------------------------------------------
(* What it says of the checkpoint.                                          *)

LEMMA InvariantIsSound == IInv => CheckpointIsSound
<1> SUFFICES ASSUME IInv PROVE CheckpointIsSound
  OBVIOUS
<1>0. ProfileOK
  BY ProfileIsOK DEF IInv, TypesOK
<1>1. ASSUME NEW i \in Items PROVE /\ rec[i] \in Record /\ RecordOK(rec[i]) /\ RowOK(i, checkpoint[i])
                                   /\ checkpoint[i] \in Row /\ sends[i] \in Nat
  BY DEF IInv, TypesOK, RecordsOK, FileOK
<1>2. JudgeTypeOK
  <2>1. ASSUME NEW i \in Items PROVE rec[i].attempt \in 0..Budget
    <3>1. Budget \in Nat
      BY <1>0 DEF Budget, ProfileOK
    <3>2. CASE rec[i].status \in Unclaimed
      BY <1>1, <3>1, <3>2 DEF RecordOK
    <3>3. CASE rec[i].status \notin Unclaimed
      BY <1>0, <1>1, <3>1, <3>3, AttemptsAreWithinBudget DEF RecordOK
    <3> QED BY <3>2, <3>3
  <2> QED BY <1>1, <2>1 DEF JudgeTypeOK, IInv, TypesOK, Record, Row
<1>3. RowsAreBacked
  BY <1>1 DEF RowsAreBacked, RowOK
<1>4. CheckpointStaysReadable
  <2> SUFFICES ASSUME ~(Runner.check = "attempt" /\ Judge.retry504), NEW i \in Items,
                      checkpoint[i] # NoRow
               PROVE  RowIsReadable(i, checkpoint[i])
    BY DEF CheckpointStaysReadable, RowIsReadable
  <2>0. /\ checkpoint[i].kind \in {"judged", "mended", "placeholder"}
        /\ checkpoint[i].attempt = rec[i].attempt
        /\ rec[i].status \in {Validated, Mended, Placeholder} /\ rec[i].status \notin Unclaimed
    BY <1>1 DEF RowOK, Row, Unclaimed, Validated, Mended, Placeholder
  <2>1. CASE Runner.check = "attempt"
    <3>1. ~Retries /\ Judge.maxAttempts = 1 /\ Budget = 1
      BY <1>0, <2>1 DEF ProfileOK, Retries, Budget
    <3>2. rec[i].attempt = 1
      BY <1>1, <2>0, <3>1 DEF RecordOK, WithinRetries
    <3> QED BY <2>0, <2>1, <3>1, <3>2 DEF RowIsReadable, ProvenanceIsValid
  <2>2. CASE Runner.check = "dispatch"
    <3>1. Judge.checksAttempts /\ ~Judge.renormalizes
      BY <1>0, <2>2 DEF ProfileOK
    <3>2. checkpoint[i].kind \in {"judged", "placeholder"}
      BY <1>1, <2>0, <3>1 DEF RowOK
    <3>3. CASE checkpoint[i].kind = "judged"
      <4>1. rec[i].status = Validated /\ rec[i].sound /\ rec[i].accepted
        BY <1>1, <2>2, <3>3 DEF RowOK
      <4>2. rec[i].attempt \in 1..3
        BY <1>1, <2>0, <3>1, <4>1 DEF RecordOK
      <4> QED BY <2>0, <2>2, <3>3, <4>1, <4>2 DEF RowIsReadable, RowMatchesDispatch
    <3>4. CASE checkpoint[i].kind = "placeholder"
      BY <1>1, <2>2, <3>4 DEF RowIsReadable, RowMatchesDispatch, RowOK
    <3> QED BY <3>2, <3>3, <3>4
  <2>3. CASE Runner.check = "none"
    BY <2>3 DEF RowIsReadable
  <2> QED BY <1>0, <2>1, <2>2, <2>3 DEF ProfileOK
<1>5. NoSoundAnswerRefused
  BY DEF NoSoundAnswerRefused, IInv, ClaimsOK, ClaimOK
<1> QED BY <1>2, <1>3, <1>4, <1>5 DEF CheckpointIsSound, IInv

\* Whatever runs were started, killed or refused: the rows on disk are backed by
\* the dispatch log and pass the next run's check, a manifest covers its inputs,
\* and no sound response is turned down when its item is claimed again.
THEOREM CheckpointStaysSound == Spec => []CheckpointIsSound
BY InvariantHolds, InvariantIsSound, PTL

\* Only a run that is at work writes the checkpoint, and it holds every row.
LEMMA StepsKeepRows ==
  ASSUME IInv, [Next]_vars, Runner.locked, NEW i \in Items, checkpoint[i] # NoRow
  PROVE  checkpoint'[i] = checkpoint[i]
<1>0. Alone
  BY ProfileIsOK DEF IInv, TypesOK, ProfileOK
<1>1. ASSUME NEW r \in Runs, NEW j \in Items, CollectRow(r, j) PROVE checkpoint'[i] = checkpoint[i]
  <2>1. /\ Grading(r) /\ pc[r][j] = "graded" /\ saved' = [saved EXCEPT ![r][j] = result[r][j]]
        /\ checkpoint' = IF Runner.perItem THEN [checkpoint EXCEPT ![j] = result[r][j]] ELSE saved'[r]
    BY <1>1 DEF CollectRow
  <2>2. saved[r][i] = checkpoint[i] /\ saved[r][j] = NoRow
    BY <1>0, <2>1 DEF IInv, SavedOK, Up, Grading
  <2> QED BY <2>1, <2>2 DEF IInv, TypesOK
<1>2. ASSUME NEW r \in Runs, PersistPlaceholders(r) PROVE checkpoint'[i] = checkpoint[i]
  BY <1>0, <1>2 DEF PersistPlaceholders, IInv, SavedOK, Up
<1>3. ASSUME NEW r \in Runs, Step(r),
             \A j \in Items : ~CollectRow(r, j), ~PersistPlaceholders(r)
      PROVE  checkpoint' = checkpoint
  BY <1>3 DEF Step, StartRun, RefuseCheckpoint, Crash, Manager, OpenWindow, RunFails, RunCompletes,
     RefuseLegacy, ReadCached, BeginItem, BindPlaceholder, Work, runVars
<1>4. CASE UNCHANGED vars
  BY <1>4 DEF vars, runVars
<1> QED BY <1>1, <1>2, <1>3, <1>4, ProfileIsOK DEF Next, IInv, TypesOK, ProfileOK

\* Under the lock, no run drops or changes a row that is in the checkpoint.
THEOREM RowsStaySaved == Spec => RowsSurvive
<1>1. IInv /\ [Next]_vars =>
        [Runner.locked =>
           \A i \in Items : checkpoint[i] # NoRow => checkpoint'[i] = checkpoint[i]]_vars
  BY StepsKeepRows
<1> QED BY <1>1, InvariantHolds, PTL DEF Spec, RowsSurvive

-----------------------------------------------------------------------------
(* The request ledger.                                                      *)

Fates == [i \in Packets |-> IF i \in Promised THEN FateOf(i) ELSE "ready"]
Counts == [i \in Packets |-> IF i \in Promised THEN sends[i] ELSE 0]
LedgerStep == [Ledger!LedgerNext /\ UNCHANGED Budget]_<<Fates, Counts, Budget>>

\* An item's fate depends on these alone.
LEMMA FateIs ==
  ASSUME NEW i \in Items
  PROVE  /\ rec[i].status \in Unclaimed => FateOf(i) = "ready"
         /\ rec[i].status = Unknown /\ armed[i] => FateOf(i) = "ready"
         /\ rec[i].status = Unknown /\ ~armed[i] => FateOf(i) = "out"
         /\ rec[i].status \in Answered => FateOf(i) = "answered"
         /\ rec[i].status = Placeholder /\ rec[i].responseId => FateOf(i) = "answered"
         /\ rec[i].status = Placeholder /\ ~rec[i].responseId => FateOf(i) = "failed"
         /\ rec[i].status \in {HttpError, NoDns, Transport} => FateOf(i) = "failed"
BY DEF FateOf, Answered, Unclaimed, Unknown, HttpError, NoDns, Transport, Unparsed, Unvalidated,
   Validated, Rejected, Mended, Placeholder

LEMMA FateIsNext ==
  ASSUME NEW i \in Items
  PROVE  /\ rec'[i].status \in Unclaimed => FateOf(i)' = "ready"
         /\ rec'[i].status = Unknown /\ armed'[i] => FateOf(i)' = "ready"
         /\ rec'[i].status = Unknown /\ ~armed'[i] => FateOf(i)' = "out"
         /\ rec'[i].status \in Answered => FateOf(i)' = "answered"
         /\ rec'[i].status = Placeholder /\ rec'[i].responseId => FateOf(i)' = "answered"
         /\ rec'[i].status = Placeholder /\ ~rec'[i].responseId => FateOf(i)' = "failed"
         /\ rec'[i].status \in {HttpError, NoDns, Transport} => FateOf(i)' = "failed"
BY DEF FateOf, Answered, Unclaimed, Unknown, HttpError, NoDns, Transport, Unparsed, Unvalidated,
   Validated, Rejected, Mended, Placeholder

LEMMA FatesStay ==
  ASSUME setup' = setup, Resends \/ \A i \in Items : FateOf(i)' = FateOf(i) /\ sends'[i] = sends[i]
  PROVE  LedgerStep
<1>1. Promised' = Promised /\ \A i \in Promised : ~Resends /\ i \in Items
  BY SetupStays DEF Promised
<1>2. Fates' = Fates /\ Counts' = Counts /\ Budget' = Budget
  BY <1>1, SetupStays DEF Fates, Counts
<1> QED BY <1>2 DEF LedgerStep

\* What a request may do next.
Moves(i) ==
  \/ FateOf(i)' = FateOf(i) /\ sends'[i] = sends[i]
  \/ /\ FateOf(i) = "ready" /\ FateOf(i)' = "out"
     /\ sends[i] < Budget /\ sends'[i] = sends[i] + 1
  \/ FateOf(i) = "out" /\ FateOf(i)' \in {"failed", "answered"} /\ sends'[i] = sends[i]
  \/ FateOf(i) = "failed" /\ FateOf(i)' = "ready" /\ sends'[i] = sends[i]

LEMMA MovesAreLedgerSteps ==
  ASSUME setup' = setup, NEW i \in Items, ~Resends, Moves(i),
         \A j \in Items : j # i => FateOf(j)' = FateOf(j) /\ sends'[j] = sends[j]
  PROVE  LedgerStep
<1>0. Promised' = Items /\ Promised = Items
  BY SetupStays DEF Promised
<1>1. CASE i \notin Packets
  <2>1. Fates' = Fates /\ Counts' = Counts /\ Budget' = Budget
    BY <1>0, <1>1, SetupStays DEF Fates, Counts
  <2> QED BY <2>1 DEF LedgerStep
<1>2. CASE i \in Packets
  <2>1. /\ Fates[i] = FateOf(i) /\ Counts[i] = sends[i] /\ Budget' = Budget
        /\ Fates' = [Fates EXCEPT ![i] = FateOf(i)'] /\ Counts' = [Counts EXCEPT ![i] = sends'[i]]
    BY <1>0, <1>2, SetupStays DEF Fates, Counts
  <2>2. CASE FateOf(i)' = FateOf(i) /\ sends'[i] = sends[i]
    BY <2>2, FatesStay
  <2>3. CASE /\ FateOf(i) = "ready" /\ FateOf(i)' = "out"
             /\ sends[i] < Budget /\ sends'[i] = sends[i] + 1
    <3>1. Ledger!Send(i)
      BY <2>1, <2>3 DEF Ledger!Send, Fates, Counts
    <3> QED BY <1>2, <2>1, <3>1 DEF LedgerStep, Ledger!LedgerNext
  <2>4. CASE FateOf(i) = "out" /\ FateOf(i)' \in {"failed", "answered"} /\ sends'[i] = sends[i]
    <3>1. Counts' = Counts
      BY <2>1, <2>4 DEF Counts
    <3>2. Ledger!Settle(i)
      BY <2>1, <2>4, <3>1 DEF Ledger!Settle, Fates, Counts
    <3> QED BY <1>2, <2>1, <3>2 DEF LedgerStep, Ledger!LedgerNext
  <2>5. CASE FateOf(i) = "failed" /\ FateOf(i)' = "ready" /\ sends'[i] = sends[i]
    <3>1. Counts' = Counts
      BY <2>1, <2>5 DEF Counts
    <3>2. Ledger!Rearm(i)
      BY <2>1, <2>5, <3>1 DEF Ledger!Rearm, Fates, Counts
    <3> QED BY <1>2, <2>1, <3>2 DEF LedgerStep, Ledger!LedgerNext
  <2> QED BY <2>2, <2>3, <2>4, <2>5 DEF Moves
<1> QED BY <1>1, <1>2

\* A worker's step is one move of its request: it creates or rearms a record,
\* sends, writes down an outcome, or rewrites the record without a change of fate.
LEMMA WorkMoves ==
  ASSUME IInv, setup' = setup, ~Resends, NEW r \in Runs, NEW i \in Items, Work(r, i)
  PROVE  Moves(i) /\ \A j \in Items : j # i => FateOf(j)' = FateOf(j) /\ sends'[j] = sends[j]
<1>0. /\ Grading(r) /\ Grade(r, i) /\ ClaimOK(r, i) /\ LedgerOK(i)
      /\ rec[i] \in Record /\ rec \in [Items -> Record]
  BY DEF Work, IInv, ClaimsOK, RecordsOK, TypesOK
<1> USE DEF SecureWrite
<1>1. CASE CreateRecord(r, i)
  <2>1. /\ \A j \in Items : j # i => rec'[j] = rec[j]
        /\ armed' = armed /\ sends' = sends
        /\ rec[i].status \in Unclaimed /\ rec'[i].status \in Unclaimed
    BY <1>0, <1>1 DEF CreateRecord, Unclaimed, Blank
  <2> QED BY <2>1, FateIs, FateIsNext DEF Moves, FateOf
<1>2. CASE FillRecord(r, i)
  <2>1. /\ \A j \in Items : j # i => rec'[j] = rec[j] /\ armed'[j] = armed[j]
        /\ sends' = sends /\ rec[i].status \in Unclaimed
        /\ rec'[i].status = Unknown /\ armed'[i]
    <3>1. FreshRecord(1, Blank.failures).status = Unknown
      BY BlankIs DEF FreshRecord, Blank
    <3>2. rec[i].status \in Unclaimed /\ armed \in [Items -> BOOLEAN]
      BY <1>0, <1>2 DEF FillRecord, Unclaimed, ClaimOK, IInv, TypesOK
    <3> QED BY <1>0, <1>2, <3>1, <3>2 DEF FillRecord
  <2> QED BY <2>1, FateIs, FateIsNext DEF Moves, FateOf
<1>3. CASE ReadRecord(r, i)
  BY <1>3 DEF ReadRecord, Moves, FateOf
<1>4. CASE RearmRecord(r, i)
  <2>1. rec[i].status \in {HttpError, NoDns} /\ plan[r][i] = rec[i]
    BY <1>0, <1>4 DEF RearmRecord, ClaimOK, Retryable, Retryable504, Retryable502, RetryableDns
  <2>2. rec[i].attempt + 1 \in Nat /\ rec[i].failures \in [Kinds -> Nat]
    BY <1>0 DEF Record
  <2>3. /\ \A j \in Items : j # i => rec'[j] = rec[j] /\ armed'[j] = armed[j]
        /\ sends' = sends /\ rec'[i].status = Unknown /\ armed'[i]
    <3>1. FreshRecord(rec[i].attempt + 1, rec[i].failures).status = Unknown
      BY <2>2, FreshRecordIs
    <3>2. armed \in [Items -> BOOLEAN]
      BY DEF IInv, TypesOK
    <3> QED BY <1>0, <1>4, <2>1, <3>1, <3>2 DEF RearmRecord
  <2> QED BY <2>1, <2>3, FateIs, FateIsNext DEF Moves, FateOf
<1>5. ASSUME NEW mends \in BOOLEAN, Renormalize(r, i, mends)
      PROVE  Moves(i) /\ \A j \in Items : j # i => FateOf(j)' = FateOf(j) /\ sends'[j] = sends[j]
  <2>1. /\ \A j \in Items : j # i => rec'[j] = rec[j]
        /\ armed' = armed /\ sends' = sends
        /\ rec[i].status \in Answered /\ rec'[i].status \in Answered
    BY <1>0, <1>5 DEF Renormalize, Renormalizing, Answered, Record
  <2> QED BY <2>1, FateIs, FateIsNext DEF Moves, FateOf
<1>6. CASE RecoverValidated(r, i)
  <2>1. /\ \A j \in Items : j # i => rec'[j] = rec[j]
        /\ armed' = armed /\ sends' = sends
        /\ rec[i].status \in Answered /\ rec'[i].status \in Answered
    BY <1>0, <1>6 DEF RecoverValidated, Recovering, Answered, Record
  <2> QED BY <2>1, FateIs, FateIsNext DEF Moves, FateOf
<1>7. CASE SendRequest(r, i)
  <2>1. rec[i].status = Unknown /\ armed[i]
    BY <1>0, <1>7, ProfileIsOK DEF SendRequest, ClaimOK, ReturnsAsIs, Renormalizing, Recovering, Resends,
       IInv, TypesOK, ProfileOK
  <2>2. /\ \A j \in Items : j # i => armed'[j] = armed[j] /\ sends'[j] = sends[j]
        /\ rec' = rec /\ ~armed'[i] /\ sends'[i] = sends[i] + 1 /\ sends[i] \in Nat
    BY <1>7 DEF SendRequest, IInv, TypesOK
  <2>3. sends[i] < Budget
    <3>1. rec[i].attempt \in 1..Budget
      <4>1. WithinRetries(rec[i])
        BY <2>1 DEF IInv, RecordsOK, RecordOK, Unclaimed, Unknown, Placeholder
      <4> QED BY <1>0, <4>1, ProfileIsOK, AttemptsAreWithinBudget DEF IInv, TypesOK
    <3>2. Budget \in Nat
      BY ProfileIsOK DEF IInv, TypesOK, Budget, ProfileOK
    <3> QED BY <1>0, <2>1, <2>2, <3>1, <3>2 DEF LedgerOK, CountsSends
  <2> QED BY <2>1, <2>2, <2>3, FateIs, FateIsNext DEF Moves, FateOf
<1>8. CASE HttpErrorAnswer(r, i) \/ TransportError(r, i) \/ ResponseReceived(r, i)
  <2>1. rec[i].status = Unknown /\ ~armed[i]
    BY <1>0, <1>8 DEF HttpErrorAnswer, TransportError, ResponseReceived, ClaimOK
  <2>2. \A j \in Items : j # i => rec'[j] = rec[j]
    <3>1. \E record : rec' = [rec EXCEPT ![i] = record]
      <4>1. CASE HttpErrorAnswer(r, i)
        <5>1. PICK code \in {500, 502, 504}, named \in BOOLEAN :
                SecureWrite(i, [rec[i] EXCEPT
                    !.status = HttpError, !.http = code, !.requestId = named,
                    !.failures = CASE code = 504 -> Counted(rec[i], "504")
                                   [] code = 502 -> Counted(rec[i], "502")
                                   [] OTHER -> @])
          BY <4>1 DEF HttpErrorAnswer
        <5> QED BY <5>1
      <4>2. CASE TransportError(r, i)
        BY <4>2, Zenon DEF TransportError
      <4>3. CASE ResponseReceived(r, i)
        BY <4>3, Zenon DEF ResponseReceived
      <4> QED BY <1>8, <4>1, <4>2, <4>3
    <3> QED BY <1>0, <3>1
  <2>3. armed' = armed /\ sends' = sends
    BY <1>8 DEF HttpErrorAnswer, TransportError, ResponseReceived
  <2>4. rec'[i].status \in {HttpError, NoDns, Transport} \cup Answered
    <3>1. CASE HttpErrorAnswer(r, i)
      BY <1>0, <3>1 DEF HttpErrorAnswer, Record
    <3>2. CASE TransportError(r, i)
      BY <1>0, <3>2 DEF TransportError, Record
    <3>3. CASE ResponseReceived(r, i)
      BY <1>0, <3>3 DEF ResponseReceived, Record, Answered
    <3> QED BY <1>8, <3>1, <3>2, <3>3
  <2> QED BY <2>1, <2>2, <2>3, <2>4, FateIs, FateIsNext DEF Moves, FateOf
<1>9. CASE ReadTimeout(r, i)
  BY <1>9 DEF ReadTimeout, Moves, FateOf
<1>10. CASE LocalValidation(r, i)
  <2>1. /\ \A j \in Items : j # i => rec'[j] = rec[j]
        /\ armed' = armed /\ sends' = sends
        /\ rec[i].status \in Answered /\ rec'[i].status \in Answered
    BY <1>0, <1>10 DEF LocalValidation, ClaimOK, Answered, Record
  <2> QED BY <2>1, FateIs, FateIsNext DEF Moves, FateOf
<1> QED BY <1>0, <1>1, <1>2, <1>3, <1>4, <1>5, <1>6, <1>7, <1>8, <1>9, <1>10
     DEF Grade, ClaimApiDispatch, RunResponsesApi

\* A placeholder binds a record that had failed or was answered, as it was.
LEMMA BindPlaceholderMoves ==
  ASSUME IInv, setup' = setup, ~Resends, NEW r \in Runs, NEW i \in Items, BindPlaceholder(r, i)
  PROVE  \A j \in Items : FateOf(j)' = FateOf(j) /\ sends'[j] = sends[j]
<1>1. /\ rec' = [rec EXCEPT ![i] = [rec[i] EXCEPT !.status = Placeholder]]
      /\ armed' = armed /\ sends' = sends
      /\ rec[i].status \in LegacyTerminal \cup {Placeholder}
  BY DEF BindPlaceholder, SecureWrite, Pending
<1>2. /\ \A j \in Items : j # i => rec'[j] = rec[j]
      /\ rec'[i].status = Placeholder /\ rec'[i].responseId = rec[i].responseId
      /\ rec[i].responseId \in BOOLEAN
  BY <1>1 DEF IInv, TypesOK, Record
<1>3. LedgerOK(i)
  BY DEF IInv, RecordsOK
<1>4. CASE rec[i].status \in {HttpError, NoDns, Transport}
  <2>1. ~rec[i].responseId
    BY <1>3, <1>4 DEF LedgerOK, HttpError, NoDns, Transport, Unvalidated, Validated, Rejected, Mended,
       Placeholder
  <2> QED BY <1>1, <1>2, <1>4, <2>1, FateIs, FateIsNext DEF FateOf
<1>5. CASE rec[i].status = Rejected
  <2>1. rec[i].responseId /\ rec[i].status \in Answered
    BY <1>3, <1>5 DEF LedgerOK, Answered
  <2> QED BY <1>1, <1>2, <2>1, FateIs, FateIsNext DEF FateOf
<1>6. CASE rec[i].status = Placeholder
  BY <1>1, <1>2, <1>6, FateIs, FateIsNext DEF FateOf
<1> QED BY <1>1, <1>4, <1>5, <1>6 DEF LegacyTerminal

LEMMA StepsAreLedgerSteps ==
  ASSUME IInv, [Next]_vars
  PROVE  LedgerStep
<1>0. setup' = setup
  BY DEF Next, vars, dispatchVars
<1>1. CASE Resends \/ (UNCHANGED <<rec, armed, sends>>)
  BY <1>0, <1>1, FatesStay DEF FateOf
<1>2. ASSUME ~Resends, NEW r \in Runs, NEW i \in Items, Work(r, i) PROVE LedgerStep
  BY <1>0, <1>2, WorkMoves, MovesAreLedgerSteps
<1>3. ASSUME ~Resends, NEW r \in Runs, NEW i \in Items, BindPlaceholder(r, i) PROVE LedgerStep
  BY <1>0, <1>3, BindPlaceholderMoves, FatesStay
<1>4. ASSUME NEW r \in Runs, Step(r), \A i \in Items : ~Work(r, i) /\ ~BindPlaceholder(r, i)
      PROVE  UNCHANGED <<rec, armed, sends>>
  BY <1>4 DEF Step, StartRun, RefuseCheckpoint, Crash, Manager, OpenWindow, RunFails, RunCompletes,
     RefuseLegacy, PersistPlaceholders, ReadCached, BeginItem, CollectRow, dispatchVars
<1>5. CASE UNCHANGED vars
  BY <1>1, <1>5 DEF vars, dispatchVars
<1>6. ASSUME NEW r \in setup.processes, Step(r) PROVE LedgerStep
  <2>1. r \in Runs
    BY ProfileIsOK DEF IInv, TypesOK, ProfileOK
  <2> QED BY <1>1, <1>2, <1>3, <1>4, <1>6, <2>1
<1> QED BY <1>5, <1>6 DEF Next

LEMMA InitIsALedgerInit == Init => Ledger!LedgerInit
<1> SUFFICES ASSUME Init PROVE Ledger!LedgerInit
  OBVIOUS
<1>1. \A i \in Promised : FateOf(i) = "ready" /\ sends[i] = 0
  BY BlankIs, FateIs DEF Init, DispatchInit, Promised, Unclaimed
<1> QED BY <1>1 DEF Ledger!LedgerInit

\* Across crashes, restarts and retries: no request leaves again while its outcome
\* is unknown or once it was answered, nor more often than the retry limits of its
\* judge allow (_claim_api_dispatch).  The link judge's requests are left out.
THEOREM LedgerIsImplemented == Spec => ImplementsLedger
<1>1. IInv /\ [Next]_vars => LedgerStep
  BY StepsAreLedgerSteps
<1> QED BY <1>1, InvariantHolds, InitIsALedgerInit, PTL
        DEF Spec, ImplementsLedger, Ledger!LedgerSpec, LedgerStep, Fates, Counts
==============================================================================
