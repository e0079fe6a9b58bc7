----------------------------- MODULE JudgeSafety -----------------------------
(***************************************************************************)
(* What the dispatch log and the checkpoints guarantee of a graded stage.  *)
(***************************************************************************)
EXTENDS JudgeRuns

CONSTANT Packets    \* the packets of any setup
ASSUME SetupsFit == \A s \in Setups : 1..s.packets \subseteq Packets

\* The sends the judge's retry limits add up to.
Budget == IF ~Judge.retry504 /\ ~Judge.retry502 THEN 1
          ELSE Judge.max504 + 2 + (IF Judge.retry502 THEN 1 ELSE 0)

\* Every record, row and program counter is one the code can produce.
JudgeTypeOK ==
    /\ \A i \in Items : /\ rec[i].status \in Statuses
                        /\ rec[i].attempt \in 0..Budget
                        /\ sends[i] \in Nat
                        /\ checkpoint[i].kind \in {"none", "judged", "mended", "placeholder"}
    /\ pc \in [Runs -> [Items -> Labels]]
    /\ phase \in [Runs -> {"down", "binding", "grading", "regrading"}]
    /\ window \in [Runs -> SUBSET Items]

\* The abstract fate of a request: a claimed record whose request has not left
\* is ready, one that left without an outcome is out, a recorded error is
\* failed, and a record that names a response is answered.
FateOf(i) ==
    CASE rec[i].status \in {"ABSENT", "EMPTY"} -> "ready"
      [] rec[i].status = Unknown -> IF armed[i] THEN "ready" ELSE "out"
      [] rec[i].status \in Answered -> "answered"
      [] rec[i].status = Placeholder /\ rec[i].responseId -> "answered"
      [] OTHER -> "failed"

\* The link judge alone sends a rejected request again whenever it is run: the
\* ledger makes no promise about it (see the README).
Resends == Judge.returnsRejected /\ ~Judge.renormalizes
Promised == IF Resends THEN {} ELSE Items

Ledger == INSTANCE RequestLedger WITH
    Items <- Packets, budget <- Budget,
    fate <- [i \in Packets |-> IF i \in Promised THEN FateOf(i) ELSE "ready"],
    sends <- [i \in Packets |-> IF i \in Promised THEN sends[i] ELSE 0]

\* The dispatch log implements the request ledger: across crashes and restarts
\* no request leaves again while its outcome is unknown or once it was answered,
\* and a failed one leaves at most Budget times (_claim_api_dispatch).
ImplementsLedger == Ledger!LedgerSpec

\* A row of the checkpoint is backed by the log: a judged row by a validated
\* response that is sound, a mended row by a record marked as normalised, a
\* placeholder by the record that binds it; whatever runs came in between.
RowsAreBacked ==
    \A i \in Items :
        LET row == checkpoint[i]
        IN  /\ row.kind = "judged" => rec[i].status = Validated /\ rec[i].sound
            /\ row.kind = "mended" => rec[i].status = Mended
            /\ row.kind = "placeholder" => rec[i].status = Placeholder
            /\ row.kind # "none" => row.attempt = rec[i].attempt

\* The checkpoint a run leaves behind passes the next run's own check of it, so
\* that a stage can always be resumed.  (The State Diff judge counts its retries
\* of 504 answers and of lookups apart and checks their sum: see the README.)
CheckpointStaysReadable ==
    ~(Runner.check = "attempt" /\ Judge.retry504) =>
        \A i \in Items : RowIsReadable(i, checkpoint[i])

\* A manifest that calls the stage COMPLETE binds a checkpoint with every row.
ManifestCoversInputs == manifest.bound => \A i \in Items : manifest.rows[i] # NoRow

\* Where the judge recovers what it stored: a response that passed every check
\* is never turned down when its item is claimed again.
NoSoundAnswerRefused ==
    Judge.recovers =>
        \A r \in Runs, i \in Items :
            pc[r][i] = "refused" => ~(rec[i].status = Validated /\ rec[i].sound)

\* What a run leaves behind is true and can be gone on with: its rows are backed
\* by the log and cover what the manifest binds, and neither the next check of
\* the checkpoint nor the next claim turns down what was sound.
CheckpointIsSound == /\ JudgeTypeOK /\ RowsAreBacked /\ ManifestCoversInputs
                     /\ CheckpointStaysReadable /\ NoSoundAnswerRefused

\* Under the lock: an accepted row stays in the checkpoint, unchanged, whatever
\* later runs do.
RowsSurvive ==
    [][Runner.locked =>
        \A i \in Items : checkpoint[i] # NoRow => checkpoint'[i] = checkpoint[i]]_vars

\* A started run comes to its end: it completes, fails or is killed.
RunEnds == \A r \in Runs : phase[r] # "down" ~> phase[r] = "down"
==============================================================================
