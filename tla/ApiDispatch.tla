----------------------------- MODULE ApiDispatch -----------------------------
(***************************************************************************)
(* The durable dispatch log of the research judges                         *)
(* (research/s0-validation/src/coordy/semantic.py): one record per judge,  *)
(* configuration and packet, created before the request leaves and         *)
(* rewritten at every step of its life.  The steps of one worker are the   *)
(* places where a crash, or another process, can come in between.          *)
(***************************************************************************)
EXTENDS Naturals, FiniteSets, FiniteSetsExt

CONSTANT Runs       \* the processes that may grade a stage

VARIABLES setup,    \* the judge's options, its runner's, how much it grades
          rec,      \* the record on disk, per item
          armed,    \* history: the request of the current claim has not left
          sends,    \* history: how often it was handed to the transport
          pc,       \* where the worker of a run and an item is
          plan,     \* what _claim_api_dispatch read before it rewrites a record
          result    \* the row a worker returned

dispatchVars == <<setup, rec, armed, sends, pc, plan, result>>

\* One of the profiles below, and the packets in input order.
Judge == setup.judge
Items == 1..setup.packets

------------------------------------------------------------------------------
(* Records                                                                  *)

Unknown    == "DISPATCHED_OUTCOME_UNKNOWN"
HttpError  == "HTTP_ERROR_NO_RETRY"
NoDns      == "NOT_DISPATCHED_DNS_FAILURE"
Transport  == "TRANSPORT_OUTCOME_UNKNOWN_NO_RETRY"
Unparsed   == "HTTP_RECEIVED_UNPARSED"
Unvalidated == "HTTP_COMPLETED_UNVALIDATED"
Validated  == "RESPONSE_VALIDATED_PENDING_CHECKPOINT"
Rejected   == "SEMANTIC_VALIDATION_FAILED_NO_RETRY"
Mended     == "SEMANTIC_RESULT_NORMALIZED_PENDING_CHECKPOINT"
Placeholder == "UNASSESSABLE_OUTPUT_FAILURE"

\* "ABSENT": no file; "EMPTY": created, its content not yet written.
Statuses == {"ABSENT", "EMPTY", Unknown, HttpError, NoDns, Transport, Unparsed,
             Unvalidated, Validated, Rejected, Mended, Placeholder}
Answered == {Unparsed, Unvalidated, Validated, Rejected, Mended}

\* http: 0 when no error answer is on record; requestId: the error answer named
\* one; failures: the recorded outcomes of this and of the earlier attempts;
\* responseId: the record names a response, which _update_api_dispatch merges
\* into later updates and never drops; accepted: accepted_result and its digest are stored; sound: the stored
\* response passes the judge's own local validation.
Blank == [status |-> "ABSENT", attempt |-> 0, http |-> 0, requestId |-> FALSE,
          failures |-> [k \in {"504", "502", "dns"} |-> 0],
          responseId |-> FALSE, accepted |-> FALSE, sound |-> FALSE]

FreshRecord(attempt, failures) ==
    [Blank EXCEPT !.status = Unknown, !.attempt = attempt, !.failures = failures]

NoRow == [kind |-> "none", attempt |-> 0]

\* _secure_write replaces the file in one rename: a record is never half written.
SecureWrite(i, record) == rec' = [rec EXCEPT ![i] = record]

Goto(r, i, label) == pc' = [pc EXCEPT ![r][i] = label]
Fail(r, i) == Goto(r, i, "failed")
Return(r, i, row) == /\ Goto(r, i, "graded")
                     /\ result' = [result EXCEPT ![r][i] = row]

------------------------------------------------------------------------------
(* Judges: what each one lets _claim_api_dispatch do with a record it finds *)
(* and what its grade() does with the status it reads back                 *)

\* The State Diff judge re-reads a rejected result through its normaliser.
StateJudge(retry504) ==
    [retry504 |-> retry504, retry502 |-> FALSE, max504 |-> 3,
     returnsRejected |-> TRUE, renormalizes |-> TRUE, recovers |-> FALSE,
     storesAccepted |-> FALSE, maxAttempts |-> IF retry504 THEN 3 ELSE 1,
     checksAttempts |-> FALSE]

\* The causal judge never touches a record it finds.
CausalJudge ==
    [retry504 |-> FALSE, retry502 |-> FALSE, max504 |-> 3,
     returnsRejected |-> FALSE, renormalizes |-> FALSE, recovers |-> FALSE,
     storesAccepted |-> FALSE, maxAttempts |-> 1, checksAttempts |-> FALSE]

\* The trajectory judge: like the State Diff judge, with retries of 502 as well.
TrajectoryJudge(retry504, retry502) ==
    [StateJudge(retry504) EXCEPT !.retry502 = retry502, !.maxAttempts = 8]

\* The fragment judge has the branch for a rejected result, but does not ask
\* the claim to return one.
FragmentJudge(retry504, retry502) ==
    [TrajectoryJudge(retry504, retry502) EXCEPT !.returnsRejected = FALSE]

\* The link judge asks for rejected results and never looks at the status.
LinkJudge(retry504, retry502) ==
    [TrajectoryJudge(retry504, retry502) EXCEPT !.renormalizes = FALSE]

\* The incident causal judge recovers a validated response it finds on disk and
\* refuses a response of an attempt above three.
IncidentJudge(retry504, retry502) ==
    [FragmentJudge(retry504, retry502) EXCEPT
        !.renormalizes = FALSE, !.recovers = TRUE, !.storesAccepted = TRUE,
        !.maxAttempts = 3, !.checksAttempts = TRUE]

\* Action probes and checks grade one packet: a probe once with the warning and
\* once without, a check once.
ActionProbe == CausalJudge
ActionJudge == CausalJudge

------------------------------------------------------------------------------
(* _claim_api_dispatch                                                      *)

Retryable504(x) == /\ x.status = HttpError /\ x.http = 504
                   /\ ~x.requestId /\ ~x.responseId
                   /\ x.failures["504"] < Judge.max504
Retryable502(x) == /\ Judge.retry502
                   /\ x.status = HttpError /\ x.http = 502
                   /\ ~x.responseId
                   /\ x.failures["502"] < 2

RetryableDns(x) == x.status = NoDns /\ x.failures["dns"] < 3

ReturnsAsIs(x) == \/ Judge.returnsRejected /\ x.status = Rejected
                  \/ Judge.recovers /\ x.status = Validated

Retryable(x) == /\ Judge.retry504 \/ Judge.retry502
                /\ Retryable504(x) \/ Retryable502(x) \/ RetryableDns(x)

\* Mutant: the record is created without O_EXCL: who finds it empty takes it too.
CreateShared(r, i) ==
    /\ pc[r][i] = "begun" /\ rec[i].status \in {"ABSENT", Unknown}
    /\ SecureWrite(i, [Blank EXCEPT !.status = "EMPTY"])
    /\ Goto(r, i, "created")
    /\ UNCHANGED <<armed, sends, plan, result>>

\* O_EXCL: whoever creates the file owns the request; its content follows.
CreateRecord(r, i) ==
    /\ pc[r][i] = "begun" /\ rec[i].status = "ABSENT"
    /\ SecureWrite(i, [Blank EXCEPT !.status = "EMPTY"])
    /\ Goto(r, i, "created")
    /\ UNCHANGED <<armed, sends, plan, result>>

FillRecord(r, i) ==
    /\ pc[r][i] = "created"
    /\ SecureWrite(i, FreshRecord(1, Blank.failures))
    /\ armed' = [armed EXCEPT ![i] = TRUE]
    /\ Goto(r, i, "claimed")
    /\ UNCHANGED <<sends, plan, result>>

\* A record is there already: return it, plan to rewrite it, or refuse.
ReadRecord(r, i) ==
    /\ pc[r][i] = "begun" /\ rec[i].status # "ABSENT"
    /\ \/ /\ ReturnsAsIs(rec[i])
          /\ Goto(r, i, "claimed")
          /\ UNCHANGED plan
       \/ /\ ~ReturnsAsIs(rec[i]) /\ Retryable(rec[i])
          /\ plan' = [plan EXCEPT ![r][i] = rec[i]]
          /\ Goto(r, i, "rearming")
       \/ /\ ~ReturnsAsIs(rec[i]) /\ ~Retryable(rec[i])
          /\ Goto(r, i, "refused")
          /\ UNCHANGED plan
    /\ UNCHANGED <<rec, armed, sends, result>>

\* The failed attempt moves to prior_attempts and the record starts over.
RearmRecord(r, i) ==
    /\ pc[r][i] = "rearming"
    /\ SecureWrite(i, FreshRecord(plan[r][i].attempt + 1, plan[r][i].failures))
    /\ armed' = [armed EXCEPT ![i] = TRUE]
    /\ Goto(r, i, "claimed")
    /\ UNCHANGED <<sends, plan, result>>

ClaimApiDispatch(r, i) == \/ CreateRecord(r, i) \/ FillRecord(r, i)
                          \/ ReadRecord(r, i) \/ RearmRecord(r, i)

------------------------------------------------------------------------------
(* grade(): a result already on disk                                        *)

Renormalizing(i) == Judge.renormalizes /\ rec[i].status = Rejected
Recovering(i) == Judge.recovers /\ rec[i].status = Validated

\* Mutant: the mended row is returned and the record keeps its rejection.
RenormalizeUnmarked(r, i, mends) ==
    /\ pc[r][i] = "claimed" /\ Renormalizing(i)
    /\ IF mends THEN Return(r, i, [kind |-> "mended", attempt |-> rec[i].attempt])
                ELSE Fail(r, i) /\ UNCHANGED result
    /\ UNCHANGED <<rec, armed, sends, plan>>

\* The rejected result is normalised again, by the code of today: it may pass
\* now (mends), or fail as before, which is an error and changes nothing.
Renormalize(r, i, mends) ==
    /\ pc[r][i] = "claimed" /\ Renormalizing(i)
    /\ IF mends
       THEN /\ SecureWrite(i, [rec[i] EXCEPT !.status = Mended])
            /\ Return(r, i, [kind |-> "mended", attempt |-> rec[i].attempt])
       ELSE Fail(r, i) /\ UNCHANGED <<rec, result>>
    /\ UNCHANGED <<armed, sends, plan>>

\* A validated response is revalidated, bound and returned without a request.
RecoverValidated(r, i) ==
    /\ pc[r][i] = "claimed" /\ Recovering(i)
    /\ IF rec[i].accepted \/ rec[i].sound
       THEN /\ SecureWrite(i, [rec[i] EXCEPT !.accepted = TRUE])
            /\ Return(r, i, [kind |-> "judged", attempt |-> rec[i].attempt])
       ELSE Fail(r, i) /\ UNCHANGED <<rec, result>>
    /\ UNCHANGED <<armed, sends, plan>>

------------------------------------------------------------------------------
(* _run_responses_api_structured                                            *)

SendRequest(r, i) ==
    /\ pc[r][i] = "claimed" /\ ~Renormalizing(i) /\ ~Recovering(i)
    /\ sends' = [sends EXCEPT ![i] = @ + 1]
    /\ armed' = [armed EXCEPT ![i] = FALSE]
    /\ Goto(r, i, "sent")
    /\ UNCHANGED <<rec, plan, result>>

Counted(x, kind) == [x.failures EXCEPT ![kind] = @ + 1]

\* An HTTP error: its code, and whether the answer named the request, is kept.
HttpErrorAnswer(r, i) ==
    /\ pc[r][i] = "sent"
    /\ \E code \in {500, 502, 504}, named \in BOOLEAN :
          SecureWrite(i, [rec[i] EXCEPT
              !.status = HttpError, !.http = code, !.requestId = named,
              !.failures = CASE code = 504 -> Counted(rec[i], "504")
                             [] code = 502 -> Counted(rec[i], "502")
                             [] OTHER -> @])
    /\ Fail(r, i)
    /\ UNCHANGED <<armed, sends, plan, result>>

\* The name was not resolved, or the connection broke: only the first is known
\* not to have reached the service.
TransportError(r, i) ==
    /\ pc[r][i] = "sent"
    /\ \E status \in {NoDns, Transport} :
          SecureWrite(i, [rec[i] EXCEPT
              !.status = status,
              !.failures = IF status = NoDns THEN Counted(rec[i], "dns") ELSE @])
    /\ Fail(r, i)
    /\ UNCHANGED <<armed, sends, plan, result>>

\* A timeout while the body is read is none of the caught errors: the record
\* stays as it was claimed.
ReadTimeout(r, i) ==
    /\ pc[r][i] = "sent"
    /\ Fail(r, i)
    /\ UNCHANGED <<rec, armed, sends, plan, result>>

\* A body arrived: not JSON, or outside the frozen response contract, or good.
ResponseReceived(r, i) ==
    /\ pc[r][i] = "sent"
    /\ \/ /\ \E status \in {Unparsed, Unvalidated} :
                SecureWrite(i, [rec[i] EXCEPT
                    !.status = status, !.responseId = @ \/ status = Unvalidated])
          /\ Fail(r, i)
       \/ /\ \E sound \in BOOLEAN :
                SecureWrite(i, [rec[i] EXCEPT
                    !.status = Validated, !.responseId = TRUE,
                    !.sound = sound /\ (Judge.checksAttempts => rec[i].attempt \in 1..3)])
          /\ Goto(r, i, "answered")
    /\ UNCHANGED <<armed, sends, plan, result>>

\* The judge's own validation, with the rejected or the accepted result stored.
LocalValidation(r, i) ==
    /\ pc[r][i] = "answered"
    /\ IF rec[i].sound
       THEN /\ SecureWrite(i, [rec[i] EXCEPT !.accepted = Judge.storesAccepted])
            /\ Return(r, i, [kind |-> "judged", attempt |-> rec[i].attempt])
       ELSE /\ SecureWrite(i, [rec[i] EXCEPT !.status = Rejected])
            /\ Fail(r, i) /\ UNCHANGED result
    /\ UNCHANGED <<armed, sends, plan>>

RunResponsesApi(r, i) == \/ SendRequest(r, i) \/ HttpErrorAnswer(r, i)
                         \/ TransportError(r, i) \/ ReadTimeout(r, i)
                         \/ ResponseReceived(r, i) \/ LocalValidation(r, i)

Grade(r, i) == \/ ClaimApiDispatch(r, i)
               \/ \E mends \in BOOLEAN : Renormalize(r, i, mends)
               \/ RecoverValidated(r, i)
               \/ RunResponsesApi(r, i)

Labels == {"idle", "begun", "created", "rearming", "claimed", "sent", "answered",
           "graded", "failed", "refused", "done"}
Ended == {"failed", "refused", "done"}

DispatchInit ==
    /\ rec = [i \in Items |-> Blank]
    /\ armed = [i \in Items |-> FALSE]
    /\ sends = [i \in Items |-> 0]
    /\ pc = [r \in Runs |-> [i \in Items |-> "idle"]]
    /\ plan = [r \in Runs |-> [i \in Items |-> Blank]]
    /\ result = [r \in Runs |-> [i \in Items |-> NoRow]]
==============================================================================
