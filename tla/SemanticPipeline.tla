--------------------------- MODULE SemanticPipeline ---------------------------
(***************************************************************************)
(* The stages of the semantic grading and the files they hand to each      *)
(* other: prepare-s0b, the smoke sample, the state judges, people's        *)
(* calibration, and the causal stage.  One lock keeps the stages apart,    *)
(* the manifest binds each file by its hash, every file is replaced        *)
(* atomically, and a command may die between any two of its writes.        *)
(* screen and review-s0 take no lock, and the last stage writes two of the  *)
(* latter's files.  What a judge does inside one run is JudgeRuns.         *)
(***************************************************************************)
CONSTANTS Scans,   \* screenings, in any order, each with an id of its own
          Takes,   \* how differently a judge may answer
          Judges   \* judge configurations a smoke run may be asked for

ASSUME MarksAreApart ==
  "none" \notin Scans /\ "none" \notin Judges /\ Takes \cap {"-", "part"} = {}

VARIABLES
  seen, scan,     \* the screenings made so far and the current one
  files,          \* what each file on disk was made from
  bound,          \* the semantic manifest: the content whose hash it holds
  smoke,          \* the smoke sample's own manifest
  results,        \* the smoke sample's checkpoint
  approved, sent, \* payloads and judges a person approved, and those sent out
  answered,        \* queues people have answered, by their content
  evidence,       \* the cards of the S0 review, and those its manifest binds
  at, died        \* the running command's next step; the step it died at last

grading == <<seen, scan, files, bound, smoke, results, approved, sent, answered, evidence,
             at, died>>

\* A content is known by the screening and the judgements it was made from.
Content(s, state, causal) == [scan |-> s, state |-> state, causal |-> causal]
None == Content("none", "-", "-")
Marks == Takes \cup {"-", "part"}
Contents == [scan : Scans, state : Marks, causal : Marks] \cup {None}

FileNames == {"inputs", "smoke", "judged", "causal_inputs", "causal_judged"}
BoundNames == {"inputs", "judged", "state_answers", "causal_inputs", "causal_judged",
               "causal_answers"}

Nothing == [payload |-> None, judge |-> "none", outcome |-> "none"]

NoStage == at = "idle"
StageGoes(step) == at' = step
StageEnds == StageGoes("idle")
Keep(file) == files[file] = bound[file] /\ files[file] # None

-----------------------------------------------------------------------------
\* screen: nothing keeps it from running while a stage does.
Screen == /\ \E s \in Scans \ seen : scan' = s /\ seen' = seen \cup {s}
          /\ UNCHANGED <<files, bound, smoke, results, approved, sent,
                         answered, evidence, at, died>>

\* prepare-s0b rebuilds the packets of the current screening.
PrepareWrites == /\ NoStage /\ scan # "none"
                 /\ files' = [files EXCEPT !["inputs"] = Content(scan, "-", "-")]
                 /\ StageGoes("prepare") /\ died' = "none"
                 /\ UNCHANGED <<seen, scan, bound, smoke, results, approved,
                                sent, answered, evidence>>

\* A fresh manifest: what was bound for an earlier screening is forgotten.
PrepareBinds == /\ at = "prepare"
                /\ bound' = [n \in BoundNames |-> IF n = "inputs" THEN files["inputs"] ELSE None]
                /\ StageEnds
                /\ UNCHANGED <<seen, scan, files, smoke, results, approved,
                               sent, answered, evidence, died>>

-----------------------------------------------------------------------------
\* prepare-s0b-smoke: the sample is frozen once; half of one is refused too.
FreezeSample == /\ NoStage /\ Keep("inputs") /\ files["smoke"] = None /\ smoke = Nothing
                /\ files' = [files EXCEPT !["smoke"] = files["inputs"]]
                /\ StageGoes("freeze") /\ died' = "none"
                /\ UNCHANGED <<seen, scan, bound, smoke, results, approved,
                               sent, answered, evidence>>

FreezeBinds == /\ at = "freeze"
               /\ smoke' = [payload |-> files["smoke"], judge |-> "none", outcome |-> "pending"]
               /\ StageEnds
               /\ UNCHANGED <<seen, scan, files, bound, results, approved,
                              sent, answered, evidence, died>>

\* A person approves the hash of the payload together with a judge's.
Approve == /\ smoke # Nothing
           /\ \E j \in Judges : approved' = approved \cup {[payload |-> smoke.payload, judge |-> j]}
           /\ UNCHANGED <<seen, scan, files, bound, smoke, results, sent,
                          answered, evidence, at, died>>

\* grade-s0b-smoke is given both hashes; results of another judge are refused.
MayGrade(j) == /\ smoke # Nothing /\ files["smoke"] = smoke.payload
               /\ [payload |-> smoke.payload, judge |-> j] \in approved
               /\ results.judge \in {"none", j}

\* The judge answers for the whole sample, safely or not, or gives up on it.
GradeSample(j) ==
  /\ NoStage /\ MayGrade(j) /\ died' = "none"
  /\ IF results.outcome \in {"safe", "unsafe"}
     THEN StageGoes("report") /\ UNCHANGED <<results, sent>>
     ELSE /\ sent' = sent \cup {[payload |-> smoke.payload, judge |-> j]}
          /\ \E o \in {"safe", "unsafe", "part"} :
               /\ results' = [payload |-> smoke.payload, judge |-> j, outcome |-> o]
               /\ StageGoes(IF o = "part" THEN "abort" ELSE "report")
  /\ UNCHANGED <<seen, scan, files, bound, smoke, approved, answered, evidence>>

\* Report, then manifest: aborted, or as the gate over the results decides.
GradeEnds == /\ at \in {"report", "abort"}
             /\ smoke' = [smoke EXCEPT
                  !.judge = results.judge,
                  !.outcome = CASE at = "abort" -> "aborted"
                                [] results.outcome = "safe" -> "passed"
                                [] OTHER -> "failed"]
             /\ StageEnds
             /\ UNCHANGED <<seen, scan, files, bound, results, approved, sent,
                            answered, evidence, died>>

-----------------------------------------------------------------------------
\* Mutant: rows of another screening's inputs are overwritten, not refused.
MayJudgeStale == Keep("inputs")

\* grade-s0b-state: rows saved for other inputs are never mixed with these.
MayJudge == Keep("inputs") /\ files["judged"].scan \in {"none", files["inputs"].scan}

\* Primary and secondary rows are saved one by one, so a run may end partway;
\* what is whole is not asked for again.
Judge == /\ NoStage /\ MayJudge /\ died' = "none"
         /\ IF files["judged"].scan = files["inputs"].scan /\ files["judged"].state \in Takes
            THEN StageGoes("judge") /\ UNCHANGED files
            ELSE \E t \in Takes \cup {"part"} :
                   /\ files' = [files EXCEPT !["judged"] = Content(files["inputs"].scan, t, "-")]
                   /\ StageGoes(IF t = "part" THEN "idle" ELSE "judge")
         /\ UNCHANGED <<seen, scan, bound, smoke, results, approved, sent,
                        answered, evidence>>

\* Rows, consensus and calibration queue are written, then the manifest.
JudgeBinds == /\ at = "judge"
              /\ bound' = [bound EXCEPT !["judged"] = files["judged"]]
              /\ StageEnds
              /\ UNCHANGED <<seen, scan, files, smoke, results, approved, sent,
                             answered, evidence, died>>

\* People answer a queue the manifest binds.
FillInQueue == /\ \E n \in {"judged", "causal_judged"} :
                    bound[n] # None /\ answered' = answered \cup {bound[n]}
               /\ UNCHANGED <<seen, scan, files, bound, smoke, results,
                              approved, sent, evidence, at, died>>

\* calibrate-s0b-state measures the judges against people; nothing waits for it.
MayCalibrate == Keep("judged") /\ bound["judged"] \in answered
Calibrate == /\ NoStage /\ MayCalibrate
             /\ StageGoes("calibrate") /\ died' = "none"
             /\ UNCHANGED <<seen, scan, files, bound, smoke, results, approved,
                            sent, answered, evidence>>

CalibrateBinds == /\ at = "calibrate"
                  /\ bound' = [bound EXCEPT !["state_answers"] = files["judged"]]
                  /\ StageEnds
                  /\ UNCHANGED <<seen, scan, files, smoke, results, approved,
                                 sent, answered, evidence, died>>

-----------------------------------------------------------------------------
\* prepare-s0b-causal: every suspect of the bound primary rows, from the
\* sessions of the screening the manifest is about.
MayPrepareCausal == Keep("inputs") /\ Keep("judged") /\ scan = bound["inputs"].scan
PrepareCausal == /\ NoStage /\ MayPrepareCausal
                 /\ files' = [files EXCEPT !["causal_inputs"] = files["judged"]]
                 /\ StageGoes("prepare_causal") /\ died' = "none"
                 /\ UNCHANGED <<seen, scan, bound, smoke, results, approved,
                                sent, answered, evidence>>

\* The earlier causal results are unbound, the earlier calibration is not.
PrepareCausalBinds ==
  /\ at = "prepare_causal"
  /\ bound' = [bound EXCEPT !["causal_inputs"] = files["causal_inputs"], !["causal_judged"] = None]
  /\ StageEnds
  /\ UNCHANGED <<seen, scan, files, smoke, results, approved, sent, answered,
                 evidence, died>>

\* grade-s0b-causal, with rows saved for these very packets or none.
MayJudgeCausal == /\ Keep("causal_inputs")
                  /\ \/ files["causal_judged"] = None
                     \/ /\ files["causal_judged"].scan = files["causal_inputs"].scan
                        /\ files["causal_judged"].state = files["causal_inputs"].state

JudgeCausal ==
  /\ NoStage /\ MayJudgeCausal /\ died' = "none"
  /\ IF files["causal_judged"].causal \in Takes
     THEN StageGoes("judge_causal") /\ UNCHANGED files
     ELSE \E t \in Takes \cup {"part"} :
            /\ files' = [files EXCEPT
                 !["causal_judged"] = [files["causal_inputs"] EXCEPT !.causal = t]]
            /\ StageGoes(IF t = "part" THEN "idle" ELSE "judge_causal")
  /\ UNCHANGED <<seen, scan, bound, smoke, results, approved, sent, answered,
                 evidence>>

JudgeCausalBinds == /\ at = "judge_causal"
                    /\ bound' = [bound EXCEPT !["causal_judged"] = files["causal_judged"]]
                    /\ StageEnds
                    /\ UNCHANGED <<seen, scan, files, smoke, results, approved,
                                   sent, answered, evidence,
                                   died>>

\* review-s0 makes cards nobody has classified and binds them, or dies before that.
ReviewS0 == /\ scan # "none"
            /\ LET fresh == Content(scan, "-", "-") IN
               evidence' \in {[cards |-> fresh, bound |-> b] : b \in {fresh, evidence.bound}}
            /\ UNCHANGED <<seen, scan, files, bound, smoke, results, approved,
                           sent, answered,
                           at, died>>

\* calibrate-s0b-causal measures the judges and writes people's classes down.
MayMeasureCausal == Keep("causal_judged") /\ bound["causal_judged"] \in answered
CalibrateCausal == /\ NoStage /\ MayMeasureCausal
                   /\ StageGoes("classify") /\ died' = "none"
                   /\ UNCHANGED <<seen, scan, files, bound, smoke, results,
                                  approved, sent,
                                  answered, evidence>>

\* If the S0 review has both its files, the classes go into its cards, which must
\* be the bound ones and of this screening; otherwise the command ends in an error.
Reviewed == None \notin {evidence.cards, evidence.bound}
MayClassify == Reviewed => /\ evidence.cards = evidence.bound
                           /\ evidence.bound.scan = bound["inputs"].scan

ClassifyCards ==
  /\ at = "classify"
  /\ \/ Reviewed /\ MayClassify /\ StageGoes("rebind")
        /\ evidence' = [evidence EXCEPT !.cards = files["causal_judged"]]
     \/ ~Reviewed /\ StageGoes("calibrate_causal") /\ UNCHANGED evidence
     \/ ~MayClassify /\ StageEnds /\ UNCHANGED evidence
  /\ UNCHANGED <<seen, scan, files, bound, smoke, results, approved, sent,
                 answered, died>>

\* Only then are the classified cards bound.
RebindCards ==
  /\ at = "rebind"
  /\ evidence' = [evidence EXCEPT !.bound = files["causal_judged"]]
  /\ StageGoes("calibrate_causal")
  /\ UNCHANGED <<seen, scan, files, bound, smoke, results, approved, sent,
                 answered, died>>

CalibrateCausalBinds ==
  /\ at = "calibrate_causal"
  /\ bound' = [bound EXCEPT !["causal_answers"] = files["causal_judged"]]
  /\ StageEnds
  /\ UNCHANGED <<seen, scan, files, smoke, results, approved, sent, answered,
                 evidence, died>>

-----------------------------------------------------------------------------
\* A file that is being replaced is whole afterwards, or as it was.
StageDies == /\ ~NoStage /\ StageEnds /\ died' = at
             /\ UNCHANGED <<seen, scan, files, bound, smoke, results, approved,
                            sent, answered, evidence>>

PipelineInit ==
  /\ seen = {} /\ scan = "none" /\ at = "idle" /\ died = "none"
  /\ files = [f \in FileNames |-> None] /\ bound = [n \in BoundNames |-> None]
  /\ smoke = Nothing /\ results = Nothing
  /\ approved = {} /\ sent = {} /\ answered = {} /\ evidence = [cards |-> None, bound |-> None]

PipelineNext ==
  \/ Screen \/ PrepareWrites \/ PrepareBinds
  \/ FreezeSample \/ FreezeBinds \/ Approve \/ (\E j \in Judges : GradeSample(j)) \/ GradeEnds
  \/ Judge \/ JudgeBinds \/ FillInQueue \/ Calibrate \/ CalibrateBinds
  \/ PrepareCausal \/ PrepareCausalBinds \/ JudgeCausal \/ JudgeCausalBinds
  \/ ReviewS0 \/ CalibrateCausal \/ ClassifyCards \/ RebindCards \/ CalibrateCausalBinds
  \/ StageDies

PipelineSpec == PipelineInit /\ [][PipelineNext]_grading
-----------------------------------------------------------------------------
\* Every content is one of the program's, and the manifest binds nothing partial.
PipelineTypeOK == /\ files \in [FileNames -> Contents] /\ bound \in [BoundNames -> Contents]
                  /\ \A n \in BoundNames : "part" \notin {bound[n].state, bound[n].causal}
                  /\ results.judge \in Judges \cup {"none"} /\ scan \in Scans \cup {"none"}
                  /\ evidence \in [cards : Contents, bound : Contents]

\* Of one screening, one set of state judgements and one of causal judgements.
Agree(marks) == \A a, b \in marks : a = b
BoundOfOneRun == LET held == {bound[n] : n \in BoundNames} \ {None} IN
  /\ Agree({c.scan : c \in held})
  /\ Agree({c.state : c \in held} \ {"-"})
  /\ Agree({c.causal : c \in held} \ {"-"})

\* A command that died can be given again and is accepted, while its screening
\* is still the current one.  There are two exceptions: half of a frozen sample
\* stays, and cards classified but not yet bound are refused until review-s0 has
\* made them anew.  Dead after that, the causal calibration finds them bound,
\* unless review-s0 has replaced them.
DiedMayBeRerun ==
  died # "none" /\ NoStage /\ scan = bound["inputs"].scan /\ Keep("inputs") =>
    CASE died = "judge" -> MayJudge
      [] died = "prepare_causal" -> MayPrepareCausal
      [] died = "judge_causal" -> MayJudgeCausal
      [] died \in {"report", "abort"} -> \E j \in Judges : MayGrade(j)
      [] died = "calibrate" -> MayCalibrate
      [] died \in {"classify", "rebind"} -> MayMeasureCausal
      [] died = "calibrate_causal" ->
           MayMeasureCausal /\ (evidence.cards = files["causal_judged"] => MayClassify)
      [] OTHER -> TRUE

\* All that the semantic manifest binds was made in one run of the stages,
\* whatever was run again, and a stage that died can be run again, but for a
\* half-frozen sample and for cards that were classified and not bound.
ManifestIsOneRun == PipelineTypeOK /\ BoundOfOneRun /\ DiedMayBeRerun

\* A sample goes out only to a judge approved for that very payload, and only
\* complete, safe results of such a judge make it pass.
SmokeRestsOnApproval ==
  /\ sent \subseteq approved
  /\ smoke.outcome = "passed" =>
       /\ results.outcome = "safe" /\ results.payload = smoke.payload
       /\ [payload |-> smoke.payload, judge |-> smoke.judge] \in approved

\* Complete judgements, which were paid for, and the frozen sample, which was
\* approved, are never replaced.
KeepsPaidAnswers ==
  /\ files["judged"].state \in Takes => files'["judged"] = files["judged"]
  /\ files["causal_judged"].causal \in Takes => files'["causal_judged"] = files["causal_judged"]
  /\ files["smoke"] # None => files'["smoke"] = files["smoke"]

PaidAnswersStay == [][KeepsPaidAnswers]_grading
=============================================================================
