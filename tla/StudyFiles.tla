---------------------------- MODULE StudyFiles ----------------------------
(***************************************************************************)
(* The study's workspace: the files of the evidence review, those of the   *)
(* semantic grading and those of the people's triage.  The three run side  *)
(* by side.  Two files are written from two groups, the review's cards and *)
(* their manifest, by the causal calibration: EvidenceReview has that      *)
(* command between the review's own, and SemanticPipeline the review       *)
(* between the stages.  What the study may rest on is what all three keep. *)
(***************************************************************************)
EXTENDS EvidenceReview, SemanticPipeline, HumanTriage

\* What the study binds is what was judged and said: the semantic manifest binds
\* the files of one run of the stages, and a stage that died can be run again (but
\* for cards it classified and did not bind, and half a sample); a sample is sent
\* to approved judges and passes by their answers alone; and the Ground Truth is
\* what people said of its queue, all of it.
BoundIsWhatWasGiven == ManifestIsOneRun /\ SmokeRestsOnApproval /\ TruthWasGiven

\* No command takes an answer away: neither judgements that were paid for nor
\* the frozen sample, nor what people saved in the draft of a triage.
AnswersAreKept ==
  [][[KeepsPaidAnswers]_grading /\ [KeepsSavedAnswers]_triaging]_<<grading, triaging>>
=============================================================================
