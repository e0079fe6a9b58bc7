------------------------------- MODULE MCFiles -------------------------------
(***************************************************************************)
(* The files of the study for TLC: those of the evidence review, of the    *)
(* semantic grading, and of the incidents people triage.  A behaviour is   *)
(* about one of them, in a regime chosen at the start.                     *)
(***************************************************************************)
EXTENDS StudyFiles

CONSTANTS p1, s1, s2, t1, t2, j1, j2, cli, grader
VARIABLE part
all == <<part, reviewing, grading, triaging>>

TriageRegimes ==
    [\* One site that may die, and a second round with a shorter queue.
     alone |->
        [sites |-> {s1}, replies |-> {t1, t2}, clashing |-> {},
         triaged |-> <<{"i1", "i2"}, {"i2"}>>, may_die |-> TRUE, given |-> 3],
     \* Two sites, and a second round with the same episode to look at.
     together |->
        [sites |-> {s1, s2}, replies |-> {t1}, clashing |-> {},
         triaged |-> <<{"i1"}, {"i1"}>>, may_die |-> FALSE, given |-> 3]]

OfTriages == {TriageRegimes[r] : r \in DOMAIN TriageRegimes}
Episodes == {"i1", "i2"}
ReviewCommands == {"screen", "review", "causal", "calibrate", "adjudicate"}

MCInit ==
    /\ part \in {"review", "stages", "sample", "alone", "together"}
    /\ ReviewInit /\ PipelineInit /\ TriageInit
    /\ triage = TriageRegimes[IF part = "together" THEN "together" ELSE "alone"]

\* The answers may differ where no sample is frozen, and every judge is approved
\* or not where they cannot; the sample's runs make no cards for review.
StagesNext == PipelineNext /\ files'["smoke"] = None
SampleNext == /\ PipelineNext /\ evidence' = evidence
              /\ \A f \in FileNames : t2 \notin {files'[f].state, files'[f].causal}

MCNext ==
    /\ UNCHANGED part
    /\ \/ part = "review" /\ ReviewNext /\ UNCHANGED <<grading, triaging>>
       \/ part = "stages" /\ StagesNext /\ UNCHANGED <<reviewing, triaging>>
       \/ part = "sample" /\ SampleNext /\ UNCHANGED <<reviewing, triaging>>
       \/ part \in {"alone", "together"} /\ TriageNext /\ UNCHANGED <<reviewing, grading>>

MCSpec == MCInit /\ [][MCNext]_all
=============================================================================
