----------------------------- MODULE HumanTriage -----------------------------
(***************************************************************************)
(* People confirm the causal prelabels of incidents (incidents.py,         *)
(* review_ui.py).  prepare-incident-causal-review freezes a queue from the *)
(* prelabels, a local site collects answers into a draft, and finalizing   *)
(* the site, or adjudicate-incident-causal-review on a file of answers,    *)
(* writes the Ground Truth.  Files are replaced atomically but one by one; *)
(* a site locks out its own requests only, and nothing else is locked.     *)
(*                                                                         *)
(* A file made from the prelabels of a round is that round, and so is its  *)
(* hash.  Reading is modelled where it happens in one go; the trajectory   *)
(* manifest is read first, and written back as read at the end.            *)
(***************************************************************************)
EXTENDS Naturals, Sequences, FiniteSets

CONSTANTS Sites, Cli, Grader,
          Items,    \* the episodes of the prelabels
          Replies,  \* what a person may answer of an episode
          Triages   \* what triages there may be

\* In which sites and by which replies, some of which add an episode under a key
\* already taken; whom each round's machine class makes people look at.
TriageSets == [sites : SUBSET Sites, replies : SUBSET Replies, clashing : SUBSET Replies,
               triaged : Seq(SUBSET Items), may_die : BOOLEAN,
               given : Nat]    \* bound: answers given

ASSUME TriagesAssumption ==
  /\ Triages \subseteq TriageSets
  /\ \A t \in Triages : t.triaged # <<>>

VARIABLES
  graded,  \* the round the causal inputs and prelabels are of
  record,  \* trajectory_manifest.json: the round bound, and the Ground Truth bound
  prepared,   \* the round each file of the prepared review is of
  aux,     \* the round a sibling workspace's auxiliary review is of, if there is one
  draft, template, truth,  \* answers: in progress, to be adjudicated, decided
  site,    \* each site: the round it has loaded, and whether it is finalized
  job,     \* what each process is doing, with what it has read
  given,   \* every answer a person has given, and to what
  triage   \* what happens in this triage, settled once

triaging == <<graded, record, prepared, aux, draft, template, truth, site, job, given, triage>>

Triaged == triage.triaged
Rounds == DOMAIN Triaged
Processes == Sites \cup {Cli, Grader}
Written == <<"full", "triage", "context", "triageManifest", "reviewManifest">>
NoAnswers == [round |-> 0, kind |-> "NONE", answers |-> <<>>]
NoJob == [at |-> "idle", record |-> [round |-> 0, truth |-> NoAnswers], answers |-> NoAnswers]
Down == [round |-> 0, finalized |-> FALSE]

Queue(round, kind) == IF kind = "TRIAGED" THEN Triaged[round] ELSE Items
At(p, step) == job[p].at = step
JobGoes(p, step) == job' = [job EXCEPT ![p].at = step]
JobEnds(p) == job' = [job EXCEPT ![p] = NoJob]

-----------------------------------------------------------------------------
\* Inputs and prelabels are made anew, beside whatever else goes on.
GradeReads == /\ At(Grader, "idle") /\ graded + 1 \in Rounds
              /\ job' = [job EXCEPT ![Grader] = [NoJob EXCEPT !.at = "grade", !.record = record]]
              /\ UNCHANGED <<graded, record, prepared, aux, draft, template, truth, site, given>>

\* The manifest is written back with the new round, saying else what was read.
Grade == /\ At(Grader, "grade") /\ graded + 1 \in Rounds
         /\ graded' = graded + 1 /\ record' = [job[Grader].record EXCEPT !.round = graded + 1]
         /\ JobEnds(Grader)
         /\ UNCHANGED <<prepared, aux, draft, template, truth, site, given>>

\* Someone reviews the same packets in a workspace of their own.
ReviewAside == /\ aux' = graded
               /\ UNCHANGED <<graded, record, prepared, draft, template, truth, site, job, given>>

\* prepare-incident-causal-review, on prelabels the manifest binds.
TriageReads == /\ At(Cli, "idle") /\ record.round = graded
               /\ job' = [job EXCEPT ![Cli] = [NoJob EXCEPT !.at = Written[1], !.record = record]]
               /\ UNCHANGED <<graded, record, prepared, aux, draft, template, truth, site, given>>

\* It writes queue, triage queue, context and the two manifests in this order.
TriageWrites ==
 \E i \in DOMAIN Written :
   /\ At(Cli, Written[i])
   /\ prepared' = [prepared EXCEPT ![Written[i]] = job[Cli].record.round]
   /\ JobGoes(Cli, IF i + 1 \in DOMAIN Written THEN Written[i + 1] ELSE "record")
   /\ UNCHANGED <<graded, record, aux, draft, template, truth, site, given>>

TriageBinds == /\ At(Cli, "record")
               /\ record' = job[Cli].record
               /\ JobEnds(Cli)
               /\ UNCHANGED <<graded, prepared, aux, draft, template, truth, site, given>>

-----------------------------------------------------------------------------
\* The queue with its context, as two manifests have them, of current inputs.
Loadable == /\ prepared["triageManifest"] # 0
            /\ prepared["triage"] = prepared["triageManifest"]
            /\ prepared["context"] = prepared["triageManifest"]
            /\ prepared["reviewManifest"] = graded
            /\ aux \in {0, graded}

\* An existing Ground Truth is the triaged one the manifest binds, of this queue.
BoundTruth == /\ truth = record.truth /\ truth.kind = "TRIAGED"
              /\ truth.round = prepared["triageManifest"]
NoTruth == truth = NoAnswers /\ record.truth = NoAnswers

\* A site refuses to start on anything else.
SiteStarts(s) ==
  /\ site[s] = Down /\ Loadable
  /\ NoTruth \/ BoundTruth
  /\ site' = [site EXCEPT ![s] = [round |-> prepared["triageManifest"], finalized |-> ~NoTruth]]
  /\ UNCHANGED <<graded, record, prepared, aux, draft, template, truth, job, given>>

SiteStops(s) == /\ site[s] # Down /\ At(s, "idle")
                /\ site' = [site EXCEPT ![s] = Down]
                /\ UNCHANGED <<graded, record, prepared, aux, draft, template, truth, job, given>>

\* No draft is an empty one of the queue the site has loaded.
BaseDraft(s) == IF draft = NoAnswers
                THEN [round |-> site[s].round, kind |-> "TRIAGED", answers |-> <<>>] ELSE draft

\* A draft of another queue stops every request of a site that is not finalized.
DraftIsOpen(s) == /\ site[s] # Down /\ At(s, "idle") /\ ~site[s].finalized
                  /\ BaseDraft(s).round = site[s].round

\* save-answer reads the draft under the site's lock,
SaveReads(s, i, t) ==
  LET base == BaseDraft(s) IN
  /\ DraftIsOpen(s) /\ i \in Triaged[site[s].round] /\ Cardinality(given) < triage.given
  /\ job' = [job EXCEPT ![s] = [NoJob EXCEPT !.at = "save", !.answers =
       [base EXCEPT !.answers = [j \in DOMAIN base.answers \cup {i} |->
                                   IF j = i THEN t ELSE base.answers[j]]]]]
  /\ given' = given \cup {<<site[s].round, i, t>>}
  /\ UNCHANGED <<graded, record, prepared, aux, draft, template, truth, site>>

\* and writes it with the one answer put in.
SaveWrites(s) == /\ At(s, "save")
                 /\ draft' = job[s].answers
                 /\ JobEnds(s)
                 /\ UNCHANGED <<graded, record, prepared, aux, template, truth, site, given>>

\* What the site reports, and what enables its last button.
GroundTruthReady(s) == DraftIsOpen(s) /\ DOMAIN BaseDraft(s).answers = Triaged[site[s].round]

\* finalize, confirmed: a complete draft becomes the template to adjudicate.
Finalize(s) ==
  LET envelope == [BaseDraft(s) EXCEPT !.round = site[s].round] IN
  /\ GroundTruthReady(s)
  /\ template' = envelope
  /\ job' = [job EXCEPT ![s] = [NoJob EXCEPT !.at = "adjudicate", !.answers = envelope]]
  /\ UNCHANGED <<graded, record, prepared, aux, draft, truth, site, given>>

-----------------------------------------------------------------------------
\* adjudicate-incident-causal-review on the template, or on a file somebody
\* has filled in for the whole queue.
AdjudicateBegins ==
  /\ At(Cli, "idle") /\ Cardinality(given) < triage.given
  /\ \E envelope \in {template} \cup
          {[round |-> prepared["reviewManifest"], kind |-> "FULL",
            answers |-> [i \in Items |-> t]] : t \in triage.replies} :
       /\ envelope.round # 0
       /\ job' = [job EXCEPT ![Cli] = [NoJob EXCEPT !.at = "adjudicate", !.answers = envelope]]
       /\ given' = IF envelope.kind = "FULL"
                   THEN given \cup {<<envelope.round, i, envelope.answers[i]>> : i \in Items}
                   ELSE given
  /\ UNCHANGED <<graded, record, prepared, aux, draft, template, truth, site>>

\* Mutant: the answers are complete, whichever queue they were given to.
AdmissibleOfAnyRound(envelope) ==
  /\ record.round = graded /\ prepared["reviewManifest"] = graded /\ prepared["full"] = graded
  /\ envelope.kind = "TRIAGED" => /\ prepared["triage"] = graded
                                  /\ prepared["triageManifest"] = graded /\ Triaged[graded] # {}
  /\ DOMAIN envelope.answers = Queue(graded, envelope.kind)
  /\ \A i \in DOMAIN envelope.answers : envelope.answers[i] \notin triage.clashing

\* Inputs, queues, manifests and answers are bound to each other; the answers
\* are complete, and what they add has keys of its own.
Admissible(envelope) ==
  /\ record.round = graded /\ prepared["reviewManifest"] = graded /\ prepared["full"] = graded
  /\ envelope.kind = "TRIAGED" => /\ prepared["triage"] = graded
                                  /\ prepared["triageManifest"] = graded /\ Triaged[graded] # {}
  /\ envelope.round = graded
  /\ DOMAIN envelope.answers = Queue(graded, envelope.kind)
  /\ \A i \in DOMAIN envelope.answers : envelope.answers[i] \notin triage.clashing

AdjudicateReads(p) == /\ At(p, "adjudicate") /\ Admissible(job[p].answers)
                      /\ job' = [job EXCEPT ![p].at = "decide", ![p].record = record]
                      /\ UNCHANGED <<graded, record, prepared, aux, draft, template, truth, site,
                                     given>>

AdjudicateRefuses(p) == /\ At(p, "adjudicate") /\ ~Admissible(job[p].answers)
                        /\ JobEnds(p)
                        /\ UNCHANGED <<graded, record, prepared, aux, draft, template, truth,
                                       site, given>>

\* The records are written as records of the queue that was read.
AdjudicateWritesTruth(p) ==
  /\ At(p, "decide")
  /\ truth' = [job[p].answers EXCEPT !.round = job[p].record.round]
  /\ JobGoes(p, "bind")
  /\ UNCHANGED <<graded, record, prepared, aux, draft, template, site, given>>

\* The manifest is written back with the Ground Truth bound; a site that did
\* this is finalized.
AdjudicateBinds(p) ==
  /\ At(p, "bind")
  /\ record' = [job[p].record EXCEPT
                   !.truth = [job[p].answers EXCEPT !.round = job[p].record.round]]
  /\ site' = IF p \in Sites THEN [site EXCEPT ![p].finalized = TRUE] ELSE site
  /\ JobEnds(p)
  /\ UNCHANGED <<graded, prepared, aux, draft, template, truth, given>>

JobDies(p) == /\ triage.may_die /\ job[p] # NoJob
              /\ JobEnds(p)
              /\ site' = IF p \in Sites THEN [site EXCEPT ![p] = Down] ELSE site
              /\ UNCHANGED <<graded, record, prepared, aux, draft, template, truth, given>>

-----------------------------------------------------------------------------
TriageInit ==
  /\ triage \in Triages
  /\ graded = 1 /\ record = [round |-> 1, truth |-> NoAnswers]
  /\ prepared = [f \in {Written[i] : i \in DOMAIN Written} |-> 0] /\ aux = 0
  /\ draft = NoAnswers /\ template = NoAnswers /\ truth = NoAnswers
  /\ site = [s \in Sites |-> Down] /\ job = [p \in Processes |-> NoJob] /\ given = {}

TriageStep ==
  \/ GradeReads \/ Grade \/ ReviewAside \/ TriageReads \/ TriageWrites \/ TriageBinds \/ AdjudicateBegins
  \/ \E s \in triage.sites : \/ SiteStarts(s) \/ SiteStops(s) \/ SaveWrites(s) \/ Finalize(s)
                            \/ \E i \in Items, t \in triage.replies : SaveReads(s, i, t)
  \/ \E p \in Processes : \/ AdjudicateReads(p) \/ AdjudicateRefuses(p)
                          \/ AdjudicateWritesTruth(p) \/ AdjudicateBinds(p) \/ JobDies(p)

TriageNext == TriageStep /\ UNCHANGED triage

TriageSpec == TriageInit /\ [][TriageNext]_triaging

-----------------------------------------------------------------------------
\* A draft answers episodes of its own queue, and files are of rounds that were.
TriageTypeOK ==
  /\ graded \in Rounds /\ record.round \in Rounds
  /\ \A f \in DOMAIN prepared : prepared[f] \in 0..graded
  /\ draft # NoAnswers => DOMAIN draft.answers \subseteq Triaged[draft.round]
  /\ \A s \in Sites : site[s].round \in 0..graded

\* Ground Truth is what people said of these very episodes of this very queue,
\* of all of it, whichever sites were open while reviews were prepared anew.
TruthWasGiven ==
  /\ TriageTypeOK
  /\ truth # NoAnswers =>
       /\ DOMAIN truth.answers = Queue(truth.round, truth.kind)
       /\ \A i \in DOMAIN truth.answers : <<truth.round, i, truth.answers[i]>> \in given

\* An answer once saved stays in the draft of a triage with one site, through
\* restarts and new reviews; the one episode that is answered again excepted.
Differs(i, older, newer) == i \notin DOMAIN newer.answers \/ newer.answers[i] # older.answers[i]
ExtendsAnswers(newer, older) ==
  /\ DOMAIN older.answers \subseteq DOMAIN newer.answers
  /\ \A i, j \in DOMAIN older.answers :
       Differs(i, older, newer) /\ Differs(j, older, newer) => i = j

KeepsSavedAnswers == (\E s \in Sites : triage.sites = {s}) => ExtendsAnswers(draft', draft)

SavedAnswersStay == [][KeepsSavedAnswers]_triaging
=============================================================================
