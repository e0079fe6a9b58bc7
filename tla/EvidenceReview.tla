---------------------------- MODULE EvidenceReview ----------------------------
(***************************************************************************)
(* The files of a screening's evidence review and the commands that write  *)
(* them: review-s0 builds cards and queue, calibrate-s0b-causal writes     *)
(* people's causal classes into the cards, adjudicate-s0 decides.  Only    *)
(* the second takes the semantic lock, the first does not write its files  *)
(* atomically, and any of them may die between two writes.  A hash in a    *)
(* file is the content it was taken from.                                  *)
(***************************************************************************)
EXTENDS Naturals, FiniteSets

CONSTANTS Procs, Screenings,
          Classifications,     \* how differently people may classify the same causes
          Commands,  \* what the processes are asked to do
          CommandsMayDie

ASSUME ReviewAssumption ==
  /\ Screenings \cap {"none", "torn", "empty", "nobody"} = {} /\ Classifications # {}
  /\ Commands \subseteq {"screen", "review", "causal", "calibrate", "adjudicate"}

VARIABLES
  screened,      \* the screenings started so far: each draws an id of its own
  pops,      \* the screening the population files belong to
  screening,      \* the screening the summary belongs to
  summary,   \* what the summary says was decided, and from which cards
  cards,     \* evidence_cards.jsonl: whose, with which causal classes; or torn
  queue,     \* user_review_queue.json
  manifest,  \* s0_review_manifest.json: the hashes of cards and queue
  filled,   \* files people filled in, each bound to cards and queue
  causal,    \* the semantic manifest: the scan its causal review is about
  pc, read,  \* each command's next step, and what it has read
  sound      \* no command died in the middle since the last full review-s0

reviewing == <<screened, pops, screening, summary, cards, queue, manifest, filled, causal, pc,
               read, sound>>

\* Cards of a screening, classified by a causal review or by nobody yet.
CardContents == [scan : Screenings, by : Screenings \cup {"nobody"}, take : Classifications]
Fresh(s) == [scan |-> s, by |-> "nobody", take |-> CHOOSE t \in Classifications : TRUE]
NoCards == Fresh("none")
Torn == Fresh("torn")
Unbound(s) == [scan |-> s, cards |-> NoCards, queue |-> "none"]
Undecided == [bound |-> NoCards, used |-> NoCards]

-----------------------------------------------------------------------------
Begin(p, command) == /\ pc[p] = "idle" /\ command \in Commands
                     /\ pc' = [pc EXCEPT ![p] = command]
                     /\ UNCHANGED <<screened, pops, screening, summary, cards, queue, manifest,
                                    filled, causal, read, sound>>

CommandGoes(p, step) == pc' = [pc EXCEPT ![p] = step]
CommandEnds(p) == CommandGoes(p, "idle")
Refuse(p) == CommandEnds(p) /\ UNCHANGED <<screened, pops, screening, summary, cards, queue,
                                           manifest, filled, causal, read, sound>>

Screened == screening \in Screenings /\ pops = screening

\* Nothing was screened, or the summary cannot be read, or the populations are
\* another screening's; and the model's bound on the number of screenings.
NothingScreened(p) == /\ \/ pc[p] \in {"review", "adjudicate", "causal"} /\ ~Screened
                         \/ pc[p] = "screen" /\ screened = Screenings
                      /\ Refuse(p)

\* screen: a new run writes the populations, an empty queue and the summary.
ScreenWritesPopulations(p) ==
  /\ pc[p] = "screen" /\ screened # Screenings
  /\ \E s \in Screenings \ screened : screened' = screened \cup {s} /\ pops' = s
  /\ read' = [read EXCEPT ![p] = Fresh(pops')]
  /\ CommandGoes(p, "empty_queue")
  /\ UNCHANGED <<screening, summary, cards, queue, manifest, filled, causal, sound>>

ScreenEmptiesQueue(p) == /\ pc[p] = "empty_queue"
                         /\ queue' = "empty"
                         /\ CommandGoes(p, "write_screening")
                         /\ UNCHANGED <<screened, pops, screening, summary, cards, manifest,
                                        filled, causal,
                                        read, sound>>

ScreenWritesSummary(p) == /\ pc[p] = "write_screening"
                          /\ screening' = read[p].scan /\ summary' = Undecided
                          /\ CommandEnds(p)
                          /\ UNCHANGED <<screened, pops, cards, queue, manifest, filled, causal,
                                         read, sound>>

-----------------------------------------------------------------------------
\* review-s0 reads the screening, then writes cards, queue, manifest, summary.
ReviewReads(p) == /\ pc[p] = "review" /\ Screened
                  /\ read' = [read EXCEPT ![p] = Fresh(screening)]
                  /\ CommandGoes(p, "write_cards")
                  /\ UNCHANGED <<screened, pops, screening, summary, cards, queue, manifest,
                                 filled, causal, sound>>

ReviewWritesCards(p) == /\ pc[p] = "write_cards"
                        /\ cards' = read[p]
                        /\ CommandGoes(p, "write_queue")
                        /\ UNCHANGED <<screened, pops, screening, summary, queue, manifest,
                                       filled, causal, read, sound>>

ReviewWritesQueue(p) == /\ pc[p] = "write_queue"
                        /\ queue' = read[p].scan
                        /\ CommandGoes(p, "write_manifest")
                        /\ UNCHANGED <<screened, pops, screening, summary, cards, manifest,
                                       filled, causal, read, sound>>

ReviewWritesManifest(p) ==
  /\ pc[p] = "write_manifest"
  /\ manifest' = [scan |-> read[p].scan, cards |-> read[p], queue |-> read[p].scan]
  /\ CommandGoes(p, "write_summary")
  /\ UNCHANGED <<screened, pops, screening, summary, cards, queue, filled, causal, read, sound>>

\* The summary written is the one that was read, with the review pending.
ReviewWritesSummary(p) == /\ pc[p] = "write_summary"
                          /\ screening' = read[p].scan
                          /\ summary' = Undecided
                          /\ CommandEnds(p) /\ sound' = TRUE
                          /\ UNCHANGED <<screened, pops, cards, queue, manifest, filled, causal,
                                         read>>

\* Somebody fills in the template of the review as it is bound now.
FillInTemplate == /\ manifest.scan \in Screenings
                  /\ filled' = filled \cup {[cards |-> manifest.cards, queue |-> manifest.queue]}
                  /\ UNCHANGED <<screened, pops, screening, summary, cards, queue, manifest,
                                 causal, pc, read, sound>>

-----------------------------------------------------------------------------
SemanticLockTaken == \E q \in Procs : pc[q] \in {"reread", "classify", "rebind"}

\* grade-s0b-causal: the causal queue of the current screening is ready.
GradeCausal(p) == /\ pc[p] = "causal" /\ Screened
                  /\ causal' = IF SemanticLockTaken THEN causal ELSE screening
                  /\ CommandEnds(p)
                  /\ UNCHANGED <<screened, pops, screening, summary, cards, queue, manifest,
                                 filled, read, sound>>

Bound == manifest.cards = cards /\ manifest.queue = queue

\* calibrate-s0b-causal, one at a time: the cards must be the bound ones.
CausalChecks(p) ==
  /\ pc[p] = "calibrate" /\ causal # "none" /\ ~SemanticLockTaken
  /\ manifest.scan = causal /\ manifest.cards = cards
  /\ CommandGoes(p, "reread")
  /\ UNCHANGED <<screened, pops, screening, summary, cards, queue, manifest, filled, causal, read,
                 sound>>

\* A calibration without any review leaves these files alone as well.
CausalRefuses(p) ==
  /\ \/ /\ pc[p] = "calibrate"
        /\ ~(/\ causal # "none" /\ ~SemanticLockTaken
             /\ manifest.scan = causal /\ manifest.cards = cards)
     \/ pc[p] = "reread" /\ cards = Torn
  /\ Refuse(p)

\* It reads the cards a second time, to write people's classes into them.
CausalReadsCards(p) ==
  /\ pc[p] = "reread" /\ cards # Torn
  /\ \E t \in Classifications :
       read' = [read EXCEPT ![p] = [cards EXCEPT !.by = causal, !.take = t]]
  /\ CommandGoes(p, "classify")
  /\ UNCHANGED <<screened, pops, screening, summary, cards, queue, manifest, filled, causal, sound>>

CausalWritesCards(p) == /\ pc[p] = "classify"
                        /\ cards' = read[p]
                        /\ CommandGoes(p, "rebind")
                        /\ UNCHANGED <<screened, pops, screening, summary, queue, manifest,
                                       filled, causal, read, sound>>

\* The manifest written is the one that was read, with the new cards bound.
CausalWritesManifest(p) ==
  /\ pc[p] = "rebind"
  /\ manifest' = [scan |-> causal, cards |-> read[p], queue |-> causal]
  /\ CommandEnds(p)
  /\ UNCHANGED <<screened, pops, screening, summary, cards, queue, filled, causal, read, sound>>

-----------------------------------------------------------------------------
\* adjudicate-s0 first checks the hashes, of the summary's screening.
AdjudicateChecks(p) ==
  /\ pc[p] = "adjudicate" /\ Screened /\ manifest.scan = screening /\ Bound
  /\ read' = [read EXCEPT ![p] = manifest.cards]
  /\ CommandGoes(p, "read_cards")
  /\ UNCHANGED <<screened, pops, screening, summary, cards, queue, manifest, filled, causal, sound>>

AdjudicateUnbound(p) == /\ pc[p] = "adjudicate" /\ Screened
                        /\ ~(manifest.scan = screening /\ Bound)
                        /\ Refuse(p)

\* Mutant: any filled-in file will do.
AdjudicateAnyAnswers(p) ==
  /\ pc[p] = "read_cards" /\ cards # Torn
  /\ \E a \in filled :
       summary' = [bound |-> a.cards, used |-> cards]
  /\ screening' = read[p].scan
  /\ CommandEnds(p)
  /\ UNCHANGED <<screened, pops, cards, queue, manifest, filled, causal, read, sound>>

\* Then it reads the cards again, takes answers bound to the manifest it read,
\* and writes its decision over the summary it read at the start.
AdjudicateDecides(p) ==
  /\ pc[p] = "read_cards" /\ cards # Torn
  /\ \E a \in filled :
       /\ a.cards = read[p] /\ a.queue = read[p].scan
       /\ summary' = [bound |-> a.cards, used |-> cards]
  /\ screening' = read[p].scan
  /\ CommandEnds(p)
  /\ UNCHANGED <<screened, pops, cards, queue, manifest, filled, causal, read, sound>>

AdjudicateUnanswered(p) == /\ pc[p] = "read_cards"
                           /\ \/ cards = Torn
                              \/ \A a \in filled : a.cards # read[p] \/ a.queue # read[p].scan
                           /\ Refuse(p)

-----------------------------------------------------------------------------
\* A command dies; review-s0 truncates before it writes, so a file may be torn.
CommandDies(p) == /\ CommandsMayDie /\ pc[p] # "idle"
                  /\ CommandEnds(p) /\ sound' = FALSE
                  /\ \/ UNCHANGED <<screened, pops, screening, summary, cards, queue, manifest>>
                     \/ /\ pc[p] = "write_cards" /\ cards' = Torn
                        /\ UNCHANGED <<screened, pops, screening, summary, queue, manifest>>
                     \/ /\ pc[p] \in {"write_queue", "empty_queue"} /\ queue' = "torn"
                        /\ UNCHANGED <<screened, pops, screening, summary, cards, manifest>>
                     \/ /\ pc[p] = "write_manifest" /\ manifest' = Unbound("torn")
                        /\ UNCHANGED <<screened, pops, screening, summary, cards, queue>>
                     \/ /\ pc[p] \in {"write_summary", "write_screening", "read_cards"}
                        /\ screening' = "torn" /\ summary' = Undecided
                        /\ UNCHANGED <<cards, queue, manifest>>
                  /\ UNCHANGED <<screened, pops, filled, causal, read>>

ReviewInit == /\ screened = {} /\ pops = "none" /\ screening = "none"
              /\ summary = Undecided /\ causal = "none"
              /\ cards = NoCards /\ queue = "none" /\ filled = {} /\ sound = TRUE
              /\ manifest = Unbound("none")
              /\ pc = [p \in Procs |-> "idle"] /\ read = [p \in Procs |-> NoCards]

ReviewStep(p) == \/ \E c \in Commands : Begin(p, c)
                 \/ NothingScreened(p) \/ ScreenWritesPopulations(p) \/ ScreenEmptiesQueue(p)
                 \/ ScreenWritesSummary(p) \/ ReviewReads(p)
                 \/ ReviewWritesCards(p) \/ ReviewWritesQueue(p)
                 \/ ReviewWritesManifest(p) \/ ReviewWritesSummary(p)
                 \/ GradeCausal(p) \/ CausalChecks(p) \/ CausalReadsCards(p) \/ CausalRefuses(p)
                 \/ CausalWritesCards(p) \/ CausalWritesManifest(p)
                 \/ AdjudicateChecks(p) \/ AdjudicateUnbound(p)
                 \/ AdjudicateDecides(p) \/ AdjudicateUnanswered(p) \/ CommandDies(p)

ReviewNext == FillInTemplate \/ \E p \in Procs : ReviewStep(p)

ReviewSpec == ReviewInit /\ [][ReviewNext]_reviewing
-----------------------------------------------------------------------------
\* Whole files or torn ones, and commands at a step of theirs.
ReviewTypeOK == /\ cards \in CardContents \cup {NoCards, Torn}
                /\ manifest.cards \in CardContents \cup {NoCards}
                /\ screening \in Screenings \cup {"none", "torn"}
                /\ \A a \in filled : a.queue = a.cards.scan

\* Cards are classified only from the causal review of their own screening.
ClassesOfTheirScreening ==
  \A c \in {cards, manifest.cards} : c.by # "nobody" => c.by = c.scan

\* While no command has died since, commands that have ended leave the cards
\* and the queue of the current screening bound, so its review can go on.
SoundMeansBound == sound /\ manifest.scan = screening /\ (\A p \in Procs : pc[p] = "idle") => Bound

\* A decision counts the classes of the very cards its answers were given for:
\* answers to older cards fail closed.
OlderAnswersFailClosed == summary.used = summary.bound

\* Where one command runs at a time and any may die between two writes, people's
\* answers and classes are used for the cards and the screening they were
\* given for, and a review whose commands all came to their end can go on.
AnswersMeetTheirQuestions ==
  /\ ReviewTypeOK /\ ClassesOfTheirScreening
  /\ SoundMeansBound /\ OlderAnswersFailClosed
=============================================================================
