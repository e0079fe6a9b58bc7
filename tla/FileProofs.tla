----------------------------- MODULE FileProofs ------------------------------
(***************************************************************************)
(* The files that the commands of the study share: what is bound, counted  *)
(* or decided was made from what is there and asked of it, wherever the    *)
(* commands die.  Each part proves of its module an invariant that holds   *)
(* between any two writes, and from it what the runs check.                *)
(***************************************************************************)
EXTENDS StudyFiles, TLAPS

------------------------------------------------------------------------------
(* The evidence review, with one command at a time.                          *)

AtRest == {"idle", "screen", "review", "causal", "calibrate", "adjudicate"}
InScreen == {"empty_queue", "write_screening"}
InReview == {"write_cards", "write_queue", "write_manifest", "write_summary"}
InCalibration == {"reread", "classify", "rebind"}
CommandSteps == AtRest \cup InScreen \cup InReview \cup InCalibration \cup {"read_cards"}

ReviewTypes ==
  /\ pc \in [Procs -> CommandSteps] /\ read \in [Procs -> CardContents \cup {NoCards}]
  /\ screened \subseteq Screenings /\ pops \in screened \cup {"none"} /\ causal \in screened \cup {"none"}
  /\ screening \in screened \cup {"none", "torn"} /\ manifest.scan \in screened \cup {"none", "torn"}
  /\ cards \in CardContents \cup {NoCards, Torn} /\ manifest.cards \in CardContents \cup {NoCards}
  /\ manifest.scan \in Screenings => manifest.cards.scan = manifest.scan /\ manifest.queue = manifest.scan
  /\ \A a \in filled : a.queue = a.cards.scan

\* What a command under way has written, and that what it reads is still there.
ScreenUnderWay(p) ==
  pc[p] \in InScreen => read[p].scan \in screened /\ read[p].scan # manifest.scan
ReviewUnderWay(p) ==
  /\ pc[p] \in InReview => read[p] \in CardContents /\ read[p].scan \in screened /\ read[p].by = "nobody"
  /\ pc[p] \in InReview \ {"write_cards"} => cards = read[p]
  /\ pc[p] \in {"write_manifest", "write_summary"} => queue = read[p].scan
  /\ pc[p] = "write_summary" => manifest.scan = read[p].scan /\ Bound
CalibrationUnderWay(p) ==
  /\ pc[p] \in InCalibration => causal \in Screenings /\ manifest.scan = causal
  /\ pc[p] = "reread" => cards = manifest.cards
  /\ pc[p] \in {"classify", "rebind"} =>
       read[p] \in CardContents /\ read[p].scan = causal /\ read[p].by = causal
  /\ pc[p] = "rebind" => cards = read[p]
DecisionUnderWay(p) ==
  pc[p] = "read_cards" =>
    screening \in Screenings /\ manifest.scan = screening /\ Bound /\ read[p] = cards

\* Between two writes of a calibration the cards are not the bound ones yet.
SoundHolds(p) ==
  sound /\ manifest.scan = screening =>
    /\ pc[p] \in AtRest \cup {"empty_queue", "reread", "classify", "read_cards"} => Bound
    /\ pc[p] = "rebind" => manifest.queue = queue

ReviewInv(p) ==
  /\ ReviewTypes /\ ClassesOfTheirScreening /\ OlderAnswersFailClosed
  /\ ScreenUnderWay(p) /\ ReviewUnderWay(p) /\ CalibrationUnderWay(p) /\ DecisionUnderWay(p)
  /\ SoundHolds(p)

LEMMA CardsAre ==
  /\ \A s \in Screenings : Fresh(s) \in CardContents /\ s \notin {"none", "torn", "empty", "nobody"}
  /\ \A s : Fresh(s).scan = s /\ Fresh(s).by = "nobody"
  /\ \A c \in CardContents : c.scan \in Screenings /\ c.by \in Screenings \cup {"nobody"}
  /\ NoCards.scan = "none" /\ NoCards.by = "nobody" /\ Torn.scan = "torn" /\ Torn.by = "nobody"
BY ReviewAssumption DEF Fresh, CardContents, NoCards, Torn


USE DEF ReviewInv, ReviewTypes, ClassesOfTheirScreening, OlderAnswersFailClosed, ScreenUnderWay,
    ReviewUnderWay, CalibrationUnderWay, DecisionUnderWay, SoundHolds, AtRest, InScreen,
    InReview, InCalibration, CommandSteps, Bound, CommandGoes, CommandEnds, Refuse

LEMMA ReviewBegins == ASSUME NEW p, Procs = {p}, ReviewInit PROVE ReviewInv(p)
BY CardsAre DEF ReviewInit, Undecided, Unbound

LEMMA NothingScreenedStep ==
  ASSUME NEW p, Procs = {p}, ReviewInv(p), NothingScreened(p) PROVE ReviewInv(p)'
<1>1. ReviewTypes'
  BY CardsAre DEF NothingScreened, Screened
<1>2. ClassesOfTheirScreening' /\ OlderAnswersFailClosed'
  BY CardsAre DEF NothingScreened, Screened
<1>3. ScreenUnderWay(p)'
  BY CardsAre DEF NothingScreened, Screened
<1>4. ReviewUnderWay(p)'
  BY CardsAre DEF NothingScreened, Screened
<1>5. CalibrationUnderWay(p)'
  BY CardsAre DEF NothingScreened, Screened
<1>6. DecisionUnderWay(p)'
  BY CardsAre DEF NothingScreened, Screened
<1>7. SoundHolds(p)'
  BY CardsAre DEF NothingScreened, Screened
<1>. QED
  BY <1>1, <1>2, <1>3, <1>4, <1>5, <1>6, <1>7 DEF ReviewInv

LEMMA ScreenWritesPopulationsStep ==
  ASSUME NEW p, Procs = {p}, ReviewInv(p), ScreenWritesPopulations(p) PROVE ReviewInv(p)'
<1>. PICK s \in Screenings \ screened :
       screened' = screened \cup {s} /\ pops' = s /\ read' = [read EXCEPT ![p] = Fresh(s)]
  BY DEF ScreenWritesPopulations
<1>0. Fresh(s) \in CardContents /\ read'[p] = Fresh(s) /\ s \in screened' /\ UNCHANGED manifest /\ s # manifest.scan
  BY CardsAre DEF ScreenWritesPopulations, ReviewInv, ReviewTypes
<1>1. ReviewTypes'
  BY <1>0 DEF ScreenWritesPopulations, CommandGoes, ReviewInv, ReviewTypes, CommandSteps, InScreen
<1>2. ClassesOfTheirScreening' /\ OlderAnswersFailClosed'
  BY CardsAre DEF ScreenWritesPopulations
<1>3. ScreenUnderWay(p)'
  BY <1>0, CardsAre DEF ScreenUnderWay
<1>4. ReviewUnderWay(p)'
  BY CardsAre DEF ScreenWritesPopulations
<1>5. CalibrationUnderWay(p)'
  BY CardsAre DEF ScreenWritesPopulations
<1>6. DecisionUnderWay(p)'
  BY CardsAre DEF ScreenWritesPopulations
<1>7. SoundHolds(p)'
  BY CardsAre DEF ScreenWritesPopulations
<1>. QED
  BY <1>1, <1>2, <1>3, <1>4, <1>5, <1>6, <1>7 DEF ReviewInv

LEMMA ScreenEmptiesQueueStep ==
  ASSUME NEW p, Procs = {p}, ReviewInv(p), ScreenEmptiesQueue(p) PROVE ReviewInv(p)'
BY CardsAre DEF ScreenEmptiesQueue

LEMMA ScreenWritesSummaryStep ==
  ASSUME NEW p, Procs = {p}, ReviewInv(p), ScreenWritesSummary(p) PROVE ReviewInv(p)'
BY CardsAre DEF ScreenWritesSummary, Undecided

LEMMA ReviewReadsStep == ASSUME NEW p, Procs = {p}, ReviewInv(p), ReviewReads(p) PROVE ReviewInv(p)'
<1>0. /\ read'[p] \in CardContents /\ read'[p].scan \in screened' /\ read'[p].by = "nobody"
      /\ pc'[p] = "write_cards"
  <2>1. screening \in Screenings /\ screening \in screened
    BY CardsAre DEF ReviewReads, Screened, ReviewInv, ReviewTypes
  <2>2. read'[p] = Fresh(screening) /\ pc'[p] = "write_cards" /\ UNCHANGED screened
    BY DEF ReviewReads, CommandGoes, ReviewInv, ReviewTypes
  <2>. QED
    BY <2>1, <2>2, CardsAre
<1>1. ReviewTypes'
  BY CardsAre DEF ReviewReads, Screened
<1>2. ClassesOfTheirScreening' /\ OlderAnswersFailClosed'
  BY CardsAre DEF ReviewReads, Screened
<1>3. ScreenUnderWay(p)'
  BY CardsAre DEF ReviewReads, Screened
<1>4. ReviewUnderWay(p)'
  BY <1>0 DEF ReviewUnderWay, InReview
<1>5. CalibrationUnderWay(p)'
  BY CardsAre DEF ReviewReads, Screened
<1>6. DecisionUnderWay(p)'
  BY CardsAre DEF ReviewReads, Screened
<1>7. SoundHolds(p)'
  BY CardsAre DEF ReviewReads, Screened
<1>. QED
  BY <1>1, <1>2, <1>3, <1>4, <1>5, <1>6, <1>7 DEF ReviewInv

LEMMA ReviewWritesCardsStep ==
  ASSUME NEW p, Procs = {p}, ReviewInv(p), ReviewWritesCards(p) PROVE ReviewInv(p)'
BY CardsAre DEF ReviewWritesCards

LEMMA ReviewWritesQueueStep ==
  ASSUME NEW p, Procs = {p}, ReviewInv(p), ReviewWritesQueue(p) PROVE ReviewInv(p)'
BY CardsAre DEF ReviewWritesQueue

LEMMA ReviewWritesManifestStep ==
  ASSUME NEW p, Procs = {p}, ReviewInv(p), ReviewWritesManifest(p) PROVE ReviewInv(p)'
<1>0. manifest'.cards = read[p] /\ read[p].by = "nobody" /\ UNCHANGED <<cards, summary>>
  BY DEF ReviewWritesManifest, ReviewInv, ReviewUnderWay, InReview
<1>1. ReviewTypes'
  BY CardsAre DEF ReviewWritesManifest
<1>2. ClassesOfTheirScreening' /\ OlderAnswersFailClosed'
  BY <1>0 DEF ReviewInv, ClassesOfTheirScreening, OlderAnswersFailClosed
<1>3. ScreenUnderWay(p)'
  BY CardsAre DEF ReviewWritesManifest
<1>4. ReviewUnderWay(p)'
  BY CardsAre DEF ReviewWritesManifest
<1>5. CalibrationUnderWay(p)'
  BY CardsAre DEF ReviewWritesManifest
<1>6. DecisionUnderWay(p)'
  BY CardsAre DEF ReviewWritesManifest
<1>7. SoundHolds(p)'
  BY CardsAre DEF ReviewWritesManifest
<1>. QED
  BY <1>1, <1>2, <1>3, <1>4, <1>5, <1>6, <1>7 DEF ReviewInv

LEMMA ReviewWritesSummaryStep ==
  ASSUME NEW p, Procs = {p}, ReviewInv(p), ReviewWritesSummary(p) PROVE ReviewInv(p)'
BY CardsAre DEF ReviewWritesSummary, Undecided

LEMMA GradeCausalStep == ASSUME NEW p, Procs = {p}, ReviewInv(p), GradeCausal(p) PROVE ReviewInv(p)'
BY CardsAre DEF GradeCausal, Screened, SemanticLockTaken

LEMMA CausalChecksStep ==
  ASSUME NEW p, Procs = {p}, ReviewInv(p), CausalChecks(p) PROVE ReviewInv(p)'
BY CardsAre DEF CausalChecks, SemanticLockTaken

LEMMA CausalReadsCardsStep ==
  ASSUME NEW p, Procs = {p}, ReviewInv(p), CausalReadsCards(p) PROVE ReviewInv(p)'
<1>. PICK k \in Classifications : read' = [read EXCEPT ![p] = [cards EXCEPT !.by = causal, !.take = k]]
  BY DEF CausalReadsCards
<1>0. /\ read' \in [Procs -> CardContents \cup {NoCards}] /\ read'[p] \in CardContents
      /\ read'[p].scan = causal /\ read'[p].by = causal
  <2>1. cards \in CardContents /\ cards.scan = causal /\ causal \in Screenings
    BY CardsAre DEF CausalReadsCards, ReviewInv, ReviewTypes, CalibrationUnderWay, InCalibration
  <2>. DEFINE new == [cards EXCEPT !.by = causal, !.take = k]
  <2>2. new \in CardContents /\ new.scan = causal /\ new.by = causal
    BY <2>1 DEF CardContents
  <2>. HIDE DEF new
  <2>3. read' = [read EXCEPT ![p] = new]
    BY DEF new
  <2>. QED
    BY <2>2, <2>3 DEF ReviewInv, ReviewTypes
<1>1. ReviewTypes'
  BY <1>0 DEF CausalReadsCards, CommandGoes, ReviewInv, ReviewTypes, AtRest, InScreen, InReview,
     InCalibration, CommandSteps
<1>2. ClassesOfTheirScreening' /\ OlderAnswersFailClosed'
  BY CardsAre DEF CausalReadsCards
<1>3. ScreenUnderWay(p)'
  BY CardsAre DEF CausalReadsCards
<1>4. ReviewUnderWay(p)'
  BY CardsAre DEF CausalReadsCards
<1>5. CalibrationUnderWay(p)'
  BY <1>0 DEF CausalReadsCards, CommandGoes, ReviewInv, ReviewTypes, CalibrationUnderWay,
     InCalibration
<1>6. DecisionUnderWay(p)'
  BY CardsAre DEF CausalReadsCards
<1>7. SoundHolds(p)'
  BY CardsAre DEF CausalReadsCards
<1>. QED
  BY <1>1, <1>2, <1>3, <1>4, <1>5, <1>6, <1>7 DEF ReviewInv

LEMMA CausalRefusesStep ==
  ASSUME NEW p, Procs = {p}, ReviewInv(p), CausalRefuses(p) PROVE ReviewInv(p)'
<1>1. ReviewTypes'
  BY CardsAre DEF CausalRefuses
<1>2. ClassesOfTheirScreening' /\ OlderAnswersFailClosed'
  BY CardsAre DEF CausalRefuses
<1>3. ScreenUnderWay(p)'
  BY CardsAre DEF CausalRefuses
<1>4. ReviewUnderWay(p)'
  BY CardsAre DEF CausalRefuses
<1>5. CalibrationUnderWay(p)'
  BY CardsAre DEF CausalRefuses
<1>6. DecisionUnderWay(p)'
  BY CardsAre DEF CausalRefuses
<1>7. SoundHolds(p)'
  BY CardsAre DEF CausalRefuses
<1>. QED
  BY <1>1, <1>2, <1>3, <1>4, <1>5, <1>6, <1>7 DEF ReviewInv

LEMMA CausalWritesCardsStep ==
  ASSUME NEW p, Procs = {p}, ReviewInv(p), CausalWritesCards(p) PROVE ReviewInv(p)'
<1>0. cards' = read[p] /\ read[p].by = read[p].scan /\ UNCHANGED <<manifest, summary>>
  BY DEF CausalWritesCards, ReviewInv, CalibrationUnderWay, InCalibration
<1>1. ReviewTypes'
  BY CardsAre DEF CausalWritesCards
<1>2. ClassesOfTheirScreening' /\ OlderAnswersFailClosed'
  BY <1>0 DEF ReviewInv, ClassesOfTheirScreening, OlderAnswersFailClosed
<1>3. ScreenUnderWay(p)'
  BY CardsAre DEF CausalWritesCards
<1>4. ReviewUnderWay(p)'
  BY CardsAre DEF CausalWritesCards
<1>5. CalibrationUnderWay(p)'
  BY CardsAre DEF CausalWritesCards
<1>6. DecisionUnderWay(p)'
  BY CardsAre DEF CausalWritesCards
<1>7. SoundHolds(p)'
  BY CardsAre DEF CausalWritesCards
<1>. QED
  BY <1>1, <1>2, <1>3, <1>4, <1>5, <1>6, <1>7 DEF ReviewInv

LEMMA CausalWritesManifestStep ==
  ASSUME NEW p, Procs = {p}, ReviewInv(p), CausalWritesManifest(p) PROVE ReviewInv(p)'
<1>0. manifest'.cards = read[p] /\ read[p].by = read[p].scan /\ UNCHANGED <<cards, summary>>
  BY DEF CausalWritesManifest, ReviewInv, CalibrationUnderWay, InCalibration
<1>1. ReviewTypes'
  BY CardsAre DEF CausalWritesManifest
<1>2. ClassesOfTheirScreening' /\ OlderAnswersFailClosed'
  BY <1>0 DEF ReviewInv, ClassesOfTheirScreening, OlderAnswersFailClosed
<1>3. ScreenUnderWay(p)'
  BY CardsAre DEF CausalWritesManifest
<1>4. ReviewUnderWay(p)'
  BY CardsAre DEF CausalWritesManifest
<1>5. CalibrationUnderWay(p)'
  BY CardsAre DEF CausalWritesManifest
<1>6. DecisionUnderWay(p)'
  BY CardsAre DEF CausalWritesManifest
<1>7. SoundHolds(p)'
  BY CardsAre DEF CausalWritesManifest
<1>. QED
  BY <1>1, <1>2, <1>3, <1>4, <1>5, <1>6, <1>7 DEF ReviewInv

LEMMA AdjudicateChecksStep ==
  ASSUME NEW p, Procs = {p}, ReviewInv(p), AdjudicateChecks(p) PROVE ReviewInv(p)'
BY CardsAre DEF AdjudicateChecks, Screened

LEMMA AdjudicateUnboundStep ==
  ASSUME NEW p, Procs = {p}, ReviewInv(p), AdjudicateUnbound(p) PROVE ReviewInv(p)'
BY CardsAre DEF AdjudicateUnbound, Screened

LEMMA AdjudicateDecidesStep ==
  ASSUME NEW p, Procs = {p}, ReviewInv(p), AdjudicateDecides(p) PROVE ReviewInv(p)'
<1>0. /\ read[p] = cards /\ cards = manifest.cards /\ manifest.scan = screening /\ screening \in Screenings
      /\ read[p].scan = screening /\ UNCHANGED <<manifest, cards>>
      /\ screening' = screening /\ summary'.used = summary'.bound
  BY DEF AdjudicateDecides, ReviewInv, ReviewTypes, DecisionUnderWay, Bound
<1>1. ReviewTypes'
  BY <1>0 DEF AdjudicateDecides, CommandEnds, CommandGoes, ReviewInv, ReviewTypes, AtRest,
     CommandSteps
<1>2. ClassesOfTheirScreening' /\ OlderAnswersFailClosed'
  BY <1>0 DEF ReviewInv, ClassesOfTheirScreening, OlderAnswersFailClosed
<1>3. ScreenUnderWay(p)'
  BY CardsAre DEF AdjudicateDecides
<1>4. ReviewUnderWay(p)'
  BY CardsAre DEF AdjudicateDecides
<1>5. CalibrationUnderWay(p)'
  BY CardsAre DEF AdjudicateDecides
<1>6. DecisionUnderWay(p)'
  BY CardsAre DEF AdjudicateDecides
<1>7. SoundHolds(p)'
  BY CardsAre DEF AdjudicateDecides
<1>. QED
  BY <1>1, <1>2, <1>3, <1>4, <1>5, <1>6, <1>7 DEF ReviewInv

LEMMA AdjudicateUnansweredStep ==
  ASSUME NEW p, Procs = {p}, ReviewInv(p), AdjudicateUnanswered(p) PROVE ReviewInv(p)'
BY CardsAre DEF AdjudicateUnanswered

LEMMA CommandDiesStep == ASSUME NEW p, Procs = {p}, ReviewInv(p), CommandDies(p) PROVE ReviewInv(p)'
<1>0. /\ cards' \in {cards, Torn} /\ screening' \in {screening, "torn"}
      /\ \/ UNCHANGED manifest
         \/ manifest'.scan = "torn" /\ manifest'.cards = NoCards
      /\ summary' \in {summary, Undecided} /\ UNCHANGED <<screened, pops, filled, causal, read>>
      /\ pc' = [pc EXCEPT ![p] = "idle"]
  BY DEF CommandDies, CommandEnds, CommandGoes, Unbound
<1>1. ReviewTypes'
  BY <1>0, CardsAre DEF ReviewInv, ReviewTypes, CommandSteps, AtRest
<1>2. ClassesOfTheirScreening' /\ OlderAnswersFailClosed'
  <2>1. cards'.by # "nobody" => cards'.by = cards'.scan
    BY <1>0, CardsAre DEF ReviewInv, ClassesOfTheirScreening
  <2>2. manifest'.cards.by # "nobody" => manifest'.cards.by = manifest'.cards.scan
    BY <1>0, CardsAre DEF ReviewInv, ClassesOfTheirScreening
  <2>3. summary'.used = summary'.bound
    BY <1>0 DEF ReviewInv, OlderAnswersFailClosed, Undecided
  <2>. QED
    BY <2>1, <2>2, <2>3 DEF ClassesOfTheirScreening, OlderAnswersFailClosed
<1>3. ScreenUnderWay(p)'
  BY CardsAre DEF CommandDies, Undecided, Unbound
<1>4. ReviewUnderWay(p)'
  BY CardsAre DEF CommandDies, Undecided, Unbound
<1>5. CalibrationUnderWay(p)'
  BY CardsAre DEF CommandDies, Undecided, Unbound
<1>6. DecisionUnderWay(p)'
  BY CardsAre DEF CommandDies, Undecided, Unbound
<1>7. SoundHolds(p)'
  BY CardsAre DEF CommandDies, Undecided, Unbound
<1>. QED
  BY <1>1, <1>2, <1>3, <1>4, <1>5, <1>6, <1>7 DEF ReviewInv

LEMMA BeginStep ==
  ASSUME NEW p, Procs = {p}, ReviewInv(p), NEW c \in Commands, Begin(p, c) PROVE ReviewInv(p)'
<1>1. ReviewTypes'
  BY CardsAre, ReviewAssumption DEF Begin
<1>2. ClassesOfTheirScreening' /\ OlderAnswersFailClosed'
  BY CardsAre, ReviewAssumption DEF Begin
<1>3. ScreenUnderWay(p)'
  BY CardsAre, ReviewAssumption DEF Begin
<1>4. ReviewUnderWay(p)'
  BY CardsAre, ReviewAssumption DEF Begin
<1>5. CalibrationUnderWay(p)'
  BY CardsAre, ReviewAssumption DEF Begin
<1>6. DecisionUnderWay(p)'
  BY CardsAre, ReviewAssumption DEF Begin
<1>7. SoundHolds(p)'
  BY CardsAre, ReviewAssumption DEF Begin
<1>. QED
  BY <1>1, <1>2, <1>3, <1>4, <1>5, <1>6, <1>7 DEF ReviewInv

LEMMA FillInTemplateStep ==
  ASSUME NEW p, Procs = {p}, ReviewInv(p), FillInTemplate PROVE ReviewInv(p)'
<1>0. \A a \in filled' : a.queue = a.cards.scan
  <2>1. ASSUME NEW a, a = [cards |-> manifest.cards, queue |-> manifest.queue] PROVE a.queue = a.cards.scan
    BY <2>1 DEF FillInTemplate, ReviewInv, ReviewTypes
  <2>. QED
    BY <2>1 DEF FillInTemplate, ReviewInv, ReviewTypes
<1>1. ReviewTypes'
  BY <1>0 DEF FillInTemplate, ReviewInv, ReviewTypes
<1>2. ClassesOfTheirScreening' /\ OlderAnswersFailClosed'
  BY CardsAre DEF FillInTemplate
<1>3. ScreenUnderWay(p)'
  BY CardsAre DEF FillInTemplate
<1>4. ReviewUnderWay(p)'
  BY CardsAre DEF FillInTemplate
<1>5. CalibrationUnderWay(p)'
  BY CardsAre DEF FillInTemplate
<1>6. DecisionUnderWay(p)'
  BY CardsAre DEF FillInTemplate
<1>7. SoundHolds(p)'
  BY CardsAre DEF FillInTemplate
<1>. QED
  BY <1>1, <1>2, <1>3, <1>4, <1>5, <1>6, <1>7 DEF ReviewInv

HIDE DEF ReviewInv, ReviewTypes, ClassesOfTheirScreening, OlderAnswersFailClosed, ScreenUnderWay,
    ReviewUnderWay, CalibrationUnderWay, DecisionUnderWay, SoundHolds, AtRest, InScreen,
    InReview, InCalibration, CommandSteps, Bound, CommandGoes, CommandEnds, Refuse

LEMMA ReviewHolds == ASSUME NEW p, Procs = {p} PROVE ReviewSpec => []ReviewInv(p)
<1>1. ReviewInit => ReviewInv(p)
  BY ReviewBegins
<1>2. ReviewInv(p) /\ [ReviewNext]_reviewing => ReviewInv(p)'
  <2>1. ASSUME ReviewInv(p), ReviewNext PROVE ReviewInv(p)'
    BY <2>1, BeginStep, FillInTemplateStep, NothingScreenedStep, ScreenWritesPopulationsStep, ScreenEmptiesQueueStep,
      ScreenWritesSummaryStep, ReviewReadsStep, ReviewWritesCardsStep, ReviewWritesQueueStep,
      ReviewWritesManifestStep, ReviewWritesSummaryStep, GradeCausalStep, CausalChecksStep,
      CausalReadsCardsStep, CausalRefusesStep, CausalWritesCardsStep, CausalWritesManifestStep,
      AdjudicateChecksStep, AdjudicateUnboundStep, AdjudicateDecidesStep,
      AdjudicateUnansweredStep, CommandDiesStep
      DEF ReviewNext, ReviewStep
  <2>2. ASSUME ReviewInv(p), UNCHANGED reviewing PROVE ReviewInv(p)'
    BY <2>2 DEF reviewing, ReviewInv, ReviewTypes, ClassesOfTheirScreening, OlderAnswersFailClosed,
       ScreenUnderWay, ReviewUnderWay, CalibrationUnderWay, DecisionUnderWay, SoundHolds, Bound
  <2>. QED
    BY <2>1, <2>2
<1>. QED
  BY <1>1, <1>2, PTL DEF ReviewSpec

\* Where one command runs at a time and any may die between two writes, people's
\* answers and classes are used for the cards and the screening they were given
\* for, and a review whose commands all came to their end can go on (review.py).
THEOREM AnswersStayWithTheirQuestions ==
  ASSUME NEW p, Procs = {p} PROVE ReviewSpec => []AnswersMeetTheirQuestions
<1>1. ReviewInv(p) => AnswersMeetTheirQuestions
  BY CardsAre DEF ReviewInv, ReviewTypes, ReviewTypeOK, AnswersMeetTheirQuestions, SoundHolds,
     SoundMeansBound, AtRest
<1>. QED
  BY <1>1, ReviewHolds, PTL

------------------------------------------------------------------------------
(* The stages of the grading.                                                *)

Whole(c) == c.scan \in Scans /\ c.state \in Takes

\* The state judgements of one screening are made once, so that what was made
\* of them is theirs.
FilesOK ==
  /\ \A f \in {"inputs", "smoke"} :
       files[f] # None => files[f].scan \in Scans /\ files[f] = Content(files[f].scan, "-", "-")
  /\ files["judged"] # None =>
       /\ files["judged"].scan \in Scans /\ files["judged"].state \in Takes \cup {"part"}
       /\ files["judged"].causal = "-"
  /\ files["causal_inputs"] # None =>
       files["causal_inputs"] = files["judged"] /\ Whole(files["judged"])
  /\ files["causal_judged"] # None =>
       /\ files["causal_inputs"] # None
       /\ files["causal_judged"].causal \in Takes \cup {"part"}
       /\ files["causal_judged"].scan = files["causal_inputs"].scan
       /\ files["causal_judged"].state = files["causal_inputs"].state

\* What is bound is the file that is there, or was made for another manifest.
BoundOK ==
  /\ bound["inputs"] # None =>
       bound["inputs"].scan \in Scans /\ bound["inputs"] = Content(bound["inputs"].scan, "-", "-")
  /\ \A n \in {"judged", "state_answers"} :
       bound[n] # None => bound[n] = files["judged"] /\ Whole(files["judged"])
  /\ bound["causal_inputs"] # None => bound["causal_inputs"] = files["causal_inputs"]
  /\ \A n \in {"causal_judged", "causal_answers"} :
       bound[n] # None => bound[n] = files["causal_judged"] /\ bound[n].causal \in Takes
  /\ \A n \in BoundNames : bound[n] # None => bound[n].scan = bound["inputs"].scan
  \* Classes go only into cards of a review that has its manifest.
  /\ evidence.cards.causal # "-" => evidence.bound # None

\* Cards with people's classes are bound, once the causal calibration is past them.
CardsAreBound == evidence.cards = files["causal_judged"] => evidence.bound = evidence.cards

\* What a stage under way, or one that died, goes by.
StageOK(step) ==
  /\ step = "prepare" => files["inputs"] # None
  /\ step = "freeze" => smoke = Nothing /\ files["smoke"] # None
  /\ step = "report" => results.outcome \in {"safe", "unsafe"}
  /\ step = "abort" => results.outcome = "part"
  /\ step = "judge" => Keep("inputs") /\ Whole(files["judged"]) /\ files["judged"].scan = files["inputs"].scan
  /\ step = "calibrate" => MayCalibrate
  /\ step = "prepare_causal" => Keep("inputs") /\ Keep("judged") /\ files["causal_inputs"] # None
  /\ step = "judge_causal" => Keep("causal_inputs") /\ files["causal_judged"].causal \in Takes
  /\ step \in {"classify", "rebind"} => MayMeasureCausal
  /\ step = "calibrate_causal" => MayMeasureCausal /\ CardsAreBound

StagesOK == StageOK(at) /\ StageOK(died) /\ (died # "none" => at = "idle") /\ died # "idle"

Samples == [payload : Contents, judge : Judges \cup {"none"},
            outcome : {"none", "pending", "passed", "failed", "aborted"}]
Results == [payload : Contents, judge : Judges \cup {"none"},
            outcome : {"none", "safe", "unsafe", "part"}]

SampleOK ==
  /\ smoke \in Samples /\ results \in Results
  /\ smoke # Nothing => smoke.payload = files["smoke"]
  /\ results.outcome = "none" => results = Nothing
  /\ results.outcome # "none" =>
       /\ smoke # Nothing /\ results.payload = smoke.payload /\ results.judge \in Judges
       /\ [payload |-> results.payload, judge |-> results.judge] \in approved
  /\ SmokeRestsOnApproval

GradingInv == PipelineTypeOK /\ FilesOK /\ BoundOK /\ StagesOK /\ SampleOK

LEMMA ContentsAre ==
  /\ None \in Contents /\ None.scan = "none" /\ None.state = "-" /\ None.causal = "-"
  /\ \A c \in Contents : /\ c.scan \in Scans \cup {"none"} /\ c.state \in Marks /\ c.causal \in Marks
                         /\ c = Content(c.scan, c.state, c.causal)
  /\ \A s \in Scans, a, b \in Marks : Content(s, a, b) \in Contents /\ Content(s, a, b) # None
  /\ "none" \notin Scans /\ "none" \notin Judges /\ "-" \notin Takes /\ "part" \notin Takes
  /\ Takes \subseteq Marks /\ "part" \in Marks /\ "-" \in Marks
BY MarksAreApart DEF None, Contents, Content, Marks

LEMMA GradingBegins == PipelineInit => GradingInv
BY ContentsAre DEF PipelineInit, GradingInv, PipelineTypeOK, FilesOK, BoundOK, StagesOK,
   StageOK, SampleOK, SmokeRestsOnApproval, Samples, Results, Nothing, FileNames, BoundNames, Keep,
   MayCalibrate, MayMeasureCausal, CardsAreBound, Whole

LEMMA PrepareWritesFiles == GradingInv /\ PrepareWrites => FilesOK'
<1>. SUFFICES ASSUME GradingInv, PrepareWrites PROVE FilesOK'
  OBVIOUS
<1>1. /\ files'["inputs"] = Content(scan, "-", "-") /\ scan \in Scans
      /\ \A f \in FileNames : f # "inputs" => files'[f] = files[f]
  BY DEF PrepareWrites, GradingInv, PipelineTypeOK, FileNames
<1>. QED
  BY <1>1, ContentsAre DEF GradingInv, FilesOK, FileNames, Whole, Content

LEMMA PrepareBindsContents == GradingInv /\ PrepareBinds => PipelineTypeOK'
<1>. SUFFICES ASSUME GradingInv, PrepareBinds PROVE PipelineTypeOK'
  OBVIOUS
<1>1. files["inputs"] \in Contents /\ "part" # files["inputs"].state /\ "part" # files["inputs"].causal
  BY ContentsAre DEF GradingInv, FilesOK, StagesOK, StageOK, PrepareBinds, PipelineTypeOK,
     FileNames, Content
<1>2. bound' \in [BoundNames -> Contents] /\ \A n \in BoundNames : "part" \notin {bound'[n].state, bound'[n].causal}
  BY <1>1, ContentsAre DEF PrepareBinds, BoundNames
<1>. QED
  BY <1>2 DEF GradingInv, PipelineTypeOK, PrepareBinds

LEMMA JudgeKeepsTheFilesInOrder == GradingInv /\ Judge => FilesOK' /\ StageOK(at)' /\ BoundOK'
<1>. SUFFICES ASSUME GradingInv, Judge PROVE FilesOK' /\ StageOK(at)' /\ BoundOK'
  OBVIOUS
<1>1. ASSUME Whole(files["judged"]), files["judged"].scan = files["inputs"].scan,
             StageGoes("judge"), UNCHANGED files
      PROVE  FilesOK' /\ StageOK(at)' /\ BoundOK'
  BY <1>1 DEF Judge, MayJudge, GradingInv, FilesOK, BoundOK, StageOK, StageGoes, Keep, Whole
<1>2. ASSUME NEW t \in Takes \cup {"part"},
             files' = [files EXCEPT !["judged"] = Content(files["inputs"].scan, t, "-")],
             StageGoes(IF t = "part" THEN "idle" ELSE "judge"),
             ~Whole(files["judged"])
      PROVE  FilesOK' /\ StageOK(at)' /\ BoundOK'
  <2>1. /\ files'["judged"] = Content(files["inputs"].scan, t, "-") /\ Keep("inputs") /\ files["inputs"].scan \in Scans
        /\ \A f \in FileNames : f # "judged" => files'[f] = files[f]
        /\ UNCHANGED <<bound, smoke, results, answered, evidence>>
    BY <1>2 DEF Judge, MayJudge, GradingInv, PipelineTypeOK, FilesOK, FileNames, Keep
  <2>2. FilesOK'
    BY <1>2, <2>1, ContentsAre DEF GradingInv, FilesOK, FileNames, Content
  <2>3. StageOK(at)'
    BY <1>2, <2>1, ContentsAre DEF StageOK, StageGoes, FileNames, BoundNames, Content, Keep, Whole
  <2>4. BoundOK'
    BY <1>2, <2>1, ContentsAre DEF GradingInv, BoundOK, FileNames, BoundNames
  <2>. QED
    BY <2>2, <2>3, <2>4
<1>. QED
  BY <1>1, <1>2, ContentsAre DEF Judge, MayJudge, GradingInv, PipelineTypeOK, FilesOK, Whole,
     FileNames, Keep

LEMMA CausalBindsWhatIsThere == GradingInv /\ PrepareCausalBinds => PipelineTypeOK' /\ BoundOK'
<1>. SUFFICES ASSUME GradingInv, PrepareCausalBinds PROVE PipelineTypeOK' /\ BoundOK'
  OBVIOUS
<1>1. /\ bound'["causal_inputs"] = files["causal_inputs"] /\ bound'["causal_judged"] = None
      /\ \A n \in BoundNames \ {"causal_inputs", "causal_judged"} : bound'[n] = bound[n]
      /\ UNCHANGED <<files, scan, results, evidence>>
  BY DEF PrepareCausalBinds, GradingInv, PipelineTypeOK, BoundNames
<1>2. /\ files["causal_inputs"] = files["judged"] /\ Whole(files["judged"]) /\ files["causal_inputs"] \in Contents
      /\ files["causal_inputs"].causal = "-" /\ files["causal_inputs"].scan = bound["inputs"].scan
  BY ContentsAre DEF PrepareCausalBinds, GradingInv, PipelineTypeOK, FilesOK, BoundOK, StagesOK,
     StageOK, FileNames, BoundNames, Keep
<1>3. PipelineTypeOK'
  <2>1. bound' \in [BoundNames -> Contents]
    BY <1>2, ContentsAre DEF PrepareCausalBinds, GradingInv, PipelineTypeOK
  <2>2. \A n \in BoundNames : "part" \notin {bound'[n].state, bound'[n].causal}
    <3>. SUFFICES ASSUME NEW n \in BoundNames PROVE "part" \notin {bound'[n].state, bound'[n].causal}
      OBVIOUS
    <3>. CASE n = "causal_inputs"
      BY <1>1, <1>2, ContentsAre DEF Whole
    <3>. CASE n = "causal_judged"
      BY <1>1, ContentsAre
    <3>. CASE n \notin {"causal_inputs", "causal_judged"}
      BY <1>1 DEF GradingInv, PipelineTypeOK
    <3>. QED
      OBVIOUS
  <2>. QED
    BY <1>1, <2>1, <2>2 DEF GradingInv, PipelineTypeOK
<1>4. BoundOK'
  BY <1>1, <1>2, ContentsAre DEF GradingInv, BoundOK, BoundNames, Whole
<1>. QED
  BY <1>3, <1>4

LEMMA CausalJudgementsKeepTheFilesInOrder ==
  GradingInv /\ JudgeCausal => PipelineTypeOK' /\ FilesOK' /\ StageOK(at)' /\ BoundOK'
<1>. SUFFICES ASSUME GradingInv, JudgeCausal PROVE PipelineTypeOK' /\ FilesOK' /\ StageOK(at)' /\ BoundOK'
  OBVIOUS
<1>1. ASSUME files["causal_judged"].causal \in Takes, StageGoes("judge_causal"), UNCHANGED files
      PROVE  PipelineTypeOK' /\ FilesOK' /\ StageOK(at)' /\ BoundOK'
  BY <1>1 DEF JudgeCausal, MayJudgeCausal, GradingInv, PipelineTypeOK, FilesOK, BoundOK, StageOK,
     StageGoes, Keep, Whole
<1>2. ASSUME NEW t \in Takes \cup {"part"},
             files' = [files EXCEPT !["causal_judged"] = [files["causal_inputs"] EXCEPT !.causal = t]],
             StageGoes(IF t = "part" THEN "idle" ELSE "judge_causal"),
             files["causal_judged"].causal \notin Takes
      PROVE  PipelineTypeOK' /\ FilesOK' /\ StageOK(at)' /\ BoundOK'
  <2>1. /\ files["causal_inputs"] # None /\ files["causal_inputs"] = files["judged"] /\ Keep("causal_inputs")
        /\ files["judged"].scan \in Scans /\ files["judged"].state \in Takes
        /\ files["judged"] = Content(files["judged"].scan, files["judged"].state, "-")
        /\ UNCHANGED <<bound, smoke, scan, results, answered, evidence>>
    BY ContentsAre DEF JudgeCausal, MayJudgeCausal, GradingInv, PipelineTypeOK, FilesOK,
       FileNames, Keep, Whole
  <2>2. /\ files'["causal_judged"] = Content(files["judged"].scan, files["judged"].state, t)
        /\ \A f \in FileNames : f # "causal_judged" => files'[f] = files[f]
    <3>1. [files["causal_inputs"] EXCEPT !.causal = t] = Content(files["judged"].scan, files["judged"].state, t)
      BY <2>1 DEF Content
    <3>. QED
      BY <1>2, <3>1 DEF GradingInv, PipelineTypeOK, FileNames
  <2>3. Content(files["judged"].scan, files["judged"].state, t) \in Contents
    BY <2>1, ContentsAre
  <2>4. PipelineTypeOK'
    BY <1>2, <2>1, <2>2, <2>3 DEF GradingInv, PipelineTypeOK, FileNames, BoundNames
  <2>5. FilesOK'
    BY <1>2, <2>1, <2>2, <2>3, ContentsAre DEF GradingInv, FilesOK, FileNames, Content
  <2>6. StageOK(at)'
    BY <1>2, <2>1, <2>2, ContentsAre DEF StageOK, StageGoes, FileNames, BoundNames, Content, Keep,
       Whole
  <2>7. BoundOK'
    BY <1>2, <2>1, <2>2, ContentsAre DEF GradingInv, BoundOK, FileNames, BoundNames
  <2>. QED
    BY <2>4, <2>5, <2>6, <2>7
<1>. QED
  BY <1>1, <1>2, ContentsAre DEF JudgeCausal

USE DEF GradingInv, PipelineTypeOK, FilesOK, BoundOK, StagesOK, StageOK, SampleOK,
    SmokeRestsOnApproval, KeepsPaidAnswers, Samples, Results, Nothing, FileNames,
    BoundNames, Keep, MayCalibrate, MayMeasureCausal, CardsAreBound, Whole, NoStage,
    StageGoes, StageEnds

LEMMA ScreenStep == GradingInv /\ Screen => GradingInv' /\ KeepsPaidAnswers
BY ContentsAre DEF Screen

LEMMA PrepareWritesStep == GradingInv /\ PrepareWrites => GradingInv' /\ KeepsPaidAnswers
<1>. SUFFICES ASSUME GradingInv, PrepareWrites PROVE GradingInv' /\ KeepsPaidAnswers
  OBVIOUS
<1>1. FilesOK'
  BY PrepareWritesFiles
<1>2. PipelineTypeOK'
  BY ContentsAre DEF PrepareWrites
<1>3. BoundOK'
  BY ContentsAre DEF PrepareWrites
<1>4. StageOK(at)'
  BY ContentsAre DEF PrepareWrites
<1>5. StageOK(died)'
  BY ContentsAre DEF PrepareWrites
<1>6. ((died # "none" => at = "idle") /\ died # "idle")'
  BY ContentsAre DEF PrepareWrites
<1>7. SampleOK'
  BY ContentsAre DEF PrepareWrites
<1>8. KeepsPaidAnswers
  BY ContentsAre DEF PrepareWrites
<1>. QED
  BY <1>1, <1>2, <1>3, <1>4, <1>5, <1>6, <1>7, <1>8 DEF GradingInv, StagesOK

LEMMA PrepareBindsStep == GradingInv /\ PrepareBinds => GradingInv' /\ KeepsPaidAnswers
<1>. SUFFICES ASSUME GradingInv, PrepareBinds PROVE GradingInv' /\ KeepsPaidAnswers
  OBVIOUS
<1>1. PipelineTypeOK'
  BY PrepareBindsContents
<1>2. FilesOK'
  BY ContentsAre DEF PrepareBinds
<1>3. BoundOK'
  BY ContentsAre DEF PrepareBinds
<1>4. StageOK(at)'
  BY ContentsAre DEF PrepareBinds
<1>5. StageOK(died)'
  BY ContentsAre DEF PrepareBinds
<1>6. ((died # "none" => at = "idle") /\ died # "idle")'
  BY ContentsAre DEF PrepareBinds
<1>7. SampleOK'
  BY ContentsAre DEF PrepareBinds
<1>8. KeepsPaidAnswers
  BY ContentsAre DEF PrepareBinds
<1>. QED
  BY <1>1, <1>2, <1>3, <1>4, <1>5, <1>6, <1>7, <1>8 DEF GradingInv, StagesOK

LEMMA FreezeSampleStep == GradingInv /\ FreezeSample => GradingInv' /\ KeepsPaidAnswers
<1>. SUFFICES ASSUME GradingInv, FreezeSample PROVE GradingInv' /\ KeepsPaidAnswers
  OBVIOUS
<1>1. PipelineTypeOK' /\ FilesOK'
  BY ContentsAre DEF FreezeSample
<1>2. BoundOK'
  BY ContentsAre DEF FreezeSample
<1>3. StagesOK'
  BY ContentsAre DEF FreezeSample
<1>4. SampleOK' /\ KeepsPaidAnswers
  BY ContentsAre DEF FreezeSample
<1>. QED
  BY <1>1, <1>2, <1>3, <1>4 DEF GradingInv

LEMMA FreezeBindsStep == GradingInv /\ FreezeBinds => GradingInv' /\ KeepsPaidAnswers
<1>. SUFFICES ASSUME GradingInv, FreezeBinds PROVE GradingInv' /\ KeepsPaidAnswers
  OBVIOUS
<1>1. PipelineTypeOK' /\ FilesOK'
  BY ContentsAre DEF FreezeBinds
<1>2. BoundOK'
  BY ContentsAre DEF FreezeBinds
<1>3. StagesOK'
  BY ContentsAre DEF FreezeBinds
<1>4. SampleOK' /\ KeepsPaidAnswers
  BY ContentsAre DEF FreezeBinds
<1>. QED
  BY <1>1, <1>2, <1>3, <1>4 DEF GradingInv

LEMMA ApproveStep == GradingInv /\ Approve => GradingInv' /\ KeepsPaidAnswers
BY ContentsAre DEF Approve

LEMMA GradeSampleStep ==
  ASSUME GradingInv, NEW j \in Judges, GradeSample(j)
  PROVE  GradingInv' /\ KeepsPaidAnswers
<1>1. PipelineTypeOK' /\ FilesOK'
  BY ContentsAre DEF GradeSample, MayGrade
<1>2. BoundOK'
  BY ContentsAre DEF GradeSample, MayGrade
<1>3. StagesOK'
  BY ContentsAre DEF GradeSample, MayGrade
<1>4. SampleOK'
  <2>1. CASE results.outcome \in {"safe", "unsafe"}
    BY <2>1 DEF GradeSample
  <2>2. CASE results.outcome \notin {"safe", "unsafe"}
    <3>1. PICK o \in {"safe", "unsafe", "part"} :
            /\ results' = [payload |-> smoke.payload, judge |-> j, outcome |-> o]
            /\ sent' = sent \cup {[payload |-> smoke.payload, judge |-> j]}
            /\ UNCHANGED <<files, smoke, approved>>
      BY <2>2 DEF GradeSample
    <3>2. smoke # Nothing /\ [payload |-> smoke.payload, judge |-> j] \in approved
      BY DEF GradeSample, MayGrade
    <3>. QED
      BY <2>2, <3>1, <3>2, ContentsAre
  <2>. QED
    BY <2>1, <2>2
<1>5. KeepsPaidAnswers
  BY DEF GradeSample
<1>. QED
  BY <1>1, <1>2, <1>3, <1>4, <1>5

LEMMA GradeEndsStep == GradingInv /\ GradeEnds => GradingInv' /\ KeepsPaidAnswers
<1>. SUFFICES ASSUME GradingInv, GradeEnds PROVE GradingInv' /\ KeepsPaidAnswers
  OBVIOUS
<1>1. PipelineTypeOK'
  BY ContentsAre DEF GradeEnds
<1>2. FilesOK'
  BY ContentsAre DEF GradeEnds
<1>3. BoundOK'
  BY ContentsAre DEF GradeEnds
<1>4. StageOK(at)'
  BY ContentsAre DEF GradeEnds
<1>5. StageOK(died)'
  BY ContentsAre DEF GradeEnds
<1>6. ((died # "none" => at = "idle") /\ died # "idle")'
  BY ContentsAre DEF GradeEnds
<1>7. SampleOK'
  BY ContentsAre DEF GradeEnds
<1>8. KeepsPaidAnswers
  BY ContentsAre DEF GradeEnds
<1>. QED
  BY <1>1, <1>2, <1>3, <1>4, <1>5, <1>6, <1>7, <1>8 DEF GradingInv, StagesOK

LEMMA JudgeStep == GradingInv /\ Judge => GradingInv' /\ KeepsPaidAnswers
<1>. SUFFICES ASSUME GradingInv, Judge PROVE GradingInv' /\ KeepsPaidAnswers
  OBVIOUS
<1>1. FilesOK' /\ BoundOK' /\ StageOK(at)'
  BY JudgeKeepsTheFilesInOrder
<1>2. PipelineTypeOK'
  <2>1. files' \in [FileNames -> Contents]
    <3>1. files["inputs"].scan \in Scans
      BY ContentsAre DEF Judge, MayJudge
    <3>2. \A t \in Takes \cup {"part"} : Content(files["inputs"].scan, t, "-") \in Contents
      BY <3>1, ContentsAre
    <3>. QED
      BY <3>2 DEF Judge
  <2>. QED
    BY <2>1 DEF Judge
<1>3. StageOK(died)'
  BY ContentsAre DEF Judge, MayJudge
<1>4. ((died # "none" => at = "idle") /\ died # "idle")'
  BY ContentsAre DEF Judge, MayJudge
<1>5. SampleOK'
  BY ContentsAre DEF Judge, MayJudge
<1>6. KeepsPaidAnswers
  BY ContentsAre DEF Judge, MayJudge
<1>. QED
  BY <1>1, <1>2, <1>3, <1>4, <1>5, <1>6 DEF GradingInv, StagesOK

LEMMA JudgeBindsStep == GradingInv /\ JudgeBinds => GradingInv' /\ KeepsPaidAnswers
<1>. SUFFICES ASSUME GradingInv, JudgeBinds PROVE GradingInv' /\ KeepsPaidAnswers
  OBVIOUS
<1>1. PipelineTypeOK' /\ FilesOK'
  BY ContentsAre DEF JudgeBinds
<1>2. BoundOK'
  BY ContentsAre DEF JudgeBinds
<1>3. StagesOK'
  BY ContentsAre DEF JudgeBinds
<1>4. SampleOK' /\ KeepsPaidAnswers
  BY ContentsAre DEF JudgeBinds
<1>. QED
  BY <1>1, <1>2, <1>3, <1>4 DEF GradingInv

LEMMA FillInQueueStep == GradingInv /\ FillInQueue => GradingInv' /\ KeepsPaidAnswers
BY ContentsAre DEF FillInQueue

LEMMA CalibrateStep == GradingInv /\ Calibrate => GradingInv' /\ KeepsPaidAnswers
BY ContentsAre DEF Calibrate

LEMMA CalibrateBindsStep == GradingInv /\ CalibrateBinds => GradingInv' /\ KeepsPaidAnswers
<1>. SUFFICES ASSUME GradingInv, CalibrateBinds PROVE GradingInv' /\ KeepsPaidAnswers
  OBVIOUS
<1>1. PipelineTypeOK' /\ FilesOK'
  BY ContentsAre DEF CalibrateBinds
<1>2. BoundOK'
  BY ContentsAre DEF CalibrateBinds
<1>3. StagesOK'
  BY ContentsAre DEF CalibrateBinds
<1>4. SampleOK' /\ KeepsPaidAnswers
  BY ContentsAre DEF CalibrateBinds
<1>. QED
  BY <1>1, <1>2, <1>3, <1>4 DEF GradingInv

LEMMA PrepareCausalStep == GradingInv /\ PrepareCausal => GradingInv' /\ KeepsPaidAnswers
<1>. SUFFICES ASSUME GradingInv, PrepareCausal PROVE GradingInv' /\ KeepsPaidAnswers
  OBVIOUS
<1>1. PipelineTypeOK' /\ FilesOK'
  BY ContentsAre DEF PrepareCausal, MayPrepareCausal
<1>2. BoundOK'
  BY ContentsAre DEF PrepareCausal, MayPrepareCausal
<1>3. StagesOK'
  BY ContentsAre DEF PrepareCausal, MayPrepareCausal
<1>4. SampleOK' /\ KeepsPaidAnswers
  BY ContentsAre DEF PrepareCausal, MayPrepareCausal
<1>. QED
  BY <1>1, <1>2, <1>3, <1>4 DEF GradingInv

LEMMA PrepareCausalBindsStep == GradingInv /\ PrepareCausalBinds => GradingInv' /\ KeepsPaidAnswers
<1>. SUFFICES ASSUME GradingInv, PrepareCausalBinds PROVE GradingInv' /\ KeepsPaidAnswers
  OBVIOUS
<1>1. PipelineTypeOK' /\ BoundOK'
  BY CausalBindsWhatIsThere
<1>2. FilesOK'
  BY ContentsAre DEF PrepareCausalBinds
<1>3. StageOK(at)'
  BY ContentsAre DEF PrepareCausalBinds
<1>4. StageOK(died)'
  BY ContentsAre DEF PrepareCausalBinds
<1>5. ((died # "none" => at = "idle") /\ died # "idle")'
  BY ContentsAre DEF PrepareCausalBinds
<1>6. SampleOK'
  BY ContentsAre DEF PrepareCausalBinds
<1>7. KeepsPaidAnswers
  BY ContentsAre DEF PrepareCausalBinds
<1>. QED
  BY <1>1, <1>2, <1>3, <1>4, <1>5, <1>6, <1>7 DEF GradingInv, StagesOK

LEMMA JudgeCausalStep == GradingInv /\ JudgeCausal => GradingInv' /\ KeepsPaidAnswers
<1>. SUFFICES ASSUME GradingInv, JudgeCausal PROVE GradingInv' /\ KeepsPaidAnswers
  OBVIOUS
<1>1. PipelineTypeOK' /\ FilesOK' /\ BoundOK' /\ StageOK(at)'
  BY CausalJudgementsKeepTheFilesInOrder
<1>2. StageOK(died)'
  BY ContentsAre DEF JudgeCausal, MayJudgeCausal
<1>3. ((died # "none" => at = "idle") /\ died # "idle")'
  BY ContentsAre DEF JudgeCausal, MayJudgeCausal
<1>4. SampleOK'
  BY ContentsAre DEF JudgeCausal, MayJudgeCausal
<1>5. KeepsPaidAnswers
  BY ContentsAre DEF JudgeCausal, MayJudgeCausal
<1>. QED
  BY <1>1, <1>2, <1>3, <1>4, <1>5 DEF GradingInv, StagesOK

LEMMA JudgeCausalBindsStep == GradingInv /\ JudgeCausalBinds => GradingInv' /\ KeepsPaidAnswers
<1>. SUFFICES ASSUME GradingInv, JudgeCausalBinds PROVE GradingInv' /\ KeepsPaidAnswers
  OBVIOUS
<1>1. PipelineTypeOK' /\ FilesOK'
  BY ContentsAre DEF JudgeCausalBinds
<1>2. BoundOK'
  BY ContentsAre DEF JudgeCausalBinds
<1>3. StagesOK'
  BY ContentsAre DEF JudgeCausalBinds
<1>4. SampleOK' /\ KeepsPaidAnswers
  BY ContentsAre DEF JudgeCausalBinds
<1>. QED
  BY <1>1, <1>2, <1>3, <1>4 DEF GradingInv

LEMMA CalibrateCausalStep == GradingInv /\ CalibrateCausal => GradingInv' /\ KeepsPaidAnswers
BY ContentsAre DEF CalibrateCausal

LEMMA ReviewS0Step == GradingInv /\ ReviewS0 => GradingInv' /\ KeepsPaidAnswers
<1>. SUFFICES ASSUME GradingInv, ReviewS0 PROVE GradingInv' /\ KeepsPaidAnswers
  OBVIOUS
<1>1. /\ scan \in Scans /\ evidence'.cards = Content(scan, "-", "-")
      /\ evidence'.bound \in {evidence'.cards, evidence.bound}
      /\ evidence' \in [cards : Contents, bound : Contents]
      /\ UNCHANGED <<seen, scan, files, bound, smoke, results, approved, sent, answered, at, died>>
  BY ContentsAre DEF ReviewS0
<1>2. PipelineTypeOK' /\ FilesOK' /\ SampleOK' /\ KeepsPaidAnswers
  BY <1>1
<1>3. BoundOK'
  BY <1>1, ContentsAre DEF Content
<1>4. ASSUME NEW step PROVE StageOK(step) => StageOK(step)'
  BY <1>1, ContentsAre DEF Content
<1>. QED
  BY <1>1, <1>2, <1>3, <1>4

LEMMA ClassifyCardsStep == GradingInv /\ ClassifyCards => GradingInv' /\ KeepsPaidAnswers
<1>. SUFFICES ASSUME GradingInv, ClassifyCards PROVE GradingInv' /\ KeepsPaidAnswers
  OBVIOUS
<1>1. /\ MayMeasureCausal /\ died = "none"
      /\ files["causal_judged"].causal \in Takes /\ files["causal_judged"] # None
  BY ContentsAre DEF ClassifyCards
<1>2. PipelineTypeOK' /\ FilesOK' /\ SampleOK' /\ KeepsPaidAnswers
  BY DEF ClassifyCards
<1>3. BoundOK'
  BY DEF ClassifyCards, Reviewed
<1>4. StagesOK'
  BY <1>1, ContentsAre DEF ClassifyCards, Reviewed
<1>. QED
  BY <1>2, <1>3, <1>4

LEMMA RebindCardsStep == GradingInv /\ RebindCards => GradingInv' /\ KeepsPaidAnswers
<1>. SUFFICES ASSUME GradingInv, RebindCards PROVE GradingInv' /\ KeepsPaidAnswers
  OBVIOUS
<1>1. MayMeasureCausal /\ died = "none" /\ files["causal_judged"] # None
  BY ContentsAre DEF RebindCards
<1>2. PipelineTypeOK' /\ FilesOK' /\ SampleOK' /\ KeepsPaidAnswers
  BY DEF RebindCards
<1>3. BoundOK'
  BY <1>1 DEF RebindCards
<1>4. StagesOK'
  BY <1>1, ContentsAre DEF RebindCards
<1>. QED
  BY <1>2, <1>3, <1>4

LEMMA CalibrateCausalBindsStep ==
  GradingInv /\ CalibrateCausalBinds => GradingInv' /\ KeepsPaidAnswers
<1>. SUFFICES ASSUME GradingInv, CalibrateCausalBinds PROVE GradingInv' /\ KeepsPaidAnswers
  OBVIOUS
<1>1. PipelineTypeOK' /\ FilesOK'
  BY ContentsAre DEF CalibrateCausalBinds
<1>2. BoundOK'
  BY ContentsAre DEF CalibrateCausalBinds
<1>3. StagesOK'
  BY ContentsAre DEF CalibrateCausalBinds
<1>4. SampleOK' /\ KeepsPaidAnswers
  BY ContentsAre DEF CalibrateCausalBinds
<1>. QED
  BY <1>1, <1>2, <1>3, <1>4 DEF GradingInv

LEMMA StageDiesStep == GradingInv /\ StageDies => GradingInv' /\ KeepsPaidAnswers
<1>. SUFFICES ASSUME GradingInv, StageDies PROVE GradingInv' /\ KeepsPaidAnswers
  OBVIOUS
<1>1. PipelineTypeOK' /\ FilesOK'
  BY ContentsAre DEF StageDies
<1>2. BoundOK'
  BY ContentsAre DEF StageDies
<1>3. StagesOK'
  BY ContentsAre DEF StageDies
<1>4. SampleOK' /\ KeepsPaidAnswers
  BY ContentsAre DEF StageDies
<1>. QED
  BY <1>1, <1>2, <1>3, <1>4 DEF GradingInv

LEMMA GradingStutters == GradingInv /\ UNCHANGED grading => GradingInv'
BY DEF grading

HIDE DEF GradingInv, PipelineTypeOK, FilesOK, BoundOK, StagesOK, StageOK, SampleOK,
    SmokeRestsOnApproval, KeepsPaidAnswers, Samples, Results, Nothing, FileNames,
    BoundNames, Keep, MayCalibrate, MayMeasureCausal, CardsAreBound, Whole, NoStage,
    StageGoes, StageEnds

LEMMA GradingStays ==
  GradingInv /\ [PipelineNext]_grading => GradingInv' /\ (KeepsPaidAnswers \/ UNCHANGED grading)
<1>1. ASSUME GradingInv, PipelineNext PROVE GradingInv' /\ KeepsPaidAnswers
  BY <1>1, ScreenStep, PrepareWritesStep, PrepareBindsStep, FreezeSampleStep, FreezeBindsStep,
    ApproveStep, GradeSampleStep, GradeEndsStep, JudgeStep, JudgeBindsStep, FillInQueueStep,
    CalibrateStep, CalibrateBindsStep, PrepareCausalStep, PrepareCausalBindsStep,
    JudgeCausalStep, JudgeCausalBindsStep, ReviewS0Step, CalibrateCausalStep,
    ClassifyCardsStep, RebindCardsStep, CalibrateCausalBindsStep,
    StageDiesStep
    DEF PipelineNext
<1>. QED
  BY <1>1, GradingStutters

LEMMA GradingHolds == PipelineSpec => []GradingInv
<1>. QED
  BY GradingBegins, GradingStays, PTL DEF PipelineSpec

\* Whatever is bound is of the manifest's screening, and what was made of state
\* or causal judgements was made of those that are there.
LEMMA BoundIsOneRun == GradingInv => BoundOfOneRun
<1>. SUFFICES ASSUME GradingInv PROVE BoundOfOneRun
  OBVIOUS
<1>1. ASSUME NEW n \in BoundNames, bound[n] # None
      PROVE  /\ bound[n].scan = bound["inputs"].scan
             /\ bound[n].state \in {"-", files["judged"].state}
             /\ bound[n].causal \in {"-", files["causal_judged"].causal}
  BY <1>1, ContentsAre DEF
    GradingInv, PipelineTypeOK, FilesOK, BoundOK, BoundNames, FileNames, Whole, Content
<1>. QED
  BY <1>1 DEF BoundOfOneRun, Agree

LEMMA TheDeadMayBeRerun == GradingInv => DiedMayBeRerun
<1>. SUFFICES ASSUME GradingInv, died # "none", scan = bound["inputs"].scan, Keep("inputs")
              PROVE  CASE died = "judge" -> MayJudge
                       [] died = "prepare_causal" -> MayPrepareCausal
                       [] died = "judge_causal" -> MayJudgeCausal
                       [] died \in {"report", "abort"} -> \E j \in Judges : MayGrade(j)
                       [] died = "calibrate" -> MayCalibrate
                       [] died \in {"classify", "rebind"} -> MayMeasureCausal
                       [] died = "calibrate_causal" ->
                            /\ MayMeasureCausal
                            /\ evidence.cards = files["causal_judged"] => MayClassify
                       [] OTHER -> TRUE
  BY DEF DiedMayBeRerun
<1>1. CASE died = "judge"
  BY <1>1 DEF GradingInv, StagesOK, StageOK, MayJudge
<1>2. CASE died = "prepare_causal"
  BY <1>2 DEF GradingInv, StagesOK, StageOK, MayPrepareCausal
<1>3. CASE died = "judge_causal"
  BY <1>3 DEF GradingInv, StagesOK, StageOK, FilesOK, MayJudgeCausal
<1>4. CASE died \in {"report", "abort"}
  <2>. MayGrade(results.judge) /\ results.judge \in Judges
    BY <1>4 DEF GradingInv, StagesOK, StageOK, SampleOK, MayGrade
  <2>. QED
    BY <1>4
<1>5. CASE died = "calibrate"
  BY <1>5 DEF GradingInv, StagesOK, StageOK
<1>6. CASE died \in {"classify", "rebind"}
  BY <1>6 DEF GradingInv, StagesOK, StageOK
<1>7. CASE died = "calibrate_causal"
  <2>1. MayMeasureCausal /\ CardsAreBound
    BY <1>7 DEF GradingInv, StagesOK, StageOK
  <2>2. files["causal_judged"].scan = bound["inputs"].scan
    BY <2>1 DEF GradingInv, BoundOK, MayMeasureCausal, Keep, BoundNames
  <2>. QED
    BY <1>7, <2>1, <2>2 DEF CardsAreBound, MayClassify
<1>. QED
  BY <1>1, <1>2, <1>3, <1>4, <1>5, <1>6, <1>7

\* All that the semantic manifest binds was made in one run of the stages,
\* whatever was run again and wherever commands died; a stage that died can be
\* run again, but for half a sample and cards classified and not bound (semantic.py).
LEMMA ManifestsStayOfOneRun == PipelineSpec => []ManifestIsOneRun
<1>1. GradingInv => ManifestIsOneRun
  BY BoundIsOneRun, TheDeadMayBeRerun DEF ManifestIsOneRun, GradingInv
<1>. QED
  BY <1>1, GradingHolds, PTL

\* A sample goes out only to a judge approved for that very payload, and only
\* complete, safe results of such a judge make it pass (semantic.py).
LEMMA SmokeStaysOnApproval == PipelineSpec => []SmokeRestsOnApproval
<1>1. GradingInv => SmokeRestsOnApproval
  BY DEF GradingInv, SampleOK
<1>. QED
  BY <1>1, GradingHolds, PTL

\* Complete judgements and the frozen sample are never replaced (semantic.py).
LEMMA PaidAnswersAreNeverReplaced == PipelineSpec => PaidAnswersStay
<1>1. GradingInv /\ [PipelineNext]_grading => [KeepsPaidAnswers]_grading
  BY GradingStays
<1>. QED
  BY <1>1, GradingHolds, PTL DEF PipelineSpec, PaidAnswersStay

------------------------------------------------------------------------------
(* The people's triage.                                                      *)

Files == {"full", "triage", "context", "triageManifest", "reviewManifest"}
AnswersTo == UNION {[S -> Replies] : S \in SUBSET Items}
Envelopes == [round : Nat, kind : {"NONE", "TRIAGED", "FULL"}, answers : AnswersTo]
Records == [round : Nat, truth : Envelopes]
Jobs == [at : {"idle", "grade", "record", "save", "adjudicate", "decide", "bind"} \cup Files,
         record : Records, answers : Envelopes]

TriageTypes ==
  /\ triage \in TriageSets /\ graded \in Rounds
  /\ record \in Records /\ record.round \in 1..graded
  /\ prepared \in [Files -> 0..graded]
  /\ draft \in Envelopes /\ template \in Envelopes /\ truth \in Envelopes
  /\ site \in [Sites -> [round : 0..graded, finalized : BOOLEAN]]
  /\ job \in [Processes -> Jobs]

\* Answers of a round up to r, which are among the given ones; of no others than
\* the questions of their round, and of all of these.
Said(e, g, r) == /\ e.round \in 0..r
                 /\ \A i \in DOMAIN e.answers : <<e.round, i, e.answers[i]>> \in g
OfTheirQueue(e, t) == e.round # 0 /\ DOMAIN e.answers \subseteq t.triaged[e.round]
OfAllOfIt(e, t) == DOMAIN e.answers = IF e.kind = "TRIAGED" THEN t.triaged[e.round] ELSE Items

AnswersOK ==
  /\ Said(draft, given, graded) /\ (draft # NoAnswers => OfTheirQueue(draft, triage))
  /\ Said(template, given, graded)
  /\ Said(truth, given, graded) /\ (truth # NoAnswers => OfAllOfIt(truth, triage))

SitesOK == \A s \in Sites : site[s].round = 0 => site[s] = Down \/ site[s].finalized

\* What a process p has read it goes on to use, whatever has changed since.
JobFits(p, x, g, r, d, t) ==
  /\ Said(x.answers, g, r) /\ x.record.round \in 0..r
  /\ x.at = "save" => OfTheirQueue(x.answers, t)
  /\ x.at \in {"decide", "bind"} =>
       x.answers.round = x.record.round /\ OfAllOfIt(x.answers, t)
  /\ x.at \in Files \cup {"record", "decide", "bind"} => x.record.round # 0
  /\ x.at = "save" /\ t.sites = {p} => ExtendsAnswers(x.answers, d)
JobsOK == \A p \in Processes : JobFits(p, job[p], given, graded, draft, triage)

TriageInv == TriageTypes /\ AnswersOK /\ SitesOK /\ JobsOK

LEMMA WrittenFiles ==
  /\ {Written[i] : i \in DOMAIN Written} = Files
  /\ \A i \in DOMAIN Written : /\ Written[i] \in Files
                               /\ i + 1 \in DOMAIN Written => Written[i + 1] \in Files
  /\ Files \cap {"idle", "grade", "record", "save", "adjudicate", "decide", "bind"} = {}
BY DEF Written, Files

LEMMA NothingAnswered ==
  /\ <<>> \in AnswersTo /\ DOMAIN <<>> = {}
  /\ NoAnswers \in Envelopes /\ NoAnswers.round = 0 /\ NoAnswers.answers = <<>>
<1>1. <<>> \in [{} -> Replies] /\ DOMAIN <<>> = {}
  OBVIOUS
<1>2. <<>> \in AnswersTo
  BY <1>1 DEF AnswersTo
<1>. QED
  BY <1>1, <1>2 DEF Envelopes, NoAnswers

LEMMA NothingDoing ==
  /\ NoJob \in Jobs /\ NoJob.at = "idle" /\ NoJob.record.round = 0 /\ NoJob.answers = NoAnswers
BY NothingAnswered DEF NoJob, Jobs, Records

LEMMA RoundsAre ==
  ASSUME TriageTypes
  PROVE  /\ graded \in Nat /\ graded # 0 /\ Rounds = DOMAIN triage.triaged
         /\ triage.replies \subseteq Replies /\ triage.sites \subseteq Sites
         /\ \A r \in Rounds : r \in Nat /\ r # 0 /\ triage.triaged[r] \subseteq Items
BY DEF TriageTypes, TriageSets, Rounds, Triaged

LEMMA JobsStay ==
  ASSUME NEW g, NEW g2, g \subseteq g2, NEW r \in Nat, NEW r2 \in Nat, r <= r2,
         NEW p, NEW x, NEW d, NEW t, JobFits(p, x, g, r, d, t)
  PROVE  JobFits(p, x, g2, r2, d, t)
BY DEF JobFits, Said

LEMMA SaidStays ==
  ASSUME NEW g, NEW g2, g \subseteq g2, NEW r \in Nat, NEW r2 \in Nat, r <= r2,
         NEW e, Said(e, g, r)
  PROVE  Said(e, g2, r2)
BY DEF Said

LEMMA NoJobFits ==
  ASSUME NEW g, NEW r \in Nat, NEW p, NEW d, NEW t PROVE JobFits(p, NoJob, g, r, d, t)
BY NothingAnswered, NothingDoing, WrittenFiles DEF JobFits, Said

\* A step that leaves the draft and all jobs but one alone.
LEMMA OneJob ==
  ASSUME TriageInv, given \subseteq given', graded' \in Nat, graded <= graded', UNCHANGED <<draft, triage>>,
         NEW p \in Processes, NEW x \in Jobs, JobFits(p, x, given', graded', draft, triage),
         job' = [job EXCEPT ![p] = x]
  PROVE  job' \in [Processes -> Jobs] /\ JobsOK'
<1>1. /\ job' \in [Processes -> Jobs] /\ job'[p] = x
      /\ \A q \in Processes : q # p => job'[q] = job[q]
  BY DEF TriageInv, TriageTypes
<1>2. \A q \in Processes : JobFits(q, job'[q], given', graded', draft, triage)
  <2>1. \A q \in Processes : JobFits(q, job[q], given', graded', draft, triage)
    BY RoundsAre, JobsStay DEF TriageInv, JobsOK
  <2>. QED
    BY <1>1, <2>1
<1>3. Processes' = Processes
  BY DEF Processes
<1>. QED
  BY <1>1, <1>2, <1>3 DEF JobsOK

LEMMA OneJobOnly ==
  ASSUME TriageInv, UNCHANGED <<graded, given, draft, triage>>, NEW p \in Processes, NEW x \in Jobs,
         JobFits(p, x, given, graded, draft, triage), job' = [job EXCEPT ![p] = x]
  PROVE  job' \in [Processes -> Jobs] /\ JobsOK'
<1>1. given \subseteq given' /\ graded' \in Nat /\ graded <= graded' /\ UNCHANGED <<draft, triage>>
  BY RoundsAre DEF TriageInv
<1>2. JobFits(p, x, given', graded', draft, triage)
  OBVIOUS
<1>. QED
  BY <1>1, <1>2, OneJob

LEMMA NoJobs ==
  ASSUME TriageInv, UNCHANGED <<job, draft, triage>>, given \subseteq given', graded' \in Nat, graded <= graded'
  PROVE  JobsOK'
<1>1. \A q \in Processes : JobFits(q, job[q], given', graded', draft, triage)
  BY RoundsAre, JobsStay DEF TriageInv, JobsOK
<1>. QED
  BY <1>1 DEF JobsOK, Processes

LEMMA TriageBegins == TriageInit => TriageInv
<1>. SUFFICES ASSUME TriageInit PROVE TriageInv
  OBVIOUS
<1>1. triage \in TriageSets /\ Rounds = 1..Len(Triaged) /\ 1 \in Rounds
  BY TriagesAssumption DEF TriageInit, TriageSets, Triaged, Rounds
<1>2. TriageTypes
  <2>1. record \in Records /\ record.round = 1
    BY NothingAnswered DEF TriageInit, Records
  <2>2. prepared \in [Files -> 0..graded]
    BY WrittenFiles DEF TriageInit
  <2>. QED
    BY <1>1, <2>1, <2>2, NothingAnswered, NothingDoing DEF TriageInit, TriageTypes, Down
<1>3. AnswersOK /\ SitesOK /\ JobsOK
  BY NothingAnswered, NoJobFits DEF TriageInit, AnswersOK, SitesOK, JobsOK, Said
<1>. QED
  BY <1>2, <1>3 DEF TriageInv

LEMMA GradeReadsStep ==
  ASSUME TriageInv, GradeReads, UNCHANGED triage PROVE TriageInv' /\ KeepsSavedAnswers
<1>. DEFINE x == [NoJob EXCEPT !.at = "grade", !.record = record]
<1>1. x \in Jobs /\ x.at = "grade" /\ x.record = record /\ x.answers = NoAnswers
  BY NothingDoing DEF Jobs, TriageInv, TriageTypes
<1>2. JobFits(Grader, x, given, graded, draft, triage)
  BY <1>1, NothingAnswered, WrittenFiles, RoundsAre DEF JobFits, Said, TriageInv, TriageTypes
<1>3. job' \in [Processes -> Jobs] /\ JobsOK'
  <2>. HIDE DEF x
  <2>1. Grader \in Processes /\ job' = [job EXCEPT ![Grader] = x]
    BY DEF GradeReads, Processes, x
  <2>2. UNCHANGED <<graded, given, draft, triage>>
    BY DEF GradeReads
  <2>. QED
    BY <1>1, <1>2, <2>1, <2>2, OneJobOnly
<1>. QED
  BY <1>3 DEF GradeReads, TriageInv, TriageTypes, Rounds, Triaged, Processes, AnswersOK, SitesOK,
     Down, KeepsSavedAnswers, ExtendsAnswers, Differs

LEMMA GradeStep == ASSUME TriageInv, Grade, UNCHANGED triage PROVE TriageInv' /\ KeepsSavedAnswers
<1>1. /\ graded \in Nat /\ graded' = graded + 1 /\ graded' \in Rounds
      /\ given \subseteq given' /\ graded' \in Nat /\ graded <= graded'
  BY RoundsAre DEF TriageInv, Grade
<1>2. job' \in [Processes -> Jobs] /\ JobsOK'
  <2>1. Grader \in Processes /\ job' = [job EXCEPT ![Grader] = NoJob]
    BY DEF Grade, Processes, JobEnds
  <2>2. JobFits(Grader, NoJob, given', graded', draft, triage)
    BY <1>1, NoJobFits
  <2>3. UNCHANGED <<draft, triage>>
    BY DEF Grade
  <2>. QED
    BY <1>1, <2>1, <2>2, <2>3, NothingDoing, OneJob
<1>3. TriageTypes'
  <2>1. job[Grader].record \in Records
    BY DEF TriageInv, TriageTypes, Jobs, Processes
  <2>2. record' \in Records /\ record'.round = graded + 1
    BY <1>1, <2>1 DEF Grade, Records
  <2>. QED
    BY <1>1, <1>2, <2>2 DEF Grade, TriageInv, TriageTypes, Rounds, Triaged, Processes
<1>4. AnswersOK'
  BY <1>1, SaidStays DEF Grade, TriageInv, AnswersOK
<1>. QED
  BY <1>2, <1>3, <1>4 DEF Grade, TriageInv, SitesOK, Down, KeepsSavedAnswers, ExtendsAnswers,
     Differs

LEMMA ReviewAsideStep ==
  ASSUME TriageInv, ReviewAside, UNCHANGED triage PROVE TriageInv' /\ KeepsSavedAnswers
BY DEF ReviewAside, TriageInv, TriageTypes, Rounds, Triaged, Processes, AnswersOK, SitesOK,
   JobsOK, Down,
   KeepsSavedAnswers, ExtendsAnswers, Differs

LEMMA TriageReadsStep ==
  ASSUME TriageInv, TriageReads, UNCHANGED triage PROVE TriageInv' /\ KeepsSavedAnswers
<1>. DEFINE x == [NoJob EXCEPT !.at = Written[1], !.record = record]
<1>1. x \in Jobs /\ x.at \in Files /\ x.record = record /\ x.answers = NoAnswers
  BY NothingDoing, WrittenFiles DEF Jobs, TriageInv, TriageTypes, Written, Files
<1>2. JobFits(Cli, x, given, graded, draft, triage)
  BY <1>1, NothingAnswered, WrittenFiles, RoundsAre DEF JobFits, Said, TriageInv, TriageTypes
<1>3. job' \in [Processes -> Jobs] /\ JobsOK'
  <2>. HIDE DEF x
  <2>1. Cli \in Processes /\ job' = [job EXCEPT ![Cli] = x]
    BY DEF TriageReads, Processes, x
  <2>2. UNCHANGED <<graded, given, draft, triage>>
    BY DEF TriageReads
  <2>. QED
    BY <1>1, <1>2, <2>1, <2>2, OneJobOnly
<1>. QED
  BY <1>3 DEF TriageReads, TriageInv, TriageTypes, Rounds, Triaged, Processes, AnswersOK, SitesOK,
     Down,
     KeepsSavedAnswers, ExtendsAnswers, Differs

LEMMA TriageWritesStep ==
  ASSUME TriageInv, TriageWrites, UNCHANGED triage PROVE TriageInv' /\ KeepsSavedAnswers
<1>. PICK i \in DOMAIN Written :
       /\ job[Cli].at = Written[i]
       /\ prepared' = [prepared EXCEPT ![Written[i]] = job[Cli].record.round]
       /\ JobGoes(Cli, IF i + 1 \in DOMAIN Written THEN Written[i + 1] ELSE "record")
  BY DEF TriageWrites, At
<1>. DEFINE x == [job[Cli] EXCEPT !.at = IF i + 1 \in DOMAIN Written THEN Written[i + 1] ELSE "record"]
<1>1. /\ Cli \in Processes /\ job[Cli] \in Jobs /\ JobFits(Cli, job[Cli], given, graded, draft, triage)
      /\ x \in Jobs /\ x.at \in Files \cup {"record"}
      /\ x.record = job[Cli].record /\ x.answers = job[Cli].answers
  BY WrittenFiles DEF Processes, Jobs, TriageInv, TriageTypes, JobsOK
<1>2. JobFits(Cli, x, given, graded, draft, triage)
  <2>. HIDE DEF x
  <2>. QED
    BY <1>1, WrittenFiles DEF JobFits
<1>3. job' \in [Processes -> Jobs] /\ JobsOK'
  <2>. HIDE DEF x
  <2>1. Cli \in Processes /\ job' = [job EXCEPT ![Cli] = x]
    BY DEF TriageWrites, Processes, JobGoes, JobEnds, x
  <2>2. UNCHANGED <<graded, given, draft, triage>>
    BY DEF TriageWrites
  <2>. QED
    BY <1>1, <1>2, <2>1, <2>2, OneJobOnly
<1>4. prepared' \in [Files -> 0..graded]
  BY <1>1, WrittenFiles DEF TriageInv, TriageTypes, JobFits
<1>. QED
  BY <1>3, <1>4 DEF TriageWrites, TriageInv, TriageTypes, Rounds, Triaged, Processes, AnswersOK,
     SitesOK, Down,
     KeepsSavedAnswers, ExtendsAnswers, Differs

LEMMA TriageBindsStep ==
  ASSUME TriageInv, TriageBinds, UNCHANGED triage PROVE TriageInv' /\ KeepsSavedAnswers
<1>. DEFINE x == NoJob
<1>1. x \in Jobs
  BY NothingDoing
<1>2. JobFits(Cli, x, given, graded, draft, triage)
  BY NoJobFits, RoundsAre DEF TriageInv
<1>3. job' \in [Processes -> Jobs] /\ JobsOK'
  <2>. HIDE DEF x
  <2>1. Cli \in Processes /\ job' = [job EXCEPT ![Cli] = x]
    BY DEF TriageBinds, Processes, JobGoes, JobEnds, x
  <2>2. UNCHANGED <<graded, given, draft, triage>>
    BY DEF TriageBinds
  <2>. QED
    BY <1>1, <1>2, <2>1, <2>2, OneJobOnly
<1>4. record' \in Records /\ record'.round \in 1..graded
  <2>1. Cli \in Processes /\ job[Cli] \in Jobs /\ JobFits(Cli, job[Cli], given, graded, draft, triage)
    BY DEF Processes, TriageInv, TriageTypes, JobsOK
  <2>. QED
    BY <2>1, RoundsAre DEF TriageBinds, At, JobFits, Jobs, Records, TriageInv
<1>. QED
  BY <1>3, <1>4 DEF TriageBinds, TriageInv, TriageTypes, Rounds, Triaged, Processes, AnswersOK,
     SitesOK, Down,
     KeepsSavedAnswers, ExtendsAnswers, Differs

LEMMA AdjudicateBeginsStep ==
  ASSUME TriageInv, AdjudicateBegins, UNCHANGED triage PROVE TriageInv' /\ KeepsSavedAnswers
<1>1. PICK e : /\ \/ e = template
                  \/ \E t \in triage.replies :
                       e = [round |-> prepared["reviewManifest"], kind |-> "FULL", answers |-> [i \in Items |-> t]]
               /\ e.round # 0
               /\ job' = [job EXCEPT ![Cli] = [NoJob EXCEPT !.at = "adjudicate", !.answers = e]]
               /\ given' = IF e.kind = "FULL"
                           THEN given \cup {<<e.round, i, e.answers[i]>> : i \in Items} ELSE given
  BY DEF AdjudicateBegins
<1>2. e \in Envelopes /\ Said(e, given', graded) /\ given \subseteq given'
  <2>1. CASE e = template
    BY <1>1, <2>1, SaidStays DEF TriageInv, TriageTypes, AnswersOK, Said
  <2>2. ASSUME NEW t \in triage.replies,
               e = [round |-> prepared["reviewManifest"], kind |-> "FULL", answers |-> [i \in Items |-> t]]
        PROVE  e \in Envelopes /\ Said(e, given', graded) /\ given \subseteq given'
    <3>1. prepared["reviewManifest"] \in 0..graded /\ prepared["reviewManifest"] \in Nat
      BY RoundsAre DEF TriageInv, TriageTypes, Files
    <3>2. [i \in Items |-> t] \in AnswersTo
      BY RoundsAre DEF TriageInv, AnswersTo
    <3>3. /\ e.round = prepared["reviewManifest"] /\ e.kind = "FULL"
          /\ DOMAIN e.answers = Items /\ e \in Envelopes
      BY <2>2, <3>1, <3>2 DEF Envelopes
    <3>. QED
      BY <1>1, <3>1, <3>3 DEF Said
  <2>. QED
    BY <1>1, <2>1, <2>2
<1>. DEFINE x == [NoJob EXCEPT !.at = "adjudicate", !.answers = e]
<1>3. x \in Jobs /\ x.at = "adjudicate" /\ x.record.round = 0 /\ x.answers = e
  BY <1>2, NothingDoing DEF Jobs
<1>. HIDE DEF x
<1>4. UNCHANGED <<graded, draft, triage>> /\ Cli \in Processes /\ graded \in Nat /\ job' = [job EXCEPT ![Cli] = x]
  BY <1>1, RoundsAre DEF AdjudicateBegins, Processes, TriageInv, x
<1>5. JobFits(Cli, x, given', graded', draft, triage)
  BY <1>2, <1>3, <1>4, WrittenFiles DEF JobFits
<1>6. job' \in [Processes -> Jobs] /\ JobsOK'
  <2>1. graded' \in Nat /\ graded <= graded'
    BY <1>4
  <2>. QED
    BY <1>2, <1>3, <1>4, <1>5, <2>1, OneJob
<1>7. AnswersOK'
  BY <1>2, <1>4, SaidStays DEF AdjudicateBegins, TriageInv, AnswersOK
<1>. QED
  BY <1>6, <1>7 DEF AdjudicateBegins, TriageInv, TriageTypes, Rounds, Triaged, Processes,
     AnswersOK, SitesOK, Down,
     KeepsSavedAnswers, ExtendsAnswers, Differs

LEMMA SiteStartsStep ==
  ASSUME TriageInv, NEW s \in triage.sites, SiteStarts(s), UNCHANGED triage PROVE TriageInv' /\ KeepsSavedAnswers
<1>1. prepared["triageManifest"] \in 0..graded /\ prepared["triageManifest"] # 0
  BY DEF SiteStarts, Loadable, TriageInv, TriageTypes, Files
<1>2. site' \in [Sites -> [round : 0..graded, finalized : BOOLEAN]] /\ SitesOK'
  <2>1. [round |-> prepared["triageManifest"], finalized |-> ~NoTruth] \in [round : 0..graded, finalized : BOOLEAN]
    BY <1>1
  <2>. QED
    BY <1>1, <2>1 DEF SiteStarts, TriageInv, TriageTypes, SitesOK, Down
<1>. QED
  BY <1>2 DEF SiteStarts, JobsOK, TriageInv, TriageTypes, Rounds, Triaged, Processes, AnswersOK,
     SitesOK, Down,
     KeepsSavedAnswers, ExtendsAnswers, Differs

LEMMA SiteStopsStep ==
  ASSUME TriageInv, NEW s \in triage.sites, SiteStops(s), UNCHANGED triage PROVE TriageInv' /\ KeepsSavedAnswers
<1>1. Down \in [round : 0..graded, finalized : BOOLEAN]
  BY RoundsAre DEF TriageInv, Down
<1>2. site' \in [Sites -> [round : 0..graded, finalized : BOOLEAN]] /\ SitesOK'
  BY <1>1 DEF SiteStops, TriageInv, TriageTypes, SitesOK
<1>. QED
  BY <1>2 DEF SiteStops, JobsOK, TriageInv, TriageTypes, Rounds, Triaged, Processes, AnswersOK,
     SitesOK, Down,
     KeepsSavedAnswers, ExtendsAnswers, Differs

LEMMA OpenDraft ==
  ASSUME TriageInv, NEW s \in triage.sites, DraftIsOpen(s)
  PROVE  LET base == BaseDraft(s) IN
         /\ s \in Sites /\ base \in Envelopes /\ base.answers = draft.answers
         /\ base.round = site[s].round /\ base.round # 0 /\ base.round \in Nat
         /\ DOMAIN base.answers \subseteq triage.triaged[base.round]
         /\ Said(base, given, graded)
<1>1. s \in Sites /\ site[s].round \in 0..graded /\ site[s].round # 0 /\ site[s].round \in Nat
  BY RoundsAre DEF TriageInv, TriageTypes, SitesOK, DraftIsOpen
<1>2. CASE draft = NoAnswers
  BY <1>1, <1>2, NothingAnswered DEF DraftIsOpen, BaseDraft, Envelopes, Said
<1>3. CASE draft # NoAnswers
  BY <1>1, <1>3 DEF DraftIsOpen, BaseDraft, TriageInv, TriageTypes, AnswersOK, OfTheirQueue
<1>. QED
  BY <1>2, <1>3

LEMMA SaveReadsStep ==
  ASSUME TriageInv, NEW s \in triage.sites, NEW i \in Items, NEW t \in triage.replies, SaveReads(s, i, t),
         UNCHANGED triage
  PROVE  TriageInv' /\ KeepsSavedAnswers
<1>. DEFINE base == BaseDraft(s)
            new == [j \in DOMAIN base.answers \cup {i} |-> IF j = i THEN t ELSE base.answers[j]]
            e == [base EXCEPT !.answers = new]
            x == [NoJob EXCEPT !.at = "save", !.answers = e]
<1>1. /\ s \in Sites /\ base \in Envelopes /\ base.answers = draft.answers
      /\ base.round = site[s].round /\ base.round # 0
      /\ DOMAIN base.answers \subseteq triage.triaged[base.round]
      /\ Said(base, given, graded)
  BY OpenDraft DEF SaveReads
<1>2. /\ i \in triage.triaged[base.round] /\ given' = given \cup {<<base.round, i, t>>}
      /\ job' = [job EXCEPT ![s] = x] /\ UNCHANGED <<graded, draft, triage>> /\ graded \in Nat
  BY <1>1, RoundsAre DEF SaveReads, Triaged, TriageInv
<1>. HIDE DEF base
<1>3. new \in AnswersTo /\ DOMAIN new = DOMAIN base.answers \cup {i}
  <2>1. \A j \in DOMAIN new : j \in Items /\ new[j] \in Replies
    BY <1>1, RoundsAre DEF Envelopes, AnswersTo, TriageInv
  <2>2. new \in [DOMAIN base.answers \cup {i} -> Replies] /\ DOMAIN base.answers \cup {i} \in SUBSET Items
    BY <2>1
  <2>. QED
    BY <2>2 DEF AnswersTo
<1>. HIDE DEF new
<1>4. e \in Envelopes /\ e.round = base.round /\ e.answers = new
  BY <1>1, <1>3 DEF Envelopes
<1>. HIDE DEF e
<1>5. x \in Jobs /\ x.at = "save" /\ x.record.round = 0 /\ x.answers = e
  BY <1>4, NothingDoing DEF Jobs
<1>. HIDE DEF x
<1>6. Said(e, given', graded) /\ OfTheirQueue(e, triage)
  BY <1>1, <1>2, <1>3, <1>4 DEF Said, OfTheirQueue, new
<1>7. ExtendsAnswers(e, draft)
  BY <1>1, <1>3, <1>4 DEF ExtendsAnswers, Differs, new
<1>8. JobFits(s, x, given', graded', draft, triage)
  BY <1>2, <1>5, <1>6, <1>7, WrittenFiles DEF JobFits
<1>9. job' \in [Processes -> Jobs] /\ JobsOK'
  <2>1. graded' \in Nat /\ graded <= graded' /\ s \in Processes /\ given \subseteq given'
    BY <1>1, <1>2 DEF Processes
  <2>. QED
    BY <1>2, <1>5, <1>8, <2>1, OneJob
<1>10. AnswersOK'
  BY <1>2, SaidStays DEF SaveReads, TriageInv, AnswersOK
<1>. QED
  BY <1>9, <1>10 DEF SaveReads, TriageInv, TriageTypes, Rounds, Triaged, Processes, AnswersOK,
     SitesOK, Down,
     KeepsSavedAnswers, ExtendsAnswers, Differs

LEMMA SaveWritesStep ==
  ASSUME TriageInv, NEW s \in triage.sites, SaveWrites(s), UNCHANGED triage PROVE TriageInv' /\ KeepsSavedAnswers
<1>1. /\ s \in Sites /\ s \in Processes /\ job[s] \in Jobs /\ job[s].at = "save"
      /\ JobFits(s, job[s], given, graded, draft, triage)
  BY RoundsAre DEF SaveWrites, At, Processes, TriageInv, TriageTypes, JobsOK
<1>2. /\ job' \in [Processes -> Jobs] /\ job'[s] = NoJob
      /\ \A q \in Processes : q # s => job'[q] = job[q]
  BY <1>1, NothingDoing DEF SaveWrites, JobEnds, TriageInv, TriageTypes
<1>3. \A q \in Processes : JobFits(q, job'[q], given, graded, draft', triage)
  <2>. SUFFICES ASSUME NEW q \in Processes PROVE JobFits(q, job'[q], given, graded, draft', triage)
    OBVIOUS
  <2>1. CASE q = s
    BY <1>2, <2>1, NoJobFits, RoundsAre DEF TriageInv
  <2>2. CASE q # s
    <3>1. job'[q] = job[q] /\ JobFits(q, job[q], given, graded, draft, triage) /\ triage.sites # {q}
      BY <1>2, <2>2 DEF TriageInv, JobsOK
    <3>. QED
      BY <3>1 DEF JobFits
  <2>. QED
    BY <2>1, <2>2
<1>4. JobsOK'
  BY <1>3 DEF JobsOK, SaveWrites, Processes
<1>5. draft' = job[s].answers /\ draft' \in Envelopes /\ Said(draft', given, graded) /\ OfTheirQueue(draft', triage)
  BY <1>1 DEF SaveWrites, JobFits, Jobs
<1>6. KeepsSavedAnswers
  BY <1>1, <1>5 DEF KeepsSavedAnswers, JobFits
<1>. QED
  BY <1>2, <1>4, <1>5, <1>6 DEF SaveWrites, TriageInv, TriageTypes, Rounds, Triaged, Processes,
     AnswersOK, SitesOK

LEMMA FinalizeStep ==
  ASSUME TriageInv, NEW s \in triage.sites, Finalize(s), UNCHANGED triage PROVE TriageInv' /\ KeepsSavedAnswers
<1>. DEFINE e == [BaseDraft(s) EXCEPT !.round = site[s].round]
            x == [NoJob EXCEPT !.at = "adjudicate", !.answers = e]
<1>3. s \in Sites /\ e \in Envelopes /\ Said(e, given, graded)
  <2>1. s \in Sites /\ BaseDraft(s) \in Envelopes /\ BaseDraft(s).round = site[s].round
        /\ Said(BaseDraft(s), given, graded)
    BY OpenDraft DEF Finalize, GroundTruthReady
  <2>2. e = BaseDraft(s)
    BY <2>1 DEF Envelopes
  <2>. QED
    BY <2>1, <2>2
<1>4. template' = e /\ job' = [job EXCEPT ![s] = x]
  BY DEF Finalize
<1>. HIDE DEF e
<1>1. x \in Jobs /\ x.at = "adjudicate" /\ x.record.round = 0 /\ x.answers = e
  BY <1>3, NothingDoing DEF Jobs
<1>2. JobFits(s, x, given, graded, draft, triage)
  BY <1>1, <1>3, RoundsAre, WrittenFiles DEF JobFits, TriageInv
<1>5. job' \in [Processes -> Jobs] /\ JobsOK'
  <2>. HIDE DEF x
  <2>1. s \in Processes /\ job' = [job EXCEPT ![s] = x]
    BY <1>3, <1>4 DEF Finalize, Processes, JobGoes, JobEnds, x
  <2>2. UNCHANGED <<graded, given, draft, triage>>
    BY DEF Finalize
  <2>. QED
    BY <1>1, <1>2, <2>1, <2>2, OneJobOnly
<1>. QED
  BY <1>3, <1>4, <1>5 DEF Finalize, TriageInv, TriageTypes, Rounds, Triaged, Processes, AnswersOK,
     SitesOK, Down,
     KeepsSavedAnswers, ExtendsAnswers, Differs

LEMMA AdjudicateReadsStep ==
  ASSUME TriageInv, NEW p \in Processes, AdjudicateReads(p), UNCHANGED triage PROVE TriageInv' /\ KeepsSavedAnswers
<1>. DEFINE x == [job[p] EXCEPT !.at = "decide", !.record = record]
<1>1. /\ job[p] \in Jobs /\ JobFits(p, job[p], given, graded, draft, triage)
      /\ x \in Jobs /\ x.at = "decide" /\ x.record = record /\ x.answers = job[p].answers
      /\ record.round = graded /\ graded \in Nat /\ graded # 0
  BY RoundsAre DEF AdjudicateReads, Admissible, TriageInv, TriageTypes, JobsOK, Jobs
<1>2. JobFits(p, x, given, graded, draft, triage)
  <2>1. x.answers.round = graded /\ OfAllOfIt(x.answers, triage)
    BY <1>1 DEF AdjudicateReads, Admissible, Queue, OfAllOfIt, Triaged
  <2>. HIDE DEF x
  <2>. QED
    BY <1>1, <2>1, WrittenFiles DEF JobFits
<1>3. job' \in [Processes -> Jobs] /\ JobsOK'
  <2>. HIDE DEF x
  <2>1. p \in Processes /\ job' = [job EXCEPT ![p] = x]
    BY DEF AdjudicateReads, Processes, JobGoes, JobEnds, x
  <2>2. UNCHANGED <<graded, given, draft, triage>>
    BY DEF AdjudicateReads
  <2>. QED
    BY <1>1, <1>2, <2>1, <2>2, OneJobOnly
<1>. QED
  BY <1>3 DEF AdjudicateReads, TriageInv, TriageTypes, Rounds, Triaged, Processes, AnswersOK,
     SitesOK, Down,
     KeepsSavedAnswers, ExtendsAnswers, Differs

LEMMA AdjudicateRefusesStep ==
  ASSUME TriageInv, NEW p \in Processes, AdjudicateRefuses(p), UNCHANGED triage PROVE TriageInv' /\ KeepsSavedAnswers
<1>. DEFINE x == NoJob
<1>1. x \in Jobs
  BY NothingDoing
<1>2. JobFits(p, x, given, graded, draft, triage)
  BY NoJobFits, RoundsAre DEF TriageInv
<1>3. job' \in [Processes -> Jobs] /\ JobsOK'
  <2>. HIDE DEF x
  <2>1. p \in Processes /\ job' = [job EXCEPT ![p] = x]
    BY DEF AdjudicateRefuses, Processes, JobGoes, JobEnds, x
  <2>2. UNCHANGED <<graded, given, draft, triage>>
    BY DEF AdjudicateRefuses
  <2>. QED
    BY <1>1, <1>2, <2>1, <2>2, OneJobOnly
<1>. QED
  BY <1>3 DEF AdjudicateRefuses, TriageInv, TriageTypes, Rounds, Triaged, Processes, AnswersOK,
     SitesOK, Down,
     KeepsSavedAnswers, ExtendsAnswers, Differs

\* The Ground Truth is what the process has read, in answer to the round it read.
LEMMA TruthIsWhatWasRead ==
  ASSUME TriageInv, NEW p \in Processes, job[p].at \in {"decide", "bind"}
  PROVE  /\ [job[p].answers EXCEPT !.round = job[p].record.round] = job[p].answers
         /\ job[p] \in Jobs /\ JobFits(p, job[p], given, graded, draft, triage)
         /\ Said(job[p].answers, given, graded) /\ OfAllOfIt(job[p].answers, triage)
         /\ job[p].record.round \in 1..graded
BY RoundsAre DEF TriageInv, TriageTypes, JobsOK, JobFits, Jobs, Envelopes

LEMMA AdjudicateWritesTruthStep ==
  ASSUME TriageInv, NEW p \in Processes, AdjudicateWritesTruth(p), UNCHANGED triage
  PROVE  TriageInv' /\ KeepsSavedAnswers
<1>. DEFINE x == [job[p] EXCEPT !.at = "bind"]
<1>4. /\ job[p].at = "decide" /\ truth' = job[p].answers /\ truth' \in Envelopes
      /\ Said(truth', given, graded) /\ OfAllOfIt(truth', triage)
  BY TruthIsWhatWasRead DEF AdjudicateWritesTruth, At, Jobs
<1>1. /\ x \in Jobs /\ x.at = "bind" /\ x.record = job[p].record /\ x.answers = job[p].answers
      /\ JobFits(p, job[p], given, graded, draft, triage)
  BY <1>4, TruthIsWhatWasRead DEF Jobs
<1>2. JobFits(p, x, given, graded, draft, triage)
  <2>. HIDE DEF x
  <2>. QED
    BY <1>1, <1>4, WrittenFiles DEF JobFits
<1>3. job' \in [Processes -> Jobs] /\ JobsOK'
  <2>. HIDE DEF x
  <2>1. p \in Processes /\ job' = [job EXCEPT ![p] = x]
    BY DEF AdjudicateWritesTruth, Processes, JobGoes, JobEnds, x
  <2>2. UNCHANGED <<graded, given, draft, triage>>
    BY DEF AdjudicateWritesTruth
  <2>. QED
    BY <1>1, <1>2, <2>1, <2>2, OneJobOnly
<1>. QED
  BY <1>3, <1>4 DEF AdjudicateWritesTruth, TriageInv, TriageTypes, Rounds, Triaged, Processes,
     AnswersOK, SitesOK, Down,
     KeepsSavedAnswers, ExtendsAnswers, Differs

LEMMA AdjudicateBindsStep ==
  ASSUME TriageInv, NEW p \in Processes, AdjudicateBinds(p), UNCHANGED triage PROVE TriageInv' /\ KeepsSavedAnswers
<1>. DEFINE x == NoJob
<1>1. x \in Jobs
  BY NothingDoing
<1>2. JobFits(p, x, given, graded, draft, triage)
  BY NoJobFits, RoundsAre DEF TriageInv
<1>3. job' \in [Processes -> Jobs] /\ JobsOK'
  <2>. HIDE DEF x
  <2>1. p \in Processes /\ job' = [job EXCEPT ![p] = x]
    BY DEF AdjudicateBinds, Processes, JobGoes, JobEnds, x
  <2>2. UNCHANGED <<graded, given, draft, triage>>
    BY DEF AdjudicateBinds
  <2>. QED
    BY <1>1, <1>2, <2>1, <2>2, OneJobOnly
<1>4. record' \in Records /\ record'.round \in 1..graded
  <2>1. record' = [job[p].record EXCEPT !.truth = job[p].answers] /\ job[p] \in Jobs /\ job[p].record.round \in 1..graded
    BY TruthIsWhatWasRead DEF AdjudicateBinds, At
  <2>. QED
    BY <2>1 DEF Jobs, Records
<1>5. site' \in [Sites -> [round : 0..graded, finalized : BOOLEAN]] /\ SitesOK'
  <2>1. CASE p \in Sites
    <3>. DEFINE y == [site[p] EXCEPT !.finalized = TRUE]
    <3>1. y \in [round : 0..graded, finalized : BOOLEAN] /\ y.finalized = TRUE
      BY <2>1 DEF TriageInv, TriageTypes
    <3>2. site' = [site EXCEPT ![p] = y]
      BY <2>1 DEF AdjudicateBinds
    <3>. HIDE DEF y
    <3>. QED
      BY <2>1, <3>1, <3>2 DEF TriageInv, TriageTypes, SitesOK
  <2>2. CASE p \notin Sites
    BY <2>2 DEF AdjudicateBinds, TriageInv, TriageTypes, SitesOK
  <2>. QED
    BY <2>1, <2>2
<1>. QED
  BY <1>3, <1>4, <1>5 DEF AdjudicateBinds, TriageInv, TriageTypes, Rounds, Triaged, Processes,
     AnswersOK, SitesOK, Down,
     KeepsSavedAnswers, ExtendsAnswers, Differs

LEMMA JobDiesStep ==
  ASSUME TriageInv, NEW p \in Processes, JobDies(p), UNCHANGED triage PROVE TriageInv' /\ KeepsSavedAnswers
<1>. DEFINE x == NoJob
<1>1. x \in Jobs
  BY NothingDoing
<1>2. JobFits(p, x, given, graded, draft, triage)
  BY NoJobFits, RoundsAre DEF TriageInv
<1>3. job' \in [Processes -> Jobs] /\ JobsOK'
  <2>. HIDE DEF x
  <2>1. p \in Processes /\ job' = [job EXCEPT ![p] = x]
    BY DEF JobDies, Processes, JobGoes, JobEnds, x
  <2>2. UNCHANGED <<graded, given, draft, triage>>
    BY DEF JobDies
  <2>. QED
    BY <1>1, <1>2, <2>1, <2>2, OneJobOnly
<1>4. Down \in [round : 0..graded, finalized : BOOLEAN]
  BY RoundsAre DEF TriageInv, Down
<1>5. site' \in [Sites -> [round : 0..graded, finalized : BOOLEAN]] /\ SitesOK'
  <2>1. CASE p \in Sites
    <3>1. site' = [site EXCEPT ![p] = Down]
      BY <2>1 DEF JobDies
    <3>. QED
      BY <1>4, <2>1, <3>1 DEF TriageInv, TriageTypes, SitesOK
  <2>2. CASE p \notin Sites
    BY <2>2 DEF JobDies, TriageInv, TriageTypes, SitesOK
  <2>. QED
    BY <2>1, <2>2
<1>. QED
  BY <1>3, <1>5 DEF JobDies, TriageInv, TriageTypes, Rounds, Triaged, Processes, AnswersOK,
     SitesOK, Down,
     KeepsSavedAnswers, ExtendsAnswers, Differs

LEMMA TriageStays ==
  TriageInv /\ [TriageNext]_triaging => TriageInv' /\ (KeepsSavedAnswers \/ UNCHANGED triaging)
<1>1. ASSUME TriageInv, TriageStep, UNCHANGED triage PROVE TriageInv' /\ KeepsSavedAnswers
  BY <1>1, GradeReadsStep, GradeStep, ReviewAsideStep, TriageReadsStep, TriageWritesStep, TriageBindsStep, AdjudicateBeginsStep,
    SiteStartsStep, SiteStopsStep, SaveWritesStep, FinalizeStep, SaveReadsStep, AdjudicateReadsStep,
    AdjudicateRefusesStep, AdjudicateWritesTruthStep, AdjudicateBindsStep, JobDiesStep
    DEF TriageStep
<1>2. ASSUME TriageInv, UNCHANGED triaging PROVE TriageInv'
  BY <1>2 DEF triaging, TriageInv, TriageTypes, Rounds, Triaged, Processes, AnswersOK, SitesOK,
     JobsOK, Down
<1>. QED
  BY <1>1, <1>2 DEF TriageNext

LEMMA TriageHolds == TriageSpec => []TriageInv
<1>. QED
  BY TriageBegins, TriageStays, PTL DEF TriageSpec

\* Ground Truth is what people said of these very episodes of this very queue,
\* of all of it, however many sites are open while reviews are prepared anew and
\* wherever commands die (incidents.py, review_ui.py).
LEMMA TruthIsWhatWasGiven == TriageSpec => []TruthWasGiven
<1>1. TriageInv => TruthWasGiven
  <2>. SUFFICES ASSUME TriageInv PROVE TruthWasGiven
    OBVIOUS
  <2>1. record.round \in Rounds
    BY RoundsAre DEF TriageInv, TriageTypes, TriageSets, Rounds, Triaged
  <2>2. TriageTypeOK
    BY <2>1 DEF TriageInv, TriageTypes, TriageTypeOK, AnswersOK, OfTheirQueue, Triaged
  <2>. QED
    BY <2>2 DEF TruthWasGiven, TriageInv, AnswersOK, Said, OfAllOfIt, Queue, Triaged
<1>. QED
  BY <1>1, TriageHolds, PTL

\* An answer once saved stays in the draft of a triage with one site, through
\* restarts and new reviews, but for the one that is answered again (review_ui.py).
LEMMA SavedAnswersAreNeverLost == TriageSpec => SavedAnswersStay
<1>1. TriageInv /\ [TriageNext]_triaging => [KeepsSavedAnswers]_triaging
  BY TriageStays
<1>. QED
  BY <1>1, TriageHolds, PTL DEF TriageSpec, SavedAnswersStay

------------------------------------------------------------------------------
(* The study's workspace.                                                    *)

\* Whatever the order of the stages, the sites and the reviews, and wherever a
\* command dies: the manifest binds the files of one run, a stage that died is
\* accepted again (half a frozen sample, and cards classified and not bound, are
\* the exceptions of DiedMayBeRerun), a sample rests on its approval, and the
\* Ground Truth is what people said of all of its queue (semantic.py,
\* incidents.py, review_ui.py).
THEOREM OnlyWhatWasGivenIsBound == PipelineSpec /\ TriageSpec => []BoundIsWhatWasGiven
<1>1. ManifestIsOneRun /\ SmokeRestsOnApproval /\ TruthWasGiven => BoundIsWhatWasGiven
  BY DEF BoundIsWhatWasGiven
<1>. QED
  BY <1>1, ManifestsStayOfOneRun, SmokeStaysOnApproval, TruthIsWhatWasGiven, PTL

\* No step of a stage, a site or a command replaces judgements that were paid for
\* or the frozen sample, or loses an answer that the only site of a triage has
\* saved (semantic.py, review_ui.py).
THEOREM AnswersAreNeverLost == PipelineSpec /\ TriageSpec => AnswersAreKept
<1>1. [KeepsPaidAnswers]_grading /\ [KeepsSavedAnswers]_triaging
        => [[KeepsPaidAnswers]_grading /\ [KeepsSavedAnswers]_triaging]_<<grading, triaging>>
  OBVIOUS
<1>. QED
  BY <1>1, PaidAnswersAreNeverReplaced, SavedAnswersAreNeverLost, PTL
     DEF AnswersAreKept, PaidAnswersStay, SavedAnswersStay
=============================================================================
