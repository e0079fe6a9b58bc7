----------------------------- MODULE ChatProofs ------------------------------
(***************************************************************************)
(* For any chats, windows, plans and bounds: a plan is applied once and as *)
(* it was confirmed, and no window overwrites what it has not seen.        *)
(***************************************************************************)
EXTENDS TaskPlans, FiniteSetTheorems, TLAPS

Records == ToSet(proposals)

\* Ids are numbers in order, the revisions of one id differ and are of one
\* source, one of them is the latest, and the proposals that agents made are of
\* different runs.
IdsInOrder == \E n \in Nat : Ids = 1..n
RevisionsDiffer ==
  \A p, o \in Records : p.id = o.id => /\ p.source = o.source
                                       /\ p.revision = o.revision => p = o
OneIsLatest ==
  \A id \in Ids : \E p \in RecordsOf(id) : \A o \in RecordsOf(id) : o.revision <= p.revision
SourcesAreRuns == \A p \in Records : p.source \in RunId
AgentsDiffer ==
  \A i, j \in DOMAIN proposals :
    /\ proposals[i].created_by = "agent" /\ proposals[j].created_by = "agent"
    /\ proposals[i].source = proposals[j].source
    => i = j
RecordsOK == IdsInOrder /\ RevisionsDiffer /\ OneIsLatest /\ SourcesAreRuns /\ AgentsDiffer

\* What is confirmed is a revision there is.
WindowsOK ==
  \A w \in Window :
    /\ shown[w] # NoPlan => draft[w] \in Design
    /\ confirming[w] # NoPlan =>
         \E p \in Records : /\ p.id = confirming[w].id /\ p.revision = confirming[w].revision
                            /\ p.design = confirming[w].design

ApplicationsOK ==
  /\ \A a \in applications : a.id \in Ids
  /\ AppliedAsConfirmed /\ AppliedIsFinal /\ OneTreePerPlan

\* A reply that has made its plan carries nothing more, or is in error, and an
\* artifact names its own run.
RepliesOK ==
  /\ IncompleteIsReported
  /\ ~chat.foreign_source =>
       \A r \in RunId : /\ HasPlan(r) /\ text[r] # Nothing => r \in errors
                        /\ text[r].fence = "closed" => text[r].source = r

IInv == PlansTypeOK /\ RecordsOK /\ WindowsOK /\ ApplicationsOK /\ RepliesOK

------------------------------------------------------------------------------
(* Records.                                                                  *)

LEMMA RecordsAre ==
  ASSUME PlansTypeOK
  PROVE  /\ Records = {proposals[i] : i \in 1..Len(proposals)} /\ Records \subseteq Proposal
         /\ Len(proposals) \in Nat /\ DOMAIN proposals = 1..Len(proposals)
         /\ Ids \subseteq Nat
<1>1. proposals \in Seq(Proposal)
  BY DEF PlansTypeOK
<1>2. /\ Len(proposals) \in Nat /\ DOMAIN proposals = 1..Len(proposals)
      /\ \A i \in 1..Len(proposals) : proposals[i] \in Proposal
  BY <1>1
<1>3. Records = {proposals[i] : i \in 1..Len(proposals)} /\ Records \subseteq Proposal
  BY <1>2 DEF Records, ToSet
<1>4. Ids \subseteq Nat
  BY <1>3 DEF Ids, Records, Proposal
<1> QED BY <1>2, <1>3, <1>4

LEMMA ConstantsAreApart ==
  ASSUME PlansTypeOK
  PROVE  /\ NoPlan \notin Proposal /\ NoPlan \notin Design /\ NoPlan \notin Confirmation
         /\ chat.designs \subseteq Design /\ chat.windows \subseteq Window
         /\ chat.runs \in Nat /\ RunId \subseteq Nat
         /\ chat.foreign_source \in BOOLEAN /\ chat.may_restart \in BOOLEAN
BY ChatsAssumption DEF PlansTypeOK, ChatSets, RunId

LEMMA LatestIsARecord ==
  ASSUME PlansTypeOK, RecordsOK, NEW id \in Ids
  PROVE  /\ LatestRevision(id) \in Records /\ LatestRevision(id).id = id
         /\ \A q \in RecordsOf(id) : q.revision <= LatestRevision(id).revision
BY DEF LatestRevision, RecordsOK, OneIsLatest, RecordsOf, Records

LEMMA NewIdIsNew ==
  ASSUME PlansTypeOK, RecordsOK
  PROVE  NewId \in Nat /\ NewId \notin Ids /\ Ids = 1..(NewId - 1)
<1>1. PICK n \in Nat : Ids = 1..n
  BY DEF RecordsOK, IdsInOrder
<1>2. Cardinality(Ids) = n
  BY <1>1, FS_Interval
<1> QED BY <1>1, <1>2 DEF NewId

LEMMA LastOfChatIsARecord ==
  ASSUME PlansTypeOK, proposals # <<>>
  PROVE  LatestOfChat \in Records /\ LatestOfChat.id \in Ids
<1>1. Len(proposals) \in 1..Len(proposals) /\ DOMAIN proposals = 1..Len(proposals)
  BY DEF PlansTypeOK
<1> QED BY <1>1 DEF LatestOfChat, Last, Records, ToSet, Ids

LEMMA ApplicableIsLatest ==
  ASSUME PlansTypeOK, RecordsOK, Applicable # NoPlan
  PROVE  /\ Applicable = LatestOfChat /\ Applicable \in Records
         /\ ~IsApplied(Applicable.id) /\ LatestRevision(Applicable.id) = Applicable
<1>1. /\ Applicable = LatestOfChat /\ proposals # <<>> /\ ~IsApplied(Applicable.id)
      /\ LatestRevision(Applicable.id).revision = Applicable.revision
  BY DEF Applicable
<1>2. Applicable \in Records /\ Applicable.id \in Ids
  BY <1>1, LastOfChatIsARecord
<1> QED BY <1>1, <1>2, LatestIsARecord DEF RecordsOK, RevisionsDiffer

\* One more record: of a plan of its own, or the next revision of the latest.
Pushes(q) ==
  /\ q \in Proposal /\ q.source \in RunId /\ proposals' = Append(proposals, q)
  /\ \/ /\ q.id = NewId /\ q.created_by = "agent" /\ ~HasPlan(q.source)
     \/ /\ q.id \in Ids /\ q.id = LatestOfChat.id /\ q.created_by = "person"
        /\ ~IsApplied(q.id)
        /\ q.revision = LatestRevision(q.id).revision + 1
        /\ q.source = LatestRevision(q.id).source

LEMMA PushedRecords ==
  ASSUME PlansTypeOK, RecordsOK, NEW q, Pushes(q)
  PROVE  /\ proposals' \in Seq(Proposal) /\ Len(proposals') = Len(proposals) + 1
         /\ Last(proposals') = q
         /\ Records' = Records \cup {q} /\ Ids' = Ids \cup {q.id}
         /\ \A id : RecordsOf(id)' = IF id = q.id THEN RecordsOf(id) \cup {q} ELSE RecordsOf(id)
<1>1. /\ proposals' \in Seq(Proposal) /\ Len(proposals') = Len(proposals) + 1
      /\ \A i \in 1..Len(proposals) : proposals'[i] = proposals[i]
      /\ proposals'[Len(proposals) + 1] = q /\ DOMAIN proposals' = 1..(Len(proposals) + 1)
      /\ DOMAIN proposals = 1..Len(proposals) /\ Len(proposals) \in Nat
  BY DEF PlansTypeOK, Pushes
<1>2. Last(proposals') = q
  BY <1>1 DEF Last
<1>3. Records' = Records \cup {q}
  BY <1>1 DEF Records, ToSet
<1>4. Ids' = Ids \cup {q.id}
  BY <1>3 DEF Ids, Records
<1>5. ASSUME NEW id
      PROVE  RecordsOf(id)' = IF id = q.id THEN RecordsOf(id) \cup {q} ELSE RecordsOf(id)
  BY <1>3 DEF RecordsOf, Records
<1> QED BY <1>1, <1>2, <1>3, <1>4, <1>5

LEMMA PushedIsOK ==
  ASSUME PlansTypeOK, RecordsOK, NEW q, Pushes(q), RunId' = RunId
  PROVE  RecordsOK'
<1>0. /\ Records' = Records \cup {q} /\ Ids' = Ids \cup {q.id}
      /\ \A id : RecordsOf(id)' = IF id = q.id THEN RecordsOf(id) \cup {q} ELSE RecordsOf(id)
  BY PushedRecords
<1>1. /\ q.id = NewId => q.id \notin Ids
      /\ q.id \in Ids => /\ LatestRevision(q.id) \in Records /\ LatestRevision(q.id).id = q.id
                         /\ \A p \in RecordsOf(q.id) : p.revision < q.revision
                         /\ q.source = LatestRevision(q.id).source
                         /\ q.created_by = "person"
      /\ q.id = NewId \/ q.id \in Ids
      /\ q.revision \in Nat /\ q.source \in RunId
  <2>1. q.id = NewId => q.id \notin Ids
    BY NewIdIsNew
  <2>2. q.id \in Ids => LatestRevision(q.id) \in Records /\ LatestRevision(q.id).id = q.id
    BY LatestIsARecord
  <2>3. ASSUME q.id \in Ids PROVE \A p \in RecordsOf(q.id) : p.revision < q.revision
    <3>1. q.revision = LatestRevision(q.id).revision + 1
      BY <2>1, <2>3 DEF Pushes
    <3>2. \A p \in RecordsOf(q.id) : p.revision \in Nat /\ p.revision <= LatestRevision(q.id).revision
      BY <2>3, LatestIsARecord, RecordsAre DEF RecordsOf, Records, Proposal
    <3>3. LatestRevision(q.id).revision \in Nat
      BY <2>2, <2>3, RecordsAre DEF Proposal
    <3> QED BY <3>1, <3>2, <3>3
  <2> QED BY <2>1, <2>2, <2>3 DEF Pushes, Proposal
<1>2. IdsInOrder'
  <2>1. CASE q.id \in Ids
    <3>1. Ids' = Ids
      BY <1>0, <2>1
    <3> QED BY <3>1 DEF RecordsOK, IdsInOrder
  <2>2. CASE q.id = NewId
    <3>1. Ids' = 1..(NewId - 1) \cup {NewId} /\ NewId \in Nat /\ NewId >= 1
      <4>1. PICK n \in Nat : Ids = 1..n
        BY DEF RecordsOK, IdsInOrder
      <4>2. Cardinality(Ids) = n
        BY <4>1, FS_Interval
      <4> QED BY <1>0, <2>2, <4>1, <4>2 DEF NewId
    <3>2. Ids' = 1..NewId
      BY <3>1
    <3> QED BY <3>1, <3>2 DEF IdsInOrder
  <2> QED BY <1>1, <2>1, <2>2
<1>3. RevisionsDiffer'
  <2>1. ASSUME NEW p \in Records, p.id = q.id
        PROVE  p.source = q.source /\ p.revision # q.revision
    <3>1. p.id \in Ids /\ p \in RecordsOf(q.id)
      BY <2>1 DEF Ids, Records, RecordsOf
    <3>2. p.source = q.source
      BY <1>1, <2>1, <3>1 DEF RecordsOK, RevisionsDiffer
    <3>3. p.revision < q.revision /\ p.revision \in Nat
      BY <1>1, <2>1, <3>1, RecordsAre DEF Proposal
    <3> QED BY <1>1, <3>2, <3>3
  <2> QED BY <1>0, <2>1 DEF RecordsOK, RevisionsDiffer
<1>4. OneIsLatest'
  <2> SUFFICES ASSUME NEW id \in Ids'
               PROVE  \E p \in RecordsOf(id)' : \A o \in RecordsOf(id)' : o.revision <= p.revision
    BY DEF OneIsLatest
  <2>1. CASE id # q.id
    BY <1>0, <2>1 DEF RecordsOK, OneIsLatest
  <2>2. CASE id = q.id
    <3>1. \A o \in RecordsOf(id) : o.revision <= q.revision
      <4> TAKE o \in RecordsOf(id)
      <4>1. id \in Ids /\ o \in Records
        BY DEF RecordsOf, Ids, Records
      <4>2. o.revision < q.revision /\ o.revision \in Nat
        BY <1>1, <2>2, <4>1, RecordsAre DEF Proposal
      <4> QED BY <1>1, <4>2
    <3>2. q.revision <= q.revision
      BY <1>1
    <3> QED BY <1>0, <2>2, <3>1, <3>2
  <2> QED BY <2>1, <2>2
<1>5. SourcesAreRuns'
  BY <1>0, <1>1 DEF RecordsOK, SourcesAreRuns
<1>6. AgentsDiffer'
  <2>1. /\ DOMAIN proposals = 1..Len(proposals) /\ DOMAIN proposals' = 1..(Len(proposals) + 1)
        /\ Len(proposals) \in Nat /\ \A i \in 1..Len(proposals) : proposals'[i] = proposals[i]
        /\ proposals'[Len(proposals) + 1] = q
    BY DEF PlansTypeOK, Pushes
  <2>2. q.created_by = "agent" => \A i \in DOMAIN proposals : proposals[i].source # q.source
    BY DEF Pushes, HasPlan, ToSet
  <2> QED BY <2>1, <2>2 DEF RecordsOK, AgentsDiffer
<1> QED BY <1>2, <1>3, <1>4, <1>5, <1>6 DEF RecordsOK

\* What was applied is not what is pushed.
LEMMA PushedAfterTheApplied ==
  ASSUME PlansTypeOK, RecordsOK, NEW q, Pushes(q), ApplicationsOK, UNCHANGED applications
  PROVE  ApplicationsOK'
<1>1. \A a \in applications : a.id \in Ids /\ a.id # q.id
  BY NewIdIsNew DEF Pushes, ApplicationsOK, IsApplied
<1>2. \A a \in applications : LatestRevision(a.id)' = LatestRevision(a.id)
  BY <1>1, PushedRecords DEF LatestRevision
<1> QED
  BY <1>1, <1>2, PushedRecords
     DEF ApplicationsOK, AppliedAsConfirmed, AppliedIsFinal, OneTreePerPlan

LEMMA PushedStaysConfirmed ==
  ASSUME PlansTypeOK, RecordsOK, NEW q, Pushes(q), WindowsOK, UNCHANGED windows
  PROVE  WindowsOK'
BY PushedRecords DEF WindowsOK, windows

LEMMA PushedStaysShown ==
  ASSUME PlansTypeOK, RecordsOK, NEW q, Pushes(q), UNCHANGED <<shown, draft>>
  PROVE  /\ shown' \in [Window -> Records' \cup {NoPlan}]
         /\ draft' \in [Window -> Design \cup {NoPlan}]
BY PushedRecords DEF PlansTypeOK, Records

\* Without one more record.
LEMMA RecordsStay ==
  ASSUME UNCHANGED <<proposals, chat>>
  PROVE  /\ RecordsOK => RecordsOK'
         /\ Records' = Records /\ Ids' = Ids
         /\ \A id : RecordsOf(id)' = RecordsOf(id) /\ LatestRevision(id)' = LatestRevision(id)
         /\ \A r : HasPlan(r)' = HasPlan(r)
         /\ applications' = applications => (ApplicationsOK => ApplicationsOK')
         /\ windows' = windows => (WindowsOK => WindowsOK')
<1>1. /\ Records' = Records /\ Ids' = Ids /\ RunId' = RunId
      /\ \A id : RecordsOf(id)' = RecordsOf(id) /\ LatestRevision(id)' = LatestRevision(id)
      /\ \A r : HasPlan(r)' = HasPlan(r)
  BY DEF Records, Ids, RunId, RecordsOf, LatestRevision, HasPlan
<1>2. RecordsOK => RecordsOK'
  BY <1>1 DEF RecordsOK, IdsInOrder, RevisionsDiffer, OneIsLatest, SourcesAreRuns, AgentsDiffer
<1>3. applications' = applications => (ApplicationsOK => ApplicationsOK')
  BY <1>1 DEF ApplicationsOK, AppliedAsConfirmed, AppliedIsFinal, OneTreePerPlan
<1>4. windows' = windows => (WindowsOK => WindowsOK')
  BY <1>1 DEF WindowsOK, windows
<1> QED BY <1>1, <1>2, <1>3, <1>4

------------------------------------------------------------------------------
(* Replies.                                                                  *)

LEMMA StartKeepsIt ==
  ASSUME IInv, NEW r \in RunId, StartReply(r), UNCHANGED chat
  PROVE  IInv'
<1>1. RecordsOK' /\ ApplicationsOK' /\ WindowsOK' /\ \A q : HasPlan(q)' = HasPlan(q)
  BY RecordsStay DEF IInv, StartReply
<1>2. RunId' = RunId
  BY DEF RunId
<1>3. PlansTypeOK'
  BY <1>2 DEF IInv, PlansTypeOK, StartReply, windows
<1>4. \A q \in RunId : run'[q] = "ended" => run[q] = "ended"
  BY DEF IInv, PlansTypeOK, StartReply
<1>5. RepliesOK'
  BY <1>1, <1>2, <1>4 DEF IInv, RepliesOK, IncompleteIsReported, StartReply
<1> QED BY <1>1, <1>3, <1>5 DEF IInv

LEMMA EndKeepsIt ==
  ASSUME IInv, NEW r \in RunId, EndReply(r), UNCHANGED chat
  PROVE  IInv'
<1>1. RecordsOK' /\ ApplicationsOK' /\ WindowsOK' /\ \A q : HasPlan(q)' = HasPlan(q)
  BY RecordsStay DEF IInv, EndReply
<1>2. RunId' = RunId
  BY DEF RunId
<1>3. PlansTypeOK'
  BY <1>2 DEF IInv, PlansTypeOK, EndReply, windows
<1>4. /\ \A q \in RunId : run'[q] = "ended" => run[q] = "ended" \/ q = r
      /\ errors \subseteq errors' /\ (text[r] # Nothing => r \in errors')
  BY DEF IInv, PlansTypeOK, EndReply
<1>5. RepliesOK'
  BY <1>1, <1>2, <1>4 DEF IInv, RepliesOK, IncompleteIsReported, EndReply
<1> QED BY <1>1, <1>3, <1>5 DEF IInv

LEMMA RestartKeepsIt ==
  ASSUME IInv, ChatRestart, UNCHANGED chat
  PROVE  IInv'
<1>1. RecordsOK' /\ ApplicationsOK' /\ WindowsOK' /\ \A q : HasPlan(q)' = HasPlan(q)
  BY RecordsStay DEF IInv, ChatRestart
<1>2. RunId' = RunId
  BY DEF RunId
<1>3. PlansTypeOK'
  BY <1>2 DEF IInv, PlansTypeOK, ChatRestart, windows
<1>4. RepliesOK'
  BY <1>1, <1>2 DEF IInv, RepliesOK, IncompleteIsReported, ChatRestart
<1> QED BY <1>1, <1>3, <1>4 DEF IInv

LEMMA ParentKeepsIt ==
  ASSUME IInv, SetParentStatus, UNCHANGED chat
  PROVE  IInv'
<1>1. RecordsOK' /\ ApplicationsOK' /\ WindowsOK' /\ \A q : HasPlan(q)' = HasPlan(q)
  BY RecordsStay DEF IInv, SetParentStatus
<1>2. RunId' = RunId
  BY DEF RunId
<1>3. PlansTypeOK'
  BY <1>2 DEF IInv, PlansTypeOK, SetParentStatus, windows
<1>4. RepliesOK'
  BY <1>1, <1>2 DEF IInv, RepliesOK, IncompleteIsReported, SetParentStatus
<1> QED BY <1>1, <1>3, <1>4 DEF IInv

LEMMA CandidatesAreTexts ==
  ASSUME IInv, NEW r \in RunId, NEW candidate \in Candidates(r)
  PROVE  /\ candidate \in Text
         /\ candidate.fence = "closed" => candidate \in Artifact
         /\ candidate.fence = "closed" /\ ~chat.foreign_source => candidate.source = r
<1>1. /\ r \in Nat /\ chat.designs \subseteq Design /\ text[r] \in Text
      /\ chat.foreign_source \in BOOLEAN
  BY ConstantsAreApart DEF IInv, PlansTypeOK, RunId
<1> DEFINE sources == IF chat.foreign_source THEN 1..r ELSE {r}
           artifacts == [fence : {"closed"}, source : sources, design : chat.designs]
<1>2. /\ artifacts \subseteq Artifact
      /\ \A a \in artifacts : ~chat.foreign_source => a.source = r
  BY <1>1 DEF Artifact
<1>3. candidate \in {Nothing, Opened, Broken, text[r]} \cup artifacts
  BY DEF Candidates
<1>4. Nothing.fence # "closed" /\ Opened.fence # "closed" /\ Broken.fence # "closed"
  BY DEF Nothing, Opened, Broken
<1>5. text[r].fence = "closed" /\ ~chat.foreign_source => text[r].source = r
  BY DEF IInv, RepliesOK
<1> HIDE DEF artifacts
<1>6. candidate \in Text
  BY <1>1, <1>2, <1>3 DEF Text
<1>7. candidate.fence = "closed" => candidate \in Artifact
  BY <1>4, <1>6 DEF Text
<1>8. ASSUME candidate.fence = "closed", ~chat.foreign_source PROVE candidate.source = r
  BY <1>2, <1>3, <1>4, <1>5, <1>8
<1> QED BY <1>6, <1>7, <1>8

\* The proposal a reply makes: the first one of its run.
LEMMA AgentPushes ==
  ASSUME IInv, NEW r \in RunId, NEW d \in Artifact, ~HasPlan(r), d.source = r,
         proposals' = Append(proposals, AgentRecord(r, d))
  PROVE  Pushes(AgentRecord(r, d)) /\ AgentRecord(r, d).source = r
<1>1. ~(Applicable # NoPlan /\ Applicable.source = r)
  BY ApplicableIsLatest DEF IInv, HasPlan, Records
<1>2. AgentRecord(r, d) = [id |-> NewId, revision |-> 1, source |-> r,
                           design |-> d.design, created_by |-> "agent"]
  BY <1>1 DEF AgentRecord
<1>3. NewId \in Nat /\ d.design \in Design /\ r \in Nat
  BY NewIdIsNew, ConstantsAreApart DEF IInv, Artifact
<1> QED BY <1>2, <1>3 DEF Pushes, Proposal

LEMMA ChunkKeepsIt ==
  ASSUME IInv, NEW r \in RunId, NEW candidate \in Candidates(r), Chunk(r, candidate),
         UNCHANGED chat
  PROVE  IInv'
<1>1. /\ candidate \in Text /\ (candidate.fence = "closed" => candidate \in Artifact)
      /\ candidate.fence = "closed" /\ ~chat.foreign_source => candidate.source = r
  BY CandidatesAreTexts
<1>2. RunId' = RunId /\ UNCHANGED windows /\ applications' = applications /\ run' = run
  BY DEF RunId, Chunk
<1>3. /\ text' \in [RunId -> Text] /\ errors' \subseteq RunId
      /\ \A q \in RunId : q # r => text'[q] = text[q]
      /\ text'[r] = candidate \/ text'[r] = Nothing
  BY <1>1 DEF IInv, PlansTypeOK, Chunk, Text
<1>4. /\ ~chat.foreign_source => \A q \in RunId : q # r => (q \in errors => q \in errors')
      /\ text'[r].fence = "closed" /\ ~chat.foreign_source => text'[r].source = r
  BY <1>1, <1>3 DEF Chunk, Rejects, Broken, Nothing
<1>5. IncompleteIsReported'
  BY <1>2, <1>3, <1>4 DEF IInv, RepliesOK, IncompleteIsReported, Chunk
<1>6. CASE UNCHANGED proposals
  <2>1. RecordsOK' /\ ApplicationsOK' /\ WindowsOK' /\ \A q : HasPlan(q)' = HasPlan(q)
    BY <1>2, <1>6, RecordsStay DEF IInv
  <2>2. PlansTypeOK'
    BY <1>2, <1>3, <1>6 DEF IInv, PlansTypeOK, Chunk, windows
  <2>3. HasPlan(r) /\ text'[r] # Nothing => r \in errors'
    <3>1. CASE Rejects(r, candidate)
      BY <3>1 DEF Chunk
    <3>2. ASSUME ~Rejects(r, candidate), HasPlan(r) PROVE text'[r] = Nothing
      <4>1. candidate = Nothing /\ candidate.fence # "closed"
        BY <3>2 DEF Rejects, Nothing
      <4>2. text' = [text EXCEPT ![r] = candidate]
        BY <3>2, <4>1 DEF Chunk
      <4> QED BY <4>1, <4>2 DEF IInv, PlansTypeOK
    <3> QED BY <3>1, <3>2
  <2> QED BY <1>2, <1>3, <1>4, <1>5, <2>1, <2>2, <2>3 DEF IInv, RepliesOK
<1>7. CASE proposals' # proposals
  <2>1. /\ ~HasPlan(r) /\ candidate.fence = "closed" /\ candidate.source = r
        /\ proposals' = Append(proposals, AgentRecord(r, candidate)) /\ text'[r] = Nothing
    BY <1>7, <1>1 DEF Chunk, Rejects, Nothing, IInv, PlansTypeOK
  <2> DEFINE q == AgentRecord(r, candidate)
  <2>2. Pushes(q) /\ q.source = r
    BY <1>1, <2>1, AgentPushes
  <2> HIDE DEF q
  <2>3. RecordsOK' /\ ApplicationsOK' /\ WindowsOK'
    BY <1>2, <2>2, PushedIsOK, PushedAfterTheApplied, PushedStaysConfirmed DEF IInv
  <2>4. PlansTypeOK'
    BY <1>2, <1>3, <2>2, PushedRecords, PushedStaysShown DEF IInv, PlansTypeOK, Chunk, windows, Records
  <2>5. \A o : o # r => HasPlan(o)' = HasPlan(o)
    BY <2>2, PushedRecords DEF IInv, HasPlan, Records
  <2> QED BY <1>2, <1>3, <1>4, <1>5, <2>1, <2>3, <2>4, <2>5 DEF IInv, RepliesOK
<1> QED BY <1>6, <1>7

------------------------------------------------------------------------------
(* Windows.                                                                  *)

LEMMA ShowKeepsIt ==
  ASSUME IInv, NEW w \in Window, Show(w), UNCHANGED chat
  PROVE  IInv'
<1>1. RecordsOK' /\ ApplicationsOK' /\ Records' = Records /\ \A q : HasPlan(q)' = HasPlan(q)
  BY RecordsStay DEF IInv, Show, kernel
<1>2. RunId' = RunId /\ UNCHANGED <<kernel, confirming>>
  BY DEF RunId, Show
<1>3. Applicable \in Records \cup {NoPlan} /\ (Applicable # NoPlan => Applicable.design \in Design)
  BY ApplicableIsLatest, RecordsAre DEF IInv, Proposal
<1>4. PlansTypeOK'
  BY <1>1, <1>2, <1>3 DEF IInv, PlansTypeOK, Show, kernel, Records
<1>5. WindowsOK'
  BY <1>1, <1>2, <1>3 DEF IInv, WindowsOK, PlansTypeOK, Show
<1>6. RepliesOK'
  BY <1>1, <1>2 DEF IInv, RepliesOK, IncompleteIsReported, kernel
<1> QED BY <1>1, <1>4, <1>5, <1>6 DEF IInv

LEMMA EditKeepsIt ==
  ASSUME IInv, NEW w \in Window, NEW d \in chat.designs, Edit(w, d), UNCHANGED chat
  PROVE  IInv'
<1>1. RecordsOK' /\ ApplicationsOK' /\ Records' = Records /\ \A q : HasPlan(q)' = HasPlan(q)
  BY RecordsStay DEF IInv, Edit, kernel
<1>2. RunId' = RunId /\ UNCHANGED <<kernel, shown, confirming>> /\ d \in Design
  BY ConstantsAreApart DEF IInv, RunId, Edit
<1>3. PlansTypeOK'
  BY <1>1, <1>2 DEF IInv, PlansTypeOK, Edit, kernel, Records
<1>4. WindowsOK'
  BY <1>1, <1>2 DEF IInv, WindowsOK, PlansTypeOK, Edit
<1>5. RepliesOK'
  BY <1>1, <1>2 DEF IInv, RepliesOK, IncompleteIsReported, kernel
<1> QED BY <1>1, <1>3, <1>4, <1>5 DEF IInv

\* A revision that is saved is the next of the one its window shows.
LEMMA PersonPushes ==
  ASSUME IInv, NEW w \in Window, Save(w)
  PROVE  LET q == PersonRecord(LatestRevision(shown[w].id), draft[w])
         IN  /\ Pushes(q) /\ shown[w] \in Records /\ shown[w] = LatestRevision(q.id)
             /\ q.id = shown[w].id /\ q.revision = shown[w].revision + 1
             /\ q.design = draft[w] /\ q.source = shown[w].source /\ q.created_by = "person"
<1> DEFINE id == shown[w].id
           q  == PersonRecord(LatestRevision(id), draft[w])
<1>1. shown[w] \in Records /\ id \in Ids /\ draft[w] \in Design
  BY DEF IInv, PlansTypeOK, WindowsOK, Save, Records, Ids
<1>2. LatestRevision(id) \in Records /\ LatestRevision(id).id = id
  BY <1>1, LatestIsARecord DEF IInv
<1>3. shown[w] = LatestRevision(id)
  BY <1>1, <1>2 DEF Save, MaySave, IInv, RecordsOK, RevisionsDiffer
<1>4. LatestRevision(id) \in Proposal /\ LatestRevision(id).source \in RunId
  BY <1>2, RecordsAre DEF IInv, RecordsOK, SourcesAreRuns
<1>5. /\ q \in Proposal /\ q.id = id /\ q.revision = LatestRevision(id).revision + 1
      /\ q.design = draft[w] /\ q.source = LatestRevision(id).source /\ q.created_by = "person"
  BY <1>1, <1>2, <1>4 DEF PersonRecord, Proposal
<1>6. id = LatestOfChat.id /\ ~IsApplied(id) /\ proposals' = Append(proposals, q)
  BY DEF Save, MaySave
<1> HIDE DEF q
<1>7. Pushes(q)
  BY <1>1, <1>4, <1>5, <1>6 DEF Pushes
<1>8. QED BY <1>1, <1>3, <1>5, <1>7 DEF q

LEMMA SaveKeeps ==
  ASSUME IInv, NEW w \in Window, Save(w), UNCHANGED chat
  PROVE  /\ RecordsOK' /\ ApplicationsOK' /\ RepliesOK'
         /\ confirming' \in [Window -> Confirmation \cup {NoPlan}] => PlansTypeOK'
         /\ Records \subseteq Records'
         /\ \E p \in Records' : /\ p.id = shown[w].id /\ p.revision = shown[w].revision + 1
                                /\ p.design = draft[w]
<1>1. PICK q : /\ Pushes(q) /\ q.id = shown[w].id /\ q.revision = shown[w].revision + 1
               /\ q.design = draft[w] /\ q.source = shown[w].source /\ shown[w] \in Records
  BY PersonPushes
<1>2. RunId' = RunId /\ UNCHANGED <<run, text, errors, applications, parent_active, shown, draft>>
  BY DEF RunId, Save
<1>3. RecordsOK' /\ ApplicationsOK' /\ Records' = Records \cup {q} /\ proposals' \in Seq(Proposal)
  BY <1>1, <1>2, PushedIsOK, PushedAfterTheApplied, PushedRecords DEF IInv
<1>4. \A o : HasPlan(o)' = HasPlan(o)
  BY <1>1, <1>3 DEF HasPlan, Records
<1>5. RepliesOK'
  BY <1>2, <1>4 DEF IInv, RepliesOK, IncompleteIsReported
<1>6. confirming' \in [Window -> Confirmation \cup {NoPlan}] => PlansTypeOK'
  BY <1>2, <1>3 DEF IInv, PlansTypeOK, Records
<1> QED BY <1>1, <1>3, <1>5, <1>6

LEMMA SaveDraftKeepsIt ==
  ASSUME IInv, NEW w \in Window, SaveDraft(w), UNCHANGED chat
  PROVE  IInv'
<1>1. Save(w) /\ UNCHANGED windows
  BY DEF SaveDraft, Save, windows
<1>2. WindowsOK'
  BY <1>1, PersonPushes, PushedStaysConfirmed DEF IInv
<1>3. confirming' \in [Window -> Confirmation \cup {NoPlan}]
  BY DEF SaveDraft, IInv, PlansTypeOK
<1> QED BY <1>1, <1>2, <1>3, SaveKeeps DEF IInv

LEMMA ConfirmKeepsIt ==
  ASSUME IInv, NEW w \in Window, NEW mode \in ApplyMode, Confirm(w, mode), UNCHANGED chat
  PROVE  IInv'
<1>1. /\ shown[w] # NoPlan /\ shown[w] \in Records /\ draft[w] \in Design
      /\ shown[w].id \in Nat /\ shown[w].revision \in Nat
  BY RecordsAre DEF IInv, PlansTypeOK, WindowsOK, Confirm, Records, Proposal
<1> DEFINE confirmed(revision) == [id |-> shown[w].id, revision |-> revision,
                                   mode |-> mode, design |-> draft[w]]
<1>2. confirmed(shown[w].revision) \in Confirmation /\ confirmed(shown[w].revision + 1) \in Confirmation
  BY <1>1 DEF Confirmation
<1>3. \A v \in Confirmation :
        [confirming EXCEPT ![w] = v] \in [Window -> Confirmation \cup {NoPlan}]
  BY DEF IInv, PlansTypeOK
<1>4. CASE draft[w] = shown[w].design
  <2>1. confirming' = [confirming EXCEPT ![w] = confirmed(shown[w].revision)]
        /\ UNCHANGED <<kernel, shown, draft>>
    BY <1>4 DEF Confirm
  <2>2. RecordsOK' /\ ApplicationsOK' /\ Records' = Records /\ \A q : HasPlan(q)' = HasPlan(q)
    BY <2>1, RecordsStay DEF IInv, kernel
  <2>3. RunId' = RunId
    BY DEF RunId
  <2>4. PlansTypeOK'
    BY <1>2, <1>3, <2>1, <2>2, <2>3 DEF IInv, PlansTypeOK, kernel, Records
  <2>5. WindowsOK'
    BY <1>1, <1>4, <2>1, <2>2 DEF IInv, WindowsOK, PlansTypeOK
  <2>6. RepliesOK'
    BY <2>1, <2>2, <2>3 DEF IInv, RepliesOK, IncompleteIsReported, kernel
  <2> QED BY <2>2, <2>4, <2>5, <2>6 DEF IInv
<1>5. CASE draft[w] # shown[w].design
  <2>1. confirming' = [confirming EXCEPT ![w] = confirmed(shown[w].revision + 1)] /\ Save(w)
    BY <1>5 DEF Confirm
  <2>2. /\ RecordsOK' /\ ApplicationsOK' /\ RepliesOK' /\ PlansTypeOK' /\ Records \subseteq Records'
        /\ \E p \in Records' : /\ p.id = shown[w].id /\ p.revision = shown[w].revision + 1
                               /\ p.design = draft[w]
    BY <1>2, <1>3, <2>1, SaveKeeps
  <2>3. WindowsOK'
    BY <2>1, <2>2 DEF IInv, WindowsOK, PlansTypeOK, Save
  <2> QED BY <2>2, <2>3 DEF IInv
<1> QED BY <1>4, <1>5

\* What is applied is the record that was confirmed.
LEMMA ApplyIsOfTheConfirmed ==
  ASSUME IInv, NEW c \in Confirmation, MayApply(c),
         \E p \in Records : p.id = c.id /\ p.revision = c.revision /\ p.design = c.design
  PROVE  LET p == LatestRevision(c.id)
         IN  /\ c.id \in Ids /\ p \in Records /\ p.design = c.design /\ p.revision = c.revision
             /\ p.source \in RunId /\ p.source \notin errors /\ HasPlan(p.source)
             /\ c.id = LatestOfChat.id /\ ~IsApplied(c.id)
<1>1. PICK o \in Records : o.id = c.id /\ o.revision = c.revision /\ o.design = c.design
  OBVIOUS
<1>2. c.id \in Ids
  BY <1>1 DEF Ids, Records
<1> DEFINE p == LatestRevision(c.id)
<1>3. p \in Records /\ p.id = c.id
  BY <1>2, LatestIsARecord DEF IInv
<1>4. p = o
  BY <1>1, <1>3 DEF MayApply, IInv, RecordsOK, RevisionsDiffer
<1> QED BY <1>1, <1>2, <1>3, <1>4 DEF MayApply, IInv, RecordsOK, SourcesAreRuns, HasPlan, Records

LEMMA ApplyKeepsIt ==
  ASSUME IInv, NEW w \in Window, Apply(w), UNCHANGED chat
  PROVE  IInv'
<1> DEFINE c == confirming[w]
           p == LatestRevision(c.id)
           a == [id |-> c.id, revision |-> p.revision, key |-> Key(c),
                 design |-> p.design, confirmed |-> c.design,
                 tree |-> Cardinality(applications) + 1]
<1>1. /\ c \in Confirmation
      /\ \E o \in Records : o.id = c.id /\ o.revision = c.revision /\ o.design = c.design
  BY DEF IInv, PlansTypeOK, WindowsOK, Apply
<1>2. /\ UNCHANGED <<run, text, proposals, errors, parent_active, shown, draft>> /\ RunId' = RunId
      /\ confirming' \in {confirming, [confirming EXCEPT ![w] = NoPlan]}
      /\ \/ applications' = applications
         \/ applications' = applications \cup {a} /\ MayApply(c)
  BY DEF Apply, RunId
<1>3. /\ RecordsOK' /\ Records' = Records /\ Ids' = Ids /\ \A q : HasPlan(q)' = HasPlan(q)
      /\ \A id : LatestRevision(id)' = LatestRevision(id)
  BY <1>2, RecordsStay DEF IInv
<1>4. PlansTypeOK'
  BY <1>2, <1>3 DEF IInv, PlansTypeOK, Records
<1>5. WindowsOK'
  BY <1>2, <1>3 DEF IInv, WindowsOK, PlansTypeOK
<1>6. RepliesOK'
  BY <1>2, <1>3 DEF IInv, RepliesOK, IncompleteIsReported
<1>7. ApplicationsOK'
  <2>1. CASE applications' = applications
    BY <1>2, <2>1, RecordsStay DEF IInv
  <2>2. CASE applications' = applications \cup {a} /\ MayApply(c)
    <3>1. c.id \in Ids /\ p.design = c.design /\ ~IsApplied(c.id)
      BY <1>1, <2>2, ApplyIsOfTheConfirmed
    <3>2. a.id = c.id /\ a.revision = p.revision /\ a.design = a.confirmed
      BY <3>1
    <3> HIDE DEF a
    <3>3. \A b \in applications : b.id # a.id
      BY <3>1, <3>2 DEF IsApplied
    <3>4. (\A b \in applications : b.id \in Ids)' /\ AppliedAsConfirmed'
      BY <1>3, <2>2, <3>1, <3>2 DEF IInv, ApplicationsOK, AppliedAsConfirmed
    <3>5. AppliedIsFinal'
      BY <1>3, <2>2, <3>2 DEF IInv, ApplicationsOK, AppliedIsFinal
    <3>6. OneTreePerPlan'
      BY <2>2, <3>3 DEF IInv, ApplicationsOK, OneTreePerPlan
    <3> QED BY <3>4, <3>5, <3>6 DEF ApplicationsOK
  <2> QED BY <1>2, <2>1, <2>2
<1> QED BY <1>3, <1>4, <1>5, <1>6, <1>7 DEF IInv

------------------------------------------------------------------------------
(* The theorems.                                                             *)

LEMMA InitHasIt == ChatInit => IInv
<1> SUFFICES ASSUME ChatInit PROVE IInv
  OBVIOUS
<1>1. proposals = <<>> /\ proposals \in Seq(Proposal) /\ Records = {} /\ Ids = {}
  BY DEF ChatInit, Records, Ids, ToSet
<1>2. PlansTypeOK
  BY <1>1 DEF ChatInit, PlansTypeOK, Text
<1>3. RecordsOK
  <2>1. IdsInOrder
    BY <1>1 DEF IdsInOrder
  <2> QED BY <1>1, <2>1 DEF ChatInit, RecordsOK, RevisionsDiffer, OneIsLatest, SourcesAreRuns, AgentsDiffer
<1>4. WindowsOK
  BY DEF ChatInit, WindowsOK
<1>5. ApplicationsOK
  BY DEF ChatInit, ApplicationsOK, AppliedAsConfirmed, AppliedIsFinal, OneTreePerPlan
<1>6. RepliesOK
  BY DEF ChatInit, RepliesOK, IncompleteIsReported, Nothing
<1> QED BY <1>2, <1>3, <1>4, <1>5, <1>6 DEF IInv

LEMMA NextKeepsIt == IInv /\ [ChatNext]_plans => IInv'
<1> SUFFICES ASSUME IInv, [ChatNext]_plans PROVE IInv'
  OBVIOUS
<1>1. ASSUME NEW r \in RunId, ReplyStep(r), UNCHANGED chat PROVE IInv'
  BY <1>1, StartKeepsIt, ChunkKeepsIt, EndKeepsIt DEF ReplyStep
<1>2. ASSUME NEW w \in chat.windows, WindowStep(w), UNCHANGED chat PROVE IInv'
  <2>1. w \in Window
    BY ConstantsAreApart DEF IInv
  <2> QED BY <1>2, <2>1, ShowKeepsIt, EditKeepsIt, SaveDraftKeepsIt, ConfirmKeepsIt, ApplyKeepsIt
          DEF WindowStep
<1>3. CASE UNCHANGED plans
  <2>1. RecordsOK' /\ ApplicationsOK' /\ WindowsOK' /\ \A q : HasPlan(q)' = HasPlan(q)
    BY <1>3, RecordsStay DEF IInv, plans, kernel
  <2>2. PlansTypeOK'
    BY <1>3 DEF IInv, PlansTypeOK, plans, kernel, windows, RunId
  <2>3. RepliesOK'
    BY <1>3, <2>1 DEF IInv, RepliesOK, IncompleteIsReported, plans, kernel, RunId
  <2> QED BY <2>1, <2>2, <2>3 DEF IInv
<1> QED BY <1>1, <1>2, <1>3, RestartKeepsIt, ParentKeepsIt DEF ChatNext

LEMMA IInvGivesIt == IInv => AppliedOnceAsConfirmed
<1> SUFFICES ASSUME IInv PROVE AppliedOnceAsConfirmed
  OBVIOUS
<1>1. OnePlanPerReply
  <2> SUFFICES ASSUME NEW r \in RunId
               PROVE  Cardinality({i \in DOMAIN proposals :
                        proposals[i].source = r /\ proposals[i].created_by = "agent"}) <= 1
    BY DEF OnePlanPerReply
  <2> DEFINE S == {i \in DOMAIN proposals :
                     proposals[i].source = r /\ proposals[i].created_by = "agent"}
  <2>1. CASE S = {}
    BY <2>1, FS_EmptySet
  <2>2. CASE S # {}
    <3>1. PICK i \in S : TRUE
      BY <2>2
    <3>2. S = {i}
      BY <3>1 DEF IInv, RecordsOK, AgentsDiffer
    <3>3. Cardinality(S) = 1
      BY <3>2, FS_Singleton, Zenon
    <3> HIDE DEF S
    <3>4. Cardinality(S) <= 1
      BY <3>3
    <3> QED BY <3>4 DEF S
  <2> QED BY <2>1, <2>2
<1> QED BY <1>1 DEF IInv, AppliedOnceAsConfirmed, ApplicationsOK, RepliesOK

LEMMA Inductive == ChatSpec => []IInv
BY InitHasIt, NextKeepsIt, PTL DEF ChatSpec

\* For every chat, whatever the bounds on its runs and its proposals and however
\* many windows are open on it: a reply is one proposal or says that it is
\* incomplete, a plan is applied once and for good, and what is applied is the
\* draft that was confirmed.
THEOREM PlansAreAppliedOnce == ChatSpec => []AppliedOnceAsConfirmed
BY Inductive, IInvGivesIt, PTL

LEMMA ReplyOverwritesNothing ==
  ASSUME IInv, NEW r \in RunId, ReplyStep(r), UNCHANGED chat
  PROVE  OverwritesNothing /\ FreezesSuperseded /\ BuildsFromSoundReply
<1>1. applications' = applications
  BY DEF ReplyStep, StartReply, Chunk, EndReply
<1>2. CASE proposals' = proposals
  <2>1. \A id : RecordsOf(id)' = RecordsOf(id)
    BY <1>2, RecordsStay
  <2> QED BY <1>1, <1>2, <2>1 DEF OverwritesNothing, FreezesSuperseded, BuildsFromSoundReply, IsApplied,
          IInv, PlansTypeOK
<1>3. CASE proposals' # proposals
  <2>1. PICK candidate \in Candidates(r) : Chunk(r, candidate)
    BY <1>3 DEF ReplyStep, StartReply, EndReply
  <2>2. /\ candidate \in Text /\ (candidate.fence = "closed" => candidate \in Artifact)
    BY <2>1, CandidatesAreTexts
  <2>3. /\ ~HasPlan(r) /\ candidate.fence = "closed" /\ candidate.source = r
        /\ proposals' = Append(proposals, AgentRecord(r, candidate))
    BY <1>3, <2>1, <2>2 DEF Chunk, Rejects, Nothing, IInv, PlansTypeOK
  <2> DEFINE q == AgentRecord(r, candidate)
  <2>4. Pushes(q) /\ q.created_by = "agent"
    BY <2>2, <2>3, AgentPushes DEF AgentRecord
  <2> HIDE DEF q
  <2>5. q.id \notin Ids \/ q.id = LatestOfChat.id
    BY <2>4, NewIdIsNew DEF Pushes, IInv
  <2>6. /\ Last(proposals') = q
        /\ \A id : id # q.id => RecordsOf(id)' = RecordsOf(id)
    BY <2>4, PushedRecords DEF IInv
  <2> QED BY <1>1, <2>4, <2>5, <2>6
          DEF OverwritesNothing, FreezesSuperseded, BuildsFromSoundReply, IsApplied
<1> QED BY <1>2, <1>3

LEMMA WindowOverwritesNothing ==
  ASSUME IInv, NEW w \in Window, WindowStep(w), UNCHANGED chat
  PROVE  OverwritesNothing /\ FreezesSuperseded /\ BuildsFromSoundReply
<1>1. CASE Save(w)
  <2>1. PICK q : /\ Pushes(q) /\ shown[w] = LatestRevision(q.id) /\ q.design = draft[w]
                 /\ q.id = shown[w].id
    BY <1>1, PersonPushes
  <2>2. q.id = LatestOfChat.id /\ applications' = applications /\ draft' = draft
    BY <1>1, <2>1 DEF Save, MaySave
  <2>3. /\ Last(proposals') = q
        /\ \A id : id # q.id => RecordsOf(id)' = RecordsOf(id)
    BY <2>1, PushedRecords DEF IInv
  <2> QED BY <2>1, <2>2, <2>3
          DEF OverwritesNothing, FreezesSuperseded, BuildsFromSoundReply, IsApplied
<1>2. CASE Apply(w)
  <2> DEFINE c == confirming[w]
             p == LatestRevision(c.id)
  <2>1. /\ c \in Confirmation
        /\ \E o \in Records : o.id = c.id /\ o.revision = c.revision /\ o.design = c.design
    BY <1>2 DEF IInv, PlansTypeOK, WindowsOK, Apply
  <2>2. proposals' = proposals /\ \A id : RecordsOf(id)' = RecordsOf(id)
    BY <1>2, RecordsStay DEF Apply
  <2>3. CASE applications' = applications
    BY <2>2, <2>3 DEF OverwritesNothing, FreezesSuperseded, BuildsFromSoundReply, IsApplied,
          IInv, PlansTypeOK
  <2>4. CASE applications' # applications
    <3>1. PICK a : MayApply(c) /\ applications' = applications \cup {a} /\ a.id = c.id
      BY <1>2, <2>4 DEF Apply
    <3>2. /\ c.id = LatestOfChat.id /\ p.source \in RunId /\ p.source \notin errors
          /\ HasPlan(p.source)
      BY <2>1, <3>1, ApplyIsOfTheConfirmed
    <3>3. ~chat.foreign_source => text[p.source] = Nothing
      BY <3>2 DEF IInv, RepliesOK
    <3> QED BY <2>2, <3>1, <3>2, <3>3
            DEF OverwritesNothing, FreezesSuperseded, BuildsFromSoundReply, IsApplied, IInv, PlansTypeOK
  <2> QED BY <2>3, <2>4
<1>3. CASE UNCHANGED kernel
  <2>1. proposals' = proposals /\ applications' = applications /\ \A id : RecordsOf(id)' = RecordsOf(id)
    BY <1>3, RecordsStay DEF kernel
  <2> QED BY <2>1 DEF OverwritesNothing, FreezesSuperseded, BuildsFromSoundReply, IsApplied,
          IInv, PlansTypeOK
<1> QED BY <1>1, <1>2, <1>3 DEF WindowStep, Show, Edit, SaveDraft, Confirm

\* For every chat, whatever its bounds and its windows: nobody overwrites a
\* revision they have not seen, a superseded proposal is left as it is, and
\* tasks come only of replies that are sound.
THEOREM PlansOverwriteNothing == ChatSpec => NothingOverwritten
<1>1. IInv /\ [ChatNext]_plans
      => [OverwritesNothing /\ FreezesSuperseded /\ BuildsFromSoundReply]_plans
  <2> SUFFICES ASSUME IInv, ChatNext
               PROVE  OverwritesNothing /\ FreezesSuperseded /\ BuildsFromSoundReply
    OBVIOUS
  <2>1. CASE ChatRestart \/ SetParentStatus
    <3>1. /\ proposals' = proposals /\ applications' = applications
          /\ \A id : RecordsOf(id)' = RecordsOf(id)
      BY <2>1, RecordsStay DEF ChatRestart, SetParentStatus, ChatNext
    <3> QED BY <3>1 DEF OverwritesNothing, FreezesSuperseded, BuildsFromSoundReply, IsApplied,
            IInv, PlansTypeOK
  <2>2. chat.windows \subseteq Window
    BY ConstantsAreApart DEF IInv
  <2> QED BY <2>1, <2>2, ReplyOverwritesNothing, WindowOverwritesNothing DEF ChatNext
<1> QED BY <1>1, Inductive, PTL DEF ChatSpec, NothingOverwritten
==============================================================================
