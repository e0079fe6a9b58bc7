------------------------------- MODULE TaskPlans -------------------------------
(***************************************************************************)
(* Task plans of one chat: the replies of its runs arrive chunk by chunk   *)
(* and may carry an artifact, which the kernel keeps as a proposal         *)
(* (ingest_event and save_task_plan_from_chat_run); people edit proposals  *)
(* as new revisions and confirm one (save_task_plan, apply_task_plan) from *)
(* windows that show what they last fetched.  The kernel runs one command  *)
(* at a time; a window's save and its confirmation are two.                *)
(***************************************************************************)
EXTENDS Naturals, Sequences, FiniteSets, SequencesExt

CONSTANTS
    Window,         \* the owner's windows on the chat
    Design,         \* the plans a draft may describe
    NoPlan,         \* what a window shows when there is none
    Chats           \* what chats there may be: see ChatSets

ApplyMode == {"create_only", "confirm_and_start"}

\* What assistant_run_text holds of a run: no fence, one that is open, one
\* complete artifact with its draft, or something that is not one artifact.
Nothing == [fence |-> "none"]
Opened == [fence |-> "open"]
Broken == [fence |-> "bad"]
Artifact == [fence : {"closed"}, source : Nat, design : Design]
Text == {Nothing, Opened, Broken} \union Artifact

Proposal == [id : Nat, revision : Nat, source : Nat, design : Design,
             created_by : {"agent", "person"}]
Confirmation == [id : Nat, revision : Nat, mode : ApplyMode, design : Design]

\* Which windows are open, what an agent may propose, and whether its artifact
\* may name another run as its source; whether the daemon may be restarted.
ChatSets ==
    [windows : SUBSET Window, designs : SUBSET Design,
     foreign_source : BOOLEAN, may_restart : BOOLEAN,
     runs : Nat,        \* bound: runs of the chat
     records : Nat]     \* bound: proposal records

ASSUME ChatsAssumption ==
    /\ Chats \subseteq ChatSets
    /\ NoPlan \notin Design \union Proposal \union Confirmation

VARIABLES
    run,            \* each run's status
    text,           \* each run's text
    proposals,      \* world.task_plan_proposals, in order
    errors,         \* the runs of world.task_plan_artifact_errors
    applications,   \* world.task_plan_applications
    parent_active,  \* the draft's existing parent: validate_task_plan accepts
    shown,          \* the proposal record each window shows
    draft,          \* the design in each window's card
    confirming,     \* a window's confirmation whose revision is saved
    chat            \* what may happen in this chat, settled once

kernel == <<run, text, proposals, errors, applications, parent_active>>
windows == <<shown, draft, confirming>>
plans == <<kernel, windows, chat>>

RunId == 1..chat.runs

-----------------------------------------------------------------------------
(* Reading the proposals.                                                   *)

Ids == {p.id : p \in ToSet(proposals)}
NewId == Cardinality(Ids) + 1
RecordsOf(id) == {p \in ToSet(proposals) : p.id = id}

\* latest_task_plan and latest_task_plan_record_for_chat
LatestRevision(id) ==
    CHOOSE p \in RecordsOf(id) : \A other \in RecordsOf(id) : other.revision <= p.revision
LatestOfChat == Last(proposals)

IsApplied(id) == \E a \in applications : a.id = id

\* latest_applicable_task_plan_for_chat
Applicable ==
    IF /\ proposals # <<>>
       /\ ~IsApplied(LatestOfChat.id)
       /\ LatestOfChat.source \notin errors
       /\ LatestRevision(LatestOfChat.id).revision = LatestOfChat.revision
    THEN LatestOfChat ELSE NoPlan

-----------------------------------------------------------------------------
(* Replies.                                                                 *)

StartReply(r) ==
    /\ run[r] = "none" /\ \A earlier \in 1..(r - 1) : run[earlier] # "none"
    /\ run' = [run EXCEPT ![r] = "running"]
    /\ UNCHANGED <<text, proposals, errors, applications, parent_active, windows>>

\* What one more chunk may make of a text.
Candidates(r) ==
    LET sources == IF chat.foreign_source THEN 1..r ELSE {r}
        artifacts == [fence : {"closed"}, source : sources, design : chat.designs]
    IN  CASE text[r].fence = "none" -> {Nothing, Opened, Broken} \union artifacts
          [] text[r].fence = "open" -> {Opened, Broken} \union artifacts
          [] OTHER -> {text[r], Broken}

\* A proposal of the run's own: there already is one.
HasPlan(r) == \E p \in ToSet(proposals) : p.source = r

\* The parser's errors, and an artifact in a reply that has had one.
Rejects(r, candidate) ==
    candidate = Broken \/ (HasPlan(r) /\ candidate # Nothing)

\* The record save_task_plan_from_chat_run pushes
AgentRecord(r, d) ==
    LET extends == Applicable # NoPlan /\ Applicable.source = r
    IN  [id |-> IF extends THEN Applicable.id ELSE NewId,
         revision |-> IF extends THEN Applicable.revision + 1 ELSE 1,
         source |-> d.source, design |-> d.design, created_by |-> "agent"]

\* A chunk of an assistant's message.  A draft clears the error of the run
\* it names before its provenance is looked at.
Chunk(r, candidate) ==
    /\ run[r] = "running"
    /\ IF Rejects(r, candidate)
       THEN /\ errors' = errors \union {r}
            /\ text' = [text EXCEPT ![r] = candidate]
            /\ UNCHANGED proposals
       ELSE IF candidate.fence # "closed"
       THEN /\ text' = [text EXCEPT ![r] = candidate]
            /\ UNCHANGED <<errors, proposals>>
       ELSE IF candidate.source = r /\ parent_active
       THEN /\ errors' = errors \ {r}
            /\ proposals' = Append(proposals, AgentRecord(r, candidate))
            /\ text' = [text EXCEPT ![r] = Nothing]
       ELSE /\ errors' = (errors \ {candidate.source}) \union {r}
            /\ text' = [text EXCEPT ![r] = candidate]
            /\ UNCHANGED proposals
    /\ UNCHANGED <<run, applications, parent_active, windows>>

\* The session's end, CancelRun and StopChat: finalize_task_plan_artifact
EndReply(r) ==
    /\ run[r] = "running"
    /\ run' = [run EXCEPT ![r] = "ended"]
    /\ errors' = IF text[r] = Nothing THEN errors ELSE errors \union {r}
    /\ UNCHANGED <<text, proposals, applications, parent_active, windows>>

\* interrupt_orphaned_executions
ChatRestart ==
    /\ chat.may_restart
    /\ run' = [r \in RunId |-> IF run[r] = "running" THEN "ended" ELSE run[r]]
    /\ UNCHANGED <<text, proposals, errors, applications, parent_active, windows>>

\* Somebody closes the plan's existing parent, or opens it again.
SetParentStatus ==
    /\ parent_active' = ~parent_active
    /\ UNCHANGED <<run, text, proposals, errors, applications, windows>>

-----------------------------------------------------------------------------
(* Windows.  The card's draft starts over when another revision is shown.   *)

Show(w) ==
    /\ Applicable # shown[w]
    /\ shown' = [shown EXCEPT ![w] = Applicable]
    /\ draft' = [draft EXCEPT ![w] =
                    IF Applicable = NoPlan THEN NoPlan ELSE Applicable.design]
    /\ UNCHANGED <<kernel, confirming>>

Edit(w, d) ==
    /\ shown[w] # NoPlan /\ confirming[w] = NoPlan
    /\ draft' = [draft EXCEPT ![w] = d]
    /\ UNCHANGED <<kernel, shown, confirming>>

\* Mutant: the revision the window has seen is not compared.
MaySaveStale(id, revision) ==
    /\ LatestRevision(id).source \notin errors
    /\ parent_active
    /\ ~IsApplied(id)
    /\ LatestOfChat.id = id

\* save_task_plan's checks for a revision of a proposal
MaySave(id, revision) ==
    /\ LatestRevision(id).source \notin errors
    /\ parent_active
    /\ ~IsApplied(id)
    /\ LatestRevision(id).revision = revision
    /\ LatestOfChat.id = id

PersonRecord(p, design) ==
    [id |-> p.id, revision |-> p.revision + 1, source |-> p.source,
     design |-> design, created_by |-> "person"]

Save(w) ==
    /\ shown[w] # NoPlan /\ confirming[w] = NoPlan
    /\ MaySave(shown[w].id, shown[w].revision)
    /\ proposals' = Append(proposals, PersonRecord(LatestRevision(shown[w].id), draft[w]))
    /\ UNCHANGED <<run, text, errors, applications, parent_active, shown, draft>>

\* "Save" and "regenerate"; the answer makes the window fetch the chat again.
SaveDraft(w) == Save(w) /\ UNCHANGED confirming

\* "Confirm": the revision shown, or the one the edited draft is saved as.
Confirm(w, mode) ==
    /\ shown[w] # NoPlan /\ confirming[w] = NoPlan
    /\ LET confirmed(revision) == [id |-> shown[w].id, revision |-> revision,
                                   mode |-> mode, design |-> draft[w]]
       IN  \/ /\ draft[w] = shown[w].design
              /\ confirming' = [confirming EXCEPT ![w] = confirmed(shown[w].revision)]
              /\ UNCHANGED <<kernel, shown, draft>>
           \/ /\ draft[w] # shown[w].design
              /\ confirming' = [confirming EXCEPT ![w] =
                                    confirmed(shown[w].revision + 1)]
              /\ Save(w)

-----------------------------------------------------------------------------
(* Applying.  The idempotency key names the revision and the mode.          *)

\* Mutant: whatever revision is the latest now.
MayApplyAnyRevision(c) ==
    LET p == LatestRevision(c.id) IN
    /\ p.source \notin errors
    /\ ~IsApplied(c.id)
    /\ LatestOfChat.id = c.id
    /\ parent_active

\* apply_task_plan's checks
MayApply(c) ==
    LET p == LatestRevision(c.id) IN
    /\ p.source \notin errors
    /\ ~IsApplied(c.id)
    /\ LatestOfChat.id = c.id
    /\ p.revision = c.revision
    /\ parent_active

Key(c) == <<c.revision, c.mode>>
Replays(c) == \E a \in applications : a.id = c.id /\ a.key = Key(c)

\* The command arrives.  Its answer may be lost: then the window still
\* believes it is confirming, and sends the same command again.
Apply(w) ==
    /\ confirming[w] # NoPlan
    /\ LET c == confirming[w]
           p == LatestRevision(c.id)
       IN  applications' =
            IF ~Replays(c) /\ MayApply(c)
            THEN applications \union
                    {[id |-> c.id, revision |-> p.revision, key |-> Key(c),
                      design |-> p.design, confirmed |-> c.design,
                      tree |-> Cardinality(applications) + 1]}
            ELSE applications
    /\ confirming' \in {confirming, [confirming EXCEPT ![w] = NoPlan]}
    /\ UNCHANGED <<run, text, proposals, errors, parent_active, shown, draft>>

-----------------------------------------------------------------------------

ChatInit ==
    /\ chat \in Chats
    /\ run = [r \in RunId |-> "none"]
    /\ text = [r \in RunId |-> Nothing]
    /\ proposals = <<>>
    /\ errors = {}
    /\ applications = {}
    /\ parent_active = TRUE
    /\ shown = [w \in Window |-> NoPlan]
    /\ draft = [w \in Window |-> NoPlan]
    /\ confirming = [w \in Window |-> NoPlan]

ReplyStep(r) ==
    \/ StartReply(r)
    \/ \E candidate \in Candidates(r) : Chunk(r, candidate)
    \/ EndReply(r)

WindowStep(w) ==
    \/ Show(w)
    \/ \E d \in chat.designs : Edit(w, d)
    \/ SaveDraft(w)
    \/ \E mode \in ApplyMode : Confirm(w, mode)
    \/ Apply(w)

ChatNext ==
    /\ \/ \E r \in RunId : ReplyStep(r)
       \/ ChatRestart
       \/ SetParentStatus
       \/ \E w \in chat.windows : WindowStep(w)
    /\ Len(proposals') <= chat.records
    /\ UNCHANGED chat

ChatSpec == ChatInit /\ [][ChatNext]_plans

-----------------------------------------------------------------------------
(* What the plans promise.                                                  *)

PlansTypeOK ==
    /\ chat \in Chats
    /\ run \in [RunId -> {"none", "running", "ended"}]
    /\ text \in [RunId -> Text]
    /\ proposals \in Seq(Proposal)
    /\ errors \subseteq RunId
    /\ parent_active \in BOOLEAN
    /\ shown \in [Window -> ToSet(proposals) \union {NoPlan}]
    /\ draft \in [Window -> Design \union {NoPlan}]
    /\ confirming \in [Window -> Confirmation \union {NoPlan}]

\* The tasks that are created are those of the draft the person was looking
\* at when they confirmed, whatever was saved, superseded or answered late
\* in between.
AppliedAsConfirmed == \A a \in applications : a.design = a.confirmed

\* A plan that was applied is never revised: what was applied is its last.
AppliedIsFinal ==
    \A a \in applications : a.revision = LatestRevision(a.id).revision

\* However often a plan is confirmed, and in whatever modes, its tasks are
\* created once.
OneTreePerPlan ==
    \A a, b \in applications : a.id = b.id => a = b

\* A reply is never more than one proposal, even when its chunks complete
\* one artifact after another.
OnePlanPerReply ==
    \A r \in RunId :
        Cardinality({i \in DOMAIN proposals :
            proposals[i].source = r /\ proposals[i].created_by = "agent"}) <= 1

\* A reply that ends with an artifact that is incomplete, malformed or one
\* too many says so, unless the daemon died or a later reply named this one
\* as its source.
IncompleteIsReported ==
    ~chat.may_restart /\ ~chat.foreign_source =>
        \A r \in RunId : run[r] = "ended" /\ text[r] # Nothing => r \in errors

\* However often, and by whichever window, a plan is revised and confirmed: a
\* reply is one proposal or says that it is incomplete, the tasks made of it
\* are those of the draft that was confirmed, made once, and what was applied
\* is never revised.
AppliedOnceAsConfirmed ==
    /\ PlansTypeOK
    /\ OnePlanPerReply /\ IncompleteIsReported
    /\ AppliedAsConfirmed /\ AppliedIsFinal /\ OneTreePerPlan

\* An edit is an edit of what is there: a window that has not seen the
\* newest revision overwrites nothing.
OverwritesNothing ==
    Len(proposals') > Len(proposals) /\ Last(proposals').created_by = "person" =>
        \E w \in Window : /\ shown[w] = LatestRevision(Last(proposals').id)
                          /\ draft[w] = Last(proposals').design

\* Once the chat has a newer proposal, an older one is neither revised nor
\* applied.
FreezesSuperseded ==
    \A id \in {x \in Ids : x # LatestOfChat.id} :
        /\ RecordsOf(id)' = RecordsOf(id)
        /\ IsApplied(id)' = IsApplied(id)

\* No tasks are created from a reply that carries, or has begun, anything
\* beyond the one artifact the proposal was read from, unless a later reply
\* named that one as its source.
BuildsFromSoundReply ==
    ~chat.foreign_source =>
        \A a \in applications' \ applications :
            text[LatestRevision(a.id).source] = Nothing

\* A window that has not seen the newest revision overwrites nothing, an older
\* proposal is neither revised nor applied, and no tasks come of an unsound
\* reply.
NothingOverwritten ==
    [][OverwritesNothing /\ FreezesSuperseded /\ BuildsFromSoundReply]_plans
=============================================================================
