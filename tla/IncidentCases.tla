---------------------------- MODULE IncidentCases ----------------------------
(***************************************************************************)
(* From what judges found in the windows of single compactions to incident *)
(* cases (incidents.py): fragments that share evidence are one component,  *)
(* components travel to the link judge in packets of limited size, three   *)
(* passes of clustering follow each other, and the last one's clusters are *)
(* resolved back to components, events and opportunities.                  *)
(*                                                                         *)
(* A fragment is its parent opportunity and its events.  What stands for a *)
(* hash of contents is the contents: a component is a set of fragments, a  *)
(* first-pass cluster a set of components, and so on up.  Every command    *)
(* reads and writes whole files; how one dies between two files and how    *)
(* judges are asked is the subject of other modules.                       *)
(***************************************************************************)
EXTENDS Naturals, FiniteSets, Sequences, SequencesExt, FiniteSetsExt

CONSTANTS Parents,        \* the real compaction opportunities, in order
          Synthetic,      \* the units made of sessions without a compaction
          Goal, Findings, \* of each parent: its goal root, and the events found
          Window,         \* of each parent: the events of its frozen windows
          MaxComponents,  \* 50 in the program
          MaxBytes, SizeOf,  \* the ceiling of a packet, and what an event takes
          MaxFragments,   \* bound on the fragments graded at a time
          MaxRedone       \* bound on gradings begun again and results removed

ConstantsAreSound == /\ Parents \subseteq Nat /\ Synthetic \cap Parents = {}
                     /\ \A p \in Parents : Findings[p] \subseteq Window[p]
                     /\ MaxComponents \in Nat \ {0}

VARIABLES
  fragments,              \* the results of fragment grading
  components,             \* incident_components_v3.jsonl
  inputs, rows,           \* of each pass: its packets, and its clusters by packet
  bound,                  \* the passes whose inputs the manifest binds
  complete,               \* the passes whose results the manifest binds as complete
  cases, packets,         \* incident cases, and the causal inputs made of them
  redone

vars == <<fragments, components, inputs, rows, bound, complete, cases, packets, redone>>

Passes == {"link", "cross", "global"}
Goals == {Goal[p] : p \in Parents}

-----------------------------------------------------------------------------
\* What a fragment judge may return: nothing but events found in the windows
\* of one real opportunity, each once.
Fragments == UNION {[parent : {p}, events : SUBSET Findings[p] \ {{}}] : p \in Parents}
GoalOf(f) == Goal[f.parent]
Rank(f) == 100 * f.parent + MapThenSumSet(LAMBDA e : 2 ^ e, f.events)

\* Union-find by events: a fragment and all it shares an event with are one.
Absorb(groups, f) ==
  LET hit == {g \in groups : \E h \in g : h.events \cap f.events # {}} IN
  (groups \ hit) \cup {UNION hit \cup {f}}

Joined(F) == UNION {FoldSet(LAMBDA f, groups : Absorb(groups, f), {}, {f \in F : GoalOf(f) = g}) : g \in Goals}

\* The order packets are filled in: by the first boundary of what is put in.
InOrder(leaves) ==
  SetToSortSeq(DOMAIN leaves, LAMBDA a, b : Min({Rank(f) : f \in leaves[a]}) < Min({Rank(f) : f \in leaves[b]}))

Bytes(group) == MapThenSumSet(LAMBDA c : MapThenSumSet(LAMBDA f : SizeOf[f.parent], c), group)
Fits(group, weighed) == /\ Cardinality(group) <= MaxComponents
                        /\ weighed => Bytes(group) <= MaxBytes

\* One after the other goes into the current packet while it fits.
Packed(seq, weighed) ==
  FoldLeft(LAMBDA groups, c :
    IF groups # <<>> /\ Fits(Last(groups) \cup {c}, weighed)
    THEN [groups EXCEPT ![Len(groups)] = @ \cup {c}]
    ELSE Append(groups, {c}),
    <<>>, seq)

RootOf(fs) == GoalOf(CHOOSE f \in fs : TRUE)

LinkPackets(C) == UNION {ToSet(Packed(InOrder([c \in {d \in C : RootOf(d) = g} |-> c]), TRUE)) : g \in Goals}
CrossPackets(C) == UNION {ToSet(Packed(InOrder([c \in {d \in C : RootOf(UNION d) = g} |-> UNION c]), FALSE)) : g \in Goals}
GlobalPackets(C) == {{c \in C : RootOf(UNION UNION c) = g} : g \in Goals} \ {{}}

-----------------------------------------------------------------------------
\* Fragments are graded, of more windows than before or of all of them anew.
GradeFragments == /\ fragments' \in UNION {kSubset(n, Fragments) : n \in 1..MaxFragments}
                  /\ fragments' # fragments
                  /\ redone' = IF fragments = {} THEN redone ELSE redone + 1
                  /\ redone < MaxRedone \/ fragments = {}
                  /\ UNCHANGED <<components, inputs, rows, bound, complete, cases, packets>>

\* prepare-incident-links; a packet over the ceiling is noticed once both files
\* are written, and left unbound.
PrepareLinks ==
  /\ fragments # {}
  /\ components' = Joined(fragments)
  /\ inputs' = [inputs EXCEPT !["link"] = LinkPackets(components')]
  /\ bound' = IF \A packet \in inputs'["link"] : Fits(packet, TRUE) THEN bound \cup {"link"}
              ELSE IF inputs' = inputs THEN bound ELSE bound \ {"link"}
  /\ UNCHANGED <<fragments, rows, complete, cases, packets, redone>>

\* Mutant: an answer need not assign every component.
PartitionsOfSome(packet) == {{{c \in part : key[c] = k} : k \in Range(key)} :
                               <<part, key>> \in {<<p, [c \in p |-> 1]>> : p \in SUBSET packet \ {{}}}}

\* The judge assigns an event key to every component of a packet it has not
\* answered yet; the same key is the same cluster.
Partitions(packet) == {{{c \in packet : key[c] = k} : k \in Range(key)} :
                         key \in [packet -> 1..Cardinality(packet)]}

RunLinkJudge(pass) ==
  LET missing == inputs[pass] \ DOMAIN rows[pass] IN
  /\ pass \in bound
  /\ \E answers \in [missing -> UNION {Partitions(packet) : packet \in missing}] :
       /\ \A packet \in missing : answers[packet] \in Partitions(packet)
       /\ rows' = [rows EXCEPT ![pass] = rows[pass] @@ answers]
  /\ complete' = IF DOMAIN rows'[pass] = inputs[pass] THEN complete \cup {pass}
                 ELSE IF rows' = rows THEN complete ELSE complete \ {pass}
  /\ UNCHANGED <<fragments, components, inputs, bound, cases, packets, redone>>

\* Results of packets that are no longer asked stop every later grading; only
\* a person who removes the file helps.
RemoveResults(pass) == /\ rows[pass] # <<>> /\ redone < MaxRedone /\ redone' = redone + 1
                       /\ rows' = [rows EXCEPT ![pass] = <<>>] /\ complete' = complete \ {pass}
                       /\ UNCHANGED <<fragments, components, inputs, bound, cases, packets>>

Clusters(pass) == UNION {rows[pass][packet] : packet \in DOMAIN rows[pass]}

\* A pass is the next one's source when both its files are as the manifest has
\* them and every result is of one of its packets.
Source(pass) == pass \in bound \cap complete /\ DOMAIN rows[pass] \subseteq inputs[pass]

\* prepare-incident-cross-shard-links: every first-pass cluster, in packets.
PrepareCross == /\ Source("link")
                /\ inputs' = [inputs EXCEPT !["cross"] = CrossPackets(Clusters("link"))]
                /\ bound' = bound \cup {"cross"}
                /\ UNCHANGED <<fragments, components, rows, complete, cases, packets, redone>>

\* prepare-incident-goal-global-links: all clusters of a goal root together.
PrepareGlobal == /\ Source("cross")
                 /\ inputs' = [inputs EXCEPT !["global"] = GlobalPackets(Clusters("cross"))]
                 /\ bound' = bound \cup {"global"}
                 /\ UNCHANGED <<fragments, components, rows, complete, cases, packets, redone>>

\* A cluster's components, through the cluster files as they are: what a file
\* does not have resolves to nothing.
Resolved(cluster) == UNION (UNION (cluster \cap Clusters("cross")) \cap Clusters("link"))

\* build-incident-cases checks the last pass only, and that its clusters are
\* the second pass's, each once; the other files have to be there.
BuildCases ==
  LET final == Clusters("global") IN
  /\ Source("global") /\ \A pass \in Passes : rows[pass] # <<>>
  /\ UNION final = Clusters("cross")
  /\ \A cluster \in final : Resolved(cluster) \subseteq components
  /\ cases' = {[goal |-> RootOf(UNION UNION UNION cluster), clusters |-> cluster,
                components |-> Resolved(cluster)] : cluster \in final}
  /\ UNCHANGED <<fragments, components, inputs, rows, bound, complete, packets, redone>>

FragmentsOf(case) == UNION case.components
EventsOf(case) == UNION {f.events : f \in FragmentsOf(case)}
ParentsOf(case) == {f.parent : f \in FragmentsOf(case)}

\* The events a case cites, as each of its opportunities has them.
Packet(case) == {<<p, e>> \in ParentsOf(case) \X EventsOf(case) : e \in Window[p]}

\* prepare-incident-causal-inputs.
PrepareCausal == /\ cases # {}
                 /\ packets' = [case \in cases |-> Packet(case)]
                 /\ UNCHANGED <<fragments, components, inputs, rows, bound, complete, cases, redone>>

CasesInit == /\ fragments = {} /\ components = {} /\ cases = {} /\ packets = <<>> /\ redone = 0
             /\ inputs = [pass \in Passes |-> {}] /\ rows = [pass \in Passes |-> <<>>]
             /\ bound = {} /\ complete = {}

CasesNext == \/ GradeFragments \/ PrepareLinks \/ PrepareCross \/ PrepareGlobal
             \/ BuildCases \/ PrepareCausal
             \/ \E pass \in Passes : RunLinkJudge(pass) \/ RemoveResults(pass)

CasesSpec == CasesInit /\ [][CasesNext]_vars

-----------------------------------------------------------------------------
\* Packets carry components of one goal root, and complete passes are answered.
CasesTypeOK ==
  /\ fragments \subseteq Fragments /\ bound \subseteq Passes /\ complete \subseteq Passes
  /\ \A packet \in inputs["link"] : \A c, d \in packet : RootOf(c) = RootOf(d)
  /\ \A packet \in inputs["link"] : packet # {}

\* A component is as small as shared evidence allows and no smaller: it cannot
\* be split without splitting evidence, and no evidence is in two of a goal's.
ComponentsAreConnected ==
  /\ \A c \in components : \A part \in SUBSET c \ {{}, c} :
       \E f \in part, g \in c \ part : f.events \cap g.events # {} /\ GoalOf(f) = GoalOf(g)
  /\ \A c, d \in components : c # d => \A f \in c, g \in d :
       GoalOf(f) = GoalOf(g) => f.events \cap g.events = {}

\* Three passes of clustering lose nothing, if their files follow each other: every
\* component found is in exactly one case, and a case is of one goal.  Only the
\* last pass is checked: from first or second clusters, or components, that were
\* made anew since, a case is built all the same, and components go missing.
Followed == /\ UNION inputs["link"] = components /\ DOMAIN rows["link"] = inputs["link"]
            /\ UNION inputs["cross"] = Clusters("link") /\ DOMAIN rows["cross"] = inputs["cross"]
            /\ UNION inputs["global"] = Clusters("cross")
CoversComponents ==
  cases' # cases /\ Followed => /\ UNION {case.components : case \in cases'} = components
                                /\ \A case \in cases' : \A f \in FragmentsOf(case) : GoalOf(f) = case.goal

\* Whatever was graded anew or removed in between, and from whichever files a case
\* was built, no evidence of a goal is counted in two incidents.
NothingCountedTwice ==
  \A a, b \in cases : a # b /\ a.goal = b.goal => EventsOf(a) \cap EventsOf(b) = {}

\* Every event somebody cited reaches the causal judge as its own opportunity
\* has it, even where another opportunity's window shows it too.
CitedEventsReachTheJudge ==
  \A case \in DOMAIN packets : \A f \in FragmentsOf(case) : \A e \in f.events :
    <<f.parent, e>> \in packets[case]
=============================================================================
