------------------------------- MODULE EGraph -------------------------------
(***************************************************************************)
(* Equality saturation and extraction (src/optimise/egraph.cpp, extract.cpp,*)
(* and merge_annotations of src/rewrite/greedy.cpp).                       *)
(*                                                                         *)
(* The graph has a tier of programs, grown by structural proposals, and    *)
(* under each program node a tier of plans, grown by merging annotations.  *)
(* A round matches every rule against every node that existed when the     *)
(* round began, queues what is new, and inserts the queue in rebuild.  What *)
(* each rule has already answered at each site is kept in a memo that      *)
(* lives on from round to round and from call to call.                     *)
(*                                                                         *)
(* A program is a name; a plan is a function from the decisions made to    *)
(* their values.  match and propose are pure (rule.hpp, points 1 and 2)    *)
(* and always see the empty plan, so a rule is the sequence of proposals   *)
(* it makes on each program.  A rule never proposes nothing at a site it   *)
(* matched (its contract); prices are not modelled, the candidates are.    *)
(***************************************************************************)
EXTENDS Naturals, Sequences, FiniteSets, SequencesExt, FiniteSetsExt, TLC

CONSTANTS Root,       \* the program the graph is seeded with
          Invalid,    \* stands for a program ir::validate refuses
          Proposals,  \* Proposals[rule][program]: a sequence of Structural and Annotation
          E1,         \* the rules of class E1; the others are E0
          Orders,     \* the rule vectors the caller passes
          Limits,     \* the limits it passes: records as in LimitsType
          MaxCalls    \* bound: calls of saturate

Structural(program) == [kind |-> "program", to |-> program]
Annotation(decided) == [kind |-> "annotation", delta |-> decided]

AllRules == 0
NoFreshCrossRule == 1
PipelineOrderedPlans == 2

LimitsType == [iterations : Nat \ {0}, programs : Nat, plans : Nat,
               refire : 0 .. 2, dedup : BOOLEAN]

ASSUME EGraphAssumption == /\ Limits \subseteq LimitsType
                           /\ <<>> \notin Orders
                           /\ MaxCalls \in Nat

ProgramNames == UNION {DOMAIN Proposals[r] : r \in DOMAIN Proposals}

(* Every rule can be matched against every program that is proposed.       *)
ASSUME ProposalsAssumption ==
    /\ Root \in ProgramNames /\ Orders \subseteq Seq(DOMAIN Proposals)
    /\ \A rule \in DOMAIN Proposals : \A program \in ProgramNames :
         LET sites == Proposals[rule][program]
         IN  /\ sites \in Seq({sites[n] : n \in DOMAIN sites})
             /\ \A n \in DOMAIN sites :
                  \/ sites[n].kind = "program" /\ sites[n].to \in ProgramNames \cup {Invalid}
                  \/ sites[n].kind = "annotation"

(* A rule makes proposals of one kind only, as every rule of src/rewrite   *)
(* does; a graph takes rules that mix them too, and calls them mixed.      *)
OneKind ==
    \A rule \in DOMAIN Proposals : \A p1, p2 \in ProgramNames :
      \A x1 \in DOMAIN Proposals[rule][p1], x2 \in DOMAIN Proposals[rule][p2] :
         Proposals[rule][p1][x1].kind = Proposals[rule][p2][x2].kind

VARIABLES programs,  \* sequence of program nodes
          plans,     \* plans[program node]: sequence of plan nodes
          rules,     \* memo_rules_: the rule vector the memo is about
          memo,      \* memo[program node][slot][site]: [kind, done]
          ruleKind,  \* ruleKind[slot]
          pendingPrograms, pendingPlans,
          limits,    \* of the call in progress, or of the last one
          pc,        \* "idle", "node", "site" or "rebuild"
          slot, pid, site,  \* where the round is
          iter,      \* rounds of this call
          bound,     \* bound_hit_this_round
          outcome,   \* how the last call ended: "fixpoint", "bound", "iterations"
          calls

graph  == <<programs, plans>>
queues == <<pendingPrograms, pendingPlans>>
vars == <<graph, rules, memo, ruleKind, queues, limits, pc, slot, pid, site, iter, bound,
          outcome, calls>>

Empty == <<>>  \* the empty annotation

ClassOf(rule) == IF rule \in E1 THEN 1 ELSE 0
Combined(a, b) == IF a >= b THEN a ELSE b

Contents(tier) == {tier[i].content : i \in DOMAIN tier}

(* Classes are the trees of a forest over the nodes, united by rank.  Its  *)
(* trees are at most two deep, so shortening paths in find changes none.   *)
Placed(node, at) == [f \in DOMAIN node \cup {"up", "rank"} |->
                        IF f = "up" THEN at ELSE IF f = "rank" THEN 0 ELSE node[f]]
Alone(tier, node) == Append(tier, Placed(node, Len(tier) + 1))

Find(tier, i) ==
    LET root[n \in DOMAIN tier] == IF tier[n].up = n THEN n ELSE root[tier[n].up] IN root[i]

Unite_NotRoots(tier, a, b) == [tier EXCEPT ![b].up = a]
Unite(tier, a, b) ==
    LET ra == Find(tier, a)
        rb == Find(tier, b)
        over == IF tier[ra].rank < tier[rb].rank THEN rb ELSE ra
        under == IF over = ra THEN rb ELSE ra
        grows == tier[ra].rank = tier[rb].rank
    IN  IF ra = rb THEN tier
        ELSE [tier EXCEPT ![under].up = over, ![over].rank = IF grows THEN @ + 1 ELSE @]

(* Programs by their texts; plans by every field, after a hash of them.    *)
SameContent(a, b) == a = b

SameClass(tier, i, j) == Find(tier, i) = Find(tier, j)

(* hash-consing: a node joins the class of the first node with its content. *)
Insert(tier, node) ==
    LET same == {i \in DOMAIN tier : SameContent(tier[i].content, node.content)}
        all  == Alone(tier, node)
    IN  IF same = {} THEN all ELSE Unite(all, Len(all), Min(same))

(* The queued nodes, in order, into a tier: those of `mine'.               *)
InsertAll(tier, queue, mine) ==
    LET grown[n \in 0 .. Len(queue)] ==
          IF n = 0 THEN tier
          ELSE IF n \in mine THEN Insert(grown[n - 1], queue[n]) ELSE grown[n - 1]
    IN  grown[Len(queue)]

RootProgram == [content |-> Root, history |-> <<>>, exact |-> 0]
RootPlan    == [content |-> Empty, history |-> <<>>, exact |-> 0, top |-> 0]

Sites(rule, program) == Proposals[rule][program]

NewMemo(program, order) ==
    [s \in DOMAIN order |-> [k \in DOMAIN Sites(order[s], program) |-> [kind |-> "unknown", done |-> 0]]]

Init == /\ programs = Insert(<<>>, RootProgram)
        /\ plans = <<Insert(<<>>, RootPlan)>>
        /\ rules = <<>> /\ memo = <<>> /\ ruleKind = <<>>
        /\ pendingPrograms = <<>> /\ pendingPlans = <<>>
        /\ limits \in Limits
        /\ pc = "idle" /\ slot = 1 /\ pid = 1 /\ site = 1 /\ iter = 0
        /\ bound = FALSE /\ outcome = "none" /\ calls = 0

FirstOfClass(tier) == {i \in DOMAIN tier : \A j \in 1 .. (i - 1) : ~SameClass(tier, j, i)}
Representatives == FirstOfClass(programs)

(* sync_memo: the memo and the slots in the plans are about one rule vector. *)
Sync(order) ==
    IF rules = order THEN UNCHANGED <<rules, plans, ruleKind>>
    ELSE /\ rules' = order
         /\ ruleKind' = [s \in DOMAIN order |-> "unknown"]
         /\ plans' = [i \in DOMAIN plans |-> [j \in DOMAIN plans[i] |-> [plans[i][j] EXCEPT !.top = 0]]]

(* The memo a round starts with: a row for every node, or nothing known.   *)
MemoFor(nodes, order, keep) ==
    [i \in DOMAIN nodes |-> IF keep /\ i \in DOMAIN memo THEN memo[i] ELSE NewMemo(nodes[i].content, order)]

(* Assumed of the caller: one re-firing policy for the life of a graph.    *)
KeepsPolicy(lim) == calls > 0 => lim.refire = limits.refire

Saturate(order, lim) ==
    /\ pc = "idle" /\ calls < MaxCalls /\ KeepsPolicy(lim)
    /\ Sync(order)
    /\ memo' = MemoFor(programs, order, rules = order /\ lim.dedup)
    /\ limits' = lim
    /\ pc' = "node" /\ slot' = 1 /\ pid' = 1 /\ site' = 1 /\ iter' = 1
    /\ bound' = FALSE /\ outcome' = "none" /\ calls' = calls + 1
    /\ UNCHANGED <<programs, queues>>

Produced(i) == IF i = 1 THEN "" ELSE Last(programs[i].history)

(* The re-firing policy: a known structural rule stays off other rules' output. *)
Blocked_OwnToo(s, i) == limits.refire # AllRules /\ i # 1 /\ ruleKind[s] = "program"
Blocked(s, i) == /\ limits.refire # AllRules
                 /\ i # 1
                 /\ ruleKind[s] = "program"
                 /\ Produced(i) # rules[s]

Matched(i) == ~limits.dedup \/ i \in Representatives

At_FirstSite == LET all == Sites(rules[slot], programs[pid].content)
                IN  [k \in {1} \cap DOMAIN all |-> all[k]]
At == Sites(rules[slot], programs[pid].content)

NextRule == /\ slot' = slot + 1 /\ pid' = 1
            /\ pc' = IF slot = Len(rules) THEN "rebuild" ELSE "node"

Pass == /\ pc = "node" /\ pid \in DOMAIN programs
        /\ ~Matched(pid) \/ Blocked(slot, pid)
        /\ pid' = pid + 1
        /\ UNCHANGED <<graph, rules, memo, ruleKind, queues, limits, pc, slot, site, iter, bound, outcome, calls>>

Match == /\ pc = "node" /\ pid \in DOMAIN programs
         /\ Matched(pid) /\ ~Blocked(slot, pid)
         /\ pc' = "site" /\ site' = 1
         /\ UNCHANGED <<graph, rules, memo, ruleKind, queues, limits, slot, pid, iter, bound, outcome, calls>>

EndRule == /\ pc = "node" /\ pid \notin DOMAIN programs
           /\ NextRule
           /\ UNCHANGED <<graph, rules, memo, ruleKind, queues, limits, site, iter, bound, outcome, calls>>

EndSites == /\ pc = "site" /\ site \notin DOMAIN At
            /\ pc' = "node" /\ pid' = pid + 1
            /\ UNCHANGED <<graph, rules, memo, ruleKind, queues, limits, slot, site, iter, bound, outcome, calls>>

(* A site whose answer is known: nothing to do again.                      *)
Recalled(answered) == \/ answered.kind = "program"
                      \/ answered.kind = "annotation" /\ answered.done >= Len(plans[pid])

Recall == /\ pc = "site" /\ site \in DOMAIN At
          /\ Recalled(memo[pid][slot][site])
          /\ site' = site + 1
          /\ UNCHANGED <<graph, rules, memo, ruleKind, queues, limits, pc, slot, pid, iter, bound, outcome, calls>>

NoteKind(kind) == ruleKind' = [ruleKind EXCEPT ![slot] = IF @ \in {"unknown", kind} THEN kind ELSE "mixed"]

Proposes(kind) == /\ pc = "site" /\ site \in DOMAIN At
                  /\ ~Recalled(memo[pid][slot][site])
                  /\ At[site].kind = kind
                  /\ UNCHANGED <<graph, rules, limits, iter, outcome, calls>>

(* A bound stops the rule: the other nodes wait for a later call.          *)
Cut == bound' = TRUE /\ NextRule /\ UNCHANGED site

RoomForPrograms == Len(programs) + Len(pendingPrograms) < limits.programs

ProgramKnown_Unchanged(program) == program = programs[pid].content
ProgramKnown(program) == program \in Contents(programs)

CutPrograms_Remembered ==
    /\ Proposes("program") /\ ~RoomForPrograms
    /\ memo' = [memo EXCEPT ![pid][slot][site].kind = "program"]
    /\ Cut
    /\ UNCHANGED <<ruleKind, queues>>
CutPrograms == /\ Proposes("program") /\ ~RoomForPrograms
               /\ Cut
               /\ UNCHANGED <<memo, ruleKind, queues>>

OfferProgram ==
    /\ Proposes("program") /\ RoomForPrograms
    /\ memo' = [memo EXCEPT ![pid][slot][site].kind = "program"]
    /\ NoteKind("program")
    /\ LET program == At[site].to
       IN  pendingPrograms' = IF program = Invalid \/ ProgramKnown(program) THEN pendingPrograms
                              ELSE Append(pendingPrograms, [content |-> program, parent |-> pid,
                                                            rule |-> rules[slot]])
    /\ site' = site + 1
    /\ UNCHANGED <<pendingPlans, pc, slot, pid, bound>>

PlanKnown(i, plan) == plan \in Contents(plans[i])

Merged(plan, delta) == delta @@ plan

PlanTotal == FoldLeft(LAMBDA n, tier : n + Len(tier), 0, plans)

(* The plan nodes this site has still to be merged onto; a rule may be     *)
(* refused a plan one of whose rules stands at its own slot or later.      *)
MayExtend(s, plan) == limits.refire = PipelineOrderedPlans => plan.top < s

Fresh(delta) == {j \in DOMAIN plans[pid] :
                   /\ j > memo[pid][slot][site].done
                   /\ MayExtend(slot, plans[pid][j])
                   /\ ~PlanKnown(pid, Merged(plans[pid][j].content, delta))}

Queued(delta, parents) ==
    [n \in 1 .. Cardinality(parents) |->
        LET j == CHOOSE j \in parents : Cardinality({m \in parents : m <= j}) = n
        IN  [program |-> pid, parent |-> j, content |-> Merged(plans[pid][j].content, delta),
             rule |-> rules[slot], slot |-> slot]]

RoomForPlans == IF limits.plans > PlanTotal + Len(pendingPlans)
                THEN limits.plans - (PlanTotal + Len(pendingPlans)) ELSE 0

(* The nodes merged onto before the bound, when it stops the merging.      *)
Affordable(parents) == {j \in parents : Cardinality({m \in parents : m <= j}) <= RoomForPlans}

OfferPlans_NeverCut ==
    /\ Proposes("annotation")
    /\ LET delta   == At[site].delta
           parents == Fresh(delta)
       IN  /\ pendingPlans' = pendingPlans \o Queued(delta, Affordable(parents))
           /\ memo' = [memo EXCEPT ![pid][slot][site] = [kind |-> "annotation", done |-> Len(plans[pid])]]
           /\ IF Affordable(parents) = parents THEN site' = site + 1 /\ UNCHANGED <<pc, slot, pid, bound>>
              ELSE Cut
    /\ NoteKind("annotation")
    /\ UNCHANGED pendingPrograms
OfferPlans ==
    /\ Proposes("annotation")
    /\ LET delta   == At[site].delta
           parents == Fresh(delta)
           taken   == Affordable(parents)
           done    == IF taken = parents THEN Len(plans[pid]) ELSE Min(parents \ taken) - 1
       IN  /\ pendingPlans' = pendingPlans \o Queued(delta, taken)
           /\ memo' = [memo EXCEPT ![pid][slot][site] = [kind |-> "annotation", done |-> done]]
           /\ IF taken = parents THEN site' = site + 1 /\ UNCHANGED <<pc, slot, pid, bound>>
              ELSE Cut
    /\ NoteKind("annotation")
    /\ UNCHANGED pendingPrograms

NewProgram_OwnClassOnly(p) == [content |-> p.content, history |-> programs[p.parent].history \o <<p.rule>>,
                               exact |-> ClassOf(p.rule)]
NewProgram(p) == [content |-> p.content, history |-> programs[p.parent].history \o <<p.rule>>,
                  exact |-> Combined(programs[p.parent].exact, ClassOf(p.rule))]

NewPlan(p) == LET from == plans[p.program][p.parent]
              IN  [content |-> p.content, history |-> from.history \o <<p.rule>>,
                   exact |-> Combined(from.exact, ClassOf(p.rule)),
                   top |-> Combined(p.slot, from.top)]

NewPrograms == [n \in DOMAIN pendingPrograms |-> NewProgram(pendingPrograms[n])]
NewPlans == [n \in DOMAIN pendingPlans |-> NewPlan(pendingPlans[n])]
NewPlansOf(i) == {n \in DOMAIN pendingPlans : pendingPlans[n].program = i}

(* rebuild, then the end of the round: a bound or an idle round ends the call. *)
Rebuild ==
    /\ pc = "rebuild"
    /\ LET nodes == InsertAll(programs, NewPrograms, DOMAIN NewPrograms)
           tiers == plans \o [i \in DOMAIN pendingPrograms |-> Insert(<<>>, RootPlan)]
           ends  == IF bound THEN "bound"
                    ELSE IF queues = <<<<>>, <<>>>> THEN "fixpoint"
                    ELSE IF iter = limits.iterations THEN "iterations" ELSE "none"
       IN  /\ programs' = nodes
           /\ plans' = [i \in DOMAIN tiers |-> InsertAll(tiers[i], NewPlans, NewPlansOf(i))]
           /\ memo' = MemoFor(nodes, rules, limits.dedup \/ ends # "none")
           /\ outcome' = ends
           /\ IF ends = "none" THEN pc' = "node" /\ iter' = iter + 1 ELSE pc' = "idle" /\ UNCHANGED iter
    /\ pendingPrograms' = <<>> /\ pendingPlans' = <<>>
    /\ slot' = 1 /\ pid' = 1 /\ site' = 1 /\ bound' = FALSE
    /\ UNCHANGED <<rules, ruleKind, limits, calls>>

Next == \/ \E order \in Orders, lim \in Limits : Saturate(order, lim)
        \/ Pass \/ Match \/ EndRule \/ EndSites
        \/ Recall \/ CutPrograms \/ OfferProgram \/ OfferPlans \/ Rebuild

Spec == Init /\ [][Next]_vars

(* extract: what it prices for a request of class E0 or E1, best first.    *)
PlanRepresentatives(i) == FirstOfClass(plans[i])
Candidates(max) ==
    UNION {{<<i, j>> : j \in {j \in PlanRepresentatives(i) :
                                Combined(programs[i].exact, plans[i][j].exact) <= max}}
             : i \in {i \in Representatives : programs[i].exact <= max}}
-----------------------------------------------------------------------------
NodeType(contents) == [content : contents, history : Seq(DOMAIN Proposals), exact : 0 .. 1, up : Nat \ {0}, rank : Nat]

(* Shapes: a tier of plans and a row of memo for every program node.       *)
TypeOK == /\ pc \in {"idle", "node", "site", "rebuild"}
          /\ DOMAIN plans = DOMAIN programs
          /\ \A n \in Range(programs) : n \in NodeType(ProgramNames)
          /\ pc # "idle" => /\ DOMAIN memo = DOMAIN programs
                            /\ \A i \in DOMAIN memo : DOMAIN memo[i] = DOMAIN rules

(* Every answer a rule may still give at a node is already in the graph:   *)
(* its programs, and its annotation merged onto each plan it may extend.   *)
MayRewrite(s, i) == \/ limits.refire = AllRules \/ i = 1 \/ Produced(i) = rules[s]

Exhausted(i) ==
    \A s \in DOMAIN rules : \A proposal \in Range(Sites(rules[s], programs[i].content)) :
       IF proposal.kind = "program"
       THEN MayRewrite(s, i) => proposal.to \in Contents(programs) \cup {Invalid}
       ELSE LET r == Min({j \in DOMAIN programs : SameClass(programs, j, i)})
            IN  \A plan \in Range(plans[r]) :
                   MayExtend(s, plan) => PlanKnown(r, Merged(plan.content, proposal.delta))

(* A call that stopped because a round queued nothing has left nothing out, *)
(* whatever bounds, limits and rule orders the calls before it had: the    *)
(* memo forgets no site, no parent and no node (egraph.hpp, (A)).          *)
SaturatedIsClosed == outcome = "fixpoint" => \A i \in Representatives : Exhausted(i)

(* congruent(): two nodes of a tier are in one class exactly when they have *)
(* the same content, in whatever order duplicates of a round arrive.       *)
CongruentTier(tier) ==
    \A i, j \in DOMAIN tier : SameClass(tier, i, j) <=> SameContent(tier[i].content, tier[j].content)
Congruent == CongruentTier(programs) /\ \A i \in DOMAIN plans : CongruentTier(plans[i])

(* Under the complete policy the same holds at every node, duplicates too, *)
(* whichever calls de-duplicate and whichever do not: the flag "can only   *)
(* change how much work saturation does, never which content it reaches"   *)
(* (egraph.hpp:192); and what counts as a duplicate is one.                *)
DedupIsLossless ==
    /\ pc = "idle" => Congruent
    /\ outcome = "fixpoint" /\ limits.refire = AllRules => \A i \in DOMAIN programs : Exhausted(i)

(* A round that queued anything adds a content, to the programs or to the  *)
(* plans of a node it found: an endless run of rounds would need endless   *)
(* contents ("does not grow the graph forever").                           *)
RoundsAddContent ==
    [][pc = "rebuild" /\ queues # <<<<>>, <<>>>> =>
         \/ Contents(programs) # Contents(programs')
         \/ \E i \in DOMAIN plans : Contents(plans[i]) # Contents(plans'[i])]_vars

(* E0 extraction selects no candidate an E1 rule contributed to (extract.hpp:10). *)
ExtractionKeepsClass == \A c \in Candidates(0) :
    Range(programs[c[1]].history \o plans[c[1]][c[2]].history) \cap E1 = {}
=============================================================================
