------------------------------- MODULE Planner -------------------------------
(***************************************************************************)
(* The planner rules (rewrite/planner.cpp, planner_rules.cpp) and R6: how  *)
(* the runtimes are to keep the values of a program.  A plan says, per     *)
(* domain, whether its rows are materialised, evaluated inside the         *)
(* reductions that read them (but for the rows kept) or in the tiles of    *)
(* the one domain that reads them; which rows are emitted to the outputs   *)
(* from a reduction; and which steps are evaluated in one call.            *)
(***************************************************************************)
EXTENDS DomainIR

CONSTANTS
  EmitMinRows,   \* emit_min_bytes, in doubles
  MaxTail        \* steps a call takes on after a pair

ASSUME PlannerAssumption == EmitMinRows \in Nat /\ MaxTail \in Nat

Materialized == [choice |-> "Materialize", keep |-> {}, consumer |-> 0]
FusedKeeping(keep) == [choice |-> "FuseIntoReduction", keep |-> keep, consumer |-> 0]
InlinedInto(c) == [choice |-> "InlineIntoConsumer", keep |-> {}, consumer |-> c]

Doms(p) == [d \in DOMAIN p.domains |-> d]
Undecided(p) == [domain |-> Build(Len(p.domains), LAMBDA done, d : Materialized),
                 group |-> Build(Len(p.domains), LAMBDA done, d : <<>>), emitted |-> {}]

IsFused(plan, d) == plan.domain[d].choice = "FuseIntoReduction"
IsInlined(plan, d) == plan.domain[d].choice = "InlineIntoConsumer"

(* merge_annotations: what a rule leaves at the default stays as it was.   *)
MergeAnnotations(dst, src) ==
  [domain |-> Build(Len(dst.domain), LAMBDA done, d :
                IF src.domain[d] = Materialized THEN dst.domain[d] ELSE src.domain[d]),
   group |-> Build(Len(dst.group), LAMBDA done, d : IF src.group[d] = <<>> THEN dst.group[d] ELSE src.group[d]),
   emitted |-> dst.emitted \cup src.emitted]

------------------------------------------------------------------------------
(* What reads a value.                                                     *)
IsWholeSegment(dom) == Len(dom.steps) = 1 /\ dom.steps[1].op \in Variadic /\ ~IsFixedSum(dom.steps[1])
RowFusionPays(lanes) == lanes = 1 \/ lanes >= 16

MemberLists(dom) ==   \* of every row of every segment
  FlattenSeq([k \in DOMAIN dom.segments |-> dom.segments[k].members])
MembersRead(dom) == UNION {Range(MemberLists(dom)[k]) : k \in DOMAIN MemberLists(dom)}
GathersRead(dom) == UNION {Range(dom.gathers[k]) : k \in DOMAIN dom.gathers}

Whole(p) == {d \in DOMAIN p.domains : IsWholeSegment(p.domains[d])}

(* analyze_fusion: the values read other than as a member of a reduction.  *)
Marked(p) ==
  UNION {GathersRead(p.domains[d]) : d \in DOMAIN p.domains}
    \cup UNION {MembersRead(p.domains[d]) : d \in (DOMAIN p.domains) \ Whole(p)}
WholeMembers(p) == UNION {MembersRead(p.domains[d]) : d \in Whole(p)}

CountIn(lists, S) ==
  FoldLeft(LAMBDA n, xs : n + Len(SelectSeq(xs, LAMBDA v : v \in S)), 0, lists)
RowsOf(p, d) == (Base(p, d) + 1)..Base(p, d + 1)
MemberRefs(p, d) ==
  CountIn(FlattenSeq([e \in DOMAIN p.domains |-> IF e \in Whole(p) THEN MemberLists(p.domains[e]) ELSE <<>>]),
          RowsOf(p, d))

------------------------------------------------------------------------------
(* planner.reduction_fusion and planner.emit_outputs.                      *)
EmitPays(p, d, lanes) == p.domains[d].rows * lanes >= EmitMinRows

(* Mutant: a row only a gather reads is not kept.                          *)
Kept_OutputsOnly(p, d, lanes) ==
  {v \in RowsOf(p, d) : v \in Range(p.outputs) /\ ~(EmitPays(p, d, lanes) /\ v \in WholeMembers(p))}

Kept(p, d, lanes) ==
  {v \in RowsOf(p, d) :
     \/ v \in Marked(p)
     \/ v \in Range(p.outputs) /\ ~(EmitPays(p, d, lanes) /\ v \in WholeMembers(p))}

Fuses(p, d, lanes) ==
  LET dom == p.domains[d]
  IN /\ ~Recurrent(p, d) /\ ~IsWholeSegment(dom)
     /\ MemberRefs(p, d) \in 1..(2 * dom.rows)
     /\ 2 * Cardinality(Kept(p, d, lanes)) <= dom.rows

ReductionFusion(p, lanes) ==
  [Undecided(p) EXCEPT !.domain = Build(Len(p.domains), LAMBDA done, d :
     IF Fuses(p, d, lanes) THEN FusedKeeping(Kept(p, d, lanes)) ELSE Materialized)]

EmitOutputs(p, plan, lanes) ==
  [Undecided(p) EXCEPT !.emitted =
     {v \in (Range(p.outputs) \cap WholeMembers(p)) \ Marked(p) :
        IsFused(plan, DomainOf(p, v)) /\ EmitPays(p, DomainOf(p, v), lanes)}]

------------------------------------------------------------------------------
(* planner.inline_producers.  A gather is a pair: a domain and the number  *)
(* of the gather in it; a gather no step reads has no user.                *)
Gathers(p) == UNION {{d} \X (DOMAIN p.domains[d].gathers) : d \in DOMAIN p.domains}
IndexOf(p, g) == p.domains[g[1]].gathers[g[2]]
UserOf(p, g) ==
  IF \E k \in DOMAIN p.domains[g[1]].steps :
       Gather(g[2]) \in Range(p.domains[g[1]].steps[k].args) \cup {p.domains[g[1]].steps[k].konst}
  THEN g[1] ELSE 0

Blocked(p, d) ==
  (Range(p.outputs) \cup UNION {MembersRead(p.domains[e]) : e \in DOMAIN p.domains}) \cap RowsOf(p, d) # {}
Readers(p, d) == {g \in Gathers(p) : Range(IndexOf(p, g)) \cap RowsOf(p, d) # {}}
Refs(p, d) == CountIn(FlattenSeq([e \in DOMAIN p.domains |-> p.domains[e].gathers]), RowsOf(p, d))

(* The domain all readers of d belong to, if there is one.                 *)
SoleConsumers(p, d) ==
  LET users == {UserOf(p, g) : g \in Readers(p, d)} IN IF Cardinality(users) = 1 THEN users \ {0, d} ELSE {}

(* The members of a reduction that is evaluated row by row are in the      *)
(* value buffer, and its rows are alike.                                   *)
ReducesInTiles(p, plan, into, d) ==
  LET lists == MemberLists(p.domains[d])
  IN /\ \A r \in DOMAIN lists : Len(lists[r]) = Len(lists[1])
     /\ \A v \in MembersRead(p.domains[d]) : ~IsFused(plan, DomainOf(p, v)) /\ into[DomainOf(p, v)] = 0

Inlines(p, plan, into, d, c) ==
  /\ ~Recurrent(p, d) /\ ~Blocked(p, d) /\ ~IsFused(plan, d)
  /\ \A e \in DOMAIN into : into[e] # d       \* d does not inline others itself
  /\ IsWholeSegment(p.domains[d]) => ReducesInTiles(p, plan, into, d)
  /\ ~IsWholeSegment(p.domains[c]) /\ ~IsFused(plan, c) /\ ~Recurrent(p, c) /\ into[c] = 0
  /\ 4 * Refs(p, d) <= 5 * p.domains[d].rows
  /\ \A g \in Readers(p, d) : \A v \in Range(IndexOf(p, g)) : DomainOf(p, v) # d => into[DomainOf(p, v)] = 0

InlineProducers(p, plan, lanes) ==
  LET into == FoldLeft(LAMBDA in, d :
                LET cs == {c \in SoleConsumers(p, d) : Inlines(p, plan, in, d, c)}
                IN IF cs = {} THEN in ELSE [in EXCEPT ![d] = CHOOSE c \in cs : TRUE],
                Build(Len(p.domains), LAMBDA done, d : 0), Doms(p))
  IN [Undecided(p) EXCEPT !.domain = Build(Len(p.domains), LAMBDA done, d :
        IF RowFusionPays(lanes) /\ into[d] # 0 THEN InlinedInto(into[d]) ELSE Materialized)]

------------------------------------------------------------------------------
(* planner.fused_pairs and planner.chain_tails.                            *)
Uses(dom, k) ==
  FoldLeft(LAMBDA n, st : n + Len(SelectSeq(st.args, LAMBDA a : a = StepAt(k))), 0, dom.steps)

Arithmetic == {"Add", "Sub", "Mul", "Div"}
Scalar(slot) == slot[1] \in {"literal", "column"}
Gathered(slot) == slot[1] = "gather"

FirstOfPair(st) ==
  \/ st.op = "Neg" /\ Gathered(st.args[1])
  \/ /\ st.op \in Arithmetic
     /\ \A q \in 1..2 : Scalar(st.args[q]) \/ Gathered(st.args[q])
     /\ \E q \in 1..2 : Gathered(st.args[q])

SecondOfPair(st, k) ==
  \/ st.op = "Neg" /\ st.args[1] = StepAt(k)
  \/ /\ st.op \in Arithmetic
     /\ \E q \in 1..2 : st.args[q] = StepAt(k) /\ (Scalar(st.args[3 - q]) \/ Gathered(st.args[3 - q]))

MatchPair(dom, k) ==
  /\ k < Len(dom.steps) /\ Uses(dom, k) = 1
  /\ FirstOfPair(dom.steps[k]) /\ SecondOfPair(dom.steps[k + 1], k)

(* A pairing is the steps first..last of one call.                         *)
FusedPairs(p) ==
  LET Pairings(dom) ==
        FoldLeft(LAMBDA ps, k :
          IF (ps # <<>> /\ k <= Last(ps).last) \/ IsFixedSum(dom.steps[k]) \/ ~MatchPair(dom, k) THEN ps
          ELSE Append(ps, [first |-> k, last |-> k + 1]),
          <<>>, [k \in DOMAIN dom.steps |-> k])
  IN [Undecided(p) EXCEPT !.group = Build(Len(p.domains), LAMBDA done, d :
        IF IsWholeSegment(p.domains[d]) THEN <<>> ELSE Pairings(p.domains[d]))]

Tails(dom, last, n) ==
  /\ n < MaxTail /\ last < Len(dom.steps) /\ Uses(dom, last) = 1
  /\ dom.steps[last + 1].op \in {"Exp", "Log"} /\ dom.steps[last + 1].args[1] = StepAt(last)

ChainTails(p, plan, lanes) ==
  LET Longer(dom, pair) ==
        [pair EXCEPT !.last = FoldLeft(LAMBDA last, n :
           IF last = pair.last + n - 1 /\ Tails(dom, last, n - 1) THEN last + 1 ELSE last,
           @, [n \in 1..MaxTail |-> n])]
  IN IF ~RowFusionPays(lanes) THEN Undecided(p)
     ELSE [Undecided(p) EXCEPT !.group = Build(Len(p.domains), LAMBDA done, d :
             Build(Len(plan.group[d]), LAMBDA ps, k : Longer(p.domains[d], plan.group[d][k])))]

------------------------------------------------------------------------------
(* default_plan: the rules that are on, one after the other.               *)
PlannerRules == <<"reduction_fusion", "fused_pairs", "chain_tails", "inline_producers", "emit_outputs">>

Annotation(rule, p, plan, lanes) ==
  CASE rule = "reduction_fusion" -> ReductionFusion(p, lanes)
    [] rule = "fused_pairs" -> FusedPairs(p)
    [] rule = "chain_tails" -> ChainTails(p, plan, lanes)
    [] rule = "inline_producers" -> InlineProducers(p, plan, lanes)
    [] rule = "emit_outputs" -> EmitOutputs(p, plan, lanes)

DefaultPlan(p, lanes, on) ==
  FoldLeft(LAMBDA plan, rule : IF rule \in on THEN MergeAnnotations(plan, Annotation(rule, p, plan, lanes)) ELSE plan,
           Undecided(p), PlannerRules)

(* R6: the producers it would inline, whatever the lanes; the ends of a    *)
(* chain of them, and what is decided already, are left.                   *)
BoundaryConsumers(p, d) ==
  {c \in SoleConsumers(p, d) :
     /\ ~Recurrent(p, d) /\ ~IsInputDomain(p.domains[d]) /\ ~IsWholeSegment(p.domains[d]) /\ ~Blocked(p, d)
     /\ Refs(p, d) <= p.domains[d].rows
     /\ ~IsWholeSegment(p.domains[c]) /\ ~Recurrent(p, c)}

MaterialiseBoundaries(p, plan) ==
  [Undecided(p) EXCEPT !.domain = Build(Len(p.domains), LAMBDA done, d :
     IF plan.domain[d] = Materialized /\ \E c \in BoundaryConsumers(p, d) : BoundaryConsumers(p, c) = {}
     THEN InlinedInto(CHOOSE c \in BoundaryConsumers(p, d) : TRUE) ELSE Materialized)]
=============================================================================
