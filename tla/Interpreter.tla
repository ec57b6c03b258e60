----------------------------- MODULE Interpreter -----------------------------
(***************************************************************************)
(* The tiled interpreter (exec/interpreter.cpp): the plan it builds of a   *)
(* program when it is constructed - the operands of every step resolved to *)
(* the buffers and tables they are read from, the calls of a group, the    *)
(* producers a group inlines, the blocks of a reduction, the waves of a    *)
(* scan - and what running one domain does to memory and outputs.          *)
(***************************************************************************)
EXTENDS Planner, Kernels

------------------------------------------------------------------------------
(* The buffers after the cells of the values: one for each step of the     *)
(* longest group, three temporaries, the accumulators, the member buffer   *)
(* and the temporaries of inlined producers.  Every group uses the same.   *)
MaxSteps(p) == Max({Len(p.domains[d].steps) : d \in DOMAIN p.domains})
Buffer(p, b) == NumValues(p) + (b - 1) * Tile
StepBuffer(p, k) == Buffer(p, k)
TmpBuffer(p, q) == Buffer(p, MaxSteps(p) + q)
AccBuffer(p) == Buffer(p, MaxSteps(p) + 4)
MemberBuffer(p) == Buffer(p, MaxSteps(p) + 5)
InlineTemp(p, t) == Buffer(p, MaxSteps(p) + 5 + t)

(* decide_inline: what domain c inlines, a temporary for each gather.      *)
InlineRefs(p, plan, c) ==
  FlattenSeq([d \in DOMAIN p.domains |->
    IF IsInlined(plan, d) /\ plan.domain[d].consumer = c
    THEN LET ks == SelectSeq(UpTo(Len(p.domains[c].gathers)), LAMBDA k : <<c, k>> \in Readers(p, d))
         IN [j \in DOMAIN ks |-> [gather |-> ks[j], producer |-> d]]
    ELSE <<>>])

Temporaries(p, plan) == Max({Len(InlineRefs(p, plan, c)) : c \in DOMAIN p.domains})
CellCount(p, plan) == Buffer(p, MaxSteps(p) + 6 + Temporaries(p, plan))

------------------------------------------------------------------------------
(* resolve.                                                                *)
Resolve(p, d, slot) ==
  CASE slot[1] = "step" -> Operand("Vec", StepBuffer(p, slot[2]))
    [] slot[1] = "literal" -> Operand("Lit", slot[2])
    [] slot[1] = "column" -> Operand("Col", p.domains[d].columns[slot[2]])
    [] slot[1] = "gather" -> Operand("Gat", p.domains[d].gathers[slot[2]])

(* inline_operand: a gather of inlined rows reads the first temporary      *)
(* there is for it, at the tile row.                                       *)
ResolveInlining(p, d, refs, slot) ==
  LET ts == {t \in DOMAIN refs : Gather(refs[t].gather) = slot}
  IN IF ts = {} THEN Resolve(p, d, slot)
     ELSE Operand("Gat", Build(p.domains[d].rows, LAMBDA cells, r : InlineTemp(p, Min(ts)) + ((r - 1) % Tile) + 1))

(* build_step.  What step k writes is read by the later ones from its      *)
(* buffer; the last writes the destination.                                *)
Written(p, d, k) == IF k = Len(p.domains[d].steps) THEN NoBuffer ELSE StepBuffer(p, k)

BuildStep(p, d, refs, k) ==
  LET st == p.domains[d].steps[k]
      R(slot) == ResolveInlining(p, d, refs, slot)
      operands == IF st.op \in {"Const", "Input"} \cup Variadic THEN <<>> ELSE [q \in DOMAIN st.args |-> R(st.args[q])]
      call == [Call(st.op, operands, Written(p, d, k)) EXCEPT !.epilogue = st.op \in Epilogues]
      Temporary(q) == Operand("Vec", TmpBuffer(p, q))
      toLoad == SelectSeq(UpTo(Len(operands)), LAMBDA q : operands[q].kind # "Vec")
  IN CASE st.op = "Const" -> [call EXCEPT !.konst = R(st.konst)]
       [] st.op = "Input" -> [call EXCEPT !.ordinals = Build(p.domains[d].rows, LAMBDA os, r : Ordinal(p, ValueOf(p, d, r)))]
       [] st.op \in TernaryKernels ->
            [call EXCEPT !.loads = [j \in DOMAIN toLoad |-> [source |-> operands[toLoad[j]], to |-> TmpBuffer(p, toLoad[j])]],
                         !.operands = [q \in DOMAIN operands |-> IF operands[q].kind = "Vec" THEN operands[q] ELSE Temporary(q)]]
       [] OTHER -> call

(* build_pair_step and apply_tail: a pair, whose first value nothing else  *)
(* reads, and the steps first + 2..last.  Operands of an op that commutes  *)
(* are put in the order there is a kernel for.                             *)
ScalarFirst(op, operands) ==
  IF op \in {"Add", "Mul"} /\ PairKind(operands[2]) = "S" THEN <<operands[2], operands[1]>> ELSE operands

BuildPair(p, d, refs, pairing) ==
  LET steps == p.domains[d].steps
      R(slot) == ResolveInlining(p, d, refs, slot)
      k == pairing.first
      second == steps[k + 1]
      right == second.op # "Neg" /\ second.args[1] # StepAt(k)
      tail == [j \in 1..(pairing.last - k - 1) |-> steps[k + 1 + j].op]
  IN [Call(steps[k].op, ScalarFirst(steps[k].op, [q \in DOMAIN steps[k].args |-> R(steps[k].args[q])]), Written(p, d, pairing.last))
        EXCEPT !.then = [op |-> second.op, prevRight |-> right /\ second.op \in {"Sub", "Div"},
                         operand |-> IF second.op = "Neg" THEN @.operand ELSE R(second.args[IF right THEN 1 ELSE 2])],
               !.tail = tail, !.epilogue = tail = <<>>]

(* The Sum of a scan's step over two or three operands: Adds from the left.*)
BuildFixedSum(p, d, refs, k) ==
  LET args == p.domains[d].steps[k].args
      R(slot) == ResolveInlining(p, d, refs, slot)
  IN IF Len(args) = 2 THEN <<Call("Add", <<R(args[1]), R(args[2])>>, Written(p, d, k))>>
     ELSE <<Call("Add", <<R(args[1]), R(args[2])>>, TmpBuffer(p, 1)),
            Call("Add", <<Operand("Vec", TmpBuffer(p, 1)), R(args[3])>>, Written(p, d, k))>>

BuildCalls(p, d, pairings, refs) ==
  FoldLeft(LAMBDA b, k :
    IF k < b.next THEN b
    ELSE LET here == {j \in DOMAIN pairings : pairings[j].first = k}
             pairing == pairings[CHOOSE j \in here : TRUE]
         IN IF IsFixedSum(p.domains[d].steps[k]) THEN [calls |-> b.calls \o BuildFixedSum(p, d, refs, k), next |-> k + 1]
            ELSE IF here # {} /\ MatchPair(p.domains[d], k) /\ PairKernels(BuildPair(p, d, refs, pairing))
            THEN [calls |-> Append(b.calls, BuildPair(p, d, refs, pairing)), next |-> pairing.last + 1]
            ELSE [calls |-> Append(b.calls, BuildStep(p, d, refs, k)), next |-> k + 1],
    [calls |-> <<>>, next |-> 1], UpTo(Len(p.domains[d].steps))).calls

(* A group has one segment plan, which every Sum and Affine step of it is  *)
(* built into: the tables are the last one's, the constant the last        *)
(* Affine's.                                                               *)
SegmentSteps(dom, ops) ==
  {k \in DOMAIN dom.steps : dom.steps[k].op \in ops /\ ~IsFixedSum(dom.steps[k])}
NoSegment == [members |-> <<>>, coefs |-> <<>>, konst |-> Operand("Lit", 0)]

BuildSegment(p, d) ==
  LET dom == p.domains[d]
      table == dom.segments[dom.steps[Max(SegmentSteps(dom, Variadic))].args[1][2]]
      affine == SegmentSteps(dom, {"Affine"})
  IN IF SegmentSteps(dom, Variadic) = {} THEN NoSegment
     ELSE [members |-> table.members, coefs |-> table.coefs,
           konst |-> IF affine = {} THEN Operand("Lit", 0) ELSE Resolve(p, d, dom.steps[Max(affine)].konst)]

(* The inlined producers of a group.  For a value of another domain the    *)
(* producer's first row is evaluated, and the value copied over it.        *)
BuildInlined(p, d, refs) ==
  [t \in DOMAIN refs |->
     LET values == p.domains[d].gathers[refs[t].gather]
         Own(v) == v \in RowsOf(p, refs[t].producer)
     IN [producer |-> refs[t].producer, temp |-> InlineTemp(p, t), values |-> values,
         rows |-> [r \in DOMAIN values |-> IF Own(values[r]) THEN RowOf(p, values[r]) ELSE 1],
         foreign |-> {r \in DOMAIN values : ~Own(values[r])}]]

------------------------------------------------------------------------------
(* The waves of a scan: a row is one wave after all rows of its own domain *)
(* that its gathers read.                                                  *)
Wave_Carry(p, d) ==
  Build(p.domains[d].rows, LAMBDA wave, r :
    LET v == p.domains[d].gathers[p.domains[d].carry][r]
    IN IF v <= Base(p, d) THEN 1 ELSE wave[RowOf(p, v)] + 1)

Wave(p, d) ==
  Build(p.domains[d].rows, LAMBDA wave, r :
    Max({1} \cup {wave[RowOf(p, v)] + 1 : v \in {p.domains[d].gathers[k][r] : k \in DOMAIN p.domains[d].gathers}
                                                \cap ((Base(p, d) + 1)..(Base(p, d) + r - 1))}))

------------------------------------------------------------------------------
(***************************************************************************)
(* A whole-domain reduction (build_segment).  Rows of one     *)
(* length whose members come from the same fused domains, position by      *)
(* position, are cut into blocks.                                          *)
(***************************************************************************)
Lists(p, d) == p.domains[d].segments[p.domains[d].steps[1].args[1][2]].members

Pattern(p, plan, d, r) ==
  Build(Len(Lists(p, d)[r]), LAMBDA done, m :
    LET e == DomainOf(p, Lists(p, d)[r][m]) IN IF IsFused(plan, e) THEN e ELSE 0)

RowsInFlight(lanes) == IF lanes >= 32 THEN 1 ELSE IF lanes = 1 THEN 16 ELSE 32 \div lanes

(* At most so many rows of so many members in a block.                     *)
BlockRows(len, fused, lanes) ==
  LET fitting == Min({Tile, Max({RowsInFlight(lanes), Tile \div len})})
  IN IF ~fused THEN Tile
     ELSE IF fitting > RowsInFlight(lanes) THEN fitting - (fitting % RowsInFlight(lanes)) ELSE fitting

(* The positions evaluated before the sums take them up.                   *)
ChunkPositions(len, fused, n) == IF fused THEN Max({1, Min({len, Tile \div n})}) ELSE len

IsFusedPattern(pattern) == Range(pattern) # {0}

(* Rows by length, then by the first row of their pattern.                 *)
InBlockOrder(lists, patterns) ==
  LET FirstLike(r) == Min({q \in DOMAIN patterns : patterns[q] = patterns[r]})
  IN SortSeq(UpTo(Len(lists)), LAMBDA r, q :
       \/ Len(lists[r]) < Len(lists[q])
       \/ /\ Len(lists[r]) = Len(lists[q])
          /\ (FirstLike(r) < FirstLike(q) \/ (FirstLike(r) = FirstLike(q) /\ r < q)))

CutIntoBlocks(lists, patterns, lanes) ==
  FoldLeft(LAMBDA blocks, r :
    IF /\ blocks # <<>> /\ patterns[Last(blocks)[1]] = patterns[r]
       /\ Len(Last(blocks)) < BlockRows(Len(lists[r]), IsFusedPattern(patterns[r]), lanes)
    THEN Append(Front(blocks), Append(Last(blocks), r))
    ELSE Append(blocks, <<r>>), <<>>, InBlockOrder(lists, patterns))

BlockOf(rows, pattern, len, before) ==
  [rows |-> rows, fused |-> IsFusedPattern(pattern), producers |-> pattern, offsets |-> before,
   chunk |-> ChunkPositions(len, IsFusedPattern(pattern), Len(rows))]

(* Where the members of each position's producer begin: behind the members *)
(* of the positions and blocks before it.                                  *)
Placement(lists, cut, prods) ==
  LET Before(b, k) ==
        FoldLeft(LAMBDA n, a : n + Len(cut[a]) * Cardinality({q \in DOMAIN prods[a] :
                   prods[a][q] = prods[b][k] /\ (a < b \/ q < k)}), 0, UpTo(b))
  IN [b \in DOMAIN cut |->
        BlockOf(cut[b], prods[b], Len(lists[cut[b][1]]), [k \in DOMAIN prods[b] |-> Before(b, k)])]

PlacedBlocks(lists, patterns, cut) == Placement(lists, cut, [b \in DOMAIN cut |-> patterns[cut[b][1]]])
BlocksOf(lists, patterns, lanes) == PlacedBlocks(lists, patterns, CutIntoBlocks(lists, patterns, lanes))
Blocks(p, plan, d, lanes) ==
  BlocksOf(Lists(p, d), Build(p.domains[d].rows, LAMBDA done, r : Pattern(p, plan, d, r)), lanes)

(* The rows of producer e in the order the blocks take them.               *)
LaidOut(p, d, blocks, e) ==
  FlattenSeq([b \in DOMAIN blocks |-> FlattenSeq([k \in DOMAIN blocks[b].producers |->
    IF blocks[b].producers[k] # e THEN <<>>
    ELSE [i \in DOMAIN blocks[b].rows |-> Lists(p, d)[blocks[b].rows[i]][k] - Base(p, e)]])])

------------------------------------------------------------------------------
(* A domain of independent rows that neither is inlined nor inlines runs   *)
(* on the kernel generated for it, if there is one: the kernel reads the   *)
(* value buffer, where the rows of an inlined domain never are.            *)
Catalogued_Inlining(p, plan, d) ==
  /\ plan.catalogue /\ ~Recurrent(p, d) /\ ~IsFused(plan, d) /\ ~IsInlined(plan, d)
  /\ ~IsWholeSegment(p.domains[d])
  /\ Cataloguable(p.domains[d]) /\ Generates(SignatureOf(p.domains[d].steps))

Catalogued(p, plan, d) ==
  /\ plan.catalogue /\ ~Recurrent(p, d) /\ ~IsFused(plan, d) /\ ~IsInlined(plan, d)
  /\ ~IsWholeSegment(p.domains[d]) /\ InlineRefs(p, plan, d) = <<>>
  /\ Cataloguable(p.domains[d]) /\ Generates(SignatureOf(p.domains[d].steps))

------------------------------------------------------------------------------
(* The output the row of an emitted value is written to: the last.         *)
EmitOrdinal(p, v) == Max({o \in DOMAIN p.outputs : p.outputs[o] = v})

RowsByWave(wave) == [w \in Range(wave) |-> SelectSeq(UpTo(Len(wave)), LAMBDA r : wave[r] = w)]

GroupOf(p, plan, d, refs, whole, blocks) ==
  LET dom == p.domains[d]
  IN [base |-> Base(p, d), rows |-> dom.rows, whole |-> whole, seg |-> BuildSegment(p, d), blocks |-> blocks,
      calls |-> BuildCalls(p, d, plan.group[d], refs), inlined |-> BuildInlined(p, d, refs),
      laid |-> [e \in DOMAIN p.domains |-> IF whole /\ IsFused(plan, e) THEN LaidOut(p, d, blocks, e) ELSE <<>>],
      emits |-> Build(dom.rows, LAMBDA es, r : IF IsFused(plan, d) /\ ValueOf(p, d, r) \in plan.emitted
                                               THEN EmitOrdinal(p, ValueOf(p, d, r)) ELSE 0),
      keep |-> SelectSeq(UpTo(dom.rows), LAMBDA r : ValueOf(p, d, r) \in plan.domain[d].keep),
      waves |-> RowsByWave(IF Scans(dom) THEN Wave(p, d) ELSE <<>>),
      kind |-> CASE IsInlined(plan, d) -> "inlined" [] IsFused(plan, d) -> "fused" [] Scans(dom) -> "scan"
                 [] Recurrent(p, d) -> "recurrent" [] whole -> "whole"
                 [] Catalogued(p, plan, d) -> "catalogued" [] OTHER -> "tiles"]

BuildGroup(p, plan, d, lanes) ==
  LET whole == IsWholeSegment(p.domains[d]) /\ ~Recurrent(p, d)
  IN GroupOf(p, plan, d, InlineRefs(p, plan, d), whole, IF whole THEN Blocks(p, plan, d, lanes) ELSE <<>>)

BuildGroups(p, plan, lanes) == Build(Len(p.domains), LAMBDA done, d : BuildGroup(p, plan, d, lanes))

------------------------------------------------------------------------------
(* run: what it does for one domain.  Rows that are listed are evaluated   *)
(* into the member buffer and copied to their cells.                       *)
InTiles(rows) ==
  LET n == (Len(rows) + Tile - 1) \div Tile
  IN [t \in 1..n |-> SubSeq(rows, (t - 1) * Tile + 1, Min({t * Tile, Len(rows)}))]

EvalListed(groups, g, cells, member, rows) ==
  FoldLeft(LAMBDA cs, tile : CopyRows(EvalGroup(groups, g, cs, 0, tile, Len(tile), member), member,
                                      [i \in DOMAIN tile |-> g.base + tile[i]]),
           cells, InTiles(rows))

EvalTiles(groups, g, cells, size) ==
  FoldLeft(LAMBDA cs, t : EvalGroup(groups, g, cs, (t - 1) * size, <<>>, Min({size, g.rows - (t - 1) * size}), g.base + (t - 1) * size),
           cells, UpTo((g.rows + size - 1) \div size))

EvalWaves(groups, g, cells, member) ==
  FoldLeft(LAMBDA cs, w : EvalListed(groups, g, cs, member, g.waves[w]), cells, UpTo(Max(DOMAIN g.waves)))

EvalCatalogued(p, cells, d) ==
  FoldLeft(LAMBDA cs, r : [cs EXCEPT ![ValueOf(p, d, r)] =
             CatalogueKernel(SignatureOf(p.domains[d].steps), Binding(p.domains[d]), r, cs)],
           cells, UpTo(p.domains[d].rows))

(* st holds the cells and the outputs of the chunk.                        *)
EvalDomain(p, groups, st, d) ==
  LET g == groups[d]
      member == MemberBuffer(p)
  IN CASE g.kind = "inlined" -> st
       [] g.kind = "fused" -> [st EXCEPT !.cells = EvalListed(groups, g, @, member, g.keep)]
       [] g.kind = "scan" -> [st EXCEPT !.cells = EvalWaves(groups, g, @, member)]
       [] g.kind = "recurrent" -> [st EXCEPT !.cells = EvalTiles(groups, g, @, 1)]
       [] g.kind = "whole" -> RunBlocks(groups, g, st, [acc |-> AccBuffer(p), member |-> member])
       [] g.kind = "catalogued" -> [st EXCEPT !.cells = EvalCatalogued(p, @, d)]
       [] g.kind = "tiles" -> [st EXCEPT !.cells = EvalTiles(groups, g, @, Tile)]

------------------------------------------------------------------------------
(* next_lane_chunk: the lanes after those done, at most `lanes' of them.   *)
(* With split, a width that has kernels of its own.                        *)
LaneVariants == {1, 4, 8, 16, 32, 64}
DecomposedWidths == {2, 5, 6}

ChunkWidth(rem, split) ==
  IF split /\ rem \in DecomposedWidths THEN Max({w \in LaneVariants : w <= rem}) ELSE rem

NextChunk(done, batch, lanes, split) ==
  [done |-> done, width |-> ChunkWidth(Min({lanes, batch - done}), split)]
------------------------------------------------------------------------------
(* What the cost model (optimise/cost.cpp) counts of a program under a     *)
(* plan, before anything is multiplied by the nanoseconds fitted for it:   *)
(* the kernel calls of a group and the times they are made, the values     *)
(* stored and loaded between them, and which domains the rows that are not *)
(* materialised are charged to.  All of it is decided above, by the groups *)
(* the interpreter builds from the same plan.                              *)

(* internal_steps: the steps of a run that stay in registers.              *)
InternalSteps_FirstOnly(pairings) == {pairings[j].first : j \in DOMAIN pairings}
InternalSteps(pairings) ==
  UNION {pairings[j].first..(pairings[j].last - 1) : j \in DOMAIN pairings}
KernelCalls(dom, pairings) == Len(dom.steps) - Cardinality(InternalSteps(pairings))

------------------------------------------------------------------------------
(* analyze: who reads a domain, and how often.                             *)
SlotsOfKind(dom, kind) ==
  SelectSeq(FlattenSeq([k \in DOMAIN dom.steps |-> dom.steps[k].args]), LAMBDA slot : slot[1] = kind)

GatherReaders(p, d) ==
  {c \in (DOMAIN p.domains) \ {d} : \E slot \in Range(SlotsOfKind(p.domains[c], "gather")) :
     Range(p.domains[c].gathers[slot[2]]) \cap RowsOf(p, d) # {}}

SegmentReaders(p, d) ==
  {c \in DOMAIN p.domains : \E slot \in Range(SlotsOfKind(p.domains[c], "segment")) :
     \E r \in 1..p.domains[c].rows :
       Range(p.domains[c].segments[slot[2]].members[r]) \cap RowsOf(p, d) # {}}

GatherRefs(p, d) ==
  CountIn(FlattenSeq([c \in DOMAIN p.domains |->
            LET slots == IF c = d THEN <<>> ELSE SlotsOfKind(p.domains[c], "gather")
            IN [j \in DOMAIN slots |-> p.domains[c].gathers[slots[j][2]]]]), RowsOf(p, d))

OutputRows(p, d) == Len(SelectSeq(p.outputs, LAMBDA v : v \in RowsOf(p, d)))

------------------------------------------------------------------------------
(* infer_plan: the default plan, as the cost model says it.                *)
Treated(p, annotations, d) ==
  LET a == annotations.domain[d]
  IN [treatment |-> a.choice, pairings |-> annotations.group[d],
      kept |-> IF a.choice = "FuseIntoReduction" THEN Cardinality(a.keep) ELSE 0,
      consumers |-> CASE a.choice = "Materialize" -> {}
                      [] a.choice = "FuseIntoReduction" -> SegmentReaders(p, d)
                      [] a.choice = "InlineIntoConsumer" -> {a.consumer}]

Treatments(p, annotations) == Build(Len(p.domains), LAMBDA done, d : Treated(p, annotations, d))
InferPlan(p, lanes) == Treatments(p, DefaultPlan(p, lanes, Range(PlannerRules)))

------------------------------------------------------------------------------
(* estimate_domain: only what is materialised is dispatched by itself; the *)
(* calls of a scan are made for every wave of its longest chain.           *)
TilesOf(rows) == (rows + Tile - 1) \div Tile
ChainLengths(dom) == {dom.scan[c + 1] - dom.scan[c] : c \in 1..(Len(dom.scan) - 1)}
DispatchUnits(dom) ==
  IF Scans(dom) THEN Max(ChainLengths(dom)) * TilesOf(Len(dom.scan) - 1) ELSE TilesOf(dom.rows)

PricedRows(dom, dp) ==
  CASE dp.treatment = "Materialize" -> dom.rows
    [] dp.treatment = "FuseIntoReduction" -> dp.kept
    [] dp.treatment = "InlineIntoConsumer" -> 0

Dispatches(dom, dp) ==
  IF dp.treatment = "Materialize" THEN DispatchUnits(dom) ELSE TilesOf(PricedRows(dom, dp))

(* scratch_touches: a value between two calls is stored, and loaded by     *)
(* every operand that is not taken from a register.                        *)
ScratchWrites(dom, pairings) == Cardinality((1..(Len(dom.steps) - 1)) \ InternalSteps(pairings))
ScratchReads(dom, pairings) ==
  Len(SelectSeq(SlotsOfKind(dom, "step"), LAMBDA slot : slot[2] \notin InternalSteps(pairings)))

(* folded_cost_ns: the rows of a folded domain its consumers are charged   *)
(* for together.                                                           *)
FoldedRows(p, d, dp) ==
  CASE dp.treatment = "Materialize" -> 0
    [] dp.treatment = "FuseIntoReduction" -> p.domains[d].rows - dp.kept
    [] dp.treatment = "InlineIntoConsumer" -> GatherRefs(p, d)

(* estimate_program: the chunks of lanes, which are priced one by one.     *)
PricedChunks(batch, lanes) ==
  {[done |-> k * lanes, width |-> Min({lanes, batch - k * lanes})] : k \in 0..((batch - 1) \div lanes)}
=============================================================================
