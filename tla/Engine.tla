------------------------------- MODULE Engine -------------------------------
(***************************************************************************)
(* The forward pipeline over the domain IR: a tape is recorded and         *)
(* inferred, rewritten by structural rules one after the other             *)
(* (rewrite/greedy.cpp), and run by an interpreter that is constructed     *)
(* over the program (exec/interpreter.cpp): its plan, then a chunk of      *)
(* lanes at a time, domain after domain.  Or it is differentiated: by the  *)
(* adjoint runtime, a chunk at a time, and as a program of its own.        *)
(***************************************************************************)
EXTENDS InferIR, Rules, Interpreter, AdjointProgram, ProgramText

CONSTANTS
  Settings(_),   \* the interpreters constructed for a recording
  Adjoints(_),   \* the options of the adjoints taken of it
  AdjointChunks, \* the chunks one adjoint runs
  Rates          \* prices: of a pass, of an adjoint in passes, of an entry

VARIABLES
  history,       \* the rules applied
  setting,       \* the options of the interpreter
  plan, groups,  \* its plan, and the groups built of it
  chunk, at,     \* the chunk that runs, and the domain that is next
  memory,        \* the value buffer, the temporaries and the chunk's outputs
  out,           \* the caller's outputs, a sequence of lanes each
  gradient,      \* the adjoint that runs: its plan, buffers and results
  derived        \* the program of the adjoint

adjointVars == <<gradient, derived>>
runVars == <<setting, plan, groups, chunk, at, memory, out>>
inferVars == <<recording, nodes, outs, banned, round>>

NoSetting == [lanes |-> 1, batch |-> 1, split |-> FALSE, on |-> {}]
NoMemory == [cells |-> <<>>, out |-> <<>>]

EngineInit ==
  /\ Init /\ history = <<>> /\ setting = NoSetting /\ plan = <<>> /\ groups = <<>> /\ chunk = [done |-> 0, width |-> 0]
  /\ at = 0 /\ memory = NoMemory /\ out = <<>> /\ gradient = <<>> /\ derived = <<>>

(* A rule's proposal replaces the program; what the caller is left with    *)
(* when there is none, or no valid one, is an exception.                   *)
Rewrite(rule) ==
  /\ pc = "done" /\ Len(history) < recording.rewrites
  /\ \E p \in Proposals(rule, program) :
       /\ program' = p
       /\ pc' = IF p = Thrown \/ ~Valid(p) THEN "refused" ELSE pc
  /\ history' = Append(history, rule)
  /\ UNCHANGED <<inferVars, runVars, adjointVars>>

(* The default plan of the options, or what R6 makes of it.                *)
Completed(pl, on) == IF "r6" \in on THEN MergeAnnotations(pl, MaterialiseBoundaries(program, pl)) ELSE pl
PlanOf(options) == Completed(DefaultPlan(program, Min({options.lanes, options.batch}), options.on), options.on)

Construct(options) ==
  /\ pc = "done" /\ pc' = "ready" /\ setting' = options
  /\ \E pl \in {PlanOf(options)} :
       plan' = [domain |-> pl.domain, group |-> pl.group, emitted |-> pl.emitted,
                catalogue |-> "catalogue" \in options.on]
  /\ groups' = BuildGroups(program, plan', Min({options.lanes, options.batch}))
  /\ out' = [o \in DOMAIN outs |-> [b \in 1..options.batch |-> Stale]]
  /\ UNCHANGED <<inferVars, program, history, chunk, at, memory, adjointVars>>

StartChunk ==
  /\ pc = "ready" /\ chunk.done + chunk.width < setting.batch
  /\ chunk' = NextChunk(chunk.done + chunk.width, setting.batch, setting.lanes, setting.split)
  /\ memory' = [cells |-> [k \in 1..CellCount(program, plan) |-> Stale], out |-> [o \in DOMAIN outs |-> Stale]]
  /\ at' = 1 /\ pc' = "run"
  /\ UNCHANGED <<inferVars, program, history, setting, plan, groups, out, adjointVars>>

RunDomain ==
  /\ pc = "run" /\ at <= Len(program.domains)
  /\ memory' = EvalDomain(program, groups, memory, at)
  /\ at' = at + 1
  /\ UNCHANGED <<inferVars, pc, program, history, setting, plan, groups, chunk, out, adjointVars>>

FinishChunk ==
  /\ pc = "run" /\ at > Len(program.domains)
  /\ out' = LET final == CopyOut(program.outputs, [v \in plan.emitted |-> EmitOrdinal(program, v)], memory)
            IN [o \in DOMAIN outs |-> [b \in DOMAIN out[o] |->
                  IF b \in (chunk.done + 1)..(chunk.done + chunk.width) THEN final[o] ELSE out[o][b]]]
  /\ pc' = "ready" /\ memory' = NoMemory /\ at' = 0
  /\ UNCHANGED <<inferVars, program, history, setting, plan, groups, chunk, adjointVars>>

(* Adjoint's constructor, and one chunk of its run.                        *)
Differentiate(options) ==
  /\ pc = "done" /\ pc' = IF Differentiable(program) THEN "adjoint" ELSE "refused"
  /\ gradient' = IF ~Differentiable(program) THEN gradient
                 ELSE [options |-> options, readers |-> ReadersOf(program),
                       buffers |-> FreshBuffers(program), results |-> <<>>]
  /\ UNCHANGED <<inferVars, program, history, runVars, derived>>

AdjointChunk ==
  /\ pc = "adjoint" /\ Len(gradient.results) < AdjointChunks
  /\ \E b \in {RunChunk(program, gradient.readers, gradient.buffers, gradient.options, Lane(Len(gradient.results) + 1))} :
       gradient' = [gradient EXCEPT !.buffers = b,
                                    !.results = Append(@, [out |-> b.out, gradient |-> b.state_bar])]
  /\ UNCHANGED <<inferVars, pc, program, history, runVars, derived>>

(* adjoint_to_program.                                                     *)
DeriveProgram ==
  /\ pc = "done" /\ pc' = IF Expressible(program) THEN "derived" ELSE "refused"
  /\ derived' = IF Expressible(program) THEN AdjointToProgram(program) ELSE derived
  /\ UNCHANGED <<inferVars, program, history, runVars, gradient>>

EngineNext ==
  \/ Next /\ UNCHANGED <<history, runVars, adjointVars>>
  \/ \E rule \in StructuralRules : Rewrite(rule)
  \/ \E options \in Settings(recording) : Construct(options)
  \/ StartChunk \/ RunDomain \/ FinishChunk
  \/ \E options \in Adjoints(recording) : Differentiate(options)
  \/ AdjointChunk
  \/ Adjoints(recording) # {} /\ DeriveProgram

EngineSpec == EngineInit /\ [][EngineNext]_<<vars, history, runVars, adjointVars>>

------------------------------------------------------------------------------
(***************************************************************************)
(* The Jacobian of a block of outputs, in the mode the plan has for it     *)
(* (adjoint/block_jacobian.cpp), and the rule that decides the modes       *)
(* (rewrite/ad_mode_rule.cpp): the one of least price.  A block is a name, *)
(* the domains its outputs are in, and ordinals: columns are inputs, rows  *)
(* outputs.                                                                *)
(***************************************************************************)
AllLinmaps(p, domains) == domains # <<>> /\ \A d \in Range(domains) : IsLinmap(p, d)

Price(mode, block, rates) ==
  CASE mode = "Forward" -> rates.pass * Len(block.inputs)
    [] mode = "Reverse" -> rates.pass * rates.adjoint * Len(block.outputs)
    [] mode = "ClosedFormAffine" -> rates.entry * Len(block.inputs) * Len(block.outputs)

DecidedMode_AffineUnchecked(p, block, rates) ==
  IF Price("ClosedFormAffine", block, rates) < Price("Reverse", block, rates) THEN "ClosedFormAffine" ELSE "Reverse"

DecidedMode(p, block, rates) ==
  LET Cheaper(a, b) == IF Price(b, block, rates) < Price(a, block, rates) THEN b ELSE a
      best == Cheaper("Reverse", "Forward")
  IN IF AllLinmaps(p, block.domains) THEN Cheaper(best, "ClosedFormAffine") ELSE best

(* A block is found again by the first of its domains.  Those that have a  *)
(* mode are decided: no block is, twice.                                   *)
ModesWanted(p, blocks, modes) ==
  SelectSeq(blocks, LAMBDA block : block.name \notin DOMAIN modes /\ block.domains[1] \in DOMAIN p.domains)
BlockAt(blocks, d) == SelectSeq(blocks, LAMBDA block : block.domains[1] = d)[1]
Proposed(p, blocks, rates, modes, site) ==
  LET block == BlockAt(blocks, site)
  IN [name \in DOMAIN modes \cup {block.name} |-> IF name = block.name THEN DecidedMode(p, block, rates) ELSE modes[name]]
Decided(p, blocks, rates) ==
  FoldLeft(LAMBDA modes, block : Proposed(p, blocks, rates, modes, block.domains[1]), <<>>, ModesWanted(p, blocks, <<>>))

ModeOf(modes, name) == IF name \in DOMAIN modes THEN modes[name] ELSE "Reverse"

(* One run of the adjoint for a row, seeded at its output alone; the       *)
(* buffers are those of the runs before.                                   *)
SeededRow(block, done, b) ==
  [buffers |-> b, rows |-> Append(done.rows, [j \in DOMAIN block.inputs |-> b.state_bar[block.inputs[j]]])]
ReverseJacobian(p, adjoint, block) ==
  FoldLeft(LAMBDA done, o :
             SeededRow(block, done, RunChunk(p, adjoint.readers, done.buffers, adjoint.options, [Lane(1) EXCEPT !.only = o])),
           [buffers |-> adjoint.buffers, rows |-> <<>>], block.outputs).rows

(* The quotients of one-sided differences, from a run for each column.     *)
OutAt(p, lane) == ForwardPass(p, FreshBuffers(p), {}, lane).out
Quotients(block, from, to) ==
  [k \in DOMAIN block.outputs |-> [j \in DOMAIN block.inputs |->
     Over(Residue(to[block.inputs[j]][block.outputs[k]] - from[block.outputs[k]]), FdStep)]]
ForwardJacobian(p, block) ==
  Quotients(block, OutAt(p, Lane(1)), [i \in Range(block.inputs) |-> OutAt(p, [Lane(1) EXCEPT !.moved = i])])

(* The coefficients of linear maps of inputs are their Jacobian.  An input *)
(* that is no column is passed over, and one that is twice is the last.    *)
SegmentAt(p, v) ==
  LET d == DomainOf(p, v)
      seg == p.domains[d].segments[p.domains[d].steps[1].args[1][2]]
  IN [members |-> seg.members[RowOf(p, v)], coefs |-> seg.coefs[RowOf(p, v)]]
ReadsInputs(p, block) ==
  \A o \in Range(block.outputs) :
    /\ DomainOf(p, p.outputs[o]) \in Range(block.domains)
    /\ Range(SegmentAt(p, p.outputs[o]).members) \subseteq Range(p.inputs)
ColumnOf(block, i) == Max({0} \cup {j \in DOMAIN block.inputs : block.inputs[j] = i})

ClosedForm_NextCoefficient(p, block) ==
  [k \in DOMAIN block.outputs |->
     LET seg == SegmentAt(p, p.outputs[block.outputs[k]])
     IN [j \in DOMAIN block.inputs |->
           Total(0, Len(seg.members) - 1, LAMBDA m : IF ColumnOf(block, Ordinal(p, seg.members[m])) = j THEN seg.coefs[m + 1] ELSE 0)]]

ClosedForm(p, block) ==
  [k \in DOMAIN block.outputs |->
     LET seg == SegmentAt(p, p.outputs[block.outputs[k]])
     IN [j \in DOMAIN block.inputs |->
           Total(0, Len(seg.members), LAMBDA m : IF ColumnOf(block, Ordinal(p, seg.members[m])) = j THEN seg.coefs[m] ELSE 0)]]

BlockJacobian(p, adjoint, mode, block) ==
  IF ~(Range(block.inputs) \subseteq DOMAIN p.inputs /\ Range(block.outputs) \subseteq DOMAIN p.outputs) THEN Thrown
  ELSE CASE mode = "Reverse" -> ReverseJacobian(p, adjoint, block)
         [] mode = "Forward" -> ForwardJacobian(p, block)
         [] mode = "ClosedFormAffine" ->
              IF (\A d \in Range(block.domains) : IsLinmap(p, d)) /\ ReadsInputs(p, block) THEN ClosedForm(p, block) ELSE Thrown

------------------------------------------------------------------------------
(* Properties                                                              *)

(* The domains a group of outputs is said to be fed by are all those that  *)
(* have a value under one of them: a domain that ends in an operation and  *)
(* is asserted to be shared is under every group.  What a program computes *)
(* twice its tape does: "a program whose tape was cse'd before inference   *)
(* reports 0" (sharing.hpp).                                               *)
EachOutput(p) == [o \in DOMAIN p.outputs |-> {o}]
ValuesUnder(p, v) ==   \* what v is computed from, and v
  LET under[x \in 1..v] == {x} \cup UNION {under[y] : y \in ReadBy(p.domains[DomainOf(p, x)], RowOf(p, x))} IN under[v]
SharingIsReal ==
  LET each == EachOutput(program)
      under == [o \in DOMAIN each |-> {DomainOf(program, v) : v \in ValuesUnder(program, program.outputs[o])}]
      mask == GroupsFed(program, each)
  IN /\ \A d \in DOMAIN mask : \A g \in DOMAIN each :
          /\ d \in under[g] => g \in mask[d]
          /\ g \in mask[d] => d = DomainOf(program, program.outputs[g])
                                 \/ \E e \in ReadersOfDomain(program, d) : e # d /\ g \in mask[e]
     /\ \A op \in {Last(program.domains[d].steps).op : d \in DOMAIN program.domains} :
          LET report == Sharing(program, each, op)
          IN /\ AssertShared(report, 1) => AssertAllShared(report)
             /\ AssertAllShared(report) <=> \A d \in report.matching : \A o \in DOMAIN each : o \in mask[d]
             /\ history = <<>> => Duplicates(program, op) = DuplicatesOn(nodes, op)

(* Until a rule has been applied the program expands to its tape.  Before  *)
(* and after rules have been, it is the same program as its text is, which *)
(* is what the e-graph looks programs up by: "deserialize(serialize(p))    *)
(* == p" (program.hpp), and its report of what is shared is right.         *)
RoundTrips ==
  /\ history = <<>> => RoundTrip
  /\ pc = "done" => Deserialize(Serialize(program)) = {program} /\ SharingIsReal

(* A rule applied to a valid program gives a valid program: "the rewritten *)
(* Program, standing on its own" (rule.hpp).  Two do not always: R5 at a   *)
(* site whose producer is the Input domain throws, and R7 leaves a column  *)
(* no step reads (R1 makes them) longer than the block it is in.           *)
TakesInputs(p) ==
  \E d \in DOMAIN p.domains : Merges(p, d) /\ Range(p.inputs) \cap ValuesOf(p, d) # {}
LeavesColumn(p) ==
  \E d \in DOMAIN p.domains : SplitsIntoBlocks(p, d) /\ \E k \in DOMAIN p.domains[d].columns :
    Column(k) # p.domains[d].steps[1].konst
ProposalsStand ==
  [][pc' = "refused" /\ pc = "done" /\ history' # history =>
       \/ Last(history') = "R5" /\ TakesInputs(program)
       \/ Last(history') = "R7" /\ LeavesColumn(program)]_<<vars, history, runVars, adjointVars>>

(* The kernels that are built in, each for two rows of a domain it is      *)
(* looked up for, whose commutative operands are recorded in either order, *)
(* compute what its steps do: "the same op order, the same operand-slot    *)
(* rules and the same left fold" (kernels_e0.cpp).                         *)
SampleSlot(shape, k, q) == IF shape[1] = "step" THEN StepAt(k - shape[2]) ELSE IF shape[1] = "none" THEN NoSlot ELSE <<shape[1], 4 * k + q>>
SampleDomain(signature, swapped) ==
  LET Args(k) == [q \in DOMAIN signature[k].args |-> SampleSlot(signature[k].args[q], k, q)]
      Table(F(_)) == [n \in 4..40 |-> F(n)]
  IN [rows |-> 2, scan |-> <<>>, carry |-> 0,
      steps |-> [k \in DOMAIN signature |->
                   Step(signature[k].op, IF swapped /\ signature[k].op \in Commutative THEN Reverse(Args(k)) ELSE Args(k),
                        SampleSlot(signature[k].konst, k, 0))],
      columns |-> Table(LAMBDA n : <<n, n + 40>>), gathers |-> Table(LAMBDA n : <<n, n + 40>>),
      segments |-> Table(LAMBDA n : [members |-> <<<<1, 2, 3>>, <<4>>>>, coefs |-> <<<<2, 3, 5>>, <<7>>>>])]
SampleCells == [v \in 1..80 |-> Meaning("Input", v, <<>>, <<>>)]
GeneratedKernelsCompute ==
  \A name \in DOMAIN Generated : \A swapped \in BOOLEAN :
    LET dom == SampleDomain(Generated[name], swapped)
    IN /\ KernelsOf(SignatureOf(dom.steps)) = {name}
       /\ \A r \in 1..dom.rows :
            GeneratedKernel(name, Binding(dom), r, SampleCells) = RowValue([domains |-> <<dom>>], 1, r, SampleCells)

(* What the interpreter returns is what the tape computes, in every lane   *)
(* of every output, whatever is fused, inlined, kept, emitted, paired or   *)
(* tiled: "the same per-lane arithmetic as the scalar reference evaluator" *)
(* (interpreter.hpp:3-5), and so are the kernels that are built in.        *)
Runs ==
  /\ GeneratedKernelsCompute
  /\ pc = "ready" /\ chunk.done + chunk.width >= setting.batch =>
    LET v == NodeValues(nodes) IN \A o \in DOMAIN outs : \A b \in DOMAIN out[o] : out[o][b] = v[outs[o]]

(* R6 is "a domain inlines when doing so can never be wrong, full stop"    *)
(* (r6_materialise_boundaries.hpp): the plan it completes runs right.      *)
InlinesNeverWrong == "r6" \in setting.on => Runs

(* R5 merges a producer's steps into the group of its reader, "class E0"   *)
(* (r5_group_formation.hpp:1): what the interpreter makes of a group that  *)
(* has several reductions is right too.                                    *)
GroupsNeverWrong == Runs

(* What the cost model prices is what the interpreter does: "kernel-       *)
(* dispatch overhead (tiles/blocks/waves x KERNEL CALLS)" and "store +     *)
(* reload of every step value the plan does NOT fuse away" (cost.hpp), in  *)
(* the chunks of lanes that run, and whoever evaluates rows of a domain    *)
(* that is folded is charged for it.  As cost.hpp:57 says, a Sum of three  *)
(* operands in a scan is two calls and is priced as one.  The chains of a  *)
(* scan are priced as if all were as long as the longest, and none waited  *)
(* for another: where one reads another's rows there are more waves.       *)
SumsOfThree(dom) == {k \in DOMAIN dom.steps : IsFixedSum(dom.steps[k]) /\ Len(dom.steps[k].args) = 3}
StepBuffers == {StepBuffer(program, k) : k \in 1..MaxSteps(program)}
StepsLoaded(call) ==
  SelectSeq(call.operands, LAMBDA o : o.kind = "Vec" /\ \E b \in StepBuffers : o.at = b)
TilesRun(g) ==   \* the times the calls of a group are made
  CASE g.kind = "inlined" -> 0
    [] g.kind = "fused" -> Len(InTiles(g.keep))
    [] g.kind = "tiles" -> TilesOf(g.rows)
    [] g.kind = "scan" -> FoldLeft(LAMBDA n, w : n + Len(InTiles(g.waves[w])), 0, UpTo(Max(DOMAIN g.waves)))
EvaluatedIn(d) ==   \* the domains that evaluate rows of d as they need them
  {c \in DOMAIN groups : groups[c].laid[d] # <<>> \/ \E t \in DOMAIN groups[c].inlined : groups[c].inlined[t].producer = d}

RowsEvaluated(d) ==
  LET Own(c) == FoldLeft(LAMBDA n, in : IF in.producer = d THEN n + Len(in.values) - Cardinality(in.foreign) ELSE n,
                         0, groups[c].inlined)
  IN FoldLeft(LAMBDA n, c : n + Own(c), 0, UpTo(Len(groups)))

CallsPriced(dom, g, dp) ==
  /\ Len(g.calls) = KernelCalls(dom, dp.pairings) + Cardinality(SumsOfThree(dom))
  /\ Cardinality({k \in DOMAIN g.calls : g.calls[k].to \in StepBuffers}) = ScratchWrites(dom, dp.pairings)
  /\ FoldLeft(LAMBDA n, call : n + Len(StepsLoaded(call)), 0, g.calls) = ScratchReads(dom, dp.pairings)
  /\ g.kind \in {"inlined", "fused", "tiles"} => TilesRun(g) = Dispatches(dom, dp)
  /\ g.kind = "scan" /\ DOMAIN g.waves = 1..Max(ChainLengths(dom)) => TilesRun(g) <= Dispatches(dom, dp)

PricedAsRun ==
  pc = "ready" /\ chunk.done = 0 =>
    /\ chunk.width > 0 /\ ~setting.split => chunk \in PricedChunks(setting.batch, setting.lanes)
    /\ chunk.width = 0 => \E priced \in {Treatments(program, plan)} :
         /\ setting.on = Range(PlannerRules) /\ setting.lanes <= setting.batch
              => priced = InferPlan(program, setting.lanes)
         /\ \A d \in DOMAIN groups :
              /\ CallsPriced(program.domains[d], groups[d], priced[d])
              /\ EvaluatedIn(d) \subseteq priced[d].consumers
              /\ groups[d].kind = "inlined" =>
                   /\ GatherReaders(program, d) = priced[d].consumers /\ SegmentReaders(program, d) = {}
                   /\ OutputRows(program, d) = 0 /\ RowsEvaluated(d) <= FoldedRows(program, d, priced[d])

(* The Jacobian of each block of outputs, a block for each domain they are *)
(* in, its columns in an order of the caller's: however dear a pass is,    *)
(* every block is decided, and its mode gives the derivatives duals carry; *)
(* the closed form gives up only where a linear map reads what is no       *)
(* input, and a difference quotient is exact where the closed form is.     *)
OutputsIn(p, d) == SelectSeq([o \in DOMAIN p.outputs |-> o], LAMBDA o : DomainOf(p, p.outputs[o]) = d)
JacobianBlocks(p) ==
  LET read == SelectSeq([d \in DOMAIN p.domains |-> d], LAMBDA d : OutputsIn(p, d) # <<>>)
  IN [k \in DOMAIN read |-> [name |-> <<"block", k>>, domains |-> <<read[k]>>, outputs |-> OutputsIn(p, read[k]),
                             inputs |-> Reverse([i \in DOMAIN p.inputs |-> i])]]
Derivatives(block) ==
  LET duals == [j \in DOMAIN block.inputs |-> NodeDuals(nodes, block.inputs[j], Lane(1))]
  IN [k \in DOMAIN block.outputs |-> [j \in DOMAIN block.inputs |-> duals[j][outs[block.outputs[k]]].d]]
RightJacobian(mode, block, jacobian) ==
  LET affine == AllLinmaps(program, block.domains) /\ ReadsInputs(program, block)
  IN CASE mode = "Reverse" \/ affine -> jacobian = Derivatives(block)
       [] mode = "ClosedFormAffine" -> jacobian = Thrown /\ AllLinmaps(program, block.domains)
       [] OTHER -> TRUE
JacobiansAgree ==
  LET blocks == JacobianBlocks(program)
  IN \A rates \in Rates :
       LET modes == Decided(program, blocks, rates)
       IN /\ ModesWanted(program, blocks, modes) = <<>>
          /\ \A b \in DOMAIN blocks :
               LET mode == ModeOf(modes, blocks[b].name)
               IN RightJacobian(mode, blocks[b], BlockJacobian(program, gradient, mode, blocks[b]))

(* The adjoint of a program is the derivative of the tape it is of: the    *)
(* gradient pulled backwards through edge slots that outlive the chunk,    *)
(* with intermediates computed again or kept, is the one forward-mode      *)
(* duals carry through the tape, in every chunk ("adjoint vs forward mode  *)
(* at 1e-12", adjoint.hpp's oracle), with the outputs the tape has; so are *)
(* the Jacobians of blocks.                                                *)
GradientIsDerivative ==
  pc = "adjoint" =>
    /\ gradient.results = <<>> => JacobiansAgree
    /\ \A lane \in DOMAIN gradient.results :
      gradient.results[lane] = ForwardMode(nodes, outs, Len(program.inputs), Lane(lane))

(* The program of the adjoint is a valid one, and computes the outputs and *)
(* the gradient.                                                           *)
DerivedProgramIsAdjoint ==
  pc = "derived" =>
    LET reference == ForwardMode(nodes, outs, Len(program.inputs), Lane(1))
    IN Valid(derived) /\ Numbers!Evaluate(derived) = reference.out \o reference.gradient
=============================================================================
