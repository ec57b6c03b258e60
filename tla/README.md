# A verification development for EpykosEngine

EpykosEngine records pricing maths written on a scalar type onto a tape, rewrites the
tape, compiles it to a domain program, and runs it and its adjoint on batches of market
states; calibrations are solved inside the program as implicit blocks. These modules model
the parts where the order of steps, sharing, failure or staleness decides whether the
numbers are right, check them with TLC on small instances, and prove the central ones with
TLAPS for every instance.

Paths below are relative to the repository (`src/tape/...`, `include/epykos/...`).

## 1. The system

The engine is a sequential library: one thread carries each call to its end (the only
shared mutable state across threads is the atomic serial counter of tapes). What is hard in
it is not interleaving but *staleness and sharing*: ids into tables that are rebuilt, buffers
reused by the next tile, chunk or call, results shared between lanes, plans made of one program
and run on another, work cut off by a limit and resumed, exceptions thrown half-way by a step
whose caller may go on.

| component | state | operations | interacts with | what makes it correct |
|---|---|---|---|---|
| Tape, `Rec` (`tape/`, `scalar/rec.hpp`) | node table, inputs, outputs, constant index, serial; the thread's current tape and the stack of `Scope`s | record an operation, make an input, register an output, copy, move, swap, clear, rebuild | every pass rebuilds a tape; the maths holds `Rec`s into it | a stale `Rec` is refused or right; nothing is decided on an input-dependent value; the table validates |
| Tape passes, `compile` (`tape/passes.cpp`, `compile.cpp`) | old tape, new tape, remap | cse, dce, fold_sum, affine_collapse, simplify, composition, rounds | replace the tape in place, return a remap the caller applies | same values (bit for bit, or in exact arithmetic for simplify), interface kept, nothing read is dropped |
| Select exports, slices (`tape/select_export.cpp`, `slice.cpp`) | the tape appended to; the slice's tape | append mask, margin and gap of each Select; close and copy | residual programs, curve dependencies | each export is of its own Select; a slice computes its roots and holds nothing else |
| Domain IR, signature pass, expander (`ir/`) | programs as data | infer, validate, evaluate, expand, serialize | everything after the tape | expand(infer(t)) is t; a text is its program |
| Rewrite rules, planner (`rewrite/`) | – | propose a program or plan annotations | the e-graph or `apply_greedy` applies them | same values; valid programs; annotations the interpreter can trust |
| E-graph (`optimise/egraph.cpp`, `extract.cpp`) | program and plan nodes, classes, memo, pending work, frontiers | saturate (rounds, limits, resumption), rebuild, extract | rules, cost model | a fixpoint is a fixpoint, limits hold, content is congruent, extraction keeps the class |
| Cost model (`optimise/cost.cpp`) | measured tables | count, price | extract | it counts what the interpreter does |
| Interpreter, lanes (`exec/`) | value buffer, scratch, accumulators | build the plan of a program; run a batch in chunks, tiles, waves and blocks | planner, catalogue, implicit program | every lane of every output is what the tape computes, whatever the plan |
| Catalogue (`catalogue/`, `tools/catalogue`) | generated registry | signature, binding, generated kernel | interpreter, adjoint | a kernel found computes that group |
| Adjoint (`adjoint/`) | value and edge buffers | forward, reverse, reverse as a program | implicit program | the gradient is the derivative, in every chunk |
| Implicit recording (`solver/implicit.cpp`) | registry of blocks, tape | begin, end, nesting, exceptions | tape, structural gate, block solver | the record point is calibrated, blocks are a DAG, every block passed the gate |
| Structural gate (`solver/sparsity.cpp`) | marks | pattern, check, colour | implicit recording, block Jacobians | the pattern is the dependence relation |
| Block solver, residual program (`solver/residual.cpp`) | F, F_try, factors, chord state; state and seed buffers | one lane's Gauss-Newton solve; evaluate, Jacobian, products | implicit program | steps, work, factors and the outcome are those of the iterate returned; a call answers for its own arguments |
| Implicit program (`solver/implicit_program.cpp`) | lane states, reports, factors per block and lane | run, adjoint | block solver, interpreter, adjoint | a batch answers what its lanes alone would |
| Curve sets (`solver/curve_set.cpp`) | curves, instruments | dependencies, blocks, calibrate | implicit recording, slices | dependency order, each curve once, refusals deserved |
| JSON (`util/json.cpp`) | the parser's nested calls; the text written | parse, dump, typed access | conventions, blueprints | exactly the documents are accepted, and what is written reads as it did |
| Conventions (`conventions/`) | calendars, registry | dates, schedules, observation days, loading and resolving documents | instrument builder | days are the right days; what is accepted is whole |
| Instruments (`maths/instrument/`) | row tables, calibration sets | build trades, validate blueprints, price | recorded on `Rec`, curve sets | what is not paid is kept, each day has the rate it is due |
| Curves (`maths/curve/`) | grids, regions, a prepared state | construct, prepare, value, integral, log discount factor | pricing, curve sets | each scheme is what it is named for; regions tile and join |
| Scalars (`scalar/dual.hpp`, `wide.hpp`) | – | forward-mode arithmetic | oracle of the adjoint | the rules of differentiation |
| rng, verify, mutation, fixtures, algebra | – | – | tests and benches | see section 8 |

## 2. The modules

| module | models | composed by | instance, proofs |
|---|---|---|---|
| `Recording` | Tape objects, serials, scopes, `Rec`s, recording | | `RecordingProofs` |
| `TapeOps`, `TapePass` | nodes and the five passes as functions on tables; a caller that records a tape and runs passes | | `MCTapePass`, `TapePassProofs` |
| `SelectExport`, `TapeSlice`, `Sparsity`, `ImplicitRecording`, `ResidualProgram` | `export_selects` with a node vector that moves; `slice`; pattern, gate, colouring; `implicit_begin`/`implicit_end`; the program of a block's residuals and its calls | `TapeReaders`, `SparsityProofs`, `TapeReadersProofs` | `MCTapeReaders` |
| `DomainIR` | programs, `validate`, the reference evaluator, expansion, canonical tapes | | |
| `ProgramText` | `serialize`, `deserialize` | `Engine` | |
| `Signature`, `InferIR` | boundaries, chains, trees, classes; laying out, retries | `Engine` | |
| `Rules` | R1-R5 and R7 with `ir_edit` | `Engine` | |
| `Planner` | the planner rules, R6, merging of annotations | `Engine` | |
| `Kernels` | memory, kernels and chunks; the catalogue's signatures and bindings, and the generated kernels | `Interpreter`, `Adjoint` | |
| `Interpreter` | the plan an interpreter builds, what running a domain does, what the cost model counts | `Engine` | |
| `Adjoint`, `AdjointProgram` | forward mode over a field, reader lists, forward and reverse pass; block Jacobians and the AD mode rule; the reverse as a program | `Engine` | |
| `Engine` | a tape recorded, inferred, rewritten, then run or differentiated | | `MCEngine` |
| `EGraph` | saturation, union-find, rebuild, extraction | | `MCEGraph`, `EGraphProofs` |
| `BlockSolver` | one lane of one block | | `BlockSolverProofs` |
| `LanesAlone`, `ImplicitProgram` | what a batch promises; run and adjoint over blocks and lanes | | `MCImplicitProgram`, `ImplicitProgramProofs` |
| `SolveOrder`, `CurveSet` | what a calibration promises; Tarjan and calibrate, call by call | `Market` | `MCMarket`, `MarketProofs` |
| `Calendars` | civil dates and periods; holiday rules and joins; schedules and observation days | `Registry`, `TradeLife` | |
| `Registry` | documents added and resolved, blueprints validated | `Market` | `MarketProofs` |
| `TradeLife` | a trade, or a curve's set of instruments, built again and again as days pass and rates are published | `Market` | |
| `Curves` | the schemes, the curve of regions, sets of curves | `Market` | `MarketProofs` |
| `JsonReader` | the reader and the writer of documents | `Market` | |

Abstract specifications: `LanesAlone` says that a call answers, for each lane, what that
lane alone determines, and remembers nothing between calls; `ImplicitProgram` refines it
(`AnswersAlone`). `SolveOrder` says that curves become calibrated in any order that respects
what their instruments read; `CurveSet` refines it within `Market` (`CalibratesInOrder`). The reference
evaluation of a tape is what `InferIR`, `Interpreter` and the text of a program are held
against, and forward-mode duals carried through the tape are what both adjoints are.

How they compose: `Engine` is one behaviour from a recorded tape to outputs or gradients,
with the module of each stage called by its actions. `TapeReaders` and `Market` put modules
side by side that share no state, so that one run has them all: a behaviour is of one of
them, except that a slice is cut from a tape whose Selects were exported. `TapePass` is what
`Rewrite` of `Recording` leaves open. `BlockSolver` is what `ImplicitProgram` takes as one
solve and `ImplicitRecording` as the record-time solve; `Sparsity` is the gate in
`ImplicitRecording`; `CurveSet` calls `implicit` once per block. `EGraph` takes what a rule
proposes as a table, and does not open programs: that equal texts are equal programs, which
is how it finds them, is `RoundTrips` of `Engine`.

### 2.1 Recording

`alive`, `serial`, `table`, `nextSerial` are the Tape objects (the address of an object is its
name, so a moved-from tape stays a distinct object), `current` and `scopes` the thread's
current pointer and each live `Scope`'s `prev_`. A `Rec` is its id and serial, or its number
when detached. `Binary` places the operands in turn as `node_on` does, and `BinaryThrows` is the
same up to the second operand being foreign: the first operand's constant stays on the tape.
`Rewrite` is any pass: a working copy takes a serial, the rebuilt table another. The history
fields `mean` and `dep` are read by no guard.

### 2.2 Tape passes

A table is a sequence of nodes; each pass is a recursive *function* over it, as the code is a
sweep with a remap. `Meaning` is a constant: in `MCTapePass` it is either terms up to the
identities doubles obey bit for bit (`E0Meaning`), or functions over a small prime field
(`RealMeaning`), for `simplify`, whose rules are exact only in real arithmetic. Init chooses a
*work* from `Works`: the jobs to run and how often, how many inputs and operations the tape has,
which operations and outputs it may have, and the numbers it is read over. The caller then records
any tape the work allows and runs the jobs.

### 2.3 Readers of a tape

`SelectExport` keeps the vector's capacity: an append beyond it moves the nodes, and the
reference the code holds across its appends reads what was there. `TapeSlice` closes the set of
nodes kept in one pass from the end and copies it in one from the front, ordinals renumbered.
`Sparsity` sweeps node by node from the last residual, bitsets as sets, over any tape, block and
unknowns, and colours in the code's largest-first order. `ImplicitRecording` has a frame per open
`implicit()`; `implicit_begin` enters the block into the registry at once, an exception unwinds
frame by frame and the caller of any frame may catch it. A block may opt out of the half of the gate that looks at
residuals (`require_structural_coupling`, `coupled`); a column no residual reads is refused all the same.
`ResidualProgram` has the state, seed
and output buffers of the solver's program, laid out anew by each call with the stride of that
call's lanes; a number is where it came from, so a stale one shows.

### 2.4 From a tape to a program and its texts

A program in `DomainIR` is a sequence of domains: steps, the tables they read, and, for a scan,
its chains. Value ids count the rows of all domains. `Signature` follows the pass of the
code: uses, boundaries, tokens, depth, promotion of shared nodes, chains with their cuts, trees and
classes. A 64-bit hash is the term it hashes. `InferIR` splits classes into domains by level and,
as `infer` does, bans the members of chains that cannot be laid out and runs again, at most
`MaxRounds` times. `ProgramText` writes a program as the tokens of its text and reads it back,
token by token; names, levels and the record-point values of inputs are left out.

### 2.5 Rules, plans and the interpreter

`Rules` has the sites each rule matches and the program it proposes, through the edits of
`ir_edit` that renumber domains and values; a proposal that throws is `Thrown`. `Planner`
decides, per domain, what is materialised, fused, inlined, kept and paired, and which outputs are
emitted, in the order of the rules and with what each reads of the plan so far.

An interpreter is constructed once (`BuildGroups`: every operand resolved to a buffer, a table or a
number, every group a list of calls, the blocks of a reduction, the waves of a scan) and then runs
chunk after chunk. Memory is one sequence of cells, values first and then the buffers every group
shares; a cell nobody wrote in this chunk is `Stale`, and so is whatever is computed of it.
Vector code treats all lanes of a chunk alike, so a cell stands for a row of lanes.
For the catalogue `Kernels` has the canonical order of commutative operands, the walk that binds tables, and the
statement generated for a signature; the registry is every signature the generator accepts. The kernels
checked in under `src/catalogue/generated` are operators too, one for each, named by its hash.
`Interpreter` also counts, as the cost model does, the calls, dispatches, stores and loads of a program
under a plan, to be held against the groups built of that plan. `DomainIR` has the report of which domains
several groups of outputs share.

### 2.6 Adjoints

Numbers are residues of a prime, where different rational functions seldom agree; functions no
field has are fixed maps. `Adjoint` carries one direction at a time through the tape (`Dual`), and has the
reader lists (`build_plan`), the forward pass with its three options, and the reverse pass, domain
by domain backwards, over buffers that belong to the object and keep what the last chunk left.
`AdjointProgram` builds the program of the reverse pass domain by domain, scans included. A block's Jacobian is
had in closed form, by seeding columns or by seeding rows; the AD mode rule picks by what each is
said to cost (`Rates`, three of them, under each of which another mode is the cheapest). `FdStep` is a difference in
the field.

### 2.7 E-graph

Nodes, classes, the per-rule-slot memo (`kind`, `site`, `plan_parents_done`), the pending lists of
a round and the frontiers are the code's. A round's proposals, the application of pending nodes
and the rebuild are one action each, so that a bound may cut any of them. The union-find keeps
parents as the code's does, and the rebuild keys plans again until nothing merges.
`KeepsPolicy` lets a later call on the same graph change its limits, its rules and
`dedup_programs`, but not its re-firing policy: the reason is in section 6.

### 2.8 Block solver

An iterate is the number of accepted steps behind it; a residual vector is where and by which
program it was evaluated, its norm, and whether it holds a NaN. Norms are free, which covers
every behaviour of the maths. One action per branch of the loop.

### 2.9 Implicit program

A lane's answer is a *term*: the block solved, from which start, with which parameters. Two
lanes of equal quotes have equal terms. Calls choose batch, quotes, policy and options freely;
the arrays persist between calls as in the code, and a solve that diverges may throw mid-batch.

### 2.10 Before pricing

`CurveSet`: `instrument_reads`, then Tarjan's algorithm with its explicit call stack, one visit or
one pop per step, then calibration block by block. An instrument reads knots, and its residual reads its quote
besides. A block is refused (`thrown`) for too few instruments, for a curve read that has no values yet, and by the
structural gate: a knot of the block that none of its instruments reads, or, with `RequireCoupling`, an instrument
that reads no knot of the block. A block that passes is solved, or its solve does not converge and throws
(`unsolved`); a solve that gives up for any other reason at the record point counts as that. `Registry`: a file is added
entry by entry, an entry that is wrong throws with the earlier ones stored, and resolving builds
the calendars anew, joins as their members become ready. The checks on the fields of an entry (holiday rules,
indices, legs and their roles, observations) are those of the code that decide between shapes: which key is there,
and what the others then must be. `TradeLife`: days pass, rates are
published, and the trade is built again from its convention; a coupon is the dates it has and the
days realised and projected, a sequence of days standing for the factor they are folded into. The instruments
of a curve are built as a set too, with its knots and regions, and refused if their maturities are not apart.

`Curves`: times are integers and values exact fractions, so the schemes are the real functions the code
approximates; a discount factor is its logarithm. A curve is constructed (or refused), given values or the start of a
solve, and prepared region by region, each asking the one before it for its anchor. `JsonReader`: a text is given
token by token, and the frames are the calls of `parse_value` that have not returned; numbers, escapes and surrogates
are spelled out in the units they are read by, other characters are names. The digits of a number are zeros and nines:
enough to tell a leading zero, a number out of the range of a double, which is refused (`Overflows`), and one that is
written as an integer but does not fit 64 bits (`FitsInt64`), which is no integer. What is accepted is written again.

## 3. The runs

Each run takes seconds to about three minutes. Bounds are named in the cfg; sets and
tables given with `<-` are in the MC module (`BlockSolver` has none: every kind of solve is run).

| run | question | bounds and why they suffice |
|---|---|---|
| `recording` (module `Recording`) | can a stale `Rec` name another node, and does every table stay right while recorded, copied, moved, swapped, cleared and rebuilt? | two tapes (every copy, move and swap needs two), two `Rec`s, two constants, three nodes in all tables together (an operation on two nodes, or the same nodes split between two tapes), two nested scopes, three serials: enough to reuse an address, and an id under a new serial |
| `tape_pass` | what do each pass and their composition keep, drop and merge? | seven works: `OnePass` (cse, dce, fold_sum over sums), `TwoInputs` (cse and dce where an unused input must stay), `Standardised` (the five passes over five operations), `Collapsed` (affine_collapse over four operations: a chain of three links, a shared addend), `CollapsedAnyOut` (over three, any of which may be an output), `Compiled` and `Simplified` (compile and simplify over the field of three, with at least two rounds) |
| `tape_readers` | do the readers of a finished tape read it right, and who asks them? | up to three comparisons and Selects with spare capacities that make the vector move at any append; all tapes of four nodes of two operands, with up to three residuals and unknowns; up to three implicit blocks, one of a kind that need not be coupled, no nesting (`MaxDepth = 1`, section 6); blocks with unknowns out of input order, without parameters, with fewer residuals than unknowns, over three calls in a row with chunks of 1, 2 and 4 lanes |
| `engine` | does a tape, inferred, rewritten, planned, run or differentiated, compute what was recorded, at the price that is counted? | eighteen families of tapes of two to six operations, each for a shape (chains of six are only inferred): chains, branches, scans that read each other or start at a constant, waves, reductions of two, columns and literals, linear maps in blocks, shared reciprocals, inlined and nested producers, pairs with tails, every operation a derivative is taken of. `Tile = 2` makes tiles with a tail, batches of 2 to 7 lanes make chunks of every kind, up to two rules make one work on what another left; two adjoint chunks show what the first left |
| `infer_dissolved_chain` | does inference succeed on every tape that validates? | violated, section 6 |
| `r6_after_planner` | may R6 complete the default plan? | violated, section 6 |
| `segments_of_a_group` | may a group hold two reductions? | violated, section 6 |
| `egraph` | is a reported fixpoint one, under each re-firing policy, tight and ample limits, changing rule vectors? | two structural rules that meet in one program, two planner rules over two domains, an invalid proposal; three calls: cut, resumed, and repeated |
| `block_solver` | steps, work, factors, outcome, termination | four iterations, two trials, two stalls, norms 0..6 (three halvings fit, so a chord may contract, stall and recover), exact and chord, with and without factors |
| `block_solver_nan` | is a converged residual below the tolerance? | violated, section 6 |
| `implicit_program` | does a batch answer what its lanes alone would? | three blocks that read each other in a triangle (one read directly and through another), up to three lanes, two quotes (twins and strangers), one quote at which a block diverges, throwing or not, de-duplicating or not; two calls |
| `market` | solve order, refusals, end; what a registry accepts; which days a trade has | every graph of reads over four curves, one of them of two knots (each instrument reading a knot of its curve), and on three of them
instruments that read any knots at all; twelve documents (joins of joins in adverse order, cycles, joins without a common year, a malformed holiday rule, half-wrong files) in every order of up to three; about 440 trades around Easter 2024, valued every four days until their last payment: stubs of all kinds, lookbacks, shifts and lockouts longer than a period, a rate never published, futures and deposits; instrument sets of a curve with tenors and contracts whose maturities nearly meet. Curves of one region in every scheme and
variable, of two and three regions with a knot on the boundary or none, with three levels at each knot, and nine definitions to be refused. Texts of
up to eight tokens nested two deep, every number of five units and string of three, and numbers of exponents and lengths next to the limits |

Runs that set `CHECK_DEADLOCK FALSE` are those where the caller may simply stop calling
(its calls are bounded). `block_solver` stutters in its final state by an action of its own, and
a deadlock there would be reported; of `CurveSet` the same is said by `Ends`.

What the properties of `engine` say: `InferDenotes`, inference settles and the program
validates, computes the tape and expands to it; `RoundTrips`, a text is its program, and the sharing reported of a
program is real; `ProposalsStand`, a rule applied to a valid program
leaves one (with the two exceptions of section 6); `Runs`, every lane of every output is
what the tape computes, so nothing stale was read, and every generated kernel computes the steps it is named for, on
sample domains of two rows; `PricedAsRun`, the calls, dispatches, stores and loads
the cost model counts are those of the groups built, and folded rows are charged to who evaluates
them; `GradientIsDerivative` and `DerivedProgramIsAdjoint`, both adjoints are the derivative, and the three modes of a
block's Jacobian agree with it and with each other.

What those of `market` say: `Accepts`, unless a solve does not converge, a calibration refuses only what is ill posed: an
empty set, an instrument that reads no curve, or curves that need one another of which the instruments are too few, or leave a
knot unread, or read none of the knots; it is stated of the graph of reads, and so does not depend on what was calibrated
before or in which order the search went; `AcceptedIsWhole`, of a registry and its blueprints: calendars close on the days ruled,
names resolve, and trades can be made; `PricedAsDue`, of each build of a trade: every day of a coupon has its
rate, nothing past is asked of a curve, schedules tile, and a set of instruments makes a curve;
`CurvesFit`: regions tile and join (`CurvesJoin`), each scheme is what it is named for, integrals are areas, solves
start flat, and a set keeps its curves apart; `ReadsDocuments`: a text is accepted exactly if it is a document by the
grammar, within the depth and with no name twice, and what is written reads as what was read.

Every property of a passing run has a mutant: a plausible wrong form of one mapped
definition (`X_Something` before `X`) under which TLC finds it violated in the same run.

Symmetry is used in `recording` only (tapes, Recs and bits are interchangeable), where no
liveness is checked.

## 4. Fairness

`BlockSolver`, `CurveSet` and `ImplicitProgram` assume weak fairness of their steps: each models
one call carried by one thread, which nothing preempts for ever. `Returns` and `Ends` rest on it.
`Recording`, `Engine`, `EGraph` and `TapeReaders` assume none: their next call may never come.

## 5. What is proved

`RecordingProofs` (from `RecordingAssumption` only):

* `TypeCorrect`, `SerialsCorrect`, `NoAliasCorrect`, `TablesOnlyGrowCorrect` (`SerialsDistinct` is
  stated for the proof only; its consequence `NoAlias` is what the run checks). The invariant is
  `TypeOK /\ SerialsDistinct /\ NoAlias`, inductive as it stands: `NoAlias` needs that serials of
  live tables differ and that no `Rec` carries a serial not yet handed out, or a fresh table
  could be named by an old `Rec`; the types give that an append leaves the earlier nodes alone.
  There is one lemma per operation. `TablesOnlyGrow` follows action by action: an operation
  either appends to a table, or moves it whole together with its serial, or takes a new serial.
* `NoPeekCorrect`. `NoPeek` alone says nothing of the values still to be looked at, so the
  invariant adds `AllMarked`: a `Rec` whose value depends on an input is recorded, and every live
  table that bears its serial has its node, tainted. A sum keeps it because an operand's node
  is still the operand's node when the second operand has been placed (`SumMarked`); a step
  that keeps tables keeps it (`MarkedKept`, from the lemma `NoAlias` rests on).

* `ValidatesCorrect` and `NodesDenoteCorrect`, from one invariant: `TableOk` of every table and, of
  every `Rec` without a node, that it stands for its number. `TableOk` adds to what `validate()`
  looks at that a sum has two operands, what each node stands for, and that the leaf under
  some bits is the leaf of those bits. The operations that append are one argument
  (`AppendedIsOk`). The pass is the hard one: `RankOrders` shows that numbering the nodes kept in
  order is monotone and reaches every number (injective into a set of the same size), so
  that the `CHOOSE` of `RebuiltNode` finds the node it means, an operand stays before its
  reader, and the inputs of the rebuilt table are as many as its ordinals (`RebuiltOk`).

`SparsityProofs` (from the sizes being naturals) and `TapeReadersProofs` (from `ReadersAssumption`,
`RecordedAssumption` and what those name):

* `GateCorrect` and `ColoursCorrect`, for the gate alone. The invariant `IInv` says of the sweep that a
  mark is a dependence (`MarksDepend`) and that a node already swept has passed its marks on
  (`SweptPassOn`). When the sweep ends, the nodes a residual has marked are therefore closed under
  operands and contain its own node: they hold everything it depends on, which gives
  `PatternIsDependence`. The gate reads that pattern (`Decided`). A row is given a colour no
  conflicting row before it has (`ColoursApart`); there is one because fewer rows than colours
  on offer are taken (`SomeColourFree`).
* `StructureCorrect`: in every behaviour of `TapeReaders` the gate has no block yet or is in `IInv`,
  as the other readers leave its state alone. This is the property the run `tape_readers` checks.
* `GatedCorrect`, however deep `implicit()` nests: a call that got through every step without throwing
  was gated before it was solved, because its frame goes through the steps in order, and nothing
  but `implicit_end` of that frame moves it. `BlocksCorrect`, for `MaxDepth <= 1`: the values at the
  record point are never written again once a block is solved, so a solved block still holds
  the solution for the values its parameters had; the assumption is needed (section 6).
* `ExportsCorrect`: the invariant `ExportInv` says that every Select behind the loop has its row of
  three outputs, that each output is the node its column promises, the gap only if the reference in
  hand was read before the vector moved, and that an append leaves the nodes there were. From
  `RecordedAssumption`: the tape handed over is one that `validate()` accepts.
* `SlicesAndCalls`, both halves of `SliceComputesRoots`. A tape stays in order while Selects are exported
  (`NodesInOrder`), so the one pass from the end closes the set kept under operands (`ClosedBehind`), and the pass
  from the front finds every operand already copied (`CopiedTo`): each node kept has its copy, each copy is of a node
  kept, ordinals ascend; what a copy computes from the renumbered inputs is then what its node computes, by
  a least counterexample. For the calls, `CallInv` says of a Jacobian in progress that its rows so far are of this
  call's point and of one residual each; a chunk overwrites every cell it reads, as the cells of a buffer laid out for
  the chunk's lanes are apart (`CellsApart`, division with remainder). From `BlocksAssumption`: the unknowns and
  the inputs a block reads are listed once each, as `implicit_begin` and a slice make them.

`TapePassProofs` (from `TapePassAssumption`), for any tapes, operations and calls:

* `TypeIsOk`: `IInv` says that tables read backwards only, that maps lead where there is a node, and what
  a plan may emit.
* `CseIsComplete`: `IInv` holds, while cse rebuilds, that every operation of the new table is found by its key
  (`Hashed`); so two of them never have one key, and none is left when it returns.
* `CseAndDceKeepValues`: `TotalDenotes` for calls of these two passes. `DInv` says that a table is worth
  what its nodes denote, that each node behind the rebuild was dropped or has its old value in the new table, that the
  inputs passed are all there, and that the map of the call so far keeps values and takes outputs to outputs. What dce
  drops nothing needs: `LiveIsClosed` shows that the code's sweep from the end is a fixpoint.

`ImplicitProgramProofs` (from `BatchAssumption` and `ReadsAssumption`):

* `FactorsFit`, `SolvesOncePerTwin`, `ReportsFresh`. The invariant says where in its loops over
  blocks and lanes a call is (`Position`), that every solve before that place left the solution, the factors
  and the report of this call and this lane (`SolvedInv`), that the free inputs are the lane's own
  (`FreeInv`), that with sharing the solves counted are the distinct pairs of a block and its
  parameters so far (`CountInv`), and that a derivative counts the ways through the blocks the reverse sweep
  has pulled through (`PullInv`).
* `ImplementsAlone`: the initial states are those of `LanesAlone`, and every step is a step of it or a
  stutter. This is the safety half of `AnswersAlone`; its fairness stays with the run.

`EGraphProofs` (from `EGraphAssumption` and `ProposalsAssumption`, that every rule may be matched against
every program that is proposed, and proposes one of these, one that fails validation, or an
annotation):

* `Invariance`. `IInv` is six parts. `GraphOk`: a tier of the graph is a forest of depth one whose nodes share
  a class exactly when they share a content, and exactness is that of the path. `QueueOk`: what waits for
  the rebuild is new, and made from nodes there are. `RoundOk`: where the round is. `MemoOk`: what
  a memo entry says was made is in the graph, or was refused. `SweepOk`: every match the sweep has
  passed without a bound is answered. `ClosedOk`: at a reported fixpoint every representative is
  exhausted. The rebuild takes most of the proof: keying a tier again is shown once, for any tier, to
  end in the forest `GraphOk` asks for, and then used for the programs and for the plans of each.
* From it, `ClassKept`, `AddsContent`, `Lossless`, and `Closed`, which also takes `OneKind`: a rule makes
  proposals of one kind. Every rule in `src/rewrite` proposes either programs or annotations;
  `MCEGraph` asserts it of the instance. Under a narrower policy the code skips a rule by the kind of what it has
  proposed so far, which for one that mixes them could skip an annotation. Under `AllRules` nothing is assumed.

`MarketProofs` (from `MarketAssumption`: a finite number of instruments, each belonging to a curve; every curve
has a knot; an instrument reads knots of the set; a document is a sequence of entries):

* `DependenciesCome`, `CalibratesByComponents`, `NothingElseRefused`, for any number of curves and any reads. A
  behaviour of `Market` is in `IInv` or calibrates nothing. `IInv` is Tarjan's algorithm, call by call. Curves are numbered as
  they are seen, and stand on the stack and among the calls in that order (`IndexOk`, `StackOk`, `VisitsOk`).
  An edge looked at leads to a curve that is seen, and `low` knows of it if it is on the stack (`EdgesOk`). `low` is the
  number of a curve on the stack that can be reached, for a curve whose visit has returned of an earlier one (`LowOk`).
  A call reaches all that has come on the stack since it began, and is no higher than those of them that
  belong to no later call (`SubtreeOk`). What is seen and off the stack is in exactly one block, connected, with what it
  depends on in it or before it (`OutOk`).
* A path is never written down: `Reaches(x, y)` says that every set of curves that holds `x` and what its members depend on
  holds `y`. The heart is `RootIsReached`: of the curves above a root on the stack take the one of the smallest number that
  does not reach it; its visit has returned, so it reaches one of a smaller number, which is above the root too and does.
* The refinement is a step of `SolveOrder` for each block and a stutter otherwise: a part of a block that could be
  calibrated sooner would, with the curves calibrated already, be closed, and so hold the whole block.
* For `Accepts`, the block refused is exactly the curves that need one another with any of its members (`BlockTogether`): the
  blocks before it are closed under reads and apart from it (`BeforeClosed`), so no way from it leads back through
  them. A refusal is therefore a matter of the graph, and of the three causes a curve without values is none
  (`DependenciesCome`); the other two are `IllPosed` (`RefusedIllPosed`).
* `NamesAlwaysResolve`, for any documents: two of the three conjuncts of `AcceptedIsWhole`, that names resolve and that
  validated blueprints make trades. `RegistryInv` says that what is stored, and what was printed, is well formed with
  one meaning for a name (`DefsOk`: so a file that throws half way has only added), that the last call, if it was accepted, left
  every reference resolved, and that every index a validated blueprint looks up is stored, which must hold between refused
  files too: then a new file cannot change the coupon a leg records as (`ResolvesKept`).
* `RegionsAlwaysTile`, for any knots and any regions, from `SchemesAssumption` (times are integers and none is infinite): the
  first conjunct of `CurvesJoin`. An accepted definition is kept while the curve is prepared (`CurveInv`). Its knots
  and its regions rise (`KnotsRise`, `RegionsRise`), so the knots before a time are the first so many (`PlacesBefore`), the knots
  of a region are a run of them (`OwnedAre`), a time has one region (`SomeRegion`, `RegionOfTime`), and a grid, put together of
  an origin or an anchor, the knots and an anchor, rises from start to end (`GridRises`).

Only model-checked, and why:

* Liveness: `Returns`, `Ends`, the fairness of `AnswersAlone`.
* `TotalDenotes` for calls with fold_sum, affine_collapse or simplify: what they put in a node's place is a fold over a
  chain of any length, an induction over data.
* Everything `Engine` says: its definitions are inductions over programs, and `MCEngine` gives terms by a
  `RECURSIVE` operator.
* The rest of `AcceptedIsWhole` (the days a calendar closes on are folds over its rules, Easter included),
  `PricedAsDue` and `CashFlowsLast` (schedules are recursive functions of dates).
* The rest of `CurvesFit`: its sums of fractions are recursive functions, and the identities between schemes nonlinear.
* `ReadsDocuments`: the grammar it is held against counts tokens to any depth.

## 6. Disagreements between code and comments

Four are runs expected to be violated, listed under `findings` in `PROJECT.json` with the
quoted line:

* `inf_norm` drops NaNs, so a lane of NaNs converges (`block_solver_nan`).
* `ir::infer` throws on a tape that validates, where a chain of two steps remains after a longer
  one was cut around it (`infer_dissolved_chain`).
* R6, completing the default planner's plan, inlines a domain into which another is inlined
  already: the inner temporary is filled for rows counted from outside the producer's tables
  (`exec/plan.hpp:294-301`), and the batch answers silently differ (`r6_after_planner`).
* R5 applied twice puts an Affine and a Sum in one group, whose steps share one segment plan
  (`segments_of_a_group`).

More were met while modelling. They have no run, but the guards and conditions they forced into
the models are there for a reader to see.

In the tape:

* `export_selects` reads through a reference that an append may have invalidated
  (`tape/select_export.cpp:35`): the gap is promised by `ExportsAreOfTheirSelects` only up to the
  first move.
* One sweep of `simplify` is no fixpoint of its rules, as commented (`passes.cpp:614`, `:650`), and
  `compile` stops at the first round that does not shrink the tape, which may be reducible still.

In rules, plans and the interpreter:

* R5 at a site whose producer is the Input domain throws `std::logic_error`; R7 on a program in which R1 has
  left a column unread leaves that column too long, and the program does not validate. These are the
  two exceptions of `ProposalsStand`.
* `program.hpp:209` and `interpreter.hpp` say that a recurrent domain without a scan is refused; it is run
  row by row. The comment of `lanes.cpp:22-24` about `Lt = 7` and that of `lanes.hpp` about 1,000 lanes
  describe other cuts than the code makes.
* `apply_greedy` keeps the plan it was given after a structural rewrite renumbered the domains
  (`greedy.cpp:32-39`): the callers in the repository plan after the last structural rule, and so does
  `Engine`.
* `bind_domain` keeps the last segment of a group only; the generator refuses groups for which this
  matters, which `Kernels` assumes by taking as registered only what it accepts.
* The cost model takes a fixed Sum of three operands as one call where two are made (`cost.hpp:57` says
  so), the chains of a scan as if none waited for another, a recurrent domain without a scan in tiles, and
  decides with the lane tile where the interpreter uses at most the batch. `PricedAsRun` says which
  of these it excludes.

* Of two blocks with the same first output domain the AD mode rule finds the first only
  (`ad_mode_rule.cpp:23`): the second is never decided and the rule always matches, while its header says that "a
  saturation loop reaches a fixpoint". A block with one input ordinal twice has its coefficient in the last of the two
  columns in closed form, and in both by rows (`block_jacobian.cpp`).

In the e-graph:

* A plan the pipeline policy stepped over is recorded as merged, so a later call
  under a wider policy never merges it (hence `KeepsPolicy`); de-duplication is not lossless under
  the default policy (hence the condition of `DedupIsLossless`); `max_plan_nodes` does not count
  plan roots; extraction takes a class's exactness from its first node.

In the solver:

* The block solver's `F_` is overwritten by each Jacobian, so that `F_` is the residual of the
  iterate only until then.
* After a solve that threw, `report()` returns earlier solves for the lanes not reached (hence the
  condition of `ReportsOfLastCall`).
* A block whose `implicit_end` threw stays registered, so `BlocksGatedAndSolved` promises a gated program
  only when nothing threw; and an `implicit()` inside the residuals of another is solved at the
  start values of the outer block: with `MaxDepth = 2` the record point is not calibrated.

In conventions and instruments:

* A region's `from` is compared as it is written with a tenor that has been parsed and printed (`builder.cpp:507`): "1m" is not
  found where "1M" is an instrument.
* `builder.hpp` says that what is paid on or before the valuation date is dropped; `build_future` never
  drops an expired contract (hence the exception for futures in the pricing dates).
* A deposit or a future whose index is the empty string resolves, as the check skips empty names
  (`registry.cpp:594`), though building it looks the index up and throws.
* An observation override in a blueprint replaces the whole specification, and with it silently the
  convention's choice of interest period, which the override has no word for.
* A shifted observation period may hold no day: its rate is a division by zero. `add_file` is not atomic: a
  file whose resolution throws stays in the registry. A stub with a forced month end from a
  mid-month anchor leaves the last period irregular and unflagged (no caller sets it).

## 7. Plan

What the plan of the first version listed is modelled, except where section 8 says otherwise.
What is left, in order of importance:

1. Proofs: `TotalDenotes` for the passes that build chains; that `NextChunk` covers every batch.
2. `EGraph` with the proposals of `Rules` instead of a table, and `extract` with the counts of `Interpreter`.
3. Planner rules first and structural rules after them, as a saturation may order them.
4. Nested duals as the oracle of second derivatives; the index ranges of the row tables.

## 8. Not modelled

* Rounding, the sign of a zero and NaNs outside the block solver: values are terms, residues or names. The
  order of floating-point operations is part of a term, so what reorders them shows.
* Linear algebra, coupon formulas, accrued amounts and actual/actual day counts:
  formulas over reals without discrete state; where their outcome steers control it is a free choice.
* The nanoseconds, cache tiers and files of the cost model; the profitability thresholds of the planner are
  constants of the instance.
* `fma_contraction`, the verifier's sampling, `plan_bridge`'s names.
* Lanes within a kernel: the vector code treats them alike, and the specialised segment and pair kernels are one
  definition each. Nested inlining, which the planner excludes, reads rows outside tables: what
  the code reads there is `Stale` (`Overrun`).
* Not reached by the runs: in `tape_pass`, `simplify`'s `ScaledQuotient` of a telescope in a telescope
  (`passes.cpp:660-671`), which needs more operations than the tapes have; in `tape_readers`, `implicit()` nested deeper than
  one (the model has it, `MaxDepth` cuts it: section 6); in `engine`, forward mode on blocks that are not affine.
* Printing, reading files, and the lines and columns of a document's errors are I/O.
* `algebra/` is a design without implementation. Fixtures, random numbers, the verification harness, benches and mutation
  switches are test code.
* The serial counter is bounded (`MaxSerial`), so its wrap after 2^32 tapes is outside the model.
  A tape destroyed while an enclosing `Scope` remembers it is assumed away, as every caller in the
  repository declares the tape first.
