------------------------------ MODULE Kernels ------------------------------
(***************************************************************************)
(* The kernels of the interpreter (exec/kernels_impl.hpp), the plan they   *)
(* run from (exec/plan.hpp), and the kernels of the catalogue.             *)
(*                                                                         *)
(* Memory is one sequence of cells: a cell per value, then buffers of Tile *)
(* cells each.  The lanes of a chunk go through every kernel alike, so a   *)
(* cell holds one value for them all.  A cell an earlier chunk wrote, or   *)
(* nobody, is Stale.  An operand is resolved when the plan is built:       *)
(*   Vec  a buffer (the cell before its first), read by tile row;          *)
(*   Lit  a number;     Col  a number for each domain row;                 *)
(*   Gat  a cell for each domain row.                                      *)
(***************************************************************************)
EXTENDS DomainIR

CONSTANT Tile    \* rows evaluated together

ASSUME KernelsAssumption == Tile \in Nat \ {0}

Stale == <<"stale">>
UpTo(n) == [k \in 1..n |-> k]
From(a, b) == [k \in 1..(b - a + 1) |-> a + k - 1]

Operand(kind, at) == [kind |-> kind, at |-> at]

(* The domain row of tile row i: counted from r0, or listed.               *)
RowAt(r0, idx, i) == IF idx = <<>> THEN r0 + i ELSE idx[i] + r0

NumberOfRow(o, r) == IF o.kind = "Col" THEN o.at[r] ELSE o.at

Elem(cells, o, r, i) ==
  CASE o.kind = "Vec" -> cells[o.at + i]
    [] o.kind = "Gat" -> cells[o.at[r]]
    [] OTHER -> Meaning("Const", NumberOfRow(o, r), <<>>, <<>>)

------------------------------------------------------------------------------
(***************************************************************************)
(* A call: one step, or a pair of steps (then, with what the second one    *)
(* takes besides) and the steps of their tail; loads are the operands of   *)
(* Fma and Select that are put in temporaries first.  to is the buffer it  *)
(* writes, NoBuffer for the destination of the group.                      *)
(***************************************************************************)
NoBuffer == -1
NoPair == [op |-> "none", operand |-> Operand("Lit", 0), prevRight |-> FALSE]

Call(op, operands, to) ==
  [op |-> op, operands |-> operands, loads |-> <<>>, konst |-> Operand("Lit", 0), ordinals |-> <<>>,
   then |-> NoPair, tail |-> <<>>, epilogue |-> FALSE, to |-> to]

(* The ops there are kernels for, by their number of operands, the ones    *)
(* with a reduction epilogue, and the shapes of pair: scalars S before     *)
(* gathers G where the first op commutes, its value on the left where the  *)
(* second does.                                                            *)
UnaryKernels == {"Neg", "Exp", "Log", "Sqrt", "Recip"}
BinaryKernels == {"Add", "Sub", "Mul", "Div", "CmpLt", "CmpLe", "CmpGt", "CmpGe", "CmpEq"}
TernaryKernels == {"Fma", "Select"}
Epilogues == {"Const"} \cup UnaryKernels \cup BinaryKernels

PairKind(o) == IF o.kind \in {"Lit", "Col"} THEN "S" ELSE IF o.kind = "Gat" THEN "G" ELSE "none"
SecondKernels(then) ==
  CASE then.op = "Neg" -> TRUE
    [] then.op \in {"Add", "Mul"} -> ~then.prevRight /\ PairKind(then.operand) # "none"
    [] then.op \in {"Sub", "Div"} -> PairKind(then.operand) # "none"
    [] OTHER -> FALSE
PairKernels(call) ==
  LET kinds == [q \in DOMAIN call.operands |-> PairKind(call.operands[q])]
  IN /\ SecondKernels(call.then)
     /\ CASE call.op = "Neg" -> kinds = <<"G">>
          [] call.op \in {"Add", "Mul"} -> kinds \in {<<"S", "G">>, <<"G", "G">>}
          [] call.op \in {"Sub", "Div"} -> kinds \in {<<"S", "G">>, <<"G", "G">>, <<"G", "S">>}
          [] OTHER -> FALSE

(* A row of a Sum or an Affine: the members are folded in their order.     *)
SegmentRow(op, seg, cells, r) ==
  Meaning(op, IF op = "Affine" THEN NumberOfRow(seg.konst, r) ELSE 0, IF op = "Affine" THEN seg.coefs[r] ELSE <<>>,
          [m \in DOMAIN seg.members[r] |-> cells[seg.members[r][m]]])

FirstStep(call, seg, cells, r, i) ==
  CASE call.op = "Const" -> Elem(cells, call.konst, r, i)
    [] call.op = "Input" -> Meaning("Input", call.ordinals[r], <<>>, <<>>)
    [] call.op \in Variadic -> SegmentRow(call.op, seg, cells, r)
    [] call.op \in UnaryKernels \cup BinaryKernels \cup TernaryKernels ->
         Meaning(call.op, 0, <<>>, [q \in DOMAIN call.operands |-> Elem(cells, call.operands[q], r, i)])

(* The value of the first step stays in a register.                        *)
SecondStep(call, value, cells, r, i) ==
  LET other == Elem(cells, call.then.operand, r, i)
  IN CASE call.then.op = "none" -> value
       [] call.then.op = "Neg" -> Meaning("Neg", 0, <<>>, <<value>>)
       [] OTHER -> Meaning(call.then.op, 0, <<>>, IF call.then.prevRight THEN <<other, value>> ELSE <<value, other>>)

CallValue(call, seg, cells, r, i) ==
  FoldLeft(LAMBDA value, op : Meaning(op, 0, <<>>, <<value>>),
           SecondStep(call, FirstStep(call, seg, cells, r, i), cells, r, i), call.tail)

LoadRows(cells, load, r0, idx, n) ==
  FoldLeft(LAMBDA cs, i : LET v == Elem(cs, load.source, RowAt(r0, idx, i), i) IN [cs EXCEPT ![load.to + i] = v],
           cells, UpTo(n))

Loaded(call, cells, r0, idx, n) ==
  FoldLeft(LAMBDA cs, load : LoadRows(cs, load, r0, idx, n), cells, call.loads)

RunCall(call, seg, cells, r0, idx, n, to) ==
  FoldLeft(LAMBDA cs, i : LET v == CallValue(call, seg, cs, RowAt(r0, idx, i), i) IN [cs EXCEPT ![to + i] = v],
           Loaded(call, cells, r0, idx, n), UpTo(n))

(* The calls of a group over n rows, the last one's values at to.          *)
RunCalls(calls, seg, cells, r0, idx, n, to) ==
  FoldLeft(LAMBDA cs, call : RunCall(call, seg, cs, r0, idx, n, IF call.to = NoBuffer THEN to ELSE call.to), cells, calls)

(* What a call for several rows copies from one buffer to listed cells.    *)
CopyRows(cells, source, targets) ==
  FoldLeft(LAMBDA cs, i : [cs EXCEPT ![targets[i]] = cs[source + i]], cells, UpTo(Len(targets)))

------------------------------------------------------------------------------
(***************************************************************************)
(* An inlined producer, for the rows r0 + 1 and on of the domain that      *)
(* reads it: its rows go to a temporary, and where the gather names a row  *)
(* of another domain (foreign) that value is copied over.  A producer that *)
(* is a reduction is folded from tables in the order of the reader's rows. *)
(***************************************************************************)
RunList(producer, rows, cells, to) ==
  FoldLeft(LAMBDA cs, i : LET v == SegmentRow(producer.calls[1].op, producer.seg, cs, rows[i]) IN [cs EXCEPT ![to + i] = v],
           cells, UpTo(Len(rows)))

ForeignRows_None(inlined, r0, n) == <<>>
ForeignRows(inlined, r0, n) == SelectSeq(From(r0 + 1, r0 + n), LAMBDA r : r \in inlined.foreign)

(* The temporaries of a producer that inlines producers itself are filled  *)
(* for rows outside of their tables, from -value_base on: with anything.   *)
Overrun(cells, producer, n) ==
  FoldLeft(LAMBDA cs, nested : [k \in DOMAIN cs |-> IF k - nested.temp \in 1..n THEN Stale ELSE cs[k]],
           cells, producer.inlined)

FillTemporary(groups, cells, inlined, r0, n) ==
  LET producer == groups[inlined.producer]
      rows == SubSeq(inlined.rows, r0 + 1, r0 + n)
      filled == IF producer.whole THEN RunList(producer, rows, cells, inlined.temp)
                ELSE RunCalls(producer.calls, producer.seg, Overrun(cells, producer, n), 0, rows, n, inlined.temp)
  IN FoldLeft(LAMBDA cs, r : [cs EXCEPT ![inlined.temp + r - r0] = cs[inlined.values[r]]],
              filled, ForeignRows(inlined, r0, n))

EvalGroup(groups, g, cells, r0, idx, n, to) ==
  RunCalls(g.calls, g.seg, FoldLeft(LAMBDA cs, inlined : FillTemporary(groups, cs, inlined, r0, n), cells, g.inlined),
           r0, idx, n, to)

------------------------------------------------------------------------------
(***************************************************************************)
(* A reduction over whole domains.  A block is rows whose members come     *)
(* from the same fused domains, position by position, so that a run of     *)
(* positions is evaluated by one call for all its rows.  An accumulator is *)
(* what has been folded into it.                                           *)
(***************************************************************************)
MembersOfPosition(g, block, k) == [i \in DOMAIN block.rows |-> g.seg.members[block.rows[i]][k]]
MembersAt(g, block, ks) == FlattenSeq([q \in DOMAIN ks |-> MembersOfPosition(g, block, ks[q])])
CoefsAt(g, block, ks) ==
  FlattenSeq([q \in DOMAIN ks |-> [i \in DOMAIN block.rows |->
    IF g.calls[1].op = "Affine" THEN g.seg.coefs[block.rows[i]][ks[q]] ELSE 0]])

Accumulator(konst, terms) == [konst |-> konst, terms |-> terms]
FoldedIn(acc, coef, value) == [acc EXCEPT !.terms = Append(@, [coef |-> coef, value |-> value])]
Reduced(op, acc) ==
  Meaning(op, acc.konst, IF op = "Affine" THEN [m \in DOMAIN acc.terms |-> acc.terms[m].coef] ELSE <<>>,
          [m \in DOMAIN acc.terms |-> acc.terms[m].value])

(* Before the first member of a Sum the accumulator holds what the block   *)
(* before left.                                                            *)
Begun(g, block, cells, acc) ==
  IF g.calls[1].op # "Affine" THEN cells
  ELSE FoldLeft(LAMBDA cs, i : [cs EXCEPT ![acc + i] = Accumulator(NumberOfRow(g.seg.konst, block.rows[i]), <<>>)],
                cells, UpTo(Len(block.rows)))

(* acc_run: n rows of a run of positions, whose members have these values. *)
AccumulateRun(values, cells, n, coefs, first, acc) ==
  FoldLeft(LAMBDA cs, t :
             LET i == ((t - 1) % n) + 1
             IN [cs EXCEPT ![acc + i] = FoldedIn(IF first /\ t <= n THEN Accumulator(0, <<>>) ELSE @, coefs[t], values[t])],
           cells, UpTo(Len(coefs)))

(* The outputs among the members of a run are written from the buffer.     *)
EmitRun_ByRow(g, cells, out, rows, member) ==
  FoldLeft(LAMBDA os, t : IF g.emits[rows[t]] = 0 THEN os ELSE [os EXCEPT ![g.emits[rows[t]]] = cells[member + rows[t]]],
           out, UpTo(Len(rows)))

EmitRun(g, cells, out, rows, member) ==
  FoldLeft(LAMBDA os, t : IF g.emits[rows[t]] = 0 THEN os ELSE [os EXCEPT ![g.emits[rows[t]]] = cells[member + t]],
           out, UpTo(Len(rows)))

(* A run of positions of one producer.  A last call with an epilogue goes  *)
(* straight into the accumulators, unless some member is an output.        *)
BlockMode(producer) == \A k \in DOMAIN producer.calls : producer.calls[k].op \notin Variadic

ProducerRun(producer, emits, st, rows, n, coefs, first, buffers) ==
  LET calls == producer.calls
      last == calls[Len(calls)]
      earlier == RunCalls(Front(calls), producer.seg, st.cells, 0, rows, Len(rows), NoBuffer)
      direct == BlockMode(producer) /\ last.epilogue /\ ~emits
      before == IF direct THEN Loaded(last, earlier, 0, rows, Len(rows))
                ELSE RunCall(last, producer.seg, earlier, 0, rows, Len(rows), buffers.member)
      values == [t \in DOMAIN coefs |-> IF direct THEN CallValue(last, producer.seg, before, rows[t], t) ELSE before[buffers.member + t]]
  IN [cells |-> AccumulateRun(values, before, n, coefs, first, buffers.acc),
      out |-> IF emits THEN EmitRun(producer, before, st.out, rows, buffers.member) ELSE st.out]

(* The runs of a block: positions of one producer, inside one chunk.       *)
RunsOf(block) ==
  FoldLeft(LAMBDA runs, k :
             IF runs # <<>> /\ (k - 1) % block.chunk # 0 /\ block.producers[k] = block.producers[k - 1]
             THEN Append(Front(runs), Append(Last(runs), k)) ELSE Append(runs, <<k>>),
           <<>>, UpTo(Len(block.producers)))

(* The members of a producer whose tables are laid out again in the order  *)
(* this reduction takes them begin at the offset of their first position.  *)
RowsOfRun_FromTheFirst(producer, g, block, ks) ==
  SubSeq(g.laid[block.producers[ks[1]]], 1, Len(MembersAt(g, block, ks)))

RowsOfRun(producer, g, block, ks) ==
  LET members == MembersAt(g, block, ks)
      laid == g.laid[block.producers[ks[1]]]
  IN IF BlockMode(producer) THEN SubSeq(laid, block.offsets[ks[1]] + 1, block.offsets[ks[1]] + Len(members))
     ELSE [t \in DOMAIN members |-> members[t] - producer.base]

RunOfPositions(groups, g, block, st, ks, buffers) ==
  LET d == block.producers[ks[1]]
      members == MembersAt(g, block, ks)
      n == Len(block.rows)
      coefs == CoefsAt(g, block, ks)
      first == g.calls[1].op = "Sum" /\ ks[1] = 1
      emits == IF BlockMode(groups[d]) THEN \E r \in Range(g.laid[d]) : groups[d].emits[r] # 0
                     ELSE \E r \in DOMAIN groups[d].emits : groups[d].emits[r] # 0
  IN IF d = 0 THEN [st EXCEPT !.cells = AccumulateRun([t \in DOMAIN members |-> st.cells[members[t]]], @, n, coefs, first, buffers.acc)]
     ELSE ProducerRun(groups[d], emits, st, RowsOfRun(groups[d], g, block, ks), n, coefs, first, buffers)

Settled(g, block, buffers, st) ==   \* the accumulators into the rows
  [st EXCEPT !.cells = FoldLeft(LAMBDA cs, i :
     [cs EXCEPT ![g.base + block.rows[i]] = Reduced(g.calls[1].op, cs[buffers.acc + i])], @, UpTo(Len(block.rows)))]
FusedBlock(groups, g, st, block, buffers) ==
  LET begun == [st EXCEPT !.cells = Begun(g, block, @, buffers.acc)]
  IN Settled(g, block, buffers,
             FoldLeft(LAMBDA s, ks : RunOfPositions(groups, g, block, s, ks, buffers), begun, RunsOf(block)))

GatheredBlock(g, cells, block) ==
  FoldLeft(LAMBDA cs, r : [cs EXCEPT ![g.base + r] = SegmentRow(g.calls[1].op, g.seg, cs, r)], cells, block.rows)

RunBlocks(groups, g, st, buffers) ==
  FoldLeft(LAMBDA s, block : IF block.fused THEN FusedBlock(groups, g, s, block, buffers)
                             ELSE [s EXCEPT !.cells = GatheredBlock(g, @, block)], st, g.blocks)

------------------------------------------------------------------------------
(* The outputs that are not emitted are copied from the value buffer, and  *)
(* the others of an emitted value from the one that is.                    *)
CopyOut_LateOnly(outputs, emittedAs, st) ==
  [o \in DOMAIN outputs |-> IF outputs[o] \notin DOMAIN emittedAs THEN st.cells[outputs[o]] ELSE st.out[o]]

CopyOut(outputs, emittedAs, st) ==
  [o \in DOMAIN outputs |->
     IF outputs[o] \notin DOMAIN emittedAs THEN st.cells[outputs[o]] ELSE st.out[emittedAs[outputs[o]]]]
------------------------------------------------------------------------------
(* The catalogue (catalogue/): the signature of the steps of a domain,     *)
(* blind to its numbers and tables; the tables of a domain in the order a  *)
(* generated kernel takes them; and what the kernel generated for a        *)
(* signature (tools/catalogue/codegen.cpp) computes from them.             *)

(* The shape of an operand of step k: its kind, and how many steps back.   *)
Back(slot, k) == IF slot[1] = "step" THEN k - slot[2] ELSE 0
ShapeOf(slot, k) == <<slot[1], Back(slot, k)>>

Rank == [none |-> 0, input |-> 0, step |-> 1, literal |-> 2, column |-> 3, gather |-> 4, segment |-> 5]
KeyLess(a, b) == Rank[a[1]] < Rank[b[1]] \/ (Rank[a[1]] = Rank[b[1]] /\ a[2] < b[2])

(* The operands of a commutative step are taken in the order of their      *)
(* shapes, by the signature and by the binding.                            *)
CanonicalSwap(st, k) ==
  st.op \in Commutative /\ KeyLess(ShapeOf(st.args[2], k), ShapeOf(st.args[1], k))

Canonical(st, k) == IF CanonicalSwap(st, k) THEN <<st.args[2], st.args[1]>> ELSE st.args

Cataloguable(dom) == \A k \in DOMAIN dom.steps : dom.steps[k].op # "Input"

SignatureOf(steps) ==
  [k \in DOMAIN steps |->
     [op |-> steps[k].op, args |-> [q \in DOMAIN steps[k].args |-> ShapeOf(Canonical(steps[k], k)[q], k)],
      konst |-> ShapeOf(steps[k].konst, k)]]

(* One entry for each operand of a kind, in the order of the steps: what   *)
(* two signatures cannot tell apart must fill the same places.             *)
Bound(dom, kind) ==
  LET slots == FlattenSeq([k \in DOMAIN dom.steps |-> Append(Canonical(dom.steps[k], k), dom.steps[k].konst)])
      tables == SelectSeq(slots, LAMBDA slot : slot[1] = kind)
  IN [n \in DOMAIN tables |->
        CASE kind = "literal" -> tables[n][2] [] kind = "column" -> dom.columns[tables[n][2]]
          [] kind = "gather" -> dom.gathers[tables[n][2]] [] kind = "segment" -> dom.segments[tables[n][2]]]

Binding(dom) ==
  [literals |-> Bound(dom, "literal"), columns |-> Bound(dom, "column"), gathers |-> Bound(dom, "gather"),
   segments |-> Bound(dom, "segment")]

(* A kernel is generated for any signature, but that a segment is read by  *)
(* the only step there is.                                                 *)
Generates(signature) ==
  \A k \in DOMAIN signature : \A q \in DOMAIN signature[k].args :
    signature[k].args[q][1] = "segment" => Len(signature) = 1

(* The kernel at row r.  It takes the operands of a kind one after the     *)
(* other; used counts those it has taken.                                  *)
TakeOperand(binding, r, cells, t, shape) ==
  LET n == t.used[shape[1]] + 1
      x == CASE shape[1] = "step" -> t.scratch[Len(t.scratch) + 1 - shape[2]]
             [] shape[1] = "literal" -> Meaning("Const", binding.literals[n], <<>>, <<>>)
             [] shape[1] = "column" -> Meaning("Const", binding.columns[n][r], <<>>, <<>>)
             [] shape[1] = "gather" -> cells[binding.gathers[n][r]]
  IN [t EXCEPT !.used[shape[1]] = n, !.xs = Append(@, x)]

KonstAt(binding, r, t, shape) ==
  LET n == t.used[shape[1]] + 1
  IN CASE shape[1] = "literal" -> binding.literals[n] [] shape[1] = "column" -> binding.columns[n][r] [] OTHER -> 0

KernelStep(binding, r, cells, t, sh) ==
  LET segmented == sh.args # <<>> /\ sh.args[1][1] = "segment"
      operands == FoldLeft(LAMBDA u, shape : TakeOperand(binding, r, cells, u, shape), t,
                           IF segmented THEN <<>> ELSE sh.args)
      members == binding.segments[1].members[r]
      value == Meaning(sh.op, KonstAt(binding, r, operands, sh.konst),
                       IF segmented THEN binding.segments[1].coefs[r] ELSE <<>>,
                       IF segmented THEN [m \in DOMAIN members |-> cells[members[m]]] ELSE operands.xs)
  IN [operands EXCEPT !.xs = <<>>, !.scratch = Append(@, value), !.used[sh.konst[1]] = @ + 1]

Kernel(signature, binding, r, cells) ==
  LET start == [scratch |-> <<>>, xs |-> <<>>, used |-> [kind \in DOMAIN Rank |-> 0]]
  IN Last(FoldLeft(LAMBDA t, sh : KernelStep(binding, r, cells, t, sh), start, signature).scratch)
------------------------------------------------------------------------------
(* The kernels that are built in (catalogue/generated/): the signature of  *)
(* each, by its name, in the order of the table.                           *)
StepShape(op, args, konst) == [op |-> op, args |-> args, konst |-> konst]

Generated ==
  LET Col == <<"column", 0>> Lit == <<"literal", 0>> Gat == <<"gather", 0>> Seg == <<"segment", 0>> Prev == <<"step", 1>>
      None == <<"none", 0>>
      Do(op, args) == StepShape(op, args, None)
  IN [kernel_05655c67bbabdf43 |-> <<Do("Mul", <<Col, Gat>>), Do("Mul", <<Prev, Gat>>)>>,
      kernel_12441ddee83dfe58 |-> <<Do("Mul", <<Lit, Gat>>)>>,
      kernel_1677ad68638cbcb9 |-> <<Do("Neg", <<Gat>>), Do("Exp", <<Prev>>)>>,
      kernel_2210126e5e3393f1 |-> <<Do("Mul", <<Gat, Gat>>), Do("Mul", <<Prev, Gat>>), Do("Sub", <<Prev, Lit>>), Do("Div", <<Prev, Col>>)>>,
      kernel_25bc072d1fea93a9 |-> <<Do("Sum", <<Seg>>)>>,
      kernel_340886b8281d784a |-> <<Do("Div", <<Gat, Gat>>), Do("Sub", <<Prev, Gat>>)>>,
      kernel_3e8edc686561d14e |-> <<Do("Sub", <<Lit, Lit>>), Do("Div", <<Prev, Lit>>), Do("Mul", <<Prev, Lit>>), Do("Mul", <<Prev, Gat>>)>>,
      kernel_41adba680d15745b |-> <<Do("Div", <<Gat, Lit>>), Do("Sub", <<Lit, Prev>>), Do("Sub", <<Gat, Prev>>)>>,
      kernel_4d3019c24c0d8044 |-> <<StepShape("Affine", <<Seg>>, Lit)>>,
      kernel_4deaa61a97cf0cb6 |-> <<Do("Mul", <<Gat, Gat>>)>>,
      kernel_4e7edebd795bcae0 |-> <<Do("Sum", <<Gat, Gat, Gat>>)>>,
      kernel_61135173ca950106 |-> <<Do("Mul", <<Col, Gat>>), Do("Sub", <<Prev, Lit>>), Do("Div", <<Prev, Col>>)>>,
      kernel_67bfed22409cf372 |-> <<Do("Neg", <<Gat>>), Do("Mul", <<Prev, Col>>), Do("Exp", <<Prev>>)>>,
      kernel_6a535eefecf825da |-> <<Do("Mul", <<Col, Gat>>), Do("Exp", <<Prev>>)>>,
      kernel_7e7e1f13a6b0e1ec |-> <<Do("Mul", <<Col, Col>>), Do("Mul", <<Prev, Gat>>)>>,
      kernel_803594e6390b7977 |-> <<Do("Sub", <<Gat, Gat>>)>>,
      kernel_85acf319c0f5f6b0 |-> <<Do("Mul", <<Gat, Gat>>), Do("Mul", <<Prev, Gat>>), Do("Sub", <<Prev, Lit>>), Do("Div", <<Prev, Lit>>), Do("Mul", <<Prev, Lit>>), Do("Mul", <<Prev, Gat>>)>>,
      kernel_8e424571576a8137 |-> <<Do("Div", <<Gat, Lit>>)>>,
      kernel_8e7aa74146ede084 |-> <<Do("Sum", <<Gat, Gat>>)>>,
      kernel_9743bc8d7c4102a4 |-> <<Do("Neg", <<Gat>>)>>,
      kernel_b14d97112d474dff |-> <<Do("Sub", <<Gat, Gat>>), Do("Mul", <<Prev, Lit>>)>>,
      kernel_bb876e73c39bcfcc |-> <<Do("Div", <<Gat, Col>>)>>,
      kernel_d2e944bd802a01a5 |-> <<Do("Div", <<Gat, Gat>>), Do("Mul", <<Prev, Gat>>), Do("Mul", <<Prev, Gat>>), Do("Sub", <<Prev, Lit>>), Do("Div", <<Prev, Lit>>)>>,
      kernel_d5b6eb8bdc669bfe |-> <<Do("Div", <<Gat, Gat>>), Do("Sub", <<Prev, Lit>>), Do("Div", <<Prev, Col>>)>>,
      kernel_dabfe6eb116e16a1 |-> <<Do("Sub", <<Gat, Lit>>)>>,
      kernel_dd2d4a5510d7a13d |-> <<Do("Sub", <<Gat, Lit>>), Do("Div", <<Prev, Col>>)>>,
      kernel_e8cc97762fcd1e61 |-> <<Do("Div", <<Gat, Gat>>)>>,
      kernel_f470d9c110757729 |-> <<Do("Mul", <<Col, Gat>>)>>,
      kernel_f8a1f6ca7418abbf |-> <<StepShape("Const", <<>>, Col)>>]

(* lookup.                                                                 *)
KernelsOf(signature) == {name \in DOMAIN Generated : Generated[name] = signature}

(* The body of each at row r of the tables it is bound to, one expression  *)
(* a step.  A row of a segment is folded from its first member, an Affine  *)
(* from its number.                                                        *)
LitOf(b, n) == Meaning("Const", b.literals[n], <<>>, <<>>)
ColOf(b, n, r) == Meaning("Const", b.columns[n][r], <<>>, <<>>)
GatOf(b, n, r, cells) == cells[b.gathers[n][r]]
Do1(op, x) == Meaning(op, 0, <<>>, <<x>>)
Do2(op, x, y) == Meaning(op, 0, <<>>, <<x, y>>)
SegOf(b, r, cells) == [m \in DOMAIN b.segments[1].members[r] |-> cells[b.segments[1].members[r][m]]]

kernel_05655c67bbabdf43(b, r, cells) ==
  LET s0 == Do2("Mul", ColOf(b, 1, r), GatOf(b, 1, r, cells))
  IN Do2("Mul", s0, GatOf(b, 2, r, cells))
kernel_12441ddee83dfe58(b, r, cells) == Do2("Mul", LitOf(b, 1), GatOf(b, 1, r, cells))
kernel_1677ad68638cbcb9(b, r, cells) ==
  LET s0 == Do1("Neg", GatOf(b, 1, r, cells))
  IN Do1("Exp", s0)
kernel_2210126e5e3393f1(b, r, cells) ==
  LET s0 == Do2("Mul", GatOf(b, 1, r, cells), GatOf(b, 2, r, cells))
      s1 == Do2("Mul", s0, GatOf(b, 3, r, cells))
      s2 == Do2("Sub", s1, LitOf(b, 1))
  IN Do2("Div", s2, ColOf(b, 1, r))
kernel_25bc072d1fea93a9(b, r, cells) ==
  LET xs == SegOf(b, r, cells) IN FoldLeft(LAMBDA s0, x : Do2("Add", s0, x), xs[1], Tail(xs))
kernel_340886b8281d784a(b, r, cells) ==
  LET s0 == Do2("Div", GatOf(b, 1, r, cells), GatOf(b, 2, r, cells))
  IN Do2("Sub", s0, GatOf(b, 3, r, cells))
kernel_3e8edc686561d14e(b, r, cells) ==
  LET s0 == Do2("Sub", LitOf(b, 1), LitOf(b, 2))
      s1 == Do2("Div", s0, LitOf(b, 3))
      s2 == Do2("Mul", s1, LitOf(b, 4))
  IN Do2("Mul", s2, GatOf(b, 1, r, cells))
kernel_41adba680d15745b_Swapped(b, r, cells) ==
  LET s0 == Do2("Div", GatOf(b, 1, r, cells), LitOf(b, 1))
      s1 == Do2("Sub", s0, LitOf(b, 2))
  IN Do2("Sub", GatOf(b, 2, r, cells), s1)
kernel_41adba680d15745b(b, r, cells) ==
  LET s0 == Do2("Div", GatOf(b, 1, r, cells), LitOf(b, 1))
      s1 == Do2("Sub", LitOf(b, 2), s0)
  IN Do2("Sub", GatOf(b, 2, r, cells), s1)
kernel_4d3019c24c0d8044(b, r, cells) == Meaning("Affine", b.literals[1], b.segments[1].coefs[r], SegOf(b, r, cells))
kernel_4deaa61a97cf0cb6(b, r, cells) == Do2("Mul", GatOf(b, 1, r, cells), GatOf(b, 2, r, cells))
kernel_4e7edebd795bcae0(b, r, cells) == Do2("Add", Do2("Add", GatOf(b, 1, r, cells), GatOf(b, 2, r, cells)), GatOf(b, 3, r, cells))
kernel_61135173ca950106(b, r, cells) ==
  LET s0 == Do2("Mul", ColOf(b, 1, r), GatOf(b, 1, r, cells))
      s1 == Do2("Sub", s0, LitOf(b, 1))
  IN Do2("Div", s1, ColOf(b, 2, r))
kernel_67bfed22409cf372(b, r, cells) ==
  LET s0 == Do1("Neg", GatOf(b, 1, r, cells))
      s1 == Do2("Mul", s0, ColOf(b, 1, r))
  IN Do1("Exp", s1)
kernel_6a535eefecf825da(b, r, cells) ==
  LET s0 == Do2("Mul", ColOf(b, 1, r), GatOf(b, 1, r, cells))
  IN Do1("Exp", s0)
kernel_7e7e1f13a6b0e1ec(b, r, cells) ==
  LET s0 == Do2("Mul", ColOf(b, 1, r), ColOf(b, 2, r))
  IN Do2("Mul", s0, GatOf(b, 1, r, cells))
kernel_803594e6390b7977(b, r, cells) == Do2("Sub", GatOf(b, 1, r, cells), GatOf(b, 2, r, cells))
kernel_85acf319c0f5f6b0(b, r, cells) ==
  LET s0 == Do2("Mul", GatOf(b, 1, r, cells), GatOf(b, 2, r, cells))
      s1 == Do2("Mul", s0, GatOf(b, 3, r, cells))
      s2 == Do2("Sub", s1, LitOf(b, 1))
      s3 == Do2("Div", s2, LitOf(b, 2))
      s4 == Do2("Mul", s3, LitOf(b, 3))
  IN Do2("Mul", s4, GatOf(b, 4, r, cells))
kernel_8e424571576a8137(b, r, cells) == Do2("Div", GatOf(b, 1, r, cells), LitOf(b, 1))
kernel_8e7aa74146ede084(b, r, cells) == Do2("Add", GatOf(b, 1, r, cells), GatOf(b, 2, r, cells))
kernel_9743bc8d7c4102a4(b, r, cells) == Do1("Neg", GatOf(b, 1, r, cells))
kernel_b14d97112d474dff(b, r, cells) ==
  LET s0 == Do2("Sub", GatOf(b, 1, r, cells), GatOf(b, 2, r, cells))
  IN Do2("Mul", s0, LitOf(b, 1))
kernel_bb876e73c39bcfcc(b, r, cells) == Do2("Div", GatOf(b, 1, r, cells), ColOf(b, 1, r))
kernel_d2e944bd802a01a5(b, r, cells) ==
  LET s0 == Do2("Div", GatOf(b, 1, r, cells), GatOf(b, 2, r, cells))
      s1 == Do2("Mul", s0, GatOf(b, 3, r, cells))
      s2 == Do2("Mul", s1, GatOf(b, 4, r, cells))
      s3 == Do2("Sub", s2, LitOf(b, 1))
  IN Do2("Div", s3, LitOf(b, 2))
kernel_d5b6eb8bdc669bfe(b, r, cells) ==
  LET s0 == Do2("Div", GatOf(b, 1, r, cells), GatOf(b, 2, r, cells))
      s1 == Do2("Sub", s0, LitOf(b, 1))
  IN Do2("Div", s1, ColOf(b, 1, r))
kernel_dabfe6eb116e16a1(b, r, cells) == Do2("Sub", GatOf(b, 1, r, cells), LitOf(b, 1))
kernel_dd2d4a5510d7a13d(b, r, cells) ==
  LET s0 == Do2("Sub", GatOf(b, 1, r, cells), LitOf(b, 1))
  IN Do2("Div", s0, ColOf(b, 1, r))
kernel_e8cc97762fcd1e61(b, r, cells) == Do2("Div", GatOf(b, 1, r, cells), GatOf(b, 2, r, cells))
kernel_f470d9c110757729(b, r, cells) == Do2("Mul", ColOf(b, 1, r), GatOf(b, 1, r, cells))
kernel_f8a1f6ca7418abbf(b, r, cells) == ColOf(b, 1, r)

GeneratedKernel(name, b, r, cells) ==
  CASE name = "kernel_05655c67bbabdf43" -> kernel_05655c67bbabdf43(b, r, cells)
    [] name = "kernel_12441ddee83dfe58" -> kernel_12441ddee83dfe58(b, r, cells)
    [] name = "kernel_1677ad68638cbcb9" -> kernel_1677ad68638cbcb9(b, r, cells)
    [] name = "kernel_2210126e5e3393f1" -> kernel_2210126e5e3393f1(b, r, cells)
    [] name = "kernel_25bc072d1fea93a9" -> kernel_25bc072d1fea93a9(b, r, cells)
    [] name = "kernel_340886b8281d784a" -> kernel_340886b8281d784a(b, r, cells)
    [] name = "kernel_3e8edc686561d14e" -> kernel_3e8edc686561d14e(b, r, cells)
    [] name = "kernel_41adba680d15745b" -> kernel_41adba680d15745b(b, r, cells)
    [] name = "kernel_4d3019c24c0d8044" -> kernel_4d3019c24c0d8044(b, r, cells)
    [] name = "kernel_4deaa61a97cf0cb6" -> kernel_4deaa61a97cf0cb6(b, r, cells)
    [] name = "kernel_4e7edebd795bcae0" -> kernel_4e7edebd795bcae0(b, r, cells)
    [] name = "kernel_61135173ca950106" -> kernel_61135173ca950106(b, r, cells)
    [] name = "kernel_67bfed22409cf372" -> kernel_67bfed22409cf372(b, r, cells)
    [] name = "kernel_6a535eefecf825da" -> kernel_6a535eefecf825da(b, r, cells)
    [] name = "kernel_7e7e1f13a6b0e1ec" -> kernel_7e7e1f13a6b0e1ec(b, r, cells)
    [] name = "kernel_803594e6390b7977" -> kernel_803594e6390b7977(b, r, cells)
    [] name = "kernel_85acf319c0f5f6b0" -> kernel_85acf319c0f5f6b0(b, r, cells)
    [] name = "kernel_8e424571576a8137" -> kernel_8e424571576a8137(b, r, cells)
    [] name = "kernel_8e7aa74146ede084" -> kernel_8e7aa74146ede084(b, r, cells)
    [] name = "kernel_9743bc8d7c4102a4" -> kernel_9743bc8d7c4102a4(b, r, cells)
    [] name = "kernel_b14d97112d474dff" -> kernel_b14d97112d474dff(b, r, cells)
    [] name = "kernel_bb876e73c39bcfcc" -> kernel_bb876e73c39bcfcc(b, r, cells)
    [] name = "kernel_d2e944bd802a01a5" -> kernel_d2e944bd802a01a5(b, r, cells)
    [] name = "kernel_d5b6eb8bdc669bfe" -> kernel_d5b6eb8bdc669bfe(b, r, cells)
    [] name = "kernel_dabfe6eb116e16a1" -> kernel_dabfe6eb116e16a1(b, r, cells)
    [] name = "kernel_dd2d4a5510d7a13d" -> kernel_dd2d4a5510d7a13d(b, r, cells)
    [] name = "kernel_e8cc97762fcd1e61" -> kernel_e8cc97762fcd1e61(b, r, cells)
    [] name = "kernel_f470d9c110757729" -> kernel_f470d9c110757729(b, r, cells)
    [] name = "kernel_f8a1f6ca7418abbf" -> kernel_f8a1f6ca7418abbf(b, r, cells)

(* What runs for a domain of this signature: the kernel built in, if there *)
(* is one, else the one the generator would write.                         *)
CatalogueKernel(signature, binding, r, cells) ==
  IF KernelsOf(signature) = {} THEN Kernel(signature, binding, r, cells)
  ELSE GeneratedKernel(CHOOSE name \in KernelsOf(signature) : TRUE, binding, r, cells)
=============================================================================
