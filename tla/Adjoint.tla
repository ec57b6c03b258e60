------------------------------ MODULE Adjoint ------------------------------
(***************************************************************************)
(* The adjoint runtime (adjoint/plan.cpp, adjoint/adjoint_e0.cpp): a       *)
(* forward pass over a program that keeps the value of every row, then the *)
(* domains backwards.  The adjoint of a value is pulled from the edge      *)
(* slots of the gathers and segments that read it; a row's steps, last to  *)
(* first, accumulate into the adjoints of earlier steps and into the edge  *)
(* slots of the row.                                                       *)
(*                                                                         *)
(* One lane of a chunk stands for them all.  The rows of a tile go through *)
(* each step together and none reads another, so they are taken one after  *)
(* the other.  The buffers belong to the object: a chunk finds in them     *)
(* what the last one left.                                                 *)
(***************************************************************************)
EXTENDS Kernels, Integers, Sequences, FiniteSets, Folds

------------------------------------------------------------------------------
(* Numbers, and forward-mode derivatives of them (scalar/dual.hpp).        *)
(*                                                                         *)
(* The numbers are the residues of a prime: a field, where the rules of    *)
(* differentiation are identities between rational functions and two       *)
(* different ones seldom agree by chance.  The functions no field has are  *)
(* stood for by maps of the residues: their derivative is whatever the     *)
(* rule says it is.  What the code rounds is not modelled.                 *)
Prime == 101
Residue(a) == a % Prime
Times(a, b) == (a * b) % Prime
Reciprocals == [a \in 0..(Prime - 1) |-> IF a = 0 THEN 0 ELSE CHOOSE b \in 1..(Prime - 1) : Times(a, b) = 1]
Over(a, b) == Times(a, Reciprocals[b])
Minus(a) == (0 - a) % Prime
Half == Reciprocals[2]

Transcendental(op, a) ==
  CASE op = "Exp" -> (a * a * a + 5 * a + 1) % Prime
    [] op = "Log" -> (2 * a * a + 7 * a + 3) % Prime
    [] op = "Sqrt" -> (a * a + 11 * a + 17) % Prime

(* The terms of a sum, from the left.                                      *)
Total(first, n, Nth(_)) ==
  LET f[k \in 0..n] == IF k = 0 THEN first ELSE LET so_far == f[k - 1] IN (so_far + Nth(k)) % Prime IN f[n]

(* What an operation gives.  The value of the k-th input is up to the lane *)
(* it is in: its number, the one output that is seeded in it (0 if all     *)
(* are) and the input that is moved a little (0 if none is).               *)
Lane(n) == [number |-> n, only |-> 0, moved |-> 0]
FdStep == 7
Given(k, lane) == (10 + 13 * k * k + 29 * lane.number + (IF k = lane.moved THEN FdStep ELSE 0)) % Prime

NumberOf(op, konst, coefs, x) ==
  CASE op = "Const" -> Residue(konst)
    [] op = "Input" -> Given(konst, Lane(1))
    [] op = "Add" -> Residue(x[1] + x[2])
    [] op = "Sub" -> Residue(x[1] - x[2])
    [] op = "Mul" -> Times(x[1], x[2])
    [] op = "Div" -> Over(x[1], x[2])
    [] op = "Neg" -> Minus(x[1])
    [] op = "Recip" -> Reciprocals[x[1]]
    [] op = "Fma" -> Residue(Times(x[1], x[2]) + x[3])
    [] op = "CmpLt" -> IF x[1] < x[2] THEN 1 ELSE 0
    [] op = "CmpEq" -> IF x[1] = x[2] THEN 1 ELSE 0
    [] op = "Select" -> IF x[1] # 0 THEN x[2] ELSE x[3]
    [] op = "Sum" -> Total(0, Len(x), LAMBDA k : x[k])
    [] op = "Affine" -> Total(Residue(konst), Len(x), LAMBDA k : coefs[k] * x[k])
    [] OTHER -> Transcendental(op, x[1])

(***************************************************************************)
(* A dual is a value v and its derivative d along one direction.           *)
(***************************************************************************)
Dual(v, d) == [v |-> v, d |-> Residue(d)]
Variable(v) == Dual(v, 1)
Fixed(v) == Dual(v, 0)

Slopes(op, y, x) ==
  CASE op = "Recip" -> 0 - Times(Times(y, y), x[1].d)
    [] op = "Exp" -> Times(y, x[1].d)
    [] op = "Log" -> Over(x[1].d, x[1].v)
    [] op = "Sqrt" -> Over(x[1].d, Times(2, y))

(* The derivative of a result y: linear in the derivatives of the operands *)
(* of it, but where a branch is taken.  A comparison has none.             *)
DerivativeOf(op, y, coefs, x) ==
  CASE op \in {"Const", "CmpLt", "CmpEq"} -> 0
    [] op = "Add" -> x[1].d + x[2].d
    [] op = "Sub" -> x[1].d - x[2].d
    [] op = "Mul" -> x[1].d * x[2].v + x[1].v * x[2].d
    [] op = "Div" -> Over(Residue(x[1].d - Times(y, x[2].d)), x[2].v)
    [] op = "Neg" -> 0 - x[1].d
    [] op = "Fma" -> x[1].d * x[2].v + x[1].v * x[2].d + x[3].d
    [] op = "Select" -> IF x[1].v # 0 THEN x[2].d ELSE x[3].d
    [] op = "Sum" -> Total(0, Len(x), LAMBDA k : x[k].d)
    [] op = "Affine" -> Total(0, Len(x), LAMBDA k : coefs[k] * x[k].d)
    [] OTHER -> Slopes(op, y, x)

Applied(op, konst, coefs, x) ==
  LET y == NumberOf(op, konst, coefs, [k \in DOMAIN x |-> x[k].v]) IN Dual(y, DerivativeOf(op, y, coefs, x))

------------------------------------------------------------------------------
Numbers == INSTANCE Kernels WITH Meaning <- NumberOf

------------------------------------------------------------------------------
(* build_plan.                                                             *)
OnlyStep(dom, op) == Len(dom.steps) = 1 /\ dom.steps[1].op = op
ReadersOfSegment(dom, k) ==
  {<<j, q>> \in (DOMAIN dom.steps) \X {1, 2, 3} : q \in DOMAIN dom.steps[j].args /\ dom.steps[j].args[q] = Segment(k)}

(* What has no adjoint: a recurrence that is no scan, and a segment two    *)
(* steps read.                                                             *)
Differentiable(p) ==
  \A d \in DOMAIN p.domains :
    /\ Recurrent(p, d) => Scans(p.domains[d])
    /\ \A k \in DOMAIN p.domains[d].segments : Cardinality(ReadersOfSegment(p.domains[d], k)) <= 1

SegmentIsAffine(dom, k) == \E j \in DOMAIN dom.steps : dom.steps[j].op = "Affine" /\ dom.steps[j].args[1] = Segment(k)

(* The entries of the tables of a program where value v is read, in the    *)
(* order of the tables: the outputs, the gathers, the segments of sums and *)
(* those of linear maps.                                                   *)
ReadsOf(p, v) ==
  LET outputs == SelectSeq([o \in DOMAIN p.outputs |-> o], LAMBDA o : p.outputs[o] = v)
      rows(d) == [r \in 1..p.domains[d].rows |-> r]
      gathers ==
        FlattenSeq([d \in DOMAIN p.domains |-> FlattenSeq([k \in DOMAIN p.domains[d].gathers |->
          LET hits == SelectSeq(rows(d), LAMBDA r : p.domains[d].gathers[k][r] = v)
          IN [n \in DOMAIN hits |-> [edge |-> <<d, k, hits[n]>>, coef |-> 1]]])])
      segments(affine) ==
        FlattenSeq([d \in DOMAIN p.domains |-> FlattenSeq([k \in DOMAIN p.domains[d].segments |->
          IF SegmentIsAffine(p.domains[d], k) # affine THEN <<>>
          ELSE FlattenSeq([r \in 1..p.domains[d].rows |->
            LET seg == p.domains[d].segments[k]
                hits == SelectSeq([m \in DOMAIN seg.members[r] |-> m], LAMBDA m : seg.members[r][m] = v)
            IN [n \in DOMAIN hits |-> [edge |-> <<d, k, r>>, coef |-> IF affine THEN seg.coefs[r][hits[n]] ELSE 1]]])])])
  IN [outputs |-> outputs, gathers |-> gathers, sums |-> segments(FALSE), affines |-> segments(TRUE)]

(* A coefficient is looked up by the reader's place, not the member's.     *)
Readers_NotTransposed(p) ==
  [v \in 1..NumValues(p) |->
     LET reads == ReadsOf(p, v)
     IN [reads EXCEPT !.affines = [n \in DOMAIN @ |->
           [@[n] EXCEPT !.coef = p.domains[reads.affines[n].edge[1]].segments[reads.affines[n].edge[2]].coefs[reads.affines[n].edge[3]][1]]]]]

ReadersOf(p) == [v \in 1..NumValues(p) |-> ReadsOf(p, v)]

------------------------------------------------------------------------------
(* The buffers: an edge slot for each row of each gather and segment.      *)
Steps(p) == Max({Len(p.domains[d].steps) : d \in DOMAIN p.domains})
PerTable(p, Tables(_)) ==
  [d \in DOMAIN p.domains |-> [k \in 1..Tables(p.domains[d]) |-> [r \in 1..p.domains[d].rows |-> 0]]]
FreshBuffers(p) ==
  [values |-> [v \in 1..NumValues(p) |-> 0], vbar |-> [v \in 1..NumValues(p) |-> 0],
   gbar |-> PerTable(p, LAMBDA dom : Len(dom.gathers)), segbar |-> PerTable(p, LAMBDA dom : Len(dom.segments)),
   mat |-> PerTable(p, LAMBDA dom : Len(dom.steps) - 1),
   fs |-> [k \in 1..Steps(p) |-> 0], sbar |-> [k \in 1..Steps(p) |-> 0],
   ops |-> [k \in 1..Steps(p) |-> <<0, 0, 0>>],
   state_bar |-> [k \in DOMAIN p.inputs |-> 0], out |-> [o \in DOMAIN p.outputs |-> 0]]

(* Operand q of step k: an earlier step's value, or what was loaded.       *)
Loads(st) == {q \in DOMAIN st.args : st.args[q][1] \in {"literal", "column", "gather"}}
LoadOperands(p, d, r, m, k, which) ==
  LET st == p.domains[d].steps[k]
      Fresh(q) == IF q \in Loads(st) \cap which THEN Numbers!Fetch(p.domains[d], r, m.fs, m.values, st.args[q])
                   ELSE m.ops[k][q]
  IN [m EXCEPT !.ops[k] = <<Fresh(1), Fresh(2), Fresh(3)>>]
OperandAt(p, d, m, k, q) ==
  LET slot == p.domains[d].steps[k].args[q] IN IF slot[1] = "step" THEN m.fs[slot[2]] ELSE m.ops[k][q]

(* forward_step: the operands are loaded, and the value computed.          *)
ForwardValue(p, d, r, m, k, lane) ==
  IF p.domains[d].steps[k].op = "Input" THEN Given(Ordinal(p, ValueOf(p, d, r)), lane)
  ELSE Numbers!StepValue(p, d, r, m.fs, m.values, p.domains[d].steps[k])
ForwardStep(p, d, r, m, k, lane) ==
  LET y == ForwardValue(p, d, r, m, k, lane)
      loaded == LoadOperands(p, d, r, m, k, 1..3)
  IN IF k = Len(p.domains[d].steps) THEN [loaded EXCEPT !.values[ValueOf(p, d, r)] = y]
     ELSE [loaded EXCEPT !.fs[k] = y]

(* Intermediate step k of the row, kept for the reverse pass.              *)
Materialised(d, r, m, k) == [m EXCEPT !.mat[d][k][r] = m.fs[k]]

ForwardRow(p, d, r, m, options, lane) ==
  LET n == Len(p.domains[d].steps)
  IN FoldLeft(LAMBDA b, k : LET done == ForwardStep(p, d, r, b, k, lane)
                            IN IF "materialise_steps" \in options /\ k < n THEN Materialised(d, r, done, k) ELSE done,
              m, [k \in 1..n |-> k])

(* A kernel gives the values alone: the intermediates follow when the      *)
(* reverse pass is to find them.                                           *)
CataloguedForward_ValuesOnly(p, d, m, options, lane) ==
  LET dom == p.domains[d]
      rows == [r \in 1..dom.rows |-> r]
  IN FoldLeft(LAMBDA b, r : [b EXCEPT !.values[ValueOf(p, d, r)] =
                       Numbers!CatalogueKernel(SignatureOf(dom.steps), Binding(dom), r, b.values)], m, rows)

CataloguedForward(p, d, m, options, lane) ==
  LET dom == p.domains[d]
      rows == [r \in 1..dom.rows |-> r]
      Row(b, r) == FoldLeft(LAMBDA c, k : Materialised(d, r, ForwardStep(p, d, r, c, k, lane), k), b,
                            [k \in 1..(Len(dom.steps) - 1) |-> k])
  IN FoldLeft(Row, FoldLeft(LAMBDA b, r : [b EXCEPT !.values[ValueOf(p, d, r)] =
                              Numbers!CatalogueKernel(SignatureOf(dom.steps), Binding(dom), r, b.values)], m, rows),
              IF "materialise_steps" \in options THEN rows ELSE <<>>)

ForwardDomain(p, d, m, options, lane) ==
  IF "catalogue" \in options /\ Cataloguable(p.domains[d]) /\ Generates(SignatureOf(p.domains[d].steps))
  THEN CataloguedForward(p, d, m, options, lane)
  ELSE FoldLeft(LAMBDA b, r : ForwardRow(p, d, r, b, options, lane), m, [r \in 1..p.domains[d].rows |-> r])

WithOutputs(p, m) == [m EXCEPT !.out = [o \in DOMAIN p.outputs |-> m.values[p.outputs[o]]]]

ForwardPass(p, m, options, lane) ==
  WithOutputs(p, FoldLeft(LAMBDA b, d : ForwardDomain(p, d, b, options, lane), m, [d \in DOMAIN p.domains |-> d]))

------------------------------------------------------------------------------
(* pull: the seeds and the edge slots that read value v, from zero or from *)
(* the first of them.                                                      *)
Seed(p, o, lane) ==
  IF lane.only = 0 THEN Given(Len(p.inputs) + o, lane) ELSE IF lane.only = o THEN 1 ELSE 0
AtEdge(bar, e) == Times(e.coef, bar[e.edge[1]][e.edge[2]][e.edge[3]])

Pull(p, readers, m, v, seeded, lane) ==
  LET reads == readers[v]
      terms == [n \in DOMAIN reads.outputs |-> Seed(p, reads.outputs[n], lane)]
                 \o [n \in DOMAIN reads.gathers |-> AtEdge(m.gbar, reads.gathers[n])]
                 \o [n \in DOMAIN reads.sums |-> AtEdge(m.segbar, reads.sums[n])]
                 \o [n \in DOMAIN reads.affines |-> AtEdge(m.segbar, reads.affines[n])]
  IN IF seeded /\ terms # <<>> THEN Total(terms[1], Len(terms) - 1, LAMBDA n : terms[n + 1])
     ELSE Total(0, Len(terms), LAMBDA n : terms[n])

(* The rule of an operation: what operand q gains, for each operand that   *)
(* gains something, in order.                                              *)
To(q, gain) == [to |-> q, gain |-> Residue(gain)]

Rule(st, a, b, y, ybar) ==
  LET aliased == Len(st.args) > 1 /\ st.args[1] = st.args[2] /\ st.args[1][1] \in {"step", "gather"}
      t == Over(ybar, b)
  IN CASE st.op = "Add" -> <<To(1, ybar), To(2, ybar)>>
       [] st.op = "Sub" -> <<To(1, ybar), To(2, 0 - ybar)>>
       [] st.op = "Mul" -> <<To(1, ybar * b), To(2, ybar * a)>>
       [] st.op = "Div" /\ aliased -> <<To(1, t * (1 - y))>>
       [] st.op = "Div" -> <<To(1, t), To(2, 0 - t * y)>>
       [] st.op = "Neg" -> <<To(1, 0 - ybar)>>
       [] st.op = "Exp" -> <<To(1, ybar * y)>>
       [] st.op = "Log" -> <<To(1, Over(ybar, a))>>
       [] st.op = "Sqrt" -> <<To(1, Over(Times(Half, ybar), y))>>
       [] st.op = "Recip" -> <<To(1, 0 - Times(ybar, y) * y)>>
       [] st.op = "Fma" -> <<To(1, ybar * b), To(2, ybar * a), To(3, ybar)>>
       [] st.op = "Select" -> <<To(2, IF a # 0 THEN ybar ELSE 0), To(3, IF a # 0 THEN 0 ELSE ybar)>>
       [] st.op \in Variadic -> [q \in DOMAIN st.args |-> To(q, ybar)]
       [] OTHER -> <<>>

(* An operand that is a step, a gather or a segment has a place to gain    *)
(* in; a number has none.                                                  *)
Gain(d, r, m, slot, gain) ==
  CASE slot[1] = "step" -> [m EXCEPT !.sbar[slot[2]] = Residue(@ + gain)]
    [] slot[1] = "gather" -> [m EXCEPT !.gbar[d][slot[2]][r] = Residue(@ + gain)]
    [] slot[1] = "segment" -> [m EXCEPT !.segbar[d][slot[2]][r] = Residue(@ + gain)]
    [] OTHER -> m

ReverseStep(p, d, r, m, k) ==
  LET dom == p.domains[d]
      st == dom.steps[k]
      v == ValueOf(p, d, r)
      last == Len(dom.steps)
      ybar == IF k = last THEN m.vbar[v] ELSE m.sbar[k]
      y == IF k = last THEN m.values[v] ELSE m.fs[k]
      OperandOf(q) == IF q \in DOMAIN st.args /\ st.args[q][1] # "segment" THEN OperandAt(p, d, m, k, q) ELSE 0
  IN IF st.op = "Input" THEN [m EXCEPT !.state_bar[Ordinal(p, v)] = ybar]
     ELSE FoldLeft(LAMBDA b, g : Gain(d, r, b, st.args[g.to], g.gain), m, Rule(st, OperandOf(1), OperandOf(2), y, ybar))

(* prepare_steps: the intermediates of the row are computed again, or what *)
(* the forward pass kept is copied back and the operands the rules read    *)
(* are loaded.                                                             *)
ReadsOperands(st) == st.op \notin {"Const", "Input", "CmpLt", "CmpEq"} \cup Variadic

PrepareStep_NoLoad(p, d, r, m, k, options, lane) ==
  IF "materialise_steps" \notin options THEN ForwardStep(p, d, r, m, k, lane) ELSE [m EXCEPT !.fs[k] = m.mat[d][k][r]]

PrepareStep(p, d, r, m, k, options, lane) ==
  LET loaded == IF ReadsOperands(p.domains[d].steps[k]) THEN LoadOperands(p, d, r, m, k, {1, 2}) ELSE m
  IN IF "materialise_steps" \notin options THEN ForwardStep(p, d, r, m, k, lane)
     ELSE [loaded EXCEPT !.fs[k] = m.mat[d][k][r]]

(* The slots the row gains in start at zero.                               *)
Zeroed_KeepsEdges(p, d, r, m) ==
  LET n == Len(p.domains[d].steps) IN [m EXCEPT !.sbar = Build(Len(@), LAMBDA done, k : IF k < n THEN 0 ELSE m.sbar[k])]

Zeroed(p, d, r, m) ==
  LET n == Len(p.domains[d].steps)
  IN [m EXCEPT !.sbar = Build(Len(@), LAMBDA done, k : IF k < n THEN 0 ELSE m.sbar[k]),
               !.gbar[d] = Build(Len(@), LAMBDA done, k : [m.gbar[d][k] EXCEPT ![r] = 0]),
               !.segbar[d] = Build(Len(@), LAMBDA done, k : [m.segbar[d][k] EXCEPT ![r] = 0])]

ReverseRow(p, readers, d, r, m, options, lane) ==
  LET dom == p.domains[d]
      v == ValueOf(p, d, r)
      n == Len(dom.steps)
      seeded == "seed_pull" \in options /\ ~OnlyStep(dom, "Input")
      pulled == [m EXCEPT !.vbar[v] = Pull(p, readers, m, v, seeded, lane)]
      prepared == FoldLeft(LAMBDA b, k : PrepareStep(p, d, r, b, k, options, lane), pulled, [k \in 1..(n - 1) |-> k])
      loaded == LoadOperands(p, d, r, prepared, n, 1..3)
  IN IF OnlyStep(dom, "Const") THEN pulled
     ELSE FoldLeft(LAMBDA b, k : ReverseStep(p, d, r, b, n + 1 - k), Zeroed(p, d, r, loaded), [k \in 1..n |-> k])

(* The rows of a scan from the last to the first: the edge slot of the     *)
(* carry of the next row is the adjoint it carries to this one.            *)
RowOrder_Forward(dom) == [r \in 1..dom.rows |-> r]
RowOrder(dom) == [r \in 1..dom.rows |-> IF Scans(dom) THEN dom.rows + 1 - r ELSE r]

ReverseDomain(p, readers, d, m, options, lane) ==
  FoldLeft(LAMBDA b, r : ReverseRow(p, readers, d, r, b, options, lane), m, RowOrder(p.domains[d]))

ReversePass(p, readers, m, options, lane) ==
  LET n == Len(p.domains)
  IN FoldLeft(LAMBDA b, d : ReverseDomain(p, readers, n + 1 - d, b, options, lane),
              [m EXCEPT !.state_bar = [k \in DOMAIN @ |-> 0]], [d \in 1..n |-> d])

RunChunk(p, readers, m, options, lane) == ReversePass(p, readers, ForwardPass(p, m, options, lane), options, lane)

------------------------------------------------------------------------------
(* The derivative a tape has: a pass over its nodes on duals for each of   *)
(* its inputs, weighed by the seeds of its outputs.                        *)
NodeDuals(s, input, lane) ==
  Build(Len(s), LAMBDA done, i :
    IF s[i].op = "Input"
    THEN LET x == Given(s[i].konst, lane) IN IF s[i].konst = input THEN Variable(x) ELSE Fixed(x)
    ELSE Applied(s[i].op, s[i].konst, s[i].coefs, [q \in DOMAIN s[i].args |-> done[s[i].args[q]]]))

ForwardMode(s, os, n, lane) ==
  LET duals == [k \in 0..n |-> NodeDuals(s, k, lane)]
  IN [out |-> [o \in DOMAIN os |-> duals[0][os[o]].v],
      gradient |-> [k \in 1..n |-> Total(0, Len(os), LAMBDA o : Given(n + o, lane) * duals[k][os[o]].d)]]
=============================================================================
