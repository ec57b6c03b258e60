--------------------------- MODULE AdjointProgram ---------------------------
(***************************************************************************)
(* adjoint_to_program (adjoint/adjoint_to_program_e0.cpp): the program     *)
(* that computes the outputs of a program and, from the seeds of them,     *)
(* the adjoints of its inputs.  Its domains are the steps of the forward   *)
(* program, one domain each, then the pulls and accumulations of the       *)
(* reverse pass, last domain first.  A scan is one domain, and so is the   *)
(* chain of its reverse from the adjoint of a row to that of its carry.    *)
(*                                                                         *)
(* e is what has been emitted: the domains, and where in them a forward    *)
(* step, value, edge slot or adjoint is.                                   *)
(***************************************************************************)
EXTENDS Adjoint

(* An operand of an emitted step: a slot of its domain as it is, a number, *)
(* a number for each row or a value for each row.                          *)
Direct(slot) == <<"direct", slot>>
Lit(c) == <<"literal", c>>
Numerals(numbers) == <<"column", numbers>>
Vals(values) == <<"values", values>>

Opened(e, rows) ==
  [e EXCEPT !.domains = Append(@, [columns |-> <<>>, steps |-> <<>>, rows |-> rows, carry |-> 0,
                                   gathers |-> <<>>, segments |-> <<>>, scan |-> <<>>])]

WithSlot(acc, o) ==   \* a domain, and the slots of the operands so far
  LET dom == acc.dom
  IN CASE o[1] = "direct" -> [acc EXCEPT !.slots = Append(@, o[2])]
       [] o[1] = "literal" -> [acc EXCEPT !.slots = Append(@, Literal(o[2]))]
       [] o[1] = "column" -> [dom |-> [dom EXCEPT !.columns = Append(@, o[2])],
                              slots |-> Append(acc.slots, Column(Len(dom.columns) + 1))]
       [] o[1] = "values" -> [dom |-> [dom EXCEPT !.gathers = Append(@, o[2])],
                              slots |-> Append(acc.slots, Gather(Len(dom.gathers) + 1))]

(* A step at the end of the last domain emitted.                           *)
PushStep(e, op, operands) ==
  LET n == Len(e.domains)
      all == FoldLeft(WithSlot, [dom |-> e.domains[n], slots |-> <<>>], operands)
  IN [e EXCEPT !.domains[n] = [all.dom EXCEPT !.steps = Append(@, Step(op, all.slots, NoSlot))]]

PushedConst(e, c) ==
  LET n == Len(e.domains) IN [e EXCEPT !.domains[n].steps = Append(@, Step("Const", <<>>, Literal(c)))]

Top(e) == Direct(StepAt(Len(Last(e.domains).steps)))

(* The value of row rowmap[i] of domain n, for each i.                     *)
ValuesAt(e, n, rowmap) == Build(Len(rowmap), LAMBDA done, i : ValueOf(e, n, rowmap[i]))
Identity(dom) == Build(dom.rows, LAMBDA done, r : r)
Backwards(dom) == Build(dom.rows, LAMBDA done, r : dom.rows + 1 - r)

------------------------------------------------------------------------------
(* fold_into: the contributions to one accumulator, from the left, from    *)
(* zero.  A contribution is added or subtracted, once its own steps are.   *)
Contribution(how, ybar, m, y, pred) == [how |-> how, ybar |-> ybar, m |-> m, y |-> y, pred |-> pred]

AtTop(e) == [e |-> e, at |-> Top(e)]
Emit(e, op, operands) == AtTop(PushStep(e, op, operands))

(* The steps of a contribution, each an operation on the one before and    *)
(* one more operand, as <<operation, operand before it, operand after>>.   *)
Self == <<"self">>
OwnSteps(c) ==
  CASE c.how = "PlusMul" -> <<<<"Mul", <<c.ybar, c.m>>>>>>
    [] c.how = "PlusDiv" -> <<<<"Div", <<c.ybar, c.m>>>>>>
    [] c.how = "Sqrt" -> <<<<"Mul", <<Lit(Half), c.ybar>>>>, <<"Div", <<Self, c.y>>>>>>
    [] c.how = "Recip" -> <<<<"Mul", <<c.ybar, c.y>>>>, <<"Mul", <<Self, c.y>>>>>>
    [] c.how = "DivDen" -> <<<<"Div", <<c.ybar, c.m>>>>, <<"Mul", <<Self, c.y>>>>>>
    [] c.how = "DivAliased" ->
         <<<<"Div", <<c.ybar, c.m>>>>, <<"Sub", <<Lit(1), c.y>>>>, <<"Mul", <<<<"before">>, Self>>>>>>
    [] c.how = "SelectTrue" -> <<<<"Select", <<c.pred, c.ybar, Lit(0)>>>>>>
    [] c.how = "SelectFalse" -> <<<<"Select", <<c.pred, Lit(0), c.ybar>>>>>>
    [] OTHER -> <<>>

(* The two last steps of the domain, for the operands of the next.         *)
OperandsAt(e, operands) ==
  LET n == Len(Last(e.domains).steps)
  IN [q \in DOMAIN operands |->
        CASE operands[q] = Self -> Direct(StepAt(n))
          [] operands[q] = <<"before">> -> Direct(StepAt(n - 1))
          [] OTHER -> operands[q]]

TermOf1(e, c) ==
  IF c.how \in {"Plus", "Minus"} THEN [e |-> e, at |-> c.ybar]
  ELSE AtTop(FoldLeft(LAMBDA f, x : PushStep(f, x[1], OperandsAt(f, x[2])), e, OwnSteps(c)))

Subtracted == {"Minus", "Recip", "DivDen"}

Added(acc, c, term) == Emit(term.e, IF c.how \in Subtracted THEN "Sub" ELSE "Add", <<acc.at, term.at>>)

Folded(e, cs) ==
  IF cs = <<>> THEN PushedConst(e, 0)
  ELSE FoldLeft(LAMBDA acc, c : Added(acc, c, TermOf1(acc.e, c)), [e |-> e, at |-> Lit(0)], cs).e

Accumulated(e, rows, cs) == Folded(Opened(e, rows), cs)

------------------------------------------------------------------------------
(* What cannot be expressed: a recurrence that is no scan, and a scan that *)
(* reads itself other than through its carry, which would carry two        *)
(* adjoints from row to row.                                               *)
ReadsItselfOnce(p, d) ==
  LET dom == p.domains[d]
      own == {ValueOf(p, d, r) : r \in 1..dom.rows}
  IN /\ \A k \in DOMAIN dom.gathers : Range(dom.gathers[k]) \cap own # {} => k = dom.carry
     /\ \A k \in DOMAIN dom.segments : \A r \in 1..dom.rows : Range(dom.segments[k].members[r]) \cap own = {}

Expressible(p) ==
  /\ p.outputs # <<>> /\ Differentiable(p)
  /\ \A d \in DOMAIN p.domains : Scans(p.domains[d]) => ReadsItselfOnce(p, d)

------------------------------------------------------------------------------
(* The forward half.                                                       *)
Renamed(e, values) == Build(Len(values), LAMBDA done, m : e.fwd[values[m]])

(* An operand of a forward step in the domain emitted for it: inside the   *)
(* domain of a scan an earlier step is still an earlier step.              *)
ForwardOperand(p, d, e, slot, inScan) ==
  LET dom == p.domains[d]
  IN CASE slot[1] = "literal" -> Lit(slot[2])
       [] slot[1] = "column" -> Numerals(dom.columns[slot[2]])
       [] slot[1] = "gather" -> IF inScan /\ slot[2] = dom.carry THEN Direct(Gather(1))
                                ELSE Vals(Renamed(e, dom.gathers[slot[2]]))
       [] slot[1] = "step" -> IF inScan THEN Direct(slot) ELSE Vals(ValuesAt(e, e.stepAt[d][slot[2]], Identity(dom)))
       [] OTHER -> Direct(slot)

WithSegment(e, segment) == LET n == Len(e.domains) IN [e EXCEPT !.domains[n].segments = Append(@, segment)]
NewestSegment(e) == Segment(Len(Last(e.domains).segments))

WithKonst(e, d, p, konst) ==
  LET n == Len(e.domains)
      k == Len(e.domains[n].steps)
      columns == IF konst[1] = "column" THEN <<p.domains[d].columns[konst[2]]>> ELSE <<>>
  IN [e EXCEPT !.domains[n].columns = @ \o columns,
               !.domains[n].steps[k].konst = IF konst[1] = "column" THEN Column(Len(e.domains[n].columns) + 1) ELSE konst]

EmitForwardStep(p, d, e, k, inScan) ==
  LET st == p.domains[d].steps[k]
      segmented == st.args # <<>> /\ st.args[1][1] = "segment"
      seg == p.domains[d].segments[st.args[1][2]]
      host == IF ~segmented THEN e
              ELSE WithSegment(e, [seg EXCEPT !.members = Build(Len(@), LAMBDA done, r : Renamed(e, @[r]))])
      operands == IF segmented THEN <<Direct(NewestSegment(host))>>
                  ELSE Build(Len(st.args), LAMBDA done, q : ForwardOperand(p, d, e, st.args[q], inScan))
  IN WithKonst(PushStep(host, st.op, operands), d, p, st.konst)

Located(p, d, e) ==   \* the values of domain d are those of the domain emitted last
  [e EXCEPT !.fwd = Build(Len(@), LAMBDA done, v :
     IF DomainOf(p, v) = d THEN ValueOf(e, Len(e.domains), RowOf(p, v)) ELSE e.fwd[v])]

StepDomain(p, d, e, k) ==
  LET f == EmitForwardStep(p, d, Opened(e, p.domains[d].rows), k, FALSE)
  IN [f EXCEPT !.stepAt[d][k] = Len(f.domains)]

(* The scan's own domain; all reads of the carry are of one gather.        *)
ScanDomain(p, d, e) ==
  LET dom == p.domains[d]
      opened == Located(p, d, Opened(e, dom.rows))
      n == Len(opened.domains)
      carried == [opened EXCEPT !.domains[n].gathers = <<Renamed(opened, dom.gathers[dom.carry])>>,
                                !.domains[n].carry = 1, !.domains[n].scan = dom.scan]
      all == FoldLeft(LAMBDA f, k : EmitForwardStep(p, d, f, k, TRUE), carried, [k \in DOMAIN dom.steps |-> k])
  IN [all EXCEPT !.stepAt[d][Len(dom.steps)] = n]

EmitForward(p, e, d) ==
  LET n == Len(p.domains[d].steps)
      Each(f, upto) == FoldLeft(LAMBDA g, k : StepDomain(p, d, g, k), f, [k \in 1..upto |-> k])
  IN IF Scans(p.domains[d]) THEN Each(ScanDomain(p, d, e), n - 1) ELSE Located(p, d, Each(e, n))

------------------------------------------------------------------------------
(* The reverse half.                                                       *)
Unread(p, v) == LET reads == ReadsOf(p, v) IN reads.outputs \o reads.gathers \o reads.sums \o reads.affines = <<>>

(* The seeds, and the zero that stands for the readers of a value nothing  *)
(* reads, when there is one.                                               *)
EmitSeeds(p, e) ==
  LET seeds == PushStep(Opened(e, Len(p.outputs)), "Input", <<Direct(InputSlot)>>)
      n == Len(seeds.domains)
      needed == \E v \in 1..NumValues(p) : ~OnlyStep(p.domains[DomainOf(p, v)], "Const") /\ Unread(p, v)
      zero == PushedConst(Opened(seeds, 1), 0)
  IN IF needed THEN [zero EXCEPT !.seedsAt = n, !.zeroAt = ValueOf(zero, n + 1, 1)] ELSE [seeds EXCEPT !.seedsAt = n]

(* emit_pull: a linear map of what reads the rows of domain d.  In the     *)
(* recurrent domain of a scan's reverse the carry's edge slot of the next  *)
(* row is the row before.                                                  *)
PullMembers(p, readers, e, d, rowmap, own, i) ==
  LET reads == readers[ValueOf(p, d, rowmap[i])]
      Edge(x) == IF own /\ x.edge[1] = d /\ x.edge[2] = p.domains[d].carry
                 THEN ValueOf(e, Len(e.domains), i - 1) ELSE e.gbar[x.edge[1]][x.edge[2]][x.edge[3]]
      Total1(x) == e.segbar[x.edge[1]][x.edge[2]][x.edge[3]]
      all == [members |-> [n \in DOMAIN reads.outputs |-> ValueOf(e, e.seedsAt, reads.outputs[n])]
                            \o [n \in DOMAIN reads.gathers |-> Edge(reads.gathers[n])]
                            \o [n \in DOMAIN reads.sums |-> Total1(reads.sums[n])]
                            \o [n \in DOMAIN reads.affines |-> Total1(reads.affines[n])],
              coefs |-> [n \in DOMAIN (reads.outputs \o reads.gathers \o reads.sums) |-> 1]
                          \o [n \in DOMAIN reads.affines |-> reads.affines[n].coef]]
  IN IF all.members = <<>> THEN [members |-> <<e.zeroAt>>, coefs |-> <<1>>] ELSE all

PulledRows(rows) ==
  [members |-> [i \in DOMAIN rows |-> rows[i].members], coefs |-> [i \in DOMAIN rows |-> rows[i].coefs]]

AffineOfSegment(e) ==
  LET n == Len(e.domains)
  IN [e EXCEPT !.domains[n].steps = Append(@, Step("Affine", <<NewestSegment(e)>>, Literal(0)))]

EmitPull(p, readers, e, d, rowmap, own) ==
  AffineOfSegment(WithSegment(e,
    PulledRows(Build(Len(rowmap), LAMBDA done, i : PullMembers(p, readers, e, d, rowmap, own, i)))))

(* What a step gives each of its operands, in order.                       *)
Gives(st, a, b, y, ybar) ==
  LET aliased == Len(st.args) > 1 /\ st.args[1] = st.args[2] /\ st.args[1][1] \in {"step", "gather"}
      None == Lit(0)
      C(q, how, m) == [to |-> q, what |-> Contribution(how, ybar, m, y, a)]
  IN CASE st.op = "Add" -> <<C(1, "Plus", None), C(2, "Plus", None)>>
       [] st.op = "Sub" -> <<C(1, "Plus", None), C(2, "Minus", None)>>
       [] st.op = "Mul" -> <<C(1, "PlusMul", b), C(2, "PlusMul", a)>>
       [] st.op = "Div" /\ aliased -> <<C(1, "DivAliased", b)>>
       [] st.op = "Div" -> <<C(1, "PlusDiv", b), C(2, "DivDen", b)>>
       [] st.op = "Neg" -> <<C(1, "Minus", None)>>
       [] st.op = "Exp" -> <<C(1, "PlusMul", y)>>
       [] st.op = "Log" -> <<C(1, "PlusDiv", a)>>
       [] st.op = "Sqrt" -> <<C(1, "Sqrt", None)>>
       [] st.op = "Recip" -> <<C(1, "Recip", None)>>
       [] st.op = "Fma" -> <<C(1, "PlusMul", b), C(2, "PlusMul", a), C(3, "Plus", None)>>
       [] st.op = "Select" -> <<C(2, "SelectTrue", None), C(3, "SelectFalse", None)>>
       [] st.op \in Variadic -> [q \in DOMAIN st.args |-> C(q, "Plus", None)]
       [] OTHER -> <<>>

(* How a forward operand reads in the reverse half.                        *)
ReverseOperand(p, d, e, st, q, rowmap) ==
  LET dom == p.domains[d]
      slot == st.args[q]
      AtRows(f) == Build(Len(rowmap), LAMBDA done, i : f[rowmap[i]])
  IN IF q \notin DOMAIN st.args THEN Lit(0)
     ELSE CASE slot[1] = "literal" -> Lit(slot[2])
            [] slot[1] = "column" -> Numerals(AtRows(dom.columns[slot[2]]))
            [] slot[1] = "step" -> Vals(ValuesAt(e, e.stepAt[d][slot[2]], rowmap))
            [] slot[1] = "gather" -> Vals(Renamed(e, AtRows(dom.gathers[slot[2]])))
            [] OTHER -> Lit(0)

Targets(dom) ==
  {StepAt(k) : k \in DOMAIN dom.steps} \cup {Gather(k) : k \in DOMAIN dom.gathers}
    \cup {Segment(k) : k \in DOMAIN dom.segments}

(* collect: the steps from the last, each giving to its operands.  An      *)
(* earlier step's adjoint is accumulated once all later steps have given,  *)
(* in a domain of its own or, in a scan's recurrent domain, right there.   *)
NewestValues(e, dom) == ValuesAt(e, Len(e.domains), Identity(dom))

Gained(st, gains, gives) ==
  FoldLeft(LAMBDA g, x : IF st.args[x.to] \notin DOMAIN g THEN g
                         ELSE [g EXCEPT ![st.args[x.to]] = Append(@, x.what)], gains, gives)

GivenBy(p, d, k, rowmap, e, ybar, gains) ==
  LET st == p.domains[d].steps[k]
      OperandOf(q) == ReverseOperand(p, d, e, st, q, rowmap)
  IN [e |-> e, gains |-> Gained(st, gains, Gives(st, OperandOf(1), OperandOf(2),
                                                 Vals(ValuesAt(e, e.stepAt[d][k], rowmap)), ybar))]

Giving(p, d, k, rowmap, own, top, gains, e) ==
  GivenBy(p, d, k, rowmap, e,
          CASE k = Len(p.domains[d].steps) -> top
            [] own -> Top(e)
            [] OTHER -> Vals(NewestValues(e, p.domains[d])), gains)

Collected(p, d, e, rowmap, own, top) ==
  LET dom == p.domains[d]
      n == Len(dom.steps)
      Ready(acc, k) ==
        CASE k = n -> acc.e
          [] own -> Folded(acc.e, acc.gains[StepAt(k)])
          [] OTHER -> Accumulated(acc.e, dom.rows, acc.gains[StepAt(k)])
  IN FoldLeft(LAMBDA acc, j : Giving(p, d, n + 1 - j, rowmap, own, top, acc.gains, Ready(acc, n + 1 - j)),
              [e |-> e, gains |-> [slot \in Targets(dom) |-> <<>>]], [j \in 1..n |-> j])

(* The reverse of a scan: a recurrent domain of its rows backwards, whose  *)
(* values are the edge slots of the carry.                                 *)
CarrySlots_Forward(e, d, dom) == [e EXCEPT !.gbar[d][dom.carry] = NewestValues(e, dom)]
CarrySlots(e, d, dom) == [e EXCEPT !.gbar[d][dom.carry] = ValuesAt(e, Len(e.domains), Backwards(dom))]

CarryFolded(all, d, dom) == CarrySlots(Folded(all.e, all.gains[Gather(dom.carry)]), d, dom)
CarryCollected(p, pulled, d, dom) == CarryFolded(Collected(p, d, pulled, Backwards(dom), TRUE, Top(pulled)), d, dom)
CarryBar(p, readers, e, d) ==
  LET dom == p.domains[d]
  IN CarryCollected(p, EmitPull(p, readers, Opened(e, dom.rows), d, Backwards(dom), TRUE), d, dom)

EmitEdges(p, d, all) ==
  LET dom == p.domains[d]
      OfSegment(f, k) == [f EXCEPT !.segbar[d][k] = NewestValues(f, dom)]
      OfGather(f, k) == [f EXCEPT !.gbar[d][k] = NewestValues(f, dom)]
      segments == FoldLeft(LAMBDA f, k : OfSegment(Accumulated(f, dom.rows, all.gains[Segment(k)]), k),
                           all.e, [k \in DOMAIN dom.segments |-> k])
  IN FoldLeft(LAMBDA f, k : IF Scans(dom) /\ k = dom.carry THEN f
                            ELSE OfGather(Accumulated(f, dom.rows, all.gains[Gather(k)]), k),
              segments, [k \in DOMAIN dom.gathers |-> k])

Published(p, e, d) ==
  [e EXCEPT !.vbar = Build(Len(@), LAMBDA done, v :
     IF DomainOf(p, v) = d THEN ValueOf(e, Len(e.domains), RowOf(p, v)) ELSE e.vbar[v])]

ReverseSteps(p, e, d, dom) ==
  IF OnlyStep(dom, "Input") THEN e
  ELSE EmitEdges(p, d, Collected(p, d, e, Identity(dom), FALSE, Vals(NewestValues(e, dom))))

EmitReverse(p, readers, e, d) ==
  LET dom == p.domains[d]
      Pulled(carried) == EmitPull(p, readers, Opened(carried, dom.rows), d, Identity(dom), FALSE)
  IN IF OnlyStep(dom, "Const") THEN e
     ELSE ReverseSteps(p, Published(p, Pulled(IF Scans(dom) THEN CarryBar(p, readers, e, d) ELSE e), d), d, dom)

------------------------------------------------------------------------------
Nowhere(p, Tables(_)) ==
  [d \in DOMAIN p.domains |-> [k \in 1..Tables(p.domains[d]) |-> <<>>]]

ResultsOf(p, e) ==
  [domains |-> e.domains,
   inputs |-> [k \in DOMAIN p.inputs |-> e.fwd[p.inputs[k]]]
                \o [o \in DOMAIN p.outputs |-> ValueOf(e, e.seedsAt, o)],
   outputs |-> [o \in DOMAIN p.outputs |-> e.fwd[p.outputs[o]]] \o [k \in DOMAIN p.inputs |-> e.vbar[p.inputs[k]]]]

AdjointToProgram(p) ==
  LET n == Len(p.domains)
      start == [domains |-> <<>>, fwd |-> [v \in 1..NumValues(p) |-> 0], vbar |-> [v \in 1..NumValues(p) |-> 0],
                stepAt |-> [d \in 1..n |-> [k \in DOMAIN p.domains[d].steps |-> 0]],
                gbar |-> Nowhere(p, LAMBDA dom : Len(dom.gathers)),
                segbar |-> Nowhere(p, LAMBDA dom : Len(dom.segments)), seedsAt |-> 0, zeroAt |-> 0]
      readers == ReadersOf(p)
  IN ResultsOf(p, FoldLeft(LAMBDA e, j : EmitReverse(p, readers, e, n + 1 - j),
                           EmitSeeds(p, FoldLeft(LAMBDA e, d : EmitForward(p, e, d), start, [d \in 1..n |-> d])),
                           [j \in 1..n |-> j]))
=============================================================================
