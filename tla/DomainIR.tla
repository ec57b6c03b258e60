------------------------------ MODULE DomainIR ------------------------------
(***************************************************************************)
(* The domain IR (ir/program.hpp): a tape as array operations over index   *)
(* spaces, the structural checks on it, its evaluation, the tape it        *)
(* expands to, and the canonical form two tapes are compared in.           *)
(*                                                                         *)
(* A program is a record of domains in evaluation order and of the values  *)
(* that are its inputs and outputs.  A domain has steps, evaluated once    *)
(* per row, and the tables its steps read: columns of numbers, gathers of  *)
(* values and segments of members, one entry per row.  Value ids count the *)
(* rows of all domains in order, from 1.  An operand of a step is a pair:  *)
(* a kind, and a step, a number, or the table of that kind in the domain.  *)
(***************************************************************************)
EXTENDS TapeOps, SequencesExt

CONSTANT Meaning(_, _, _, _)  \* the value of an operation from its number,
                              \* coefficients and operands, in order

StepAt(k) == <<"step", k>>
Literal(c) == <<"literal", c>>
Column(k) == <<"column", k>>
Gather(k) == <<"gather", k>>
Segment(k) == <<"segment", k>>
NoSlot == <<"none", 0>>
InputSlot == <<"input", 0>>

Step(op, args, konst) == [op |-> op, args |-> args, konst |-> konst]
IsFixedSum(st) == st.op = "Sum" /\ st.args[1][1] # "segment"

(* The sequence of F(the sequence so far, k) for k in 1..n.                *)
Build(n, F(_, _)) ==
  LET f[k \in 0..n] == IF k = 0 THEN <<>> ELSE LET done == f[k - 1] IN Append(done, F(done, k))
  IN f[n]

------------------------------------------------------------------------------
(* The value space.                                                        *)

Base(p, d) == FoldLeft(LAMBDA sum, k : sum + p.domains[k].rows, 0, [k \in 1..(d - 1) |-> k])
NumValues(p) == Base(p, Len(p.domains) + 1)
ValueOf(p, d, r) == Base(p, d) + r
DomainOf(p, v) == CHOOSE d \in DOMAIN p.domains : v > Base(p, d) /\ v <= Base(p, d + 1)
RowOf(p, v) == v - Base(p, DomainOf(p, v))

Scans(dom) == dom.scan # <<>>

(* The values the rows of a domain read, and the domains they are in.      *)
ReadBy(dom, r) ==
  {dom.gathers[k][r] : k \in DOMAIN dom.gathers}
    \cup UNION {{dom.segments[k].members[r][m] : m \in DOMAIN dom.segments[k].members[r]}
                : k \in DOMAIN dom.segments}
ReadValues(dom) == UNION {ReadBy(dom, r) : r \in 1..dom.rows}
DomainReads(p, d) == {DomainOf(p, v) : v \in ReadValues(p.domains[d])}
Recurrent(p, d) == d \in DomainReads(p, d)

------------------------------------------------------------------------------
(***************************************************************************)
(* validate.  Every table has an entry per row; a row reads values that    *)
(* are evaluated before it; a chain's rows read the row before, its first  *)
(* an earlier domain; every input is a row of an Input domain, once.       *)
(***************************************************************************)
TablesFit(dom) ==
  /\ dom.rows > 0 /\ dom.steps # <<>>
  /\ \A k \in DOMAIN dom.columns : Len(dom.columns[k]) = dom.rows
  /\ \A k \in DOMAIN dom.gathers : Len(dom.gathers[k]) = dom.rows
  /\ \A k \in DOMAIN dom.segments :
       /\ Len(dom.segments[k].members) = dom.rows
       /\ \A r \in 1..dom.rows : dom.segments[k].members[r] # <<>>

ReadsEarlier(p, d) ==
  \A r \in 1..p.domains[d].rows : \A v \in ReadBy(p.domains[d], r) :
    v > 0 /\ v <= Base(p, d) + (IF Recurrent(p, d) THEN r - 1 ELSE 0)

FirstRows(dom) == {dom.scan[c] + 1 : c \in 1..(Len(dom.scan) - 1)}

ScanIsChains(p, d) ==
  LET dom == p.domains[d]
      carry == dom.gathers[dom.carry]
  IN /\ Recurrent(p, d)
     /\ dom.scan[1] = 0 /\ dom.scan[Len(dom.scan)] = dom.rows
     /\ \A c \in 1..(Len(dom.scan) - 1) : dom.scan[c] < dom.scan[c + 1]
     /\ \A r \in 1..dom.rows :
          IF r \in FirstRows(dom) THEN carry[r] <= Base(p, d) ELSE carry[r] = ValueOf(p, d, r - 1)
     /\ \E k \in DOMAIN dom.steps : Gather(dom.carry) \in Range(dom.steps[k].args)

SlotFits(dom, k, slot) ==
  CASE slot[1] = "step" -> slot[2] \in 1..(k - 1)
    [] slot[1] = "column" -> slot[2] \in DOMAIN dom.columns
    [] slot[1] = "gather" -> slot[2] \in DOMAIN dom.gathers
    [] slot[1] = "segment" -> slot[2] \in DOMAIN dom.segments
    [] OTHER -> slot[1] = "literal"

Numeric(slot) == slot[1] \in {"literal", "column"}

StepFits(dom, k) ==
  LET st == dom.steps[k]
      segmented == \E q \in DOMAIN st.args : st.args[q][1] = "segment"
  IN CASE st.op = "Input" -> st.args = <<InputSlot>> /\ Len(dom.steps) = 1
       [] st.op = "Const" -> Numeric(st.konst) /\ SlotFits(dom, k, st.konst)
       [] st.op \in Variadic /\ ~IsFixedSum(st) ->
            /\ Len(st.args) = 1 /\ segmented /\ SlotFits(dom, k, st.args[1])
            /\ st.op = "Affine" => Numeric(st.konst) /\ SlotFits(dom, k, st.konst)
            /\ \A r \in 1..dom.rows :
                 Len(dom.segments[st.args[1][2]].coefs[r])
                   = IF st.op = "Sum" THEN 0 ELSE Len(dom.segments[st.args[1][2]].members[r])
       [] OTHER ->
            /\ Len(st.args) \in IF st.op = "Sum" THEN {2, 3} ELSE {Arity[st.op]}
            /\ ~segmented /\ \A q \in DOMAIN st.args : SlotFits(dom, k, st.args[q])

IsInputDomain(dom) == dom.steps[Len(dom.steps)].op = "Input"

InputsAreRows(p) ==
  \A d \in DOMAIN p.domains : \A r \in 1..p.domains[d].rows :
    Cardinality({k \in DOMAIN p.inputs : p.inputs[k] = ValueOf(p, d, r)})
      = IF IsInputDomain(p.domains[d]) THEN 1 ELSE 0

Valid(p) ==
  /\ \A d \in DOMAIN p.domains :
       /\ TablesFit(p.domains[d])
       /\ \A k \in DOMAIN p.domains[d].steps : StepFits(p.domains[d], k)
       /\ ReadsEarlier(p, d)
       /\ Scans(p.domains[d]) => ScanIsChains(p, d)
  /\ Range(p.inputs) \cup Range(p.outputs) \subseteq 1..NumValues(p)
  /\ InputsAreRows(p)

------------------------------------------------------------------------------
(***************************************************************************)
(* Evaluation (ir/evaluate.hpp): domains in order, rows in order, steps in *)
(* order; the value of a row is its last step's.                           *)
(***************************************************************************)
NumberAt(dom, r, slot) == IF slot[1] = "column" THEN dom.columns[slot[2]][r] ELSE slot[2]

Ordinal(p, v) == CHOOSE k \in DOMAIN p.inputs : p.inputs[k] = v

(* The operands of a step at row r: what the earlier steps gave is in      *)
(* scratch, what the earlier rows gave in values.                          *)
Fetch(dom, r, scratch, values, slot) ==
  CASE slot[1] = "step" -> scratch[slot[2]]
    [] slot[1] = "gather" -> values[dom.gathers[slot[2]][r]]
    [] OTHER -> Meaning("Const", NumberAt(dom, r, slot), <<>>, <<>>)

StepValue(p, d, r, scratch, values, st) ==
  LET dom == p.domains[d]
      segment == dom.segments[st.args[1][2]]
  IN CASE st.op = "Input" -> Meaning("Input", Ordinal(p, ValueOf(p, d, r)), <<>>, <<>>)
       [] st.op = "Const" -> Meaning("Const", NumberAt(dom, r, st.konst), <<>>, <<>>)
       [] st.op \in Variadic /\ ~IsFixedSum(st) ->
            Meaning(st.op, IF st.op = "Affine" THEN NumberAt(dom, r, st.konst) ELSE 0,
                    segment.coefs[r],
                    [m \in DOMAIN segment.members[r] |-> values[segment.members[r][m]]])
       [] OTHER ->
            Meaning(st.op, 0, <<>>,
                    [q \in DOMAIN st.args |-> Fetch(dom, r, scratch, values, st.args[q])])

RowValue(p, d, r, values) ==
  LET steps == p.domains[d].steps
      scratch == Build(Len(steps), LAMBDA done, k : StepValue(p, d, r, done, values, steps[k]))
  IN scratch[Len(steps)]

Values(p) ==
  FoldLeft(LAMBDA vs, d : FoldLeft(LAMBDA ws, r : Append(ws, RowValue(p, d, r, ws)), vs,
                                   [r \in 1..p.domains[d].rows |-> r]),
           <<>>, [d \in DOMAIN p.domains |-> d])

Evaluate(p) == LET vs == Values(p) IN [k \in DOMAIN p.outputs |-> vs[p.outputs[k]]]

(* What the nodes of a tape denote.                                        *)
NodeValues(s) ==
  Build(Len(s), LAMBDA v, i : Meaning(s[i].op, s[i].konst, s[i].coefs,
                                      [q \in DOMAIN s[i].args |-> v[s[i].args[q]]]))

------------------------------------------------------------------------------
(***************************************************************************)
(* expand (ir/expand.cpp): the program row by row as a tape again, numbers *)
(* as Const nodes, each once.  A row remembers the node of its last step.  *)
(***************************************************************************)
Interned(t, c) ==
  IF \E i \in DOMAIN t : t[i] = Number(c)
  THEN [tape |-> t, at |-> CHOOSE i \in DOMAIN t : t[i] = Number(c)]
  ELSE [tape |-> Append(t, Number(c)), at |-> Len(t) + 1]

MembersOf(dom, r, st) == dom.segments[st.args[1][2]].members[r]

(* Every step of a chain reads the chain's initial value.                  *)
Target_CarryFromInit(p, d, r, k) ==
  LET dom == p.domains[d]
      first == CHOOSE q \in FirstRows(dom) : q <= r /\ \A o \in FirstRows(dom) : o <= r => o <= q
  IN IF Scans(dom) /\ k = dom.carry THEN dom.gathers[k][first] ELSE dom.gathers[k][r]

Target(p, d, r, k) == p.domains[d].gathers[k][r]

EmitNode(acc, n) == [acc EXCEPT !.tape = Append(@, n), !.scratch = Append(@, Len(acc.tape) + 1)]

EmitConst(acc, c) ==
  LET k == Interned(acc.tape, c)
  IN [acc EXCEPT !.tape = k.tape, !.scratch = Append(@, k.at)]

EmitStep(p, d, r, acc, st) ==
  LET dom == p.domains[d]
      Operand(a, slot) ==   \* the tape, and the nodes of the operands so far
        CASE slot[1] = "step" -> [a EXCEPT !.ids = Append(@, acc.scratch[slot[2]])]
          [] slot[1] = "gather" -> [a EXCEPT !.ids = Append(@, acc.nodeOf[Target(p, d, r, slot[2])])]
          [] OTHER -> LET k == Interned(a.tape, NumberAt(dom, r, slot))
                      IN [tape |-> k.tape, ids |-> Append(a.ids, k.at)]
      fixed == FoldLeft(Operand, [tape |-> acc.tape, ids |-> <<>>], st.args)
      members == MembersOf(dom, r, st)
  IN CASE st.op = "Const" -> EmitConst(acc, NumberAt(dom, r, st.konst))
       [] st.op = "Input" ->
            EmitNode(acc, [Operation("Input", <<>>) EXCEPT !.konst = Ordinal(p, ValueOf(p, d, r))])
       [] st.op \in Variadic /\ ~IsFixedSum(st) ->
            EmitNode(acc, [op |-> st.op, args |-> [m \in DOMAIN members |-> acc.nodeOf[members[m]]],
                           konst |-> IF st.op = "Affine" THEN NumberAt(dom, r, st.konst) ELSE 0,
                           coefs |-> dom.segments[st.args[1][2]].coefs[r]])
       [] OTHER -> EmitNode([acc EXCEPT !.tape = fixed.tape], Operation(st.op, fixed.ids))

EmitRow(p, d, acc, r) ==
  LET all == FoldLeft(LAMBDA a, st : EmitStep(p, d, r, a, st), [acc EXCEPT !.scratch = <<>>],
                      p.domains[d].steps)
  IN [all EXCEPT !.nodeOf = Append(@, Last(all.scratch))]

Expand(p) ==
  LET all == FoldLeft(LAMBDA acc, d : FoldLeft(LAMBDA a, r : EmitRow(p, d, a, r), acc,
                                               [r \in 1..p.domains[d].rows |-> r]),
                      [tape |-> <<>>, nodeOf |-> <<>>, scratch |-> <<>>],
                      [d \in DOMAIN p.domains |-> d])
  IN [nodes |-> all.tape, outs |-> [k \in DOMAIN p.outputs |-> all.nodeOf[p.outputs[k]]]]

------------------------------------------------------------------------------
(***************************************************************************)
(* canonical_form: the reachable nodes in the order of a post-order walk   *)
(* from the outputs, inputs first.  Commutative operands are visited in an *)
(* order that depends on what they are and not on where they stand.        *)
(***************************************************************************)
Merkle(s) ==
  Build(Len(s), LAMBDA m, i :
    IF s[i].op \in Commutative
    THEN <<s[i].op, s[i].konst, s[i].coefs, {m[s[i].args[1]], m[s[i].args[2]]}>>
    ELSE <<s[i].op, s[i].konst, s[i].coefs, [q \in DOMAIN s[i].args |-> m[s[i].args[q]]]>>)

LesserOf(a, b) == CHOOSE x \in {a, b} : TRUE

VisitOrder(s, merkle, i) ==
  IF s[i].op \in Commutative /\ merkle[s[i].args[1]] # LesserOf(merkle[s[i].args[1]], merkle[s[i].args[2]])
  THEN <<s[i].args[2], s[i].args[1]>> ELSE s[i].args

(* The post-order walk, each node once.                                    *)
Walk(s, start, roots) ==
  LET merkle == Merkle(s)
      from[i \in DOMAIN s] ==   \* the nodes under i and i, in post-order
        Append(FoldLeft(LAMBDA done, c : done \o SelectSeq(from[c], LAMBDA x : x \notin Range(done)),
                        <<>>, VisitOrder(s, merkle, i)), i)
  IN FoldLeft(LAMBDA done, o : done \o SelectSeq(from[o], LAMBDA x : x \notin Range(done)), start, roots)

InputsOf(s) == SelectSeq([i \in DOMAIN s |-> i], LAMBDA i : s[i].op = "Input")

CanonicalForm(s, os) ==
  LET order == Walk(s, InputsOf(s), os)
      canon == [i \in Range(order) |-> CHOOSE c \in DOMAIN order : order[c] = i]
      Operands(n) == IF n.op \in Commutative THEN {canon[a] : a \in ArgSet(n)}
                     ELSE [q \in DOMAIN n.args |-> canon[n.args[q]]]
  IN [nodes |-> [c \in DOMAIN order |->
                   LET n == s[order[c]] IN <<n.op, n.konst, n.coefs, Operands(n)>>],
      outs |-> [k \in DOMAIN os |-> canon[os[k]]],
      unreachable |-> Len(s) - Len(order)]
------------------------------------------------------------------------------
(***************************************************************************)
(* Sharing (ir/sharing.hpp): the groups of outputs each domain feeds, the  *)
(* domains that read it, and which of the domains that end in an operation *)
(* feed them all.  Domains only read earlier ones, and themselves.         *)
(***************************************************************************)
GroupsFed_OwnOnly(p, groups) ==
  [d \in DOMAIN p.domains |-> {g \in DOMAIN groups : \E o \in groups[g] : DomainOf(p, p.outputs[o]) = d}]

GroupsFed(p, groups) ==
  LET n == Len(p.domains)
      own == [d \in 1..n |-> {g \in DOMAIN groups : \E o \in groups[g] : DomainOf(p, p.outputs[o]) = d}]
  IN FoldLeft(LAMBDA mask, k : [r \in 1..n |-> IF r \in DomainReads(p, n + 1 - k) THEN mask[r] \cup mask[n + 1 - k] ELSE mask[r]],
              own, [k \in 1..n |-> k])

ReadersOfDomain(p, d) == {e \in DOMAIN p.domains : d \in DomainReads(p, e)}

Sharing(p, groups, op) ==
  LET mask == GroupsFed(p, groups)
      matching == {d \in DOMAIN p.domains : Last(p.domains[d].steps).op = op}
      shared == {d \in matching : mask[d] = DOMAIN groups /\ groups # <<>>}
      unshared == {d \in matching \ shared : mask[d] = {}}
  IN [matching |-> matching, shared |-> shared, unshared |-> unshared, partial |-> matching \ (shared \cup unshared)]

EachShared(report) == report.partial = {} /\ report.unshared = {}
AssertShared(report, expected) == Cardinality(report.matching) = expected /\ EachShared(report)
AssertAllShared(report) == report.matching # {} /\ EachShared(report)

(* The nodes of an operation that cse merges when the program is expanded. *)
DuplicatesOn(s, op) ==
  LET same == Merkle(s)
      of == {i \in DOMAIN s : s[i].op = op}
  IN Cardinality(of) - Cardinality({same[i] : i \in of})
Duplicates(p, op) == DuplicatesOn(Expand(p).nodes, op)
=============================================================================
