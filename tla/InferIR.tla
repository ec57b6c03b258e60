------------------------------ MODULE InferIR ------------------------------
(***************************************************************************)
(* ir::infer (ir/signature.cpp): a recorded tape becomes a program.  The   *)
(* rows of Signature are split into domains by class and, where classes    *)
(* read each other in a circle, by level; a round that cannot lay out its  *)
(* scans bans the nodes of the chains in the way and runs again.           *)
(***************************************************************************)
EXTENDS Signature

CONSTANTS
  Recordings,      \* the tapes recorded: see RecordingType
  Operations(_, _),   \* the operations recording.operations records next on a table
  MaxRounds        \* infer gives up after so many retries (16 in the code)

VARIABLES
  recording,       \* which of Recordings
  nodes, outs,     \* the tape
  pc,              \* "record", "infer", "done" or "failed"
  banned, round,   \* infer: nodes no chain may hold, retries made
  program          \* what the last round gave: see NoProgram

vars == <<recording, nodes, outs, pc, banned, round, program>>

RecordingType ==
  [inputs : Nat, konsts : SUBSET Int, operations : STRING,
   ops : Nat,       \* bound: operations recorded
   outs : {"last", "any", "around"},  \* bound: the outputs registered
   rewrites : Nat]  \* bound: rules applied

ASSUME InferAssumption == Recordings \subseteq RecordingType /\ MaxRounds \in Nat

NoProgram == [domains |-> <<>>, inputs |-> <<>>, outputs |-> <<>>]

------------------------------------------------------------------------------
(***************************************************************************)
(* levels_and_domains.                                                     *)
(***************************************************************************)
Rows(of) == {i \in DOMAIN of : of[i] # NoRow}

(* The nodes a row reads; without a carry that stays in the class.         *)
AllReads(row) == Range(row.tree.refs) \cup Range(row.members)
ClassReads(of, row) ==
  {row.tree.refs[k] : k \in {j \in DOMAIN row.tree.refs :
     ~(j = row.carry /\ of[row.tree.refs[j]].class = row.class)}} \cup Range(row.members)

Classes(of) == {of[i].class : i \in Rows(of)}
IsScan(class) == class[2] # 0

(* The pairs of classes of which the first reads the second, at once and   *)
(* through other classes.                                                  *)
Edges(of) == UNION {{<<of[i].class, of[t].class>> : t \in ClassReads(of, of[i])} : i \in Rows(of)}
Reach(of) ==
  LET reach[k \in 0..Cardinality(Classes(of))] ==
        LET r == reach[k - 1]
        IN IF k = 0 THEN Edges(of)
           ELSE r \cup {<<ef[1][1], ef[2][2]>> : ef \in {xy \in r \X r : xy[1][2] = xy[2][1]}}
  IN reach[Cardinality(Classes(of))]

(* Tarjan's components; a component is split when it is a circle, which    *)
(* the carry of a scan alone does not make.                                *)
Together(reach, c, d) == c = d \/ {<<c, d>>, <<d, c>>} \subseteq reach
Circular(reach, c) ==
  \/ \E e \in reach : e[1] = c /\ e[2] # c /\ Together(reach, c, e[2])
  \/ <<c, c>> \in reach /\ ~IsScan(c)

(* One pass in tape order: a row is one level above what it reads in its   *)
(* component.                                                              *)
Highest(S) == CHOOSE x \in S : \A y \in S : y <= x

Propagate(of, reach, level) ==
  Build(Len(of), LAMBDA lv, i :
    LET c == of[i].class
    IN IF i \notin Rows(of) \/ ~Circular(reach, c) THEN level[i]
       ELSE Highest({level[i]} \cup
                    {lv[t] + 1 : t \in {u \in ClassReads(of, of[i]) : Together(reach, c, of[u].class)}}))

(* unify_chains: every step of a chain gets the level of its highest.      *)
Unify(of, reach, chains, level) ==
  Build(Len(of), LAMBDA lv, i :
    IF ChainOf(chains, i) = {} \/ ~Circular(reach, of[i].class) THEN level[i]
    ELSE Highest({level[m] : m \in Range(chains[CHOOSE c \in ChainOf(chains, i) : TRUE].members)}))

(* Until no chain's steps differ, for so many rounds.                      *)
LevelRounds(of) == 8 + Cardinality(Classes(of))

Levels(of, reach, chains) ==
  LET level[k \in 0..LevelRounds(of)] ==
        LET lv == level[k - 1]
            unified == Unify(of, reach, chains, lv)
        IN IF k = 0 THEN Propagate(of, reach, [i \in DOMAIN of |-> 0])
           ELSE IF unified = lv THEN lv ELSE Propagate(of, reach, unified)
  IN level[LevelRounds(of)]

(* A domain is a class and a level.  The rows of a scan go chain by chain. *)
Keys(of, level) == {<<of[i].class, level[i]>> : i \in Rows(of)}
RowsIn(of, level, key) == {i \in Rows(of) : <<of[i].class, level[i]>> = key}

ChainMajor(chains, i, j) ==
  LET c == chains[CHOOSE x \in ChainOf(chains, i) : TRUE]
      d == chains[CHOOSE x \in ChainOf(chains, j) : TRUE]
  IN IF c.members[1] # d.members[1] THEN c.members[1] < d.members[1]
     ELSE PositionIn(c, i) < PositionIn(d, j)

DomainRows(of, level, chains, key) ==
  LET is == SelectSeq(Nodes(of), LAMBDA i : i \in RowsIn(of, level, key))
  IN IF IsScan(key[1]) THEN SortSeq(is, LAMBDA i, j : ChainMajor(chains, i, j)) ELSE is

(* Evaluation order: a domain after all it reads, the earliest first row   *)
(* first.                                                                  *)
EvaluationOrder(of, level) ==
  LET keys == Keys(of, level)
      First(key) == CHOOSE i \in RowsIn(of, level, key) : \A j \in RowsIn(of, level, key) : i <= j
      Needs(key) == {<<of[t].class, level[t]>> : t \in UNION {AllReads(of[i]) : i \in RowsIn(of, level, key)}}
      needs == [key \in keys |-> Needs(key) \ {key}]
  IN FoldLeft(LAMBDA order, k :
                LET ready == {key \in keys \ Range(order) : needs[key] \subseteq Range(order)}
                IN IF ready = {} THEN order
                   ELSE Append(order, CHOOSE key \in ready : \A x \in ready : First(key) <= First(x)),
              <<>>, [k \in 1..Cardinality(keys) |-> k])

------------------------------------------------------------------------------
(***************************************************************************)
(* assemble.                                                               *)
(***************************************************************************)

(* A constant slot is a literal when its rows hold one number, or else a   *)
(* column of the domain.                                                   *)
Varying(columns) == SelectSeq([k \in DOMAIN columns |-> k],
                              LAMBDA k : \E r \in DOMAIN columns[k] : columns[k][r] # columns[k][1])

ConstSlot(columns, k) ==
  IF k \in Range(Varying(columns)) THEN Column(CHOOSE c \in DOMAIN Varying(columns) : Varying(columns)[c] = k)
  ELSE Literal(columns[k][1])

(* The steps of the class, operands in the order its first row recorded    *)
(* them.                                                                   *)
StepsOf(tree, columns) ==
  LET Slot(a) == IF a[1] = "column" THEN ConstSlot(columns, a[2]) ELSE a
  IN [k \in DOMAIN tree.proto |->
        LET st == tree.proto[k]
            args == [q \in DOMAIN st.args |-> Slot(st.args[q])]
        IN [st EXCEPT !.args = IF tree.swapped[k] THEN <<args[2], args[1]>> ELSE args, !.konst = Slot(@)]]

Assembled(of, chains, value, rows) ==
  LET row(r) == of[rows[r]]
      tree == row(1).tree
      first == of[CHOOSE i \in Rows(of) : /\ of[i].class = row(1).class
                                           /\ \A j \in 1..(i - 1) : of[j].class # row(1).class]
      columns == [k \in DOMAIN tree.consts |-> [r \in DOMAIN rows |-> row(r).tree.consts[k]]]
      laterHeads == SelectSeq([r \in DOMAIN rows |-> r],
                              LAMBDA r : r > 1 /\ \E c \in DOMAIN chains : chains[c].members[1] = rows[r])
  IN [rows |-> Len(rows),
      steps |-> StepsOf(first.tree, columns),
      columns |-> [c \in DOMAIN Varying(columns) |-> columns[Varying(columns)[c]]],
      gathers |-> [k \in DOMAIN tree.refs |-> [r \in DOMAIN rows |-> value[row(r).tree.refs[k]]]],
      segments |-> IF row(1).members = <<>> THEN <<>>
                   ELSE <<[members |-> [r \in DOMAIN rows |-> [m \in DOMAIN row(r).members |-> value[row(r).members[m]]]],
                           coefs |-> [r \in DOMAIN rows |-> row(r).coefs]]>>,
      carry |-> row(1).carry,
      scan |-> IF row(1).carry = 0 THEN <<>>
               ELSE <<0>> \o [k \in DOMAIN laterHeads |-> laterHeads[k] - 1] \o <<Len(rows)>>]

(* Mutant: a chain may begin anywhere.                                     *)
RowInOrder_AnyHead(chains, dom, base, rows, r) ==
  \A k \in DOMAIN dom.gathers :
    dom.gathers[k][r] < base + r \/ (k = dom.carry /\ dom.gathers[k][r] = base + r - 1)

(* A chain that starts inside another chain of its class, or reads a later *)
(* row, is not a chain of the scan.                                        *)
RowInOrder(chains, dom, base, rows, r) ==
  \A k \in DOMAIN dom.gathers :
    LET v == dom.gathers[k][r]
        head == \E c \in DOMAIN chains : chains[c].members[1] = rows[r]
    IN IF k # dom.carry THEN v < base + r
       ELSE IF head THEN v <= base ELSE v = base + r - 1

(* The rows of the classes, their levels, and their domains in order.      *)
Placed(b, of, reach, level, order) ==
  [of |-> of, reach |-> reach, level |-> level, order |-> order,
   placed |-> Build(Len(order), LAMBDA done, d : DomainRows(of, level, b.chains, order[d]))]
Ordered(b, of, reach, level) == Placed(b, of, reach, level, EvaluationOrder(of, level))
Levelled(b, of, reach) == Ordered(b, of, reach, Levels(of, reach, b.chains))
Related(b, of) == Levelled(b, of, Reach(of))
Layout(s, os, b) == Related(b, Partition(s, os, b))

ValueIds(lay) ==
  LET flat == FlattenSeq(lay.placed)
  IN Build(Len(lay.of), LAMBDA done, i : IF i \in Range(flat) THEN CHOOSE v \in DOMAIN flat : flat[v] = i ELSE 0)

Programmed(s, os, b, lay, value) ==
  [domains |-> Build(Len(lay.order), LAMBDA done, d : Assembled(lay.of, b.chains, value, lay.placed[d])),
   inputs |-> [k \in DOMAIN InputsOf(s) |-> value[InputsOf(s)[k]]],
   outputs |-> [k \in DOMAIN os |-> value[os[k]]]]

BadChains(b, lay, p, d) ==
  IF ~IsScan(lay.order[d][1]) THEN {}
  ELSE UNION {ChainOf(b.chains, lay.placed[d][r]) :
                r \in {q \in DOMAIN lay.placed[d] :
                         ~RowInOrder(b.chains, p.domains[d], Base(p, d), lay.placed[d], q)}}

Members(b, cs) == UNION {Range(b.chains[c].members) : c \in cs}

Outcome(kind, p, ban) == [kind |-> kind, program |-> p, ban |-> ban]

(* A scan whose levels never settle bans every row of a circular scan; the *)
(* first domain with chains out of order bans those.                       *)
Assemble(b, lay, p) ==
  LET bad == SelectSeq([d \in DOMAIN lay.order |-> BadChains(b, lay, p, d)], LAMBDA cs : cs # {})
  IN IF bad # <<>> THEN Outcome("retry", NoProgram, Members(b, bad[1]))
     ELSE Outcome(IF Valid(p) THEN "program" ELSE "error", p, {})

LayOut(s, os, b, lay) ==
  IF ~b.fits \/ \E i \in Chained(b.chains) : lay.of[i].carry = 0
    THEN Outcome("error", NoProgram, {})
  ELSE IF Unify(lay.of, lay.reach, b.chains, lay.level) # lay.level
    THEN Outcome("retry", NoProgram,
                 {i \in Rows(lay.of) : IsScan(lay.of[i].class) /\ Circular(lay.reach, lay.of[i].class)})
  ELSE IF Len(lay.order) < Cardinality(Keys(lay.of, lay.level)) THEN Outcome("error", NoProgram, {})
  ELSE Assemble(b, lay, Programmed(s, os, b, lay, ValueIds(lay)))

Analysed(s, os, b) == LayOut(s, os, b, Layout(s, os, b))
Round(s, os, ban) == Analysed(s, os, Analysis(s, os, ban))

------------------------------------------------------------------------------
Init ==
  /\ recording \in Recordings
  /\ nodes = [k \in 1..recording.inputs |-> [Operation("Input", <<>>) EXCEPT !.konst = k]]
  /\ outs = <<>> /\ pc = "record" /\ banned = {} /\ round = 0 /\ program = NoProgram

Record(n) ==
  /\ pc = "record" /\ outs = <<>>
  /\ nodes' = Append(nodes, n)
  /\ UNCHANGED <<recording, outs, pc, banned, round, program>>

RecordConst(c) ==
  /\ \A j \in DOMAIN nodes : Leaf(nodes[j]) /\ nodes[j] # Number(c)
  /\ Record(Number(c))

Operate(n) ==
  /\ Cardinality({j \in DOMAIN nodes : ~Leaf(nodes[j])}) < recording.ops
  /\ Record(n)

RegisterOutputs(os) ==
  /\ pc = "record" /\ outs' = os
  /\ \A j \in ConstNodes(nodes) : Reads(nodes, outs', j) # {}
  /\ pc' = "infer"
  /\ UNCHANGED <<recording, nodes, banned, round, program>>

InferRound ==
  /\ pc = "infer"
  /\ \E result \in {Round(nodes, outs, banned)} :
        /\ program' = result.program
        /\ banned' = banned \cup result.ban
        /\ round' = IF result.kind = "retry" THEN round + 1 ELSE round
        /\ pc' = CASE result.kind = "program" -> "done"
                   [] result.kind = "error" -> "failed"
                   [] OTHER -> IF round >= MaxRounds THEN "failed" ELSE "infer"
  /\ UNCHANGED <<recording, nodes, outs>>

Registered ==
  CASE recording.outs = "last" -> {<<Len(nodes)>>}
    [] recording.outs = "any" -> {<<o>> : o \in DOMAIN nodes}
    [] recording.outs = "around" -> {<<o, Len(nodes), o>> : o \in DOMAIN nodes}

Next ==
  \/ \E c \in recording.konsts : RecordConst(c)
  \/ \E n \in Operations(recording.operations, nodes) : Operate(n)
  \/ \E os \in Registered : RegisterOutputs(os)
  \/ InferRound

Spec == Init /\ [][Next]_vars

------------------------------------------------------------------------------
(* Properties                                                              *)

(* infer never gives up, whatever the tape: "a chain of fewer than three   *)
(* steps is straight-line code" (signature.hpp:33), so a tape that has one *)
(* is laid out like any other.                                             *)
AlwaysInfers == pc # "failed"

(* The steps of every chain are rows of one class.  They need not be: a    *)
(* chain is found while shorter ones that will be dropped are references,  *)
(* and a Const initial value that a step reads twice is a reference once.  *)
OneClassEach(chains, of) ==
  \A c \in DOMAIN chains : \A i, j \in Range(chains[c].members) : of[i].class = of[j].class
OneClassPerChain(b) == OneClassEach(b.chains, Partition(nodes, outs, b))

(* infer does not give up where they are: the retries settle, the split    *)
(* domains are in no circle, every step keeps its carry and fits its tree, *)
(* and the program passes validate (signature.cpp:613, 839, 1090-1115,     *)
(* 1347-1402).  The program computes what the tape computes: every output  *)
(* has the value of its node (program.hpp, the evaluation contract).       *)
InferDenotes ==
  /\ pc = "failed" => ~OneClassPerChain(Analysis(nodes, outs, banned))
  /\ pc = "done" =>
       LET v == NodeValues(nodes) IN Evaluate(program) = [k \in DOMAIN outs |-> v[outs[k]]]

(* The program expands to the tape it was inferred from, up to the order   *)
(* of the nodes, the order of commutative operands and nothing else: "the  *)
(* round trip is an identity" (expand.hpp).                                *)
RoundTrip ==
  pc = "done" =>
    \E t \in {Expand(program)} : CanonicalForm(t.nodes, t.outs) = CanonicalForm(nodes, outs)
=============================================================================
