------------------------------ MODULE TapePass ------------------------------
(***************************************************************************)
(* The tape passes and the pipelines made of them (tape/passes.cpp,        *)
(* compile.cpp).                                                           *)
(*                                                                         *)
(* A pass rebuilds the tape node by node: Rebuilder holds the new table    *)
(* (onodes) and the old -> new map (remap), and the loop body of each pass *)
(* is the actions Drop, Emit, Merge, Reduce and Copy.  What a pass decides *)
(* before the rebuild is a plan of TapeOps.                                *)
(*                                                                         *)
(* val and oval are the values the nodes of the two tables denote.  They   *)
(* are not in the code: they are what the properties compare.              *)
(***************************************************************************)
EXTENDS TapeOps

CONSTANTS
  MinTerms,             \* FoldSumOptions::min_terms
  Works,                \* the tapes recorded and what is called on them: see WorkType
  Operations(_, _),     \* the operations work.operations records on a table
  Outputs(_, _, _),     \* the nodes work.outputs registers as the next output
  Meaning(_, _, _, _, _), \* in work.numbers, the value of an operation from its
                        \* constants and operands
  Refines(_, _, _)      \* in work.numbers, a value simplify may replace by another

VARIABLES
  work,                  \* which of Works is recorded and compiled
  nodes, outs, val,      \* the tape, and what its nodes denote
  pc,                    \* "idle", "rebuild" or "failed" (RecordError)
  job, todo,             \* the call in progress and the passes it still runs
  round, before,         \* compile's loop
  calls,                 \* how many calls were made
  plan, i,               \* the pass in progress: its plan and its loop index
  onodes, oval, remap,   \* Rebuilder::out_ and remap_
  seen,                  \* cse's hash table
  changed, prev,         \* PassResult::changed, the pass that ran before
  total, orig            \* the composed remap, and the tape it starts from

tapeVars == <<nodes, outs, val>>
callVars == <<job, round, before, calls, orig>>
passVars == <<plan, i, onodes, oval, remap, seen, changed>>
vars == <<work, tapeVars, callVars, passVars, pc, todo, prev, total>>

Standard == <<"cse", "dce", "fold_sum", "affine_collapse", "dce">>
Script == [cse |-> <<"cse">>, dce |-> <<"dce">>, fold_sum |-> <<"fold_sum">>,
           affine_collapse |-> <<"affine_collapse">>, simplify |-> <<"simplify">>,
           standard_passes |-> Standard, compile |-> <<"simplify">> \o Standard]
kMaxRounds == 8

WorkType ==
  [jobs : SUBSET DOMAIN Script,  \* the functions called
   calls : Nat,                  \* bound: how many calls
   inputs : Nat, konsts : SUBSET Int,  \* bounds: inputs and the constants recorded
   operations : STRING, outputs : STRING,
   ops : Nat, outs : Nat,        \* bounds: recorded operations, registered outputs
   unread : Nat,                 \* bound: recorded operations nothing reads yet
   numbers : {"doubles", "reals"}]

ASSUME TapePassAssumption == Works \subseteq WorkType

(***************************************************************************)
(* Values.  A commutative operation sees its operands as a set.            *)
(***************************************************************************)
Denote(n, v) ==
  Meaning(work.numbers, n.op, n.konst, n.coefs,
          IF n.op \in Commutative THEN {v[n.args[1]], v[n.args[2]]}
          ELSE [p \in DOMAIN n.args |-> v[n.args[p]]])

Agrees(v, w) == v = w \/ Refines(work.numbers, v, w)

(* The values of a table extended by one node, and by several.             *)
Extended(v, n) == Append(v, Denote(n, v))
ExtendedBy(v, ns) ==
  IF ns = <<>> THEN v
  ELSE IF Len(ns) = 1 THEN Extended(v, ns[1]) ELSE Extended(Extended(v, ns[1]), ns[2])

Init ==
  /\ work \in Works
  /\ nodes = <<>> /\ outs = <<>> /\ val = <<>>
  /\ pc = "idle" /\ job = "none" /\ todo = <<>> /\ round = 0 /\ before = 0 /\ calls = 0
  /\ plan = NoChange /\ i = 1 /\ onodes = <<>> /\ oval = <<>> /\ remap = <<>> /\ seen = <<>>
  /\ changed = 0 /\ prev = "none" /\ total = <<>> /\ orig = [val |-> <<>>, outs |-> <<>>, inputs |-> 0]

------------------------------------------------------------------------------
(* Recording.  To keep the tapes few, inputs come first, then constants,   *)
(* then operations and at last outputs, and no more nodes wait for a       *)
(* reader than the rest of the tape can read.                              *)

InputNode(ordinal) == [op |-> "Input", args |-> <<>>, konst |-> ordinal, coefs |-> <<>>]
Inputs(s) == {j \in DOMAIN s : s[j].op = "Input"}
Done(s) == {j \in DOMAIN s : ~Leaf(s[j])}
Unread(s, os) ==
  {j \in Done(s) : Reads(s, os, j) = {}}

Record(n) ==
  /\ calls = 0 /\ outs = <<>>
  /\ nodes' = Append(nodes, n) /\ val' = Extended(val, n)
  /\ Cardinality(Unread(nodes', outs)) <= work.unread
  /\ Cardinality(Unread(nodes', outs)) <= 1 + work.ops - Cardinality(Done(nodes'))
  /\ UNCHANGED <<outs, callVars, passVars, pc, todo, prev, total>>

RecordInput ==
  /\ Len(nodes) < work.inputs /\ Len(nodes) = Cardinality(Inputs(nodes))
  /\ Record(InputNode(Cardinality(Inputs(nodes)) + 1))

RecordConst(c) ==
  /\ nodes # <<>> /\ \A j \in DOMAIN nodes : Leaf(nodes[j]) /\ ~Is(nodes, j, c)
  /\ Record(Number(c))

(* What Tape::unary, binary, ternary and variadic take: as many operands   *)
(* as the operation reads, all of them nodes of the tape.                  *)
Admitted(n) ==
  /\ n \in [op : DOMAIN Arity \cup Variadic, args : Seq(DOMAIN nodes), konst : Int, coefs : Seq(Int)]
  /\ n.args # <<>> /\ (n.op \in DOMAIN Arity => Len(n.args) = Arity[n.op])
  /\ n.op = "Affine" => Len(n.coefs) = Len(n.args)

RecordOp(n) == Admitted(n) /\ Cardinality(Done(nodes)) < work.ops /\ Record(n)

RegisterOutput(o) ==
  /\ o \in DOMAIN nodes
  /\ calls = 0 /\ Len(outs) < work.outs
  /\ outs' = Append(outs, o)
  /\ UNCHANGED <<nodes, val, callVars, passVars, pc, todo, prev, total>>

------------------------------------------------------------------------------
(* Calls: a pass alone, standard_passes, or compile.                       *)

Call(j) ==
  /\ pc = "idle" /\ job = "none" /\ outs # <<>> /\ calls < work.calls
  /\ job' = j /\ todo' = Script[j] /\ round' = 0 /\ calls' = calls + 1 /\ before' = Len(nodes)
  /\ total' = [o \in DOMAIN nodes |-> o]
  /\ orig' = [val |-> val, outs |-> outs, inputs |-> Cardinality(Inputs(nodes))]
  /\ UNCHANGED <<tapeVars, passVars, pc, prev>>

(* while it is still shrinking, at most kMaxRounds times                   *)
Continues == round < kMaxRounds - 1 /\ (round = 0 \/ Len(nodes) < before)

NextRound ==
  /\ pc = "idle" /\ job = "compile" /\ todo = <<>> /\ Continues
  /\ round' = round + 1 /\ before' = Len(nodes) /\ todo' = Script["compile"]
  /\ UNCHANGED <<tapeVars, passVars, pc, job, calls, orig, prev, total>>

Return ==
  /\ pc = "idle" /\ job # "none" /\ todo = <<>> /\ (job = "compile" => ~Continues)
  /\ job' = "none"
  /\ UNCHANGED <<tapeVars, passVars, pc, todo, round, before, calls, orig, prev, total>>

PlanOf(pass) ==
  CASE pass = "dce" -> DcePlan(nodes, outs)
    [] pass = "fold_sum" -> FoldPlan(nodes, outs, MinTerms)
    [] pass = "affine_collapse" -> AffinePlan(nodes, outs)
    [] OTHER -> NoChange

StartPass ==
  /\ pc = "idle" /\ todo # <<>>
  /\ pc' = "rebuild" /\ plan' = PlanOf(Head(todo))
  /\ i' = 1 /\ onodes' = <<>> /\ oval' = <<>> /\ seen' = <<>> /\ changed' = 0
  /\ remap' = [o \in DOMAIN nodes |-> NoNode]
  /\ UNCHANGED <<tapeVars, callVars, todo, prev, total>>

------------------------------------------------------------------------------
(* The rebuild loop, at node i.                                            *)

Pass == Head(todo)
AtNode == pc = "rebuild" /\ i <= Len(nodes)

(* Rebuilder::mapped does not throw, for any operand of a node.            *)
AllMapped(n) == \A p \in DOMAIN n.args : remap[n.args[p]] \in DOMAIN onodes
Mapped(n) == [n EXCEPT !.args = [p \in DOMAIN n.args |-> remap[n.args[p]]]]

(* CseKey: the operands of a commutative operation in order of id.         *)
Ordered(m) ==
  IF m.op \in Commutative /\ m.args[2] < m.args[1]
  THEN [m EXCEPT !.args = <<m.args[2], m.args[1]>>] ELSE m
CseKey_AsWritten(n) == Mapped(n)
CseKey(n) == Ordered(Mapped(n))

(* seen.emplace(key, id)                                                   *)
Noted(key, id) ==
  [k \in DOMAIN seen \cup {key} |-> IF k \in DOMAIN seen THEN seen[k] ELSE id]

(* The end of the loop body: node o is now node id, or none.               *)
Advance(o, id, more) ==
  /\ remap' = [remap EXCEPT ![o] = id]
  /\ changed' = changed + more
  /\ i' = i + 1
  /\ UNCHANGED <<tapeVars, callVars, plan, pc, todo, prev, total>>

Grow(ns) == onodes' = onodes \o ns /\ oval' = ExtendedBy(oval, ns)
Keep == UNCHANGED <<onodes, oval>>

Drop ==
  /\ AtNode /\ i \in plan.drop
  /\ Keep /\ UNCHANGED seen /\ Advance(i, NoNode, 1)

Emit ==
  /\ AtNode /\ i \notin plan.drop /\ i \in DOMAIN plan.emit /\ AllMapped(plan.emit[i])
  /\ Grow(<<Mapped(plan.emit[i])>>) /\ UNCHANGED seen
  /\ Advance(i, Len(onodes) + 1, 1)

Merge ==
  /\ AtNode /\ Pass = "cse" /\ ~Leaf(nodes[i])
  /\ AllMapped(nodes[i]) /\ CseKey(nodes[i]) \in DOMAIN seen
  /\ Keep /\ UNCHANGED seen
  /\ Advance(i, seen[CseKey(nodes[i])], 1)

Match ==
  IF Pass = "simplify" /\ Len(nodes[i].args) = 2 /\ nodes[i].op \notin {"Sum", "Affine"}
  THEN LET m == Mapped(nodes[i]) IN SimplifyBinary(onodes, m.op, m.args[1], m.args[2])
  ELSE {}

Reduce ==
  /\ AtNode /\ AllMapped(nodes[i])
  /\ \E r \in Match : Grow(r.add) /\ UNCHANGED seen /\ Advance(i, r.at, 1)

(* Rebuilder::copy.  Tape::constant finds the number again; Tape::input    *)
(* gives the next ordinal.                                                 *)
Recorded ==
  IF nodes[i].op = "Const" THEN Constant(onodes, nodes[i].konst)
  ELSE {[add |-> IF nodes[i].op = "Input"
                 THEN <<InputNode(Cardinality(Inputs(onodes)) + 1)>>
                 ELSE <<Mapped(nodes[i])>>,
         at |-> Len(onodes) + 1]}

Copy ==
  /\ AtNode /\ i \notin plan.drop /\ i \notin DOMAIN plan.emit
  /\ AllMapped(nodes[i]) /\ Match = {}
  /\ Pass = "cse" /\ ~Leaf(nodes[i]) => CseKey(nodes[i]) \notin DOMAIN seen
  /\ \E r \in Recorded :
       /\ Grow(r.add)
       /\ seen' = IF Pass = "cse" /\ ~Leaf(nodes[i]) THEN Noted(CseKey(nodes[i]), r.at)
                  ELSE seen
       /\ Advance(i, r.at, IF Pass = "cse" /\ r.add = <<>> THEN 1 ELSE 0)

(* "pass: operand was dropped"                                             *)
Throw ==
  /\ pc = "rebuild"
  /\ \/ /\ i <= Len(nodes) /\ i \notin plan.drop
        /\ ~AllMapped(IF i \in DOMAIN plan.emit THEN plan.emit[i] ELSE nodes[i])
     \/ i > Len(nodes) /\ \E p \in DOMAIN outs : remap[outs[p]] = NoNode
  /\ pc' = "failed"
  /\ UNCHANGED <<tapeVars, callVars, passVars, todo, prev, total>>

(* compose(total, step)                                                    *)
Composed_ByOldId(r) == [o \in DOMAIN total |-> IF o \in DOMAIN r THEN r[o] ELSE NoNode]
Composed(r) == [o \in DOMAIN total |-> IF total[o] = NoNode THEN NoNode ELSE r[total[o]]]

Finish ==
  /\ pc = "rebuild" /\ i > Len(nodes) /\ \A p \in DOMAIN outs : remap[outs[p]] # NoNode
  /\ nodes' = onodes /\ val' = oval /\ outs' = [p \in DOMAIN outs |-> remap[outs[p]]]
  /\ total' = Composed(remap)
  /\ pc' = "idle" /\ todo' = Tail(todo) /\ prev' = Pass
  /\ plan' = NoChange /\ i' = 1 /\ onodes' = <<>> /\ oval' = <<>> /\ remap' = <<>> /\ seen' = <<>>
  /\ changed' = 0
  /\ UNCHANGED callVars

RecordStep ==
  \/ RecordInput
  \/ \E c \in work.konsts : RecordConst(c)
  \/ \E n \in Operations(work.operations, nodes) : RecordOp(n)
  \/ \E o \in Outputs(work.outputs, nodes, outs) : RegisterOutput(o)

CallStep == (\E j \in work.jobs : Call(j)) \/ NextRound \/ Return

PassStep == StartPass \/ Drop \/ Emit \/ Merge \/ Reduce \/ Copy \/ Throw \/ Finish

Next == UNCHANGED work /\ (RecordStep \/ CallStep \/ PassStep)

Spec == Init /\ [][Next]_vars

------------------------------------------------------------------------------
(* Properties                                                              *)

Ids(s) == 0..Len(s)
IsTable(s, v) ==
  /\ Len(v) = Len(s)
  /\ \A j \in DOMAIN s : \A p \in DOMAIN s[j].args : s[j].args[p] \in 1..(j - 1)

(* Both tables are always tables: operands come before their readers, and  *)
(* every id the rebuild keeps is an id of the new table.                   *)
TypeOK ==
  /\ pc \in {"idle", "rebuild", "failed"} /\ job \in work.jobs \cup {"none"}
  /\ IsTable(nodes, val) /\ IsTable(onodes, oval)
  /\ \A p \in DOMAIN outs : outs[p] \in DOMAIN nodes
  /\ i \in 1..(Len(nodes) + 1) /\ changed \in 0..Len(nodes)
  /\ \A o \in DOMAIN remap : o \in DOMAIN nodes /\ remap[o] \in Ids(onodes)
  /\ \A key \in DOMAIN seen : seen[key] \in DOMAIN onodes
  /\ \A o \in DOMAIN total : total[o] \in Ids(nodes)

(* A pass never drops a node that an output, or a node it keeps, still     *)
(* reads: Rebuilder::mapped (passes.cpp:32-36) never throws.               *)
NothingDropped == pc # "failed"

(* Through any call the outputs keep their order and their values, and the *)
(* inputs their number and their ordinals (passes.hpp:3-5).                *)
InterfaceKept ==
  job # "none" =>
    /\ Len(outs) = Len(orig.outs)
    /\ \A p \in DOMAIN outs : /\ Agrees(orig.val[orig.outs[p]], val[outs[p]])
                              /\ total[orig.outs[p]] = outs[p]
    /\ Cardinality(Inputs(nodes)) = orig.inputs
    /\ \A j \in Inputs(nodes) : nodes[j].konst = Cardinality({m \in Inputs(nodes) : m <= j})

(* PassResult::remap, composed over the passes and rounds of a call, takes *)
(* every node of the tape the caller gave to a node that denotes the same, *)
(* bit for bit below the pin and in the reals, where it was defined, above *)
(* it, or to none (passes.hpp:7-15, 70-73, compile.hpp:38-41); the outputs *)
(* and the inputs to themselves.  And no pass throws on the way for a node *)
(* that is gone.                                                           *)
TotalDenotes ==
  /\ NothingDropped
  /\ \A o \in DOMAIN total : total[o] # NoNode => Agrees(orig.val[o], val[total[o]])
  /\ InterfaceKept

(* After cse no two operations have the same op, the same operands (in     *)
(* either order when it commutes), numbers and coefficients                *)
(* (passes.hpp:17-19).                                                     *)
Twins(n, m) ==
  /\ n.op = m.op /\ n.konst = m.konst /\ n.coefs = m.coefs
  /\ \/ n.args = m.args
     \/ n.op \in Commutative /\ n.args = <<m.args[2], m.args[1]>>

CseMergesAll ==
  pc = "idle" /\ prev = "cse" =>
    \A j, m \in DOMAIN nodes : j < m /\ ~Leaf(nodes[j]) => ~Twins(nodes[j], nodes[m])
=============================================================================
