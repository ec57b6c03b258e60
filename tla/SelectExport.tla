---------------------------- MODULE SelectExport ----------------------------
(***************************************************************************)
(* export_selects (tape/select_export.cpp): mask, margin and arm gap of    *)
(* every Select of a tape, as outputs.                                     *)
(*                                                                         *)
(* The loop holds references to the Select and to its predicate in the     *)
(* node table while it appends to that table.  A table that is full moves  *)
(* when a node is appended, and what a reference to the old one reads is   *)
(* then anything: Read.                                                    *)
(***************************************************************************)
EXTENDS Integers, Sequences, FiniteSets

CONSTANTS Tapes,      \* the node tables export_selects may be given
          Spare       \* bound: unused capacity of the table, a set of numbers

VARIABLES nodes, cap, outs,   \* the tape: its table, the table's capacity, the outputs
          pc, i,              \* the loop over the nodes recorded before the call
          given, room,        \* how many nodes there were, and the capacity
          fresh,              \* the references are into the table
          margin, gap,        \* nodes appended for the Select at hand
          selects             \* SelectExports::selects
vars == <<nodes, cap, outs, pc, i, given, room, fresh, margin, gap, selects>>

Node(op, a, b, c) == [op |-> op, a |-> a, b |-> b, c |-> c]
Compares == {"CmpLt", "CmpLe", "CmpGt", "CmpGe", "CmpEq"}
Unset == 0

(* Tape::validate, which the call begins with: operands are earlier nodes, *)
(* of a Select all three, and the inputs have their ordinals in tape order.*)
Validated(t) ==
  /\ t \in Seq({t[n] : n \in DOMAIN t})
  /\ \A n \in DOMAIN t :
       /\ t[n] = Node(t[n].op, t[n].a, t[n].b, t[n].c)
       /\ t[n].op = "Select" => {t[n].a, t[n].b, t[n].c} \subseteq 1..(n - 1)
       /\ t[n].op \notin {"Input", "Const"} => {t[n].a, t[n].b, t[n].c} \ {Unset} \subseteq 1..(n - 1)
       /\ t[n].op = "Input" => t[n].a = Cardinality({m \in 1..n : t[m].op = "Input"})

Init ==
  /\ nodes \in Tapes /\ room \in {Len(nodes) + n : n \in Spare} /\ cap = room
  /\ outs = <<>> /\ pc = "loop" /\ i = 1 /\ given = Len(nodes)
  /\ fresh = TRUE /\ margin = Unset /\ gap = Unset /\ selects = <<>>

(* What n.x reads: the operand, or, through a dangling reference, any id   *)
(* of the table or one outside it.                                         *)
Read(x) == IF fresh THEN {nodes[i][x]} ELSE 0..Len(nodes)

(* Tape::push: a full vector is moved to one of twice the capacity.        *)
Push(n) ==
  /\ nodes' = Append(nodes, n)
  /\ cap' = IF Len(nodes) < cap THEN cap ELSE 2 * cap
  /\ fresh' = (fresh /\ Len(nodes) < cap)

Next_i == i' = i + 1 /\ fresh' = TRUE

SkipNode ==
  /\ pc = "loop" /\ i <= given /\ nodes[i].op # "Select"
  /\ Next_i /\ UNCHANGED <<nodes, cap, outs, pc, given, room, margin, gap, selects>>

MarginOf_Swapped(p) == Node("Sub", p.a, p.b, Unset)
MarginOf(p) ==
  IF p.op \in {"CmpLt", "CmpLe"} THEN Node("Sub", p.b, p.a, Unset)
  ELSE Node("Sub", p.a, p.b, Unset)

(* margin = tape.binary(Sub, ...), both references still good              *)
AppendMargin ==
  /\ pc = "loop" /\ i <= given /\ nodes[i].op = "Select"
  /\ LET p == nodes[nodes[i].a]
     IN IF p.op \in Compares
        THEN Push(MarginOf(p)) /\ margin' = Len(nodes) + 1
        ELSE UNCHANGED <<nodes, cap, fresh>> /\ margin' = nodes[i].a
  /\ pc' = "gap"
  /\ UNCHANGED <<outs, i, given, room, gap, selects>>

GapOf_TrueArm(b, c) == Node("Sub", b, b, Unset)
GapOf(b, c) == Node("Sub", b, c, Unset)

(* gap = tape.binary(Sub, n.b, n.c)                                        *)
AppendGap ==
  /\ pc = "gap"
  /\ \E b \in Read("b"), c \in Read("c") :
       IF b \in DOMAIN nodes /\ c \in DOMAIN nodes
       THEN Push(GapOf(b, c)) /\ gap' = Len(nodes) + 1 /\ pc' = "outputs"
       ELSE pc' = "failed" /\ UNCHANGED <<nodes, cap, fresh, gap>>
  /\ UNCHANGED <<outs, i, given, room, margin, selects>>

(* The three outputs and the row of the table returned.                    *)
RegisterOutputs ==
  /\ pc = "outputs"
  /\ \E a \in Read("a") :
       IF a \in DOMAIN nodes
       THEN /\ outs' = outs \o <<a, margin, gap>>
            /\ selects' = Append(selects, [select |-> i, mask |-> Len(outs) + 1,
                                           margin |-> Len(outs) + 2, gap |-> Len(outs) + 3])
            /\ pc' = "loop" /\ Next_i
       ELSE pc' = "failed" /\ UNCHANGED <<outs, selects, i, fresh>>
  /\ UNCHANGED <<nodes, cap, given, room, margin, gap>>

Return == pc = "loop" /\ i > given /\ pc' = "done"
          /\ UNCHANGED <<nodes, cap, outs, i, given, room, fresh, margin, gap, selects>>

Next == SkipNode \/ AppendMargin \/ AppendGap \/ RegisterOutputs \/ Return

Spec == Init /\ [][Next]_vars

------------------------------------------------------------------------------
(* Each Select has three outputs, in tape order after those there were,    *)
(* and its margin is positive when its predicate holds: y - x for x < y,   *)
(* x - y for x > y, the mask itself when the predicate is no comparison    *)
(* (select_export.hpp:5-12).                                               *)
Sub(o) == [op |-> nodes[o].op, from |-> nodes[o].a, take |-> nodes[o].b]
MarginIsOfPredicate ==
  /\ pc = "done" => {selects[k].select : k \in DOMAIN selects}
                      = {n \in 1..given : nodes[n].op = "Select"}
  /\ \A k \in DOMAIN selects :
       LET e == selects[k]
           p == nodes[nodes[e.select].a]
           m == outs[e.margin]
       IN /\ e.mask = 3 * k - 2 /\ e.gap = 3 * k
          /\ \A l \in 1..(k - 1) : selects[l].select < e.select
          /\ p.op = "CmpLt" => Sub(m) = [op |-> "Sub", from |-> p.b, take |-> p.a]
          /\ p.op \in {"CmpGt", "CmpEq"} => Sub(m) = [op |-> "Sub", from |-> p.a, take |-> p.b]
          /\ p.op \notin Compares => m = nodes[e.select].a

(* "gap     the arm gap a - b", "the mask is the predicate node registered *)
(* as an output" (select_export.hpp:11-14).                                *)
GapIsOfArms ==
  \A k \in DOMAIN selects :
    LET n == nodes[selects[k].select]
    IN /\ outs[selects[k].mask] = n.a
       /\ Sub(outs[selects[k].gap]) = [op |-> "Sub", from |-> n.b, take |-> n.c]

(* Every margin is its Select's, and while the table has not moved every   *)
(* gap and mask too, and the call does not fail: what is read after an     *)
(* append is the only hazard.                                              *)
ExportsAreOfTheirSelects ==
  MarginIsOfPredicate /\ (cap = room => pc # "failed" /\ GapIsOfArms)
=============================================================================
