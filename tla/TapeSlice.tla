----------------------------- MODULE TapeSlice -----------------------------
(***************************************************************************)
(* slice (src/tape/slice.cpp): the nodes some roots are computed from,     *)
(* copied in tape order to a tape of their own.  One pass from the end     *)
(* closes the set of nodes kept, one pass from the front copies it.        *)
(***************************************************************************)
EXTENDS Integers, Sequences

VARIABLES nodes,     \* the tape sliced
          roots,     \* the nodes asked for
          pc,        \* "idle", "close", "copy" or "sliced"
          at,        \* the node either pass has come to
          keep,      \* the nodes marked
          sub,       \* the tape of the slice
          map,       \* node_map: where a node went, Unset if nowhere
          ordinals,  \* input_ordinals
          outputs    \* the outputs of the slice

Unset == 0
Operands(n) == IF n.op \in {"Input", "Const"} THEN {} ELSE {n.a, n.b, n.c} \ {Unset}

(* The call, on a tape and roots it holds: the marks are the roots.        *)
Slice(wanted) ==
  /\ pc = "idle" /\ roots' = wanted
  /\ keep' = {wanted[r] : r \in DOMAIN wanted}
  /\ at' = Len(nodes) /\ map' = [i \in DOMAIN nodes |-> Unset]
  /\ sub' = <<>> /\ ordinals' = <<>> /\ outputs' = <<>> /\ pc' = "close"

Marked_Ascending(i) == Len(nodes) + 1 - i
Marked(i) == i

CloseNode ==
  /\ pc = "close" /\ at > 0 /\ at' = at - 1
  /\ LET i == Marked(at) IN keep' = IF i \in keep THEN keep \cup Operands(nodes[i]) ELSE keep
  /\ UNCHANGED <<roots, pc, sub, map, ordinals, outputs>>

StartCopy ==
  /\ pc = "close" /\ at = 0 /\ at' = 1 /\ pc' = "copy"
  /\ UNCHANGED <<roots, keep, sub, map, ordinals, outputs>>

Renamed(id) == IF id = Unset THEN Unset ELSE map[id]

(* A node on the new tape: a constant is looked up before it is appended,  *)
(* an input takes the next ordinal there and remembers the one it had.     *)
Copied(n) ==
  CASE n.op = "Const" -> n
    [] n.op = "Input" -> [n EXCEPT !.a = Len(ordinals) + 1]
    [] OTHER -> [n EXCEPT !.a = Renamed(n.a), !.b = Renamed(n.b), !.c = Renamed(n.c)]

CopyNode ==
  /\ pc = "copy" /\ at <= Len(nodes) /\ at' = at + 1
  /\ LET n == nodes[at]
         known == {j \in DOMAIN sub : n.op = "Const" /\ sub[j] = n}
     IN IF at \notin keep THEN UNCHANGED <<sub, map, ordinals>>
        ELSE /\ sub' = IF known = {} THEN Append(sub, Copied(n)) ELSE sub
             /\ map' = [map EXCEPT ![at] = IF known = {} THEN Len(sub) + 1 ELSE CHOOSE j \in known : TRUE]
             /\ ordinals' = IF n.op = "Input" THEN Append(ordinals, n.a) ELSE ordinals
  /\ UNCHANGED <<roots, pc, keep, outputs>>

FinishSlice ==
  /\ pc = "copy" /\ at > Len(nodes) /\ pc' = "sliced"
  /\ outputs' = [r \in DOMAIN roots |-> map[roots[r]]]
  /\ UNCHANGED <<roots, at, keep, sub, map, ordinals>>

SliceStep == CloseNode \/ StartCopy \/ CopyNode \/ FinishSlice
------------------------------------------------------------------------------
(* A tree of operations over inputs and constants, the value of a node;    *)
(* an input is named by the ordinal it has elsewhere.                      *)
TreeOf(table, ordinal) ==
  LET tree[i \in DOMAIN table] ==
        LET n == table[i]
            below(x) == IF x = Unset THEN <<>> ELSE tree[x]
        IN CASE n.op = "Input" -> <<"Input", ordinal[n.a]>>
             [] n.op = "Const" -> <<"Const", n.b>>
             [] OTHER -> <<n.op, below(n.a), below(n.b), below(n.c)>>
  IN tree

(* The slice computes its roots from the inputs of the tape it was cut     *)
(* from, and holds nothing else: every node of it is read by a later one   *)
(* or is an output, inputs and outputs keep their order.                   *)
SliceComputesRoots ==
  pc = "sliced" =>
    LET was == TreeOf(nodes, [o \in Nat |-> o])
        is == TreeOf(sub, ordinals)
    IN /\ \A r \in DOMAIN roots : is[outputs[r]] = was[roots[r]]
       /\ \A j \in DOMAIN sub : \/ \E r \in DOMAIN outputs : outputs[r] = j
                                \/ \E l \in DOMAIN sub : j < l /\ j \in Operands(sub[l])
       /\ \A i, j \in DOMAIN ordinals : i < j => ordinals[i] < ordinals[j]
=============================================================================
