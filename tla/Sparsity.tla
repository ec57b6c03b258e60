------------------------------ MODULE Sparsity ------------------------------
(***************************************************************************)
(* The structural gate of an implicit block (src/solver/sparsity.cpp):     *)
(* one reverse sweep over the tape carries every residual's bit back to    *)
(* the unknowns it reads, the gate refuses a block with a residual or an   *)
(* unknown left out, and a greedy colouring groups the residuals that one  *)
(* reverse lane can serve together.                                        *)
(*                                                                         *)
(* A node is the set of its operands, whatever the operation; the bitsets  *)
(* are sets.                                                               *)
(***************************************************************************)
EXTENDS Integers, Sequences, FiniteSets, FiniteSetsExt

CONSTANTS Size,       \* nodes on the tape
          Arity,      \* bound: operands of a node
          Residuals,  \* bound: residuals of the block
          Unknowns    \* bound: unknowns of the block

Nodes == 1 .. Size

(* Operands are always earlier nodes; a node without operands is an input. *)
Tapes == {t \in [Nodes -> SUBSET Nodes] :
             \A n \in Nodes : t[n] \subseteq 1 .. (n - 1) /\ Cardinality(t[n]) <= Arity}

VARIABLES tape,       \* the operands of every node
          unknowns,   \* the input nodes the block solves for
          residuals,  \* the residual outputs of the block, in order
          require,    \* options.require_structural_coupling
          pc,         \* "seed", "sweep", "gate", "colour", "done" or "refused"
          mark,       \* mark[n]: the residuals that have reached node n
          k,          \* nodes swept
          bits,       \* bits[i]: the unknowns residual i reads
          colour      \* the colour of a residual, -1 until it has one

vars == <<tape, unknowns, residuals, require, pc, mark, k, bits, colour>>

Rows == DOMAIN residuals

Init == /\ tape \in Tapes
        /\ unknowns \in {u \in SUBSET {n \in Nodes : tape[n] = {}} : Cardinality(u) \in 1 .. Unknowns}
        /\ residuals \in UNION {[1 .. r -> Nodes] : r \in 1 .. Residuals}
        /\ Len(residuals) >= Cardinality(unknowns)
        /\ require \in BOOLEAN
        /\ pc = "seed" /\ k = 0
        /\ mark = [n \in Nodes |-> {}]
        /\ bits = [i \in Rows |-> {}]
        /\ colour = [i \in Rows |-> -1]

LastResidual == Max({residuals[i] : i \in Rows})

Seed == /\ pc = "seed"
        /\ mark' = [n \in Nodes |-> {i \in Rows : residuals[i] = n}]
        /\ pc' = "sweep"
        /\ UNCHANGED <<tape, unknowns, residuals, require, k, bits, colour>>

(* The node of step k: from the last residual down to the first node.      *)
Swept_Ascending == k + 1
Swept == LastResidual - k

Sweep == /\ pc = "sweep" /\ k < LastResidual
         /\ mark' = [n \in Nodes |-> IF n \in tape[Swept] THEN mark[n] \cup mark[Swept] ELSE mark[n]]
         /\ k' = k + 1
         /\ UNCHANGED <<tape, unknowns, residuals, require, pc, bits, colour>>

ReadRows == /\ pc = "sweep" /\ k = LastResidual
            /\ bits' = [i \in Rows |-> {u \in unknowns : i \in mark[u]}]
            /\ pc' = "gate"
            /\ UNCHANGED <<tape, unknowns, residuals, require, mark, k, colour>>

DeadUnknowns == {u \in unknowns : \A i \in Rows : u \notin bits[i]}
DeadResiduals == {i \in Rows : bits[i] = {}}

Singular_ColumnsOnly == DeadUnknowns # {}
Singular == DeadUnknowns # {} \/ DeadResiduals # {}

Gate == /\ pc = "gate"
        /\ pc' = IF require /\ Singular THEN "refused" ELSE "colour"
        /\ UNCHANGED <<tape, unknowns, residuals, require, mark, k, bits, colour>>

(* The rows in the order they are coloured: the densest first, ties by row.*)
Before(i, j) == \/ Cardinality(bits[i]) > Cardinality(bits[j])
                \/ Cardinality(bits[i]) = Cardinality(bits[j]) /\ i < j

Coloured == {i \in Rows : colour[i] >= 0}

Conflicts(i, j) == bits[i] \cap bits[j] # {}

Taken_Adjacent(i) == {colour[j] : j \in {j \in Coloured \cap {i - 1, i + 1} : Conflicts(i, j)}}
Taken(i) == {colour[j] : j \in {j \in Coloured : Conflicts(i, j)}}

Pick(i) == Min(0 .. Cardinality(Rows) \ Taken(i))

ColourRow == /\ pc = "colour" /\ Coloured # Rows
             /\ LET i == CHOOSE i \in Rows \ Coloured : \A j \in Rows \ Coloured : j = i \/ Before(i, j)
                IN  colour' = [colour EXCEPT ![i] = Pick(i)]
             /\ UNCHANGED <<tape, unknowns, residuals, require, pc, mark, k, bits>>

Return == /\ pc = "colour" /\ Coloured = Rows
          /\ pc' = "done"
          /\ UNCHANGED <<tape, unknowns, residuals, require, mark, k, bits, colour>>

Stopped == pc \in {"done", "refused"} /\ UNCHANGED vars

Next == Seed \/ Sweep \/ ReadRows \/ Gate \/ ColourRow \/ Return \/ Stopped

Spec == Init /\ [][Next]_vars
-----------------------------------------------------------------------------
(* A residual depends on a node when every set of nodes that holds the     *)
(* residual and the operands of its members holds the node.                *)
DependsOn(i, n) == \A cone \in SUBSET Nodes :
                       residuals[i] \in cone /\ (\A m \in cone : tape[m] \subseteq cone) => n \in cone

(* The sweep computes the whole transitive closure, no more and no less:   *)
(* the pattern is which unknowns the recorded maths of F_i mentions.       *)
PatternIsDependence ==
    pc \in {"gate", "colour", "done", "refused"} =>
        \A i \in Rows, u \in unknowns : u \in bits[i] <=> DependsOn(i, u)

(* "every unknown must reach at least one residual and every residual must *)
(* be reached by at least one unknown": the gate refuses exactly the       *)
(* blocks that break it, on the pattern it ought to see, unless it is      *)
(* switched off.                                                           *)
GateIsExact ==
    LET sound == /\ \A u \in unknowns : \E i \in Rows : DependsOn(i, u)
                 /\ \A i \in Rows : \E u \in unknowns : DependsOn(i, u)
    IN  /\ PatternIsDependence
        /\ pc = "refused" => require /\ ~sound
        /\ pc = "done" => ~require \/ sound

(* Residuals of one colour share no unknown, so one reverse lane seeded    *)
(* with all of them can be read back row by row.                           *)
ColoursAreSeparate ==
    pc = "done" => \A i, j \in Rows : i # j /\ colour[i] = colour[j] => bits[i] \cap bits[j] = {}
=============================================================================
