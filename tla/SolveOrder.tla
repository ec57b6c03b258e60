----------------------------- MODULE SolveOrder -----------------------------
(***************************************************************************)
(* What CurveSet promises of its blocks (include/epykos/solver/            *)
(* curve_set.hpp): "one implicit block per strongly connected component of *)
(* the graph, in dependency order", or one block of every curve.           *)
(*                                                                         *)
(* A block is a set of curves none of whose instruments reads a curve that *)
(* is neither in it nor calibrated already; in sequential mode no smaller  *)
(* one inside it would do, which is what a component with nothing left     *)
(* before it is.                                                           *)
(***************************************************************************)
CONSTANTS Curves

VARIABLES needs,       \* needs[c]: the other curves that the instruments of c read
          sequential,  \* the mode
          calibrated   \* the curves that have values

order == <<needs, sequential, calibrated>>

Closed(block) == \A c \in block : needs[c] \subseteq block \cup calibrated

NextBlock(block) ==
    IF sequential
    THEN Closed(block) /\ \A part \in (SUBSET block) \ {{}, block} : ~Closed(part)
    ELSE block = Curves

Init == /\ needs \in [Curves -> SUBSET Curves]
        /\ sequential \in BOOLEAN
        /\ calibrated = {}

Calibrate == /\ \E block \in (SUBSET (Curves \ calibrated)) \ {{}} :
                   NextBlock(block) /\ calibrated' = calibrated \cup block
             /\ UNCHANGED <<needs, sequential>>

Spec == Init /\ [][Calibrate]_order
=============================================================================
