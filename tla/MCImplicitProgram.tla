------------------------- MODULE MCImplicitProgram -------------------------
(* A small instance: a discount curve, a projection curve over it with a  *)
(* quote of its own, and a third curve that reads both.                    *)
EXTENDS ImplicitProgram

CONSTANTS ois, swap, low, off   \* two free inputs, and quotes for them

TwoInputs == {ois, swap}
TwoQuotes == {low, off}
OffMarket == {off}

Triangle == <<{ois}, {1, swap}, {1, 2}>>
=============================================================================
