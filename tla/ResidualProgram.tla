-------------------------- MODULE ResidualProgram --------------------------
(***************************************************************************)
(* The residual program of an implicit block (ResidualProgram in           *)
(* src/solver/residual.cpp): the slots its unknowns and parameters have in *)
(* the slice of its residuals, and the calls its solver makes, in any      *)
(* order, over the same buffers.  A Jacobian takes the residuals a chunk   *)
(* of reverse lanes at a time, and the buffers are laid out anew for every *)
(* chunk's width, over what other calls have left in them.                 *)
(*                                                                         *)
(* A number is where it is from; what the adjoint answers on a lane is     *)
(* told by the state and the seeds it finds there.                         *)
(***************************************************************************)
EXTENDS Naturals, Sequences, FiniteSets, FiniteSetsExt

CONSTANTS Blocks,    \* blocks: [unknowns, reads, rows], see below
          Batches,   \* values of max_batch
          MaxCalls   \* bound: calls of a program

(* unknowns are tape inputs, in the block's order; reads the tape inputs   *)
(* the residuals read, which are the slice's inputs; rows the residuals.   *)
\* Assumed by TapeReaders, which composes this module.  An input is read in
\* one slot (the ordinals of a slice ascend), and an unknown is one input.
Once(s) == s \in Seq(Nat) /\ \A i, j \in DOMAIN s : s[i] = s[j] => i = j
CallsAssumption ==
  /\ Batches \subseteq Nat \ {0} /\ MaxCalls \in Nat
  /\ \A b \in Blocks : b.rows \in Nat /\ Once(b.reads) /\ Once(b.unknowns)

VARIABLES block,   \* the block
          zSlot,   \* the slot of every unknown
          batch,   \* adj_batch_: the widest chunk of lanes
          step,    \* "new", "ready", "jacobian" or "refused"
          row,     \* the residuals whose row of the Jacobian is done
          calls,   \* the calls made: what they are given has their number
          state,   \* state_: the inputs, slot by slot, lanes innermost
          seeds,   \* out_bar_: the adjoints of the residuals, likewise
          answer   \* what the last call has written to its arrays
callVars == <<block, zSlot, batch, step, row, calls, state, seeds, answer>>

Zero == <<"zero">>
One == <<"one">>
Weight(i) == <<"weight", i, calls>>   \* v[i] of jt_product

ProgramInit ==
  /\ block \in Blocks
  /\ zSlot = <<>> /\ batch = 0 /\ step = "new" /\ row = 0 /\ calls = 0
  /\ state = <<>> /\ seeds = <<>> /\ answer = <<>>

Slots == DOMAIN block.reads
SlotsOfUnknown(j) == {k \in Slots : block.reads[k] = block.unknowns[j]}

(* The constructor.  The slice has only the inputs that are read, so an    *)
(* unknown no residual reads is found by its missing slot.                 *)
Refused ==
  \/ block.unknowns = <<>> \/ block.rows < Len(block.unknowns)
  \/ \E j \in DOMAIN block.unknowns : SlotsOfUnknown(j) = {}

Construct(max) ==
  /\ step = "new"
  /\ IF Refused THEN step' = "refused" /\ UNCHANGED <<zSlot, batch, state, seeds>>
     ELSE /\ step' = "ready" /\ batch' = Min({max, block.rows})
          /\ zSlot' = [j \in DOMAIN block.unknowns |-> CHOOSE k \in SlotsOfUnknown(j) : TRUE]
          /\ state' = [c \in 1..(Cardinality(Slots) * batch') |-> Zero]
          /\ seeds' = [c \in 1..(block.rows * batch') |-> Zero]
  /\ UNCHANGED <<block, row, calls, answer>>

(* Parameters are the other slots, in order.                               *)
IsParameter(k) == \A j \in DOMAIN zSlot : zSlot[j] # k
ParameterAt(k) == Cardinality({m \in 1..k : IsParameter(m)})

(* Lane b, from 1, of an item of a buffer laid out for a number of lanes.  *)
Cell(item, lanes, b) == (item - 1) * lanes + b
Lane(buffer, items, lanes, b) == [i \in items |-> buffer[Cell(i, lanes, b)]]

(* fill_state: the call's z and p in every lane.                           *)
Given(k) ==
  IF IsParameter(k) THEN <<"p", ParameterAt(k), calls>>
  ELSE <<"z", CHOOSE j \in DOMAIN zSlot : zSlot[j] = k, calls>>

Filled(lanes) ==
  [c \in DOMAIN state |-> IF c <= Cardinality(Slots) * lanes THEN Given((c - 1) \div lanes + 1) ELSE state[c]]

Rows == 1..block.rows
Value(i, point) == <<"residual", i, point>>
Pulled(k, point, seeded) == <<"adjoint", k, point, seeded>>
Gradient(point, seeded) == [k \in Slots |-> Pulled(k, point, seeded)]

CallMade == /\ step = "ready" /\ calls < MaxCalls /\ calls' = calls + 1
            /\ UNCHANGED <<block, zSlot, batch>>

EvaluateAt(point) == [call |-> "evaluate", F |-> [i \in Rows |-> Value(i, point)]]
Evaluate ==
  /\ CallMade /\ state' = Filled(1)
  /\ answer' = EvaluateAt(Lane(state', Slots, 1, 1))
  /\ UNCHANGED <<step, row, seeds>>

JtProduct ==
  /\ CallMade /\ state' = Filled(1)
  /\ seeds' = [c \in DOMAIN seeds |-> IF c \in Rows THEN Weight(c) ELSE seeds[c]]
  /\ LET point == Lane(state', Slots, 1, 1)
         pulled == Gradient(point, Lane(seeds', Rows, 1, 1))
     IN answer' = [call |-> "jt_product", F |-> [i \in Rows |-> Value(i, point)],
                   z |-> [j \in DOMAIN zSlot |-> pulled[zSlot[j]]],
                   p |-> [k \in {k \in Slots : IsParameter(k)} |-> pulled[k]]]
  /\ UNCHANGED <<step, row>>

StartJacobian ==
  /\ step = "ready" /\ calls < MaxCalls
  /\ step' = "jacobian" /\ row' = 0 /\ answer' = [call |-> "jacobian", F |-> <<>>, z |-> <<>>, p |-> <<>>]
  /\ UNCHANGED <<block, zSlot, batch, calls, state, seeds>>

(* The seeds of the chunk from a row on: lane b pulls the row b on.        *)
SeededChunk_Kept(from, lanes) ==
  [c \in DOMAIN seeds |-> IF \E b \in 1..lanes : c = Cell(from + b, lanes, b) THEN One ELSE seeds[c]]
SeededChunk(from, lanes) ==
  [c \in DOMAIN seeds |-> IF \E b \in 1..lanes : c = Cell(from + b, lanes, b) THEN One
                          ELSE IF c <= block.rows * lanes THEN Zero ELSE seeds[c]]

JacobianChunk ==
  /\ step = "jacobian" /\ row < block.rows
  /\ LET lanes == Min({batch, block.rows - row})
         filled == Filled(lanes)
         seeded == SeededChunk(row, lanes)
         point(b) == Lane(filled, Slots, lanes, b)
         pulled(b) == Gradient(point(b), Lane(seeded, Rows, lanes, b))
     IN /\ state' = filled /\ seeds' = seeded /\ row' = row + lanes
        /\ answer' = [answer EXCEPT
             !.F = @ \o [b \in 1..lanes |-> Value(row + b, point(b))],
             !.z = @ \o [b \in 1..lanes |-> [j \in DOMAIN zSlot |-> pulled(b)[zSlot[j]]]],
             !.p = @ \o [b \in 1..lanes |-> [k \in {k \in Slots : IsParameter(k)} |-> pulled(b)[k]]]]
  /\ UNCHANGED <<block, zSlot, batch, step, calls>>

EndJacobian ==
  /\ step = "jacobian" /\ row = block.rows
  /\ step' = "ready" /\ row' = 0 /\ calls' = calls + 1
  /\ UNCHANGED <<block, zSlot, batch, state, seeds, answer>>

ProgramNext ==
  \/ \E max \in Batches : Construct(max)
  \/ Evaluate \/ JtProduct \/ StartJacobian \/ JacobianChunk \/ EndJacobian
------------------------------------------------------------------------------
(* The point of the last call: the inputs the residuals read, each with    *)
(* the unknown it is or the parameter.                                     *)
UnknownsAt(k) == {j \in DOMAIN block.unknowns : block.unknowns[j] = block.reads[k]}
OwnPoint ==
  [k \in Slots |-> IF UnknownsAt(k) = {}
                   THEN <<"p", Cardinality({m \in 1..k : UnknownsAt(m) = {}}), calls - 1>>
                   ELSE <<"z", CHOOSE j \in UnknownsAt(k) : TRUE, calls - 1>>]
UnitSeeds(i) == [r \in Rows |-> IF r = i THEN One ELSE Zero]
Weights == [r \in Rows |-> <<"weight", r, calls - 1>>]

(* Whatever calls came before and however the rows fall into chunks, a     *)
(* call answers at its own point, every row of a Jacobian is one residual  *)
(* pulled alone, and an entry is of the unknown or parameter it stands for *)
(* (residual.hpp: "Jz[i*n_z + j] = dF_i/dz_j").                            *)
PullsOf(entries, seeded) ==
  /\ \A j \in DOMAIN block.unknowns : \E k \in Slots :
       block.reads[k] = block.unknowns[j] /\ entries.z[j] = Pulled(k, OwnPoint, seeded)
  /\ entries.p = [k \in {k \in Slots : UnknownsAt(k) = {}} |-> Pulled(k, OwnPoint, seeded)]

CallsAreOfTheirPoint ==
  step = "ready" /\ calls > 0 =>
    /\ answer.F = [i \in Rows |-> Value(i, OwnPoint)]
    /\ answer.call = "jacobian" => \A i \in Rows : PullsOf([z |-> answer.z[i], p |-> answer.p[i]], UnitSeeds(i))
    /\ answer.call = "jt_product" => PullsOf([z |-> answer.z, p |-> answer.p], Weights)
=============================================================================
