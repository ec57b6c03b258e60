----------------------------- MODULE LanesAlone -----------------------------
(***************************************************************************)
(* What ImplicitProgram promises of a batch (include/epykos/solver/        *)
(* implicit_program.hpp): "Lanes are solved one at a time and never mix,   *)
(* so lane b of a batched run is bitwise the B = 1 run of its state", and  *)
(* an adjoint's state_bar is the derivative "through every implicit node". *)
(*                                                                         *)
(* An answer says nothing of batches, of shared solves, of what an earlier *)
(* call left behind, or of the order in which blocks are visited.          *)
(***************************************************************************)
EXTENDS Naturals, Sequences, FiniteSets

CONSTANTS N,         \* the implicit blocks, 1..N in tape order
          Free,      \* the free inputs of the tape
          Quotes,    \* the values a free input may take
          Reads,     \* the parameters of a block: free inputs, unknowns of earlier blocks
          Diverges,  \* the quotes no solve converges at
          Start,     \* the point every solve starts from
          Nothing,   \* no value
          Thrown     \* an exception for an answer

Blocks == 1 .. N

(* The unknowns of a block are one tape input, named like the block.       *)
Inputs == Free \cup Blocks

States == [Free -> Quotes]   \* what a caller gives one lane

(* What a solve finds depends on the block, its start and its parameters   *)
(* and on nothing else; the factors at that solution have the same name.   *)
Solve(k, start, params) == [block |-> k, start |-> start, params |-> params]

Unknowns(state) ==
    LET z[k \in Blocks] == Solve(k, Start, [m \in Reads[k] |-> IF m \in Free THEN state[m] ELSE z[m]])
    IN  z

(* Every tape input of one lane solved on its own.                         *)
FullState(state) == [i \in Inputs |-> IF i \in Free THEN state[i] ELSE Unknowns(state)[i]]

Fails(k, params) == \E m \in Reads[k] \cap Free : params[m] \in Diverges
LaneFails(state) == \E k \in Blocks : \E m \in Reads[k] \cap Free : state[m] \in Diverges

(* A derivative is a sum over the ways an input reaches the outputs:       *)
(* directly (the empty path), or through blocks each reading the last.     *)
IsPath(i, path) ==
    \A k \in path : /\ (\A j \in path : k <= j) => i \in Reads[k]
                   /\ \A before \in path :
                         before < k /\ (\A j \in path : j <= before \/ k <= j) => before \in Reads[k]

Paths(i) == Cardinality({path \in SUBSET Blocks : IsPath(i, path)})

Gradient == [i \in Free |-> Paths(i)]
-----------------------------------------------------------------------------
VARIABLES request,  \* what was asked: an operation and a state for every lane
          throws,   \* does a lane that does not converge throw?
          answer,   \* the answer to it
          asked     \* is it still to be answered?

promise == <<request, throws, answer, asked>>

Operations == {"run", "adjoint"}

Answer(op, states) ==
    IF throws /\ \E b \in DOMAIN states : LaneFails(states[b]) THEN Thrown
    ELSE [b \in DOMAIN states |->
             [inputs |-> FullState(states[b]),
              gradient |-> IF op = "adjoint" THEN Gradient ELSE Nothing]]

Init == /\ request = Nothing
        /\ throws \in BOOLEAN
        /\ answer = Nothing
        /\ asked = FALSE

Ask == /\ ~asked
       /\ request' \in [op : Operations, states : Seq(States)]
       /\ asked' = TRUE
       /\ answer' = Nothing
       /\ UNCHANGED throws

Reply == /\ asked
         /\ asked' = FALSE
         /\ answer' = Answer(request.op, request.states)
         /\ UNCHANGED <<request, throws>>

Next == Ask \/ Reply

(* Every call returns or throws.                                           *)
Answered == asked ~> ~asked

Spec == Init /\ [][Next]_promise /\ Answered
=============================================================================
