--------------------------- MODULE ImplicitProgram ---------------------------
(***************************************************************************)
(* Executing a tape with implicit blocks for a batch of lanes:             *)
(* ImplicitProgram::run and ::adjoint (src/solver/implicit_program.cpp).   *)
(* Every block in tape order is solved for every lane, lanes with the same *)
(* parameters sharing one solve; the adjoint then pulls the derivative     *)
(* through the blocks in reverse order, with the factors the solves left.  *)
(*                                                                         *)
(* The arrays of one call live on into the next, as they do in the code:   *)
(* full, lane_params, lane_factors, lane_source and reports hold whatever  *)
(* the last call wrote.  Numbers are names (LanesAlone); a derivative is   *)
(* a number of paths.  A solve is one step: module BlockSolver opens it.   *)
(***************************************************************************)
EXTENDS Naturals, Sequences, FiniteSets, FiniteSetsExt

CONSTANTS N, Free, Quotes, Reads, Diverges, Start, Nothing, Thrown,  \* see LanesAlone
          MaxBatch,   \* options.max_batch
          Dedup,      \* options.dedup_lanes: the values to explore
          Throws,     \* throw_on_failure, of the program or of the blocks: likewise
          MaxCalls    \* bound: calls of run and adjoint

ASSUME BatchAssumption == /\ MaxBatch \in Nat \ {0}
                          /\ MaxCalls \in Nat
                          /\ Dedup \subseteq BOOLEAN
                          /\ Throws \subseteq BOOLEAN

(* A later block may read an earlier block's unknowns, never the reverse.  *)
ASSUME ReadsAssumption == /\ N \in Nat
                          /\ Free \cap 1 .. N = {}
                          /\ \A block \in 1 .. N : Reads[block] \subseteq Free \cup 1 .. (block - 1)

VARIABLES request, throws, answer,  \* the caller's side, as in LanesAlone
          dedup,       \* options.dedup_lanes
          pc,          \* "idle", "solve", "forward", "pull" or "gather"
          k, b,        \* the block and the lane of the loops
          full,        \* full[lane][input]
          full_bar,    \* full_bar[lane][input]
          laneParams, laneFactors, laneSource, reports,  \* [block][lane]
          last_B,      \* lanes of the last call
          solves,      \* stats.solves
          calls        \* calls so far

vars == <<request, throws, answer, dedup, pc, k, b, full, full_bar, laneParams, laneFactors,
          laneSource, reports, last_B, solves, calls>>

Alone == INSTANCE LanesAlone WITH asked <- pc # "idle"

Blocks == Alone!Blocks
Inputs == Alone!Inputs
Lanes == 1 .. MaxBatch
Batch == 1 .. last_B

Report(block, params) == [of |-> Alone!Solve(block, Start, params),
                          converged |-> ~Alone!Fails(block, params)]

PerLane(value) == [block \in Blocks |-> [lane \in Lanes |-> value]]

Init == /\ request = Nothing /\ answer = Nothing
        /\ throws \in Throws /\ dedup \in Dedup
        /\ pc = "idle" /\ k = 1 /\ b = 1
        /\ full = [lane \in Lanes |-> [i \in Inputs |-> Nothing]]
        /\ full_bar = [lane \in Lanes |-> [i \in Inputs |-> 0]]
        /\ laneParams = PerLane(Nothing) /\ laneFactors = PerLane(Nothing)
        /\ laneSource = PerLane(0) /\ reports = PerLane(Nothing)
        /\ last_B = 0 /\ solves = 0 /\ calls = 0

(* The blocks and the lanes of a loop, lane by lane within a block.        *)
Forth(after) == IF b < last_B THEN b' = b + 1 /\ UNCHANGED <<k, pc>>
                ELSE b' = 1 /\ k' = k + 1 /\ pc' = IF k < N THEN pc ELSE after
Back(after)  == IF b < last_B THEN b' = b + 1 /\ UNCHANGED <<k, pc>>
                ELSE b' = 1 /\ k' = k - 1 /\ pc' = IF k > 1 THEN pc ELSE after

(* The head of solve_lanes: the free inputs of every lane of the batch.    *)
Call(op, states) ==
    /\ pc = "idle" /\ calls < MaxCalls
    /\ request' = [op |-> op, states |-> states]
    /\ answer' = Nothing
    /\ last_B' = Len(states)
    /\ solves' = 0
    /\ full' = [lane \in Lanes |-> [i \in Inputs |->
                   IF i \in Free /\ lane <= Len(states) THEN states[lane][i] ELSE full[lane][i]]]
    /\ k' = 1 /\ b' = 1
    /\ pc' = IF N = 0 THEN "forward" ELSE "solve"
    /\ calls' = calls + 1
    /\ UNCHANGED <<throws, dedup, full_bar, laneParams, laneFactors, laneSource, reports>>

Params == [m \in Reads[k] |-> full[b][m]]

(* The earlier lanes of this call that solved for the same parameters.     *)
Twins_Neighbour == {a \in {b - 1} \ {0} : laneSource[k][a] = a /\ laneParams[k][a] = Params}
Twins == {a \in 1 .. (b - 1) : laneSource[k][a] = a /\ laneParams[k][a] = Params}

Share_NoReport == /\ pc = "solve" /\ dedup /\ Twins # {}
                  /\ laneParams' = [laneParams EXCEPT ![k][b] = Params]
                  /\ laneSource' = [laneSource EXCEPT ![k][b] = Min(Twins)]
                  /\ full' = [full EXCEPT ![b][k] = full[Min(Twins)][k]]
                  /\ Forth("forward")
                  /\ UNCHANGED <<request, throws, answer, dedup, full_bar, laneFactors, reports,
                                 last_B, solves, calls>>

Share == /\ pc = "solve" /\ dedup /\ Twins # {}
         /\ laneParams' = [laneParams EXCEPT ![k][b] = Params]
         /\ LET a == Min(Twins)
            IN  /\ laneSource' = [laneSource EXCEPT ![k][b] = a]
                /\ full' = [full EXCEPT ![b][k] = full[a][k]]
                /\ reports' = [reports EXCEPT ![k][b] = reports[k][a]]
         /\ Forth("forward")
         /\ UNCHANGED <<request, throws, answer, dedup, full_bar, laneFactors, last_B, solves, calls>>

(* Only an adjoint wants the factors; a forward solve invalidates them.    *)
FactorsWanted_Once(solution) == IF request.op = "adjoint" /\ laneFactors[k][b] = Nothing
                                THEN solution ELSE laneFactors[k][b]
FactorsWanted(solution) == IF request.op = "adjoint" THEN solution ELSE Nothing

(* A solve of the lane's own, and what it leaves before it may throw.      *)
SolveHere == /\ pc = "solve" /\ ~(dedup /\ Twins # {})
             /\ laneParams' = [laneParams EXCEPT ![k][b] = Params]
             /\ laneSource' = [laneSource EXCEPT ![k][b] = b]
             /\ laneFactors' = [laneFactors EXCEPT ![k][b] = FactorsWanted(Alone!Solve(k, Start, Params))]
             /\ solves' = solves + 1
             /\ UNCHANGED <<request, throws, dedup, full_bar, last_B, calls>>

Solve_NeverThrows == /\ SolveHere
                     /\ full' = [full EXCEPT ![b][k] = Alone!Solve(k, Start, Params)]
                     /\ reports' = [reports EXCEPT ![k][b] = Report(k, Params)]
                     /\ Forth("forward")
                     /\ UNCHANGED answer

Solve == /\ SolveHere
         /\ Alone!Fails(k, Params) => ~throws
         /\ full' = [full EXCEPT ![b][k] = Alone!Solve(k, Start, Params)]
         /\ reports' = [reports EXCEPT ![k][b] = Report(k, Params)]
         /\ Forth("forward")
         /\ UNCHANGED answer

(* The exception leaves every array as far as the loop had come.           *)
Throw == /\ SolveHere
         /\ Alone!Fails(k, Params) /\ throws
         /\ answer' = Thrown
         /\ pc' = "idle"
         /\ UNCHANGED <<k, b, full, reports>>

(* One batched pass of the whole program over the completed lanes.         *)
Forward == /\ pc = "forward" /\ request.op = "run"
           /\ answer' = [lane \in Batch |-> [inputs |-> full[lane], gradient |-> Nothing]]
           /\ pc' = "idle"
           /\ UNCHANGED <<request, throws, dedup, k, b, full, full_bar, laneParams, laneFactors,
                          laneSource, reports, last_B, solves, calls>>

(* The whole-program adjoint: what every input adds to the outputs itself. *)
Differentiate == /\ pc = "forward" /\ request.op = "adjoint"
                 /\ full_bar' = [lane \in Lanes |-> [i \in Inputs |->
                                    IF lane \in Batch THEN 1 ELSE full_bar[lane][i]]]
                 /\ k' = N /\ b' = 1
                 /\ pc' = IF N = 0 THEN "gather" ELSE "pull"
                 /\ UNCHANGED <<request, throws, answer, dedup, full, laneParams, laneFactors,
                                laneSource, reports, last_B, solves, calls>>

(* The factors a lane pulls through are those of the lane it shares with.  *)
FactorsUsed_OwnLane(block, lane) == laneFactors[block][lane]
FactorsUsed(block, lane) == laneFactors[block][laneSource[block][lane]]

Pull_Overwrites == /\ pc = "pull"
                   /\ full_bar' = [full_bar EXCEPT ![b] = [i \in Inputs |->
                                      IF i \in Reads[k] THEN @[k] ELSE @[i]]]
                   /\ Back("gather")
                   /\ UNCHANGED <<request, throws, answer, dedup, full, laneParams, laneFactors,
                                  laneSource, reports, last_B, solves, calls>>

(* ift_adjoint: the derivative of the unknowns goes on to the parameters.  *)
Pull == /\ pc = "pull"
        /\ FactorsUsed(k, b) # Nothing   \* require_valid
        /\ full_bar' = [full_bar EXCEPT ![b] = [i \in Inputs |->
                           IF i \in Reads[k] THEN @[i] + @[k] ELSE @[i]]]
        /\ Back("gather")
        /\ UNCHANGED <<request, throws, answer, dedup, full, laneParams, laneFactors, laneSource,
                       reports, last_B, solves, calls>>

Gather == /\ pc = "gather"
          /\ answer' = [lane \in Batch |-> [inputs |-> full[lane],
                                            gradient |-> [i \in Free |-> full_bar[lane][i]]]]
          /\ pc' = "idle"
          /\ UNCHANGED <<request, throws, dedup, k, b, full, full_bar, laneParams, laneFactors,
                         laneSource, reports, last_B, solves, calls>>

Batches == UNION {[1 .. n -> [Free -> Quotes]] : n \in Lanes}

Work == Share \/ Solve \/ Throw \/ Forward \/ Differentiate \/ Pull \/ Gather

Next == (\E op \in {"run", "adjoint"}, states \in Batches : Call(op, states)) \/ Work

(* The caller's thread carries a call to its end.                          *)
Spec == Init /\ [][Next]_vars /\ WF_vars(Work)
-----------------------------------------------------------------------------
(* The type invariant. *)
TypeOK == /\ throws \in Throws /\ dedup \in Dedup
          /\ pc \in {"idle", "solve", "forward", "pull", "gather"}
          /\ k \in 0 .. (N + 1) /\ b \in Lanes
          /\ last_B \in 0 .. MaxBatch
          /\ DOMAIN full = Lanes /\ \A lane \in Lanes : DOMAIN full[lane] = Inputs
          /\ full_bar \in [Lanes -> [Inputs -> Nat]]
          /\ laneSource \in [Blocks -> [Lanes -> 0 .. MaxBatch]]
          /\ solves \in 0 .. (N * MaxBatch) /\ calls \in 0 .. MaxCalls

(* A batch answers as its lanes alone would, gradients included, or throws *)
(* when one of them would: the promise of the header.                      *)
AnswersAlone == Alone!Spec

ParamsAlone(block, state) == [m \in Reads[block] |-> Alone!FullState(state)[m]]

(* When the reverse rule begins, every block has, for every lane, factors  *)
(* built in this call at the solution of that very lane: never those of an *)
(* earlier call, of a lane with other parameters, or none.                 *)
FactorsFitTheLane ==
    pc = "pull" =>
        \A block \in Blocks, lane \in Batch :
            FactorsUsed(block, lane) = Alone!Solve(block, Start, ParamsAlone(block, request.states[lane]))

(* With sharing on, a call that returns has solved a block once for every  *)
(* distinct set of parameters in the batch, and a lane's source solved for *)
(* itself.                                                                 *)
OneSolvePerTwin ==
    pc = "idle" /\ dedup /\ answer \notin {Nothing, Thrown} =>
        /\ solves = Cardinality({<<block, ParamsAlone(block, request.states[lane])>> :
                                    block \in Blocks, lane \in Batch})
        /\ \A block \in Blocks, lane \in Batch :
               laneSource[block][laneSource[block][lane]] = laneSource[block][lane]

(* "Lane b's solve of block k in the last run / adjoint"                   *)
(* (implicit_program.hpp:90): after a call that returned, report() and     *)
(* full_state() accept a lane of that call only, and what they return was  *)
(* found in it.  After one that threw they may return an earlier call's.   *)
ReportsOfLastCall ==
    pc = "idle" /\ answer # Thrown =>
        \A block \in Blocks, lane \in Batch :
            reports[block][lane] = Report(block, ParamsAlone(block, request.states[lane]))
=============================================================================
