---------------------------- MODULE BlockSolver ----------------------------
(***************************************************************************)
(* The untaped solve of one implicit block on one lane: BlockSolver::solve *)
(* (src/solver/residual.cpp), Gauss-Newton with damping, on a Jacobian of  *)
(* the lane's own or on the record-point one shared by every lane.         *)
(*                                                                         *)
(* The numbers are abstracted to what the control looks at: an iterate is  *)
(* the count of accepted steps that led to it (a trial is one more), and a *)
(* residual vector is where it was evaluated, by which program, whether an *)
(* entry is a NaN, and what inf_norm makes of it.  Norms are 0..MaxNorm,   *)
(* and the tolerance lies between 0 and 1.  What a step or an evaluation   *)
(* yields is a free choice: it depends on maths the solver does not know.  *)
(* The damping mu only shapes the step, so it is left out.                 *)
(***************************************************************************)
EXTENDS Naturals

CONSTANTS MaxIterations,  \* options.max_iterations
          MaxTries,       \* options.max_damping_tries
          MaxStalls,      \* options.chord_max_stalls
          MaxNorm,        \* bound: the largest norm of a residual
          Options,        \* the (chord, finalJacobian, diagnostic, wanted) solves
          NaNs            \* whether a residual may hold a NaN: a subset of BOOLEAN

ASSUME BoundsAssumption == /\ MaxIterations \in Nat
                           /\ MaxTries \in Nat
                           /\ MaxStalls \in Nat
                           /\ MaxNorm \in Nat
                           /\ NaNs \subseteq BOOLEAN
                           /\ NaNs # {}

Solves == [chord : BOOLEAN, finalJacobian : BOOLEAN, diagnostic : BOOLEAN, wanted : BOOLEAN]

ASSUME OptionsAssumption == Options \subseteq Solves

VARIABLES options,    \* this call's options, and whether it wants the factors
          pc,         \* "start", "loop", "try", "diagnose", "build" or "done"
          z,          \* the iterate in the caller's array
          F, FTry,    \* F_ and F_try_
          rInf,       \* r_inf
          own,        \* the iterate own_ and Jz_ belong to, or None
          useShared,  \* the step uses the record-point factors
          refreshed,  \* rep.refreshed
          stalls,     \* chord steps in a row that hardly contracted
          it,         \* accepted steps
          t,          \* trials of this iteration
          jacobians,  \* rep.jacobians
          factors     \* what the caller gets

vars == <<options, pc, z, F, FTry, rInf, own, useShared, refreshed, stalls, it, t,
          jacobians, factors>>

None == MaxIterations + 1
Iterates == 0 .. MaxIterations

Residual(at, by, norm, nan) == [at |-> at, by |-> by, norm |-> norm, nan |-> nan]
Unset == Residual(None, "nobody", 0, FALSE)

Invalid == [of |-> "nothing", at |-> None]   \* Factors()
Shared  == [of |-> "record", at |-> None]    \* the factors of the record point
OwnAt(x) == [of |-> "own", at |-> x]

(* inf_norm takes fmax, which drops a NaN operand: a NaN entry counts as 0. *)
Small(norm) == norm < 1

Init == /\ options \in Options
        /\ pc = "start"
        /\ z = 0
        /\ F = Unset /\ FTry = Unset
        /\ rInf = 0
        /\ own = None
        /\ useShared = FALSE /\ refreshed = FALSE
        /\ stalls = 0 /\ it = 0 /\ t = 0 /\ jacobians = 0
        /\ factors = Invalid

(* An evaluation of the residuals at the iterate x by the interpreter.     *)
Evaluations(x) == {Residual(x, "interpreter", norm, nan) : norm \in 0 .. MaxNorm, nan \in NaNs}

(* options.chord: the policy is chord and the caller hands in record factors *)
(* (ImplicitProgram does, valid ones; the record-time solve does not).     *)
Start == /\ pc = "start"
         /\ \E r \in Evaluations(z) : F' = r /\ rInf' = r.norm
         /\ useShared' = options.chord
         /\ pc' = "loop"
         /\ UNCHANGED <<options, z, FTry, own, refreshed, stalls, it, t, jacobians, factors>>

Stopping == it >= MaxIterations \/ Small(rInf)

Stop == /\ pc = "loop" /\ Stopping
        /\ pc' = "diagnose"
        /\ UNCHANGED <<options, z, F, FTry, rInf, own, useShared, refreshed, stalls, it, t,
                       jacobians, factors>>

(* rp_.jacobian at z: the forward pass of the adjoint writes F_ as well.   *)
TakeJacobian == /\ F' = [F EXCEPT !.at = z, !.by = "adjoint"]
                /\ own' = z
                /\ jacobians' = jacobians + 1

Linearise == /\ pc = "loop" /\ ~Stopping
             /\ IF useShared THEN UNCHANGED <<F, own, jacobians>> ELSE TakeJacobian
             /\ t' = 0
             /\ pc' = "try"
             /\ UNCHANGED <<options, z, FTry, rInf, useShared, refreshed, stalls, it, factors>>

(* The right-hand side of the step goes through F_try_, then the residual  *)
(* at the trial point does: a trial the next actions accept or reject.     *)
Trial(r) == pc = "try" /\ t < MaxTries /\ r \in Evaluations(z + 1)

(* Twice the new norm exceeds the old: chord_min_contraction is one half.  *)
Stalling(r) == 2 * r.norm > rInf

Refresh_StillShared == refreshed' = TRUE /\ stalls' = 0 /\ UNCHANGED useShared

Refresh == useShared' = FALSE /\ refreshed' = TRUE /\ stalls' = 0

Accept_NoSwap(r) == /\ Trial(r) /\ r.norm < rInf
                    /\ z' = z + 1
                    /\ FTry' = r
                    /\ rInf' = r.norm
                    /\ it' = it + 1
                    /\ pc' = "loop"
                    /\ UNCHANGED <<options, F, own, useShared, refreshed, stalls, t,
                                   jacobians, factors>>

Accept(r) == /\ Trial(r) /\ r.norm < rInf
             /\ z' = z + 1
             /\ F' = r /\ FTry' = F
             /\ rInf' = r.norm
             /\ it' = it + 1
             /\ IF useShared /\ Stalling(r) /\ stalls + 1 >= MaxStalls
                THEN Refresh
                ELSE /\ stalls' = IF useShared /\ Stalling(r) THEN stalls + 1
                                  ELSE IF useShared THEN 0 ELSE stalls
                     /\ UNCHANGED <<useShared, refreshed>>
             /\ pc' = "loop"
             /\ UNCHANGED <<options, own, t, jacobians, factors>>

RejectShared_Stops(r) == /\ Trial(r) /\ ~(r.norm < rInf) /\ useShared
                         /\ FTry' = r
                         /\ pc' = "diagnose"
                         /\ UNCHANGED <<options, z, F, rInf, own, useShared, refreshed,
                                        stalls, it, t, jacobians, factors>>

(* A rejected chord step: the lane goes on with a Jacobian of its own.     *)
RejectShared(r) == /\ Trial(r) /\ ~(r.norm < rInf) /\ useShared
                   /\ FTry' = r
                   /\ Refresh
                   /\ pc' = "loop"
                   /\ UNCHANGED <<options, z, F, rInf, own, it, t, jacobians, factors>>

RejectOwn_Relinearises(r) == /\ Trial(r) /\ ~(r.norm < rInf) /\ ~useShared
                             /\ FTry' = r
                             /\ pc' = "loop"
                             /\ UNCHANGED <<options, z, F, rInf, own, useShared, refreshed, stalls,
                                            it, t, jacobians, factors>>

RejectOwn(r) == /\ Trial(r) /\ ~(r.norm < rInf) /\ ~useShared
                /\ FTry' = r
                /\ t' = t + 1
                /\ UNCHANGED <<options, pc, z, F, rInf, own, useShared, refreshed, stalls, it,
                               jacobians, factors>>

(* No trial left, and none accepted: the solve gives up.                   *)
Exhausted == /\ pc = "try" /\ t >= MaxTries
             /\ pc' = "diagnose"
             /\ UNCHANGED <<options, z, F, FTry, rInf, own, useShared, refreshed, stalls, it,
                            t, jacobians, factors>>

(* The diagnostic's own forward pass lands in F_try_.                      *)
Diagnose == /\ pc = "diagnose"
            /\ FTry' = IF options.diagnostic THEN [F EXCEPT !.at = z, !.by = "adjoint"] ELSE FTry
            /\ pc' = "build"
            /\ UNCHANGED <<options, z, F, rInf, own, useShared, refreshed, stalls, it, t,
                           jacobians, factors>>

AtExit_Stale == options.wanted /\ own = None /\ (options.finalJacobian \/ ~options.chord)

AtExit == /\ options.wanted
          /\ options.finalJacobian \/ (own = None /\ ~options.chord)

Build == /\ pc = "build"
         /\ IF AtExit THEN TakeJacobian ELSE UNCHANGED <<F, own, jacobians>>
         /\ factors' = IF ~options.wanted THEN Invalid
                       ELSE IF own' # None THEN OwnAt(own')
                       ELSE Shared
         /\ pc' = "done"
         /\ UNCHANGED <<options, z, FTry, rInf, useShared, refreshed, stalls, it, t>>

Done == pc = "done" /\ UNCHANGED vars   \* solve has returned

Step == \/ Start
        \/ Stop
        \/ Linearise
        \/ \E r \in Evaluations(z + 1) : Accept(r) \/ RejectShared(r) \/ RejectOwn(r)
        \/ Exhausted
        \/ Diagnose
        \/ Build

Next == Step \/ Done

(* One thread runs the solve to its end.                                   *)
Spec == Init /\ [][Next]_vars /\ WF_vars(Step)

Converged == Small(rInf)   \* rep.converged
-----------------------------------------------------------------------------
Residuals == [at : Iterates \cup {None}, by : {"interpreter", "adjoint", "nobody"},
              norm : 0 .. MaxNorm, nan : BOOLEAN]

(* The type invariant.                                                     *)
TypeOK == /\ options \in Options
          /\ pc \in {"start", "loop", "try", "diagnose", "build", "done"}
          /\ z \in Iterates
          /\ F \in Residuals /\ FTry \in Residuals
          /\ rInf \in 0 .. MaxNorm
          /\ own \in Iterates \cup {None}
          /\ useShared \in BOOLEAN /\ refreshed \in BOOLEAN
          /\ stalls \in Nat /\ it \in Iterates /\ t \in 0 .. MaxTries
          /\ jacobians \in Nat
          /\ factors \in [of : {"nothing", "record", "own"}, at : Iterates \cup {None}]

(* Every step is a Newton step of where the lane stands: the residual it   *)
(* is taken with, the norm it must beat and (off the chord) the Jacobian   *)
(* belong to the accepted iterate.                                         *)
StepsFromHere ==
    /\ pc # "start" => F.at = z /\ F.norm = rInf
    /\ pc = "try" /\ ~useShared => own = z

(* What the caller gets to differentiate with: the factors of the solution *)
(* when it asked for the exact ones, else of the last iterate linearised   *)
(* or of the record point; nothing at all, never stale ones, when it did   *)
(* not ask (a forward run).                                                *)
FactorsOfTheSolution ==
    pc = "done" =>
        /\ options.wanted /\ options.finalJacobian => factors = OwnAt(z)
        /\ options.wanted => factors # Invalid
        /\ options.wanted /\ ~options.chord => factors.of = "own"
        /\ ~options.wanted => factors = Invalid

(* The solve reports failure only when its iterations are spent, or when   *)
(* every damped trial along the lane's own Jacobian was refused: a chord   *)
(* step that does not help is never the reason.                            *)
GivesUpOnlyWhenStuck ==
    pc = "done" /\ ~Converged => it = MaxIterations \/ (~useShared /\ t = MaxTries /\ own = z)

(* A lane linearises once per accepted step, once more when it is refused, *)
(* and once at the exit, however often its trials are rejected; and never  *)
(* on the way while the chord holds.                                       *)
WorkBounded == /\ jacobians <= it + 2
               /\ options.chord /\ ~refreshed => jacobians <= 1

(* The solve returns, whatever the residuals do.                           *)
Returns == <>(pc = "done")

(* "converged when ||F||_inf < tol" (implicit.hpp:61): no residual of a    *)
(* lane reported converged is beyond the tolerance or not a number.        *)
ConvergedIsAccurate == pc = "done" /\ Converged => ~F.nan
=============================================================================
