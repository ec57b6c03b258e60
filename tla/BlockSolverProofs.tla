-------------------------- MODULE BlockSolverProofs --------------------------
(***************************************************************************)
(* The safety of BlockSolver::solve for every number of iterations, trials *)
(* and stalls, and every set of options.  The control of the solve is in   *)
(* its phase, so the inductive invariant says, phase by phase, how the     *)
(* counters, the lane's Jacobian and the chord stand to one another.       *)
(***************************************************************************)
EXTENDS BlockSolver, TLAPS

(* An iterate is the count of accepted steps, and a trial is only made     *)
(* while another may be accepted.                                          *)
IterateInv == /\ z = it
              /\ pc = "start" => it = 0
              /\ pc = "try" => ~Stopping

(* On the chord the lane has linearised nothing and damped nothing; it     *)
(* leaves the chord only by a refresh.                                     *)
ChordInv == /\ useShared /\ pc # "done" => own = None /\ jacobians = 0
            /\ useShared /\ pc = "try" => t = 0
            /\ pc # "start" /\ options.chord /\ ~refreshed => useShared
            /\ ~options.chord => ~useShared

(* One Jacobian per accepted step, one more while trials are made.         *)
WorkInv == /\ pc = "start" => jacobians = 0 /\ own = None
           /\ pc = "loop" => jacobians <= it
           /\ pc \in {"try", "diagnose", "build"} => jacobians <= it + 1

(* Why the loop was left.                                                  *)
ExitInv == pc \in {"diagnose", "build", "done"} =>
              Converged \/ it = MaxIterations \/ (~useShared /\ t = MaxTries /\ own = z)

(* What the caller is left with.                                           *)
DoneInv == pc = "done" => WorkBounded /\ FactorsOfTheSolution

IInv == TypeOK /\ IterateInv /\ ChordInv /\ WorkInv /\ StepsFromHere
-----------------------------------------------------------------------------
LEMMA NoneIsNoIterate == None \notin Iterates /\ None \in Nat
BY BoundsAssumption DEF None, Iterates

LEMMA ResidualType ==
  ASSUME NEW x \in Iterates, NEW r \in Evaluations(x)
  PROVE  r \in Residuals /\ r.at = x /\ r.norm \in 0 .. MaxNorm
<1>1. PICK norm \in 0 .. MaxNorm, nan \in NaNs : r = Residual(x, "interpreter", norm, nan)
  BY DEF Evaluations
<1>2. nan \in BOOLEAN
  BY <1>1, BoundsAssumption
<1>3. r = [at |-> x, by |-> "interpreter", norm |-> norm, nan |-> nan]
  BY <1>1 DEF Residual
<1>. QED BY <1>1, <1>2, <1>3 DEF Residuals

LEMMA MarkedType ==
  ASSUME NEW r \in Residuals, NEW x \in Iterates
  PROVE  /\ [r EXCEPT !.at = x, !.by = "adjoint"] \in Residuals
         /\ [r EXCEPT !.at = x, !.by = "adjoint"].at = x
         /\ [r EXCEPT !.at = x, !.by = "adjoint"].norm = r.norm
BY DEF Residuals

LEMMA InitTyped == Init => IInv
<1>. SUFFICES ASSUME Init PROVE IInv
  OBVIOUS
<1>1. 0 \in Iterates /\ 0 \in 0 .. MaxNorm /\ 0 \in 0 .. MaxTries /\ None \in Iterates \cup {None}
  BY BoundsAssumption DEF Iterates
<1>2. Unset \in Residuals
  BY <1>1 DEF Unset, Residual, Residuals
<1>3. Invalid \in [of : {"nothing", "record", "own"}, at : Iterates \cup {None}]
  BY <1>1 DEF Invalid
<1>4. TypeOK
  BY <1>1, <1>2, <1>3 DEF Init, TypeOK
<1>5. IterateInv /\ WorkInv /\ StepsFromHere
  BY DEF Init, IterateInv, WorkInv, StepsFromHere
<1>6. ChordInv
  BY DEF Init, ChordInv
<1>. QED BY <1>4, <1>5, <1>6 DEF IInv

-----------------------------------------------------------------------------
(* The step from IInv, action by action.                                   *)

LEMMA StartKeeps == IInv /\ Start => IInv'
<1>. SUFFICES ASSUME IInv, Start PROVE IInv'
  OBVIOUS
<1>. USE DEF IInv
<1>1. PICK r \in Evaluations(z) : F' = r /\ rInf' = r.norm
  BY DEF Start
<1>2. z \in Iterates /\ r \in Residuals /\ r.at = z /\ r.norm \in 0 .. MaxNorm
  BY ResidualType DEF TypeOK
<1>3. options.chord \in BOOLEAN
  BY OptionsAssumption DEF TypeOK, Solves
<1>4. TypeOK'
  BY <1>1, <1>2, <1>3 DEF Start, TypeOK
<1>5. IterateInv'
  BY DEF Start, IterateInv
<1>6. StepsFromHere'
  BY <1>1, <1>2 DEF Start, StepsFromHere
<1>7. WorkInv'
  BY DEF Start, WorkInv, IterateInv
<1>8. ChordInv'
  BY <1>3 DEF Start, ChordInv, WorkInv
<1>. QED BY <1>4, <1>5, <1>6, <1>7, <1>8

LEMMA StopKeeps == IInv /\ Stop => IInv'
<1>. SUFFICES ASSUME IInv, Stop PROVE IInv'
  OBVIOUS
<1>. USE DEF IInv
<1>1. TypeOK'
  BY DEF Stop, TypeOK
<1>2. IterateInv' /\ StepsFromHere'
  BY DEF Stop, IterateInv, StepsFromHere
<1>3. WorkInv'
  BY DEF Stop, WorkInv, TypeOK, Iterates
<1>4. ChordInv'
  BY DEF Stop, ChordInv
<1>. QED BY <1>1, <1>2, <1>3, <1>4

LEMMA JacobianTyped ==
  ASSUME IInv, TakeJacobian
  PROVE  /\ F' \in Residuals /\ F'.at = z /\ F'.norm = F.norm
         /\ own' = z /\ own' \in Iterates
         /\ jacobians' = jacobians + 1 /\ jacobians' \in Nat
<1>1. F \in Residuals /\ z \in Iterates /\ jacobians \in Nat
  BY DEF IInv, TypeOK
<1>2. /\ F' = [F EXCEPT !.at = z, !.by = "adjoint"]
      /\ own' = z
      /\ jacobians' = jacobians + 1
  BY DEF TakeJacobian
<1>3. F' \in Residuals /\ F'.at = z /\ F'.norm = F.norm
  BY <1>1, <1>2, MarkedType
<1>. QED BY <1>1, <1>2, <1>3

LEMMA LinearisesKeeps == IInv /\ Linearise => IInv'
<1>. SUFFICES ASSUME IInv, Linearise PROVE IInv'
  OBVIOUS
<1>. USE DEF IInv
<1>1. /\ F' \in Residuals /\ F'.at = F'.at /\ F'.norm = F.norm
      /\ F'.at = z
      /\ own' \in Iterates \cup {None} /\ jacobians' \in Nat
  <2>1. CASE useShared
    BY <2>1 DEF Linearise, TypeOK, StepsFromHere
  <2>2. CASE ~useShared
    BY <2>2, JacobianTyped DEF Linearise
  <2>. QED BY <2>1, <2>2
<1>2. TypeOK'
  BY <1>1, BoundsAssumption DEF Linearise, TypeOK
<1>3. IterateInv'
  BY DEF Linearise, IterateInv, Stopping
<1>4. StepsFromHere'
  <2>1. ~useShared => own' = z
    BY JacobianTyped DEF Linearise
  <2>. QED BY <1>1, <2>1 DEF Linearise, StepsFromHere
<1>5. WorkInv'
  <2>1. jacobians' <= it + 1
    BY JacobianTyped DEF Linearise, WorkInv, TypeOK, Iterates
  <2>. QED BY <2>1 DEF Linearise, WorkInv
<1>6. ChordInv'
  BY DEF Linearise, ChordInv
<1>. QED BY <1>2, <1>3, <1>4, <1>5, <1>6

LEMMA RefreshKeepsChord ==
  ASSUME Refresh
  PROVE  ChordInv'
<1>1. ~useShared' /\ refreshed'
  BY DEF Refresh
<1>2. /\ (useShared /\ pc # "done" => own = None /\ jacobians = 0)'
      /\ (useShared /\ pc = "try" => t = 0)'
      /\ (~options.chord => ~useShared)'
  BY <1>1, Zenon
<1>3. (pc # "start" /\ options.chord /\ ~refreshed => useShared)'
  BY <1>1, Zenon
<1>. QED BY <1>2, <1>3, Zenon DEF ChordInv

LEMMA AcceptKeeps == ASSUME NEW r \in Evaluations(z + 1), IInv, Accept(r) PROVE IInv'
<1>. USE DEF IInv
<1>1. z + 1 \in Iterates /\ it + 1 \in Iterates /\ z + 1 = it + 1
  BY BoundsAssumption DEF Accept, Trial, IterateInv, Stopping, TypeOK, Iterates
<1>2. r \in Residuals /\ r.at = z + 1 /\ r.norm \in 0 .. MaxNorm
  BY <1>1, ResidualType
<1>3. stalls' \in Nat /\ useShared' \in BOOLEAN /\ refreshed' \in BOOLEAN
  <2>1. stalls \in Nat /\ useShared \in BOOLEAN /\ refreshed \in BOOLEAN
    BY DEF TypeOK
  <2>2. CASE useShared /\ Stalling(r) /\ stalls + 1 >= MaxStalls
    <3>1. Refresh
      BY <2>2 DEF Accept
    <3>2. useShared' = FALSE /\ refreshed' = TRUE /\ stalls' = 0
      BY <3>1 DEF Refresh
    <3>. QED BY ONLY <3>2
  <2>3. CASE ~(useShared /\ Stalling(r) /\ stalls + 1 >= MaxStalls)
    <3>1. useShared' = useShared /\ refreshed' = refreshed
      BY <2>3 DEF Accept
    <3>2. stalls' = (IF useShared /\ Stalling(r) THEN stalls + 1
                     ELSE IF useShared THEN 0 ELSE stalls)
      BY <2>3 DEF Accept
    <3>3. stalls' \in {0, stalls, stalls + 1}
      BY <3>2
    <3>. QED BY <2>1, <3>1, <3>3
  <2>. QED BY <2>2, <2>3
<1>4. TypeOK'
  BY <1>1, <1>2, <1>3 DEF Accept, TypeOK
<1>5. IterateInv' /\ StepsFromHere'
  BY <1>1, <1>2 DEF Accept, IterateInv, StepsFromHere
<1>6. WorkInv'
  BY DEF Accept, Trial, WorkInv, TypeOK, Iterates
<1>7. ChordInv'
  <2>1. CASE useShared /\ Stalling(r) /\ stalls + 1 >= MaxStalls
    BY <2>1, RefreshKeepsChord DEF Accept
  <2>2. CASE ~(useShared /\ Stalling(r) /\ stalls + 1 >= MaxStalls)
    BY <2>2 DEF Accept, Trial, ChordInv
  <2>. QED BY <2>1, <2>2
<1>. QED BY <1>4, <1>5, <1>6, <1>7

LEMMA RejectSharedKeeps == ASSUME NEW r \in Evaluations(z + 1), IInv, RejectShared(r) PROVE IInv'
<1>. USE DEF IInv
<1>1. z + 1 \in Iterates
  BY BoundsAssumption DEF RejectShared, Trial, IterateInv, Stopping, TypeOK, Iterates
<1>2. r \in Residuals
  BY <1>1, ResidualType
<1>3. TypeOK'
  BY <1>2 DEF RejectShared, Refresh, TypeOK
<1>4. IterateInv' /\ StepsFromHere'
  BY DEF RejectShared, Trial, IterateInv, StepsFromHere
<1>5. WorkInv'
  <2>1. jacobians = 0 /\ it \in Nat
    BY DEF RejectShared, Trial, ChordInv, TypeOK, Iterates
  <2>. QED BY <2>1 DEF RejectShared, WorkInv
<1>6. ChordInv'
  BY RefreshKeepsChord DEF RejectShared
<1>. QED BY <1>3, <1>4, <1>5, <1>6

LEMMA RejectOwnKeeps == ASSUME NEW r \in Evaluations(z + 1), IInv, RejectOwn(r) PROVE IInv'
<1>. USE DEF IInv
<1>1. z + 1 \in Iterates
  BY BoundsAssumption DEF RejectOwn, Trial, IterateInv, Stopping, TypeOK, Iterates
<1>2. r \in Residuals
  BY <1>1, ResidualType
<1>3. t + 1 \in 0 .. MaxTries
  BY BoundsAssumption DEF RejectOwn, Trial, TypeOK
<1>4. TypeOK'
  BY <1>2, <1>3 DEF RejectOwn, TypeOK
<1>5. IterateInv' /\ StepsFromHere' /\ WorkInv'
  BY DEF RejectOwn, Trial, IterateInv, StepsFromHere, WorkInv, Stopping
<1>6. ChordInv'
  BY DEF RejectOwn, ChordInv
<1>. QED BY <1>4, <1>5, <1>6

LEMMA ExhaustedKeeps == IInv /\ Exhausted => IInv'
<1>. SUFFICES ASSUME IInv, Exhausted PROVE IInv'
  OBVIOUS
<1>. USE DEF IInv
<1>1. TypeOK'
  BY DEF Exhausted, TypeOK
<1>2. IterateInv' /\ StepsFromHere' /\ WorkInv'
  BY DEF Exhausted, IterateInv, StepsFromHere, WorkInv
<1>3. ChordInv'
  BY DEF Exhausted, ChordInv
<1>. QED BY <1>1, <1>2, <1>3

LEMMA DiagnoseKeeps == IInv /\ Diagnose => IInv'
<1>. SUFFICES ASSUME IInv, Diagnose PROVE IInv'
  OBVIOUS
<1>. USE DEF IInv
<1>1. FTry' \in Residuals
  BY MarkedType DEF Diagnose, TypeOK
<1>2. TypeOK'
  BY <1>1 DEF Diagnose, TypeOK
<1>3. IterateInv' /\ StepsFromHere' /\ WorkInv'
  BY DEF Diagnose, IterateInv, StepsFromHere, WorkInv
<1>4. ChordInv'
  BY DEF Diagnose, ChordInv
<1>. QED BY <1>2, <1>3, <1>4

LEMMA BuildKeeps == IInv /\ Build => IInv'
<1>. SUFFICES ASSUME IInv, Build PROVE IInv'
  OBVIOUS
<1>. USE DEF IInv
<1>1. /\ F' \in Residuals /\ F'.at = z /\ F'.norm = F.norm
      /\ own' \in Iterates \cup {None} /\ jacobians' \in Nat
  <2>1. CASE AtExit
    BY <2>1, JacobianTyped DEF Build
  <2>2. CASE ~AtExit
    BY <2>2 DEF Build, TypeOK, StepsFromHere
  <2>. QED BY <2>1, <2>2
<1>2. factors' \in [of : {"nothing", "record", "own"}, at : Iterates \cup {None}]
  BY <1>1 DEF Build, Invalid, OwnAt, Shared
<1>3. TypeOK'
  BY <1>1, <1>2 DEF Build, TypeOK
<1>4. IterateInv' /\ StepsFromHere' /\ WorkInv'
  BY <1>1 DEF Build, IterateInv, StepsFromHere, WorkInv
<1>5. ChordInv'
  BY DEF Build, ChordInv
<1>. QED BY <1>3, <1>4, <1>5

LEMMA NextKeeps == IInv /\ [Next]_vars => IInv'
<1>. SUFFICES ASSUME IInv, [Next]_vars PROVE IInv'
  OBVIOUS
<1>1. CASE Start
  BY <1>1, StartKeeps
<1>2. CASE Stop
  BY <1>2, StopKeeps
<1>3. CASE Linearise
  BY <1>3, LinearisesKeeps
<1>4. CASE \E r \in Evaluations(z + 1) : Accept(r) \/ RejectShared(r) \/ RejectOwn(r)
  BY <1>4, AcceptKeeps, RejectSharedKeeps, RejectOwnKeeps
<1>5. CASE Exhausted
  BY <1>5, ExhaustedKeeps
<1>6. CASE Diagnose
  BY <1>6, DiagnoseKeeps
<1>7. CASE Build
  BY <1>7, BuildKeeps
<1>8. CASE UNCHANGED vars
  BY <1>8 DEF vars, IInv, TypeOK, IterateInv, Stopping, ChordInv, WorkInv, StepsFromHere
<1>. QED BY <1>1, <1>2, <1>3, <1>4, <1>5, <1>6, <1>7, <1>8 DEF Next, Step, Done

LEMMA IInvHolds == Spec => []IInv
BY InitTyped, NextKeeps, PTL DEF Spec

(* Every reachable state is well typed: no residual norm, iterate or trial *)
(* count of solve (residual.cpp:362-466) leaves its range.                 *)
THEOREM TypeCorrect == Spec => []TypeOK
<1>1. IInv => TypeOK
  BY DEF IInv
<1>. QED BY <1>1, IInvHolds, PTL

(* Every Newton step is taken from the accepted iterate, with its residual *)
(* and, off the chord, with its Jacobian: the swap of F_ and F_try_        *)
(* (residual.cpp:377) and the refresh never mix two iterates.              *)
THEOREM StepsFromHereCorrect == Spec => []StepsFromHere
<1>1. IInv => StepsFromHere
  BY DEF IInv
<1>. QED BY <1>1, IInvHolds, PTL

-----------------------------------------------------------------------------
(* What the solve leaves behind: only Build returns.                       *)

LEMMA OptionsTyped ==
  ASSUME TypeOK
  PROVE  /\ options.chord \in BOOLEAN /\ options.finalJacobian \in BOOLEAN
         /\ options.wanted \in BOOLEAN
BY OptionsAssumption DEF TypeOK, Solves

LEMMA BuildFactors == IInv /\ Build => FactorsOfTheSolution'
<1>. SUFFICES ASSUME IInv, Build PROVE FactorsOfTheSolution'
  OBVIOUS
<1>. DEFINE wanted == options.wanted
            exact == options.finalJacobian
            chord == options.chord
<1>1. TypeOK /\ options' = options
  BY DEF IInv, Build
<1>2. z' = z /\ z \in Iterates /\ own \in Iterates \cup {None}
  BY <1>1 DEF Build, TypeOK
<1>3. AtExit => own' = z
  BY DEF Build, TakeJacobian
<1>4. ~AtExit => own' = own
  BY DEF Build
<1>5. wanted /\ exact => own' = z
  BY <1>3 DEF AtExit
<1>6. wanted /\ ~chord => own' # None
  BY <1>2, <1>3, <1>4, NoneIsNoIterate DEF AtExit
<1>7. factors' = IF ~wanted THEN Invalid ELSE IF own' # None THEN OwnAt(own') ELSE Shared
  BY DEF Build
<1>8. wanted /\ exact => factors' = OwnAt(z')
  BY <1>2, <1>5, <1>7, NoneIsNoIterate
<1>9. wanted => factors' # Invalid
  BY <1>7 DEF Invalid, OwnAt, Shared
<1>10. wanted /\ ~chord => factors'.of = "own"
  BY <1>6, <1>7 DEF OwnAt
<1>11. ~wanted => factors' = Invalid
  BY <1>7
<1>. QED BY <1>1, <1>8, <1>9, <1>10, <1>11 DEF FactorsOfTheSolution

LEMMA BuildWork == IInv /\ Build => WorkBounded'
<1>. SUFFICES ASSUME IInv, Build PROVE WorkBounded'
  OBVIOUS
<1>1. TypeOK /\ pc = "build" /\ jacobians \in Nat /\ it \in Nat
  BY DEF IInv, Build, TypeOK, Iterates
<1>2. jacobians' = jacobians + 1 \/ jacobians' = jacobians
  BY DEF Build, TakeJacobian
<1>3. it' = it /\ options' = options /\ refreshed' = refreshed
  BY DEF Build
<1>4. jacobians <= it + 1
  BY <1>1 DEF IInv, WorkInv
<1>5. jacobians' <= it' + 2
  BY <1>1, <1>2, <1>3, <1>4
<1>6. options.chord /\ ~refreshed => jacobians = 0
  BY <1>1 DEF IInv, ChordInv
<1>7. options'.chord /\ ~refreshed' => jacobians' <= 1
  BY <1>2, <1>3, <1>6
<1>. QED BY <1>5, <1>7 DEF WorkBounded

LEMMA DoneKeeps == IInv /\ DoneInv /\ [Next]_vars => DoneInv'
<1>. SUFFICES ASSUME IInv, DoneInv, [Next]_vars, pc' = "done"
              PROVE  WorkBounded' /\ FactorsOfTheSolution'
  BY DEF DoneInv
<1>1. CASE Build
  BY <1>1, BuildFactors, BuildWork
<1>2. CASE UNCHANGED vars
  BY <1>2 DEF vars, DoneInv, WorkBounded, FactorsOfTheSolution
<1>3. CASE Step /\ ~Build
  BY <1>3 DEF Step, Start, Stop, Linearise, Accept, RejectShared, RejectOwn, Trial, Exhausted,
              Diagnose, IInv, TypeOK
<1>. QED BY <1>1, <1>2, <1>3 DEF Next, Done

LEMMA DoneHolds == Spec => []DoneInv
<1>1. Init => DoneInv
  BY DEF Init, DoneInv
<1>. QED BY <1>1, IInvHolds, DoneKeeps, PTL DEF Spec

(* A lane linearises once per accepted step, once more when it is refused  *)
(* and once at the exit; at most once in all while the chord holds         *)
(* (residual.cpp:383-399, 441-450), whatever the number of damped trials.  *)
THEOREM WorkBoundedCorrect == Spec => []WorkBounded
<1>1. IInv /\ DoneInv => WorkBounded
  <2>. SUFFICES ASSUME IInv, pc # "done" PROVE WorkBounded
    BY DEF DoneInv
  <2>1. jacobians \in Nat /\ it \in Nat /\ pc \in {"start", "loop", "try", "diagnose", "build"}
    BY DEF IInv, TypeOK, Iterates
  <2>2. jacobians <= it + 1
    BY <2>1 DEF IInv, WorkInv
  <2>3. options.chord /\ ~refreshed => jacobians = 0
    BY <2>1 DEF IInv, ChordInv, WorkInv
  <2>. QED BY <2>1, <2>2, <2>3 DEF WorkBounded
<1>. QED BY <1>1, IInvHolds, DoneHolds, PTL

(* The factors handed back are those of the solution when the exact ones   *)
(* were asked for, some valid ones whenever any were, and none otherwise   *)
(* (residual.cpp:441-465): the sensitivities never see stale factors.      *)
THEOREM FactorsCorrect == Spec => []FactorsOfTheSolution
<1>1. DoneInv => FactorsOfTheSolution
  BY DEF DoneInv, FactorsOfTheSolution
<1>. QED BY <1>1, DoneHolds, PTL
-----------------------------------------------------------------------------
(* Why the loop is left: with at least one damped trial allowed, a chord   *)
(* step is tried before the solve can give up, and its rejection refreshes.*)

LEMMA ExitKeeps == ASSUME MaxTries # 0 PROVE IInv /\ ExitInv /\ [Next]_vars => ExitInv'
<1>. SUFFICES ASSUME IInv, ExitInv, [Next]_vars PROVE ExitInv'
  OBVIOUS
<1>1. TypeOK /\ it \in 0 .. MaxIterations /\ MaxIterations \in Nat /\ MaxTries \in Nat
  BY BoundsAssumption DEF IInv, TypeOK, Iterates
<1>2. CASE Stop
  BY <1>1, <1>2 DEF Stop, Stopping, ExitInv, Converged
<1>3. CASE Exhausted
  <2>1. t = MaxTries
    BY <1>1, <1>3 DEF Exhausted, TypeOK
  <2>2. ~useShared
    BY <1>3, <2>1 DEF Exhausted, IInv, ChordInv
  <2>3. own = z
    BY <1>3, <2>2 DEF Exhausted, IInv, StepsFromHere
  <2>. QED BY <1>3, <2>1, <2>2, <2>3 DEF Exhausted, ExitInv
<1>4. CASE Diagnose
  BY <1>4 DEF Diagnose, ExitInv, Converged
<1>5. CASE Build
  BY <1>5 DEF Build, TakeJacobian, ExitInv, Converged
<1>6. CASE UNCHANGED vars
  BY <1>6 DEF vars, ExitInv, Converged
<1>7. CASE Start \/ Linearise
  BY <1>7 DEF Start, Linearise, ExitInv
<1>8. CASE \E r \in Evaluations(z + 1) : Accept(r) \/ RejectShared(r) \/ RejectOwn(r)
  BY <1>8 DEF Accept, RejectShared, RejectOwn, Trial, ExitInv
<1>. QED BY <1>2, <1>3, <1>4, <1>5, <1>6, <1>7, <1>8 DEF Next, Step, Done

(* With a trial allowed (options.max_damping_tries > 0), a solve fails only*)
(* when its iterations are spent or when every damped trial along the      *)
(* lane's own Jacobian was refused: never on a chord step                  *)
(* (residual.cpp:402-423).                                                 *)
THEOREM GivesUpCorrect == ASSUME MaxTries # 0 PROVE Spec => []GivesUpOnlyWhenStuck
<1>1. Init => ExitInv
  BY DEF Init, ExitInv
<1>2. IInv /\ ExitInv /\ [Next]_vars => ExitInv'
  BY ExitKeeps
<1>3. ExitInv => GivesUpOnlyWhenStuck
  BY DEF ExitInv, GivesUpOnlyWhenStuck
<1>. QED BY <1>1, <1>2, <1>3, IInvHolds, PTL DEF Spec
=============================================================================
