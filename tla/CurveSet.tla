------------------------------ MODULE CurveSet ------------------------------
(***************************************************************************)
(* Calibrating a set of curves that read one another (src/solver/          *)
(* curve_set.cpp): which curves an instrument reads is discovered, Tarjan's*)
(* algorithm turns the graph into blocks in solve order, and calibrate     *)
(* records one implicit block after the other on the tape.                 *)
(*                                                                         *)
(* One action is one iteration or one return of the recursive visit; the   *)
(* calls in progress are an explicit stack.  An instrument is the curve it *)
(* belongs to and the knots its value depends on; its residual depends on  *)
(* its quote besides.  A curve is a number of knots.                       *)
(***************************************************************************)
EXTENDS Integers, Sequences, FiniteSets, FiniteSetsExt, SequencesExt, Functions

CONSTANTS N,       \* n_curves()
          Knots,   \* the knots of a curve
          Owner,   \* Owner[i]: the curve instrument i belongs to
          Markets, \* what the instruments may read: [instrument -> set of knots]
          RequireCoupling  \* options.require_structural_coupling

Curves == 0 .. (N - 1)
Instruments == DOMAIN Owner

(* Knots are pairs of a curve and a number.                                *)
KnotsOf(cs) == UNION {{c} \X (1 .. Knots[c]) : c \in cs}
CurvesOf(knots) == {k[1] : k \in knots}

\* Assumed by Market, which composes this module.
CurveSetAssumption == /\ N \in Nat /\ IsFiniteSet(Instruments)
                      /\ Knots \in [Curves -> Nat \ {0}]
                      /\ \A i \in Instruments : Owner[i] \in Curves
                      /\ Markets \subseteq [Instruments -> SUBSET KnotsOf(Curves)]
                      /\ RequireCoupling \in BOOLEAN

VARIABLES reads,       \* the knots each instrument is recorded to read
          sequential,  \* mode
          pc,          \* "start", "visit", "calibrate", "done", "thrown" or "unsolved"
          deps,        \* dependencies()
          index, low, on_stack, stack, counter,   \* Tarjan's
          visits,      \* the calls of visit in progress: curve and deps to go
          out,         \* the blocks found
          calibrated,  \* the curves of cal.states with values
          results      \* cal.block_curves

vars == <<reads, sequential, pc, deps, index, low, on_stack, stack, counter, visits, out,
          calibrated, results>>

search == <<index, low, on_stack, stack, counter, visits, out>>

(* The other curves that the instruments of a curve read.                  *)
Needs == [c \in Curves |-> (UNION {CurvesOf(reads[i]) : i \in {j \in Instruments : Owner[j] = c}}) \ {c}]

Init == /\ reads \in Markets
        /\ sequential \in BOOLEAN
        /\ pc = "start"
        /\ deps = [c \in Curves |-> {}]
        /\ index = [c \in Curves |-> -1] /\ low = [c \in Curves |-> 0]
        /\ on_stack = [c \in Curves |-> FALSE]
        /\ stack = <<>> /\ counter = 0 /\ visits = <<>> /\ out = <<>>
        /\ calibrated = {} /\ results = <<>>

(* Every instrument is recorded on a tape of its own and sliced back.      *)
Discover ==
    /\ pc = "start"
    /\ IF ~sequential THEN /\ out' = <<Curves>>
                           /\ pc' = "calibrate"
                           /\ UNCHANGED deps
       ELSE IF \E i \in Instruments : reads[i] = {} THEN pc' = "thrown" /\ UNCHANGED <<out, deps>>
       ELSE /\ deps' = Needs
            /\ pc' = "visit"
            /\ UNCHANGED out
    /\ UNCHANGED <<reads, sequential, index, low, on_stack, stack, counter, visits, calibrated, results>>

Call(v) == [curve |-> v, todo |-> deps[v]]

(* The entry of visit(v), called from the calls `callers`.                 *)
Enter(v, callers) ==
    /\ index' = [index EXCEPT ![v] = counter]
    /\ low' = [low EXCEPT ![v] = counter]
    /\ counter' = counter + 1
    /\ stack' = Append(stack, v)
    /\ on_stack' = [on_stack EXCEPT ![v] = TRUE]
    /\ visits' = Append(callers, Call(v))
    /\ UNCHANGED out

Unseen == {c \in Curves : index[c] < 0}

(* The loop over the curves that no visit has reached.                     *)
NewRoot == /\ pc = "visit" /\ visits = <<>> /\ Unseen # {}
           /\ Enter(Min(Unseen), <<>>)
           /\ UNCHANGED <<reads, sequential, pc, deps, calibrated, results>>

Working == pc = "visit" /\ visits # <<>>
V == Last(visits).curve      \* the curve being visited
Todo == Last(visits).todo    \* the dependencies it has still to look at
W == Min(Todo)               \* the one it looks at now

Looked_Again == visits
Looked == [visits EXCEPT ![Len(visits)].todo = @ \ {W}]

(* An unseen dependency is visited; the visit folds its low in on return.  *)
Descend == /\ Working /\ Todo # {} /\ index[W] < 0
           /\ Enter(W, Looked)
           /\ UNCHANGED <<reads, sequential, pc, deps, calibrated, results>>

OnStack_Seen(w) == index[w] >= 0
OnStack(w) == on_stack[w]

Look == /\ Working /\ Todo # {} /\ index[W] >= 0
        /\ low' = IF OnStack(W) THEN [low EXCEPT ![V] = Min({@, index[W]})] ELSE low
        /\ visits' = Looked
        /\ UNCHANGED <<reads, sequential, pc, deps, index, on_stack, stack, counter, out, calibrated,
                       results>>

(* The curves above v on the stack, and v: a component when v is its root. *)
Popped == LET at == CHOOSE n \in DOMAIN stack : stack[n] = V
          IN  {stack[n] : n \in at .. Len(stack)}

FoldIn_Never(v, u) == low
FoldIn(v, u) == [low EXCEPT ![u] = Min({@, low[v]})]   \* the caller's line after visit(w)

Return == /\ Working /\ Todo = {}
          /\ IF low[V] = index[V]
             THEN /\ out' = Append(out, Popped)
                  /\ stack' = SubSeq(stack, 1, Len(stack) - Cardinality(Popped))
                  /\ on_stack' = [c \in Curves |-> on_stack[c] /\ c \notin Popped]
             ELSE UNCHANGED <<out, stack, on_stack>>
          /\ visits' = Front(visits)
          /\ low' = IF Len(visits) > 1 THEN FoldIn(V, visits[Len(visits) - 1].curve) ELSE low
          /\ UNCHANGED <<reads, sequential, pc, deps, index, counter, calibrated, results>>

Searched == /\ pc = "visit" /\ visits = <<>> /\ Unseen = {}
            /\ pc' = "calibrate"
            /\ UNCHANGED <<reads, sequential, deps, search, calibrated, results>>

Block == out[Len(results) + 1]
Calibrating == pc = "calibrate" /\ Len(results) < Len(out)
Insts == {i \in Instruments : Owner[i] \in Block}

Unknowns == KnotsOf(Block)

Enough_ToSpare == Cardinality(Insts) > Cardinality(Unknowns)

(* There is something to solve for, with enough instruments; each of them  *)
(* reads only curves that have values; and the structural gate: no unknown *)
(* that no residual reads, which the residual program could not bind       *)
(* either, and, if required, no residual that reads no unknown.            *)
Enough == Unknowns # {} /\ ~(Cardinality(Insts) < Cardinality(Unknowns))
Valued == \A i \in Insts : CurvesOf(reads[i]) \subseteq Block \cup calibrated
Coupled == /\ \A k \in Unknowns : \E i \in Insts : k \in reads[i]
           /\ RequireCoupling => \A i \in Insts : reads[i] \cap Unknowns # {}

Recorded == Calibrating /\ Enough /\ Valued /\ Coupled

CalibrateBlock == /\ Recorded
                  /\ results' = Append(results, Block)
                  /\ calibrated' = calibrated \cup Block
                  /\ UNCHANGED <<reads, sequential, pc, deps, search>>

(* The solve of a block at its quotes does not converge: it throws.        *)
Diverge == /\ Recorded
           /\ pc' = "unsolved"
           /\ UNCHANGED <<reads, sequential, deps, search, calibrated, results>>

Throw == /\ Calibrating /\ ~(Enough /\ Valued /\ Coupled)
         /\ pc' = "thrown"
         /\ UNCHANGED <<reads, sequential, deps, search, calibrated, results>>

Finish == /\ pc = "calibrate" /\ Len(results) = Len(out)
          /\ pc' = "done"
          /\ UNCHANGED <<reads, sequential, deps, search, calibrated, results>>

Step == Discover \/ NewRoot \/ Descend \/ Look \/ Return \/ Searched \/ CalibrateBlock \/ Diverge
            \/ Throw \/ Finish

Stopped == pc \in {"done", "thrown", "unsolved"} /\ UNCHANGED vars

Next == Step \/ Stopped

(* One thread searches and records to the end.                             *)
Spec == Init /\ [][Next]_vars /\ WF_vars(Step)
-----------------------------------------------------------------------------
(* The type invariant. *)
TypeOK == /\ reads \in Markets /\ sequential \in BOOLEAN
          /\ pc \in {"start", "visit", "calibrate", "done", "thrown", "unsolved"}
          /\ deps \in [Curves -> SUBSET Curves]
          /\ index \in [Curves -> -1 .. (N - 1)] /\ low \in [Curves -> 0 .. N]
          /\ counter \in 0 .. N
          /\ IsInjective(stack) /\ Range(stack) = {c \in Curves : on_stack[c]}
          /\ \A n \in DOMAIN visits : visits[n].curve \in Curves /\ visits[n].todo \subseteq Curves
          /\ calibrated \subseteq Curves /\ Len(results) <= N

(* No instrument ever reads a curve that has no values yet: the exception  *)
(* "it is calibrated in a later block" is not reachable.                   *)
DependenciesFirst == Calibrating => Valued

(* Which curves are solved for together is a matter of the graph alone:    *)
(* those that need one another, through any others, or all of them.        *)
Reaches(c, d) == \A S \in SUBSET Curves : c \in S /\ (\A e \in S : deps[e] \subseteq S) => d \in S
Together(c) == IF sequential THEN {d \in Curves : Reaches(c, d) /\ Reaches(d, c)} ELSE Curves

(* Too few instruments, a knot none of them reads, or one that reads none. *)
IllPosed(block) ==
  LET insts == {i \in Instruments : Owner[i] \in block}
  IN \/ Cardinality(insts) < Cardinality(KnotsOf(block))
     \/ \E k \in KnotsOf(block) : \A i \in insts : k \notin reads[i]
     \/ RequireCoupling /\ \E i \in insts : reads[i] \cap KnotsOf(block) = {}

(* Unless a solve does not converge, nothing is refused but an empty set,  *)
(* an instrument that reads no curve, and curves that need one another and *)
(* are ill posed: whatever was calibrated before them, in whatever order   *)
(* the search found them.                                                  *)
Accepts ==
  pc = "thrown" => \/ Curves = {}
                   \/ sequential /\ \E i \in Instruments : reads[i] = {}
                   \/ \E c \in Curves : IllPosed(Together(c))

(* The search and the recording come to an end.                            *)
Ends == <>(pc \in {"done", "thrown", "unsolved"})
=============================================================================
