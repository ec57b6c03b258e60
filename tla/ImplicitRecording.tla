-------------------------- MODULE ImplicitRecording --------------------------
(***************************************************************************)
(* Recording implicit blocks on one tape: implicit() with implicit_begin   *)
(* and implicit_end (solver/implicit.hpp, src/solver/implicit.cpp), and    *)
(* what the constructor of ImplicitProgram then accepts.                   *)
(*                                                                         *)
(* implicit(z0, F) makes its unknowns, calls F, which is the caller's code *)
(* and may record anything, another implicit() too, and then registers the *)
(* residuals F left, checks their structure and solves.  Any of it may     *)
(* throw, and the caller may catch it in any of the frames it is in.       *)
(*                                                                         *)
(* A residual is the set of tape inputs it reads.  The value of an input   *)
(* at the record point is a name: who set it, from what values.            *)
(***************************************************************************)
EXTENDS Naturals, Sequences, FiniteSets, SequencesExt

CONSTANTS Quotes,     \* how many quotes are recorded first
          Sizes,      \* the <<unknowns, residuals, require_structural_coupling>> asked for
          MaxDepth,   \* bound: implicit() calls inside one another
          MaxBlocks   \* bound: blocks recorded

\* Assumed by TapeReaders, which composes this module.
ImplicitRecordingAssumption == /\ Quotes \in Nat /\ MaxDepth \in Nat /\ MaxBlocks \in Nat
                               /\ Sizes \subseteq Nat \X Nat \X BOOLEAN

VARIABLES inputs,    \* number of inputs of the tape
          value,     \* value[input] at the record point
          registry,  \* the blocks, in the order implicit_begin made them
          open,      \* the blocks whose implicit() is running, outermost first
          outcome    \* "recording", "failed", "refused" or "built"

vars == <<inputs, value, registry, open, outcome>>

Name(by, from) == [by |-> by, from |-> from]
Given    == Name("quote", <<>>)
StartAt  == Name("start", <<>>)
Reported == Name("diagnostic", <<>>)

Init == /\ inputs = Quotes
        /\ value = [i \in 1 .. Quotes |-> Given]
        /\ registry = <<>> /\ open = <<>> /\ outcome = "recording"

(* An exception leaves all the frames above the one that catches it, or    *)
(* ends the recording when none does.                                      *)
Unwind(frames) ==
    \/ \E depth \in 0 .. Len(frames) : open' = SubSeq(frames, 1, depth) /\ UNCHANGED outcome
    \/ open' = <<>> /\ outcome' = "failed"

Recording == outcome = "recording" /\ Len(registry) < MaxBlocks /\ Len(open) < MaxDepth

(* implicit_begin: refused sizes, or a new block at the end of the registry *)
(* with its unknowns and two diagnostics as new inputs.                    *)
BeginThrows(unknowns, residuals) ==
    /\ Recording
    /\ unknowns = 0 \/ residuals < unknowns
    /\ Unwind(open)
    /\ UNCHANGED <<inputs, value, registry>>

InputsAfter(unknowns) == inputs + unknowns + 2

Begin(unknowns, residuals, coupled) ==
    /\ Recording
    /\ unknowns # 0 /\ residuals >= unknowns
    /\ inputs' = InputsAfter(unknowns)
    /\ value' = value \o [i \in 1 .. unknowns |-> StartAt] \o <<Reported, Reported>>
    /\ registry' = Append(registry, [unknowns |-> (inputs + 1) .. (inputs + unknowns),
                                     wants |-> residuals, residuals |-> <<>>, coupled |-> coupled, status |-> "open"])
    /\ open' = Append(open, Len(registry) + 1)
    /\ UNCHANGED outcome

(* What the maths can read: quotes, and the unknowns it was handed.        *)
Readable == (1 .. Quotes) \cup UNION {registry[k].unknowns : k \in {k \in DOMAIN registry :
                                         registry[k].status = "solved" \/ Contains(open, k)}}

Unread(block) == {u \in block.unknowns : \A i \in DOMAIN block.residuals : u \notin block.residuals[i]}

(* check_structure: every unknown is read, every residual reads one.  The  *)
(* option that turns it off admits the residuals that read none: unknowns  *)
(* no residual reads are refused by ResidualProgram then.                  *)
Gate_ColumnsOnly(block) == Unread(block) = {}
Gate(block) == /\ Unread(block) = {}
               /\ block.coupled => \A i \in DOMAIN block.residuals : block.residuals[i] \cap block.unknowns # {}

Params(block) == (UNION ToSet(block.residuals)) \ block.unknowns

(* The record-time solve, as a name: this block, from these parameters.    *)
Solved(block) == Name("solved", [of |-> block.residuals, at |-> [p \in Params(block) |-> value[p]]])

Frame == Last(open)

(* The residuals implicit_end registers before one that reads no input.    *)
Accepted(F) == LET bad == {i \in DOMAIN F : F[i] = {}}
               IN  SelectSeq([i \in DOMAIN F |-> <<i, F[i]>>], LAMBDA r : \A b \in bad : r[1] < b)
Registered(F) == [i \in DOMAIN Accepted(F) |-> Accepted(F)[i][2]]

EndThrows(F) ==
    /\ outcome = "recording" /\ open # <<>>
    /\ LET block == [registry[Frame] EXCEPT !.residuals = Registered(F)]
       IN  /\ Registered(F) # F \/ ~Gate(block)
           /\ registry' = [registry EXCEPT ![Frame] = [block EXCEPT !.status = "thrown"]]
    /\ Unwind(Front(open))
    /\ UNCHANGED <<inputs, value>>

Writes_IfConverged(block, converged, solution) ==
    [i \in DOMAIN value |-> IF i \in block.unknowns /\ converged THEN solution ELSE value[i]]
Writes(block, converged, solution) ==
    [i \in DOMAIN value |-> IF i \in block.unknowns THEN solution ELSE value[i]]

(* The solution is written even when the solve failed, and then it throws. *)
End(F, converged, throwOnFailure) ==
    /\ outcome = "recording" /\ open # <<>>
    /\ Registered(F) = F
    /\ LET block == [registry[Frame] EXCEPT !.residuals = F]
       IN  /\ Gate(block)
           /\ registry' = [registry EXCEPT ![Frame] = [block EXCEPT !.status = "solved"]]
           /\ value' = Writes(block, converged, Solved(block))
    /\ IF converged \/ ~throwOnFailure THEN open' = Front(open) /\ UNCHANGED outcome
       ELSE Unwind(Front(open))
    /\ UNCHANGED inputs

(* The constructor of ImplicitProgram, with ResidualProgram's own checks.  *)
Buildable == \A k \in DOMAIN registry : /\ Len(registry[k].residuals) >= Cardinality(registry[k].unknowns)
                                        /\ Unread(registry[k]) = {}

Build == /\ outcome = "recording" /\ open = <<>> /\ registry # <<>>
         /\ outcome' = IF Buildable THEN "built" ELSE "refused"
         /\ UNCHANGED <<inputs, value, registry, open>>

Next == \/ \E size \in Sizes : Begin(size[1], size[2], size[3]) \/ BeginThrows(size[1], size[2])
        \/ open # <<>> /\ \E F \in [1 .. registry[Frame].wants -> SUBSET Readable] :
              \/ EndThrows(F)
              \/ \E converged, throwOnFailure \in BOOLEAN : End(F, converged, throwOnFailure)
        \/ Build

Spec == Init /\ [][Next]_vars
-----------------------------------------------------------------------------
(* Every input has a record value; the frames are blocks not yet solved.   *)
TypeOK == /\ DOMAIN value = 1 .. inputs
          /\ outcome \in {"recording", "failed", "refused", "built"}
          /\ \A k \in DOMAIN registry : registry[k].unknowns \subseteq (Quotes + 1) .. inputs
          /\ \A k \in ToSet(open) : k \in DOMAIN registry /\ registry[k].status = "open"

(* The record point of the tape is calibrated: each solved block holds the *)
(* solution for the record values its parameters have now, after whatever  *)
(* was recorded since (implicit.hpp, "tape.input_values() is the           *)
(* calibrated record point").                                              *)
RecordPointSolved ==
    \A k \in DOMAIN registry : registry[k].status = "solved" =>
       \A u \in registry[k].unknowns : value[u] = Solved(registry[k])

(* The gate of the recording and the checks of the constructor agree: of   *)
(* blocks that were all recorded without an exception none is refused and  *)
(* every one passed both directions, "explicitly, before anything is       *)
(* solved" (implicit.hpp:176), or only that of its unknowns when it asked  *)
(* for no more.  A caller that goes on after an exception has no such      *)
(* promise: the block that threw stays in the registry.                    *)
Coupled(block) == /\ \A u \in block.unknowns : \E i \in DOMAIN block.residuals : u \in block.residuals[i]
                  /\ block.coupled => \A i \in DOMAIN block.residuals : \E u \in block.unknowns : u \in block.residuals[i]
NeverThrew == \A k \in DOMAIN registry : registry[k].status = "solved"
GatedBeforeSolved ==
    outcome \in {"built", "refused"} /\ NeverThrew =>
        outcome = "built" /\ \A k \in DOMAIN registry : Coupled(registry[k])
=============================================================================
