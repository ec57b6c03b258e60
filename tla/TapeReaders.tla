---------------------------- MODULE TapeReaders ----------------------------
(***************************************************************************)
(* What is computed from the graph of a finished tape, and nothing else:   *)
(* the exports of its Selects (SelectExport, the one reader that appends   *)
(* to the tape it reads), the slice of some of its nodes (TapeSlice), and  *)
(* the structural gate of an implicit block (Sparsity).  A slice is cut    *)
(* from a tape whose Selects were exported; the gate has tapes of its own, *)
(* whose nodes are no more than their operands.  Who asks the gate is the  *)
(* recording of implicit blocks (ImplicitRecording), which knows of a      *)
(* residual only the inputs it reads; what a block's solver computes with  *)
(* is the program of the slice of its residuals (ResidualProgram).         *)
(***************************************************************************)
EXTENDS Integers, Sequences, FiniteSets

CONSTANTS Recorded,   \* the node tables export_selects may be given
          Spare,      \* bound: unused capacity of such a table, a set of numbers
          Size, Arity, Residuals, Unknowns,  \* bounds of the gate: see Sparsity
          Quotes, Sizes, MaxDepth, MaxBlocks, \* of the blocks: see ImplicitRecording
          Blocks, Batches, MaxCalls \* of their programs: see ResidualProgram

ASSUME ReadersAssumption == /\ Spare \subseteq Nat
                            /\ {Size, Arity, Residuals, Unknowns} \subseteq Nat

VARIABLES nodes, cap, outs, exportPc, i, given, room, fresh, margin, gap, selects,
          roots, slicePc, at, keep, sub, map, ordinals, outputs,
          tape, unknowns, residuals, require, gatePc, mark, k, bits, colour,
          inputs, value, registry, open, outcome,
          block, zSlot, batch, step, row, calls, state, seeds, answer
exportVars == <<nodes, cap, outs, exportPc, i, given, room, fresh, margin, gap, selects>>
sliceVars == <<roots, slicePc, at, keep, sub, map, ordinals, outputs>>
gateVars == <<tape, unknowns, residuals, require, gatePc, mark, k, bits, colour>>
blockVars == <<inputs, value, registry, open, outcome>>
callVars == <<block, zSlot, batch, step, row, calls, state, seeds, answer>>
vars == <<exportVars, sliceVars, gateVars, blockVars, callVars>>

Export == INSTANCE SelectExport WITH Tapes <- Recorded, pc <- exportPc
Slicing == INSTANCE TapeSlice WITH pc <- slicePc
Structure == INSTANCE Sparsity WITH pc <- gatePc
Recorder == INSTANCE ImplicitRecording
Caller == INSTANCE ResidualProgram

ASSUME RecordedAssumption == \A t \in Recorded : Export!Validated(t)
ASSUME BlocksAssumption == Recorder!ImplicitRecordingAssumption /\ Caller!CallsAssumption

NoExport ==
  /\ nodes = <<>> /\ outs = <<>> /\ selects = <<>> /\ exportPc = "idle" /\ fresh = TRUE
  /\ cap = 0 /\ i = 0 /\ given = 0 /\ room = 0 /\ margin = 0 /\ gap = 0
NoSlice ==
  /\ slicePc = "idle" /\ at = 0 /\ keep = {}
  /\ roots = <<>> /\ sub = <<>> /\ map = <<>> /\ ordinals = <<>> /\ outputs = <<>>
NoBlock ==
  /\ tape = <<>> /\ unknowns = {} /\ residuals = <<>> /\ require = TRUE
  /\ gatePc = "idle" /\ mark = <<>> /\ k = 0 /\ bits = <<>> /\ colour = <<>>

NoRecording ==
  inputs = 0 /\ value = <<>> /\ registry = <<>> /\ open = <<>> /\ outcome = "none"

NoCalls ==
  /\ block = <<>> /\ zSlot = <<>> /\ batch = 0 /\ step = "idle" /\ row = 0 /\ calls = 0
  /\ state = <<>> /\ seeds = <<>> /\ answer = <<>>

Init == NoSlice /\ \/ Export!Init /\ NoBlock /\ NoRecording /\ NoCalls
                   \/ Structure!Init /\ NoExport /\ NoRecording /\ NoCalls
                   \/ Recorder!Init /\ NoExport /\ NoBlock /\ NoCalls
                   \/ Caller!ProgramInit /\ NoExport /\ NoBlock /\ NoRecording

(* The roots a caller asks for: all the outputs, or a Select's margin.     *)
Wanted == {outs} \cup {<<outs[e.margin]>> : e \in {selects[s] : s \in DOMAIN selects}}

Read ==
  \/ Export!Next /\ UNCHANGED <<sliceVars, gateVars>>
  \/ exportPc = "done" /\ (\E wanted \in Wanted : Slicing!Slice(wanted)) /\ UNCHANGED <<exportVars, gateVars>>
  \/ Slicing!SliceStep /\ UNCHANGED <<exportVars, gateVars>>
  \/ Structure!Next /\ UNCHANGED <<exportVars, sliceVars>>

Next ==
  \/ Read /\ UNCHANGED <<blockVars, callVars>>
  \/ Recorder!Next /\ UNCHANGED <<exportVars, sliceVars, gateVars, callVars>>
  \/ Caller!ProgramNext /\ UNCHANGED <<exportVars, sliceVars, gateVars, blockVars>>

Spec == Init /\ [][Next]_vars
------------------------------------------------------------------------------
(* The properties are stated where the definitions are: SelectExport,      *)
(* TapeSlice, Sparsity, ImplicitRecording and ResidualProgram.             *)

(* Each export is of its Select, until the node table has moved.           *)
ExportsAreOfTheirSelects == Export!ExportsAreOfTheirSelects
(* A slice computes its roots, from the tape's inputs, with nothing spare; *)
(* and every call of the program of one answers for its own residuals, at  *)
(* its own point, whatever the calls before it have left in the buffers.   *)
SliceComputesRoots == Slicing!SliceComputesRoots /\ Caller!CallsAreOfTheirPoint
(* One reverse sweep is the whole dependence of residuals on unknowns, and *)
(* the gate refuses exactly the blocks with a row or a column left out;    *)
(* residuals of one colour share no unknown.                               *)
StructureIsExact == Structure!GateIsExact /\ Structure!ColoursAreSeparate
(* What was solved stays the calibrated record point, and a recording that *)
(* never threw is of gated blocks, and is not refused.                     *)
BlocksGatedAndSolved == Recorder!RecordPointSolved /\ Recorder!GatedBeforeSolved
=============================================================================
