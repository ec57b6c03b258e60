------------------------- MODULE TapeReadersProofs --------------------------
(***************************************************************************)
(* Three readers of a tape in every behaviour of TapeReaders: the gate, of *)
(* which SparsityProofs shows the same alone; the recording of implicit    *)
(* blocks, which are gated before they are solved and stay solved; and     *)
(* export_selects, whose outputs are those of their Selects.               *)
(***************************************************************************)
EXTENDS TapeReaders, FiniteSetTheorems, SequenceTheorems, WellFoundedInduction, TLAPS

Alone == INSTANCE SparsityProofs WITH pc <- gatePc

(* The gate as TapeReaders names it and as its proofs do.                  *)
LEMMA SameInit == Structure!Init => Alone!Init
BY DEF Structure!Init, Alone!Init, Structure!Tapes, Alone!Tapes, Structure!Nodes, Alone!Nodes,
       Structure!Rows, Alone!Rows, Structure!Cardinality, Alone!Cardinality

LEMMA SameNext == Structure!Next => Alone!Next
BY DEF Structure!Next, Alone!Next, Structure!Seed, Alone!Seed, Structure!Sweep, Alone!Sweep,
       Structure!ReadRows, Alone!ReadRows, Structure!Gate, Alone!Gate,
       Structure!ColourRow, Alone!ColourRow, Structure!Return, Alone!Return,
       Structure!Stopped, Alone!Stopped, Structure!vars, Alone!vars,
       Structure!Nodes, Alone!Nodes, Structure!Rows, Alone!Rows,
       Structure!LastResidual, Alone!LastResidual, Structure!Swept, Alone!Swept,
       Structure!Singular, Alone!Singular, Structure!DeadUnknowns, Alone!DeadUnknowns,
       Structure!DeadResiduals, Alone!DeadResiduals, Structure!Coloured, Alone!Coloured,
       Structure!Before, Alone!Before, Structure!Pick, Alone!Pick,
       Structure!Taken, Alone!Taken, Structure!Conflicts, Alone!Conflicts,
       Structure!Max, Alone!Max, Structure!Min, Alone!Min, Structure!Cardinality, Alone!Cardinality

LEMMA SameProperties ==
  Alone!GateIsExact /\ Alone!ColoursAreSeparate => StructureIsExact
BY DEF StructureIsExact, Structure!GateIsExact, Alone!GateIsExact,
       Structure!PatternIsDependence, Alone!PatternIsDependence,
       Structure!ColoursAreSeparate, Alone!ColoursAreSeparate,
       Structure!DependsOn, Alone!DependsOn, Structure!Nodes, Alone!Nodes,
       Structure!Rows, Alone!Rows

(* A behaviour in which no block was given to the gate has none later.     *)
GateInv == gatePc = "idle" \/ Alone!IInv

(* One reverse sweep is the whole dependence of residuals on unknowns, the *)
(* gate refuses exactly the blocks with a row or a column left out, and    *)
(* residuals of one colour share no unknown, whatever the other readers do.*)
THEOREM StructureCorrect == Spec => []StructureIsExact
<1>a. Size \in Nat /\ Residuals \in Nat
  BY ReadersAssumption
<1>1. Init => GateInv
  <2>1. Structure!Init => Alone!IInv
    BY <1>a, SameInit, Alone!InitIInv
  <2> QED BY <2>1 DEF Init, NoBlock, GateInv
<1>2. GateInv /\ [Next]_vars => GateInv'
  <2> SUFFICES ASSUME GateInv, [Next]_vars PROVE GateInv'
    OBVIOUS
  <2>1. CASE UNCHANGED gateVars
    <3>1. UNCHANGED Alone!vars
      BY <2>1 DEF gateVars, Alone!vars
    <3>2. Alone!IInv => Alone!IInv'
      BY <3>1, Alone!NextIInv
    <3>3. gatePc' = gatePc
      BY <2>1 DEF gateVars
    <3> QED BY <3>2, <3>3 DEF GateInv
  <2>2. CASE Structure!Next
    <3>1. gatePc # "idle"
      BY <2>2 DEF Structure!Next, Structure!Seed, Structure!Sweep, Structure!ReadRows,
                  Structure!Gate, Structure!ColourRow, Structure!Return, Structure!Stopped
    <3>2. Alone!IInv'
      BY <2>2, <3>1, SameNext, Alone!NextIInv DEF GateInv
    <3> QED BY <3>2 DEF GateInv
  <2>3. UNCHANGED gateVars \/ Structure!Next
    BY DEF Next, Read, vars
  <2> QED BY <2>1, <2>2, <2>3
<1>3. GateInv => StructureIsExact
  <2>1. Alone!IInv => StructureIsExact
    BY Alone!IInvGate, Alone!IInvColours, SameProperties
  <2>2. gatePc = "idle" => StructureIsExact
    BY DEF StructureIsExact, Structure!GateIsExact, Structure!PatternIsDependence,
           Structure!ColoursAreSeparate
  <2> QED BY <2>1, <2>2 DEF GateInv
<1> QED BY <1>1, <1>2, <1>3, PTL DEF Spec

------------------------------------------------------------------------------
(* The recording of implicit blocks.                                       *)

IsSequence(s) == s \in Seq({s[x] : x \in DOMAIN s})

Known(r) == r = [unknowns |-> r.unknowns, wants |-> r.wants, residuals |-> r.residuals,
                  coupled |-> r.coupled, status |-> r.status]

(* A block of the registry: its unknowns are inputs of its own, and one    *)
(* that was solved passed the gate with as many residuals as it wanted.    *)
BlockOk(r) ==
  /\ Known(r)
  /\ r.unknowns \subseteq (Quotes + 1) .. inputs
  /\ r.wants \in Nat /\ IsFiniteSet(r.unknowns) /\ Cardinality(r.unknowns) <= r.wants
  /\ r.status = "solved" => /\ Len(r.residuals) = r.wants
                           /\ Recorder!Coupled(r) /\ Recorder!Unread(r) = {}

(* The frames are blocks still open, each once.                            *)
FramesOk(frames) ==
  \A f \in DOMAIN frames :
    /\ frames[f] \in DOMAIN registry /\ registry[frames[f]].status = "open"
    /\ \A g \in DOMAIN frames : g # f => frames[g] # frames[f]

(* What a block reads beside its own unknowns: quotes, and unknowns of     *)
(* blocks that will not be solved again.                                   *)
Settled(q) == q \in 1 .. Quotes \/ \E j \in DOMAIN registry : registry[j].status = "solved"
                                                            /\ q \in registry[j].unknowns
Calibrated(r) ==
  /\ \A q \in Recorder!Params(r) : Settled(q)
  /\ \A u \in r.unknowns : value[u] = Recorder!Solved(r)

RegistryOk ==
  /\ inputs \in Nat /\ Quotes <= inputs /\ IsSequence(value) /\ Len(value) = inputs
  /\ IsSequence(registry)
  /\ open \in Seq(Nat) /\ Len(open) <= MaxDepth /\ FramesOk(open)
  /\ \A r \in DOMAIN registry : BlockOk(registry[r])
  /\ \A r, q \in DOMAIN registry : r # q => registry[r].unknowns \cap registry[q].unknowns = {}
  /\ outcome = "refused" => ~Recorder!NeverThrew

BlocksCalibrated ==
  MaxDepth <= 1 => \A r \in DOMAIN registry : registry[r].status = "solved" => Calibrated(registry[r])

BlockInv == RegistryOk /\ BlocksCalibrated

(* A tape on which no block was recorded has none later.                   *)
RecorderInv == (outcome = "none" /\ registry = <<>> /\ open = <<>>) \/ BlockInv

LEMMA InitBlocks == Recorder!Init => BlockInv
<1> SUFFICES ASSUME Recorder!Init PROVE BlockInv
  OBVIOUS
<1>1. /\ inputs = Quotes /\ value = [q \in 1 .. Quotes |-> Recorder!Given]
      /\ registry = <<>> /\ open = <<>> /\ outcome = "recording"
  BY DEF Recorder!Init
<1>2. Quotes \in Nat /\ MaxDepth \in Nat
  BY BlocksAssumption DEF Recorder!ImplicitRecordingAssumption
<1>3. RegistryOk
  <2>1. IsSequence(value) /\ Len(value) = inputs
    BY <1>1, <1>2 DEF IsSequence
  <2>2. IsSequence(registry)
    BY <1>1 DEF IsSequence
  <2> QED BY <1>1, <1>2, <2>1, <2>2 DEF RegistryOk, FramesOk
<1>4. BlocksCalibrated
  BY <1>1 DEF BlocksCalibrated
<1> QED BY <1>3, <1>4 DEF BlockInv

(* An exception leaves a prefix of the frames.                             *)
LEMMA Unwound ==
  ASSUME NEW frames \in Seq(Nat), Recorder!Unwind(frames)
  PROVE  /\ open' \in Seq(Nat) /\ Len(open') <= Len(frames)
         /\ \A f \in DOMAIN open' : f \in DOMAIN frames /\ open'[f] = frames[f]
         /\ outcome' \in {outcome, "failed"}
<1>1. CASE open' = <<>>
  BY <1>1 DEF Recorder!Unwind
<1>2. ASSUME NEW d \in 0 .. Len(frames), open' = SubSeq(frames, 1, d), outcome' = outcome
      PROVE  /\ open' \in Seq(Nat) /\ Len(open') <= Len(frames)
             /\ \A f \in DOMAIN open' : f \in DOMAIN frames /\ open'[f] = frames[f]
  BY <1>2
<1> QED BY <1>1, <1>2 DEF Recorder!Unwind

LEMMA AppendSequence ==
  ASSUME NEW s, IsSequence(s), NEW e
  PROVE  /\ Len(s) \in Nat /\ DOMAIN s = 1 .. Len(s)
         /\ IsSequence(Append(s, e)) /\ Len(Append(s, e)) = Len(s) + 1
         /\ DOMAIN Append(s, e) = 1 .. (Len(s) + 1)
         /\ \A x \in 1 .. Len(s) : Append(s, e)[x] = s[x]
         /\ Append(s, e)[Len(s) + 1] = e
<1> DEFINE S == {s[x] : x \in DOMAIN s} \cup {e}
<1>1. s \in Seq({s[x] : x \in DOMAIN s})
  BY DEF IsSequence
<1>2. Len(s) \in Nat /\ DOMAIN s = 1 .. Len(s)
  BY <1>1, LenProperties
<1>3. s \in Seq(S)
  <2>1. s \in [1 .. Len(s) -> S]
    BY <1>1, <1>2, LenProperties
  <2> QED BY <2>1, <1>2
<1> HIDE DEF S
<1>4. e \in S
  BY DEF S
<1>5. /\ Append(s, e) \in Seq(S) /\ Len(Append(s, e)) = Len(s) + 1
      /\ \A x \in 1 .. Len(s) : Append(s, e)[x] = s[x]
      /\ Append(s, e)[Len(s) + 1] = e
  BY <1>3, <1>4, AppendProperties
<1>6. IsSequence(Append(s, e)) /\ DOMAIN Append(s, e) = 1 .. (Len(s) + 1)
  <2> DEFINE a == Append(s, e)
  <2> HIDE DEF a
  <2>1. a \in Seq(S) /\ Len(a) = Len(s) + 1
    BY <1>5 DEF a
  <2>2. a \in [1 .. Len(a) -> S] /\ Len(a) \in Nat
    BY <2>1, LenProperties
  <2>3. a \in [1 .. Len(a) -> {a[x] : x \in DOMAIN a}]
    BY <2>2
  <2>4. a \in Seq({a[x] : x \in DOMAIN a})
    BY <2>2, <2>3
  <2> QED BY <2>1, <2>2, <2>4 DEF IsSequence, a
<1> QED BY <1>2, <1>5, <1>6

(* A function on 1 .. n is a sequence.                                     *)
LEMMA FunctionIsSequence ==
  ASSUME NEW n \in Nat, NEW s, s = [x \in 1 .. n |-> s[x]]
  PROVE  IsSequence(s) /\ Len(s) = n
<1>1. s \in [1 .. n -> {s[x] : x \in DOMAIN s}]
  OBVIOUS
<1>2. s \in Seq({s[x] : x \in DOMAIN s})
  BY <1>1
<1> QED BY <1>1, <1>2 DEF IsSequence

(* A block keeps its solution while what it reads and holds is kept.       *)
LEMMA CalibratedKept ==
  ASSUME NEW r, Calibrated(r),
         \A q : Settled(q) => Settled(q)' /\ value'[q] = value[q],
         \A u \in r.unknowns : value'[u] = value[u]
  PROVE  Calibrated(r)'
<1>1. \A q \in Recorder!Params(r) : Settled(q)' /\ value'[q] = value[q]
  BY DEF Calibrated
<1>2. Recorder!Solved(r)' = Recorder!Solved(r)
  BY <1>1 DEF Recorder!Solved, Recorder!Name
<1> QED BY <1>1, <1>2 DEF Calibrated

LEMMA SettledIsInput ==
  ASSUME RegistryOk, NEW q, Settled(q)
  PROVE  q \in 1 .. inputs
<1>1. CASE q \in 1 .. Quotes
  BY <1>1, BlocksAssumption DEF RegistryOk, Recorder!ImplicitRecordingAssumption
<1>2. CASE \E j \in DOMAIN registry : registry[j].status = "solved" /\ q \in registry[j].unknowns
  <2>1. PICK j \in DOMAIN registry : q \in registry[j].unknowns
    BY <1>2
  <2>2. q \in (Quotes + 1) .. inputs
    BY <2>1 DEF RegistryOk, BlockOk
  <2> QED BY <2>2, BlocksAssumption DEF RegistryOk, Recorder!ImplicitRecordingAssumption
<1> QED BY <1>1, <1>2 DEF Settled

(* A new block's unknowns come after every input there was.                *)
LEMMA BeginBlocks ==
  ASSUME BlockInv, NEW n \in Nat, NEW w \in Nat, NEW both, Recorder!Begin(n, w, both)
  PROVE  BlockInv'
<1>a. Quotes \in Nat /\ MaxDepth \in Nat /\ inputs \in Nat /\ RegistryOk
  BY BlocksAssumption DEF Recorder!ImplicitRecordingAssumption, BlockInv, RegistryOk
<1>b. PICK new, len : /\ len = Len(registry)
                      /\ new = [unknowns |-> (inputs + 1) .. (inputs + n), wants |-> w,
                                residuals |-> <<>>, coupled |-> both, status |-> "open"]
  OBVIOUS
<1>1. /\ n # 0 /\ w >= n /\ inputs' = inputs + n + 2
      /\ registry' = Append(registry, new) /\ open' = Append(open, len + 1)
      /\ outcome' = outcome /\ outcome = "recording" /\ Len(open) < MaxDepth
      /\ value' = value \o [q \in 1 .. n |-> Recorder!StartAt] \o <<Recorder!Reported, Recorder!Reported>>
  BY <1>b DEF Recorder!Begin, Recorder!InputsAfter, Recorder!Recording
<1>2. /\ len \in Nat /\ DOMAIN registry = 1 .. len
      /\ IsSequence(registry') /\ DOMAIN registry' = 1 .. (len + 1)
      /\ \A r \in 1 .. len : registry'[r] = registry[r]
      /\ registry'[len + 1] = new
  BY <1>a, <1>b, <1>1, AppendSequence DEF RegistryOk
<1>3. /\ IsSequence(value') /\ Len(value') = inputs' /\ inputs' \in Nat /\ Quotes <= inputs'
      /\ \A q \in 1 .. inputs : value'[q] = value[q]
  <2>1. IsSequence(value) /\ Len(value) = inputs /\ Quotes <= inputs
    BY <1>a DEF RegistryOk
  <2> DEFINE S == {value[x] : x \in DOMAIN value} \cup {Recorder!StartAt, Recorder!Reported}
             mid == [q \in 1 .. n |-> Recorder!StartAt]
             end == <<Recorder!Reported, Recorder!Reported>>
  <2>2. value \in Seq(S)
    <3>1. value \in Seq({value[x] : x \in DOMAIN value})
      BY <2>1 DEF IsSequence
    <3>2. value \in [1 .. Len(value) -> S] /\ Len(value) \in Nat
      BY <3>1, LenProperties
    <3> QED BY <3>2
  <2>3. mid \in Seq(S) /\ Len(mid) = n
    OBVIOUS
  <2>4. end \in Seq(S) /\ Len(end) = 2
    OBVIOUS
  <2> HIDE DEF S, mid, end
  <2>5. /\ value \o mid \in Seq(S) /\ Len(value \o mid) = inputs + n
        /\ \A q \in 1 .. inputs : (value \o mid)[q] = value[q]
    <3>1. \A q \in 1 .. inputs : q \in 1 .. (inputs + n) /\ q <= inputs
      BY <1>a
    <3> QED BY <1>a, <2>1, <2>2, <2>3, <3>1, ConcatProperties
  <2> DEFINE vm == value \o mid
  <2> HIDE DEF vm
  <2>6. /\ vm \o end \in Seq(S) /\ Len(vm \o end) = inputs + n + 2
        /\ \A q \in 1 .. inputs : (vm \o end)[q] = vm[q]
    <3>1. vm \in Seq(S) /\ Len(vm) = inputs + n
      BY <2>5 DEF vm
    <3>2. \A q \in 1 .. inputs : q \in 1 .. ((inputs + n) + 2) /\ q <= inputs + n
      BY <1>a
    <3>3. /\ vm \o end \in Seq(S) /\ Len(vm \o end) = Len(vm) + Len(end)
          /\ \A x \in 1 .. (Len(vm) + Len(end)) : x <= Len(vm) => (vm \o end)[x] = vm[x]
      BY <2>4, <3>1, ConcatProperties
    <3>4. Len(vm) + Len(end) = inputs + n + 2
      BY <1>a, <2>4, <3>1
    <3> QED BY <3>1, <3>2, <3>3, <3>4
  <2>7. value' = vm \o end
    BY <1>1 DEF vm, mid, end
  <2>8. IsSequence(value')
    <3>1. value' \in Seq(S)
      BY <2>6, <2>7
    <3>2. value' \in [1 .. Len(value') -> S] /\ Len(value') \in Nat
      BY <3>1, LenProperties
    <3>3. value' = [x \in 1 .. Len(value') |-> value'[x]]
      BY <3>2
    <3> QED BY <3>2, <3>3, FunctionIsSequence
  <2> QED BY <1>a, <1>1, <2>1, <2>5, <2>6, <2>7, <2>8 DEF vm
<1>4. ASSUME NEW r \in 1 .. len PROVE BlockOk(registry[r])'
  <2>1. BlockOk(registry[r])
    BY <1>a, <1>2 DEF RegistryOk
  <2> DEFINE b == registry[r]
  <2>2. b.unknowns \subseteq (Quotes + 1) .. inputs'
    BY <1>a, <1>1, <2>1 DEF BlockOk
  <2>3. registry'[r] = b
    BY <1>2
  <2> HIDE DEF b
  <2>4. BlockOk(b)
    BY <2>1 DEF b
  <2> QED BY <2>2, <2>3, <2>4 DEF BlockOk, Known, Recorder!Coupled, Recorder!Unread
<1>5. BlockOk(registry[len + 1])'
  <2>1. IsFiniteSet(new.unknowns) /\ Cardinality(new.unknowns) = n
    <3>1. new.unknowns = (inputs + 1) .. (inputs + n)
      BY <1>b
    <3>2. inputs + 1 \in Int /\ inputs + n \in Int /\ ~ (inputs + 1 > inputs + n)
          /\ (inputs + n) - (inputs + 1) + 1 = n
      BY <1>a, <1>1
    <3> QED BY <3>1, <3>2, FS_Interval
  <2>2. new.unknowns \subseteq (Quotes + 1) .. inputs'
    BY <1>a, <1>b, <1>1 DEF RegistryOk
  <2>3. BlockOk(new)'
    BY <1>b, <1>1, <2>1, <2>2 DEF BlockOk, Known
  <2> QED BY <1>2, <2>3 DEF BlockOk, Known, Recorder!Coupled, Recorder!Unread
<1>6. FramesOk(open)' /\ open' \in Seq(Nat) /\ Len(open') <= MaxDepth
  <2>1. open \in Seq(Nat) /\ FramesOk(open)
    BY <1>a DEF RegistryOk
  <2>2. /\ open' \in Seq(Nat) /\ Len(open') = Len(open) + 1
        /\ \A f \in 1 .. Len(open) : open'[f] = open[f]
        /\ open'[Len(open) + 1] = len + 1
    BY <1>1, <1>2, <2>1, AppendProperties
  <2>3. \A f \in DOMAIN open' : f \in 1 .. Len(open) \/ f = Len(open) + 1
    BY <2>1, <2>2
  <2>4. \A f \in 1 .. Len(open) : /\ open[f] \in 1 .. len /\ registry[open[f]].status = "open"
                                   /\ \A g \in 1 .. Len(open) : g # f => open[f] # open[g]
    BY <1>2, <2>1 DEF FramesOk
  <2>5. ASSUME NEW f \in DOMAIN open'
        PROVE  /\ open'[f] \in DOMAIN registry' /\ registry'[open'[f]].status = "open"
               /\ \A g \in DOMAIN open' : g # f => open'[f] # open'[g]
    <3>1. CASE f \in 1 .. Len(open)
      BY SMTT(20), <1>2, <2>2, <2>3, <2>4, <3>1
    <3>2. CASE f = Len(open) + 1
      BY SMTT(20), <1>b, <1>2, <2>2, <2>3, <2>4, <3>2
    <3> QED BY <2>3, <3>1, <3>2
  <2>6. FramesOk(open)'
    BY <2>5 DEF FramesOk
  <2>7. Len(open') <= MaxDepth
    <3>1. Len(open) \in Nat
      BY <2>1
    <3> QED BY <1>a, <1>1, <2>2, <3>1
  <2> QED BY <2>2, <2>6, <2>7
<1>7. ASSUME NEW r \in DOMAIN registry', NEW q \in DOMAIN registry', r # q
      PROVE  registry'[r].unknowns \cap registry'[q].unknowns = {}
  <2>1. \A x \in 1 .. len : registry'[x].unknowns \subseteq 1 .. inputs
    <3>1. \A x \in 1 .. len : registry[x].unknowns \subseteq (Quotes + 1) .. inputs
      BY <1>a, <1>2 DEF RegistryOk, BlockOk
    <3>2. (Quotes + 1) .. inputs \subseteq 1 .. inputs
      BY <1>a
    <3> QED BY <1>2, <3>1, <3>2
  <2>2. registry'[len + 1].unknowns \cap 1 .. inputs = {}
    BY <1>a, <1>b, <1>2
  <2>3. \A x, y \in 1 .. len : x # y => registry'[x].unknowns \cap registry'[y].unknowns = {}
    BY <1>a, <1>2 DEF RegistryOk
  <2>4. (r \in 1 .. len \/ r = len + 1) /\ (q \in 1 .. len \/ q = len + 1)
    BY <1>2
  <2> QED BY <1>7, <2>1, <2>2, <2>3, <2>4
<1>8. \A r \in DOMAIN registry' : BlockOk(registry[r])'
  <2>1. \A r \in DOMAIN registry' : r \in 1 .. len \/ r = len + 1
    BY <1>2
  <2> QED BY <1>4, <1>5, <2>1
<1>9. RegistryOk'
  <2> QED BY <1>1, <1>2, <1>3, <1>6, <1>7, <1>8 DEF RegistryOk
<1>10. BlocksCalibrated'
  <2> SUFFICES ASSUME MaxDepth <= 1, NEW r \in DOMAIN registry', registry'[r].status = "solved"
               PROVE  Calibrated(registry[r])'
    BY DEF BlocksCalibrated
  <2>1. r \in 1 .. len /\ registry'[r] = registry[r]
    <3>1. r \in 1 .. len \/ r = len + 1
      BY <1>2
    <3> QED BY <1>b, <1>2, <3>1
  <2>2. Calibrated(registry[r])
    BY <1>2, <2>1 DEF BlockInv, BlocksCalibrated
  <2>3. \A q : Settled(q) => Settled(q)' /\ value'[q] = value[q]
    <3>1. \A q : Settled(q) => value'[q] = value[q]
      BY <1>a, <1>3, SettledIsInput
    <3>2. \A q : Settled(q) => Settled(q)'
      BY <1>2 DEF Settled
    <3> QED BY <3>1, <3>2
  <2>4. registry[r].unknowns \subseteq 1 .. inputs
    BY <1>a, <1>2, <2>1 DEF RegistryOk, BlockOk
  <2>5. \A u \in registry[r].unknowns : value'[u] = value[u]
    BY <1>3, <2>4
  <2>6. PICK c : c = registry[r]
    OBVIOUS
  <2>7. Calibrated(c)'
    BY <2>2, <2>3, <2>5, <2>6, CalibratedKept
  <2> QED BY <2>1, <2>6, <2>7 DEF Calibrated, Recorder!Params, Recorder!Solved
<1> QED BY <1>9, <1>10 DEF BlockInv

(* What a frame's end makes of its block.                                  *)
WithResiduals(r, found) == [r EXCEPT !.residuals = found]
WithStatus(r, st) == [r EXCEPT !.status = st]
Closed(r, found, st) == WithStatus(WithResiduals(r, found), st)

LEMMA FoundFields ==
  ASSUME NEW r, Known(r), NEW found
  PROVE  WithResiduals(r, found) = [unknowns |-> r.unknowns, wants |-> r.wants,
                                    residuals |-> found, coupled |-> r.coupled, status |-> r.status]
<1>1. PICK u, w, o, c, t : r = [unknowns |-> u, wants |-> w, residuals |-> o, coupled |-> c, status |-> t]
  BY DEF Known
<1>2. r.unknowns = u /\ r.wants = w /\ r.residuals = o /\ r.coupled = c /\ r.status = t
  BY <1>1
<1> QED BY ONLY <1>1, <1>2 DEF WithResiduals

LEMMA StatusFields ==
  ASSUME NEW r, Known(r), NEW st
  PROVE  WithStatus(r, st) = [unknowns |-> r.unknowns, wants |-> r.wants,
                              residuals |-> r.residuals, coupled |-> r.coupled, status |-> st]
<1>1. PICK u, w, o, c, t : r = [unknowns |-> u, wants |-> w, residuals |-> o, coupled |-> c, status |-> t]
  BY DEF Known
<1>2. r.unknowns = u /\ r.wants = w /\ r.residuals = o /\ r.coupled = c /\ r.status = t
  BY <1>1
<1> QED BY ONLY <1>1, <1>2 DEF WithStatus

LEMMA ClosedFields ==
  ASSUME NEW r, Known(r), NEW found, NEW st
  PROVE  Closed(r, found, st) = [unknowns |-> r.unknowns, wants |-> r.wants,
                                 residuals |-> found, coupled |-> r.coupled, status |-> st]
<1>1. PICK m : m = WithResiduals(r, found)
  OBVIOUS
<1>2. m = [unknowns |-> r.unknowns, wants |-> r.wants, residuals |-> found, coupled |-> r.coupled, status |-> r.status]
  BY <1>1, FoundFields
<1>3. Known(m) /\ m.unknowns = r.unknowns /\ m.wants = r.wants /\ m.residuals = found /\ m.coupled = r.coupled
  BY <1>2 DEF Known
<1> QED BY <1>1, <1>3, StatusFields DEF Closed

SetsBlock(f, new) == registry' = [registry EXCEPT ![f] = new]

(* The innermost frame's block changes, its unknowns apart, and the frame  *)
(* is left, others perhaps with it.                                        *)
LEMMA FrameLeft ==
  ASSUME RegistryOk, open # <<>>, outcome = "recording",
         NEW f, f = Recorder!Frame, NEW new, BlockOk(new), new.unknowns = registry[f].unknowns,
         SetsBlock(f, new),
         inputs' = inputs, IsSequence(value'), Len(value') = inputs,
         NEW frames, frames = Recorder!Front(open), NEW left \in Seq(Nat), open' = left,
         Len(left) <= Len(frames), \A g \in DOMAIN left : g \in DOMAIN frames /\ left[g] = frames[g],
         outcome' \in {outcome, "failed"}
  PROVE  /\ RegistryOk'
         /\ f \in DOMAIN registry /\ registry[f].status = "open"
         /\ DOMAIN registry' = DOMAIN registry
         /\ registry'[f] = new /\ \A r \in DOMAIN registry : r # f => registry'[r] = registry[r]
<1> DEFINE last == Len(open)
<1>1. /\ open \in Seq(Nat) /\ last \in Nat /\ last >= 1 /\ last \in DOMAIN open /\ f = open[last]
      /\ DOMAIN open = 1 .. last /\ MaxDepth \in Nat /\ last <= MaxDepth
  BY BlocksAssumption
     DEF RegistryOk, Recorder!Frame, Recorder!Last, Recorder!ImplicitRecordingAssumption
<1>2. /\ f \in DOMAIN registry /\ registry[f].status = "open"
      /\ \A g \in DOMAIN open : /\ open[g] \in DOMAIN registry /\ registry[open[g]].status = "open"
                                /\ \A h \in DOMAIN open : h # g => open[h] # open[g]
  BY <1>1 DEF RegistryOk, FramesOk
<1>3. Len(frames) = last - 1 /\ \A g \in DOMAIN frames : g \in 1 .. (last - 1) /\ frames[g] = open[g]
  BY <1>1 DEF Recorder!Front
<1>4. \A g \in DOMAIN left : g \in DOMAIN open /\ g # last /\ left[g] = open[g]
  BY SMTT(20), <1>1, <1>3
<1>5. /\ DOMAIN registry' = DOMAIN registry
      /\ registry'[f] = new /\ \A r \in DOMAIN registry : r # f => registry'[r] = registry[r]
  <2>1. registry = [r \in DOMAIN registry |-> registry[r]]
    BY DEF RegistryOk, IsSequence
  <2> QED BY <1>2, <2>1 DEF SetsBlock
<1>6. IsSequence(registry')
  <2>1. IsSequence(registry)
    BY DEF RegistryOk
  <2>2. Len(registry) \in Nat /\ DOMAIN registry = 1 .. Len(registry)
    BY <2>1, AppendSequence
  <2> DEFINE n == Len(registry)
  <2>3. registry' = [x \in DOMAIN registry |-> registry'[x]]
    <3>1. registry = [x \in DOMAIN registry |-> registry[x]]
      BY <2>1 DEF IsSequence
    <3> QED BY <3>1 DEF SetsBlock
  <2> HIDE DEF n
  <2>4. n \in Nat /\ registry' = [x \in 1 .. n |-> registry'[x]]
    BY <2>2, <2>3 DEF n
  <2> QED BY <2>4, FunctionIsSequence
<1>7. FramesOk(open)'
  <2>1. ASSUME NEW g \in DOMAIN left
        PROVE  /\ left[g] \in DOMAIN registry' /\ registry'[left[g]].status = "open"
               /\ \A h \in DOMAIN left : h # g => left[h] # left[g]
    <3>1. left[g] # f
      BY <1>1, <1>2, <1>4
    <3> QED BY <1>2, <1>4, <1>5, <3>1
  <2> QED BY <2>1 DEF FramesOk
<1>8. ASSUME NEW r \in DOMAIN registry' PROVE BlockOk(registry[r])'
  <2>1. \A c : BlockOk(c) => BlockOk(c)'
    BY DEF BlockOk, Known, Recorder!Coupled, Recorder!Unread
  <2>2. PICK c : c = registry'[r]
    OBVIOUS
  <2>3. BlockOk(c)
    BY <1>5, <1>8, <2>2 DEF RegistryOk
  <2>4. BlockOk(c)'
    BY <2>1, <2>3
  <2> QED BY <2>2, <2>4 DEF BlockOk, Known, Recorder!Coupled, Recorder!Unread
<1>9. \A r, q \in DOMAIN registry' : r # q => registry'[r].unknowns \cap registry'[q].unknowns = {}
  <2>1. \A r \in DOMAIN registry : registry'[r].unknowns = registry[r].unknowns
    BY <1>5
  <2> QED BY <1>5, <2>1 DEF RegistryOk
<1>10. Len(open') <= MaxDepth /\ open' \in Seq(Nat)
  <2>1. Len(left) \in Nat
    OBVIOUS
  <2> QED BY <1>1, <1>3, <2>1
<1>11. inputs' \in Nat /\ Quotes <= inputs' /\ Len(value') = inputs' /\ outcome' # "refused"
  BY DEF RegistryOk
<1>12. RegistryOk'
  BY <1>6, <1>7, <1>8, <1>9, <1>10, <1>11 DEF RegistryOk
<1> QED BY <1>2, <1>5, <1>12

(* What is calibrated stays so when no solved block and no value changes.  *)
LEMMA CalibratedStays ==
  ASSUME BlocksCalibrated, value' = value, DOMAIN registry' = DOMAIN registry,
         \A r \in DOMAIN registry : \/ registry'[r] = registry[r]
                                    \/ registry[r].status # "solved" /\ registry'[r].status # "solved"
  PROVE  BlocksCalibrated'
<1> SUFFICES ASSUME MaxDepth <= 1, NEW r \in DOMAIN registry, registry'[r].status = "solved"
             PROVE  Calibrated(registry[r])'
  BY DEF BlocksCalibrated
<1>1. PICK c : c = registry[r] /\ registry'[r] = c /\ Calibrated(c)
  BY DEF BlocksCalibrated
<1>2. \A q : Settled(q) => Settled(q)' /\ value'[q] = value[q]
  BY DEF Settled
<1>3. Calibrated(c)'
  BY <1>1, <1>2, CalibratedKept
<1> QED BY <1>1, <1>3 DEF Calibrated, Recorder!Params, Recorder!Solved

LEMMA BeginThrowsBlocks ==
  ASSUME BlockInv, NEW n, NEW w, Recorder!BeginThrows(n, w)
  PROVE  BlockInv'
<1>1. /\ RegistryOk /\ open \in Seq(Nat) /\ Len(open) <= MaxDepth /\ FramesOk(open)
      /\ MaxDepth \in Nat
  BY BlocksAssumption DEF BlockInv, RegistryOk, Recorder!ImplicitRecordingAssumption
<1>2. /\ Recorder!Unwind(open) /\ inputs' = inputs /\ value' = value /\ registry' = registry
      /\ outcome = "recording"
  BY DEF Recorder!BeginThrows, Recorder!Recording
<1>3. PICK frames, left : frames = open /\ left = open'
  OBVIOUS
<1>4. /\ left \in Seq(Nat) /\ Len(left) <= Len(frames)
      /\ \A f \in DOMAIN left : f \in DOMAIN frames /\ left[f] = frames[f]
      /\ outcome' \in {outcome, "failed"}
  BY <1>1, <1>2, <1>3, Unwound
<1>5. FramesOk(open)'
  BY <1>1, <1>2, <1>3, <1>4 DEF FramesOk
<1>6. Len(open') <= MaxDepth
  <2>1. Len(left) \in Nat /\ Len(frames) \in Nat
    BY <1>1, <1>3, <1>4
  <2> QED BY <1>1, <1>3, <1>4, <2>1
<1>7. RegistryOk'
  BY <1>1, <1>2, <1>3, <1>4, <1>5, <1>6
     DEF RegistryOk, BlockOk, Known, Recorder!Coupled, Recorder!Unread
<1>8. BlocksCalibrated'
  BY <1>2, CalibratedStays DEF BlockInv
<1> QED BY <1>7, <1>8 DEF BlockInv

LEMMA EndThrowsBlocks ==
  ASSUME BlockInv, NEW F, Recorder!EndThrows(F)
  PROVE  BlockInv'
<1>1. PICK f, frames, old : f = Recorder!Frame /\ frames = Recorder!Front(open) /\ old = registry[f]
  OBVIOUS
<1> DEFINE new == Closed(old, Recorder!Registered(F), "thrown")
<1>2. /\ RegistryOk /\ open # <<>> /\ outcome = "recording" /\ inputs' = inputs /\ value' = value
      /\ registry' = [registry EXCEPT ![f] = new] /\ Recorder!Unwind(frames)
  BY <1>1 DEF Recorder!EndThrows, BlockInv, Closed, WithResiduals, WithStatus
<1>3. f \in DOMAIN registry /\ frames \in Seq(Nat)
  <2>1. open \in Seq(Nat) /\ Len(open) \in Nat /\ Len(open) \in DOMAIN open
    BY <1>2 DEF RegistryOk
  <2>2. open[Len(open)] \in DOMAIN registry
    BY <1>2, <2>1 DEF RegistryOk, FramesOk
  <2> QED BY <1>1, <2>1, <2>2 DEF Recorder!Frame, Recorder!Last, Recorder!Front
<1>4. BlockOk(old)
  BY <1>1, <1>2, <1>3 DEF RegistryOk
<1>5. BlockOk(new) /\ new.unknowns = old.unknowns /\ new.status = "thrown"
  <2>1. new = [unknowns |-> old.unknowns, wants |-> old.wants,
               residuals |-> Recorder!Registered(F), coupled |-> old.coupled, status |-> "thrown"]
    BY <1>4, ClosedFields DEF BlockOk
  <2> HIDE DEF new
  <2> QED BY <1>4, <2>1 DEF BlockOk, Known
<1>b. PICK left : left = open'
  OBVIOUS
<1>6. /\ left \in Seq(Nat) /\ Len(left) <= Len(frames)
      /\ \A g \in DOMAIN left : g \in DOMAIN frames /\ left[g] = frames[g]
      /\ outcome' \in {outcome, "failed"}
  BY <1>b, <1>2, <1>3, Unwound
<1>7. IsSequence(value') /\ Len(value') = inputs /\ SetsBlock(f, new)
  BY <1>2 DEF RegistryOk, SetsBlock
<1> HIDE DEF new
<1>8. /\ RegistryOk' /\ registry[f].status = "open" /\ DOMAIN registry' = DOMAIN registry
      /\ registry'[f] = new /\ \A r \in DOMAIN registry : r # f => registry'[r] = registry[r]
  BY <1>b, <1>1, <1>2, <1>5, <1>6, <1>7, FrameLeft
<1>9. BlocksCalibrated'
  BY <1>2, <1>5, <1>8, CalibratedStays DEF BlockInv
<1> QED BY <1>8, <1>9 DEF BlockInv

(* A solve writes its own unknowns only, which no block already solved     *)
(* holds or, unless one implicit() runs inside another, reads.             *)
LEMMA EndBlocks ==
  ASSUME BlockInv, open # <<>>,
         NEW F \in [1 .. registry[Recorder!Frame].wants -> SUBSET Recorder!Readable],
         NEW converged, NEW throwOnFailure, Recorder!End(F, converged, throwOnFailure)
  PROVE  BlockInv'
<1>1. PICK f, frames, old, block1, new, sol :
        /\ f = Recorder!Frame /\ frames = Recorder!Front(open) /\ old = registry[f]
        /\ block1 = WithResiduals(old, F) /\ new = Closed(old, F, "solved")
        /\ sol = Recorder!Solved(block1)
  OBVIOUS
<1>2. /\ RegistryOk /\ outcome = "recording" /\ inputs' = inputs
      /\ Recorder!Gate(block1)
      /\ SetsBlock(f, new)
      /\ value' = [q \in DOMAIN value |-> IF q \in block1.unknowns THEN sol ELSE value[q]]
      /\ (open' = frames /\ outcome' = outcome) \/ Recorder!Unwind(frames)
  BY <1>1 DEF Recorder!End, BlockInv, Closed, WithResiduals, WithStatus, SetsBlock, Recorder!Writes
<1>3. /\ f \in DOMAIN registry /\ frames \in Seq(Nat)
      /\ MaxDepth <= 1 => \A x : Recorder!Contains(open, x) => x = f
  <2>1. /\ open \in Seq(Nat) /\ Len(open) \in Nat /\ Len(open) \in DOMAIN open
        /\ Len(open) <= MaxDepth /\ MaxDepth \in Nat
    BY <1>2, BlocksAssumption DEF RegistryOk, Recorder!ImplicitRecordingAssumption
  <2>2. open[Len(open)] \in DOMAIN registry
    BY <1>2, <2>1 DEF RegistryOk, FramesOk
  <2>3. f = open[Len(open)]
    BY <1>1 DEF Recorder!Frame, Recorder!Last
  <2>4. ASSUME MaxDepth <= 1, NEW x, Recorder!Contains(open, x) PROVE x = f
    <3>1. Len(open) = 1
      <4>1. Len(open) >= 1
        <5>1. DOMAIN open = 1 .. Len(open)
          BY <2>1
        <5> QED BY <2>1, <5>1
      <4>2. \A n, m \in Nat : n >= 1 /\ n <= m /\ m <= 1 => n = 1
        OBVIOUS
      <4> QED BY <2>1, <2>4, <4>1, <4>2
    <3>2. PICK g \in 1 .. Len(open) : open[g] = x
      BY <2>4 DEF Recorder!Contains
    <3> QED BY <2>3, <3>1, <3>2
  <2> QED BY <1>1, <2>1, <2>2, <2>3, <2>4 DEF Recorder!Front
<1>4. BlockOk(old) /\ Known(old)
  BY <1>1, <1>2, <1>3 DEF RegistryOk, BlockOk
<1>5. /\ block1 = [unknowns |-> old.unknowns, wants |-> old.wants, residuals |-> F, coupled |-> old.coupled,
                 status |-> old.status]
      /\ new = [unknowns |-> old.unknowns, wants |-> old.wants, residuals |-> F, coupled |-> old.coupled,
              status |-> "solved"]
  BY <1>1, <1>4, FoundFields, ClosedFields
<1>6. /\ block1.unknowns = old.unknowns /\ block1.residuals = F
      /\ block1.coupled = old.coupled /\ new.coupled = old.coupled
      /\ new.unknowns = old.unknowns /\ new.residuals = F /\ new.wants = old.wants
      /\ new.status = "solved" /\ Known(new) /\ Len(F) = old.wants
  <2>1. old.wants \in Nat /\ F \in [1 .. old.wants -> SUBSET Recorder!Readable]
    BY <1>1, <1>4 DEF BlockOk
  <2>2. Len(F) = old.wants
    BY <2>1
  <2> QED BY <1>1, <1>5, <2>2 DEF Known
<1>7. BlockOk(new)
  <2>1. \A u \in old.unknowns : \E x \in DOMAIN F : u \in F[x]
    BY <1>2, <1>6 DEF Recorder!Gate, Recorder!Unread
  <2>2. old.coupled => \A x \in DOMAIN F : \E u \in old.unknowns : u \in F[x]
    BY <1>2, <1>6 DEF Recorder!Gate
  <2>3. Recorder!Coupled(new) /\ Recorder!Unread(new) = {}
    BY <1>6, <2>1, <2>2 DEF Recorder!Coupled, Recorder!Unread
  <2> QED BY <1>4, <1>6, <2>3 DEF BlockOk
<1>b. PICK left : left = open'
  OBVIOUS
<1>8. /\ left \in Seq(Nat) /\ Len(left) <= Len(frames)
      /\ \A g \in DOMAIN left : g \in DOMAIN frames /\ left[g] = frames[g]
      /\ outcome' \in {outcome, "failed"}
  <2>1. CASE open' = frames /\ outcome' = outcome
    <3>1. Len(frames) \in Nat
      BY <1>3
    <3> QED BY <1>b, <1>3, <2>1, <3>1
  <2>2. CASE Recorder!Unwind(frames)
    BY <1>b, <1>3, <2>2, Unwound
  <2> QED BY <1>2, <2>1, <2>2
<1>9. /\ IsSequence(value') /\ Len(value') = inputs
      /\ \A q \in 1 .. inputs : value'[q] = IF q \in old.unknowns THEN sol ELSE value[q]
  <2>1. IsSequence(value) /\ Len(value) = inputs /\ inputs \in Nat
    BY <1>2 DEF RegistryOk
  <2>2. DOMAIN value = 1 .. inputs
    BY <2>1, AppendSequence
  <2>3. value' = [q \in 1 .. inputs |-> value'[q]]
    BY <1>2, <2>2
  <2> QED BY <1>2, <1>6, <2>1, <2>2, <2>3, FunctionIsSequence
<1>10. /\ RegistryOk' /\ registry[f].status = "open" /\ DOMAIN registry' = DOMAIN registry
       /\ registry'[f] = new /\ \A r \in DOMAIN registry : r # f => registry'[r] = registry[r]
  BY <1>b, <1>1, <1>2, <1>6, <1>7, <1>8, <1>9, FrameLeft
<1>11. \A q : Settled(q) => Settled(q)' /\ q \notin old.unknowns /\ value'[q] = value[q]
  <2>1. ASSUME NEW q, Settled(q) PROVE q \notin old.unknowns /\ q \in 1 .. inputs
    <3>1. q \in 1 .. inputs
      BY <1>2, <2>1, SettledIsInput
    <3>2. CASE q \in 1 .. Quotes
      BY <1>4, <3>1, <3>2, BlocksAssumption DEF BlockOk, Recorder!ImplicitRecordingAssumption
    <3>3. CASE \E j \in DOMAIN registry : registry[j].status = "solved" /\ q \in registry[j].unknowns
      <4>1. PICK j \in DOMAIN registry : registry[j].status = "solved" /\ q \in registry[j].unknowns
        BY <3>3
      <4>2. j # f
        BY <1>10, <4>1
      <4> QED BY <1>1, <1>2, <1>3, <3>1, <4>1, <4>2 DEF RegistryOk
    <3> QED BY <2>1, <3>2, <3>3 DEF Settled
  <2>2. \A q : Settled(q) => Settled(q)'
    BY <1>10 DEF Settled
  <2> QED BY <1>9, <2>1, <2>2
<1>12. ASSUME MaxDepth <= 1 PROVE Calibrated(new)'
  <2>1. ASSUME NEW q \in Recorder!Params(new) PROVE Settled(q) /\ q \notin old.unknowns
    <3>1. q \in Recorder!Readable /\ q \notin old.unknowns
      <4>1. q \in UNION Recorder!ToSet(F) /\ q \notin old.unknowns
        BY <1>6 DEF Recorder!Params
      <4>2. PICK x \in DOMAIN F : q \in F[x]
        BY <4>1 DEF Recorder!ToSet
      <4> QED BY <1>6, <4>1, <4>2
    <3> QED BY <1>1, <1>3, <1>12, <3>1 DEF Recorder!Readable, Settled
  <2>2. \A q \in Recorder!Params(new) : Settled(q)' /\ value'[q] = value[q]
    BY <1>11, <2>1
  <2>3. Recorder!Params(new) = Recorder!Params(block1)
    BY <1>6 DEF Recorder!Params
  <2>4. Recorder!Solved(new)' = sol
    BY <1>1, <1>6, <2>2, <2>3 DEF Recorder!Solved, Recorder!Name
  <2>5. old.unknowns \subseteq 1 .. inputs
    BY <1>4, BlocksAssumption DEF BlockOk, Recorder!ImplicitRecordingAssumption
  <2>6. \A u \in new.unknowns : value'[u] = sol
    BY <1>6, <1>9, <2>5
  <2> QED BY <2>2, <2>4, <2>6 DEF Calibrated
<1>13. BlocksCalibrated'
  <2> SUFFICES ASSUME MaxDepth <= 1, NEW r \in DOMAIN registry, registry'[r].status = "solved"
               PROVE  Calibrated(registry[r])'
    BY <1>10 DEF BlocksCalibrated
  <2>1. CASE r = f
    BY <1>10, <1>12, <2>1 DEF Calibrated, Recorder!Params, Recorder!Solved
  <2>2. CASE r # f
    <3>1. PICK c : c = registry[r] /\ registry'[r] = c /\ Calibrated(c)
      BY <1>10, <2>2 DEF BlockInv, BlocksCalibrated
    <3>2. \A u \in c.unknowns : value'[u] = value[u]
      <4>1. c.unknowns \subseteq 1 .. inputs
        BY <1>2, <3>1, BlocksAssumption
           DEF RegistryOk, BlockOk, Recorder!ImplicitRecordingAssumption
      <4>2. c.unknowns \cap old.unknowns = {}
        BY <1>1, <1>2, <1>3, <2>2, <3>1 DEF RegistryOk
      <4> QED BY <1>9, <4>1, <4>2
    <3>3. Calibrated(c)'
      BY <1>11, <3>1, <3>2, CalibratedKept
    <3> QED BY <3>1, <3>3 DEF Calibrated, Recorder!Params, Recorder!Solved
  <2> QED BY <2>1, <2>2
<1> QED BY <1>10, <1>13 DEF BlockInv

LEMMA CardinalityRecorded == \A S : Recorder!Cardinality(S) = Cardinality(S)
BY DEF Cardinality, Recorder!Cardinality

(* The constructor refuses nothing that was recorded without a throw.      *)
LEMMA BuildBlocks ==
  ASSUME BlockInv, Recorder!Build
  PROVE  BlockInv'
<1>1. /\ RegistryOk /\ inputs' = inputs /\ value' = value /\ registry' = registry /\ open' = open
      /\ outcome' = IF Recorder!Buildable THEN "built" ELSE "refused"
  BY DEF Recorder!Build, BlockInv
<1>2. ASSUME Recorder!NeverThrew PROVE Recorder!Buildable
  <2> SUFFICES ASSUME NEW r \in DOMAIN registry
               PROVE  /\ Len(registry[r].residuals) >= Recorder!Cardinality(registry[r].unknowns)
                      /\ Recorder!Unread(registry[r]) = {}
    BY DEF Recorder!Buildable
  <2>1. registry[r].status = "solved" /\ BlockOk(registry[r])
    BY <1>1, <1>2 DEF Recorder!NeverThrew, RegistryOk
  <2> QED BY <2>1, CardinalityRecorded DEF BlockOk
<1>3. RegistryOk'
  BY <1>1, <1>2 DEF RegistryOk, FramesOk, BlockOk, Known, Recorder!Coupled, Recorder!Unread,
                    Recorder!NeverThrew
<1>4. BlocksCalibrated'
  BY <1>1, CalibratedStays DEF BlockInv
<1> QED BY <1>3, <1>4 DEF BlockInv

LEMMA RecorderNextInv == RecorderInv /\ [Next]_vars => RecorderInv'
<1> SUFFICES ASSUME RecorderInv, [Next]_vars PROVE RecorderInv'
  OBVIOUS
<1>1. UNCHANGED blockVars \/ Recorder!Next
  BY DEF Next, Read, vars
<1>2. CASE UNCHANGED blockVars
  <2>1. UNCHANGED <<inputs, value, registry, open, outcome>>
    BY <1>2 DEF blockVars
  <2>2. ASSUME RegistryOk PROVE RegistryOk'
    BY <2>1, <2>2 DEF RegistryOk, FramesOk, BlockOk, Known, Recorder!Coupled, Recorder!Unread,
                      Recorder!NeverThrew
  <2>3. ASSUME BlocksCalibrated PROVE BlocksCalibrated'
    BY <2>1, <2>3, CalibratedStays
  <2> QED BY <2>1, <2>2, <2>3 DEF RecorderInv, BlockInv
<1>3. CASE Recorder!Next
  <2>1. BlockInv
    <3>1. outcome # "none"
      BY <1>3 DEF Recorder!Next, Recorder!Begin, Recorder!BeginThrows, Recorder!EndThrows,
                  Recorder!End, Recorder!Build, Recorder!Recording
    <3> QED BY <3>1 DEF RecorderInv
  <2>2. ASSUME NEW size \in Sizes, Recorder!Begin(size[1], size[2], size[3]) PROVE BlockInv'
    <3>1. size[1] \in Nat /\ size[2] \in Nat
      BY BlocksAssumption DEF Recorder!ImplicitRecordingAssumption
    <3> QED BY <2>1, <2>2, <3>1, BeginBlocks
  <2>3. ASSUME NEW size \in Sizes, Recorder!BeginThrows(size[1], size[2]) PROVE BlockInv'
    BY <2>1, <2>3, BeginThrowsBlocks
  <2>4. ASSUME open # <<>>,
               NEW F \in [1 .. registry[Recorder!Frame].wants -> SUBSET Recorder!Readable],
               Recorder!EndThrows(F)
        PROVE  BlockInv'
    BY <2>1, <2>4, EndThrowsBlocks
  <2>5. ASSUME open # <<>>,
               NEW F \in [1 .. registry[Recorder!Frame].wants -> SUBSET Recorder!Readable],
               NEW converged \in BOOLEAN, NEW throwOnFailure \in BOOLEAN,
               Recorder!End(F, converged, throwOnFailure)
        PROVE  BlockInv'
    BY <2>1, <2>5, EndBlocks
  <2>6. ASSUME Recorder!Build PROVE BlockInv'
    BY <2>1, <2>6, BuildBlocks
  <2> QED BY <1>3, <2>2, <2>3, <2>4, <2>5, <2>6 DEF Recorder!Next, RecorderInv
<1> QED BY <1>1, <1>2, <1>3

LEMMA RecorderInvariance == Spec => []RecorderInv
<1>1. Init => RecorderInv
  BY InitBlocks DEF Init, NoRecording, RecorderInv
<1> QED BY <1>1, RecorderNextInv, PTL DEF Spec

(* Of any number of blocks recorded without an exception, none is refused  *)
(* and all were gated, however the calls of implicit() nest and whatever   *)
(* exceptions the caller caught: the second half of BlocksGatedAndSolved.  *)
THEOREM GatedCorrect == Spec => []Recorder!GatedBeforeSolved
<1>1. ASSUME RecorderInv PROVE Recorder!GatedBeforeSolved
  <2> SUFFICES ASSUME outcome \in {"built", "refused"}, Recorder!NeverThrew
               PROVE  outcome = "built" /\ \A r \in DOMAIN registry : Recorder!Coupled(registry[r])
    BY DEF Recorder!GatedBeforeSolved
  <2>1. RegistryOk
    BY <1>1 DEF RecorderInv, BlockInv
  <2>2. outcome = "built"
    BY <2>1 DEF RegistryOk
  <2>3. \A r \in DOMAIN registry : registry[r].status = "solved" /\ BlockOk(registry[r])
    BY <2>1 DEF RegistryOk, Recorder!NeverThrew
  <2> QED BY <2>2, <2>3 DEF BlockOk
<1> QED BY <1>1, RecorderInvariance, PTL

(* Where no implicit() runs inside another, the solved blocks hold the     *)
(* solution for the record values their parameters have now, whatever was  *)
(* recorded, thrown and caught since.  Inside the residuals of another     *)
(* block this fails: the outer solve moves what the inner one read.        *)
THEOREM BlocksCorrect == ASSUME MaxDepth <= 1 PROVE Spec => []BlocksGatedAndSolved
<1>1. ASSUME RecorderInv PROVE Recorder!RecordPointSolved
  <2> SUFFICES ASSUME NEW r \in DOMAIN registry, registry[r].status = "solved",
                      NEW u \in registry[r].unknowns
               PROVE  value[u] = Recorder!Solved(registry[r])
    BY DEF Recorder!RecordPointSolved
  <2>1. Calibrated(registry[r])
    BY <1>1 DEF RecorderInv, BlockInv, BlocksCalibrated
  <2> QED BY <2>1 DEF Calibrated
<1> QED BY <1>1, RecorderInvariance, GatedCorrect, PTL DEF BlocksGatedAndSolved
------------------------------------------------------------------------------
(* The exports of the Selects.                                             *)

SelectsUpTo(l) == {n \in 1 .. l : nodes[n].op = "Select"}

(* Node m is a margin of the Select n, and node g its arm gap.             *)
MarginOk(n, m) ==
  LET p == nodes[nodes[n].a]
  IN /\ p.op = "CmpLt" => Export!Sub(m) = [op |-> "Sub", from |-> p.b, take |-> p.a]
     /\ p.op \in {"CmpGt", "CmpEq"} => Export!Sub(m) = [op |-> "Sub", from |-> p.a, take |-> p.b]
     /\ p.op \notin Export!Compares => m = nodes[n].a

GapOk(n, g) == Export!Sub(g) = [op |-> "Sub", from |-> nodes[n].b, take |-> nodes[n].c]

(* The table holds the nodes recorded before the call, with their operands *)
(* among them, and has not moved while its capacity is the one it had.     *)
TableOk ==
  /\ IsSequence(nodes) /\ Len(nodes) \in Nat
  /\ given \in Nat /\ room \in Nat /\ cap \in Nat
  /\ given <= Len(nodes) /\ given <= room /\ room <= cap
  /\ cap = room => fresh /\ Len(nodes) <= cap
  /\ \A n \in SelectsUpTo(given) : {nodes[n].a, nodes[n].b, nodes[n].c} \subseteq 1 .. (n - 1)

(* The Select at hand, and what has been appended for it.                  *)
AtHand ==
  /\ i \in 1 .. (given + 1)
  /\ exportPc \in {"loop", "gap", "outputs", "done", "failed"}
  /\ exportPc \in {"gap", "outputs"} => /\ i \in SelectsUpTo(given)
                                       /\ margin \in DOMAIN nodes /\ MarginOk(i, margin)
  /\ exportPc = "outputs" => gap \in DOMAIN nodes
  /\ exportPc = "outputs" /\ cap = room => GapOk(i, gap)
  /\ exportPc = "done" => i = given + 1
  /\ exportPc = "failed" => cap # room

(* Every Select passed has its row and its three outputs, in order.        *)
ExportedRow(s) ==
  /\ selects[s].mask = 3 * s - 2 /\ selects[s].margin = 3 * s - 1 /\ selects[s].gap = 3 * s
  /\ {outs[3 * s - 2], outs[3 * s - 1], outs[3 * s]} \subseteq DOMAIN nodes
  /\ selects[s].select \in SelectsUpTo(i - 1)
  /\ \A r \in 1 .. (s - 1) : selects[r].select < selects[s].select
  /\ MarginOk(selects[s].select, outs[3 * s - 1])
  /\ cap = room => /\ outs[3 * s - 2] = nodes[selects[s].select].a
                  /\ GapOk(selects[s].select, outs[3 * s])

RowsOk ==
  /\ IsSequence(selects) /\ IsSequence(outs) /\ Len(outs) = 3 * Len(selects)
  /\ {selects[s].select : s \in DOMAIN selects} = SelectsUpTo(i - 1)
  /\ \A s \in DOMAIN selects : ExportedRow(s)

ExportInv == exportPc = "idle" \/ (TableOk /\ AtHand /\ RowsOk)

(* An operation put on the tape leaves the nodes there were where they     *)
(* were, and a table that had to move for it has twice the capacity.       *)
LEMMA Pushed ==
  ASSUME TableOk, room >= 1, NEW e, Export!Push(e), given' = given, room' = room
  PROVE  /\ TableOk'
         /\ cap' = room' => cap = room
         /\ \A n \in DOMAIN nodes : n \in DOMAIN nodes' /\ nodes'[n] = nodes[n]
         /\ Len(nodes) + 1 \in DOMAIN nodes' /\ nodes'[Len(nodes) + 1] = e
         /\ 1 .. given \subseteq DOMAIN nodes
<1>1. /\ Len(nodes) \in Nat /\ DOMAIN nodes = 1 .. Len(nodes)
      /\ IsSequence(nodes') /\ Len(nodes') = Len(nodes) + 1
      /\ DOMAIN nodes' = 1 .. (Len(nodes) + 1)
      /\ \A x \in 1 .. Len(nodes) : nodes'[x] = nodes[x]
      /\ nodes'[Len(nodes) + 1] = e
  <2>1. nodes' = Append(nodes, e) /\ IsSequence(nodes)
    BY DEF Export!Push, TableOk
  <2> QED BY <2>1, AppendSequence
<1>2. 1 .. given \subseteq DOMAIN nodes
  BY <1>1 DEF TableOk
<1>3. /\ cap' \in Nat /\ room' <= cap'
      /\ cap' = room' => cap = room /\ fresh' /\ Len(nodes) < cap
  <2>1. CASE Len(nodes) < cap
    <3>1. cap' = cap
      BY <2>1 DEF Export!Push
    <3> QED BY <2>1, <3>1 DEF Export!Push, TableOk
  <2>2. CASE ~(Len(nodes) < cap)
    <3>1. cap' = 2 * cap
      BY <2>2 DEF Export!Push
    <3> QED BY <3>1 DEF TableOk
  <2> QED BY <2>1, <2>2
<1>4. TableOk'
  <2>1. \A n \in 1 .. given : nodes'[n] = nodes[n]
    BY <1>1, <1>2
  <2>2. SelectsUpTo(given)' = SelectsUpTo(given)
    BY <2>1 DEF SelectsUpTo
  <2>3. \A n \in SelectsUpTo(given)' : {nodes'[n].a, nodes'[n].b, nodes'[n].c} \subseteq 1 .. (n - 1)
    BY <2>1, <2>2 DEF TableOk, SelectsUpTo
  <2>4. /\ given' \in Nat /\ room' \in Nat /\ given' <= Len(nodes') /\ given' <= room'
        /\ Len(nodes') \in Nat
    BY <1>1 DEF TableOk
  <2>5. cap' = room' => fresh' /\ Len(nodes') <= cap'
    BY <1>1, <1>3 DEF TableOk
  <2> QED BY <1>1, <1>3, <2>3, <2>4, <2>5 DEF TableOk
<1> QED BY <1>1, <1>2, <1>3, <1>4

(* A margin and a gap stay what they are while nodes are only added.       *)
LEMMA MarginKept ==
  ASSUME TableOk, \A n \in DOMAIN nodes : n \in DOMAIN nodes' /\ nodes'[n] = nodes[n],
         NEW n \in SelectsUpTo(given), NEW m \in DOMAIN nodes
  PROVE  /\ n \in DOMAIN nodes /\ nodes'[n] = nodes[n] /\ m \in DOMAIN nodes'
         /\ MarginOk(n, m) => MarginOk(n, m)'
         /\ GapOk(n, m) => GapOk(n, m)'
<1>1. DOMAIN nodes = 1 .. Len(nodes)
  BY LenProperties DEF TableOk, IsSequence
<1>2. n \in DOMAIN nodes /\ nodes[n].a \in DOMAIN nodes
  <2>1. n \in 1 .. given /\ nodes[n].a \in 1 .. (n - 1)
    BY DEF TableOk, SelectsUpTo
  <2> QED BY <1>1, <2>1 DEF TableOk
<1>3. nodes'[n] = nodes[n] /\ nodes'[nodes[n].a] = nodes[nodes[n].a] /\ nodes'[m] = nodes[m]
  BY <1>2
<1> QED BY <1>2, <1>3 DEF MarginOk, GapOk, Export!Sub

(* The rows there are stay good while nodes are only added.                *)
LEMMA RowsKept ==
  ASSUME TableOk, RowsOk, i \in 1 .. (given + 1),
         \A n \in DOMAIN nodes : n \in DOMAIN nodes' /\ nodes'[n] = nodes[n],
         1 .. given \subseteq DOMAIN nodes,
         cap' = room' => cap = room, i' = i, outs' = outs, selects' = selects
  PROVE  RowsOk'
<1>1. SelectsUpTo(i - 1)' = SelectsUpTo(i - 1) /\ SelectsUpTo(i - 1) \subseteq SelectsUpTo(given)
  <2>1. 1 .. (i - 1) \subseteq 1 .. given
    BY DEF TableOk
  <2> QED BY <2>1 DEF SelectsUpTo
<1>2. ASSUME NEW s \in DOMAIN selects PROVE ExportedRow(s)'
  <2>1. ExportedRow(s)
    BY DEF RowsOk
  <2>2. PICK n, d, m, g : /\ n = selects[s].select /\ d = outs[3 * s - 2]
                          /\ m = outs[3 * s - 1] /\ g = outs[3 * s]
    OBVIOUS
  <2>3. n \in SelectsUpTo(given) /\ {d, m, g} \subseteq DOMAIN nodes
    BY <1>1, <2>1, <2>2 DEF ExportedRow
  <2>4. /\ nodes'[n] = nodes[n] /\ {d, m, g} \subseteq DOMAIN nodes'
        /\ MarginOk(n, m) => MarginOk(n, m)'
        /\ GapOk(n, g) => GapOk(n, g)'
    BY <2>3, MarginKept
  <2>5. /\ MarginOk(n, m)
        /\ cap = room => d = nodes[n].a /\ GapOk(n, g)
    BY <2>1, <2>2 DEF ExportedRow
  <2>6. /\ MarginOk(n, m)'
        /\ cap' = room' => d = nodes'[n].a /\ GapOk(n, g)'
    BY <2>4, <2>5
  <2>7. /\ selects'[s].select = n /\ outs'[3 * s - 2] = d /\ outs'[3 * s - 1] = m /\ outs'[3 * s] = g
    BY <2>2
  <2>8. /\ MarginOk(selects[s].select, outs[3 * s - 1])'
        /\ cap' = room' => GapOk(selects[s].select, outs[3 * s])'
    BY <2>6, <2>7 DEF MarginOk, GapOk, Export!Sub
  <2> QED BY <1>1, <2>1, <2>4, <2>6, <2>7, <2>8 DEF ExportedRow
<1> QED BY <1>1, <1>2 DEF RowsOk

LEMMA InitExport == Export!Init => TableOk /\ AtHand /\ RowsOk
<1> SUFFICES ASSUME Export!Init PROVE TableOk /\ AtHand /\ RowsOk
  OBVIOUS
<1>1. IsSequence(nodes) /\ Export!Validated(nodes)
  BY RecordedAssumption DEF Export!Init, Export!Validated, IsSequence
<1>2. Len(nodes) \in Nat /\ DOMAIN nodes = 1 .. Len(nodes)
  BY <1>1, LenProperties DEF IsSequence
<1>3. PICK n \in Spare : room = Len(nodes) + n
  BY DEF Export!Init
<1>4. n \in Nat
  BY <1>3, ReadersAssumption
<1>5. TableOk
  <2>1. given = Len(nodes) /\ cap = room /\ fresh = TRUE
    BY DEF Export!Init
  <2>2. given <= room /\ room \in Nat /\ Len(nodes) <= cap /\ given <= Len(nodes) /\ room <= cap
    BY <1>2, <1>3, <1>4, <2>1
  <2>3. \A x \in SelectsUpTo(given) : {nodes[x].a, nodes[x].b, nodes[x].c} \subseteq 1 .. (x - 1)
    BY <1>1, <1>2, <2>1 DEF SelectsUpTo, Export!Validated
  <2> QED BY <1>1, <1>2, <2>1, <2>2, <2>3 DEF TableOk
<1>6. AtHand
  BY <1>2 DEF Export!Init, AtHand
<1>7. RowsOk
  <2>1. selects = <<>> /\ outs = <<>> /\ i = 1
    BY DEF Export!Init
  <2>2. SelectsUpTo(i - 1) = {}
    BY <2>1 DEF SelectsUpTo
  <2> QED BY <2>1, <2>2 DEF RowsOk, IsSequence
<1> QED BY <1>5, <1>6, <1>7

(* What is read through a reference while the table has not moved.         *)
LEMMA SkipExport ==
  ASSUME TableOk, AtHand, RowsOk, Export!SkipNode PROVE TableOk' /\ AtHand' /\ RowsOk'
<1>1. /\ exportPc = "loop" /\ i <= given /\ nodes[i].op # "Select" /\ i' = i + 1 /\ fresh' = TRUE
      /\ UNCHANGED <<nodes, cap, outs, exportPc, given, room, margin, gap, selects>>
  BY DEF Export!SkipNode, Export!Next_i
<1>2. TableOk'
  BY <1>1 DEF TableOk, SelectsUpTo
<1>3. AtHand'
  BY <1>1 DEF AtHand, TableOk
<1>4. SelectsUpTo(i - 1)' = SelectsUpTo(i - 1)
  <2>1. PICK n : n = i
    OBVIOUS
  <2>2. n \in Nat /\ n >= 1 /\ i' - 1 = n
    BY <1>1, <2>1 DEF AtHand, TableOk
  <2>3. \A x : x \in 1 .. n <=> x \in 1 .. (n - 1) \/ x = n
    BY <2>2
  <2> QED BY <1>1, <2>1, <2>2, <2>3 DEF SelectsUpTo
<1>5. ASSUME NEW s \in DOMAIN selects PROVE ExportedRow(s)'
  <2>1. ExportedRow(s)
    BY DEF RowsOk
  <2>2. MarginOk(selects[s].select, outs[3 * s - 1])'
    BY <1>1, <2>1 DEF ExportedRow, MarginOk, Export!Sub
  <2>3. GapOk(selects[s].select, outs[3 * s])' <=> GapOk(selects[s].select, outs[3 * s])
    BY <1>1 DEF GapOk, Export!Sub
  <2> QED BY <1>1, <1>4, <2>1, <2>2, <2>3 DEF ExportedRow
<1> QED BY <1>1, <1>2, <1>3, <1>4, <1>5 DEF RowsOk

LEMMA MarginExport ==
  ASSUME TableOk, AtHand, RowsOk, Export!AppendMargin PROVE TableOk' /\ AtHand' /\ RowsOk'
<1> DEFINE p == nodes[nodes[i].a]
<1>1. /\ exportPc = "loop" /\ i <= given /\ nodes[i].op = "Select" /\ exportPc' = "gap"
      /\ UNCHANGED <<outs, i, given, room, gap, selects>>
  BY DEF Export!AppendMargin
<1>2. /\ i \in SelectsUpTo(given) /\ room >= 1 /\ i \in Nat
  BY <1>1 DEF AtHand, TableOk, SelectsUpTo
<1>3. nodes[i].a \in DOMAIN nodes
  <2>1. DOMAIN nodes = 1 .. Len(nodes)
    BY LenProperties DEF TableOk, IsSequence
  <2>2. nodes[i].a \in 1 .. (i - 1)
    BY <1>2 DEF TableOk
  <2> QED BY <1>1, <1>2, <2>1, <2>2 DEF TableOk
<1>a. PICK n : n = i
  OBVIOUS
<1>4. CASE p.op \in Export!Compares
  <2>1. Export!Push(Export!MarginOf(p)) /\ margin' = Len(nodes) + 1
    BY <1>4 DEF Export!AppendMargin
  <2>2. PICK e : e = Export!MarginOf(p)
    OBVIOUS
  <2>3. /\ TableOk'
        /\ cap' = room' => cap = room
        /\ \A x \in DOMAIN nodes : x \in DOMAIN nodes' /\ nodes'[x] = nodes[x]
        /\ Len(nodes) + 1 \in DOMAIN nodes' /\ nodes'[Len(nodes) + 1] = e
        /\ 1 .. given \subseteq DOMAIN nodes
    BY <1>1, <1>2, <2>1, <2>2, Pushed
  <2>4. RowsOk'
    <3>1. i \in 1 .. (given + 1) /\ UNCHANGED <<i, outs, selects>>
      BY <1>1 DEF AtHand
    <3> QED BY <2>3, <3>1, RowsKept
  <2>5. nodes'[margin'] = e /\ margin' \in DOMAIN nodes'
    BY <2>1, <2>3
  <2>6. nodes'[i] = nodes[i] /\ nodes'[nodes[i].a] = p
    BY <1>2, <1>3, <2>3 DEF SelectsUpTo
  <2>7. MarginOk(i, margin)'
    BY <1>1, <1>4, <2>2, <2>5, <2>6 DEF MarginOk, Export!MarginOf, Export!Sub, Export!Compares, Export!Node
  <2>8. SelectsUpTo(given)' = SelectsUpTo(given)
    BY <1>1, <2>3 DEF SelectsUpTo
  <2>9. i' \in SelectsUpTo(given)' /\ i' \in 1 .. (given' + 1)
    BY <1>1, <1>2, <2>8 DEF AtHand
  <2> QED BY <1>1, <2>3, <2>4, <2>5, <2>7, <2>9 DEF AtHand
<1>5. CASE p.op \notin Export!Compares
  <2>1. UNCHANGED <<nodes, cap, fresh>> /\ margin' = nodes[i].a
    BY <1>5 DEF Export!AppendMargin
  <2>2. TableOk'
    BY <1>1, <2>1 DEF TableOk, SelectsUpTo
  <2>3. MarginOk(i, margin)'
    BY <1>1, <1>5, <2>1 DEF MarginOk, Export!Compares
  <2>4. RowsOk'
    <3>1. \A x \in DOMAIN nodes : x \in DOMAIN nodes' /\ nodes'[x] = nodes[x]
      BY <2>1
    <3>2. 1 .. given \subseteq DOMAIN nodes
      BY LenProperties DEF TableOk, IsSequence
    <3> QED BY <1>1, <2>1, <3>1, <3>2, RowsKept DEF AtHand
  <2>5. SelectsUpTo(given)' = SelectsUpTo(given)
    BY <1>1, <2>1 DEF SelectsUpTo
  <2> QED BY <1>1, <1>2, <1>3, <2>1, <2>2, <2>3, <2>4, <2>5 DEF AtHand
<1> QED BY <1>4, <1>5

LEMMA GapExport ==
  ASSUME TableOk, AtHand, RowsOk, Export!AppendGap PROVE TableOk' /\ AtHand' /\ RowsOk'
<1>1. /\ exportPc = "gap" /\ UNCHANGED <<outs, i, given, room, margin, selects>>
  BY DEF Export!AppendGap
<1>2. /\ i \in SelectsUpTo(given) /\ room >= 1 /\ i \in Nat /\ margin \in DOMAIN nodes /\ MarginOk(i, margin)
  BY <1>1 DEF AtHand, TableOk, SelectsUpTo
<1>3. DOMAIN nodes = 1 .. Len(nodes) /\ {nodes[i].b, nodes[i].c} \subseteq DOMAIN nodes
  <2>1. DOMAIN nodes = 1 .. Len(nodes)
    BY LenProperties DEF TableOk, IsSequence
  <2>2. nodes[i].b \in 1 .. (i - 1) /\ nodes[i].c \in 1 .. (i - 1) /\ i <= given
    BY <1>2 DEF TableOk, SelectsUpTo
  <2> QED BY <1>2, <2>1, <2>2 DEF TableOk
<1>4. PICK x \in Export!Read("b"), y \in Export!Read("c") :
        IF x \in DOMAIN nodes /\ y \in DOMAIN nodes
        THEN Export!Push(Export!GapOf(x, y)) /\ gap' = Len(nodes) + 1 /\ exportPc' = "outputs"
        ELSE exportPc' = "failed" /\ UNCHANGED <<nodes, cap, fresh, gap>>
  BY DEF Export!AppendGap
<1>5. cap = room => x = nodes[i].b /\ y = nodes[i].c
  BY DEF TableOk, Export!Read
<1>6. CASE x \in DOMAIN nodes /\ y \in DOMAIN nodes
  <2>1. Export!Push(Export!GapOf(x, y)) /\ gap' = Len(nodes) + 1 /\ exportPc' = "outputs"
    BY <1>4, <1>6
  <2>2. PICK e : e = Export!GapOf(x, y)
    OBVIOUS
  <2>3. /\ TableOk'
        /\ cap' = room' => cap = room
        /\ \A z \in DOMAIN nodes : z \in DOMAIN nodes' /\ nodes'[z] = nodes[z]
        /\ Len(nodes) + 1 \in DOMAIN nodes' /\ nodes'[Len(nodes) + 1] = e
        /\ 1 .. given \subseteq DOMAIN nodes
    BY <1>1, <1>2, <2>1, <2>2, Pushed
  <2>4. RowsOk'
    <3>1. i \in 1 .. (given + 1) /\ UNCHANGED <<i, outs, selects>>
      BY <1>1 DEF AtHand
    <3> QED BY <2>3, <3>1, RowsKept
  <2>5. nodes'[gap'] = e /\ gap' \in DOMAIN nodes'
    BY <2>1, <2>3
  <2>6. PICK n, m : n = i /\ m = margin
    OBVIOUS
  <2>7. nodes'[n] = nodes[n] /\ m \in DOMAIN nodes' /\ MarginOk(n, m)'
    BY <1>2, <2>3, <2>6, MarginKept DEF MarginOk
  <2>8. MarginOk(i, margin)'
    BY <1>1, <2>6, <2>7 DEF MarginOk, Export!Sub
  <2>9. cap' = room' => GapOk(i, gap)'
    <3>1. e.op = "Sub" /\ e.a = x /\ e.b = y
      BY <2>2 DEF Export!GapOf, Export!Node
    <3>2. nodes'[i'] = nodes[i]
      BY <1>1, <2>6, <2>7
    <3> QED BY <1>5, <2>3, <2>5, <3>1, <3>2 DEF GapOk, Export!Sub
  <2>10. SelectsUpTo(given)' = SelectsUpTo(given)
    BY <1>1, <2>3 DEF SelectsUpTo
  <2>11. i' \in SelectsUpTo(given)' /\ i' \in 1 .. (given' + 1) /\ margin' \in DOMAIN nodes'
    BY <1>1, <1>2, <2>6, <2>7, <2>10 DEF AtHand
  <2> QED BY <2>1, <2>3, <2>4, <2>5, <2>8, <2>9, <2>11 DEF AtHand
<1>7. CASE ~(x \in DOMAIN nodes /\ y \in DOMAIN nodes)
  <2>1. exportPc' = "failed" /\ UNCHANGED <<nodes, cap, fresh, gap>>
    BY <1>4, <1>7
  <2>2. cap # room
    BY <1>3, <1>5, <1>7
  <2>3. TableOk'
    BY <1>1, <2>1 DEF TableOk, SelectsUpTo
  <2>4. RowsOk'
    <3>1. \A z \in DOMAIN nodes : z \in DOMAIN nodes' /\ nodes'[z] = nodes[z]
      BY <2>1
    <3>2. 1 .. given \subseteq DOMAIN nodes
      BY <1>3 DEF TableOk
    <3> QED BY <1>1, <2>1, <3>1, <3>2, RowsKept DEF AtHand
  <2> QED BY <1>1, <2>1, <2>2, <2>3, <2>4 DEF AtHand
<1> QED BY <1>6, <1>7

WithThree(s, u, v, w) == s \o <<u, v, w>>

LEMMA ThreeMore ==
  ASSUME NEW s, IsSequence(s), NEW u, NEW v, NEW w
  PROVE  /\ IsSequence(WithThree(s, u, v, w)) /\ Len(WithThree(s, u, v, w)) = Len(s) + 3
         /\ \A x \in 1 .. Len(s) : WithThree(s, u, v, w)[x] = s[x]
         /\ WithThree(s, u, v, w)[Len(s) + 1] = u /\ WithThree(s, u, v, w)[Len(s) + 2] = v
         /\ WithThree(s, u, v, w)[Len(s) + 3] = w
<1> DEFINE S == {s[x] : x \in DOMAIN s} \cup {u, v, w}
           t == s \o <<u, v, w>>
<1>1. Len(s) \in Nat /\ DOMAIN s = 1 .. Len(s) /\ s \in Seq({s[x] : x \in DOMAIN s})
  BY LenProperties DEF IsSequence
<1>2. s \in Seq(S) /\ <<u, v, w>> \in Seq(S) /\ Len(<<u, v, w>>) = 3
  <2>1. s \in [1 .. Len(s) -> S]
    BY <1>1
  <2>2. s \in Seq(S)
    BY <1>1, <2>1
  <2> QED BY <2>2
<1>3. t \in Seq(S)
  BY <1>2
<1>4. /\ Len(t) = Len(s) + 3 /\ \A x \in 1 .. Len(s) : t[x] = s[x]
      /\ t[Len(s) + 1] = u /\ t[Len(s) + 2] = v /\ t[Len(s) + 3] = w
  BY <1>1, <1>2
<1>5. IsSequence(t)
  <2> HIDE DEF t
  <2>1. Len(t) \in Nat /\ t = [x \in 1 .. Len(t) |-> t[x]]
    BY <1>3, LenProperties
  <2> QED BY <2>1, FunctionIsSequence
<1> QED BY <1>4, <1>5 DEF WithThree

(* The Select at hand gets its row, and its outputs behind all there were. *)
LEMMA RegisterExport ==
  ASSUME TableOk, AtHand, RowsOk, Export!RegisterOutputs PROVE TableOk' /\ AtHand' /\ RowsOk'
<1>1. exportPc = "outputs" /\ UNCHANGED <<nodes, cap, given, room, margin, gap>>
  BY DEF Export!RegisterOutputs
<1>2. PICK d \in Export!Read("a") :
        IF d \in DOMAIN nodes
        THEN /\ outs' = outs \o <<d, margin, gap>>
             /\ selects' = Append(selects, [select |-> i, mask |-> Len(outs) + 1,
                                            margin |-> Len(outs) + 2, gap |-> Len(outs) + 3])
             /\ exportPc' = "loop" /\ i' = i + 1 /\ fresh' = TRUE
        ELSE exportPc' = "failed" /\ UNCHANGED <<outs, selects, i, fresh>>
  BY DEF Export!RegisterOutputs, Export!Next_i
<1>3. PICK n, m, g : n = i /\ m = margin /\ g = gap
  OBVIOUS
<1>4. /\ n \in SelectsUpTo(given) /\ n \in Nat /\ n >= 1 /\ n <= given
      /\ m \in DOMAIN nodes /\ g \in DOMAIN nodes
      /\ MarginOk(n, m)
      /\ cap = room => GapOk(n, g)
  BY <1>1, <1>3 DEF AtHand, TableOk, SelectsUpTo
<1>5. cap = room => d = nodes[n].a
  BY <1>2, <1>3 DEF TableOk, Export!Read
<1>6. DOMAIN nodes = 1 .. Len(nodes) /\ nodes[n].a \in DOMAIN nodes
  <2>1. DOMAIN nodes = 1 .. Len(nodes)
    BY LenProperties DEF TableOk, IsSequence
  <2>2. nodes[n].a \in 1 .. (n - 1) /\ n <= given
    BY <1>4 DEF TableOk, SelectsUpTo
  <2> QED BY <1>4, <2>1, <2>2 DEF TableOk
<1>7. SelectsUpTo(given)' = SelectsUpTo(given)
  BY <1>1 DEF SelectsUpTo
<1>8. ASSUME NEW x, NEW y PROVE (MarginOk(x, y)' <=> MarginOk(x, y)) /\ (GapOk(x, y)' <=> GapOk(x, y))
  BY <1>1 DEF MarginOk, GapOk, Export!Sub
<1>9. CASE d \in DOMAIN nodes
  <2>a. PICK last, new :
          /\ last = Len(selects) + 1
          /\ new = [select |-> n, mask |-> Len(outs) + 1, margin |-> Len(outs) + 2, gap |-> Len(outs) + 3]
    OBVIOUS
  <2>1. /\ outs' = outs \o <<d, m, g>> /\ selects' = Append(selects, new)
        /\ exportPc' = "loop" /\ i' = n + 1 /\ fresh' = TRUE
    BY <1>2, <1>3, <1>9, <2>a
  <2>2. /\ IsSequence(outs') /\ Len(outs') = Len(outs) + 3
        /\ \A x \in 1 .. Len(outs) : outs'[x] = outs[x]
        /\ outs'[Len(outs) + 1] = d /\ outs'[Len(outs) + 2] = m /\ outs'[Len(outs) + 3] = g
    <3>1. IsSequence(outs) /\ outs' = WithThree(outs, d, m, g)
      BY <2>1 DEF RowsOk, WithThree
    <3> QED BY <3>1, ThreeMore
  <2>3. /\ Len(selects) \in Nat /\ DOMAIN selects = 1 .. Len(selects)
        /\ IsSequence(selects') /\ Len(selects') = last /\ DOMAIN selects' = 1 .. last
        /\ \A x \in 1 .. Len(selects) : selects'[x] = selects[x]
        /\ selects'[last] = new
    BY <2>a, <2>1, AppendSequence DEF RowsOk
  <2>4. Len(outs) = 3 * Len(selects) /\ Len(outs') = 3 * last
    BY <2>a, <2>2, <2>3 DEF RowsOk
  <2>5. new.select = n /\ new.mask = 3 * last - 2 /\ new.margin = 3 * last - 1 /\ new.gap = 3 * last
    BY <2>a, <2>3, <2>4
  <2>6. /\ SelectsUpTo(i - 1)' = SelectsUpTo(n - 1) \cup {n}
        /\ n \notin SelectsUpTo(n - 1)
    <3>1. i' - 1 = n /\ n \in 1 .. n /\ nodes[n].op = "Select"
      BY <1>4, <2>1 DEF SelectsUpTo
    <3>2. \A x : x \in 1 .. n <=> x \in 1 .. (n - 1) \/ x = n
      BY <1>4
    <3> QED BY <1>1, <1>4, <3>1, <3>2 DEF SelectsUpTo
  <2>7. ASSUME NEW s \in 1 .. Len(selects) PROVE ExportedRow(s)'
    <3>1. ExportedRow(s) /\ s \in Nat /\ s >= 1 /\ s <= Len(selects)
      BY <2>3 DEF RowsOk
    <3>2. PICK q, x, y, z : /\ q = selects[s].select /\ x = outs[3 * s - 2]
                            /\ y = outs[3 * s - 1] /\ z = outs[3 * s]
      OBVIOUS
    <3>3. {3 * s - 2, 3 * s - 1, 3 * s} \subseteq 1 .. Len(outs)
      BY <2>3, <2>4, <3>1
    <3>4. /\ selects'[s] = selects[s]
          /\ outs'[3 * s - 2] = x /\ outs'[3 * s - 1] = y /\ outs'[3 * s] = z
      BY <2>2, <2>3, <3>2, <3>3
    <3>5. \A r \in 1 .. (s - 1) : selects'[r] = selects[r]
      BY <2>3, <3>1
    <3>6. /\ MarginOk(q, y)
          /\ cap = room => x = nodes[q].a /\ GapOk(q, z)
          /\ {x, y, z} \subseteq DOMAIN nodes
          /\ q \in SelectsUpTo(n - 1)
      BY <1>3, <3>1, <3>2 DEF ExportedRow
    <3>7. MarginOk(q, y)' /\ (cap = room => x = nodes[q].a /\ GapOk(q, z)')
      BY <1>8, <3>6
    <3>8. MarginOk(selects[s].select, outs[3 * s - 1])'
      BY <3>2, <3>4, <3>7 DEF MarginOk, Export!Sub
    <3>9. cap = room => GapOk(selects[s].select, outs[3 * s])'
      BY <3>2, <3>4, <3>7 DEF GapOk, Export!Sub
    <3> QED BY <1>1, <2>6, <3>1, <3>2, <3>4, <3>5, <3>6, <3>8, <3>9 DEF ExportedRow
  <2>8. ExportedRow(last)'
    <3>1. /\ outs'[3 * last - 2] = d /\ outs'[3 * last - 1] = m /\ outs'[3 * last] = g
      <4>1. /\ 3 * last - 2 = Len(outs) + 1 /\ 3 * last - 1 = Len(outs) + 2 /\ 3 * last = Len(outs) + 3
        BY <2>a, <2>3, <2>4
      <4> QED BY <2>2, <4>1
    <3>2. \A r \in 1 .. (last - 1) : selects'[r].select < n
      <4>1. ASSUME NEW r \in 1 .. (last - 1) PROVE selects'[r].select < n
        <5>1. r \in 1 .. Len(selects)
          BY <2>a, <2>3
        <5>2. selects'[r] = selects[r] /\ selects[r].select \in SelectsUpTo(n - 1)
          BY <1>3, <2>3, <5>1 DEF RowsOk, ExportedRow
        <5> QED BY <1>4, <5>2 DEF SelectsUpTo
      <4> QED BY <4>1
    <3>3. MarginOk(n, m)' /\ (cap = room => GapOk(n, g)')
      BY <1>4, <1>8
    <3>4. selects'[last].select = n
      BY <2>3, <2>5
    <3>5. MarginOk(selects[last].select, outs[3 * last - 1])'
      BY <3>1, <3>3, <3>4 DEF MarginOk, Export!Sub
    <3>6. cap = room => GapOk(selects[last].select, outs[3 * last])'
      BY <3>1, <3>3, <3>4 DEF GapOk, Export!Sub
    <3>7. n \in SelectsUpTo(i - 1)'
      BY <2>6
    <3> QED BY <1>1, <1>4, <1>5, <1>9, <2>3, <2>5, <3>1, <3>2, <3>4, <3>5, <3>6, <3>7 DEF ExportedRow
  <2>9. {selects'[s].select : s \in DOMAIN selects'} = SelectsUpTo(n - 1) \cup {n}
    <3>1. {selects[s].select : s \in DOMAIN selects} = SelectsUpTo(n - 1)
      BY <1>3 DEF RowsOk
    <3>2. \A s : s \in 1 .. last <=> s \in 1 .. Len(selects) \/ s = last
      BY <2>a, <2>3
    <3>3. selects'[last].select = n
      BY <2>3, <2>5
    <3> QED BY <2>3, <3>1, <3>2, <3>3
  <2>10. RowsOk'
    <3>1. \A s \in 1 .. last : s \in 1 .. Len(selects) \/ s = last
      BY <2>a, <2>3
    <3>2. \A s \in DOMAIN selects' : ExportedRow(s)'
      BY <2>3, <2>7, <2>8, <3>1
    <3> QED BY <2>2, <2>3, <2>4, <2>6, <2>9, <3>2 DEF RowsOk
  <2>11. TableOk'
    BY <1>1, <1>7, <2>1 DEF TableOk
  <2>12. AtHand'
    BY <1>1, <1>4, <2>1 DEF AtHand, TableOk
  <2> QED BY <2>10, <2>11, <2>12
<1>10. CASE d \notin DOMAIN nodes
  <2>1. exportPc' = "failed" /\ UNCHANGED <<outs, selects, i, fresh>>
    BY <1>2, <1>10
  <2>2. cap # room
    BY <1>5, <1>6, <1>10
  <2>3. TableOk'
    BY <1>1, <1>7, <2>1 DEF TableOk
  <2>4. RowsOk'
    <3>1. \A z \in DOMAIN nodes : z \in DOMAIN nodes' /\ nodes'[z] = nodes[z]
      BY <1>1
    <3>2. 1 .. given \subseteq DOMAIN nodes /\ i \in 1 .. (given + 1)
      BY <1>6 DEF TableOk, AtHand
    <3> QED BY <1>1, <2>1, <3>1, <3>2, RowsKept
  <2> QED BY <1>1, <2>1, <2>2, <2>3, <2>4 DEF AtHand
<1> QED BY <1>9, <1>10

LEMMA ReturnExport ==
  ASSUME TableOk, AtHand, RowsOk, Export!Return PROVE TableOk' /\ AtHand' /\ RowsOk'
<1>1. /\ exportPc = "loop" /\ i > given /\ exportPc' = "done"
      /\ UNCHANGED <<nodes, cap, outs, i, given, room, fresh, margin, gap, selects>>
  BY DEF Export!Return
<1>2. TableOk'
  BY <1>1 DEF TableOk, SelectsUpTo
<1>3. AtHand'
  BY <1>1 DEF AtHand, TableOk
<1>4. RowsOk'
  <2>1. \A z \in DOMAIN nodes : z \in DOMAIN nodes' /\ nodes'[z] = nodes[z]
    BY <1>1
  <2>2. 1 .. given \subseteq DOMAIN nodes /\ i \in 1 .. (given + 1)
    BY LenProperties DEF TableOk, AtHand, IsSequence
  <2> QED BY <1>1, <2>1, <2>2, RowsKept
<1> QED BY <1>2, <1>3, <1>4

LEMMA ExportNextInv == ExportInv /\ [Next]_vars => ExportInv'
<1> SUFFICES ASSUME ExportInv, [Next]_vars PROVE ExportInv'
  OBVIOUS
<1>1. CASE UNCHANGED exportVars
  <2>1. UNCHANGED <<nodes, cap, outs, exportPc, i, given, room, fresh, margin, gap, selects>>
    BY <1>1 DEF exportVars
  <2>2. /\ \A l : SelectsUpTo(l)' = SelectsUpTo(l)
        /\ \A n, m : (MarginOk(n, m)' <=> MarginOk(n, m)) /\ (GapOk(n, m)' <=> GapOk(n, m))
    BY <2>1 DEF SelectsUpTo, MarginOk, GapOk, Export!Sub
  <2>3. TableOk' <=> TableOk
    BY <2>1, <2>2 DEF TableOk
  <2>4. AtHand' <=> AtHand
    BY <2>1 DEF AtHand, SelectsUpTo, MarginOk, GapOk, Export!Sub
  <2>5. \A s : ExportedRow(s)' <=> ExportedRow(s)
    BY <2>1 DEF ExportedRow, SelectsUpTo, MarginOk, GapOk, Export!Sub
  <2>6. RowsOk' <=> RowsOk
    BY <2>1, <2>5 DEF RowsOk, SelectsUpTo
  <2> QED BY <2>1, <2>3, <2>4, <2>6 DEF ExportInv
<1>2. CASE Export!Next
  <2>1. TableOk /\ AtHand /\ RowsOk
    BY <1>2 DEF ExportInv, Export!Next, Export!SkipNode, Export!AppendMargin, Export!AppendGap,
                Export!RegisterOutputs, Export!Return
  <2>2. TableOk' /\ AtHand' /\ RowsOk'
    BY <1>2, <2>1, SkipExport, MarginExport, GapExport, RegisterExport, ReturnExport DEF Export!Next
  <2> QED BY <2>2 DEF ExportInv
<1>3. UNCHANGED exportVars \/ Export!Next
  BY DEF Next, Read, vars
<1> QED BY <1>1, <1>2, <1>3

(* Every Select recorded before the call, and no other node, has its three *)
(* outputs, in tape order; its margin is that of its predicate, for any    *)
(* tape; and its gap and mask are its own, and the call does not fail, as  *)
(* long as the node table has not moved.                                   *)
THEOREM ExportsCorrect == Spec => []ExportsAreOfTheirSelects
<1> DEFINE Inv == ExportInv /\ (exportPc = "idle" => selects = <<>>)
<1>1. Init => Inv
  BY InitExport DEF Init, NoExport, ExportInv, Export!Init
<1>2. Inv /\ [Next]_vars => Inv'
  <2> SUFFICES ASSUME Inv, [Next]_vars PROVE Inv'
    OBVIOUS
  <2>1. ExportInv'
    BY ExportNextInv
  <2>2. UNCHANGED exportVars \/ Export!Next
    BY DEF Next, Read, vars
  <2>3. CASE UNCHANGED exportVars
    BY <2>1, <2>3 DEF exportVars
  <2>4. CASE Export!Next
    <3>1. exportPc' # "idle"
      BY <2>4 DEF Export!Next, Export!SkipNode, Export!AppendMargin, Export!AppendGap,
                  Export!RegisterOutputs, Export!Return
    <3> QED BY <2>1, <3>1
  <2> QED BY <2>2, <2>3, <2>4
<1>3. Inv => ExportsAreOfTheirSelects
  <2> SUFFICES ASSUME Inv PROVE ExportsAreOfTheirSelects
    OBVIOUS
  <2>1. CASE exportPc = "idle"
    <3>1. selects = <<>> /\ DOMAIN selects = {}
      BY <2>1
    <3> QED BY <2>1, <3>1 DEF ExportsAreOfTheirSelects, Export!ExportsAreOfTheirSelects,
                              Export!MarginIsOfPredicate, Export!GapIsOfArms
  <2>2. CASE TableOk /\ AtHand /\ RowsOk
    <3>1. exportPc = "done" => {selects[s].select : s \in DOMAIN selects}
                               = {n \in 1 .. given : nodes[n].op = "Select"}
      <4>1. exportPc = "done" => i - 1 = given
        BY <2>2 DEF AtHand, TableOk
      <4> QED BY <2>2, <4>1 DEF RowsOk, SelectsUpTo
    <3>2. ASSUME NEW s \in DOMAIN selects
          PROVE  /\ selects[s].mask = 3 * s - 2 /\ selects[s].gap = 3 * s
                 /\ \A r \in 1 .. (s - 1) : selects[r].select < selects[s].select
                 /\ MarginOk(selects[s].select, outs[selects[s].margin])
                 /\ cap = room => /\ outs[selects[s].mask] = nodes[selects[s].select].a
                                  /\ GapOk(selects[s].select, outs[selects[s].gap])
      BY <2>2 DEF RowsOk, ExportedRow
    <3>3. Export!MarginIsOfPredicate
      BY <3>1, <3>2 DEF Export!MarginIsOfPredicate, MarginOk
    <3>4. cap = room => exportPc # "failed" /\ Export!GapIsOfArms
      BY <2>2, <3>2 DEF Export!GapIsOfArms, GapOk, AtHand
    <3> QED BY <3>3, <3>4 DEF ExportsAreOfTheirSelects, Export!ExportsAreOfTheirSelects
  <2> QED BY <2>1, <2>2 DEF ExportInv
<1> QED BY <1>1, <1>2, <1>3, PTL DEF Spec

------------------------------------------------------------------------------
(* The tape a slice is cut from.                                           *)

(* Nodes read nodes before them, and the inputs have their ordinals in     *)
(* tape order.                                                             *)
InOrder(t) ==
  /\ IsSequence(t)
  /\ \A n \in DOMAIN t : /\ t[n] = Export!Node(t[n].op, t[n].a, t[n].b, t[n].c)
                         /\ Slicing!Operands(t[n]) \subseteq 1 .. (n - 1)
                         /\ t[n].op = "Input" => t[n].a \in Nat
  /\ \A m, n \in DOMAIN t : t[m].op = "Input" /\ t[n].op = "Input" /\ m < n => t[m].a < t[n].a

NodesInOrder == exportPc = "idle" \/ InOrder(nodes)

LEMMA CardinalityExported == \A S : Export!Cardinality(S) = Cardinality(S)
BY DEF Cardinality, Export!Cardinality

LEMMA SequenceShape ==
  ASSUME NEW s, IsSequence(s) PROVE Len(s) \in Nat /\ DOMAIN s = 1 .. Len(s)
BY LenProperties DEF IsSequence

LEMMA ValidatedInOrder == ASSUME NEW t, Export!Validated(t) PROVE InOrder(t)
<1> DEFINE upTo(n) == {m \in 1 .. n : t[m].op = "Input"}
<1>1. IsSequence(t)
  BY DEF Export!Validated, IsSequence
<1>2. DOMAIN t = 1 .. Len(t) /\ Len(t) \in Nat
  BY <1>1, SequenceShape
<1>3. ASSUME NEW n \in Nat PROVE IsFiniteSet(upTo(n)) /\ Cardinality(upTo(n)) \in Nat
  <2>1. IsFiniteSet(1 .. n) /\ upTo(n) \subseteq 1 .. n
    BY FS_Interval
  <2> QED BY <2>1, FS_Subset, FS_CardinalityType
<1>4. ASSUME NEW n \in DOMAIN t, t[n].op = "Input" PROVE t[n].a = Cardinality(upTo(n))
  BY <1>4, CardinalityExported DEF Export!Validated
<1>5. ASSUME NEW n \in DOMAIN t
      PROVE  t[n] = Export!Node(t[n].op, t[n].a, t[n].b, t[n].c)
             /\ Slicing!Operands(t[n]) \subseteq 1 .. (n - 1)
  BY DEF Export!Validated, Slicing!Operands, Slicing!Unset, Export!Unset
<1>6. ASSUME NEW m \in DOMAIN t, NEW n \in DOMAIN t, t[m].op = "Input", t[n].op = "Input", m < n
      PROVE  t[m].a < t[n].a
  <2>1. upTo(m) \subseteq upTo(n) /\ n \in upTo(n) /\ n \notin upTo(m) /\ m \in Nat /\ n \in Nat
    BY <1>2, <1>6
  <2>2. Cardinality(upTo(m)) < Cardinality(upTo(n))
    <3> HIDE DEF upTo
    <3>1. Cardinality(upTo(m)) <= Cardinality(upTo(n))
          /\ (Cardinality(upTo(n)) = Cardinality(upTo(m)) => upTo(m) = upTo(n))
      BY <1>3, <2>1, FS_Subset
    <3>2. upTo(m) # upTo(n)
      BY <2>1
    <3> QED BY <1>3, <2>1, <3>1, <3>2
  <2> QED BY <1>4, <1>6, <2>2
<1>7. ASSUME NEW n \in DOMAIN t, t[n].op = "Input" PROVE t[n].a \in Nat
  <2>1. n \in Nat
    BY <1>2
  <2>2. Cardinality(upTo(n)) \in Nat
    BY <1>3, <2>1
  <2>3. t[n].a = Cardinality(upTo(n))
    BY <1>4, <1>7
  <2> QED BY <2>2, <2>3
<1> HIDE DEF upTo
<1> QED BY <1>1, <1>5, <1>6, <1>7 DEF InOrder

(* A subtraction of nodes of the tape can be put at its end.               *)
LEMMA InOrderAppend ==
  ASSUME NEW t, InOrder(t), NEW e, NEW x, NEW y, e = Export!Node("Sub", x, y, Export!Unset),
         {x, y} \ {Export!Unset} \subseteq DOMAIN t
  PROVE  InOrder(Append(t, e))
<1>1. /\ Len(t) \in Nat /\ DOMAIN t = 1 .. Len(t)
      /\ IsSequence(Append(t, e)) /\ DOMAIN Append(t, e) = 1 .. (Len(t) + 1)
      /\ \A n \in 1 .. Len(t) : Append(t, e)[n] = t[n]
      /\ Append(t, e)[Len(t) + 1] = e
  BY AppendSequence DEF InOrder
<1>2. PICK u, l : u = Append(t, e) /\ l = Len(t)
  OBVIOUS
<1>3. /\ l \in Nat /\ DOMAIN t = 1 .. l /\ IsSequence(u) /\ DOMAIN u = 1 .. (l + 1)
      /\ \A n \in 1 .. l : u[n] = t[n]
      /\ u[l + 1] = e
  BY <1>1, <1>2
<1>4. e.op = "Sub" /\ e.a = x /\ e.b = y /\ e.c = Slicing!Unset
      /\ e = Export!Node(e.op, e.a, e.b, e.c)
  BY DEF Export!Node, Export!Unset, Slicing!Unset
<1>5. Slicing!Operands(e) \subseteq 1 .. l
  BY <1>3, <1>4 DEF Slicing!Operands, Slicing!Unset, Export!Unset
<1>6. ASSUME NEW n \in DOMAIN u
      PROVE  /\ u[n] = Export!Node(u[n].op, u[n].a, u[n].b, u[n].c)
             /\ Slicing!Operands(u[n]) \subseteq 1 .. (n - 1)
             /\ u[n].op = "Input" => u[n].a \in Nat
  <2>1. CASE n = l + 1
    BY <2>1, <1>3, <1>4, <1>5
  <2>2. CASE n # l + 1
    <3>1. n \in DOMAIN t /\ u[n] = t[n]
      BY <2>2, <1>3
    <3> QED BY <3>1 DEF InOrder
  <2> QED BY <2>1, <2>2
<1>7. ASSUME NEW m \in DOMAIN u, NEW n \in DOMAIN u, u[m].op = "Input", u[n].op = "Input", m < n
      PROVE  u[m].a < u[n].a
  <2>1. m \in DOMAIN t /\ n \in DOMAIN t /\ u[m] = t[m] /\ u[n] = t[n]
    BY <1>3, <1>4, <1>7
  <2> QED BY <1>7, <2>1 DEF InOrder
<1> QED BY <1>2, <1>3, <1>6, <1>7 DEF InOrder

LEMMA NodesStayInOrder == ExportInv /\ NodesInOrder /\ [Next]_vars => NodesInOrder'
<1> SUFFICES ASSUME ExportInv, NodesInOrder, [Next]_vars PROVE NodesInOrder'
  OBVIOUS
<1>1. CASE UNCHANGED exportVars
  BY <1>1 DEF exportVars, NodesInOrder
<1>2. CASE Export!Next
  <2>1. TableOk /\ AtHand /\ RowsOk /\ InOrder(nodes)
    BY <1>2 DEF ExportInv, NodesInOrder, Export!Next, Export!SkipNode, Export!AppendMargin, Export!AppendGap,
                Export!RegisterOutputs, Export!Return
  <2>2. CASE UNCHANGED nodes
    BY <2>1, <2>2 DEF NodesInOrder
  <2>3. CASE Export!AppendMargin /\ ~UNCHANGED nodes
    <3>1. PICK p : p = nodes[nodes[i].a]
      OBVIOUS
    <3>2. /\ i \in SelectsUpTo(given) /\ p.op \in Export!Compares /\ Export!Push(Export!MarginOf(p))
      <4>1. i \in 1 .. given
        BY <2>1, <2>3 DEF Export!AppendMargin, AtHand, TableOk
      <4> QED BY <2>3, <3>1, <4>1 DEF Export!AppendMargin, SelectsUpTo
    <3>3. DOMAIN nodes = 1 .. Len(nodes) /\ Len(nodes) \in Nat
      BY <2>1, SequenceShape DEF InOrder
    <3>4. PICK m : m = nodes[i].a
      OBVIOUS
    <3>5. m \in DOMAIN nodes /\ p = nodes[m]
      <4>1. i \in 1 .. given /\ m \in 1 .. (i - 1) /\ given <= Len(nodes) /\ given \in Nat
        BY <2>1, <3>2, <3>4 DEF TableOk, SelectsUpTo
      <4> QED BY <3>1, <3>3, <3>4, <4>1
    <3>6. Slicing!Operands(p) \subseteq 1 .. (m - 1)
      BY <2>1, <3>5 DEF InOrder
    <3>7. {p.a, p.b} \ {Export!Unset} \subseteq DOMAIN nodes
      <4>1. {p.a, p.b} \ {Export!Unset} \subseteq Slicing!Operands(p)
        BY <3>2 DEF Slicing!Operands, Export!Compares, Slicing!Unset, Export!Unset
      <4> QED BY <3>3, <3>5, <3>6, <4>1
    <3>8. \E x, y : /\ Export!MarginOf(p) = Export!Node("Sub", x, y, Export!Unset)
                    /\ {x, y} = {p.a, p.b}
      BY DEF Export!MarginOf
    <3>9. PICK e : e = Export!MarginOf(p)
      OBVIOUS
    <3>10. InOrder(Append(nodes, e))
      BY <2>1, <3>7, <3>8, <3>9, InOrderAppend
    <3> QED BY <3>2, <3>9, <3>10 DEF Export!Push, NodesInOrder
  <2>4. CASE Export!AppendGap /\ ~UNCHANGED nodes
    <3>1. PICK x, y : x \in DOMAIN nodes /\ y \in DOMAIN nodes /\ Export!Push(Export!GapOf(x, y))
      BY <2>4 DEF Export!AppendGap
    <3>2. PICK e : e = Export!GapOf(x, y)
      OBVIOUS
    <3>3. InOrder(Append(nodes, e))
      BY <2>1, <3>1, <3>2, InOrderAppend DEF Export!GapOf
    <3> QED BY <3>1, <3>2, <3>3 DEF Export!Push, NodesInOrder
  <2> QED BY <1>2, <2>2, <2>3, <2>4
          DEF Export!Next, Export!SkipNode, Export!RegisterOutputs, Export!Return
<1>3. UNCHANGED exportVars \/ Export!Next
  BY DEF Next, Read, vars
<1> QED BY <1>1, <1>2, <1>3

------------------------------------------------------------------------------
(* The slice.                                                              *)

(* The copy of a node is of its operation, reads the copies of its         *)
(* operands, which come before it, and knows an input by its old ordinal.  *)
CopyOf(n) ==
  LET was == nodes[n]
      is == sub[map[n]]
  IN /\ map[n] \in DOMAIN sub /\ is.op = was.op
     /\ was.op = "Const" => is = was
     /\ was.op = "Input" => is.a \in DOMAIN ordinals /\ ordinals[is.a] = was.a
     /\ was.op \notin {"Input", "Const"} => /\ is.a = Slicing!Renamed(was.a)
                                            /\ is.b = Slicing!Renamed(was.b)
                                            /\ is.c = Slicing!Renamed(was.c)
     /\ \A x \in Slicing!Operands(was) : map[x] < map[n]

(* What is marked is a root or read by a node that is marked, and behind   *)
(* l the operands of what is marked are.                                   *)
Marked ==
  /\ keep \subseteq DOMAIN nodes /\ \A r \in DOMAIN roots : roots[r] \in keep
  /\ \A n \in keep : \/ \E r \in DOMAIN roots : roots[r] = n
                     \/ \E m \in keep : n < m /\ n \in Slicing!Operands(nodes[m])
ClosedBehind(l) == \A n \in keep : n > l => Slicing!Operands(nodes[n]) \subseteq keep

(* The new tape has a copy of every node kept so far, and nothing else;    *)
(* its inputs are as they were ordered.                                    *)
CopiedTo(l) ==
  /\ IsSequence(sub) /\ IsSequence(ordinals)
  /\ \A n \in keep : n < l => CopyOf(n)
  /\ \A j \in DOMAIN sub : \E n \in keep : n < l /\ map[n] = j
  /\ \A o \in DOMAIN ordinals : \E n \in keep : n < l /\ nodes[n].op = "Input" /\ nodes[n].a = ordinals[o]
  /\ \A o, p \in DOMAIN ordinals : o < p => ordinals[o] < ordinals[p]

SliceUnder ==
  /\ slicePc \in {"close", "copy", "sliced"} /\ exportPc = "done"
  /\ Marked /\ DOMAIN map = DOMAIN nodes
  /\ slicePc = "close" => at \in 0 .. Len(nodes) /\ ClosedBehind(at) /\ sub = <<>> /\ ordinals = <<>>
  /\ slicePc # "close" => at \in 1 .. (Len(nodes) + 1) /\ ClosedBehind(0) /\ CopiedTo(at)
  /\ slicePc = "sliced" => /\ at = Len(nodes) + 1
                           /\ outputs = [r \in DOMAIN roots |-> map[roots[r]]]

SliceInv == slicePc = "idle" \/ SliceUnder

LEMMA WantedIsOnTape ==
  ASSUME RowsOk, NEW wanted \in Wanted
  PROVE  \A r \in DOMAIN wanted : wanted[r] \in DOMAIN nodes
<1>1. /\ Len(outs) = 3 * Len(selects) /\ Len(selects) \in Nat /\ Len(outs) \in Nat
      /\ DOMAIN outs = 1 .. Len(outs) /\ DOMAIN selects = 1 .. Len(selects)
  BY SequenceShape DEF RowsOk
<1>2. \A s \in 1 .. Len(selects) : {outs[3 * s - 2], outs[3 * s - 1], outs[3 * s]} \subseteq DOMAIN nodes
  BY <1>1 DEF RowsOk, ExportedRow
<1>3. ASSUME NEW o \in DOMAIN outs PROVE outs[o] \in DOMAIN nodes
  <2>1. PICK l : l = Len(selects)
    OBVIOUS
  <2>2. \E s \in 1 .. l : o \in {3 * s - 2, 3 * s - 1, 3 * s}
    <3>1. l \in Nat /\ o \in 1 .. (3 * l)
      BY <1>1, <2>1
    <3>2. (o + 2) \div 3 \in 1 .. l
      BY <3>1
    <3>3. o \in {3 * ((o + 2) \div 3) - 2, 3 * ((o + 2) \div 3) - 1, 3 * ((o + 2) \div 3)}
      BY <3>1
    <3> QED BY <3>2, <3>3
  <2> QED BY <1>2, <2>1, <2>2
<1>4. CASE wanted = outs
  BY <1>3, <1>4
<1>5. ASSUME NEW e \in {selects[s] : s \in DOMAIN selects}, wanted = <<outs[e.margin]>>
      PROVE  \A r \in DOMAIN wanted : wanted[r] \in DOMAIN nodes
  <2>1. PICK s \in DOMAIN selects : e = selects[s]
    BY <1>5
  <2>2. outs[e.margin] \in DOMAIN nodes
    BY <1>1, <1>2, <2>1 DEF RowsOk, ExportedRow
  <2>3. DOMAIN wanted = {1} /\ wanted[1] = outs[e.margin]
    BY <1>5
  <2> QED BY <2>2, <2>3
<1> QED BY <1>4, <1>5 DEF Wanted

LEMMA SliceStarts ==
  ASSUME ExportInv, NodesInOrder, exportPc = "done", UNCHANGED exportVars,
         NEW wanted \in Wanted, Slicing!Slice(wanted)
  PROVE  SliceInv'
<1>1. RowsOk /\ InOrder(nodes)
  BY DEF ExportInv, NodesInOrder
<1>2. /\ roots' = wanted /\ keep' = {wanted[r] : r \in DOMAIN wanted} /\ at' = Len(nodes)
      /\ map' = [n \in DOMAIN nodes |-> Slicing!Unset] /\ sub' = <<>> /\ ordinals' = <<>>
      /\ slicePc' = "close" /\ nodes' = nodes /\ exportPc' = "done"
  BY DEF Slicing!Slice, exportVars
<1>3. Len(nodes) \in Nat /\ DOMAIN nodes = 1 .. Len(nodes)
  BY <1>1, SequenceShape DEF InOrder
<1>4. Marked'
  BY <1>1, <1>2, WantedIsOnTape DEF Marked
<1>5. ClosedBehind(at)' /\ at' \in 0 .. Len(nodes)'
  BY <1>2, <1>3, <1>4 DEF ClosedBehind, Marked
<1> QED BY <1>2, <1>4, <1>5 DEF SliceInv, SliceUnder

LEMMA SliceCloses ==
  ASSUME SliceInv, NodesInOrder, UNCHANGED exportVars, Slicing!CloseNode
  PROVE  SliceInv'
<1>1. /\ slicePc = "close" /\ slicePc' = "close" /\ at > 0 /\ at' = at - 1
      /\ keep' = IF at \in keep THEN keep \cup Slicing!Operands(nodes[at]) ELSE keep
      /\ UNCHANGED <<roots, sub, map, ordinals, outputs, nodes, exportPc>>
  BY DEF Slicing!CloseNode, Slicing!Marked, exportVars
<1>2. /\ InOrder(nodes) /\ SliceUnder /\ Marked /\ at \in 0 .. Len(nodes) /\ ClosedBehind(at)
      /\ sub = <<>> /\ ordinals = <<>> /\ DOMAIN map = DOMAIN nodes /\ exportPc = "done"
  BY <1>1 DEF SliceInv, SliceUnder, NodesInOrder
<1>3. Len(nodes) \in Nat /\ DOMAIN nodes = 1 .. Len(nodes) /\ at \in DOMAIN nodes
  BY <1>1, <1>2, SequenceShape DEF InOrder
<1>4. Slicing!Operands(nodes[at]) \subseteq 1 .. (at - 1)
  BY <1>2, <1>3 DEF InOrder
<1>5. keep \subseteq keep' /\ keep' \subseteq DOMAIN nodes
  BY <1>1, <1>2, <1>3, <1>4 DEF Marked
<1>6. Marked'
  <2>1. ASSUME NEW n \in keep'
        PROVE  \/ \E r \in DOMAIN roots : roots[r] = n
               \/ \E m \in keep' : n < m /\ n \in Slicing!Operands(nodes[m])
    <3>1. CASE n \in keep
      BY <1>2, <1>5, <3>1 DEF Marked
    <3>2. CASE n \notin keep
      <4>1. at \in keep /\ n \in Slicing!Operands(nodes[at]) /\ at \in Nat
        BY <1>1, <1>3, <2>1, <3>2
      <4>2. n < at
        BY <1>4, <4>1
      <4> QED BY <1>5, <4>1, <4>2
    <3> QED BY <3>1, <3>2
  <2> QED BY <1>1, <1>2, <1>5, <2>1 DEF Marked
<1>7. ClosedBehind(at)'
  <2>1. ASSUME NEW n \in keep', n > at - 1 PROVE Slicing!Operands(nodes[n]) \subseteq keep'
    <3>1. n \in Nat /\ at \in Nat
      BY <1>3, <1>5, <2>1
    <3>2. CASE n = at
      <4>1. at \in keep
        BY <1>1, <1>4, <2>1, <3>1, <3>2
      <4> QED BY <1>1, <3>2, <4>1
    <3>3. CASE n # at
      <4>1. n > at /\ n \in keep
        BY <1>1, <1>4, <2>1, <3>1, <3>3
      <4> QED BY <1>2, <1>5, <4>1 DEF ClosedBehind
    <3> QED BY <3>2, <3>3
  <2> QED BY <1>1, <2>1 DEF ClosedBehind
<1> QED BY <1>1, <1>2, <1>3, <1>6, <1>7 DEF SliceInv, SliceUnder

LEMMA SliceStartsCopy ==
  ASSUME SliceInv, NodesInOrder, UNCHANGED exportVars, Slicing!StartCopy
  PROVE  SliceInv'
<1>1. /\ slicePc = "close" /\ at = 0 /\ at' = 1 /\ slicePc' = "copy"
      /\ UNCHANGED <<roots, keep, sub, map, ordinals, outputs, nodes, exportPc>>
  BY DEF Slicing!StartCopy, exportVars
<1>2. /\ InOrder(nodes) /\ SliceUnder /\ Marked /\ ClosedBehind(0)
      /\ sub = <<>> /\ ordinals = <<>> /\ DOMAIN map = DOMAIN nodes /\ exportPc = "done"
  BY <1>1 DEF SliceInv, SliceUnder, NodesInOrder
<1>3. Len(nodes) \in Nat /\ DOMAIN nodes = 1 .. Len(nodes)
  BY <1>2, SequenceShape DEF InOrder
<1>4. Marked' /\ ClosedBehind(0)'
  BY <1>1, <1>2 DEF Marked, ClosedBehind
<1>5. CopiedTo(at)'
  <2>1. DOMAIN <<>> = {} /\ IsSequence(<<>>)
    BY DEF IsSequence
  <2>2. \A n \in keep : ~(n < 1)
    BY <1>2, <1>3 DEF Marked
  <2> QED BY <1>1, <1>2, <2>1, <2>2 DEF CopiedTo
<1> QED BY <1>1, <1>2, <1>3, <1>4, <1>5 DEF SliceInv, SliceUnder

LEMMA SliceFinishes ==
  ASSUME SliceInv, NodesInOrder, UNCHANGED exportVars, Slicing!FinishSlice
  PROVE  SliceInv'
<1>1. /\ slicePc = "copy" /\ at > Len(nodes) /\ slicePc' = "sliced"
      /\ outputs' = [r \in DOMAIN roots |-> map[roots[r]]]
      /\ UNCHANGED <<roots, at, keep, sub, map, ordinals, nodes, exportPc>>
  BY DEF Slicing!FinishSlice, exportVars
<1>2. /\ InOrder(nodes) /\ SliceUnder /\ Marked /\ ClosedBehind(0) /\ CopiedTo(at)
      /\ at \in 1 .. (Len(nodes) + 1) /\ DOMAIN map = DOMAIN nodes /\ exportPc = "done"
  BY <1>1 DEF SliceInv, SliceUnder, NodesInOrder
<1>3. Len(nodes) \in Nat /\ at = Len(nodes) + 1
  BY <1>1, <1>2, SequenceShape DEF InOrder
<1>4. Marked' /\ ClosedBehind(0)'
  BY <1>1, <1>2 DEF Marked, ClosedBehind
<1>5. CopiedTo(at)'
  <2>1. \A n : CopyOf(n)' <=> CopyOf(n)
    BY <1>1 DEF CopyOf, Slicing!Renamed
  <2> QED BY <1>1, <1>2, <2>1 DEF CopiedTo
<1> QED BY <1>1, <1>2, <1>3, <1>4, <1>5 DEF SliceInv, SliceUnder

(* A copy stays one while the new tape and its ordinals only grow.         *)
LEMMA CopyKept ==
  ASSUME InOrder(nodes), Marked, NEW n \in keep, CopyOf(n), at \in Nat, n < at, nodes' = nodes,
         \A x \in DOMAIN nodes : x < at => map'[x] = map[x],
         \A j \in DOMAIN sub : j \in DOMAIN sub' /\ sub'[j] = sub[j],
         \A o \in DOMAIN ordinals : o \in DOMAIN ordinals' /\ ordinals'[o] = ordinals[o]
  PROVE  CopyOf(n)'
<1>1. /\ n \in DOMAIN nodes /\ DOMAIN nodes = 1 .. Len(nodes) /\ Len(nodes) \in Nat
      /\ Slicing!Operands(nodes[n]) \subseteq 1 .. (n - 1)
  BY SequenceShape DEF Marked, InOrder
<1>2. map'[n] = map[n] /\ sub'[map[n]] = sub[map[n]] /\ map[n] \in DOMAIN sub'
  BY <1>1 DEF CopyOf
<1>3. \A x \in Slicing!Operands(nodes[n]) : map'[x] = map[x]
  <2>1. \A x \in 1 .. (n - 1) : x \in DOMAIN nodes /\ x < at
    BY <1>1
  <2> QED BY <1>1, <2>1
<1>4. PICK was, is : was = nodes[n] /\ is = sub[map[n]]
  OBVIOUS
<1>5. was.op \notin {"Input", "Const"} =>
        \A x \in {was.a, was.b, was.c} : Slicing!Renamed(x)' = Slicing!Renamed(x)
  BY <1>3, <1>4 DEF Slicing!Renamed, Slicing!Operands, Slicing!Unset
<1>6. nodes'[n] = was /\ sub'[map'[n]] = is
  BY <1>2, <1>4
<1>7. /\ is.op = was.op
      /\ was.op = "Const" => is = was
      /\ was.op = "Input" => is.a \in DOMAIN ordinals /\ ordinals[is.a] = was.a
      /\ was.op \notin {"Input", "Const"} => /\ is.a = Slicing!Renamed(was.a)
                                             /\ is.b = Slicing!Renamed(was.b)
                                             /\ is.c = Slicing!Renamed(was.c)
      /\ \A x \in Slicing!Operands(was) : map[x] < map[n]
  BY <1>4 DEF CopyOf
<1>8. was.op \notin {"Input", "Const"} => /\ is.a = Slicing!Renamed(was.a)'
                                          /\ is.b = Slicing!Renamed(was.b)'
                                          /\ is.c = Slicing!Renamed(was.c)'
  BY <1>5, <1>7
<1>9. was.op = "Input" => is.a \in DOMAIN ordinals' /\ ordinals'[is.a] = was.a
  BY <1>7
<1>10. \A x \in Slicing!Operands(was) : map'[x] < map'[n]
  BY <1>2, <1>3, <1>4, <1>7
<1>11. /\ Slicing!Renamed(was.a)' = Slicing!Renamed(nodes[n].a)'
       /\ Slicing!Renamed(was.b)' = Slicing!Renamed(nodes[n].b)'
       /\ Slicing!Renamed(was.c)' = Slicing!Renamed(nodes[n].c)'
  BY <1>6 DEF Slicing!Renamed
<1> QED BY <1>2, <1>6, <1>7, <1>8, <1>9, <1>10, <1>11 DEF CopyOf

(* What the copying pass does to the tables at a node it keeps.            *)
LEMMA CopyAppends ==
  ASSUME InOrder(nodes), Marked, CopiedTo(at), ClosedBehind(0), at \in keep, DOMAIN map = DOMAIN nodes,
         Slicing!CopyNode, UNCHANGED exportVars
  PROVE  /\ IsSequence(sub') /\ IsSequence(ordinals')
         /\ \A j \in DOMAIN sub : j \in DOMAIN sub' /\ sub'[j] = sub[j]
         /\ \A o \in DOMAIN ordinals : o \in DOMAIN ordinals' /\ ordinals'[o] = ordinals[o]
         /\ \A x \in DOMAIN nodes : x # at => map'[x] = map[x]
         /\ DOMAIN map' = DOMAIN map /\ map'[at] \in DOMAIN sub'
         /\ \/ sub' = sub /\ nodes[at].op = "Const" /\ sub[map'[at]] = nodes[at]
            \/ /\ map'[at] = Len(sub) + 1 /\ DOMAIN sub' = DOMAIN sub \cup {map'[at]}
               /\ sub'[map'[at]] = Slicing!Copied(nodes[at])
         /\ nodes[at].op # "Input" => ordinals' = ordinals
         /\ nodes[at].op = "Input" => /\ DOMAIN ordinals' = DOMAIN ordinals \cup {Len(ordinals) + 1}
                                      /\ ordinals'[Len(ordinals) + 1] = nodes[at].a
<1> DEFINE known == {j \in DOMAIN sub : nodes[at].op = "Const" /\ sub[j] = nodes[at]}
<1>1. /\ sub' = IF known = {} THEN Append(sub, Slicing!Copied(nodes[at])) ELSE sub
      /\ map' = [map EXCEPT ![at] = IF known = {} THEN Len(sub) + 1 ELSE CHOOSE j \in known : TRUE]
      /\ ordinals' = IF nodes[at].op = "Input" THEN Append(ordinals, nodes[at].a) ELSE ordinals
  BY DEF Slicing!CopyNode
<1>2. IsSequence(sub) /\ IsSequence(ordinals) /\ at \in DOMAIN map
  BY DEF CopiedTo, Marked
<1>3. /\ DOMAIN map' = DOMAIN map /\ \A x \in DOMAIN nodes : x # at => map'[x] = map[x]
      /\ map'[at] = IF known = {} THEN Len(sub) + 1 ELSE CHOOSE j \in known : TRUE
  BY <1>1, <1>2
<1>4. /\ IsSequence(ordinals')
      /\ \A o \in DOMAIN ordinals : o \in DOMAIN ordinals' /\ ordinals'[o] = ordinals[o]
      /\ nodes[at].op # "Input" => ordinals' = ordinals
      /\ nodes[at].op = "Input" => /\ DOMAIN ordinals' = DOMAIN ordinals \cup {Len(ordinals) + 1}
                                   /\ ordinals'[Len(ordinals) + 1] = nodes[at].a
  <2>1. CASE nodes[at].op # "Input"
    BY <1>1, <1>2, <2>1
  <2>2. CASE nodes[at].op = "Input"
    <3>1. PICK e : e = nodes[at].a
      OBVIOUS
    <3>2. /\ Len(ordinals) \in Nat /\ DOMAIN ordinals = 1 .. Len(ordinals)
          /\ IsSequence(Append(ordinals, e)) /\ DOMAIN Append(ordinals, e) = 1 .. (Len(ordinals) + 1)
          /\ \A x \in 1 .. Len(ordinals) : Append(ordinals, e)[x] = ordinals[x]
          /\ Append(ordinals, e)[Len(ordinals) + 1] = e
      BY <1>2, AppendSequence
    <3>3. ordinals' = Append(ordinals, e)
      BY <1>1, <2>2, <3>1
    <3>4. 1 .. (Len(ordinals) + 1) = 1 .. Len(ordinals) \cup {Len(ordinals) + 1}
      BY <3>2
    <3> QED BY <2>2, <3>1, <3>2, <3>3, <3>4
  <2> QED BY <2>1, <2>2
<1>5. CASE known = {}
  <2>1. PICK e : e = Slicing!Copied(nodes[at])
    OBVIOUS
  <2>2. /\ Len(sub) \in Nat /\ DOMAIN sub = 1 .. Len(sub)
        /\ IsSequence(Append(sub, e)) /\ DOMAIN Append(sub, e) = 1 .. (Len(sub) + 1)
        /\ \A x \in 1 .. Len(sub) : Append(sub, e)[x] = sub[x]
        /\ Append(sub, e)[Len(sub) + 1] = e
    BY <1>2, AppendSequence
  <2>3. sub' = Append(sub, e) /\ map'[at] = Len(sub) + 1
    BY <1>1, <1>3, <1>5, <2>1
  <2>4. 1 .. (Len(sub) + 1) = 1 .. Len(sub) \cup {Len(sub) + 1}
    BY <2>2
  <2>5. /\ IsSequence(sub') /\ \A j \in DOMAIN sub : j \in DOMAIN sub' /\ sub'[j] = sub[j]
    BY <2>2, <2>3, <2>4
  <2>6. /\ map'[at] \in DOMAIN sub' /\ DOMAIN sub' = DOMAIN sub \cup {map'[at]}
        /\ sub'[map'[at]] = Slicing!Copied(nodes[at])
    BY <2>1, <2>2, <2>3, <2>4
  <2> HIDE DEF known
  <2> QED BY <1>3, <1>4, <2>3, <2>5, <2>6
<1>6. CASE known # {}
  <2>1. map'[at] \in known /\ sub' = sub
    BY <1>1, <1>3, <1>6
  <2> QED BY <1>2, <1>3, <1>4, <2>1
<1> QED BY <1>5, <1>6

LEMMA CopyIsOf ==
  ASSUME InOrder(nodes), Marked, CopiedTo(at), ClosedBehind(0), NEW n \in keep, n = at,
         DOMAIN map = DOMAIN nodes, Slicing!CopyNode, UNCHANGED exportVars
  PROVE  CopyOf(n)'
<1>1. /\ nodes' = nodes /\ n \in DOMAIN nodes /\ DOMAIN nodes = 1 .. Len(nodes) /\ Len(nodes) \in Nat
      /\ IsSequence(sub) /\ Len(sub) \in Nat /\ DOMAIN sub = 1 .. Len(sub)
  BY SequenceShape DEF Marked, exportVars, InOrder, CopiedTo
<1>2. PICK was, to : was = nodes[n] /\ to = map'[n]
  OBVIOUS
<1>3. /\ \A x \in DOMAIN nodes : x # n => map'[x] = map[x]
      /\ to \in DOMAIN sub'
      /\ \/ sub' = sub /\ was.op = "Const" /\ sub[to] = was
         \/ to = Len(sub) + 1 /\ sub'[to] = Slicing!Copied(was)
      /\ was.op = "Input" => /\ DOMAIN ordinals' = DOMAIN ordinals \cup {Len(ordinals) + 1}
                             /\ ordinals'[Len(ordinals) + 1] = was.a
  BY <1>2, CopyAppends
<1>4. /\ was = Export!Node(was.op, was.a, was.b, was.c)
      /\ Slicing!Operands(was) \subseteq 1 .. (n - 1) /\ Slicing!Operands(was) \subseteq keep
  BY <1>1, <1>2 DEF InOrder, ClosedBehind
<1>5. ASSUME NEW x \in Slicing!Operands(was)
      PROVE  map'[x] = map[x] /\ map[x] \in DOMAIN sub
  <2>1. x \in DOMAIN nodes /\ x # n /\ x < n
    BY <1>1, <1>4
  <2>2. CopyOf(x)
    BY <1>4, <2>1 DEF CopiedTo
  <2> QED BY <1>3, <2>1, <2>2 DEF CopyOf
<1>6. CASE was.op = "Const"
  <2>1. sub'[to] = was
    BY <1>3, <1>6 DEF Slicing!Copied
  <2>2. Slicing!Operands(was) = {}
    BY <1>6 DEF Slicing!Operands
  <2> QED BY <1>1, <1>2, <1>3, <1>6, <2>1, <2>2 DEF CopyOf
<1>7. CASE was.op = "Input"
  <2>1. sub'[to] = [was EXCEPT !.a = Len(ordinals) + 1]
    BY <1>3, <1>7 DEF Slicing!Copied
  <2>2. sub'[to].op = was.op /\ sub'[to].a = Len(ordinals) + 1
    BY <1>4, <2>1 DEF Export!Node
  <2>3. Slicing!Operands(was) = {}
    BY <1>7 DEF Slicing!Operands
  <2>4. sub'[to].a \in DOMAIN ordinals' /\ ordinals'[sub'[to].a] = was.a
    BY <1>3, <1>7, <2>2
  <2> QED BY <1>1, <1>2, <1>3, <1>7, <2>2, <2>3, <2>4 DEF CopyOf
<1>8. CASE was.op \notin {"Const", "Input"}
  <2>1. PICK a, b, c : a = Slicing!Renamed(was.a) /\ b = Slicing!Renamed(was.b) /\ c = Slicing!Renamed(was.c)
    OBVIOUS
  <2>2. sub'[to] = [was EXCEPT !.a = a, !.b = b, !.c = c] /\ to = Len(sub) + 1
    BY <1>3, <1>8, <2>1 DEF Slicing!Copied
  <2>3. sub'[to].op = was.op /\ sub'[to].a = a /\ sub'[to].b = b /\ sub'[to].c = c
    BY <1>4, <2>2 DEF Export!Node
  <2>4. \A x \in {was.a, was.b, was.c} : Slicing!Renamed(x)' = Slicing!Renamed(x)
    BY <1>5, <1>8 DEF Slicing!Renamed, Slicing!Operands, Slicing!Unset
  <2>5. \A x \in Slicing!Operands(was) : map'[x] < to
    BY <1>1, <1>5, <2>2
  <2>6. nodes'[n] = was /\ sub'[map'[n]] = sub'[to]
    BY <1>1, <1>2
  <2>7. /\ Slicing!Renamed(was.a)' = Slicing!Renamed(nodes[n].a)'
        /\ Slicing!Renamed(was.b)' = Slicing!Renamed(nodes[n].b)'
        /\ Slicing!Renamed(was.c)' = Slicing!Renamed(nodes[n].c)'
    BY <2>6 DEF Slicing!Renamed
  <2>8. /\ sub'[to].a = Slicing!Renamed(nodes[n].a)'
        /\ sub'[to].b = Slicing!Renamed(nodes[n].b)'
        /\ sub'[to].c = Slicing!Renamed(nodes[n].c)'
    BY <2>1, <2>3, <2>4, <2>7
  <2> QED BY <1>2, <1>3, <1>8, <2>3, <2>5, <2>6, <2>8 DEF CopyOf
<1> QED BY <1>6, <1>7, <1>8

LEMMA SliceCopies ==
  ASSUME SliceInv, NodesInOrder, UNCHANGED exportVars, Slicing!CopyNode
  PROVE  SliceInv'
<1>1. /\ slicePc = "copy" /\ slicePc' = "copy" /\ at <= Len(nodes) /\ at' = at + 1
      /\ UNCHANGED <<roots, keep, outputs, nodes, exportPc>>
  BY DEF Slicing!CopyNode, exportVars
<1>2. /\ InOrder(nodes) /\ SliceUnder /\ Marked /\ ClosedBehind(0) /\ CopiedTo(at)
      /\ at \in 1 .. (Len(nodes) + 1) /\ DOMAIN map = DOMAIN nodes /\ exportPc = "done"
  BY <1>1 DEF SliceInv, SliceUnder, NodesInOrder
<1>3. /\ Len(nodes) \in Nat /\ DOMAIN nodes = 1 .. Len(nodes) /\ at \in DOMAIN nodes /\ at \in Nat
      /\ keep \subseteq Nat /\ IsSequence(sub) /\ IsSequence(ordinals)
  BY <1>1, <1>2, SequenceShape DEF InOrder, Marked, CopiedTo
<1>4. Marked' /\ ClosedBehind(0)'
  BY <1>1, <1>2 DEF Marked, ClosedBehind
<1>5. CASE at \notin keep
  <2>1. UNCHANGED <<sub, map, ordinals>>
    BY <1>5 DEF Slicing!CopyNode
  <2>2. \A n : CopyOf(n)' <=> CopyOf(n)
    BY <1>1, <2>1 DEF CopyOf, Slicing!Renamed
  <2>3. \A n \in keep : n < at' <=> n < at
    BY <1>1, <1>3, <1>5
  <2>4. CopiedTo(at)'
    BY <1>1, <1>2, <2>1, <2>2, <2>3 DEF CopiedTo
  <2> QED BY <1>1, <1>2, <1>3, <1>4, <2>1, <2>4 DEF SliceInv, SliceUnder
<1>6. CASE at \in keep
  <2>1. PICK l : l = at
    OBVIOUS
  <2>2. /\ IsSequence(sub') /\ IsSequence(ordinals')
        /\ \A j \in DOMAIN sub : j \in DOMAIN sub' /\ sub'[j] = sub[j]
        /\ \A o \in DOMAIN ordinals : o \in DOMAIN ordinals' /\ ordinals'[o] = ordinals[o]
        /\ \A x \in DOMAIN nodes : x # l => map'[x] = map[x]
        /\ DOMAIN map' = DOMAIN map /\ map'[l] \in DOMAIN sub'
        /\ \/ sub' = sub
           \/ DOMAIN sub' = DOMAIN sub \cup {map'[l]}
        /\ nodes[l].op # "Input" => ordinals' = ordinals
        /\ nodes[l].op = "Input" => /\ DOMAIN ordinals' = DOMAIN ordinals \cup {Len(ordinals) + 1}
                                    /\ ordinals'[Len(ordinals) + 1] = nodes[l].a
    BY <1>2, <1>6, <2>1, CopyAppends
  <2>3. \A n \in keep : n < at' <=> n < l \/ n = l
    BY <1>1, <1>3, <2>1
  <2>4. ASSUME NEW n \in keep, n < at' PROVE CopyOf(n)'
    <3>1. CASE n = l
      BY <1>2, <2>1, <3>1, CopyIsOf
    <3>2. CASE n < l
      <4>1. CopyOf(n) /\ n < at
        BY <1>2, <2>1, <3>2 DEF CopiedTo
      <4>2. \A x \in DOMAIN nodes : x < at => map'[x] = map[x]
        BY <1>3, <2>1, <2>2
      <4> QED BY <1>1, <1>2, <1>3, <2>2, <4>1, <4>2, CopyKept
    <3> QED BY <2>3, <2>4, <3>1, <3>2
  <2>5. \A n \in keep : n < l => map'[n] = map[n]
    BY <1>2, <1>3, <2>1, <2>2 DEF Marked
  <2>6. \A j \in DOMAIN sub' : \E n \in keep : n < at' /\ map'[n] = j
    <3>1. ASSUME NEW j \in DOMAIN sub PROVE \E n \in keep : n < at' /\ map'[n] = j
      <4>1. PICK n \in keep : n < l /\ map[n] = j
        BY <1>2, <2>1 DEF CopiedTo
      <4> QED BY <2>3, <2>5, <4>1
    <3> QED BY <1>6, <2>1, <2>2, <2>3, <3>1
  <2>7. \A o \in DOMAIN ordinals : \E n \in keep : n < l /\ nodes[n].op = "Input" /\ nodes[n].a = ordinals[o]
    BY <1>2, <2>1 DEF CopiedTo
  <2>8. \A o \in DOMAIN ordinals' : \E n \in keep : n < at' /\ nodes'[n].op = "Input" /\ nodes'[n].a = ordinals'[o]
    <3>1. ASSUME NEW o \in DOMAIN ordinals
          PROVE  \E n \in keep : n < at' /\ nodes[n].op = "Input" /\ nodes[n].a = ordinals'[o]
      BY <2>2, <2>3, <2>7
    <3>2. CASE nodes[l].op # "Input"
      BY <1>1, <2>2, <3>1, <3>2
    <3>3. CASE nodes[l].op = "Input"
      BY <1>1, <1>6, <2>1, <2>2, <2>3, <3>1, <3>3
    <3> QED BY <3>2, <3>3
  <2>9. \A o \in DOMAIN ordinals, p \in DOMAIN ordinals : o < p => ordinals[o] < ordinals[p]
    BY <1>2 DEF CopiedTo
  <2>10. \A o, p \in DOMAIN ordinals' : o < p => ordinals'[o] < ordinals'[p]
    <3>1. CASE nodes[l].op # "Input"
      BY <2>2, <2>9, <3>1
    <3>2. CASE nodes[l].op = "Input"
      <4>1. PICK last : last = Len(ordinals) + 1
        OBVIOUS
      <4>2. last \in Nat /\ DOMAIN ordinals = 1 .. (last - 1)
        BY <1>3, <4>1, SequenceShape
      <4>3. DOMAIN ordinals' = DOMAIN ordinals \cup {last} /\ ordinals'[last] = nodes[l].a
        BY <2>2, <3>2, <4>1
      <4>4. ASSUME NEW o \in DOMAIN ordinals PROVE ordinals'[o] < ordinals'[last]
        <5>1. PICK n \in keep : n < l /\ nodes[n].op = "Input" /\ nodes[n].a = ordinals[o]
          BY <2>7
        <5>2. n \in DOMAIN nodes /\ l \in DOMAIN nodes
          BY <1>2, <1>3, <2>1 DEF Marked
        <5>3. nodes[n].a < nodes[l].a
          BY <1>2, <3>2, <5>1, <5>2 DEF InOrder
        <5> QED BY <2>2, <4>3, <5>1, <5>3
      <4>5. ASSUME NEW o \in DOMAIN ordinals', NEW p \in DOMAIN ordinals', o < p
            PROVE  ordinals'[o] < ordinals'[p]
        <5>1. o \in DOMAIN ordinals
          BY <4>2, <4>3, <4>5
        <5>2. CASE p = last
          BY <4>4, <5>1, <5>2
        <5>3. CASE p # last
          BY <2>2, <2>9, <4>3, <4>5, <5>1, <5>3
        <5> QED BY <5>2, <5>3
      <4> QED BY <4>5
    <3> QED BY <3>1, <3>2
  <2>11. CopiedTo(at)'
    BY <1>1, <2>2, <2>4, <2>6, <2>8, <2>10 DEF CopiedTo
  <2> QED BY <1>1, <1>2, <1>3, <1>4, <2>2, <2>11 DEF SliceInv, SliceUnder
<1> QED BY <1>5, <1>6

LEMMA SliceNextInv == ExportInv /\ NodesInOrder /\ SliceInv /\ [Next]_vars => SliceInv'
<1> SUFFICES ASSUME ExportInv, NodesInOrder, SliceInv, [Next]_vars PROVE SliceInv'
  OBVIOUS
<1>1. CASE UNCHANGED sliceVars /\ (UNCHANGED exportVars \/ slicePc = "idle")
  <2>1. CASE slicePc = "idle"
    BY <1>1, <2>1 DEF SliceInv, sliceVars
  <2>2. CASE slicePc # "idle"
    <3>1. UNCHANGED <<roots, slicePc, at, keep, sub, map, ordinals, outputs, nodes, exportPc>>
      BY <1>1, <2>2 DEF sliceVars, exportVars
    <3>2. Marked' <=> Marked
      BY <3>1 DEF Marked
    <3>3. \A n : CopyOf(n)' <=> CopyOf(n)
      BY <3>1 DEF CopyOf, Slicing!Renamed
    <3>4. \A l : (ClosedBehind(l)' <=> ClosedBehind(l))
      BY <3>1 DEF ClosedBehind
    <3>5. CopiedTo(at)' <=> CopiedTo(at)
      BY <3>1, <3>3 DEF CopiedTo
    <3>6. ClosedBehind(at)' <=> ClosedBehind(at)
      BY <3>1 DEF ClosedBehind
    <3> QED BY <2>2, <3>1, <3>2, <3>4, <3>5, <3>6 DEF SliceInv, SliceUnder
  <2> QED BY <2>1, <2>2
<1>2. CASE UNCHANGED sliceVars /\ Export!Next /\ slicePc # "idle"
  <2>1. exportPc = "done"
    BY <1>2 DEF SliceInv, SliceUnder
  <2> QED BY <1>2, <2>1 DEF Export!Next, Export!SkipNode, Export!AppendMargin, Export!AppendGap,
                            Export!RegisterOutputs, Export!Return
<1>3. CASE exportPc = "done" /\ (\E wanted \in Wanted : Slicing!Slice(wanted)) /\ UNCHANGED exportVars
  BY <1>3, SliceStarts
<1>4. CASE Slicing!SliceStep /\ UNCHANGED exportVars
  BY <1>4, SliceCloses, SliceStartsCopy, SliceCopies, SliceFinishes DEF Slicing!SliceStep
<1> QED BY <1>1, <1>2, <1>3, <1>4 DEF Next, Read, vars

LEMMA LeastOf ==
  ASSUME NEW S \in SUBSET Nat, S # {}
  PROVE  \E x \in S : \A y \in S : x <= y
<1> DEFINE less == {ss \in Nat \X Nat : ss[1] < ss[2]}
<1>1. IsWellFoundedOn(less, Nat)
  BY NatLessThanWellFounded DEF OpToRel
<1>2. \A x, y \in Nat : y < x => <<y, x>> \in less
  OBVIOUS
<1> HIDE DEF less
<1>3. PICK x \in S : \A y \in S : ~ (<<y, x>> \in less)
  BY <1>1, WFMin
<1>4. ASSUME NEW y \in S PROVE x <= y
  <2>1. x \in Nat /\ y \in Nat /\ ~(y < x)
    BY <1>2, <1>3
  <2> QED BY <2>1
<1> QED BY <1>4

(* The tree at a node, from those at the nodes it reads.                   *)
Grown(f, x) == IF x = Slicing!Unset THEN <<>> ELSE f[x]
TreeAt(t, ordinal, f, n) ==
  CASE t[n].op = "Input" -> <<"Input", ordinal[t[n].a]>>
    [] t[n].op = "Const" -> <<"Const", t[n].b>>
    [] OTHER -> <<t[n].op, Grown(f, t[n].a), Grown(f, t[n].b), Grown(f, t[n].c)>>

LEMMA TreeOfOperands ==
  ASSUME NEW t, NEW ordinal, NEW n, NEW f, NEW g,
         \A x \in Slicing!Operands(t[n]) : f[x] = g[x]
  PROVE  TreeAt(t, ordinal, f, n) = TreeAt(t, ordinal, g, n)
<1>1. CASE t[n].op \in {"Input", "Const"}
  BY <1>1 DEF TreeAt
<1>2. CASE t[n].op \notin {"Input", "Const"}
  <2>1. \A x \in {t[n].a, t[n].b, t[n].c} : Grown(f, x) = Grown(g, x)
    BY <1>2 DEF Grown, Slicing!Operands
  <2> QED BY <1>2, <2>1 DEF TreeAt
<1> QED BY <1>1, <1>2

(* A tape whose nodes read nodes before them has its trees.                *)
LEMMA TreesOf ==
  ASSUME NEW t, NEW ordinal, Len(t) \in Nat, DOMAIN t = 1 .. Len(t),
         \A n \in DOMAIN t : Slicing!Operands(t[n]) \subseteq 1 .. (n - 1)
  PROVE  \A n \in DOMAIN t :
           Slicing!TreeOf(t, ordinal)[n] = TreeAt(t, ordinal, Slicing!TreeOf(t, ordinal), n)
<1> DEFINE Grows(l, f) == f = [n \in 1 .. l |-> TreeAt(t, ordinal, f, n)]
           never == {l \in 0 .. Len(t) : ~(\E f : Grows(l, f))}
           tree == CHOOSE f : f = [n \in DOMAIN t |->
                     CASE t[n].op = "Input" -> <<"Input", ordinal[t[n].a]>>
                       [] t[n].op = "Const" -> <<"Const", t[n].b>>
                       [] OTHER -> <<t[n].op, Grown(f, t[n].a), Grown(f, t[n].b), Grown(f, t[n].c)>>]
<1>1. never = {}
  <2> SUFFICES ASSUME never # {} PROVE FALSE
    OBVIOUS
  <2>1. never \in SUBSET Nat
    OBVIOUS
  <2> HIDE DEF never
  <2>2. PICK l \in never : \A m \in never : l <= m
    BY <2>1, LeastOf
  <2>3. l \in 0 .. Len(t) /\ ~(\E f : Grows(l, f))
    BY <2>2 DEF never
  <2>4. CASE l = 0
    <3>1. Grows(0, [n \in 1 .. 0 |-> <<>>])
      <4>1. 1 .. 0 = {}
        OBVIOUS
      <4> QED BY <4>1
    <3> QED BY <2>3, <2>4, <3>1
  <2>5. CASE l # 0
    <3>1. l - 1 \in 0 .. Len(t) /\ l \in DOMAIN t /\ l \in Nat
      BY <2>3, <2>5
    <3>2. l - 1 \notin never
      <4>1. ~(l <= l - 1)
        BY <3>1
      <4> QED BY <2>2, <4>1
    <3>3. PICK f : Grows(l - 1, f)
      BY <3>1, <3>2 DEF never
    <3> DEFINE g == [n \in 1 .. l |-> IF n = l THEN TreeAt(t, ordinal, f, l) ELSE f[n]]
    <3>4. \A n \in 1 .. (l - 1) : n \in 1 .. l /\ n # l /\ g[n] = f[n]
      BY <3>1
    <3>5. g[l] = TreeAt(t, ordinal, f, l)
      BY <3>1
    <3>6. g = [n \in 1 .. l |-> g[n]]
      OBVIOUS
    <3> HIDE DEF g
    <3>7. ASSUME NEW n \in 1 .. l PROVE g[n] = TreeAt(t, ordinal, g, n)
      <4>1. \A x \in Slicing!Operands(t[n]) : f[x] = g[x]
        <5>1. n \in DOMAIN t /\ Slicing!Operands(t[n]) \subseteq 1 .. (n - 1)
          BY <3>1
        <5>2. 1 .. (n - 1) \subseteq 1 .. (l - 1)
          BY <3>1
        <5> QED BY <3>4, <5>1, <5>2
      <4>2. TreeAt(t, ordinal, f, n) = TreeAt(t, ordinal, g, n)
        BY <4>1, TreeOfOperands
      <4>3. CASE n = l
        BY <3>5, <4>2, <4>3
      <4>4. CASE n # l
        <5>1. n \in 1 .. (l - 1)
          BY <3>1, <4>4
        <5>2. f[n] = TreeAt(t, ordinal, f, n)
          BY <3>3, <5>1
        <5> QED BY <3>4, <4>2, <5>1, <5>2
      <4> QED BY <4>3, <4>4
    <3>8. Grows(l, g)
      BY <3>6, <3>7
    <3> QED BY <2>3, <3>8
  <2> QED BY <2>4, <2>5
<1>2. \E f : Grows(Len(t), f)
  <2>1. Len(t) \in 0 .. Len(t)
    OBVIOUS
  <2> QED BY <1>1, <2>1
<1>3. Slicing!TreeOf(t, ordinal) = tree
  BY DEF Slicing!TreeOf, Grown
<1>4. \E f : f = [n \in DOMAIN t |->
                     CASE t[n].op = "Input" -> <<"Input", ordinal[t[n].a]>>
                       [] t[n].op = "Const" -> <<"Const", t[n].b>>
                       [] OTHER -> <<t[n].op, Grown(f, t[n].a), Grown(f, t[n].b), Grown(f, t[n].c)>>]
  BY <1>2 DEF TreeAt
<1>5. tree = [n \in DOMAIN t |->
                     CASE t[n].op = "Input" -> <<"Input", ordinal[t[n].a]>>
                       [] t[n].op = "Const" -> <<"Const", t[n].b>>
                       [] OTHER -> <<t[n].op, Grown(tree, t[n].a), Grown(tree, t[n].b), Grown(tree, t[n].c)>>]
  BY <1>4
<1> HIDE DEF tree
<1>6. tree = [n \in DOMAIN t |-> TreeAt(t, ordinal, tree, n)]
  BY <1>5 DEF TreeAt
<1>7. \A n \in DOMAIN t : tree[n] = TreeAt(t, ordinal, tree, n)
  BY <1>6
<1> QED BY <1>3, <1>7

LEMMA SlicedComputes == ASSUME SliceInv, NodesInOrder PROVE Slicing!SliceComputesRoots
<1> SUFFICES ASSUME slicePc = "sliced" PROVE Slicing!SliceComputesRoots
  BY DEF Slicing!SliceComputesRoots
<1>1. /\ InOrder(nodes) /\ Marked /\ ClosedBehind(0) /\ CopiedTo(at) /\ at = Len(nodes) + 1
      /\ outputs = [r \in DOMAIN roots |-> map[roots[r]]] /\ DOMAIN map = DOMAIN nodes
  BY DEF SliceInv, SliceUnder, NodesInOrder
<1>2. /\ Len(nodes) \in Nat /\ DOMAIN nodes = 1 .. Len(nodes)
      /\ Len(sub) \in Nat /\ DOMAIN sub = 1 .. Len(sub)
      /\ Len(ordinals) \in Nat /\ DOMAIN ordinals = 1 .. Len(ordinals)
  BY <1>1, SequenceShape DEF InOrder, CopiedTo
<1>3. \A n \in keep : /\ n \in DOMAIN nodes /\ n < at /\ CopyOf(n) /\ map[n] \in DOMAIN sub
                      /\ Slicing!Operands(nodes[n]) \subseteq keep
                      /\ Slicing!Operands(nodes[n]) \subseteq 1 .. (n - 1)
  <2>1. \A n \in keep : n \in DOMAIN nodes /\ n < at /\ n > 0
    BY <1>1, <1>2 DEF Marked
  <2>2. \A n \in keep : CopyOf(n)
    BY <1>1, <2>1 DEF CopiedTo
  <2> QED BY <1>1, <2>1, <2>2 DEF ClosedBehind, InOrder, CopyOf
<1>4. \A j \in DOMAIN sub : \E n \in keep : map[n] = j
  BY <1>1 DEF CopiedTo
<1>5. ASSUME NEW n \in keep PROVE Slicing!Operands(sub[map[n]]) = {map[x] : x \in Slicing!Operands(nodes[n])}
  <2>1. PICK was, is : was = nodes[n] /\ is = sub[map[n]]
    OBVIOUS
  <2>2. /\ is.op = was.op
        /\ was.op \notin {"Input", "Const"} => /\ is.a = Slicing!Renamed(was.a)
                                               /\ is.b = Slicing!Renamed(was.b)
                                               /\ is.c = Slicing!Renamed(was.c)
    BY <1>3, <2>1 DEF CopyOf
  <2>3. \A x \in Slicing!Operands(was) : map[x] # Slicing!Unset
    <3>1. \A x \in keep : map[x] \in 1 .. Len(sub)
      BY <1>2, <1>3
    <3> QED BY <1>2, <1>3, <2>1, <3>1 DEF Slicing!Unset
  <2> QED BY <2>1, <2>2, <2>3 DEF Slicing!Operands, Slicing!Renamed
<1>6. \A j \in DOMAIN sub : Slicing!Operands(sub[j]) \subseteq 1 .. (j - 1)
  <2>1. ASSUME NEW n \in keep, NEW x \in Slicing!Operands(nodes[n]) PROVE map[x] \in 1 .. (map[n] - 1)
    <3>1. map[x] < map[n] /\ map[x] \in 1 .. Len(sub) /\ map[n] \in 1 .. Len(sub)
      BY <1>2, <1>3 DEF CopyOf
    <3> QED BY <1>2, <3>1
  <2> QED BY <1>4, <1>5, <2>1
<1> DEFINE same == [o \in Nat |-> o]
           was == Slicing!TreeOf(nodes, same)
           is == Slicing!TreeOf(sub, ordinals)
<1>7. \A n \in DOMAIN nodes : was[n] = TreeAt(nodes, same, was, n)
  <2> HIDE DEF same
  <2> QED BY <1>1, <1>2, TreesOf DEF InOrder
<1>8. \A j \in DOMAIN sub : is[j] = TreeAt(sub, ordinals, is, j)
  BY <1>2, <1>6, TreesOf
<1>9. \A o \in Nat : same[o] = o
  OBVIOUS
<1> HIDE DEF same, was, is
<1> DEFINE other == {n \in keep : is[map[n]] # was[n]}
<1>10. other = {}
  <2> SUFFICES ASSUME other # {} PROVE FALSE
    OBVIOUS
  <2>1. other \in SUBSET Nat
    BY <1>2, <1>3
  <2> HIDE DEF other
  <2>2. PICK n \in other : \A m \in other : n <= m
    BY <2>1, LeastOf
  <2>3. n \in keep /\ is[map[n]] # was[n] /\ n \in Nat
    BY <1>2, <1>3, <2>2 DEF other
  <2>4. ASSUME NEW x \in Slicing!Operands(nodes[n]) PROVE is[map[x]] = was[x] /\ map[x] # Slicing!Unset
    <3>1. x \in keep /\ x \in 1 .. (n - 1)
      BY <1>3, <2>3
    <3>2. x \notin other
      <4>1. ~(n <= x)
        BY <2>3, <3>1
      <4> QED BY <2>2, <4>1
    <3>3. map[x] \in 1 .. Len(sub)
      BY <1>2, <1>3, <3>1
    <3> QED BY <1>2, <3>1, <3>2, <3>3 DEF other, Slicing!Unset
  <2>5. PICK u, v, j : u = nodes[n] /\ j = map[n] /\ v = sub[j]
    OBVIOUS
  <2>6. /\ j \in DOMAIN sub /\ n \in DOMAIN nodes
        /\ v.op = u.op
        /\ u.op = "Const" => v = u
        /\ u.op = "Input" => v.a \in DOMAIN ordinals /\ ordinals[v.a] = u.a
        /\ u.op \notin {"Input", "Const"} => /\ v.a = Slicing!Renamed(u.a)
                                             /\ v.b = Slicing!Renamed(u.b)
                                             /\ v.c = Slicing!Renamed(u.c)
    BY <1>3, <2>3, <2>5 DEF CopyOf
  <2>7. is[j] = TreeAt(sub, ordinals, is, j) /\ was[n] = TreeAt(nodes, same, was, n)
    BY <1>7, <1>8, <2>6
  <2>8. CASE u.op = "Const"
    <3>1. TreeAt(sub, ordinals, is, j) = <<"Const", u.b>> /\ TreeAt(nodes, same, was, n) = <<"Const", u.b>>
      BY <2>5, <2>6, <2>8 DEF TreeAt
    <3> QED BY <2>3, <2>5, <2>7, <3>1
  <2>9. CASE u.op = "Input"
    <3>1. u.a \in Nat
      BY <1>1, <2>5, <2>6, <2>9 DEF InOrder
    <3>2. TreeAt(sub, ordinals, is, j) = <<"Input", u.a>> /\ TreeAt(nodes, same, was, n) = <<"Input", u.a>>
      BY <1>9, <2>5, <2>6, <2>9, <3>1 DEF TreeAt
    <3> QED BY <2>3, <2>5, <2>7, <3>2
  <2>10. CASE u.op \notin {"Input", "Const"}
    <3>1. ASSUME NEW x \in {u.a, u.b, u.c} PROVE Grown(is, Slicing!Renamed(x)) = Grown(was, x)
      <4>1. CASE x = Slicing!Unset
        BY <4>1 DEF Grown, Slicing!Renamed
      <4>2. CASE x # Slicing!Unset
        <5>1. x \in Slicing!Operands(nodes[n])
          BY <2>5, <2>10, <4>2 DEF Slicing!Operands
        <5> QED BY <2>4, <4>2, <5>1 DEF Grown, Slicing!Renamed
      <4> QED BY <4>1, <4>2
    <3>2. TreeAt(sub, ordinals, is, j) = <<v.op, Grown(is, v.a), Grown(is, v.b), Grown(is, v.c)>>
      BY <2>5, <2>6, <2>10 DEF TreeAt
    <3>3. TreeAt(nodes, same, was, n) = <<u.op, Grown(was, u.a), Grown(was, u.b), Grown(was, u.c)>>
      BY <2>5, <2>10 DEF TreeAt
    <3> QED BY <2>3, <2>5, <2>6, <2>7, <2>10, <3>1, <3>2, <3>3
  <2> QED BY <2>8, <2>9, <2>10
<1>11. \A r \in DOMAIN roots : is[outputs[r]] = was[roots[r]]
  <2>1. \A r \in DOMAIN roots : roots[r] \in keep /\ outputs[r] = map[roots[r]]
    BY <1>1 DEF Marked
  <2> QED BY <1>10, <2>1
<1>12. ASSUME NEW j \in DOMAIN sub
       PROVE  \/ \E r \in DOMAIN outputs : outputs[r] = j
              \/ \E l \in DOMAIN sub : j < l /\ j \in Slicing!Operands(sub[l])
  <2>1. PICK n \in keep : map[n] = j
    BY <1>4
  <2>2. CASE \E r \in DOMAIN roots : roots[r] = n
    BY <1>1, <2>1, <2>2
  <2>3. ASSUME NEW m \in keep, n \in Slicing!Operands(nodes[m])
        PROVE  \E l \in DOMAIN sub : j < l /\ j \in Slicing!Operands(sub[l])
    <3>1. map[m] \in DOMAIN sub /\ map[n] < map[m]
      BY <1>3, <2>3 DEF CopyOf
    <3>2. j \in Slicing!Operands(sub[map[m]])
      BY <1>5, <2>1, <2>3
    <3> QED BY <2>1, <3>1, <3>2
  <2> QED BY <1>1, <2>2, <2>3 DEF Marked
<1>13. \A o, p \in DOMAIN ordinals : o < p => ordinals[o] < ordinals[p]
  BY <1>1 DEF CopiedTo
<1> QED BY <1>11, <1>12, <1>13 DEF Slicing!SliceComputesRoots, was, is, same

------------------------------------------------------------------------------
(* The calls of a block's program.                                         *)

Join(s, t) == s \o t
IsJoinOf(u, s, t) ==
  /\ IsSequence(u) /\ Len(u) = Len(s) + Len(t) /\ Len(s) \in Nat /\ Len(t) \in Nat
  /\ \A x \in 1 .. Len(s) : u[x] = s[x]
  /\ \A x \in 1 .. Len(t) : u[Len(s) + x] = t[x]

(* A join has the elements of one sequence, then those of the other.       *)
LEMMA Joined ==
  ASSUME NEW s, IsSequence(s), NEW t, IsSequence(t)
  PROVE  IsJoinOf(Join(s, t), s, t)
<1> DEFINE S == {s[x] : x \in DOMAIN s} \cup {t[x] : x \in DOMAIN t}
           u == Join(s, t)
<1>1. Len(s) \in Nat /\ DOMAIN s = 1 .. Len(s) /\ Len(t) \in Nat /\ DOMAIN t = 1 .. Len(t)
  BY SequenceShape
<1>2. s \in Seq(S) /\ t \in Seq(S)
  <2>1. s \in [1 .. Len(s) -> S] /\ t \in [1 .. Len(t) -> S]
    BY <1>1 DEF IsSequence
  <2> QED BY <1>1, <2>1
<1> HIDE DEF S
<1>3. /\ u \in Seq(S) /\ Len(u) = Len(s) + Len(t)
      /\ \A x \in 1 .. Len(u) : u[x] = IF x <= Len(s) THEN s[x] ELSE t[x - Len(s)]
  BY <1>2, ConcatProperties DEF Join
<1> HIDE DEF u
<1>4. DOMAIN u = 1 .. Len(u) /\ u \in [1 .. Len(u) -> {u[x] : x \in DOMAIN u}] /\ Len(u) \in Nat
  BY <1>3, LenProperties
<1>5. IsSequence(u)
  BY <1>4 DEF IsSequence
<1>6. \A x \in 1 .. Len(s) : u[x] = s[x]
  BY <1>1, <1>3
<1>7. ASSUME NEW x \in 1 .. Len(t) PROVE u[Len(s) + x] = t[x]
  <2>1. Len(s) + x \in 1 .. Len(u) /\ ~(Len(s) + x <= Len(s)) /\ Len(s) + x - Len(s) = x
    BY <1>1, <1>3
  <2> QED BY <1>3, <2>1
<1> QED BY <1>1, <1>3, <1>5, <1>6, <1>7 DEF u, IsJoinOf

(* A multiple and less than one more are told apart from the next.         *)
LEMMA QuotientIsOne ==
  ASSUME NEW l \in Nat \ {0}, NEW q \in Int, NEW p \in Int, NEW r \in 0 .. (l - 1), NEW s \in 0 .. (l - 1),
         q * l + r = p * l + s
  PROVE  q = p /\ r = s
<1>1. ASSUME NEW x \in Int, NEW y \in Int, NEW u \in 0 .. (l - 1), NEW v \in 0 .. (l - 1), x < y
      PROVE x * l + u < y * l + v
  <2>1. (x + 1) * l <= y * l
    <3>1. \A m, n \in Int : m <= n => m * l <= n * l
      OBVIOUS
    <3> QED BY <1>1, <3>1
  <2>2. (x + 1) * l = x * l + l
    OBVIOUS
  <2>3. PICK a, b : a = x * l /\ b = y * l /\ a \in Int /\ b \in Int
    OBVIOUS
  <2>4. a + l <= b
    BY <2>1, <2>2, <2>3
  <2>5. a + u < b + v
    BY <2>3, <2>4
  <2> QED BY <2>3, <2>5
<1>2. q = p
  <2>1. PICK a, b : a = q * l + r /\ b = p * l + s /\ a \in Int /\ b \in Int
    OBVIOUS
  <2> QED BY <1>1, <2>1
<1>3. PICK a : a = q * l /\ a \in Int
  OBVIOUS
<1> QED BY <1>2, <1>3

LEMMA QuotientOf ==
  ASSUME NEW l \in Nat \ {0}, NEW q \in Nat, NEW r \in 0 .. (l - 1)
  PROVE  (q * l + r) \div l = q
<1>1. PICK n : n = q * l + r /\ n \in Nat
  OBVIOUS
<1>2. n = (n \div l) * l + (n % l) /\ n % l \in 0 .. (l - 1) /\ n \div l \in Int
  BY <1>1
<1>3. PICK d, m : d = n \div l /\ m = n % l
  OBVIOUS
<1> QED BY <1>1, <1>2, <1>3, QuotientIsOne

(* The cells of a buffer laid out for l lanes are those of its items, each *)
(* of one item and one lane.                                               *)
LEMMA CellsApart ==
  ASSUME NEW l \in Nat \ {0}, NEW x \in Nat \ {0}, NEW b \in 1 .. l
  PROVE  /\ (Caller!Cell(x, l, b) - 1) \div l + 1 = x
         /\ \A n \in Nat : x <= n => Caller!Cell(x, l, b) \in 1 .. (n * l)
         /\ \A y \in Nat \ {0}, c \in 1 .. l : Caller!Cell(x, l, b) = Caller!Cell(y, l, c) => x = y /\ b = c
<1>1. PICK q, r : q = x - 1 /\ r = b - 1 /\ q \in Nat /\ r \in 0 .. (l - 1)
  OBVIOUS
<1>2. PICK n : n = q * l + r /\ n \in Nat
  BY <1>1
<1>3. Caller!Cell(x, l, b) = n + 1
  <2>1. PICK a : a = q * l /\ a \in Int
    BY <1>1
  <2>2. Caller!Cell(x, l, b) = a + b
    BY <1>1, <2>1 DEF Caller!Cell
  <2> QED BY <1>1, <1>2, <2>1, <2>2
<1>4. n \div l = q
  BY <1>1, <1>2, QuotientOf
<1>5. (Caller!Cell(x, l, b) - 1) \div l + 1 = x
  <2>1. Caller!Cell(x, l, b) - 1 = n
    BY <1>2, <1>3
  <2> QED BY <1>1, <1>4, <2>1
<1>6. ASSUME NEW m \in Nat, x <= m PROVE Caller!Cell(x, l, b) \in 1 .. (m * l)
  <2>1. (q + 1) * l <= m * l
    <3>1. \A u, v \in Int : u <= v => u * l <= v * l
      OBVIOUS
    <3> QED BY <1>1, <1>6, <3>1
  <2>2. (q + 1) * l = q * l + l
    BY <1>1
  <2>3. PICK a, e : a = q * l /\ e = m * l /\ a \in Int /\ e \in Int
    BY <1>1
  <2>4. a + l <= e /\ n = a + r
    BY <1>2, <2>1, <2>2, <2>3
  <2> QED BY <1>1, <1>2, <1>3, <2>3, <2>4
<1>7. ASSUME NEW y \in Nat \ {0}, NEW c \in 1 .. l, Caller!Cell(x, l, b) = Caller!Cell(y, l, c)
      PROVE  x = y /\ b = c
  <2>1. PICK p, s : p = y - 1 /\ s = c - 1 /\ p \in Nat /\ s \in 0 .. (l - 1)
    OBVIOUS
  <2>2. Caller!Cell(y, l, c) = (p * l + s) + 1
    <3>1. PICK a : a = p * l /\ a \in Int
      BY <2>1
    <3>2. Caller!Cell(y, l, c) = a + c
      BY <2>1, <3>1 DEF Caller!Cell
    <3> QED BY <2>1, <3>1, <3>2
  <2>3. q * l + r = p * l + s
    <3>1. PICK a : a = p * l + s /\ a \in Int
      BY <2>1
    <3> QED BY <1>2, <1>3, <1>7, <2>2, <3>1
  <2>4. q = p /\ r = s
    BY <1>1, <2>1, <2>3, QuotientIsOne
  <2> QED BY <1>1, <2>1, <2>4
<1> QED BY <1>5, <1>6, <1>7

(* The point a call with number c is made at, and the rows it answers.     *)
PointOf(c) ==
  [x \in Caller!Slots |->
     IF Caller!UnknownsAt(x) = {}
     THEN <<"p", Caller!Cardinality({m \in 1 .. x : Caller!UnknownsAt(m) = {}}), c>>
     ELSE <<"z", CHOOSE j \in Caller!UnknownsAt(x) : TRUE, c>>]
PointOfBlock(b, c) ==
  [x \in DOMAIN b.reads |->
     IF {j \in DOMAIN b.unknowns : b.unknowns[j] = b.reads[x]} = {}
     THEN <<"p", Caller!Cardinality({m \in 1 .. x : {j \in DOMAIN b.unknowns : b.unknowns[j] = b.reads[m]} = {}}), c>>
     ELSE <<"z", CHOOSE j \in {j \in DOMAIN b.unknowns : b.unknowns[j] = b.reads[x]} : TRUE, c>>]
UnknownRow(point, seeded) == [j \in DOMAIN zSlot |-> Caller!Pulled(zSlot[j], point, seeded)]
ParameterRow(point, seeded) ==
  [x \in {x \in Caller!Slots : Caller!UnknownsAt(x) = {}} |-> Caller!Pulled(x, point, seeded)]

(* A program that was built has a slot for each unknown, and buffers for   *)
(* its widest chunk.                                                       *)
Built ==
  /\ block.rows \in Nat \ {0} /\ batch \in 1 .. block.rows
  /\ DOMAIN zSlot = DOMAIN block.unknowns
  /\ \A j \in DOMAIN zSlot : zSlot[j] \in Caller!SlotsOfUnknown(j)
  /\ DOMAIN state = 1 .. (Len(block.reads) * batch)
  /\ DOMAIN seeds = 1 .. (block.rows * batch)

(* The rows of a Jacobian done so far are those of the point it is asked   *)
(* at, each of one residual alone.                                         *)
RowsDone ==
  /\ row \in 0 .. block.rows
  /\ answer = [call |-> "jacobian", F |-> answer.F, z |-> answer.z, p |-> answer.p]
  /\ IsSequence(answer.F) /\ Len(answer.F) = row
  /\ IsSequence(answer.z) /\ Len(answer.z) = row
  /\ IsSequence(answer.p) /\ Len(answer.p) = row
  /\ \A n \in 1 .. row : /\ answer.F[n] = Caller!Value(n, PointOf(calls))
                         /\ answer.z[n] = UnknownRow(PointOf(calls), Caller!UnitSeeds(n))
                         /\ answer.p[n] = ParameterRow(PointOf(calls), Caller!UnitSeeds(n))

CallUnder ==
  /\ block \in Blocks /\ calls \in Nat
  /\ step \in {"new", "ready", "jacobian", "refused"}
  /\ step = "new" => calls = 0
  /\ step \in {"ready", "jacobian"} => Built
  /\ step = "jacobian" => RowsDone
  /\ Caller!CallsAreOfTheirPoint

CallInv == step = "idle" \/ CallUnder

LEMMA CardinalityCalled == \A S : Caller!Cardinality(S) = Cardinality(S)
BY DEF Cardinality, Caller!Cardinality

LEMMA BlockIsOnce ==
  ASSUME block \in Blocks
  PROVE  /\ Len(block.reads) \in Nat /\ Caller!Slots = 1 .. Len(block.reads)
         /\ Caller!Cardinality(Caller!Slots) = Len(block.reads)
         /\ block.rows \in Nat
         /\ \A x, y \in DOMAIN block.reads : block.reads[x] = block.reads[y] => x = y
         /\ \A x, y \in DOMAIN block.unknowns : block.unknowns[x] = block.unknowns[y] => x = y
         /\ DOMAIN block.unknowns = 1 .. Len(block.unknowns) /\ Len(block.unknowns) \in Nat
<1>1. block.rows \in Nat /\ Caller!Once(block.reads) /\ Caller!Once(block.unknowns)
  BY BlocksAssumption DEF Caller!CallsAssumption
<1>2. PICK l : l = Len(block.reads)
  OBVIOUS
<1>3. l \in Nat /\ DOMAIN block.reads = 1 .. l
  BY <1>1, <1>2 DEF Caller!Once
<1>4. Cardinality(1 .. l) = l
  BY <1>3, FS_Interval
<1> QED BY <1>1, <1>2, <1>3, <1>4, CardinalityCalled DEF Caller!Once, Caller!Slots

(* What fill_state gives a slot is the point of the call.                  *)
LEMMA GivenIsPoint ==
  ASSUME block \in Blocks, Built, NEW x \in Caller!Slots
  PROVE  /\ Caller!IsParameter(x) <=> Caller!UnknownsAt(x) = {}
         /\ Caller!Given(x) = PointOf(calls)[x]
<1>1. ASSUME NEW y \in Caller!Slots, NEW j \in DOMAIN zSlot
      PROVE  zSlot[j] = y <=> j \in Caller!UnknownsAt(y)
  <2>1. zSlot[j] \in DOMAIN block.reads /\ block.reads[zSlot[j]] = block.unknowns[j] /\ j \in DOMAIN block.unknowns
    BY DEF Built, Caller!SlotsOfUnknown, Caller!Slots
  <2>2. zSlot[j] = y <=> block.reads[zSlot[j]] = block.reads[y]
    BY <2>1, BlockIsOnce DEF Caller!Slots
  <2> QED BY <2>1, <2>2 DEF Caller!UnknownsAt
<1>2. \A y \in Caller!Slots : Caller!UnknownsAt(y) \subseteq DOMAIN zSlot
  BY DEF Built, Caller!UnknownsAt
<1>3. \A y \in Caller!Slots : Caller!IsParameter(y) <=> Caller!UnknownsAt(y) = {}
  BY <1>1, <1>2 DEF Caller!IsParameter
<1>4. CASE Caller!UnknownsAt(x) = {}
  <2>1. {m \in 1 .. x : Caller!IsParameter(m)} = {m \in 1 .. x : Caller!UnknownsAt(m) = {}}
    <3>1. 1 .. x \subseteq Caller!Slots
      BY BlockIsOnce
    <3> QED BY <1>3, <3>1
  <2>2. Caller!IsParameter(x)
    BY <1>3, <1>4
  <2> QED BY <1>3, <1>4, <2>1, <2>2 DEF Caller!Given, Caller!ParameterAt, PointOf
<1>5. CASE Caller!UnknownsAt(x) # {}
  <2>1. \A j, l \in Caller!UnknownsAt(x) : j = l
    BY BlockIsOnce DEF Caller!UnknownsAt
  <2>2. (CHOOSE j \in Caller!UnknownsAt(x) : TRUE) \in Caller!UnknownsAt(x)
    BY <1>5
  <2>3. \E j \in DOMAIN zSlot : zSlot[j] = x
    BY <1>1, <1>2, <1>5
  <2>4. (CHOOSE j \in DOMAIN zSlot : zSlot[j] = x) \in Caller!UnknownsAt(x)
    <3>1. PICK l : l = CHOOSE j \in DOMAIN zSlot : zSlot[j] = x
      OBVIOUS
    <3>2. l \in DOMAIN zSlot /\ zSlot[l] = x
      BY <2>3, <3>1
    <3> QED BY <1>1, <3>1, <3>2
  <2>5. ~Caller!IsParameter(x)
    BY <1>3, <1>5
  <2>6. (CHOOSE j \in DOMAIN zSlot : zSlot[j] = x) = CHOOSE j \in Caller!UnknownsAt(x) : TRUE
    BY <2>1, <2>2, <2>4
  <2>7. Caller!Given(x) = <<"z", CHOOSE j \in DOMAIN zSlot : zSlot[j] = x, calls>>
    BY <2>5 DEF Caller!Given
  <2>8. PointOf(calls)[x] = <<"z", CHOOSE j \in Caller!UnknownsAt(x) : TRUE, calls>>
    BY <1>5 DEF PointOf
  <2> QED BY <1>3, <2>6, <2>7, <2>8
<1> QED BY <1>3, <1>4, <1>5

(* Every lane of a chunk is filled with that point,                        *)
LEMMA LanesAtPoint ==
  ASSUME block \in Blocks, Built, NEW l \in 1 .. batch, NEW b \in 1 .. l
  PROVE  /\ Caller!Lane(Caller!Filled(l), Caller!Slots, l, b) = PointOf(calls)
         /\ DOMAIN Caller!Filled(l) = DOMAIN state
<1>1. PICK n : n = Len(block.reads)
  OBVIOUS
<1>2. /\ n \in Nat /\ Caller!Slots = 1 .. n /\ Caller!Cardinality(Caller!Slots) = n
      /\ l \in Nat \ {0} /\ batch \in Nat /\ l <= batch /\ DOMAIN state = 1 .. (n * batch)
  BY <1>1, BlockIsOnce DEF Built
<1>3. n * l <= n * batch /\ n * l \in Nat /\ n * batch \in Nat
  BY <1>2
<1>4. ASSUME NEW x \in Caller!Slots PROVE Caller!Filled(l)[Caller!Cell(x, l, b)] = PointOf(calls)[x]
  <2>1. PICK c : c = Caller!Cell(x, l, b)
    OBVIOUS
  <2>2. c \in 1 .. (n * l) /\ (c - 1) \div l + 1 = x
    <3>1. x \in Nat \ {0} /\ x <= n
      BY <1>2
    <3>2. /\ (Caller!Cell(x, l, b) - 1) \div l + 1 = x
          /\ \A m \in Nat : x <= m => Caller!Cell(x, l, b) \in 1 .. (m * l)
      BY <1>2, <3>1, CellsApart
    <3>3. Caller!Cell(x, l, b) \in 1 .. (n * l)
      BY <1>2, <3>1, <3>2
    <3> QED BY <2>1, <3>2, <3>3
  <2>3. c \in DOMAIN state /\ c <= n * l
    BY <1>2, <1>3, <2>2
  <2>4. Caller!Filled(l)[c] = Caller!Given(x)
    BY <1>2, <2>2, <2>3 DEF Caller!Filled
  <2> QED BY <2>1, <2>4, GivenIsPoint
<1>5. PointOf(calls) = [x \in Caller!Slots |-> PointOf(calls)[x]]
  BY DEF PointOf
<1>6. Caller!Lane(Caller!Filled(l), Caller!Slots, l, b) = [x \in Caller!Slots |-> PointOf(calls)[x]]
  BY <1>4 DEF Caller!Lane
<1> QED BY <1>5, <1>6 DEF Caller!Filled

(* and seeded for one residual.                                            *)
LEMMA LanesOfOneRow ==
  ASSUME Built, NEW l \in 1 .. batch, NEW from \in Nat, from + l <= block.rows, NEW b \in 1 .. l
  PROVE  /\ Caller!Lane(Caller!SeededChunk(from, l), Caller!Rows, l, b) = Caller!UnitSeeds(from + b)
         /\ DOMAIN Caller!SeededChunk(from, l) = DOMAIN seeds
<1>1. PICK n : n = block.rows
  OBVIOUS
<1>2. /\ n \in Nat /\ Caller!Rows = 1 .. n
      /\ l \in Nat \ {0} /\ batch \in Nat /\ l <= batch /\ DOMAIN seeds = 1 .. (n * batch)
  BY <1>1 DEF Built, Caller!Rows
<1>3. n * l <= n * batch /\ n * l \in Nat /\ n * batch \in Nat
  BY <1>2
<1>4. ASSUME NEW r \in Caller!Rows
      PROVE  Caller!SeededChunk(from, l)[Caller!Cell(r, l, b)] = IF r = from + b THEN Caller!One ELSE Caller!Zero
  <2>1. PICK c : c = Caller!Cell(r, l, b)
    OBVIOUS
  <2>2. /\ c \in 1 .. (n * l)
        /\ \A y \in Nat \ {0}, d \in 1 .. l : c = Caller!Cell(y, l, d) => r = y /\ b = d
    <3>1. r \in Nat \ {0} /\ r <= n
      BY <1>2
    <3>2. /\ \A m \in Nat : r <= m => Caller!Cell(r, l, b) \in 1 .. (m * l)
          /\ \A y \in Nat \ {0}, d \in 1 .. l :
               Caller!Cell(r, l, b) = Caller!Cell(y, l, d) => r = y /\ b = d
      BY <1>2, <3>1, CellsApart
    <3>3. Caller!Cell(r, l, b) \in 1 .. (n * l)
      BY <1>2, <3>1, <3>2
    <3> QED BY <2>1, <3>2, <3>3
  <2>3. c \in DOMAIN seeds /\ c <= n * l
    BY <1>2, <1>3, <2>2
  <2>4. (\E d \in 1 .. l : c = Caller!Cell(from + d, l, d)) <=> r = from + b
    <3>1. \A d \in 1 .. l : from + d \in Nat \ {0}
      BY <1>2
    <3> QED BY <2>1, <2>2, <3>1
  <2>5. Caller!SeededChunk(from, l)[c] =
          IF \E d \in 1 .. l : c = Caller!Cell(from + d, l, d) THEN Caller!One
          ELSE IF c <= block.rows * l THEN Caller!Zero ELSE seeds[c]
    BY <2>3 DEF Caller!SeededChunk
  <2>6. c <= block.rows * l
    BY <1>1, <2>3
  <2> QED BY <2>1, <2>4, <2>5, <2>6
<1>5. Caller!Lane(Caller!SeededChunk(from, l), Caller!Rows, l, b) =
        [r \in Caller!Rows |-> IF r = from + b THEN Caller!One ELSE Caller!Zero]
  BY <1>4 DEF Caller!Lane
<1> QED BY <1>5 DEF Caller!UnitSeeds, Caller!SeededChunk

(* The rows a program answers are pulls of the unknowns and parameters.    *)
LEMMA RowsArePulls ==
  ASSUME block \in Blocks, Built, block' = block, zSlot' = zSlot, calls' = calls + 1, calls \in Nat
  PROVE  /\ Caller!OwnPoint' = PointOf(calls)
         /\ \A e, seeded :
              /\ e.z = UnknownRow(PointOf(calls), seeded)
              /\ e.p = ParameterRow(PointOf(calls), seeded)
              => Caller!PullsOf(e, seeded)'
<1>1. Caller!Slots' = Caller!Slots /\ \A x : Caller!UnknownsAt(x)' = Caller!UnknownsAt(x)
  BY DEF Caller!Slots, Caller!UnknownsAt
<1>2. calls' - 1 = calls
  OBVIOUS
<1>3. Caller!OwnPoint' = PointOf(calls)
  <2>1. Caller!OwnPoint' = PointOfBlock(block', calls' - 1)
    BY DEF Caller!OwnPoint, PointOfBlock, Caller!Slots, Caller!UnknownsAt
  <2>2. PointOf(calls) = PointOfBlock(block, calls)
    BY DEF PointOf, PointOfBlock, Caller!Slots, Caller!UnknownsAt
  <2> QED BY <1>2, <2>1, <2>2
<1>4. ASSUME NEW e, NEW seeded, e.z = UnknownRow(PointOf(calls), seeded), e.p = ParameterRow(PointOf(calls), seeded)
      PROVE  Caller!PullsOf(e, seeded)'
  <2>1. PICK point : point = PointOf(calls)
    OBVIOUS
  <2>2. ASSUME NEW j \in DOMAIN block.unknowns
        PROVE  \E x \in Caller!Slots : /\ block.reads[x] = block.unknowns[j]
                                       /\ e.z[j] = Caller!Pulled(x, point, seeded)
    <3>1. zSlot[j] \in Caller!Slots /\ block.reads[zSlot[j]] = block.unknowns[j] /\ j \in DOMAIN zSlot
      BY DEF Built, Caller!SlotsOfUnknown
    <3>2. e.z[j] = Caller!Pulled(zSlot[j], point, seeded)
      BY <1>4, <2>1, <3>1 DEF UnknownRow
    <3> QED BY <3>1, <3>2
  <2>3. e.p = [x \in {x \in Caller!Slots : Caller!UnknownsAt(x) = {}} |-> Caller!Pulled(x, point, seeded)]
    BY <1>4, <2>1 DEF ParameterRow
  <2>4. Caller!OwnPoint' = point
    BY <1>3, <2>1
  <2> QED BY <1>1, <2>2, <2>3, <2>4 DEF Caller!PullsOf, Caller!Pulled
<1> QED BY <1>3, <1>4

(* What a lane of a call pulls.                                            *)
LEMMA PulledRows ==
  ASSUME block \in Blocks, Built, NEW point, NEW seeded
  PROVE  /\ [j \in DOMAIN zSlot |-> Caller!Gradient(point, seeded)[zSlot[j]]] = UnknownRow(point, seeded)
         /\ [x \in {x \in Caller!Slots : Caller!IsParameter(x)} |-> Caller!Gradient(point, seeded)[x]]
              = ParameterRow(point, seeded)
<1>1. \A j \in DOMAIN zSlot : zSlot[j] \in Caller!Slots
  BY DEF Built, Caller!SlotsOfUnknown
<1>2. \A x \in Caller!Slots : Caller!Gradient(point, seeded)[x] = Caller!Pulled(x, point, seeded)
  BY DEF Caller!Gradient
<1>3. {x \in Caller!Slots : Caller!IsParameter(x)} = {x \in Caller!Slots : Caller!UnknownsAt(x) = {}}
  BY GivenIsPoint
<1> QED BY <1>1, <1>2, <1>3 DEF UnknownRow, ParameterRow

LEMMA BuildCall == ASSUME CallUnder, NEW max \in Batches, Caller!Construct(max) PROVE CallUnder'
<1>1. step = "new" /\ UNCHANGED <<block, row, calls, answer>> /\ calls = 0 /\ block \in Blocks
  BY DEF Caller!Construct, CallUnder
<1>2. ~(calls' > 0)
  BY <1>1
<1>3. CASE Caller!Refused
  BY <1>1, <1>2, <1>3 DEF CallUnder, Caller!Construct, Caller!CallsAreOfTheirPoint
<1>4. CASE ~Caller!Refused
  <2>1. /\ step' = "ready" /\ batch' = Caller!Min({max, block.rows})
        /\ zSlot' = [j \in DOMAIN block.unknowns |-> CHOOSE x \in Caller!SlotsOfUnknown(j) : TRUE]
        /\ state' = [c \in 1 .. (Caller!Cardinality(Caller!Slots) * batch') |-> Caller!Zero]
        /\ seeds' = [c \in 1 .. (block.rows * batch') |-> Caller!Zero]
    BY <1>4 DEF Caller!Construct
  <2>2. max \in Nat \ {0}
    BY BlocksAssumption DEF Caller!CallsAssumption
  <2>3. block.rows \in Nat \ {0}
    <3>1. block.rows \in Nat /\ Len(block.unknowns) \in Nat /\ DOMAIN block.unknowns = 1 .. Len(block.unknowns)
          /\ block.unknowns # <<>> /\ ~(block.rows < Len(block.unknowns))
      BY <1>1, <1>4, BlockIsOnce DEF Caller!Refused
    <3>2. Len(block.unknowns) # 0
      <4>1. block.unknowns \in Seq(Nat)
        BY <1>1, BlocksAssumption DEF Caller!CallsAssumption, Caller!Once
      <4> QED BY <3>1, <4>1, EmptySeq
    <3> QED BY <3>1, <3>2
  <2>4. batch' \in 1 .. block.rows
    <3>1. PICK r : r = block.rows
      OBVIOUS
    <3>2. \E m \in {max, r} : \A y \in {max, r} : m <= y
      BY <2>2, <2>3, <3>1
    <3>3. batch' = CHOOSE m \in {max, r} : \A y \in {max, r} : m <= y
      BY <2>1, <3>1 DEF Caller!Min
    <3>4. batch' \in {max, r} /\ batch' <= r
      BY <3>2, <3>3
    <3> QED BY <2>2, <2>3, <3>1, <3>4
  <2>5. \A j \in DOMAIN block.unknowns : zSlot'[j] \in Caller!SlotsOfUnknown(j)
    <3>1. \A j \in DOMAIN block.unknowns : Caller!SlotsOfUnknown(j) # {}
      BY <1>4 DEF Caller!Refused
    <3> QED BY <2>1, <3>1
  <2>6. Built'
    <3>1. Caller!Cardinality(Caller!Slots) = Len(block.reads)
      BY <1>1, BlockIsOnce
    <3>2. \A j : Caller!SlotsOfUnknown(j)' = Caller!SlotsOfUnknown(j)
      BY <1>1 DEF Caller!SlotsOfUnknown, Caller!Slots
    <3> QED BY <1>1, <2>1, <2>3, <2>4, <2>5, <3>1, <3>2 DEF Built
  <2> QED BY <1>1, <1>2, <2>1, <2>6 DEF CallUnder, Caller!CallsAreOfTheirPoint
<1> QED BY <1>3, <1>4

(* A program stays built while its buffers keep their sizes.               *)
LEMMA StaysBuilt ==
  ASSUME Built, UNCHANGED <<block, zSlot, batch>>, DOMAIN state' = DOMAIN state, DOMAIN seeds' = DOMAIN seeds
  PROVE  Built'
BY DEF Built, Caller!SlotsOfUnknown, Caller!Slots

LEMMA EvaluateCall == ASSUME CallUnder, Caller!Evaluate PROVE CallUnder'
<1>1. /\ step = "ready" /\ step' = "ready" /\ calls \in Nat /\ calls' = calls + 1
      /\ UNCHANGED <<block, zSlot, batch, seeds>> /\ block \in Blocks /\ Built
      /\ state' = Caller!Filled(1)
      /\ answer' = Caller!EvaluateAt(Caller!Lane(state', Caller!Slots, 1, 1))
  BY DEF Caller!Evaluate, Caller!CallMade, CallUnder
<1>2. Caller!Lane(state', Caller!Slots, 1, 1) = PointOf(calls) /\ DOMAIN state' = DOMAIN state
  <2>1. 1 \in 1 .. batch /\ 1 \in 1 .. 1
    BY <1>1 DEF Built
  <2> QED BY <1>1, <2>1, LanesAtPoint
<1>3. Built'
  BY <1>1, <1>2, StaysBuilt
<1>4. Caller!OwnPoint' = PointOf(calls)
  BY <1>1, RowsArePulls
<1>5. Caller!CallsAreOfTheirPoint'
  <2>1. PICK point : point = PointOf(calls)
    OBVIOUS
  <2>2. answer' = [call |-> "evaluate", F |-> [n \in Caller!Rows |-> Caller!Value(n, point)]]
    BY <1>1, <1>2, <2>1 DEF Caller!EvaluateAt
  <2>3. answer'.call = "evaluate" /\ answer'.F = [n \in Caller!Rows |-> Caller!Value(n, point)]
    BY <2>2
  <2>4. Caller!Rows' = Caller!Rows /\ Caller!OwnPoint' = point
    BY <1>1, <1>4, <2>1 DEF Caller!Rows
  <2> QED BY <2>3, <2>4 DEF Caller!CallsAreOfTheirPoint, Caller!Value
<1> QED BY <1>1, <1>3, <1>5 DEF CallUnder

LEMMA ProductCall == ASSUME CallUnder, Caller!JtProduct PROVE CallUnder'
<1>1. /\ step = "ready" /\ step' = "ready" /\ calls \in Nat /\ calls' = calls + 1
      /\ UNCHANGED <<block, zSlot, batch>> /\ block \in Blocks /\ Built
      /\ state' = Caller!Filled(1)
      /\ seeds' = [c \in DOMAIN seeds |-> IF c \in Caller!Rows THEN Caller!Weight(c) ELSE seeds[c]]
  BY DEF Caller!JtProduct, Caller!CallMade, CallUnder
<1>2. Caller!Lane(state', Caller!Slots, 1, 1) = PointOf(calls) /\ DOMAIN state' = DOMAIN state
  <2>1. 1 \in 1 .. batch /\ 1 \in 1 .. 1
    BY <1>1 DEF Built
  <2> QED BY <1>1, <2>1, LanesAtPoint
<1>3. Built'
  BY <1>1, <1>2, StaysBuilt
<1>4. PICK point, weights : /\ point = PointOf(calls)
                            /\ weights = [r \in Caller!Rows |-> <<"weight", r, calls>>]
  OBVIOUS
<1>5. Caller!Lane(seeds', Caller!Rows, 1, 1) = weights
  <2>1. PICK n : n = block.rows
    OBVIOUS
  <2>2. n \in Nat /\ Caller!Rows = 1 .. n /\ DOMAIN seeds = 1 .. (n * batch) /\ batch \in Nat /\ 1 <= batch
    BY <1>1, <2>1 DEF Built, Caller!Rows
  <2>3. n <= n * batch /\ n * batch \in Nat
    <3>1. n * 1 <= n * batch
      BY <2>2
    <3> QED BY <2>2, <3>1
  <2>4. ASSUME NEW r \in Caller!Rows PROVE seeds'[Caller!Cell(r, 1, 1)] = <<"weight", r, calls>>
    <3>1. Caller!Cell(r, 1, 1) = r
      BY <2>2 DEF Caller!Cell
    <3>2. r \in DOMAIN seeds
      BY <2>2, <2>3
    <3> QED BY <1>1, <3>1, <3>2 DEF Caller!Weight
  <2> QED BY <1>4, <2>4 DEF Caller!Lane
<1>6. /\ answer'.call = "jt_product" /\ answer'.F = [n \in Caller!Rows |-> Caller!Value(n, point)]
      /\ answer'.z = UnknownRow(point, weights) /\ answer'.p = ParameterRow(point, weights)
  <2>1. PICK g : g = Caller!Gradient(point, weights)
    OBVIOUS
  <2>2. answer' = [call |-> "jt_product", F |-> [n \in Caller!Rows |-> Caller!Value(n, point)],
                   z |-> [j \in DOMAIN zSlot |-> g[zSlot[j]]],
                   p |-> [x \in {x \in Caller!Slots : Caller!IsParameter(x)} |-> g[x]]]
    BY <1>2, <1>4, <1>5, <2>1 DEF Caller!JtProduct
  <2> QED BY <1>1, <2>1, <2>2, PulledRows
<1>7. Caller!CallsAreOfTheirPoint'
  <2>1. PICK e : e = [z |-> answer'.z, p |-> answer'.p]
    OBVIOUS
  <2>2. e.z = UnknownRow(PointOf(calls), weights) /\ e.p = ParameterRow(PointOf(calls), weights)
    BY <1>4, <1>6, <2>1
  <2>3. Caller!PullsOf(e, weights)' /\ Caller!OwnPoint' = point
    BY <1>1, <1>4, <2>2, RowsArePulls
  <2>4. Caller!Rows' = Caller!Rows /\ calls' - 1 = calls
    BY <1>1 DEF Caller!Rows
  <2>5. Caller!Weights' = weights
    BY <1>4, <2>4 DEF Caller!Weights
  <2>6. Caller!PullsOf([z |-> answer.z, p |-> answer.p], Caller!Weights)'
    BY <2>1, <2>3, <2>5 DEF Caller!PullsOf
  <2> QED BY <1>6, <2>3, <2>4, <2>6 DEF Caller!CallsAreOfTheirPoint, Caller!Value
<1> QED BY <1>1, <1>3, <1>7 DEF CallUnder

LEMMA StartCall == ASSUME CallUnder, Caller!StartJacobian PROVE CallUnder'
<1>1. /\ step = "ready" /\ step' = "jacobian" /\ row' = 0 /\ calls \in Nat
      /\ answer' = [call |-> "jacobian", F |-> <<>>, z |-> <<>>, p |-> <<>>]
      /\ UNCHANGED <<block, zSlot, batch, calls, state, seeds>> /\ block \in Blocks /\ Built
  BY DEF Caller!StartJacobian, CallUnder
<1>2. Built'
  BY <1>1, StaysBuilt
<1>3. RowsDone'
  <2>1. IsSequence(<<>>) /\ Len(<<>>) = 0 /\ 1 .. 0 = {}
    BY DEF IsSequence
  <2>2. 0 \in 0 .. block.rows
    BY <1>1 DEF Built
  <2> QED BY <1>1, <2>1, <2>2 DEF RowsDone
<1> QED BY <1>1, <1>2, <1>3 DEF CallUnder, Caller!CallsAreOfTheirPoint

(* A chunk appends rows of the point of the call to those already done,    *)
(* the next residuals' in order.                                           *)
LEMMA ChunkIsWithin ==
  ASSUME Built, row \in 0 .. block.rows, row < block.rows
  PROVE  /\ Caller!Min({batch, block.rows - row}) \in 1 .. batch
         /\ row + Caller!Min({batch, block.rows - row}) \in 0 .. block.rows
<1>1. PICK b, left : b = batch /\ left = block.rows - row
  OBVIOUS
<1>2. b \in Nat \ {0} /\ left \in Nat \ {0} /\ block.rows \in Nat /\ row \in Nat
  BY <1>1 DEF Built
<1>3. \E m \in {b, left} : \A y \in {b, left} : m <= y
  BY <1>2
<1>4. PICK l : l = Caller!Min({b, left}) 
  OBVIOUS
<1>5. l \in {b, left} /\ l <= b /\ l <= left
  BY <1>3, <1>4 DEF Caller!Min
<1> QED BY <1>1, <1>2, <1>4, <1>5

LEMMA ChunkCall == ASSUME CallUnder, Caller!JacobianChunk PROVE CallUnder'
<1> DEFINE lanes == Caller!Min({batch, block.rows - row})
           filled == Caller!Filled(lanes)
           seeded == Caller!SeededChunk(row, lanes)
           lane(b) == Caller!Lane(filled, Caller!Slots, lanes, b)
           pulled(b) == Caller!Gradient(lane(b), Caller!Lane(seeded, Caller!Rows, lanes, b))
           Fs == [b \in 1 .. lanes |-> Caller!Value(row + b, lane(b))]
           zs == [b \in 1 .. lanes |-> [j \in DOMAIN zSlot |-> pulled(b)[zSlot[j]]]]
           ps == [b \in 1 .. lanes |-> [x \in {x \in Caller!Slots : Caller!IsParameter(x)} |-> pulled(b)[x]]]
<1>1. /\ step = "jacobian" /\ step' = "jacobian" /\ row < block.rows /\ row \in 0 .. block.rows
      /\ calls' = calls /\ calls \in Nat /\ block \in Blocks /\ Built /\ RowsDone
      /\ UNCHANGED <<block, zSlot, batch>>
      /\ state' = filled /\ seeds' = seeded /\ row' = row + lanes
      /\ answer' = [answer EXCEPT !.F = @ \o Fs, !.z = @ \o zs, !.p = @ \o ps]
  BY DEF Caller!JacobianChunk, CallUnder, RowsDone
<1>2. lanes \in 1 .. batch /\ row + lanes \in 0 .. block.rows /\ row \in Nat /\ lanes \in Nat
      /\ row + lanes <= block.rows
  <2>1. lanes \in 1 .. batch /\ row + lanes \in 0 .. block.rows
    BY <1>1, ChunkIsWithin
  <2>2. batch \in Nat /\ block.rows \in Nat
    BY <1>1 DEF Built
  <2> QED BY <1>1, <2>1, <2>2
<1> HIDE DEF lanes
<1>3. ASSUME NEW b \in 1 .. lanes
      PROVE  lane(b) = PointOf(calls) /\ Caller!Lane(seeded, Caller!Rows, lanes, b) = Caller!UnitSeeds(row + b)
  BY <1>1, <1>2, LanesAtPoint, LanesOfOneRow
<1>4. Built'
  <2>1. 1 \in 1 .. lanes
    BY <1>2
  <2>2. DOMAIN filled = DOMAIN state /\ DOMAIN seeded = DOMAIN seeds
    BY <1>1, <1>2, <2>1, LanesAtPoint, LanesOfOneRow
  <2> QED BY <1>1, <2>2, StaysBuilt
<1> HIDE DEF filled, seeded
<1>5. PICK point : point = PointOf(calls)
  OBVIOUS
<1>6. ASSUME NEW b \in 1 .. lanes
      PROVE  /\ Fs[b] = Caller!Value(row + b, point)
             /\ zs[b] = UnknownRow(point, Caller!UnitSeeds(row + b))
             /\ ps[b] = ParameterRow(point, Caller!UnitSeeds(row + b))
  <2>1. lane(b) = point /\ pulled(b) = Caller!Gradient(point, Caller!UnitSeeds(row + b))
    BY <1>3, <1>5
  <2>2. PICK unit : unit = Caller!UnitSeeds(row + b)
    OBVIOUS
  <2>3. /\ zs[b] = [j \in DOMAIN zSlot |-> Caller!Gradient(point, unit)[zSlot[j]]]
        /\ ps[b] = [x \in {x \in Caller!Slots : Caller!IsParameter(x)} |-> Caller!Gradient(point, unit)[x]]
    BY <2>1, <2>2
  <2>4. zs[b] = UnknownRow(point, unit) /\ ps[b] = ParameterRow(point, unit)
    BY <1>1, <2>3, PulledRows
  <2> QED BY <2>1, <2>2, <2>4
<1>7. IsSequence(Fs) /\ Len(Fs) = lanes /\ IsSequence(zs) /\ Len(zs) = lanes /\ IsSequence(ps) /\ Len(ps) = lanes
  BY <1>2, FunctionIsSequence
<1> HIDE DEF Fs, zs, ps, lane, pulled
<1>8. PICK F, z, p, fs, us, gs : /\ F = answer.F /\ z = answer.z /\ p = answer.p
                                 /\ fs = Fs /\ us = zs /\ gs = ps
  OBVIOUS
<1>9. answer' = [call |-> "jacobian", F |-> Join(F, fs), z |-> Join(z, us), p |-> Join(p, gs)]
  <2>1. answer = [call |-> "jacobian", F |-> F, z |-> z, p |-> p]
    BY <1>1, <1>8 DEF RowsDone
  <2>2. answer' = [answer EXCEPT !.F = Join(@, Fs), !.z = Join(@, zs), !.p = Join(@, ps)]
    BY <1>1, Zenon DEF Join
  <2>3. PICK J, K, L : J = Join(F, fs) /\ K = Join(z, us) /\ L = Join(p, gs)
    OBVIOUS
  <2>4. J = Join(answer.F, Fs) /\ K = Join(answer.z, zs) /\ L = Join(answer.p, ps)
    BY <1>8, <2>3
  <2>5. answer' = [answer EXCEPT !.F = J, !.z = K, !.p = L]
    BY <2>2, <2>4, Zenon
  <2>6. answer' = [call |-> "jacobian", F |-> J, z |-> K, p |-> L]
    BY <2>1, <2>5
  <2> QED BY <2>3, <2>6
<1>10. /\ IsSequence(F) /\ Len(F) = row /\ IsSequence(z) /\ Len(z) = row /\ IsSequence(p) /\ Len(p) = row
       /\ \A n \in 1 .. row : /\ F[n] = Caller!Value(n, point)
                              /\ z[n] = UnknownRow(point, Caller!UnitSeeds(n))
                              /\ p[n] = ParameterRow(point, Caller!UnitSeeds(n))
  BY <1>1, <1>5, <1>8 DEF RowsDone
<1>11. /\ IsSequence(Join(F, fs)) /\ Len(Join(F, fs)) = row + lanes
       /\ \A n \in 1 .. row : Join(F, fs)[n] = F[n]
       /\ \A n \in 1 .. lanes : Join(F, fs)[row + n] = fs[n]
  <2>1. IsSequence(F) /\ IsSequence(fs) /\ Len(F) = row /\ Len(fs) = lanes
    BY <1>7, <1>8, <1>10
  <2>2. IsJoinOf(Join(F, fs), F, fs)
    BY <2>1, Joined
  <2> QED BY <2>1, <2>2 DEF IsJoinOf
<1>12. /\ IsSequence(Join(z, us)) /\ Len(Join(z, us)) = row + lanes
       /\ \A n \in 1 .. row : Join(z, us)[n] = z[n]
       /\ \A n \in 1 .. lanes : Join(z, us)[row + n] = us[n]
  <2>1. IsSequence(z) /\ IsSequence(us) /\ Len(z) = row /\ Len(us) = lanes
    BY <1>7, <1>8, <1>10
  <2>2. IsJoinOf(Join(z, us), z, us)
    BY <2>1, Joined
  <2> QED BY <2>1, <2>2 DEF IsJoinOf
<1>13. /\ IsSequence(Join(p, gs)) /\ Len(Join(p, gs)) = row + lanes
       /\ \A n \in 1 .. row : Join(p, gs)[n] = p[n]
       /\ \A n \in 1 .. lanes : Join(p, gs)[row + n] = gs[n]
  <2>1. IsSequence(p) /\ IsSequence(gs) /\ Len(p) = row /\ Len(gs) = lanes
    BY <1>7, <1>8, <1>10
  <2>2. IsJoinOf(Join(p, gs), p, gs)
    BY <2>1, Joined
  <2> QED BY <2>1, <2>2 DEF IsJoinOf
<1>14. ASSUME NEW n \in 1 .. (row + lanes)
       PROVE  /\ Join(F, fs)[n] = Caller!Value(n, point)
              /\ Join(z, us)[n] = UnknownRow(point, Caller!UnitSeeds(n))
              /\ Join(p, gs)[n] = ParameterRow(point, Caller!UnitSeeds(n))
  <2>1. CASE n <= row
    BY <1>2, <1>10, <1>11, <1>12, <1>13, <2>1
  <2>2. CASE ~(n <= row)
    <3>1. PICK b : b = n - row
      OBVIOUS
    <3>2. b \in 1 .. lanes /\ row + b = n
      BY <1>2, <2>2, <3>1
    <3> QED BY <1>6, <1>8, <1>11, <1>12, <1>13, <3>2
  <2> QED BY <2>1, <2>2
<1>15. RowsDone'
  <2>1. PointOf(calls)' = point
    BY <1>1, <1>5 DEF PointOf, Caller!Slots, Caller!UnknownsAt
  <2>2. \A n : Caller!UnitSeeds(n)' = Caller!UnitSeeds(n)
    BY <1>1 DEF Caller!UnitSeeds, Caller!Rows
  <2>3. \A s : UnknownRow(point, s)' = UnknownRow(point, s) /\ ParameterRow(point, s)' = ParameterRow(point, s)
    BY <1>1 DEF UnknownRow, ParameterRow, Caller!Slots, Caller!UnknownsAt, Caller!Pulled
  <2>4. row' \in 0 .. block.rows /\ block' = block /\ row' = row + lanes
    BY <1>1, <1>2
  <2>5. ASSUME NEW n \in 1 .. row'
        PROVE  /\ answer'.F[n] = Caller!Value(n, PointOf(calls))'
               /\ answer'.z[n] = UnknownRow(PointOf(calls), Caller!UnitSeeds(n))'
               /\ answer'.p[n] = ParameterRow(PointOf(calls), Caller!UnitSeeds(n))'
    <3>1. /\ answer'.F[n] = Caller!Value(n, point)
          /\ answer'.z[n] = UnknownRow(point, Caller!UnitSeeds(n))
          /\ answer'.p[n] = ParameterRow(point, Caller!UnitSeeds(n))
      BY <1>9, <1>14, <2>4
    <3>2. PICK unit : unit = Caller!UnitSeeds(n)
      OBVIOUS
    <3>3. Caller!UnitSeeds(n)' = unit
      BY <2>2, <3>2
    <3>4. UnknownRow(PointOf(calls), Caller!UnitSeeds(n))' = UnknownRow(point, unit)
      BY <1>1, <2>1, <3>3 DEF UnknownRow, Caller!Pulled
    <3>5. ParameterRow(PointOf(calls), Caller!UnitSeeds(n))' = ParameterRow(point, unit)
      BY <1>1, <2>1, <3>3 DEF ParameterRow, Caller!Pulled, Caller!Slots, Caller!UnknownsAt
    <3> QED BY <2>1, <3>1, <3>2, <3>4, <3>5 DEF Caller!Value
  <2>6. /\ answer' = [call |-> "jacobian", F |-> answer'.F, z |-> answer'.z, p |-> answer'.p]
        /\ IsSequence(answer'.F) /\ Len(answer'.F) = row' /\ IsSequence(answer'.z) /\ Len(answer'.z) = row'
        /\ IsSequence(answer'.p) /\ Len(answer'.p) = row'
    BY <1>9, <1>11, <1>12, <1>13, <2>4
  <2> QED BY <2>4, <2>5, <2>6 DEF RowsDone
<1> QED BY <1>1, <1>4, <1>15 DEF CallUnder, Caller!CallsAreOfTheirPoint

RowPulls(n) == Caller!PullsOf([z |-> answer.z[n], p |-> answer.p[n]], Caller!UnitSeeds(n))

(* A Jacobian's rows are all done when it answers.                         *)
LEMMA EndCall == ASSUME CallUnder, Caller!EndJacobian PROVE CallUnder'
<1>1. /\ step = "jacobian" /\ step' = "ready" /\ row = block.rows /\ calls \in Nat /\ calls' = calls + 1
      /\ UNCHANGED <<block, zSlot, batch, state, seeds, answer>> /\ block \in Blocks /\ Built /\ RowsDone
  BY DEF Caller!EndJacobian, CallUnder
<1>2. Built'
  BY <1>1, StaysBuilt
<1>3. Caller!OwnPoint' = PointOf(calls)
  BY <1>1, RowsArePulls
<1>4. PICK point : point = PointOf(calls)
  OBVIOUS
<1>5. answer'.call = "jacobian"
  <2>1. PICK F, z, p : F = answer.F /\ z = answer.z /\ p = answer.p
    OBVIOUS
  <2>2. answer = [call |-> "jacobian", F |-> F, z |-> z, p |-> p]
    BY <1>1, <2>1 DEF RowsDone
  <2> QED BY <1>1, <2>2
<1>6. answer'.F = [n \in Caller!Rows |-> Caller!Value(n, point)]
  <2>1. PICK F : F = answer.F
    OBVIOUS
  <2>2. IsSequence(F) /\ Len(F) = block.rows /\ \A n \in 1 .. block.rows : F[n] = Caller!Value(n, point)
    BY <1>1, <1>4, <2>1 DEF RowsDone
  <2>3. F = [n \in 1 .. block.rows |-> F[n]]
    BY <2>2, SequenceShape DEF IsSequence
  <2>4. F = [n \in 1 .. block.rows |-> Caller!Value(n, point)]
    BY <2>2, <2>3
  <2> QED BY <1>1, <2>1, <2>4 DEF Caller!Rows
<1>7. ASSUME NEW n \in Caller!Rows
      PROVE  RowPulls(n)'
  <2>1. PICK e, unit : e = [z |-> answer.z[n], p |-> answer.p[n]] /\ unit = Caller!UnitSeeds(n)
    OBVIOUS
  <2>2. e.z = UnknownRow(PointOf(calls), unit) /\ e.p = ParameterRow(PointOf(calls), unit)
    BY <1>1, <2>1 DEF RowsDone, Caller!Rows
  <2>3. Caller!PullsOf(e, unit)'
    BY <1>1, <2>2, RowsArePulls
  <2>4. Caller!UnitSeeds(n)' = unit
    BY <1>1, <2>1 DEF Caller!UnitSeeds, Caller!Rows
  <2>5. [z |-> answer.z[n], p |-> answer.p[n]]' = e
    BY <1>1, <2>1
  <2> QED BY <2>3, <2>4, <2>5 DEF Caller!PullsOf, RowPulls
<1>8. Caller!Rows' = Caller!Rows
  BY <1>1 DEF Caller!Rows
<1>9. Caller!CallsAreOfTheirPoint'
  <2>1. answer'.F = [n \in Caller!Rows |-> Caller!Value(n, Caller!OwnPoint)]'
    BY <1>3, <1>4, <1>6, <1>8 DEF Caller!Value
  <2>2. \A n \in Caller!Rows' : RowPulls(n)'
    BY <1>7, <1>8
  <2>3. answer'.call # "jt_product"
    BY <1>5
  <2> QED BY <2>1, <2>2, <2>3 DEF Caller!CallsAreOfTheirPoint, RowPulls
<1> QED BY <1>1, <1>2, <1>9 DEF CallUnder

LEMMA CallNextInv == CallInv /\ [Next]_vars => CallInv'
<1> SUFFICES ASSUME CallInv, [Next]_vars PROVE CallInv'
  OBVIOUS
<1>1. UNCHANGED callVars \/ Caller!ProgramNext
  BY DEF Next, vars
<1>2. CASE UNCHANGED callVars
  <2>1. CASE step = "idle"
    BY <1>2, <2>1 DEF callVars, CallInv
  <2>2. CASE CallUnder
    <3>1. step' = step /\ block' = block /\ zSlot' = zSlot /\ batch' = batch /\ row' = row
          /\ calls' = calls /\ state' = state /\ seeds' = seeds /\ answer' = answer
      BY <1>2 DEF callVars
    <3>2. Built' <=> Built
      BY <3>1 DEF Built, Caller!SlotsOfUnknown, Caller!Slots
    <3>3. RowsDone' <=> RowsDone
      BY <3>1 DEF RowsDone, PointOf, UnknownRow, ParameterRow, Caller!UnitSeeds, Caller!Rows, Caller!Slots,
                  Caller!UnknownsAt, Caller!Value, Caller!Pulled
    <3>4. Caller!CallsAreOfTheirPoint' <=> Caller!CallsAreOfTheirPoint
      BY <3>1 DEF Caller!CallsAreOfTheirPoint, Caller!OwnPoint, Caller!Rows, Caller!PullsOf, Caller!Slots,
                  Caller!UnknownsAt, Caller!UnitSeeds, Caller!Weights, Caller!Value, Caller!Pulled
    <3>5. CallUnder'
      BY <2>2, <3>1, <3>2, <3>3, <3>4 DEF CallUnder
    <3> QED BY <3>5 DEF CallInv
  <2> QED BY <2>1, <2>2 DEF CallInv
<1>3. CASE Caller!ProgramNext
  <2>1. step # "idle"
    BY <1>3 DEF Caller!ProgramNext, Caller!Construct, Caller!Evaluate, Caller!JtProduct, Caller!CallMade,
                Caller!StartJacobian, Caller!JacobianChunk, Caller!EndJacobian
  <2>2. CallUnder
    BY <2>1 DEF CallInv
  <2>3. ASSUME \E max \in Batches : Caller!Construct(max) PROVE CallUnder'
    BY <2>2, <2>3, BuildCall
  <2>4. ASSUME Caller!Evaluate PROVE CallUnder'
    BY <2>2, <2>4, EvaluateCall
  <2>5. ASSUME Caller!JtProduct PROVE CallUnder'
    BY <2>2, <2>5, ProductCall
  <2>6. ASSUME Caller!StartJacobian PROVE CallUnder'
    BY <2>2, <2>6, StartCall
  <2>7. ASSUME Caller!JacobianChunk PROVE CallUnder'
    BY <2>2, <2>7, ChunkCall
  <2>8. ASSUME Caller!EndJacobian PROVE CallUnder'
    BY <2>2, <2>8, EndCall
  <2>9. CallUnder'
    BY <1>3, <2>3, <2>4, <2>5, <2>6, <2>7, <2>8 DEF Caller!ProgramNext
  <2> QED BY <2>9 DEF CallInv
<1> QED BY <1>1, <1>2, <1>3

LEMMA SlicesAndCallsStart == Init => ExportInv /\ NodesInOrder /\ SliceInv /\ CallInv
<1> SUFFICES ASSUME Init PROVE ExportInv /\ NodesInOrder /\ SliceInv /\ CallInv
  OBVIOUS
<1>1. SliceInv
  BY DEF Init, NoSlice, SliceInv
<1>2. ExportInv /\ NodesInOrder
  <2>1. CASE Export!Init
    <3>1. nodes \in Recorded
      BY <2>1 DEF Export!Init
    <3> QED BY <2>1, <3>1, InitExport, RecordedAssumption, ValidatedInOrder DEF ExportInv, NodesInOrder
  <2>2. CASE NoExport
    BY <2>2 DEF NoExport, ExportInv, NodesInOrder
  <2> QED BY <2>1, <2>2 DEF Init
<1>3. CallInv
  <2>1. CASE NoCalls
    BY <2>1 DEF NoCalls, CallInv
  <2>2. CASE Caller!ProgramInit
    <3>1. block \in Blocks /\ step = "new" /\ calls = 0
      BY <2>2 DEF Caller!ProgramInit
    <3> QED BY <3>1 DEF CallInv, CallUnder, Caller!CallsAreOfTheirPoint
  <2> QED BY <2>1, <2>2 DEF Init
<1> QED BY <1>1, <1>2, <1>3

(* Whatever tape passed validation and whatever roots are asked of it once *)
(* its Selects were exported, the slice computes those roots, has no input *)
(* they do not read and no node twice, and keeps tape order; and for any   *)
(* blocks, chunk widths and order of calls, what a block's program answers *)
(* was computed at the point of its call, a Jacobian's rows each of one    *)
(* residual alone, whatever earlier calls have left in the buffers (slice  *)
(* in src/tape/slice.cpp, ResidualProgram in src/solver/residual.cpp).     *)
THEOREM SlicesAndCalls == Spec => []SliceComputesRoots
<1> DEFINE Inv == ExportInv /\ NodesInOrder /\ SliceInv /\ CallInv
<1>1. Init => Inv
  BY SlicesAndCallsStart
<1>2. Inv /\ [Next]_vars => Inv'
  BY ExportNextInv, NodesStayInOrder, SliceNextInv, CallNextInv
<1>3. Inv => SliceComputesRoots
  <2> SUFFICES ASSUME Inv PROVE SliceComputesRoots
    OBVIOUS
  <2>1. Slicing!SliceComputesRoots
    BY SlicedComputes
  <2>2. Caller!CallsAreOfTheirPoint
    <3>1. CASE step = "idle"
      BY <3>1 DEF Caller!CallsAreOfTheirPoint
    <3> QED BY <3>1 DEF CallInv, CallUnder
  <2> QED BY <2>1, <2>2 DEF SliceComputesRoots
<1> QED BY <1>1, <1>2, <1>3, PTL DEF Spec
=============================================================================
