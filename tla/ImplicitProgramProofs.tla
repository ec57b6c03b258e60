----------------------- MODULE ImplicitProgramProofs -----------------------
(***************************************************************************)
(* Proofs about ImplicitProgram: a batch answers as its lanes alone would, *)
(* whatever calls, throws and shared solves came before, and its gradients *)
(* count every path from an input to the outputs, for every set of blocks, *)
(* batch and policy.                                                       *)
(***************************************************************************)
EXTENDS ImplicitProgram, FiniteSetTheorems, SequenceTheorems, WellFoundedInduction, TLAPS

State(lane) == request.states[lane]
OwnParams(block, lane) == ParamsAlone(block, State(lane))
Found(block, lane) == Alone!Solve(block, Start, OwnParams(block, lane))

(* A table with a row for every block and a cell for every lane.           *)
IsTable(t) == DOMAIN t = Blocks /\ \A block \in Blocks : DOMAIN t[block] = Lanes

Types ==
  /\ throws \in BOOLEAN /\ dedup \in BOOLEAN
  /\ pc \in {"idle", "solve", "forward", "pull", "gather"}
  /\ last_B \in 0 .. MaxBatch /\ solves \in Nat
  /\ full = [lane \in Lanes |-> [i \in Inputs |-> full[lane][i]]]
  /\ full_bar \in [Lanes -> [Inputs -> Nat]]
  /\ laneSource \in [Blocks -> [Lanes -> Nat]]
  /\ IsTable(laneParams) /\ IsTable(laneFactors) /\ IsTable(reports)

(* Where the loops are, and that a call is about the batch it was given.   *)
Position ==
  /\ pc # "idle" => last_B > 0
  /\ pc \in {"solve", "pull"} => k \in Blocks /\ b \in Batch
  /\ pc \in {"pull", "gather"} => request.op = "adjoint"
  /\ last_B > 0 => /\ request.op \in {"run", "adjoint"}
                   /\ request.states \in [Batch -> [Free -> Quotes]]

(* The solves this call has behind it.                                     *)
Solved(block, lane) == \/ pc = "solve" /\ (block < k \/ (block = k /\ lane < b))
                       \/ pc \in {"forward", "pull", "gather"}
                       \/ pc = "idle" /\ answer # Thrown

(* What such a solve left: its own parameters and solution, a source that  *)
(* solved for the same parameters itself, and that source's factors.       *)
LaneSolved(block, lane) ==
  LET source == laneSource[block][lane]
  IN  /\ laneParams[block][lane] = OwnParams(block, lane)
      /\ full[lane][block] = Found(block, lane)
      /\ reports[block][lane] = Report(block, OwnParams(block, lane))
      /\ source \in 1 .. lane
      /\ laneSource[block][source] = source
      /\ laneParams[block][source] = OwnParams(block, lane)
      /\ request.op = "adjoint" => laneFactors[block][source] = Found(block, lane)
      /\ throws => ~Alone!Fails(block, OwnParams(block, lane))

SolvedInv == \A block \in Blocks, lane \in Batch : Solved(block, lane) => LaneSolved(block, lane)

FreeInv == \A lane \in Batch, i \in Free : full[lane][i] = State(lane)[i]

(* The sets of parameters solved for so far, each with its block.          *)
SolvedPairs == {p \in Blocks \X Batch : Solved(p[1], p[2])}
Distinct == {<<p[1], OwnParams(p[1], p[2])>> : p \in SolvedPairs}

CountInv == dedup /\ (pc = "idle" => answer \notin {Nothing, Thrown}) =>
              IsFiniteSet(Distinct) /\ solves = Cardinality(Distinct)

(* The ways from an input to the outputs through blocks after l.           *)
PathsAfter(i, l) == {path \in SUBSET ((l + 1) .. N) : Alone!IsPath(i, path)}

(* The last block a lane has not pulled through yet.                       *)
Level(lane) == IF lane < b THEN k - 1 ELSE k

(* A derivative counts the ways through the blocks pulled through.         *)
PullInv ==
  /\ pc = "pull" => \A lane \in Batch : \A i \in Free \cup 1 .. Level(lane) :
                       full_bar[lane][i] = Cardinality(PathsAfter(i, Level(lane)))
  /\ pc = "gather" => \A lane \in Batch, i \in Free :
                         full_bar[lane][i] = Cardinality(PathsAfter(i, 0))

IInv == Types /\ Position /\ SolvedInv /\ FreeInv /\ CountInv /\ PullInv

------------------------------------------------------------------------------
(* A non-empty set of naturals has a least element, and Min is it.         *)
LEMMA MinIsLeast ==
  ASSUME NEW S \in SUBSET Nat, S # {}
  PROVE  Min(S) \in S /\ \A y \in S : Min(S) <= y
<1> DEFINE less == {ss \in Nat \X Nat : ss[1] < ss[2]}
<1>1. IsWellFoundedOn(less, Nat)
  BY NatLessThanWellFounded DEF OpToRel
<1>2. \A x, y \in Nat : y < x => <<y, x>> \in less
  OBVIOUS
<1> HIDE DEF less
<1>3. PICK x \in S : \A y \in S : ~ (<<y, x>> \in less)
  BY <1>1, WFMin
<1>4. ASSUME NEW y \in S PROVE x <= y
  <2>1. x \in Nat /\ y \in Nat
    OBVIOUS
  <2>2. ~ (y < x)
    BY <1>2, <1>3, <2>1
  <2> QED BY <2>1, <2>2
<1> QED BY <1>4 DEF Min

(* What a block reads is free or is found by an earlier block.             *)
LEMMA ReadsBefore ==
  ASSUME NEW block \in Blocks, NEW m \in Reads[block]
  PROVE  /\ block \in Nat /\ N \in Nat
         /\ m \in Free \/ (m \in Blocks /\ m < block)
         /\ m \in Free => m \notin Blocks
BY ReadsAssumption DEF Blocks, Alone!Blocks

(* Solving the blocks of a lane in order defines all of its unknowns.      *)
LEMMA UnknownsExist ==
  ASSUME NEW state
  PROVE  \E z : z = [block \in Blocks |-> Alone!Solve(block, Start,
                        [m \in Reads[block] |-> IF m \in Free THEN state[m] ELSE z[m]])]
<1> DEFINE Found1(z, block) == Alone!Solve(block, Start,
                                  [m \in Reads[block] |-> IF m \in Free THEN state[m] ELSE z[m]])
           Upto(z, n) == z = [block \in 1 .. n |-> Found1(z, block)]
           bad == {n \in 0 .. N : ~ \E z : Upto(z, n)}
<1>0. N \in Nat
  BY ReadsAssumption
<1>1. SUFFICES bad = {}
  <2>1. N \in 0 .. N
    BY <1>0
  <2>2. \E z : Upto(z, N)
    BY <1>1, <2>1
  <2> QED BY <2>2 DEF Blocks, Alone!Blocks
<1>2. SUFFICES ASSUME bad # {} PROVE FALSE
  OBVIOUS
<1>3. bad \in SUBSET Nat
  BY <1>0
<1>4. Min(bad) \in bad /\ \A y \in bad : Min(bad) <= y
  BY <1>2, <1>3, MinIsLeast
<1>5. Upto([block \in 1 .. 0 |-> 0], 0)
  OBVIOUS
<1>6. 0 \notin bad
  BY <1>5
<1>7. PICK n \in 0 .. N : n = Min(bad) /\ n # 0
  BY <1>0, <1>4, <1>6
<1>8. n - 1 \in 0 .. N /\ n - 1 \notin bad /\ n \in Nat
  <2> HIDE DEF bad
  <2>1. n \in Nat /\ n - 1 \in 0 .. N /\ ~ (n <= n - 1)
    BY <1>0, <1>7
  <2> QED BY <1>4, <1>7, <2>1
<1>9. PICK z : Upto(z, n - 1)
  BY <1>8
<1> DEFINE y == [block \in 1 .. n |-> IF block < n THEN z[block] ELSE Found1(z, n)]
<1>10. ASSUME NEW block \in 1 .. n PROVE y[block] = Found1(y, block)
  <2>1. block \in Blocks /\ block \in Nat /\ n \in Blocks
    BY <1>0, <1>7 DEF Blocks, Alone!Blocks
  <2>2. ASSUME NEW m \in Reads[block], m \notin Free PROVE y[m] = z[m]
    <3>1. m \in 1 .. n /\ m < n
      BY <1>8, <2>1, <2>2, ReadsBefore DEF Blocks, Alone!Blocks
    <3> QED BY <3>1
  <2> HIDE DEF y
  <2>3. [m \in Reads[block] |-> IF m \in Free THEN state[m] ELSE y[m]]
          = [m \in Reads[block] |-> IF m \in Free THEN state[m] ELSE z[m]]
    BY <2>2
  <2>4. Found1(y, block) = Found1(z, block)
    BY <2>3
  <2>5. CASE block < n
    <3>1. block \in 1 .. (n - 1)
      BY <1>8, <2>1, <2>5
    <3>2. z[block] = Found1(z, block)
      <4> HIDE DEF Found1
      <4> QED BY <1>9, <3>1
    <3> QED BY <2>4, <2>5, <3>2 DEF y
  <2>6. CASE ~ (block < n)
    <3>1. block = n
      BY <1>8, <2>1, <2>6
    <3> QED BY <2>4, <2>6, <3>1 DEF y
  <2> QED BY <2>5, <2>6
<1>11. Upto(y, n)
  <2>1. y = [block \in 1 .. n |-> y[block]]
    OBVIOUS
  <2> HIDE DEF y, Found1
  <2> QED BY <1>10, <2>1
<1>12. \E z1 : Upto(z1, n)
  <2> HIDE DEF Upto, y
  <2> QED BY <1>11
<1> QED BY <1>4, <1>7, <1>12

(* Each unknown of a lane solved alone is found from its own parameters.   *)
LEMMA UnknownsSolve ==
  ASSUME NEW state, NEW block \in Blocks
  PROVE  Alone!FullState(state)[block] = Alone!Solve(block, Start, ParamsAlone(block, state))
<1> DEFINE z == Alone!Unknowns(state)
           Solves(y) == y = [bl \in Blocks |-> Alone!Solve(bl, Start,
                               [m \in Reads[bl] |-> IF m \in Free THEN state[m] ELSE y[m]])]
<1>1. Solves(z)
  <2>1. z = CHOOSE y : Solves(y)
    BY DEF Alone!Unknowns, Blocks
  <2>2. \E y : Solves(y)
    BY UnknownsExist
  <2> HIDE DEF z, Solves
  <2> QED BY <2>1, <2>2
<1> HIDE DEF z
<1>2. z[block] = Alone!Solve(block, Start,
        [m \in Reads[block] |-> IF m \in Free THEN state[m] ELSE z[m]])
  BY <1>1
<1>3. \A i \in Inputs : Alone!FullState(state)[i] = IF i \in Free THEN state[i] ELSE z[i]
  BY DEF Alone!FullState, Inputs, z
<1>4. \A m \in Reads[block] : m \in Inputs
  BY ReadsBefore DEF Inputs, Alone!Inputs, Blocks
<1>5. ParamsAlone(block, state)
        = [m \in Reads[block] |-> IF m \in Free THEN state[m] ELSE z[m]]
  BY <1>3, <1>4 DEF ParamsAlone
<1>6. block \notin Free /\ block \in Inputs
  BY ReadsAssumption DEF Blocks, Alone!Blocks, Inputs, Alone!Inputs
<1> QED BY <1>2, <1>3, <1>5, <1>6

(* The ways from an input are finitely many.                               *)
LEMMA PathsFinite ==
  ASSUME NEW i, NEW l \in Nat
  PROVE  IsFiniteSet(PathsAfter(i, l)) /\ Cardinality(PathsAfter(i, l)) \in Nat
<1>1. IsFiniteSet((l + 1) .. N)
  BY ReadsAssumption, FS_Interval
<1>2. IsFiniteSet(SUBSET ((l + 1) .. N))
  BY <1>1, FS_SUBSET
<1>3. PathsAfter(i, l) \in SUBSET (SUBSET ((l + 1) .. N))
  BY DEF PathsAfter
<1>4. IsFiniteSet(PathsAfter(i, l))
  BY <1>2, <1>3, FS_Subset
<1> QED BY <1>4, FS_CardinalityType

(* A way through a block first: the block reads where it starts from, and  *)
(* the rest is a way from the block.                                       *)
LEMMA PathThrough ==
  ASSUME NEW n \in Blocks, NEW i, NEW rest \in SUBSET ((n + 1) .. N)
  PROVE  Alone!IsPath(i, rest \cup {n}) <=> i \in Reads[n] /\ Alone!IsPath(n, rest)
<1> DEFINE path == rest \cup {n}
<1>0. N \in Nat /\ n \in Nat /\ \A m \in rest : m \in Nat /\ n < m
  BY ReadsAssumption DEF Blocks, Alone!Blocks
<1>1. \A m \in path : m \in Nat /\ n <= m
  BY <1>0
<1>2. ASSUME Alone!IsPath(i, path) PROVE i \in Reads[n] /\ Alone!IsPath(n, rest)
  <2>1. i \in Reads[n]
    BY <1>1, <1>2 DEF Alone!IsPath
  <2>2. ASSUME NEW m \in rest, \A j \in rest : m <= j PROVE n \in Reads[m]
    <3>1. \A j \in path : j <= n \/ m <= j
      BY <1>0, <2>2
    <3>2. n \in path /\ m \in path /\ n < m
      BY <1>0
    <3> HIDE DEF path
    <3> QED BY <1>2, <3>1, <3>2 DEF Alone!IsPath
  <2>3. ASSUME NEW m \in rest, NEW before \in rest, before < m,
               \A j \in rest : j <= before \/ m <= j
        PROVE  before \in Reads[m]
    <3>1. \A j \in path : j <= before \/ m <= j
      BY <1>0, <2>3
    <3> QED BY <1>2, <2>3, <3>1 DEF Alone!IsPath
  <2> QED BY <2>1, <2>2, <2>3 DEF Alone!IsPath
<1>3. ASSUME i \in Reads[n], Alone!IsPath(n, rest) PROVE Alone!IsPath(i, path)
  <2>1. ASSUME NEW m \in path, \A j \in path : m <= j PROVE i \in Reads[m]
    <3>1. m = n
      BY <1>0, <1>1, <2>1
    <3> QED BY <1>3, <3>1
  <2>2. ASSUME NEW m \in path, NEW before \in path, before < m,
               \A j \in path : j <= before \/ m <= j
        PROVE  before \in Reads[m]
    <3>1. m \in rest
      BY <1>0, <1>1, <2>2
    <3>2. CASE before = n
      <4>1. \A j \in rest : m <= j
        BY <1>0, <2>2, <3>2
      <4> QED BY <1>3, <3>1, <3>2, <4>1 DEF Alone!IsPath
    <3>3. CASE before \in rest
      BY <1>3, <2>2, <3>1, <3>3 DEF Alone!IsPath
    <3> QED BY <3>2, <3>3
  <2> QED BY <2>1, <2>2 DEF Alone!IsPath
<1> QED BY <1>2, <1>3

(* One block more: the ways that avoid it, and those that start with it.   *)
LEMMA PathsStep ==
  ASSUME NEW n \in Blocks, NEW i
  PROVE  Cardinality(PathsAfter(i, n - 1)) =
           IF i \in Reads[n] THEN Cardinality(PathsAfter(i, n)) + Cardinality(PathsAfter(n, n))
           ELSE Cardinality(PathsAfter(i, n))
<1> DEFINE through == {path \in PathsAfter(i, n - 1) : n \in path}
<1>0. N \in Nat /\ n \in Nat /\ n - 1 \in Nat /\ n <= N
  BY ReadsAssumption DEF Blocks, Alone!Blocks
<1>1. IsFiniteSet(PathsAfter(i, n)) /\ Cardinality(PathsAfter(i, n)) \in Nat
  BY <1>0, PathsFinite
<1>2. IsFiniteSet(PathsAfter(n, n)) /\ Cardinality(PathsAfter(n, n)) \in Nat
  BY <1>0, PathsFinite
<1>3. PathsAfter(i, n - 1) = PathsAfter(i, n) \cup through
  <2>1. \A path \in SUBSET (((n - 1) + 1) .. N) : n \notin path => path \in SUBSET ((n + 1) .. N)
    BY <1>0
  <2>2. \A path \in SUBSET ((n + 1) .. N) : path \in SUBSET (((n - 1) + 1) .. N)
    BY <1>0
  <2> QED BY <2>1, <2>2 DEF PathsAfter
<1>4. PathsAfter(i, n) \cap through = {}
  BY <1>0 DEF PathsAfter
<1>5. \A rest \in SUBSET ((n + 1) .. N) : rest \cup {n} \in SUBSET (((n - 1) + 1) .. N)
  BY <1>0
<1>6. \A path \in through : path \ {n} \in SUBSET ((n + 1) .. N) /\ path = (path \ {n}) \cup {n}
  BY <1>0 DEF PathsAfter
<1>7. CASE i \in Reads[n]
  <2> DEFINE f == [rest \in PathsAfter(n, n) |-> rest \cup {n}]
  <2>1. \A rest \in PathsAfter(n, n) : rest \in SUBSET ((n + 1) .. N) /\ n \notin rest
    BY <1>0 DEF PathsAfter
  <2>2. ASSUME NEW rest \in PathsAfter(n, n) PROVE rest \cup {n} \in through
    BY <1>5, <1>7, <2>1, PathThrough DEF PathsAfter
  <2>3. f \in [PathsAfter(n, n) -> through]
    BY <2>2
  <2>4. ASSUME NEW r1 \in PathsAfter(n, n), NEW r2 \in PathsAfter(n, n), r1 \cup {n} = r2 \cup {n}
        PROVE  r1 = r2
    <3>1. r1 = (r1 \cup {n}) \ {n} /\ r2 = (r2 \cup {n}) \ {n}
      BY <2>1
    <3> QED BY <2>4, <3>1
  <2>5. ASSUME NEW path \in through PROVE \E rest \in PathsAfter(n, n) : rest \cup {n} = path
    <3>1. Alone!IsPath(n, path \ {n})
      BY <1>6, PathThrough DEF PathsAfter
    <3>2. path \ {n} \in PathsAfter(n, n)
      BY <1>6, <3>1 DEF PathsAfter
    <3> QED BY <1>6, <3>2
  <2> HIDE DEF through
  <2>6. f \in Bijection(PathsAfter(n, n), through)
    BY <2>3, <2>4, <2>5 DEF Bijection, Injection, Surjection, IsInjective
  <2>7. IsFiniteSet(through) /\ Cardinality(through) = Cardinality(PathsAfter(n, n))
    BY <1>2, <2>6, FS_Bijection DEF ExistsBijection
  <2>8. Cardinality(PathsAfter(i, n) \cup through)
          = Cardinality(PathsAfter(i, n)) + Cardinality(through) - 0
    BY <1>1, <1>4, <2>7, FS_Union, FS_EmptySet
  <2>9. Cardinality(PathsAfter(i, n - 1)) = Cardinality(PathsAfter(i, n)) + Cardinality(PathsAfter(n, n))
    <3>1. Cardinality(PathsAfter(i, n - 1)) = Cardinality(PathsAfter(i, n) \cup through)
      BY <1>3
    <3>2. \A x, y \in Nat : x + y - 0 = x + y
      OBVIOUS
    <3> QED BY <1>1, <1>2, <2>7, <2>8, <3>1, <3>2
  <2> QED BY <1>7, <2>9
<1>8. CASE i \notin Reads[n]
  <2>1. ASSUME NEW path \in through PROVE FALSE
    <3>1. Alone!IsPath(i, (path \ {n}) \cup {n})
      BY <1>6 DEF PathsAfter
    <3> QED BY <1>6, <1>8, <3>1, PathThrough
  <2>2. through = {}
    BY <2>1
  <2> QED BY <1>3, <1>8, <2>2
<1> QED BY <1>7, <1>8

------------------------------------------------------------------------------
LEMMA InitIInv == Init => IInv
<1> SUFFICES ASSUME Init PROVE IInv
  OBVIOUS
<1>0. Batch = {} /\ N \in Nat /\ MaxBatch \in Nat
  BY ReadsAssumption, BatchAssumption DEF Init, Batch
<1>1. Types
  <2>1. throws \in BOOLEAN /\ dedup \in BOOLEAN /\ pc = "idle" /\ last_B = 0 /\ solves = 0
    BY BatchAssumption DEF Init
  <2>2. full = [lane \in Lanes |-> [i \in Inputs |-> full[lane][i]]]
    BY DEF Init
  <2>3. full_bar \in [Lanes -> [Inputs -> Nat]]
    BY DEF Init
  <2>4. laneSource \in [Blocks -> [Lanes -> Nat]]
    BY DEF Init, PerLane
  <2>5. IsTable(laneParams) /\ IsTable(laneFactors) /\ IsTable(reports)
    BY DEF Init, PerLane, IsTable
  <2> QED BY <1>0, <2>1, <2>2, <2>3, <2>4, <2>5 DEF Types
<1>2. Position
  BY DEF Init, Position
<1>3. SolvedInv /\ FreeInv
  BY <1>0 DEF SolvedInv, FreeInv
<1>4. CountInv
  BY DEF Init, CountInv
<1>5. PullInv
  BY DEF Init, PullInv
<1> QED BY <1>1, <1>2, <1>3, <1>4, <1>5 DEF IInv

(* The loop over lanes and blocks stands at a block and a lane it has not  *)
(* solved, and what comes before is solved.                                *)
LEMMA AtCell ==
  ASSUME IInv, pc = "solve"
  PROVE  /\ k \in Blocks /\ k \in Nat /\ k \in Inputs
         /\ b \in Batch /\ b \in Lanes /\ b \in Nat /\ last_B \in Nat /\ N \in Nat
         /\ \A lane \in Batch : lane \in Lanes /\ lane \in Nat /\ 1 <= lane
         /\ \A block \in Blocks : block \in Nat /\ block \in Inputs
         /\ \A i \in Inputs : i \in Free \/ i \in Blocks
         /\ \A lane \in Batch : lane < b => Solved(k, lane)
         /\ \A block \in Blocks : block < k => Solved(block, b)
<1>1. k \in Blocks /\ b \in Batch /\ last_B \in 0 .. MaxBatch /\ N \in Nat /\ MaxBatch \in Nat
  BY ReadsAssumption, BatchAssumption DEF IInv, Position, Types
<1>2. \A block \in Blocks : block \in Nat /\ block \in Inputs
  BY <1>1 DEF Blocks, Alone!Blocks, Inputs, Alone!Inputs
<1>3. \A lane \in Batch : lane \in Lanes /\ lane \in Nat /\ 1 <= lane
  BY <1>1 DEF Batch, Lanes
<1>4. \A i \in Inputs : i \in Free \/ i \in Blocks
  BY DEF Inputs, Alone!Inputs, Blocks
<1> QED BY <1>1, <1>2, <1>3, <1>4 DEF Solved

(* The parameters at hand are those the lane would have alone.             *)
LEMMA ParamsAreOwn ==
  ASSUME IInv, pc = "solve"
  PROVE  Params = OwnParams(k, b)
<1>1. ASSUME NEW m \in Reads[k] PROVE full[b][m] = Alone!FullState(State(b))[m]
  <2>1. CASE m \in Free
    <3>1. m \in Inputs
      BY <2>1 DEF Inputs, Alone!Inputs
    <3>2. Alone!FullState(State(b))[m] = State(b)[m]
      BY <2>1, <3>1 DEF Alone!FullState, Inputs
    <3>3. full[b][m] = State(b)[m]
      BY <2>1, AtCell DEF IInv, FreeInv
    <3> QED BY <3>2, <3>3
  <2>2. CASE m \notin Free
    <3>1. m \in Blocks /\ m < k
      BY <2>2, AtCell, ReadsBefore
    <3>2. LaneSolved(m, b)
      BY <3>1, AtCell DEF IInv, SolvedInv
    <3>3. full[b][m] = Found(m, b)
      BY <3>2 DEF LaneSolved
    <3> QED BY <3>1, <3>3, UnknownsSolve DEF Found, OwnParams
  <2> QED BY <2>1, <2>2
<1> QED BY <1>1 DEF Params, OwnParams, ParamsAlone

(* The step to the next lane or block leaves exactly one more solved.      *)
LEMMA ForthSolved ==
  ASSUME IInv, pc = "solve", Forth("forward"), last_B' = last_B
  PROVE  /\ pc' \in {"solve", "forward"}
         /\ pc' = "solve" => k' \in Blocks /\ b' \in Batch
         /\ \A block \in Blocks, lane \in Batch :
              Solved(block, lane)' <=> Solved(block, lane) \/ (block = k /\ lane = b)
<1> USE AtCell
<1>0. b >= 1 /\ b <= last_B /\ k >= 1 /\ k <= N
  BY DEF Batch, Blocks, Alone!Blocks
<1>1. CASE b < last_B
  <2>1. b' = b + 1 /\ k' = k /\ pc' = pc
    BY <1>1 DEF Forth
  <2>2. b' \in Batch
    BY <1>0, <1>1, <2>1 DEF Batch
  <2> QED BY <2>1, <2>2 DEF Solved
<1>2. CASE ~ (b < last_B)
  <2>1. b' = 1 /\ k' = k + 1 /\ pc' = (IF k < N THEN "solve" ELSE "forward") /\ b = last_B
    BY <1>0, <1>2 DEF Forth
  <2>2. \A lane \in Batch : lane < b \/ lane = b
    BY <2>1 DEF Batch
  <2>3. CASE k < N
    <3>1. k' \in Blocks /\ b' \in Batch
      BY <1>0, <2>1, <2>3 DEF Blocks, Alone!Blocks, Batch
    <3> QED BY <2>1, <2>2, <2>3, <3>1 DEF Solved
  <2>4. CASE ~ (k < N)
    <3>1. \A block \in Blocks : block < k \/ block = k
      BY <1>0, <2>4 DEF Blocks, Alone!Blocks
    <3> QED BY <2>1, <2>2, <2>4, <3>1 DEF Solved
  <2> QED BY <2>3, <2>4
<1> QED BY <1>1, <1>2

(* Writing one input of a lane leaves the others.                          *)
WritesFull(lane, i, v) == full' = [full EXCEPT ![lane][i] = v]

LEMMA FullSet ==
  ASSUME Types, NEW lane \in Lanes, NEW i \in Inputs, NEW v, WritesFull(lane, i, v)
  PROVE  /\ (full = [la \in Lanes |-> [j \in Inputs |-> full[la][j]]])'
         /\ full'[lane][i] = v
         /\ \A la \in Lanes, j \in Inputs : la # lane \/ j # i => full'[la][j] = full[la][j]
<1>1. DOMAIN full = Lanes /\ \A la \in Lanes : DOMAIN full[la] = Inputs
  BY DEF Types
<1>2. full' = [la \in Lanes |-> IF la = lane THEN [full[lane] EXCEPT ![i] = v] ELSE full[la]]
  BY <1>1 DEF WritesFull
<1>3. \A la \in Lanes : full[la] = [j \in Inputs |-> full[la][j]]
  BY DEF Types
<1>4. \A la \in Lanes : full'[la] = IF la = lane THEN [full[lane] EXCEPT ![i] = v] ELSE full[la]
  BY <1>2
<1>5. \A la \in Lanes : full'[la] = [j \in Inputs |-> full'[la][j]]
  BY <1>1, <1>3, <1>4
<1>6. full'[lane][i] = v /\ \A la \in Lanes, j \in Inputs : la # lane \/ j # i => full'[la][j] = full[la][j]
  BY <1>1, <1>4
<1> QED BY <1>2, <1>5, <1>6

(* What a lane's solve leaves of the others.                               *)
Kept ==
  /\ request' = request /\ throws' = throws /\ dedup' = dedup /\ last_B' = last_B
  /\ full_bar' = full_bar /\ Types' /\ Forth("forward")
  /\ \A block \in Blocks, lane \in Lanes : block # k \/ lane # b =>
       /\ laneParams'[block][lane] = laneParams[block][lane]
       /\ laneSource'[block][lane] = laneSource[block][lane]
       /\ laneFactors'[block][lane] = laneFactors[block][lane]
       /\ reports'[block][lane] = reports[block][lane]
  /\ \A lane \in Lanes, i \in Inputs : lane # b \/ i # k => full'[lane][i] = full[lane][i]

(* A lane with a twin is solved by copying what the twin's solve left.     *)
LEMMA ShareCell ==
  ASSUME IInv, Share, NEW n, n = k, NEW l, l = b
  PROVE  Kept /\ LaneSolved(n, l)' /\ pc = "solve" /\ solves' = solves
         /\ \E a \in Batch : a < l /\ OwnParams(n, a) = OwnParams(n, l)
<1>0. pc = "solve" /\ Types
  BY DEF Share, IInv
<1>1. PICK a : a = Min(Twins) /\ a \in Twins
  <2>1. Twins \in SUBSET Nat /\ Twins # {}
    BY DEF Twins, Share
  <2> QED BY <2>1, MinIsLeast
<1>2. /\ n \in Blocks /\ n \in Inputs /\ l \in Lanes /\ l \in Batch /\ l \in Nat /\ last_B \in Nat
      /\ l <= last_B
  BY <1>0, AtCell DEF Batch
<1>3. a \in Nat /\ a \in 1 .. l /\ a < l /\ laneSource[n][a] = a /\ laneParams[n][a] = Params
  <2>1. a \in 1 .. (l - 1) /\ laneSource[n][a] = a /\ laneParams[n][a] = Params
    BY <1>1 DEF Twins
  <2> QED BY <1>2, <2>1
<1>4. a \in Batch /\ a \in Lanes /\ laneParams[n][a] = OwnParams(n, l)
  BY <1>0, <1>2, <1>3, ParamsAreOwn, AtCell DEF Batch
<1>5. LaneSolved(n, a)
  BY <1>0, <1>2, <1>3, <1>4, AtCell DEF IInv, SolvedInv
<1>6. OwnParams(n, a) = OwnParams(n, l)
  BY <1>3, <1>4, <1>5 DEF LaneSolved
<1>7. /\ laneParams' = [laneParams EXCEPT ![n][l] = OwnParams(n, l)]
      /\ laneSource' = [laneSource EXCEPT ![n][l] = a]
      /\ full' = [full EXCEPT ![l][n] = full[a][n]]
      /\ reports' = [reports EXCEPT ![n][l] = reports[n][a]]
  BY <1>0, <1>1, ParamsAreOwn DEF Share
<1>8. IsTable(laneParams') /\ laneParams'[n][l] = OwnParams(n, l)
      /\ \A bl \in Blocks, la \in Lanes : bl # n \/ la # l => laneParams'[bl][la] = laneParams[bl][la]
  <2>1. IsTable(laneParams)
    BY <1>0 DEF Types
  <2> QED BY <1>2, <1>7, <2>1 DEF IsTable
<1>9. laneSource' \in [Blocks -> [Lanes -> Nat]] /\ laneSource'[n][l] = a
      /\ \A bl \in Blocks, la \in Lanes : bl # n \/ la # l => laneSource'[bl][la] = laneSource[bl][la]
  <2>1. laneSource \in [Blocks -> [Lanes -> Nat]]
    BY <1>0 DEF Types
  <2>2. IsTable(laneSource)
    BY <2>1 DEF IsTable
  <2>3. laneSource' \in [Blocks -> [Lanes -> Nat]]
    BY <1>3, <1>7, <2>1
  <2> QED BY <1>2, <1>7, <2>2, <2>3 DEF IsTable
<1>10. IsTable(reports') /\ reports'[n][l] = reports[n][a]
      /\ \A bl \in Blocks, la \in Lanes : bl # n \/ la # l => reports'[bl][la] = reports[bl][la]
  <2>1. IsTable(reports)
    BY <1>0 DEF Types
  <2> QED BY <1>2, <1>7, <2>1 DEF IsTable
<1>11. /\ (full = [la \in Lanes |-> [j \in Inputs |-> full[la][j]]])'
      /\ full'[l][n] = full[a][n]
      /\ \A la \in Lanes, j \in Inputs : la # l \/ j # n => full'[la][j] = full[la][j]
  <2>1. WritesFull(l, n, full[a][n])
    BY <1>7 DEF WritesFull
  <2> QED BY <1>0, <1>2, <2>1, FullSet
<1>12. /\ UNCHANGED <<request, throws, dedup, last_B, full_bar, laneFactors, solves>>
      /\ Forth("forward")
  BY DEF Share
<1>13. Types'
  <2>1. pc' \in {"solve", "forward"}
    BY <1>0, <1>12, ForthSolved
  <2> QED BY <1>0, <1>8, <1>9, <1>10, <1>11, <1>12, <2>1 DEF Types
<1>14. LaneSolved(n, l)'
  <2>1. /\ laneParams[n][a] = OwnParams(n, a)
        /\ full[a][n] = Found(n, a)
        /\ reports[n][a] = Report(n, OwnParams(n, a))
        /\ request.op = "adjoint" => laneFactors[n][a] = Found(n, a)
        /\ throws => ~Alone!Fails(n, OwnParams(n, a))
    BY <1>3, <1>5 DEF LaneSolved
  <2>2. Found(n, a) = Found(n, l)
    BY <1>6 DEF Found
  <2>3. laneSource'[n][a] = a /\ laneParams'[n][a] = OwnParams(n, l)
    BY <1>2, <1>3, <1>4, <1>8, <1>9
  <2>4. OwnParams(n, l)' = OwnParams(n, l) /\ Found(n, l)' = Found(n, l)
    BY <1>12 DEF OwnParams, Found, State
  <2> QED BY <1>3, <1>6, <1>8, <1>9, <1>10, <1>11, <1>12, <2>1, <2>2, <2>3, <2>4 DEF LaneSolved
<1>15. Kept
  BY <1>8, <1>9, <1>10, <1>11, <1>12, <1>13 DEF Kept
<1> QED BY <1>0, <1>3, <1>4, <1>6, <1>12, <1>14, <1>15

(* A lane's own solve leaves its solution, its report, and its factors if  *)
(* they are wanted.                                                        *)
LEMMA SolveCell ==
  ASSUME IInv, Solve, NEW n, n = k, NEW l, l = b
  PROVE  Kept /\ LaneSolved(n, l)' /\ pc = "solve" /\ solves' = solves + 1
<1>0. pc = "solve" /\ Types
  BY DEF Solve, SolveHere, IInv
<1>1. n \in Blocks /\ n \in Inputs /\ l \in Lanes /\ l \in Batch /\ l \in Nat /\ 1 <= l
  BY <1>0, AtCell
<1>2. Params = OwnParams(n, l)
  BY <1>0, ParamsAreOwn
<1>3. /\ laneParams' = [laneParams EXCEPT ![n][l] = OwnParams(n, l)]
      /\ laneSource' = [laneSource EXCEPT ![n][l] = l]
      /\ laneFactors' = [laneFactors EXCEPT ![n][l] = FactorsWanted(Found(n, l))]
      /\ full' = [full EXCEPT ![l][n] = Found(n, l)]
      /\ reports' = [reports EXCEPT ![n][l] = Report(n, OwnParams(n, l))]
      /\ Alone!Fails(n, OwnParams(n, l)) => ~throws
  BY <1>2 DEF Solve, SolveHere, Found
<1>4. IsTable(laneParams') /\ laneParams'[n][l] = OwnParams(n, l)
      /\ \A bl \in Blocks, la \in Lanes : bl # n \/ la # l => laneParams'[bl][la] = laneParams[bl][la]
  <2>1. IsTable(laneParams)
    BY <1>0 DEF Types
  <2> QED BY <1>1, <1>3, <2>1 DEF IsTable
<1>5. laneSource' \in [Blocks -> [Lanes -> Nat]] /\ laneSource'[n][l] = l
      /\ \A bl \in Blocks, la \in Lanes : bl # n \/ la # l => laneSource'[bl][la] = laneSource[bl][la]
  <2>1. laneSource \in [Blocks -> [Lanes -> Nat]]
    BY <1>0 DEF Types
  <2>2. IsTable(laneSource)
    BY <2>1 DEF IsTable
  <2>3. laneSource' \in [Blocks -> [Lanes -> Nat]]
    BY <1>1, <1>3, <2>1
  <2> QED BY <1>1, <1>3, <2>2, <2>3 DEF IsTable
<1>6. IsTable(reports') /\ reports'[n][l] = Report(n, OwnParams(n, l))
      /\ \A bl \in Blocks, la \in Lanes : bl # n \/ la # l => reports'[bl][la] = reports[bl][la]
  <2>1. IsTable(reports)
    BY <1>0 DEF Types
  <2> QED BY <1>1, <1>3, <2>1 DEF IsTable
<1>7. IsTable(laneFactors') /\ laneFactors'[n][l] = FactorsWanted(Found(n, l))
      /\ \A bl \in Blocks, la \in Lanes : bl # n \/ la # l => laneFactors'[bl][la] = laneFactors[bl][la]
  <2>1. IsTable(laneFactors)
    BY <1>0 DEF Types
  <2> QED BY <1>1, <1>3, <2>1 DEF IsTable
<1>8. /\ (full = [la \in Lanes |-> [j \in Inputs |-> full[la][j]]])'
      /\ full'[l][n] = Found(n, l)
      /\ \A la \in Lanes, j \in Inputs : la # l \/ j # n => full'[la][j] = full[la][j]
  <2>1. WritesFull(l, n, Found(n, l))
    BY <1>3 DEF WritesFull
  <2> QED BY <1>0, <1>1, <2>1, FullSet
<1>9. /\ UNCHANGED <<request, throws, dedup, last_B, full_bar>> /\ solves' = solves + 1
      /\ Forth("forward")
  BY DEF Solve, SolveHere
<1>10. Types'
  <2>1. pc' \in {"solve", "forward"}
    BY <1>0, <1>9, ForthSolved
  <2> QED BY <1>0, <1>4, <1>5, <1>6, <1>7, <1>8, <1>9, <2>1 DEF Types
<1>11. LaneSolved(n, l)'
  <2>1. OwnParams(n, l)' = OwnParams(n, l) /\ Found(n, l)' = Found(n, l)
    BY <1>9 DEF OwnParams, Found, State
  <2>2. request.op = "adjoint" => laneFactors'[n][l] = Found(n, l)
    BY <1>7 DEF FactorsWanted
  <2>3. l \in 1 .. l
    BY <1>1
  <2> QED BY <1>3, <1>4, <1>5, <1>6, <1>8, <1>9, <2>1, <2>2, <2>3 DEF LaneSolved
<1>12. Kept
  BY <1>4, <1>5, <1>6, <1>7, <1>8, <1>9, <1>10 DEF Kept
<1> QED BY <1>0, <1>9, <1>11, <1>12

(* One more lane solved, the others kept: the invariant holds of all.      *)
LEMMA CellKeepsInv ==
  ASSUME IInv, pc = "solve", NEW n, n = k, NEW l, l = b, Kept, LaneSolved(n, l)'
  PROVE  Position' /\ SolvedInv' /\ FreeInv' /\ PullInv'
<1>0. /\ request' = request /\ throws' = throws /\ last_B' = last_B /\ Forth("forward")
      /\ Batch' = Batch
  BY DEF Kept, Batch
<1>1. /\ n \in Blocks /\ l \in Batch /\ l \in Nat
      /\ \A lane \in Batch : lane \in Lanes /\ lane \in Nat
      /\ \A block \in Blocks : block \in Nat /\ block \in Inputs
  BY AtCell
<1>2. /\ pc' \in {"solve", "forward"}
      /\ pc' = "solve" => k' \in Blocks /\ b' \in Batch
      /\ \A block \in Blocks, lane \in Batch :
           Solved(block, lane)' <=> Solved(block, lane) \/ (block = n /\ lane = l)
  BY <1>0, ForthSolved
<1>3. Position'
  BY <1>0, <1>2 DEF IInv, Position
<1>4. ASSUME NEW block \in Blocks, NEW lane \in Batch, Solved(block, lane)'
      PROVE  LaneSolved(block, lane)'
  <2>1. CASE block = n /\ lane = l
    BY <2>1
  <2>2. CASE ~ (block = n /\ lane = l)
    <3>1. Solved(block, lane) /\ LaneSolved(block, lane)
      BY <1>2, <1>4, <2>2 DEF IInv, SolvedInv
    <3>2. PICK s : s = laneSource[block][lane]
      OBVIOUS
    <3>3. s \in 1 .. lane
      BY <3>1, <3>2 DEF LaneSolved
    <3>4. s \in Lanes /\ s \in Nat /\ (block = n => s < l)
      <4>1. lane \in Lanes /\ lane \in Nat
        BY <1>1
      <4>2. s \in Nat /\ s <= lane /\ s \in Lanes
        BY <3>3, <4>1, BatchAssumption DEF Lanes
      <4>3. block = n => lane < l
        BY <1>1, <3>1, <2>2 DEF Solved
      <4> QED BY <1>1, <4>1, <4>2, <4>3
    <3>5. /\ laneParams'[block][lane] = laneParams[block][lane]
          /\ laneSource'[block][lane] = s
          /\ reports'[block][lane] = reports[block][lane]
          /\ full'[lane][block] = full[lane][block]
      BY <1>1, <2>2, <3>2 DEF Kept
    <3>6. /\ laneParams'[block][s] = laneParams[block][s]
          /\ laneSource'[block][s] = laneSource[block][s]
          /\ laneFactors'[block][s] = laneFactors[block][s]
      BY <1>1, <3>4 DEF Kept
    <3>7. OwnParams(block, lane)' = OwnParams(block, lane) /\ Found(block, lane)' = Found(block, lane)
      BY <1>0 DEF OwnParams, Found, State
    <3>8. /\ laneParams[block][lane] = OwnParams(block, lane)
          /\ full[lane][block] = Found(block, lane)
          /\ reports[block][lane] = Report(block, OwnParams(block, lane))
          /\ laneSource[block][s] = s
          /\ laneParams[block][s] = OwnParams(block, lane)
          /\ request.op = "adjoint" => laneFactors[block][s] = Found(block, lane)
          /\ throws => ~Alone!Fails(block, OwnParams(block, lane))
      BY <3>1, <3>2 DEF LaneSolved
    <3> QED BY <1>0, <3>3, <3>5, <3>6, <3>7, <3>8 DEF LaneSolved
  <2> QED BY <2>1, <2>2
<1>5. SolvedInv'
  BY <1>0, <1>4 DEF SolvedInv
<1>6. FreeInv'
  <2>1. ASSUME NEW lane \in Batch, NEW i \in Free PROVE full'[lane][i] = State(lane)[i]
    <3>1. i \in Inputs /\ i # n /\ lane \in Lanes
      BY <1>1, ReadsAssumption DEF Inputs, Alone!Inputs, Blocks, Alone!Blocks
    <3>2. full'[lane][i] = full[lane][i]
      BY <3>1 DEF Kept
    <3> QED BY <3>2 DEF IInv, FreeInv
  <2>2. \A lane \in Batch : State(lane)' = State(lane)
    BY <1>0 DEF State
  <2> QED BY <1>0, <2>1, <2>2 DEF FreeInv
<1>7. PullInv'
  BY <1>2 DEF PullInv
<1> QED BY <1>3, <1>5, <1>6, <1>7

(* The parameters solved for gain those of the lane at hand.               *)
LEMMA CellDistinct ==
  ASSUME IInv, pc = "solve", NEW n, n = k, NEW l, l = b, Kept
  PROVE  Distinct' = Distinct \cup {<<n, OwnParams(n, l)>>} /\ dedup' = dedup
<1>1. Batch' = Batch /\ request' = request /\ Forth("forward") /\ last_B' = last_B /\ dedup' = dedup
  BY DEF Kept, Batch
<1>2. n \in Blocks /\ l \in Batch
  BY AtCell
<1>3. \A block \in Blocks, lane \in Batch :
        Solved(block, lane)' <=> Solved(block, lane) \/ (block = n /\ lane = l)
  BY <1>1, ForthSolved
<1>4. \A block, lane : OwnParams(block, lane)' = OwnParams(block, lane)
  BY <1>1 DEF OwnParams, State
<1>5. SolvedPairs' = SolvedPairs \cup {<<n, l>>}
  BY <1>1, <1>2, <1>3 DEF SolvedPairs
<1> DEFINE Pair(p) == <<p[1], OwnParams(p[1], p[2])>>
<1>6. Distinct = {Pair(p) : p \in SolvedPairs} /\ Distinct' = {Pair(p) : p \in SolvedPairs'}
  BY <1>4 DEF Distinct
<1>7. Pair(<<n, l>>) = <<n, OwnParams(n, l)>>
  OBVIOUS
<1>8. Distinct' = Distinct \cup {Pair(<<n, l>>)}
  <2> HIDE DEF Pair
  <2> QED BY <1>5, <1>6
<1> QED BY <1>1, <1>7, <1>8

LEMMA ShareIInv == IInv /\ Share => IInv'
<1> SUFFICES ASSUME IInv, Share PROVE IInv'
  OBVIOUS
<1>0. PICK n, l : n = k /\ l = b
  OBVIOUS
<1>1. /\ Kept /\ LaneSolved(n, l)' /\ pc = "solve" /\ solves' = solves
      /\ \E a \in Batch : a < l /\ OwnParams(n, a) = OwnParams(n, l)
  BY <1>0, ShareCell
<1>2. Types' /\ Position' /\ SolvedInv' /\ FreeInv' /\ PullInv'
  BY <1>0, <1>1, CellKeepsInv DEF Kept
<1>3. Distinct' = Distinct \cup {<<n, OwnParams(n, l)>>} /\ dedup' = dedup
  BY <1>0, <1>1, CellDistinct
<1>4. <<n, OwnParams(n, l)>> \in Distinct
  <2>1. PICK a \in Batch : a < l /\ OwnParams(n, a) = OwnParams(n, l)
    BY <1>1
  <2>2. n \in Blocks /\ Solved(n, a)
    BY <1>0, <1>1, <2>1, AtCell
  <2>3. <<n, a>> \in SolvedPairs
    BY <2>1, <2>2 DEF SolvedPairs
  <2> QED BY <2>1, <2>3 DEF Distinct
<1>5. Distinct' = Distinct
  BY <1>3, <1>4
<1>6. CountInv'
  BY <1>1, <1>3, <1>5 DEF IInv, CountInv
<1> QED BY <1>2, <1>6 DEF IInv

LEMMA SolveIInv == IInv /\ Solve => IInv'
<1> SUFFICES ASSUME IInv, Solve PROVE IInv'
  OBVIOUS
<1>0. PICK n, l : n = k /\ l = b
  OBVIOUS
<1>1. Kept /\ LaneSolved(n, l)' /\ pc = "solve" /\ solves' = solves + 1
  BY <1>0, SolveCell
<1>2. Types' /\ Position' /\ SolvedInv' /\ FreeInv' /\ PullInv'
  BY <1>0, <1>1, CellKeepsInv DEF Kept
<1>3. Distinct' = Distinct \cup {<<n, OwnParams(n, l)>>} /\ dedup' = dedup
  BY <1>0, <1>1, CellDistinct
<1>4. ASSUME dedup PROVE <<n, OwnParams(n, l)>> \notin Distinct
  <2>1. SUFFICES ASSUME NEW p \in SolvedPairs, p[1] = n, OwnParams(n, p[2]) = OwnParams(n, l)
                 PROVE  FALSE
    BY DEF Distinct
  <2>2. PICK a \in Batch : a = p[2] /\ Solved(n, a) /\ n \in Blocks
    BY <2>1 DEF SolvedPairs
  <2>3. a < l
    BY <1>0, <1>1, <2>2, AtCell DEF Solved
  <2>4. LaneSolved(n, a)
    BY <2>2 DEF IInv, SolvedInv
  <2>5. PICK s : s = laneSource[n][a]
    OBVIOUS
  <2>6. s \in 1 .. a /\ laneSource[n][s] = s /\ laneParams[n][s] = OwnParams(n, l)
    BY <2>1, <2>2, <2>4, <2>5 DEF LaneSolved
  <2>7. s \in 1 .. (l - 1)
    BY <1>0, <1>1, <2>2, <2>3, <2>6, AtCell
  <2>8. s \in Twins
    BY <1>0, <1>1, <2>6, <2>7, ParamsAreOwn DEF Twins
  <2> QED BY <1>4, <2>8 DEF Solve, SolveHere
<1>5. CountInv'
  <2> SUFFICES ASSUME dedup PROVE IsFiniteSet(Distinct') /\ solves' = Cardinality(Distinct')
    BY <1>3 DEF CountInv
  <2>1. IsFiniteSet(Distinct) /\ solves = Cardinality(Distinct)
    BY <1>1 DEF IInv, CountInv
  <2> HIDE DEF Distinct
  <2>2. IsFiniteSet(Distinct \cup {<<n, OwnParams(n, l)>>})
        /\ Cardinality(Distinct \cup {<<n, OwnParams(n, l)>>}) = Cardinality(Distinct) + 1
    BY <1>4, <2>1, FS_AddElement
  <2> QED BY <1>1, <1>3, <2>1, <2>2
<1> QED BY <1>2, <1>5 DEF IInv

(* A throw leaves a batch nobody may ask about.                            *)
LEMMA ThrowIInv == IInv /\ Throw => IInv'
<1> SUFFICES ASSUME IInv, Throw PROVE IInv'
  OBVIOUS
<1>0. PICK n, l : n = k /\ l = b
  OBVIOUS
<1>1. /\ pc = "solve" /\ pc' = "idle" /\ answer' = Thrown /\ solves' = solves + 1
      /\ UNCHANGED <<request, throws, dedup, full_bar, last_B, full, reports>>
      /\ Batch' = Batch
  BY DEF Throw, SolveHere, Batch
<1>2. n \in Blocks /\ l \in Lanes /\ l \in Nat
  BY <1>0, <1>1, AtCell
<1>3. PICK v, w : /\ laneParams' = [laneParams EXCEPT ![n][l] = v]
                  /\ laneFactors' = [laneFactors EXCEPT ![n][l] = w]
                  /\ laneSource' = [laneSource EXCEPT ![n][l] = l]
  BY <1>0 DEF Throw, SolveHere
<1>4. IsTable(laneParams') /\ IsTable(laneFactors') /\ IsTable(reports')
  <2>1. IsTable(laneParams) /\ IsTable(laneFactors) /\ IsTable(reports)
    BY DEF IInv, Types
  <2> QED BY <1>1, <1>3, <2>1 DEF IsTable
<1>5. laneSource' \in [Blocks -> [Lanes -> Nat]]
  <2>1. laneSource \in [Blocks -> [Lanes -> Nat]]
    BY DEF IInv, Types
  <2> QED BY <1>2, <1>3, <2>1
<1>6. Types'
  BY <1>1, <1>4, <1>5 DEF IInv, Types
<1>7. Position'
  BY <1>1 DEF IInv, Position
<1>8. SolvedInv'
  BY <1>1 DEF SolvedInv, Solved
<1>9. FreeInv'
  BY <1>1 DEF IInv, FreeInv, State
<1>10. CountInv'
  BY <1>1 DEF CountInv
<1>11. PullInv'
  BY <1>1 DEF PullInv
<1> QED BY <1>6, <1>7, <1>8, <1>9, <1>10, <1>11 DEF IInv

(* The head of a call: the free inputs are those of its batch, and nothing *)
(* is solved yet.                                                          *)
LEMMA CallIInv ==
  ASSUME IInv, NEW op \in {"run", "adjoint"}, NEW states \in Batches, Call(op, states)
  PROVE  IInv'
<1>0. N \in Nat /\ MaxBatch \in Nat
  BY ReadsAssumption, BatchAssumption
<1>1. PICK n \in Lanes : states \in [1 .. n -> [Free -> Quotes]]
  BY DEF Batches
<1>2. Len(states) = n /\ n \in Nat /\ n > 0 /\ n \in 0 .. MaxBatch
  BY <1>0, <1>1 DEF Lanes
<1>3. /\ request'.op = op /\ request'.states = states /\ last_B' = n /\ solves' = 0
      /\ k' = 1 /\ b' = 1 /\ pc' = (IF N = 0 THEN "forward" ELSE "solve")
      /\ UNCHANGED <<throws, dedup, full_bar, laneParams, laneFactors, laneSource, reports>>
      /\ Batch' = 1 .. n
  BY <1>2 DEF Call, Batch
<1>4. full' = [lane \in Lanes |-> [i \in Inputs |->
                 IF i \in Free /\ lane <= n THEN states[lane][i] ELSE full[lane][i]]]
  BY <1>2 DEF Call
<1>5. Types'
  <2>1. (full = [lane \in Lanes |-> [i \in Inputs |-> full[lane][i]]])'
    <3> DEFINE F(lane, i) == IF i \in Free /\ lane <= n THEN states[lane][i] ELSE full[lane][i]
    <3>1. full' = [lane \in Lanes |-> [i \in Inputs |-> F(lane, i)]]
      BY <1>4
    <3> HIDE DEF F
    <3>2. \A lane \in Lanes : full'[lane] = [i \in Inputs |-> F(lane, i)]
      BY <3>1
    <3>3. \A lane \in Lanes, i \in Inputs : full'[lane][i] = F(lane, i)
      BY <3>2
    <3> QED BY <3>1, <3>3
  <2> QED BY <1>2, <1>3, <2>1 DEF IInv, Types
<1>6. Position'
  BY <1>0, <1>1, <1>2, <1>3 DEF Position, Blocks, Alone!Blocks
<1>7. \A block \in Blocks, lane \in Batch' : ~ Solved(block, lane)'
  BY <1>0, <1>2, <1>3 DEF Solved, Blocks, Alone!Blocks
<1>8. SolvedInv'
  BY <1>7 DEF SolvedInv
<1>9. FreeInv'
  <2>1. ASSUME NEW lane \in 1 .. n, NEW i \in Free PROVE full'[lane][i] = states[lane][i]
    <3>1. lane \in Lanes /\ lane <= n /\ i \in Inputs
      BY <1>0, <1>2 DEF Lanes, Inputs, Alone!Inputs
    <3> QED BY <1>4, <3>1
  <2> QED BY <1>3, <2>1 DEF FreeInv, State
<1>10. CountInv'
  <2>1. SolvedPairs' = {}
    <3>1. SolvedPairs' = {p \in Blocks \X Batch' : Solved(p[1], p[2])'}
      BY DEF SolvedPairs
    <3> QED BY <1>7, <3>1
  <2>2. Distinct' = {}
    BY <2>1 DEF Distinct
  <2> QED BY <1>3, <2>2, FS_EmptySet DEF CountInv
<1>11. PullInv'
  BY <1>3 DEF PullInv
<1> QED BY <1>5, <1>6, <1>8, <1>9, <1>10, <1>11 DEF IInv

(* Once every lane is solved, what the solves left stays until the next    *)
(* call.                                                                   *)
LEMMA SolvedStays ==
  ASSUME IInv, pc \in {"forward", "pull", "gather"}, pc' \in {"pull", "gather", "idle"},
         UNCHANGED <<request, throws, dedup, full, laneParams, laneFactors, laneSource, reports,
                     last_B, solves>>
  PROVE  SolvedInv' /\ FreeInv' /\ CountInv'
<1>1. Batch' = Batch
  BY DEF Batch
<1>2. \A block \in Blocks, lane \in Batch : Solved(block, lane)
  BY DEF Solved
<1>3. \A block \in Blocks, lane \in Batch : LaneSolved(block, lane)'
  BY <1>2 DEF IInv, SolvedInv, LaneSolved, OwnParams, Found, State
<1>4. SolvedInv'
  BY <1>1, <1>3 DEF SolvedInv
<1>5. FreeInv'
  BY <1>1 DEF IInv, FreeInv, State
<1>6. CountInv'
  <2> SUFFICES ASSUME dedup, pc' = "idle" => answer' \notin {Nothing, Thrown}
               PROVE  IsFiniteSet(Distinct') /\ solves' = Cardinality(Distinct')
    BY DEF CountInv
  <2>1. \A block \in Blocks, lane \in Batch : Solved(block, lane)'
    BY DEF Solved
  <2>2. SolvedPairs = Blocks \X Batch /\ SolvedPairs' = Blocks \X Batch
    BY <1>1, <1>2, <2>1 DEF SolvedPairs
  <2>3. Distinct' = Distinct
    BY <2>2 DEF Distinct, OwnParams, State
  <2>4. IsFiniteSet(Distinct) /\ solves = Cardinality(Distinct)
    BY DEF IInv, CountInv
  <2> HIDE DEF Distinct
  <2> QED BY <2>3, <2>4
<1> QED BY <1>4, <1>5, <1>6

LEMMA ForwardIInv == IInv /\ Forward => IInv'
<1> SUFFICES ASSUME IInv, Forward PROVE IInv'
  OBVIOUS
<1>1. /\ pc = "forward" /\ pc' = "idle"
      /\ UNCHANGED <<request, throws, dedup, full, full_bar, laneParams, laneFactors, laneSource,
                     reports, last_B, solves>>
  BY DEF Forward
<1>2. SolvedInv' /\ FreeInv' /\ CountInv'
  BY <1>1, SolvedStays
<1>3. Types'
  BY <1>1 DEF IInv, Types, IsTable
<1>4. Position'
  BY <1>1 DEF IInv, Position, Batch
<1>5. PullInv'
  BY <1>1 DEF PullInv
<1> QED BY <1>2, <1>3, <1>4, <1>5 DEF IInv

LEMMA GatherIInv == IInv /\ Gather => IInv'
<1> SUFFICES ASSUME IInv, Gather PROVE IInv'
  OBVIOUS
<1>1. /\ pc = "gather" /\ pc' = "idle"
      /\ UNCHANGED <<request, throws, dedup, full, full_bar, laneParams, laneFactors, laneSource,
                     reports, last_B, solves>>
  BY DEF Gather
<1>2. SolvedInv' /\ FreeInv' /\ CountInv'
  BY <1>1, SolvedStays
<1>3. Types'
  BY <1>1 DEF IInv, Types, IsTable
<1>4. Position'
  BY <1>1 DEF IInv, Position, Batch
<1>5. PullInv'
  BY <1>1 DEF PullInv
<1> QED BY <1>2, <1>3, <1>4, <1>5 DEF IInv

(* After the last block only the empty way is left.                        *)
LEMMA PathsAtEnd ==
  ASSUME NEW i
  PROVE  Cardinality(PathsAfter(i, N)) = 1
<1>1. SUBSET ((N + 1) .. N) = {{}}
  BY ReadsAssumption
<1>2. Alone!IsPath(i, {})
  BY DEF Alone!IsPath
<1>3. PathsAfter(i, N) = {{}}
  BY <1>1, <1>2 DEF PathsAfter
<1> QED BY <1>3, FS_Singleton

LEMMA DifferentiateIInv == IInv /\ Differentiate => IInv'
<1> SUFFICES ASSUME IInv, Differentiate PROVE IInv'
  OBVIOUS
<1>0. N \in Nat /\ MaxBatch \in Nat /\ last_B \in 0 .. MaxBatch /\ last_B > 0
  BY ReadsAssumption, BatchAssumption DEF IInv, Types, Position, Differentiate
<1>1. /\ pc = "forward" /\ pc' = (IF N = 0 THEN "gather" ELSE "pull") /\ k' = N /\ b' = 1
      /\ request.op = "adjoint"
      /\ UNCHANGED <<request, throws, dedup, full, laneParams, laneFactors, laneSource,
                     reports, last_B, solves>>
      /\ Batch' = Batch
  BY DEF Differentiate, Batch
<1>2. full_bar' = [lane \in Lanes |-> [i \in Inputs |->
                     IF lane \in Batch THEN 1 ELSE full_bar[lane][i]]]
  BY DEF Differentiate
<1>3. SolvedInv' /\ FreeInv' /\ CountInv'
  BY <1>1, SolvedStays
<1>4. Types'
  <2>1. full_bar' \in [Lanes -> [Inputs -> Nat]]
    <3>1. \A lane \in Lanes, i \in Inputs : full_bar[lane][i] \in Nat
      BY DEF IInv, Types
    <3> QED BY <1>2, <3>1
  <2> QED BY <1>1, <2>1 DEF IInv, Types, IsTable
<1>5. Position'
  BY <1>0, <1>1 DEF IInv, Position, Batch, Blocks, Alone!Blocks
<1>6. PullInv'
  <2>1. ASSUME NEW lane \in Batch, NEW i \in Inputs PROVE full_bar'[lane][i] = 1
    BY <1>0, <1>2 DEF Batch, Lanes
  <2>2. \A lane \in Batch : Level(lane)' = N
    BY <1>0, <1>1 DEF Level, Batch
  <2>3. \A i \in Free \cup 1 .. N : i \in Inputs
    BY DEF Inputs, Alone!Inputs, Alone!Blocks
  <2>4. \A i : Cardinality(PathsAfter(i, N)) = 1
    BY PathsAtEnd
  <2>5. \A lane \in Batch : \A i \in Free \cup 1 .. N : full_bar'[lane][i] = Cardinality(PathsAfter(i, N))
    BY <2>1, <2>3, <2>4
  <2> QED BY <1>1, <2>2, <2>5 DEF PullInv
<1> QED BY <1>3, <1>4, <1>5, <1>6 DEF IInv

(* The step back through the blocks leaves one more lane pulled through.   *)
LEMMA BackPulls ==
  ASSUME IInv, pc = "pull", Back("gather"), last_B' = last_B, NEW l, l = b
  PROVE  /\ pc' = "pull" \/ (pc' = "gather" /\ \A lane \in Batch : Level(lane)' = 0)
         /\ pc' = "pull" => k' \in Blocks /\ b' \in Batch
         /\ \A lane \in Batch : Level(lane)' = IF lane = l THEN k - 1 ELSE Level(lane)
         /\ Level(l) = k
<1>0. /\ N \in Nat /\ k \in Nat /\ 1 <= k /\ k <= N /\ last_B \in Nat
      /\ b \in Nat /\ 1 <= b /\ b <= last_B
  BY ReadsAssumption, BatchAssumption DEF IInv, Position, Types, Blocks, Alone!Blocks, Batch
<1>1. CASE b < last_B
  <2>1. b' = b + 1 /\ k' = k /\ pc' = pc
    BY <1>1 DEF Back
  <2>2. b' \in Batch /\ k' \in Blocks
    BY <1>0, <1>1, <2>1 DEF Batch, Blocks, Alone!Blocks
  <2>3. \A lane \in Batch : lane < b' <=> lane < b \/ lane = b
    BY <1>0, <2>1 DEF Batch
  <2> QED BY <1>0, <2>1, <2>2, <2>3 DEF Level
<1>2. CASE ~ (b < last_B)
  <2>1. b' = 1 /\ k' = k - 1 /\ pc' = (IF k > 1 THEN "pull" ELSE "gather") /\ b = last_B
    BY <1>0, <1>2 DEF Back
  <2>2. \A lane \in Batch : (lane < b \/ lane = b) /\ ~ (lane < 1)
    BY <1>0, <2>1 DEF Batch
  <2>3. pc' = "pull" => k' \in Blocks /\ b' \in Batch
    BY <1>0, <2>1 DEF Batch, Blocks, Alone!Blocks
  <2>4. pc' = "gather" => k = 1
    BY <1>0, <2>1
  <2>5. \A lane \in Batch : Level(lane)' = k - 1
    BY <2>1, <2>2 DEF Level
  <2> QED BY <1>0, <2>1, <2>2, <2>3, <2>4, <2>5 DEF Level
<1> QED BY <1>1, <1>2

LEMMA PullIInv == IInv /\ Pull => IInv'
<1> SUFFICES ASSUME IInv, Pull PROVE IInv'
  OBVIOUS
<1>a. PICK n, l : n = k /\ l = b
  OBVIOUS
<1>1. /\ pc = "pull" /\ Back("gather")
      /\ UNCHANGED <<request, throws, dedup, full, laneParams, laneFactors, laneSource,
                     reports, last_B, solves>>
      /\ Batch' = Batch
  BY DEF Pull, Batch
<1>2. /\ n \in Blocks /\ n \in Nat /\ n \in Inputs /\ l \in Batch /\ l \in Lanes
      /\ \A lane \in Batch : lane \in Lanes
  BY <1>a, <1>1, ReadsAssumption, BatchAssumption
     DEF IInv, Position, Types, Blocks, Alone!Blocks, Inputs, Alone!Inputs, Batch, Lanes
<1>3. /\ pc' = "pull" \/ (pc' = "gather" /\ \A lane \in Batch : Level(lane)' = 0)
      /\ pc' = "pull" => k' \in Blocks /\ b' \in Batch
      /\ \A lane \in Batch : Level(lane)' = IF lane = l THEN n - 1 ELSE Level(lane)
      /\ Level(l) = n
  BY <1>a, <1>1, BackPulls
<1>4. full_bar \in [Lanes -> [Inputs -> Nat]]
  BY DEF IInv, Types
<1>5. full_bar' = [full_bar EXCEPT ![l] = [i \in Inputs |->
                     IF i \in Reads[n] THEN @[i] + @[n] ELSE @[i]]]
  BY <1>a DEF Pull
<1>6. /\ \A lane \in Lanes : lane # l => full_bar'[lane] = full_bar[lane]
      /\ \A i \in Inputs : full_bar'[l][i] =
           IF i \in Reads[n] THEN full_bar[l][i] + full_bar[l][n] ELSE full_bar[l][i]
      /\ full_bar' \in [Lanes -> [Inputs -> Nat]]
  <2> DEFINE row == [i \in Inputs |-> IF i \in Reads[n] THEN full_bar[l][i] + full_bar[l][n]
                                      ELSE full_bar[l][i]]
  <2>1. row \in [Inputs -> Nat]
    <3>1. \A i \in Inputs : full_bar[l][i] \in Nat
      BY <1>2, <1>4
    <3> QED BY <1>2, <3>1
  <2>2. full_bar' = [full_bar EXCEPT ![l] = row]
    BY <1>5
  <2>3. \A i \in Inputs : row[i] = IF i \in Reads[n] THEN full_bar[l][i] + full_bar[l][n]
                                   ELSE full_bar[l][i]
    OBVIOUS
  <2> HIDE DEF row
  <2> QED BY <1>2, <1>4, <2>1, <2>2, <2>3
<1>7. SolvedInv' /\ FreeInv' /\ CountInv'
  <2>1. pc' \in {"pull", "gather", "idle"}
    BY <1>3
  <2> QED BY <1>1, <2>1, SolvedStays
<1>8. Types'
  BY <1>1, <1>3, <1>6 DEF IInv, Types, IsTable
<1>9. Position'
  BY <1>1, <1>3 DEF IInv, Position
<1>10. ASSUME NEW lane \in Batch, NEW i \in Free \cup 1 .. Level(lane)'
       PROVE  full_bar'[lane][i] = Cardinality(PathsAfter(i, Level(lane)'))
  <2>1. CASE lane # l
    BY <1>1, <1>2, <1>3, <1>6, <1>10, <2>1 DEF IInv, PullInv
  <2>2. CASE lane = l
    <3>1. Level(lane)' = n - 1 /\ i \in Free \cup 1 .. (n - 1)
      BY <1>3, <1>10, <2>2
    <3>2. i \in Free \cup 1 .. n /\ i \in Inputs /\ n \in 1 .. n
      BY <1>2, <3>1, ReadsAssumption DEF Inputs, Alone!Inputs, Alone!Blocks, Blocks
    <3>3. full_bar[l][i] = Cardinality(PathsAfter(i, n)) /\ full_bar[l][n] = Cardinality(PathsAfter(n, n))
      BY <1>1, <1>2, <1>3, <3>2 DEF IInv, PullInv
    <3>4. full_bar'[l][i] = Cardinality(PathsAfter(i, n - 1))
      BY <1>2, <1>6, <3>2, <3>3, PathsStep
    <3> QED BY <2>2, <3>1, <3>4
  <2> QED BY <2>1, <2>2
<1>11. PullInv'
  <2>1. pc' = "gather" => \A lane \in Batch : Level(lane)' = 0
    BY <1>3
  <2> QED BY <1>1, <1>3, <1>10, <2>1 DEF PullInv
<1> QED BY <1>7, <1>8, <1>9, <1>11 DEF IInv

(* Every step of a call, and every call, keeps the invariant.              *)
LEMMA NextIInv == IInv /\ [Next]_vars => IInv'
<1> SUFFICES ASSUME IInv, [Next]_vars PROVE IInv'
  OBVIOUS
<1>1. ASSUME NEW op \in {"run", "adjoint"}, NEW states \in Batches, Call(op, states) PROVE IInv'
  BY <1>1, CallIInv
<1>2. CASE Share
  BY <1>2, ShareIInv
<1>3. CASE Solve
  BY <1>3, SolveIInv
<1>4. CASE Throw
  BY <1>4, ThrowIInv
<1>5. CASE Forward
  BY <1>5, ForwardIInv
<1>6. CASE Differentiate
  BY <1>6, DifferentiateIInv
<1>7. CASE Pull
  BY <1>7, PullIInv
<1>8. CASE Gather
  BY <1>8, GatherIInv
<1>9. CASE UNCHANGED vars
  <2> USE <1>9 DEF vars
  <2>1. Types' /\ Position' /\ FreeInv'
    BY DEF IInv, Types, IsTable, Position, FreeInv, Batch, State
  <2>2. SolvedInv'
    BY DEF IInv, SolvedInv, Solved, LaneSolved, Batch, State, OwnParams, Found
  <2>3. Distinct' = Distinct
    BY DEF Distinct, SolvedPairs, Solved, Batch, State, OwnParams
  <2>4. CountInv'
    <3> HIDE DEF Distinct
    <3> QED BY <2>3 DEF IInv, CountInv
  <2>5. PullInv'
    BY DEF IInv, PullInv, Level, Batch
  <2> QED BY <2>1, <2>2, <2>4, <2>5 DEF IInv
<1> QED BY <1>1, <1>2, <1>3, <1>4, <1>5, <1>6, <1>7, <1>8, <1>9 DEF Next, Work

(* The lanes' arrays are as IInv says in every behaviour of run and        *)
(* adjoint, whatever was asked, diverged and thrown before.                *)
THEOREM Invariance == Spec => []IInv
BY InitIInv, NextIInv, PTL DEF Spec

------------------------------------------------------------------------------
(* When the reverse rule begins, every lane pulls through factors of its   *)
(* own solution, found in this very call: see FactorsFitTheLane.           *)
THEOREM FactorsFit == Spec => []FactorsFitTheLane
<1>1. ASSUME IInv PROVE FactorsFitTheLane
  <2> SUFFICES ASSUME pc = "pull", NEW block \in Blocks, NEW lane \in Batch
               PROVE  FactorsUsed(block, lane) = Found(block, lane)
    BY DEF FactorsFitTheLane, Found, OwnParams, State
  <2>1. LaneSolved(block, lane)
    BY <1>1 DEF IInv, SolvedInv, Solved
  <2>2. request.op = "adjoint"
    BY <1>1 DEF IInv, Position
  <2> QED BY <2>1, <2>2 DEF LaneSolved, FactorsUsed
<1> QED BY <1>1, Invariance, PTL

(* A call that returns has solved a block once for every distinct set of   *)
(* parameters, whatever the batch and its order: see OneSolvePerTwin.      *)
THEOREM SolvesOncePerTwin == Spec => []OneSolvePerTwin
<1>1. ASSUME IInv PROVE OneSolvePerTwin
  <2> SUFFICES ASSUME pc = "idle", dedup, answer \notin {Nothing, Thrown}
               PROVE  /\ solves = Cardinality({<<block, OwnParams(block, lane)>> :
                                                  block \in Blocks, lane \in Batch})
                      /\ \A block \in Blocks, lane \in Batch :
                           laneSource[block][laneSource[block][lane]] = laneSource[block][lane]
    BY DEF OneSolvePerTwin, OwnParams, State
  <2>1. \A block \in Blocks, lane \in Batch : Solved(block, lane)
    BY DEF Solved
  <2>2. \A block \in Blocks, lane \in Batch : LaneSolved(block, lane)
    BY <1>1, <2>1 DEF IInv, SolvedInv
  <2> DEFINE Pair(p) == <<p[1], OwnParams(p[1], p[2])>>
             All == {<<block, OwnParams(block, lane)>> : block \in Blocks, lane \in Batch}
  <2>3. SolvedPairs = Blocks \X Batch
    BY <2>1 DEF SolvedPairs
  <2>4. All = {Pair(p) : p \in Blocks \X Batch}
    <3>1. ASSUME NEW p \in Blocks \X Batch PROVE Pair(p) \in All
      OBVIOUS
    <3>2. ASSUME NEW block \in Blocks, NEW lane \in Batch
          PROVE  <<block, OwnParams(block, lane)>> \in {Pair(p) : p \in Blocks \X Batch}
      <4>1. <<block, lane>> \in Blocks \X Batch /\ Pair(<<block, lane>>) = <<block, OwnParams(block, lane)>>
        OBVIOUS
      <4> HIDE DEF Pair
      <4> QED BY <4>1
    <3>3. \A q \in All : \E block \in Blocks, lane \in Batch : q = <<block, OwnParams(block, lane)>>
      OBVIOUS
    <3> HIDE DEF Pair, All
    <3>4. \A q \in {Pair(p) : p \in Blocks \X Batch} : q \in All
      BY <3>1
    <3>5. \A q \in All : q \in {Pair(p) : p \in Blocks \X Batch}
      BY <3>2, <3>3
    <3> QED BY <3>4, <3>5
  <2>5. Distinct = All
    BY <2>3, <2>4 DEF Distinct
  <2>6. solves = Cardinality(Distinct)
    BY <1>1 DEF IInv, CountInv
  <2>7. solves = Cardinality(All)
    <3> HIDE DEF All, Distinct
    <3> QED BY <2>5, <2>6
  <2> QED BY <2>2, <2>7 DEF LaneSolved
<1> QED BY <1>1, Invariance, PTL

(* What report() and full_state() give after a call that returned was      *)
(* found in that call, for that lane: see ReportsOfLastCall.               *)
THEOREM ReportsFresh == Spec => []ReportsOfLastCall
<1>1. ASSUME IInv PROVE ReportsOfLastCall
  <2> SUFFICES ASSUME pc = "idle", answer # Thrown, NEW block \in Blocks, NEW lane \in Batch
               PROVE  reports[block][lane] = Report(block, OwnParams(block, lane))
    BY DEF ReportsOfLastCall, OwnParams, State
  <2>1. LaneSolved(block, lane)
    BY <1>1 DEF IInv, SolvedInv, Solved
  <2> QED BY <2>1 DEF LaneSolved
<1> QED BY <1>1, Invariance, PTL

------------------------------------------------------------------------------
(* A solve of a lane fails where a free parameter of its state diverges.   *)
LEMMA FailsAlone ==
  ASSUME NEW state, NEW block \in Blocks
  PROVE  Alone!Fails(block, ParamsAlone(block, state))
           <=> \E m \in Reads[block] \cap Free : state[m] \in Diverges
<1>1. ASSUME NEW m \in Reads[block] \cap Free PROVE ParamsAlone(block, state)[m] = state[m]
  <2>1. m \in Inputs
    BY DEF Inputs, Alone!Inputs
  <2> QED BY <2>1 DEF ParamsAlone, Alone!FullState, Inputs
<1> QED BY <1>1 DEF Alone!Fails

(* Once every lane is solved, the batch holds what the lanes would have    *)
(* alone, and none fails if failures throw.                                *)
LEMMA AllSolved ==
  ASSUME IInv, pc \in {"forward", "gather"}
  PROVE  /\ \A lane \in Batch : full[lane] = Alone!FullState(request.states[lane])
         /\ throws => \A lane \in Batch : ~Alone!LaneFails(request.states[lane])
         /\ DOMAIN request.states = Batch /\ request.op \in {"run", "adjoint"}
<1>1. \A block \in Blocks, lane \in Batch : LaneSolved(block, lane)
  BY DEF IInv, SolvedInv, Solved
<1>2. last_B > 0
  BY DEF IInv, Position
<1>3. DOMAIN request.states = Batch /\ request.op \in {"run", "adjoint"}
  BY <1>2 DEF IInv, Position
<1>4. ASSUME NEW lane \in Batch PROVE full[lane] = Alone!FullState(request.states[lane])
  <2>1. lane \in Lanes
    BY <1>4, BatchAssumption DEF IInv, Types, Batch, Lanes
  <2>2. full[lane] = [i \in Inputs |-> full[lane][i]]
    BY <2>1 DEF IInv, Types
  <2>3. ASSUME NEW i \in Inputs PROVE full[lane][i] = Alone!FullState(State(lane))[i]
    <3>1. CASE i \in Free
      <4>1. Alone!FullState(State(lane))[i] = State(lane)[i]
        BY <3>1 DEF Alone!FullState, Inputs
      <4> QED BY <3>1, <4>1 DEF IInv, FreeInv
    <3>2. CASE i \in Blocks
      <4>1. full[lane][i] = Found(i, lane)
        BY <1>1, <3>2 DEF LaneSolved
      <4> QED BY <3>2, <4>1, UnknownsSolve DEF Found, OwnParams
    <3> QED BY <3>1, <3>2 DEF Inputs, Alone!Inputs, Blocks
  <2>4. Alone!FullState(State(lane)) = [i \in Inputs |-> Alone!FullState(State(lane))[i]]
    BY DEF Alone!FullState, Inputs
  <2> QED BY <2>2, <2>3, <2>4 DEF State
<1>5. ASSUME throws, NEW lane \in Batch PROVE ~Alone!LaneFails(request.states[lane])
  <2>1. \A block \in Blocks : ~Alone!Fails(block, OwnParams(block, lane))
    BY <1>1, <1>5 DEF LaneSolved
  <2> QED BY <2>1, FailsAlone DEF OwnParams, State, Alone!LaneFails, Blocks
<1> QED BY <1>3, <1>4, <1>5

(* The head of a call asks for its batch. *)
LEMMA CallAsks ==
  ASSUME NEW op \in {"run", "adjoint"}, NEW states \in Batches, Call(op, states)
  PROVE  Alone!Ask
<1>1. PICK n \in Lanes : states \in [1 .. n -> [Free -> Quotes]]
  BY DEF Batches
<1>2. states \in Seq(Alone!States)
  <2>1. n \in Nat
    BY BatchAssumption DEF Lanes
  <2> QED BY <1>1, <2>1 DEF Alone!States
<1>3. request' \in [op : Alone!Operations, states : Seq(Alone!States)]
  BY <1>2 DEF Call, Alone!Operations
<1>4. ~(pc # "idle") /\ (pc' # "idle") = TRUE /\ answer' = Nothing /\ throws' = throws
  BY DEF Call
<1> QED BY <1>3, <1>4 DEF Alone!Ask

LEMMA ThrowReplies == IInv /\ Throw => Alone!Reply
<1> SUFFICES ASSUME IInv, Throw PROVE Alone!Reply
  OBVIOUS
<1>1. pc = "solve" /\ pc' = "idle" /\ answer' = Thrown /\ throws /\ UNCHANGED <<request, throws>>
  BY DEF Throw, SolveHere
<1>2. k \in Blocks /\ b \in Batch /\ Params = OwnParams(k, b)
  BY <1>1, AtCell, ParamsAreOwn
<1>3. Alone!LaneFails(request.states[b])
  BY <1>2, FailsAlone DEF Throw, OwnParams, State, Alone!LaneFails, Blocks
<1>4. DOMAIN request.states = Batch
  BY <1>1 DEF IInv, Position
<1>5. answer' = Alone!Answer(request.op, request.states)
  BY <1>1, <1>2, <1>3, <1>4 DEF Alone!Answer
<1> QED BY <1>1, <1>5 DEF Alone!Reply

LEMMA ForwardReplies == IInv /\ Forward => Alone!Reply
<1> SUFFICES ASSUME IInv, Forward PROVE Alone!Reply
  OBVIOUS
<1>1. /\ pc = "forward" /\ pc' = "idle" /\ request.op = "run" /\ UNCHANGED <<request, throws>>
      /\ answer' = [lane \in Batch |-> [inputs |-> full[lane], gradient |-> Nothing]]
  BY DEF Forward
<1>2. /\ \A lane \in Batch : full[lane] = Alone!FullState(request.states[lane])
      /\ throws => \A lane \in Batch : ~Alone!LaneFails(request.states[lane])
      /\ DOMAIN request.states = Batch
  BY <1>1, AllSolved
<1>3. answer' = [lane \in Batch |-> [inputs |-> Alone!FullState(request.states[lane]), gradient |-> Nothing]]
  BY <1>1, <1>2
<1>4. answer' = Alone!Answer(request.op, request.states)
  BY <1>1, <1>2, <1>3 DEF Alone!Answer
<1> QED BY <1>1, <1>4 DEF Alone!Reply

(* Cardinality is the same operator in LanesAlone.                         *)
LEMMA CardinalityAlone == \A S : Alone!Cardinality(S) = Cardinality(S)
BY DEF Cardinality, Alone!Cardinality

LEMMA GatherReplies == IInv /\ Gather => Alone!Reply
<1> SUFFICES ASSUME IInv, Gather PROVE Alone!Reply
  OBVIOUS
<1>1. /\ pc = "gather" /\ pc' = "idle" /\ request.op = "adjoint" /\ UNCHANGED <<request, throws>>
      /\ answer' = [lane \in Batch |-> [inputs |-> full[lane],
                                        gradient |-> [i \in Free |-> full_bar[lane][i]]]]
  BY DEF Gather, IInv, Position
<1>2. /\ \A lane \in Batch : full[lane] = Alone!FullState(request.states[lane])
      /\ throws => \A lane \in Batch : ~Alone!LaneFails(request.states[lane])
      /\ DOMAIN request.states = Batch
  BY <1>1, AllSolved
<1>3. ASSUME NEW lane \in Batch PROVE [i \in Free |-> full_bar[lane][i]] = Alone!Gradient
  <2>1. \A i : PathsAfter(i, 0) = {path \in SUBSET Alone!Blocks : Alone!IsPath(i, path)}
    BY ReadsAssumption DEF PathsAfter, Alone!Blocks
  <2>2. \A i \in Free : full_bar[lane][i] = Cardinality(PathsAfter(i, 0))
    BY <1>1 DEF IInv, PullInv
  <2>3. ASSUME NEW i \in Free PROVE full_bar[lane][i] = Alone!Paths(i)
    <3>1. PathsAfter(i, 0) = {path \in SUBSET Alone!Blocks : Alone!IsPath(i, path)}
      BY <2>1
    <3>2. Cardinality(PathsAfter(i, 0)) = Alone!Paths(i)
      BY <3>1, CardinalityAlone DEF Alone!Paths
    <3> QED BY <2>2, <3>2
  <2> QED BY <2>3 DEF Alone!Gradient
<1>4. answer' = [lane \in Batch |-> [inputs |-> Alone!FullState(request.states[lane]),
                                     gradient |-> Alone!Gradient]]
  BY <1>1, <1>2, <1>3
<1>5. answer' = Alone!Answer(request.op, request.states)
  BY <1>1, <1>2, <1>4 DEF Alone!Answer
<1> QED BY <1>1, <1>5 DEF Alone!Reply

(* The arrays of batched lanes, shared solves and earlier calls implement  *)
(* the promise of LanesAlone, but for Answered: every call is answered as  *)
(* if each lane had been solved alone.                                     *)
THEOREM ImplementsAlone == Spec => Alone!Init /\ [][Alone!Next]_(Alone!promise)
<1>1. Init => Alone!Init
  BY BatchAssumption DEF Init, Alone!Init
<1>2. ASSUME IInv, [Next]_vars PROVE [Alone!Next]_(Alone!promise)
  <2>1. ASSUME NEW op \in {"run", "adjoint"}, NEW states \in Batches, Call(op, states)
        PROVE  Alone!Next
    BY <2>1, CallAsks DEF Alone!Next
  <2>2. ASSUME Throw \/ Forward \/ Gather PROVE Alone!Next
    BY <1>2, <2>2, ThrowReplies, ForwardReplies, GatherReplies DEF Alone!Next
  <2>3. ASSUME Share \/ Solve PROVE UNCHANGED Alone!promise
    <3>1. pc = "solve" /\ Forth("forward") /\ UNCHANGED <<request, throws, answer, last_B>>
      BY <2>3 DEF Share, Solve, SolveHere
    <3>2. pc' \in {"solve", "forward"}
      BY <1>2, <3>1, ForthSolved
    <3> QED BY <3>1, <3>2 DEF Alone!promise
  <2>4. CASE Differentiate
    BY <2>4 DEF Differentiate, Alone!promise
  <2>5. CASE Pull
    <3>1. pc = "pull" /\ pc' \in {"pull", "gather"} /\ UNCHANGED <<request, throws, answer>>
      BY <2>5 DEF Pull, Back
    <3> QED BY <3>1 DEF Alone!promise
  <2>6. CASE UNCHANGED vars
    BY <2>6 DEF vars, Alone!promise
  <2> QED BY <1>2, <2>1, <2>2, <2>3, <2>4, <2>5, <2>6 DEF Next, Work
<1> QED BY <1>1, <1>2, Invariance, PTL DEF Spec
=============================================================================
