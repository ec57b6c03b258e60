--------------------------- MODULE SparsityProofs ---------------------------
(***************************************************************************)
(* Proofs about Sparsity: the sweep finds what the residuals depend on,    *)
(* the gate refuses exactly the blocks that are not coupled, and residuals *)
(* of one colour share no unknown, for every tape and every block.         *)
(***************************************************************************)
EXTENDS Sparsity, FiniteSetTheorems, WellFoundedInduction, TLAPS

(* A non-empty set of naturals has a least element, and Min is it.         *)
LEMMA MinIsLeast ==
  ASSUME NEW S \in SUBSET Nat, S # {}
  PROVE  Min(S) \in S /\ \A y \in S : Min(S) <= y
<1> DEFINE less == {ss \in Nat \X Nat : ss[1] < ss[2]}
<1>1. IsWellFoundedOn(less, Nat)
  BY NatLessThanWellFounded DEF OpToRel
<1>2. \A x, y \in Nat : y < x => <<y, x>> \in less
  OBVIOUS
<1> HIDE DEF less
<1>3. PICK x \in S : \A y \in S : ~ (<<y, x>> \in less)
  BY <1>1, WFMin
<1>4. ASSUME NEW y \in S PROVE x <= y
  <2>1. x \in Nat /\ y \in Nat
    OBVIOUS
  <2>2. ~ (y < x)
    BY <1>2, <1>3, <2>1
  <2> QED BY <2>1, <2>2
<1> QED BY <1>4 DEF Min

(* A non-empty set of naturals no greater than n has a greatest element.   *)
LEMMA MaxIsGreatest ==
  ASSUME NEW n \in Nat, NEW S \in SUBSET (0..n), S # {}
  PROVE  Max(S) \in S /\ \A y \in S : y <= Max(S)
<1> DEFINE T == {n - x : x \in S}
<1>0. \A x \in S : x \in Nat /\ n - x \in Nat
  OBVIOUS
<1>1. T \in SUBSET Nat /\ T # {}
  BY <1>0
<1>2. Min(T) \in T /\ \A y \in T : Min(T) <= y
  BY <1>1, MinIsLeast
<1>3. PICK x \in S : n - x = Min(T)
  BY <1>2
<1>4. \A y \in S : n - x <= n - y
  BY <1>2, <1>3
<1>5. \A y \in S : x >= y
  BY <1>0, <1>4
<1> QED BY <1>5 DEF Max

(* The rows taken are too few to take every colour on offer.               *)
LEMMA SomeColourFree ==
  ASSUME NEW C, IsFiniteSet(C), NEW f, NEW r \in Nat, Cardinality(C) <= r
  PROVE  \E c \in 0..r : \A j \in C : f[j] # c
<1> SUFFICES ASSUME \A c \in 0..r : \E j \in C : f[j] = c PROVE FALSE
  OBVIOUS
<1> DEFINE T == {f[j] : j \in C}
           g == [j \in C |-> f[j]]
<1>1. g \in Surjection(C, T)
  BY DEF Surjection
<1> HIDE DEF g
<1>2. IsFiniteSet(T) /\ Cardinality(T) <= Cardinality(C)
  BY <1>1, FS_Surjection
<1>3. 0..r \in SUBSET T
  OBVIOUS
<1>4. Cardinality(0..r) = r + 1
  BY FS_Interval
<1> HIDE DEF T
<1>5. Cardinality(0..r) <= Cardinality(T)
  BY <1>2, <1>3, FS_Subset
<1>6. Cardinality(T) \in Nat /\ Cardinality(C) \in Nat
  BY <1>2, FS_CardinalityType
<1> QED BY <1>2, <1>4, <1>5, <1>6

------------------------------------------------------------------------------
(* The types, and what no action changes: every operand is an earlier node *)
(* and no residual is after the last.                                      *)
Types ==
  /\ Size \in Nat
  /\ tape \in [Nodes -> SUBSET Nodes] /\ \A n \in Nodes : tape[n] \subseteq 1..(n - 1)
  /\ unknowns \subseteq Nodes
  /\ IsFiniteSet(Rows) /\ residuals \in [Rows -> Nodes]
  /\ LastResidual \in Nodes /\ \A i \in Rows : residuals[i] <= LastResidual
  /\ pc \in {"seed", "sweep", "gate", "colour", "done", "refused"}
  /\ mark \in [Nodes -> SUBSET Rows] /\ k \in 0..LastResidual
  /\ pc = "seed" => k = 0
  /\ bits \in [Rows -> SUBSET unknowns]
  /\ colour \in [Rows -> Int]

(* A residual is carried only to nodes it depends on.                      *)
MarksDepend == \A n \in Nodes : \A i \in mark[n] : DependsOn(i, n)

(* During the sweep: every residual has its own node, no node after the    *)
(* last residual has any, and a swept node has passed on what it has.      *)
SweptPassOn ==
  pc = "sweep" =>
    /\ \A i \in Rows : i \in mark[residuals[i]]
    /\ \A m \in Nodes : m > LastResidual => mark[m] = {}
    /\ \A m \in Nodes : m > LastResidual - k => \A n \in tape[m] : mark[m] \subseteq mark[n]

(* What the gate has decided stays so: it looked at the pattern.           *)
Decided ==
  /\ pc = "refused" => require /\ Singular
  /\ pc \in {"colour", "done"} => ~require \/ ~Singular

(* Coloured rows of one colour share no unknown, before the last is too.   *)
ColoursApart ==
  /\ pc \in {"seed", "sweep", "gate", "refused"} => \A i \in Rows : colour[i] = -1
  /\ pc = "done" => \A i \in Rows : colour[i] >= 0
  /\ \A i, j \in Rows : i # j /\ colour[i] >= 0 /\ colour[i] = colour[j] =>
       bits[i] \cap bits[j] = {}

IInv == Types /\ MarksDepend /\ SweptPassOn /\ PatternIsDependence /\ Decided /\ ColoursApart

(* A residual depends on its own node, and on the operands of what it      *)
(* depends on.                                                             *)
LEMMA DependsOnNode ==
  ASSUME NEW i \in Rows
  PROVE  DependsOn(i, residuals[i])
BY DEF DependsOn

LEMMA DependsOnOperand ==
  ASSUME NEW i, NEW m \in Nodes, NEW n \in tape[m], DependsOn(i, m)
  PROVE  DependsOn(i, n)
BY DEF DependsOn

(* A closed set that holds the residual holds all it depends on.           *)
LEMMA ConeHolds ==
  ASSUME NEW i, NEW n, DependsOn(i, n), NEW cone \in SUBSET Nodes,
         residuals[i] \in cone, \A m \in cone : tape[m] \subseteq cone
  PROVE  n \in cone
BY DEF DependsOn

LEMMA InitIInv ==
  ASSUME Size \in Nat, Residuals \in Nat, Init
  PROVE  IInv
<1>1. PICK r \in 1..Residuals : residuals \in [1..r -> Nodes]
  BY DEF Init
<1>2. Rows = 1..r /\ r \in Nat /\ r >= 1
  BY <1>1 DEF Rows
<1>3. IsFiniteSet(Rows)
  BY <1>2, FS_Interval
<1>4. LastResidual \in Nodes /\ \A i \in Rows : residuals[i] <= LastResidual
  <2> DEFINE S == {residuals[i] : i \in Rows}
  <2>1. S \in SUBSET (0..Size) /\ S # {} /\ S \subseteq Nodes
    BY <1>1, <1>2 DEF Nodes
  <2> HIDE DEF S
  <2>2. Max(S) \in S /\ \A y \in S : y <= Max(S)
    BY <2>1, MaxIsGreatest
  <2> QED BY <2>1, <2>2 DEF LastResidual, S
<1>5. Types
  <2>1. residuals \in [Rows -> Nodes]
    BY <1>1, <1>2
  <2>2. mark \in [Nodes -> SUBSET Rows] /\ bits \in [Rows -> SUBSET unknowns] /\ colour \in [Rows -> Int]
    BY DEF Init
  <2>3. k \in 0..LastResidual /\ k = 0
    BY <1>4 DEF Init, Nodes
  <2> QED BY <1>3, <1>4, <2>1, <2>2, <2>3 DEF Init, Types, Tapes
<1>6. MarksDepend /\ SweptPassOn /\ PatternIsDependence /\ Decided
  BY DEF Init, MarksDepend, SweptPassOn, PatternIsDependence, Decided
<1>7. ColoursApart
  BY DEF Init, ColoursApart
<1> QED BY <1>5, <1>6, <1>7 DEF IInv

(* The sweep leaves what it starts from alone.                             *)
LEMMA SeedIInv ==
  ASSUME IInv, Seed
  PROVE  IInv'
<1>1. /\ UNCHANGED <<tape, unknowns, residuals, require, k, bits, colour>>
      /\ mark' = [n \in Nodes |-> {i \in Rows : residuals[i] = n}]
      /\ pc = "seed" /\ pc' = "sweep"
  BY DEF Seed
<1>2. Rows' = Rows /\ LastResidual' = LastResidual /\ Types
  BY <1>1 DEF Rows, LastResidual, IInv
<1>3. Types'
  BY <1>1, <1>2 DEF Types
<1>4. MarksDepend'
  <2> SUFFICES ASSUME NEW n \in Nodes, NEW i \in mark'[n] PROVE DependsOn(i, n)'
    BY DEF MarksDepend
  <2>1. i \in Rows /\ residuals[i] = n
    BY <1>1
  <2>2. DependsOn(i, n)
    BY <2>1, DependsOnNode
  <2> QED BY <1>1, <2>2 DEF DependsOn
<1>5. SweptPassOn'
  <2>1. \A i \in Rows : i \in mark'[residuals[i]]
    BY <1>1, <1>2 DEF Types
  <2>2. \A m \in Nodes : m > LastResidual => mark'[m] = {}
    <3> SUFFICES ASSUME NEW m \in Nodes, m > LastResidual, NEW i \in mark'[m] PROVE FALSE
      OBVIOUS
    <3>1. i \in Rows /\ residuals[i] = m
      BY <1>1
    <3> QED BY <1>2, <3>1 DEF Types, Nodes
  <2>3. LastResidual - k = LastResidual
    BY <1>1, <1>2 DEF Types, Nodes
  <2> QED BY <1>1, <1>2, <2>1, <2>2, <2>3 DEF SweptPassOn
<1>6. PatternIsDependence' /\ Decided'
  BY <1>1 DEF PatternIsDependence, Decided
<1>7. ColoursApart'
  BY <1>1, <1>2 DEF ColoursApart, IInv
<1> QED BY <1>3, <1>4, <1>5, <1>6, <1>7 DEF IInv

(* One node of the sweep: its operands get what it has, nothing is lost,   *)
(* and no node swept before is touched.                                    *)
LEMMA SweepIInv ==
  ASSUME IInv, Sweep
  PROVE  IInv'
<1> DEFINE s == LastResidual - k
<1>1. /\ UNCHANGED <<tape, unknowns, residuals, require, pc, bits, colour>>
      /\ mark' = [n \in Nodes |-> IF n \in tape[s] THEN mark[n] \cup mark[s] ELSE mark[n]]
      /\ pc = "sweep" /\ k < LastResidual /\ k' = k + 1
  BY DEF Sweep, Swept
<1>2. Rows' = Rows /\ LastResidual' = LastResidual /\ Types
  BY <1>1 DEF Rows, LastResidual, IInv
<1>3. /\ LastResidual \in Nat /\ k \in Nat /\ s \in Nat /\ s \in Nodes /\ s - 1 = LastResidual - k'
      /\ \A n \in Nodes : n \in Nat
  BY <1>1, <1>2 DEF Types, Nodes
<1>4. tape[s] \subseteq Nodes /\ \A n \in tape[s] : n < s
  BY <1>2, <1>3 DEF Types
<1> HIDE DEF s
<1>5. /\ \A n \in Nodes : mark[n] \subseteq mark'[n]
      /\ \A n \in tape[s] : mark[s] \subseteq mark'[n]
      /\ \A n \in Nodes : n >= s => mark'[n] = mark[n]
  <2>1. ASSUME NEW n \in Nodes, n >= s PROVE n \notin tape[s]
    <3>1. ~(n < s) /\ n \in Nat
      BY <1>3, <2>1
    <3> QED BY <1>4, <3>1
  <2> QED BY <1>1, <1>4, <2>1
<1>6. Types'
  <2>1. mark' \in [Nodes -> SUBSET Rows]
    BY <1>1, <1>2, <1>3 DEF Types
  <2>2. k' \in 0..LastResidual
    BY <1>1, <1>3
  <2> QED BY <1>1, <1>2, <2>1, <2>2 DEF Types
<1>7. MarksDepend'
  <2> SUFFICES ASSUME NEW n \in Nodes, NEW i \in mark'[n] PROVE DependsOn(i, n)'
    BY DEF MarksDepend
  <2>1. i \in mark[n] \/ (n \in tape[s] /\ i \in mark[s])
    BY <1>1
  <2>2. DependsOn(i, n)
    BY <1>3, <2>1, DependsOnOperand DEF IInv, MarksDepend
  <2> QED BY <1>1, <2>2 DEF DependsOn
<1>8. SweptPassOn'
  <2>1. /\ \A i \in Rows : i \in mark[residuals[i]]
        /\ \A m \in Nodes : m > LastResidual => mark[m] = {}
        /\ \A m \in Nodes : m > s => \A n \in tape[m] : mark[m] \subseteq mark[n]
    BY <1>1 DEF IInv, SweptPassOn, s
  <2>2. \A i \in Rows : i \in mark'[residuals[i]]
    BY <1>2, <1>5, <2>1 DEF Types
  <2>3. \A m \in Nodes : m > LastResidual => mark'[m] = {}
    <3>1. \A m \in Nodes : m > LastResidual => m >= s
      BY <1>3 DEF s
    <3> QED BY <1>5, <2>1, <3>1
  <2>4. ASSUME NEW m \in Nodes, m > s - 1, NEW n \in tape[m] PROVE mark'[m] \subseteq mark'[n]
    <3>1. m = s \/ m > s
      BY <1>3, <2>4
    <3>2. mark'[m] = mark[m] /\ n \in Nodes
      BY <1>2, <1>3, <1>5, <3>1 DEF Types
    <3>3. mark[m] \subseteq mark'[n]
      BY <1>5, <2>1, <3>1, <3>2
    <3> QED BY <3>2, <3>3
  <2> QED BY <1>1, <1>2, <1>3, <2>2, <2>3, <2>4 DEF SweptPassOn
<1>9. PatternIsDependence' /\ Decided'
  BY <1>1 DEF PatternIsDependence, Decided
<1>10. ColoursApart'
  BY <1>1, <1>2 DEF ColoursApart, IInv
<1> QED BY <1>6, <1>7, <1>8, <1>9, <1>10 DEF IInv

(* When every node is swept, the nodes a residual has reached are closed:  *)
(* they hold all it depends on, and nothing else.                          *)
LEMMA ReadRowsIInv ==
  ASSUME IInv, ReadRows
  PROVE  IInv'
<1>1. /\ UNCHANGED <<tape, unknowns, residuals, require, mark, k, colour>>
      /\ bits' = [i \in Rows |-> {u \in unknowns : i \in mark[u]}]
      /\ pc = "sweep" /\ pc' = "gate" /\ k = LastResidual
  BY DEF ReadRows
<1>2. Rows' = Rows /\ LastResidual' = LastResidual /\ Types
  BY <1>1 DEF Rows, LastResidual, IInv
<1>3. Types'
  BY <1>1, <1>2 DEF Types
<1>4. MarksDepend'
  BY <1>1 DEF IInv, MarksDepend, DependsOn
<1>5. SweptPassOn' /\ Decided'
  BY <1>1 DEF SweptPassOn, Decided
<1>6. PatternIsDependence'
  <2> SUFFICES ASSUME NEW i \in Rows, NEW u \in unknowns PROVE u \in bits'[i] <=> DependsOn(i, u)
    BY <1>1, <1>2 DEF PatternIsDependence, DependsOn
  <2>1. u \in bits'[i] <=> i \in mark[u]
    BY <1>1
  <2>2. i \in mark[u] => DependsOn(i, u)
    BY <1>2 DEF IInv, MarksDepend, Types
  <2>3. DependsOn(i, u) => i \in mark[u]
    <3> DEFINE cone == {n \in Nodes : i \in mark[n]}
    <3>1. residuals[i] \in cone
      BY <1>1, <1>2 DEF IInv, SweptPassOn, Types
    <3>2. \A m \in Nodes : m > LastResidual - k
      BY <1>1, <1>2 DEF Types, Nodes
    <3>3. \A m \in cone : tape[m] \subseteq cone
      BY <1>1, <1>2, <3>2 DEF IInv, SweptPassOn, Types
    <3> SUFFICES ASSUME DependsOn(i, u) PROVE u \in cone
      OBVIOUS
    <3>4. cone \in SUBSET Nodes
      OBVIOUS
    <3> HIDE DEF cone
    <3> QED BY <3>1, <3>3, <3>4, ConeHolds
  <2> QED BY <2>1, <2>2, <2>3
<1>7. ColoursApart'
  <2>1. \A i \in Rows : colour'[i] = -1
    BY <1>1 DEF ColoursApart, IInv
  <2> QED BY <1>1, <1>2, <2>1 DEF ColoursApart
<1> QED BY <1>3, <1>4, <1>5, <1>6, <1>7 DEF IInv

LEMMA GateIInv ==
  ASSUME IInv, Gate
  PROVE  IInv'
<1>1. /\ UNCHANGED <<tape, unknowns, residuals, require, mark, k, bits, colour>>
      /\ pc = "gate" /\ pc' = IF require /\ Singular THEN "refused" ELSE "colour"
  BY DEF Gate
<1>2. Rows' = Rows /\ LastResidual' = LastResidual /\ Types /\ Singular' = Singular
  BY <1>1 DEF Rows, LastResidual, IInv, Singular, DeadUnknowns, DeadResiduals
<1>3. Types' /\ MarksDepend' /\ SweptPassOn'
  BY <1>1, <1>2 DEF Types, IInv, MarksDepend, DependsOn, SweptPassOn
<1>4. PatternIsDependence'
  BY <1>1, <1>2 DEF IInv, PatternIsDependence, DependsOn
<1>5. Decided'
  BY <1>1, <1>2 DEF Decided
<1>6. ColoursApart'
  BY <1>1, <1>2 DEF ColoursApart, IInv
<1> QED BY <1>3, <1>4, <1>5, <1>6 DEF IInv

(* A colour picked for a row is no conflicting row's.                      *)
LEMMA PickFree ==
  ASSUME Types, NEW i \in Rows
  PROVE  Pick(i) \in Nat /\ Pick(i) \notin Taken(i)
<1> DEFINE D == {j \in Coloured : Conflicts(i, j)}
           r == Cardinality(Rows)
           free == 0..r \ Taken(i)
<1>1. IsFiniteSet(Rows) /\ D \in SUBSET Rows
  BY DEF Types, Coloured
<1>2. r \in Nat /\ IsFiniteSet(D) /\ Cardinality(D) <= r
  BY <1>1, FS_CardinalityType, FS_Subset
<1>3. Taken(i) = {colour[j] : j \in D}
  BY DEF Taken
<1> HIDE DEF D, r
<1>4. \E c \in 0..r : \A j \in D : colour[j] # c
  BY <1>2, SomeColourFree
<1>5. free \in SUBSET Nat /\ free # {}
  BY <1>2, <1>3, <1>4
<1>6. Pick(i) = Min(free)
  BY DEF Pick, r
<1> QED BY <1>5, <1>6, MinIsLeast

LEMMA ColourRowIInv ==
  ASSUME IInv, ColourRow
  PROVE  IInv'
<1> DEFINE i == CHOOSE i \in Rows \ Coloured : \A j \in Rows \ Coloured : j = i \/ Before(i, j)
<1>1. /\ UNCHANGED <<tape, unknowns, residuals, require, pc, mark, k, bits>>
      /\ colour' = [colour EXCEPT ![i] = Pick(i)] /\ pc = "colour"
  BY DEF ColourRow
<1> HIDE DEF i
<1>2. Rows' = Rows /\ LastResidual' = LastResidual /\ Types /\ Singular' = Singular
  BY <1>1 DEF Rows, LastResidual, IInv, Singular, DeadUnknowns, DeadResiduals
<1>3. MarksDepend' /\ SweptPassOn' /\ PatternIsDependence' /\ Decided'
  BY <1>1, <1>2 DEF IInv, MarksDepend, SweptPassOn, PatternIsDependence, Decided, DependsOn
<1>4. ASSUME NEW j \in Rows PROVE colour'[j] = IF j = i THEN Pick(i) ELSE colour[j]
  BY <1>1, <1>2 DEF Types
<1>5. i \in Rows => Pick(i) \in Nat /\ Pick(i) \notin Taken(i)
  BY <1>2, PickFree
<1>6. Types'
  <2>1. colour' \in [Rows -> Int]
    <3>1. colour' \in [Rows -> {colour'[j] : j \in Rows}]
      BY <1>1, <1>2 DEF Types
    <3>2. \A j \in Rows : colour'[j] \in Int
      BY <1>2, <1>4, <1>5 DEF Types
    <3> QED BY <3>1, <3>2
  <2> QED BY <1>1, <1>2, <2>1 DEF Types
<1>7. ASSUME NEW j \in Rows, j # i, i \in Rows, colour[j] = Pick(i)
      PROVE  bits[i] \cap bits[j] = {}
  <2>1. j \in Coloured
    BY <1>2, <1>5, <1>7 DEF Coloured, Types
  <2>2. ~Conflicts(i, j)
    BY <1>5, <1>7, <2>1 DEF Taken
  <2> QED BY <2>2 DEF Conflicts
<1>8. ASSUME NEW a \in Rows, NEW b \in Rows, a # b, colour'[a] >= 0, colour'[a] = colour'[b]
      PROVE  bits[a] \cap bits[b] = {}
  <2>1. CASE a = i
    BY <1>4, <1>7, <1>8, <2>1
  <2>2. CASE b = i
    BY <1>4, <1>7, <1>8, <2>2
  <2>3. CASE a # i /\ b # i
    BY <1>4, <1>8, <2>3 DEF IInv, ColoursApart
  <2> QED BY <2>1, <2>2, <2>3
<1>9. ColoursApart'
  BY <1>1, <1>2, <1>8 DEF ColoursApart
<1> QED BY <1>3, <1>6, <1>9 DEF IInv

LEMMA ReturnIInv ==
  ASSUME IInv, Return
  PROVE  IInv'
<1>1. /\ UNCHANGED <<tape, unknowns, residuals, require, mark, k, bits, colour>>
      /\ pc = "colour" /\ pc' = "done" /\ Coloured = Rows
  BY DEF Return
<1>2. Rows' = Rows /\ LastResidual' = LastResidual /\ Types /\ Singular' = Singular
  BY <1>1 DEF Rows, LastResidual, IInv, Singular, DeadUnknowns, DeadResiduals
<1>3. Types' /\ MarksDepend' /\ SweptPassOn' /\ PatternIsDependence' /\ Decided'
  BY <1>1, <1>2
     DEF IInv, Types, MarksDepend, SweptPassOn, PatternIsDependence, Decided, DependsOn
<1>4. \A i \in Rows : colour[i] >= 0
  BY <1>1 DEF Coloured
<1>5. ColoursApart'
  BY <1>1, <1>2, <1>4 DEF ColoursApart, IInv
<1> QED BY <1>3, <1>5 DEF IInv

LEMMA NextIInv ==
  ASSUME IInv, [Next]_vars
  PROVE  IInv'
<1>1. CASE UNCHANGED vars
  BY <1>1
     DEF vars, IInv, Types, MarksDepend, SweptPassOn, PatternIsDependence, Decided,
         ColoursApart, DependsOn, Rows, LastResidual, Singular, DeadUnknowns, DeadResiduals
<1> QED
  BY <1>1, SeedIInv, SweepIInv, ReadRowsIInv, GateIInv, ColourRowIInv, ReturnIInv
     DEF Next, Stopped

(* On the pattern it ought to see the gate decides what it ought to.       *)
LEMMA IInvGate ==
  ASSUME IInv
  PROVE  GateIsExact
<1> DEFINE sound == /\ \A u \in unknowns : \E i \in Rows : DependsOn(i, u)
                    /\ \A i \in Rows : \E u \in unknowns : DependsOn(i, u)
<1>1. ASSUME pc \in {"refused", "done"} PROVE Singular <=> ~sound
  <2>1. \A i \in Rows, u \in unknowns : u \in bits[i] <=> DependsOn(i, u)
    BY <1>1 DEF IInv, PatternIsDependence
  <2>2. \A i \in Rows : bits[i] \subseteq unknowns
    BY DEF IInv, Types
  <2> QED BY <2>1, <2>2 DEF Singular, DeadUnknowns, DeadResiduals
<1> HIDE DEF sound
<1>2. pc = "refused" => require /\ ~sound
  BY <1>1 DEF IInv, Decided
<1>3. pc = "done" => ~require \/ sound
  BY <1>1 DEF IInv, Decided
<1> QED BY <1>2, <1>3 DEF IInv, GateIsExact, sound

LEMMA IInvColours ==
  ASSUME IInv
  PROVE  ColoursAreSeparate
BY DEF IInv, ColoursApart, ColoursAreSeparate

------------------------------------------------------------------------------
(* The pattern is which unknowns the recorded maths of each residual       *)
(* mentions, and the gate refuses exactly the blocks that leave one out.   *)
THEOREM GateCorrect ==
  ASSUME Size \in Nat, Residuals \in Nat
  PROVE  Spec => []GateIsExact
<1>1. Init => IInv
  BY InitIInv
<1>2. IInv /\ [Next]_vars => IInv'
  BY NextIInv
<1>3. IInv => GateIsExact
  BY IInvGate
<1> QED BY <1>1, <1>2, <1>3, PTL DEF Spec

(* Residuals of one colour share no unknown, however the rows are ordered. *)
THEOREM ColoursCorrect ==
  ASSUME Size \in Nat, Residuals \in Nat
  PROVE  Spec => []ColoursAreSeparate
<1>1. Init => IInv
  BY InitIInv
<1>2. IInv /\ [Next]_vars => IInv'
  BY NextIInv
<1>3. IInv => ColoursAreSeparate
  BY IInvColours
<1> QED BY <1>1, <1>2, <1>3, PTL DEF Spec
=============================================================================
