--------------------------- MODULE TapePassProofs ---------------------------
(***************************************************************************)
(* The tape passes over every tape, whatever is recorded on it and called. *)
(***************************************************************************)
EXTENDS TapePass, FiniteSetTheorems, SequenceTheorems, TLAPS

IsSequence(s) == s \in Seq({s[x] : x \in DOMAIN s})

Binary == {"Add", "Sub", "Mul", "Div", "CmpLt", "CmpLe", "CmpGt", "CmpGe", "CmpEq"}

(* A node has four fields, and a binary operation two operands.            *)
IsNode(n) ==
  /\ n = [op |-> n.op, args |-> n.args, konst |-> n.konst, coefs |-> n.coefs]
  /\ n.op \in Binary => n.args = <<n.args[1], n.args[2]>>

(* The nodes of a tape read nodes before them.                             *)
TableOk(s) ==
  /\ IsSequence(s)
  /\ \A j \in DOMAIN s : IsNode(s[j]) /\ \A p \in DOMAIN s[j].args : s[j].args[p] \in 1 .. (j - 1)

(* The nodes ns can be put at the end of table s.                          *)
Fits(s, ns) ==
  /\ IsSequence(ns) /\ Len(ns) <= 2
  /\ \A q \in DOMAIN ns :
       IsNode(ns[q]) /\ \A p \in DOMAIN ns[q].args : ns[q].args[p] \in 1 .. (Len(s) + q - 1)

------------------------------------------------------------------------------
(* The inductive invariant.                                                *)

Tables ==
  /\ TableOk(nodes) /\ IsSequence(val) /\ Len(val) = Len(nodes)
  /\ TableOk(onodes) /\ IsSequence(oval) /\ Len(oval) = Len(onodes)
  /\ IsSequence(outs) /\ \A p \in DOMAIN outs : outs[p] \in DOMAIN nodes

Control ==
  /\ pc \in {"idle", "rebuild", "failed"} /\ job \in work.jobs \cup {"none"} /\ calls \in Nat
  /\ calls = 0 => pc = "idle" /\ job = "none" /\ todo = <<>> /\ prev = "none"
  /\ i \in 1 .. (Len(nodes) + 1) /\ changed \in 0 .. (i - 1)
  /\ pc = "idle" => /\ plan = NoChange /\ onodes = <<>> /\ oval = <<>> /\ remap = <<>>
                    /\ seen = <<>> /\ i = 1

Maps ==
  /\ pc # "idle" => DOMAIN remap = DOMAIN nodes
  /\ \A o \in DOMAIN remap : remap[o] \in 0 .. Len(onodes)
  /\ \A key \in DOMAIN seen : seen[key] \in DOMAIN onodes
  /\ \A o \in DOMAIN total : total[o] \in 0 .. Len(nodes)

(* A plan emits variadic nodes alone, and cse has none.                    *)
Emits(p) ==
  \A x \in DOMAIN p.emit :
    LET n == p.emit[x]
    IN n.op \in Variadic /\ n = [op |-> n.op, args |-> n.args, konst |-> n.konst, coefs |-> n.coefs]

Planned == Emits(plan) /\ (pc = "rebuild" /\ Pass = "cse" => plan = NoChange)

(* Under cse every operation of the new table is found by its key.         *)
Found(s) ==
  \A j \in DOMAIN s : ~Leaf(s[j]) => Ordered(s[j]) \in DOMAIN seen /\ seen[Ordered(s[j])] = j
Hashed == pc = "rebuild" /\ Pass = "cse" => Found(onodes)

IInv == Tables /\ Control /\ Maps /\ Planned /\ Hashed /\ CseMergesAll

------------------------------------------------------------------------------
(* Sequences and nodes.                                                    *)

LEMMA SequenceShape ==
  ASSUME NEW s, IsSequence(s)
  PROVE  Len(s) \in Nat /\ DOMAIN s = 1 .. Len(s)
BY LenProperties DEF IsSequence

LEMMA Joined ==
  ASSUME NEW s, IsSequence(s), NEW t, IsSequence(t)
  PROVE  /\ IsSequence(s \o t) /\ Len(s) \in Nat /\ Len(t) \in Nat
         /\ Len(s \o t) = Len(s) + Len(t) /\ DOMAIN (s \o t) = 1 .. (Len(s) + Len(t))
         /\ \A x \in 1 .. Len(s) : (s \o t)[x] = s[x]
         /\ \A x \in 1 .. Len(t) : (s \o t)[Len(s) + x] = t[x]
<1> DEFINE S == {s[x] : x \in DOMAIN s} \cup {t[x] : x \in DOMAIN t}
           u == s \o t
<1>1. Len(s) \in Nat /\ DOMAIN s = 1 .. Len(s) /\ Len(t) \in Nat /\ DOMAIN t = 1 .. Len(t)
  BY SequenceShape
<1>2. s \in Seq(S) /\ t \in Seq(S)
  <2>1. s \in [1 .. Len(s) -> S] /\ t \in [1 .. Len(t) -> S]
    BY <1>1 DEF IsSequence
  <2> QED BY <1>1, <2>1
<1> HIDE DEF S
<1>3. /\ u \in Seq(S) /\ Len(u) = Len(s) + Len(t)
      /\ \A x \in 1 .. Len(u) : u[x] = IF x <= Len(s) THEN s[x] ELSE t[x - Len(s)]
  BY <1>2, ConcatProperties
<1> HIDE DEF u
<1>4. DOMAIN u = 1 .. Len(u) /\ u \in [1 .. Len(u) -> {u[x] : x \in DOMAIN u}] /\ Len(u) \in Nat
  BY <1>3, LenProperties
<1>5. IsSequence(u)
  BY <1>4 DEF IsSequence
<1>6. \A x \in 1 .. Len(s) : u[x] = s[x]
  BY <1>1, <1>3
<1>7. ASSUME NEW x \in 1 .. Len(t) PROVE u[Len(s) + x] = t[x]
  <2>1. Len(s) + x \in 1 .. Len(u) /\ ~(Len(s) + x <= Len(s)) /\ Len(s) + x - Len(s) = x
    BY <1>1, <1>3
  <2> QED BY <1>3, <2>1
<1> QED BY <1>1, <1>3, <1>4, <1>5, <1>6, <1>7 DEF u

LEMMA EmptySequence == IsSequence(<<>>) /\ Len(<<>>) = 0 /\ DOMAIN <<>> = {}
BY DEF IsSequence

LEMMA OneElement ==
  ASSUME NEW e PROVE IsSequence(<<e>>) /\ Len(<<e>>) = 1 /\ DOMAIN <<e>> = {1} /\ <<e>>[1] = e
BY DEF IsSequence

LEMMA Appended ==
  ASSUME NEW s, IsSequence(s), NEW e
  PROVE  /\ IsSequence(Append(s, e)) /\ Len(s) \in Nat /\ Len(Append(s, e)) = Len(s) + 1
         /\ DOMAIN Append(s, e) = 1 .. (Len(s) + 1)
         /\ \A x \in 1 .. Len(s) : Append(s, e)[x] = s[x]
         /\ Append(s, e)[Len(s) + 1] = e
<1>1. Append(s, e) = s \o <<e>>
  BY SequenceShape, AppendIsConcat DEF IsSequence
<1> QED BY <1>1, Joined, OneElement

LEMMA BinaryArgs ==
  ASSUME NEW n, IsNode(n), n.op \in Binary
  PROVE  DOMAIN n.args = {1, 2} /\ Len(n.args) = 2
<1>1. n.args = <<n.args[1], n.args[2]>>
  BY DEF IsNode
<1>2. \A a, b : DOMAIN <<a, b>> = {1, 2} /\ Len(<<a, b>>) = 2
  OBVIOUS
<1> QED BY <1>1, <1>2

LEMMA OperationIsNode ==
  ASSUME NEW op, NEW a, NEW b
  PROVE  LET n == Operation(op, <<a, b>>)
         IN /\ IsNode(n) /\ n.op = op /\ n.args = <<a, b>> /\ DOMAIN n.args = {1, 2}
            /\ n.args[1] = a /\ n.args[2] = b
BY DEF Operation, IsNode

LEMMA NumberIsNode ==
  ASSUME NEW c
  PROVE  IsNode(Number(c)) /\ DOMAIN Number(c).args = {} /\ Number(c).op = "Const" /\ Number(c).konst = c
<1>1. DOMAIN <<>> = {}
  OBVIOUS
<1> QED BY <1>1 DEF Number, IsNode, Binary

LEMMA InputIsNode ==
  ASSUME NEW k
  PROVE  IsNode(InputNode(k)) /\ DOMAIN InputNode(k).args = {} /\ InputNode(k).op = "Input"
<1>1. DOMAIN <<>> = {}
  OBVIOUS
<1> QED BY <1>1 DEF InputNode, IsNode, Binary

(* A copy of a node reads the new ids of its operands.                     *)
LEMMA MappedNode ==
  ASSUME NEW n, n = [op |-> n.op, args |-> n.args, konst |-> n.konst, coefs |-> n.coefs]
  PROVE  /\ Mapped(n) = [op |-> n.op, args |-> [p \in DOMAIN n.args |-> remap[n.args[p]]],
                         konst |-> n.konst, coefs |-> n.coefs]
         /\ IsNode(n) => IsNode(Mapped(n))
         /\ n.op \notin Binary => IsNode(Mapped(n))
<1> DEFINE as == [p \in DOMAIN n.args |-> remap[n.args[p]]]
<1>1. Mapped(n) = [op |-> n.op, args |-> as, konst |-> n.konst, coefs |-> n.coefs]
  BY DEF Mapped
<1>2. ASSUME IsNode(n), n.op \in Binary PROVE as = <<as[1], as[2]>>
  <2>1. n.args = <<n.args[1], n.args[2]>> /\ DOMAIN n.args = {1, 2}
    BY <1>2, BinaryArgs DEF IsNode
  <2>2. as = [p \in {1, 2} |-> as[p]]
    BY <2>1
  <2>3. \A a, b, f : f = [p \in {1, 2} |-> f[p]] /\ f[1] = a /\ f[2] = b => f = <<a, b>>
    OBVIOUS
  <2> QED BY <2>2, <2>3
<1> QED BY <1>1, <1>2 DEF IsNode

LEMMA TableGrows ==
  ASSUME NEW s, TableOk(s), NEW ns, Fits(s, ns)
  PROVE  /\ TableOk(s \o ns) /\ Len(s \o ns) = Len(s) + Len(ns)
         /\ Len(s) \in Nat /\ Len(ns) \in 0 .. 2 /\ DOMAIN s = 1 .. Len(s)
         /\ \A j \in DOMAIN s : (s \o ns)[j] = s[j]
         /\ \A q \in 1 .. Len(ns) : (s \o ns)[Len(s) + q] = ns[q]
<1> DEFINE t == s \o ns
<1>1. /\ IsSequence(t) /\ Len(s) \in Nat /\ Len(ns) \in Nat /\ Len(ns) <= 2
      /\ Len(t) = Len(s) + Len(ns) /\ DOMAIN t = 1 .. (Len(s) + Len(ns))
      /\ \A x \in 1 .. Len(s) : t[x] = s[x]
      /\ \A x \in 1 .. Len(ns) : t[Len(s) + x] = ns[x]
  BY Joined DEF TableOk, Fits
<1>2. DOMAIN s = 1 .. Len(s) /\ DOMAIN ns = 1 .. Len(ns)
  BY SequenceShape DEF TableOk, Fits
<1> HIDE DEF t
<1>3. ASSUME NEW j \in DOMAIN t
      PROVE  IsNode(t[j]) /\ \A p \in DOMAIN t[j].args : t[j].args[p] \in 1 .. (j - 1)
  <2>1. CASE j <= Len(s)
    BY <1>1, <1>2, <2>1 DEF TableOk
  <2>2. CASE ~(j <= Len(s))
    <3>1. PICK q \in DOMAIN ns : j = Len(s) + q
      <4>1. j - Len(s) \in 1 .. Len(ns) /\ j = Len(s) + (j - Len(s))
        BY <1>1, <2>2
      <4> QED BY <4>1, <1>2
    <3>2. t[j] = ns[q]
      BY <3>1, <1>1, <1>2
    <3> QED BY <3>1, <3>2, <1>1, <1>2 DEF Fits
  <2> QED BY <2>1, <2>2
<1> QED BY <1>1, <1>2, <1>3 DEF TableOk, t

LEMMA FitsNone == ASSUME NEW s PROVE Fits(s, <<>>)
BY EmptySequence DEF Fits

LEMMA FitsOne ==
  ASSUME NEW s, TableOk(s), NEW n, IsNode(n), \A p \in DOMAIN n.args : n.args[p] \in 1 .. Len(s)
  PROVE  Fits(s, <<n>>)
<1>1. IsSequence(<<n>>) /\ Len(<<n>>) = 1 /\ DOMAIN <<n>> = {1} /\ <<n>>[1] = n
  BY OneElement
<1>2. Len(s) + 1 - 1 = Len(s)
  BY SequenceShape DEF TableOk
<1> QED BY <1>1, <1>2 DEF Fits

------------------------------------------------------------------------------
(* What simplify puts in the place of a node.                              *)

Fitting(s, r) == Fits(s, r.add) /\ r.at \in 1 .. (Len(s) + Len(r.add))

LEMMA AlreadyFits ==
  ASSUME NEW s, TableOk(s), NEW x \in DOMAIN s, NEW r \in Already(x)
  PROVE  Fitting(s, r)
<1>1. DOMAIN s = 1 .. Len(s) /\ Len(s) \in Nat /\ Len(<<>>) = 0
  BY SequenceShape DEF TableOk
<1> QED BY <1>1, FitsNone DEF Already, Fitting

LEMMA ConstantFits ==
  ASSUME NEW s, TableOk(s), NEW c, NEW r \in Constant(s, c)
  PROVE  /\ Fitting(s, r) /\ Len(r.add) <= 1
         /\ \/ r.add = <<Number(c)>> /\ r.at = Len(s) + 1
            \/ r.add = <<>> /\ r.at \in DOMAIN s /\ Is(s, r.at, c)
<1>1. DOMAIN s = 1 .. Len(s) /\ Len(s) \in Nat /\ Len(<<>>) = 0 /\ Len(<<Number(c)>>) = 1
  BY SequenceShape DEF TableOk
<1>2. CASE \E x \in DOMAIN s : Is(s, x, c)
  <2>1. r.add = <<>> /\ r.at = CHOOSE x \in DOMAIN s : Is(s, x, c)
    BY <1>2 DEF Constant
  <2>2. r.at \in DOMAIN s /\ Is(s, r.at, c)
    BY <1>2, <2>1
  <2> QED BY <1>1, <2>1, <2>2, FitsNone DEF Fitting
<1>3. CASE ~(\E x \in DOMAIN s : Is(s, x, c))
  <2>1. r.add = <<Number(c)>> /\ r.at = Len(s) + 1
    BY <1>3 DEF Constant
  <2>2. Fits(s, <<Number(c)>>)
    BY FitsOne, NumberIsNode
  <2> QED BY <1>1, <2>1, <2>2 DEF Fitting
<1> QED BY <1>2, <1>3

LEMMA QuotientFits ==
  ASSUME NEW s, TableOk(s), NEW p \in DOMAIN s, NEW q \in DOMAIN s, NEW r \in Quotient(s, p, q)
  PROVE  Fitting(s, r)
<1> DEFINE n == Operation("Div", <<p, q>>)
<1>1. DOMAIN s = 1 .. Len(s) /\ Len(s) \in Nat /\ Len(<<n>>) = 1
  BY SequenceShape DEF TableOk
<1>2. r.add = <<n>> /\ r.at = Len(s) + 1
  BY DEF Quotient
<1>3. IsNode(n) /\ DOMAIN n.args = {1, 2} /\ n.args[1] = p /\ n.args[2] = q
  BY OperationIsNode
<1> HIDE DEF n
<1>4. Fits(s, <<n>>)
  <2>1. \A x \in DOMAIN n.args : n.args[x] \in 1 .. Len(s)
    BY <1>1, <1>3
  <2> QED BY <1>3, <2>1, FitsOne
<1> QED BY <1>1, <1>2, <1>4 DEF Fitting

LEMMA ScaledQuotientFits ==
  ASSUME NEW s, TableOk(s), NEW x \in DOMAIN s, NEW p \in DOMAIN s, NEW q \in DOMAIN s,
         NEW r \in ScaledQuotient(s, x, p, q)
  PROVE  Fitting(s, r)
<1> DEFINE n == Operation("Div", <<p, q>>)
           m == Operation("Mul", <<x, Len(s) + 1>>)
<1>1. DOMAIN s = 1 .. Len(s) /\ Len(s) \in Nat
  BY SequenceShape DEF TableOk
<1>2. r.add = <<n, m>> /\ r.at = Len(s) + 2
  BY DEF ScaledQuotient
<1>3. /\ IsNode(n) /\ DOMAIN n.args = {1, 2} /\ n.args[1] = p /\ n.args[2] = q
      /\ IsNode(m) /\ DOMAIN m.args = {1, 2} /\ m.args[1] = x /\ m.args[2] = Len(s) + 1
  BY OperationIsNode
<1> HIDE DEF n, m
<1>4. IsSequence(<<n, m>>) /\ Len(<<n, m>>) = 2 /\ DOMAIN <<n, m>> = {1, 2} /\ <<n, m>>[1] = n /\ <<n, m>>[2] = m
  BY DEF IsSequence
<1>5. Fits(s, <<n, m>>)
  <2>1. \A z \in DOMAIN n.args : n.args[z] \in 1 .. (Len(s) + 1 - 1)
    BY <1>1, <1>3
  <2>2. \A z \in DOMAIN m.args : m.args[z] \in 1 .. (Len(s) + 2 - 1)
    BY <1>1, <1>3
  <2> QED BY <1>3, <1>4, <2>1, <2>2 DEF Fits
<1> QED BY <1>1, <1>2, <1>4, <1>5 DEF Fitting

(* The operands of a binary node of a table are nodes of it.               *)
LEMMA OperandsOf ==
  ASSUME NEW s, TableOk(s), NEW x \in DOMAIN s, s[x].op \in Binary
  PROVE  s[x].args[1] \in DOMAIN s /\ s[x].args[2] \in DOMAIN s
<1>1. DOMAIN s = 1 .. Len(s) /\ Len(s) \in Nat
  BY SequenceShape DEF TableOk
<1>2. DOMAIN s[x].args = {1, 2}
  BY BinaryArgs DEF TableOk
<1> QED BY <1>1, <1>2 DEF TableOk

LEMMA MulFits ==
  ASSUME NEW s, TableOk(s), NEW a \in DOMAIN s, NEW b \in DOMAIN s, NEW r \in MulRule(s, a, b)
  PROVE  Fitting(s, r)
<1> DEFINE arg(x, p) == s[x].args[p]
<1>1. \A x \in DOMAIN s : s[x].op \in {"Mul", "Div"} => arg(x, 1) \in DOMAIN s /\ arg(x, 2) \in DOMAIN s
  BY OperandsOf DEF Binary
<1>2. CASE Is(s, a, 1) \/ Is(s, b, 1) \/ Cancels(s, a, "Div", 2, b) \/ Cancels(s, b, "Div", 2, a)
  <2>1. \E x \in DOMAIN s : r \in Already(x)
    BY <1>1, <1>2 DEF MulRule, Cancels
  <2> QED BY <2>1, AlreadyFits
<1>3. CASE ~(Is(s, a, 1) \/ Is(s, b, 1) \/ Cancels(s, a, "Div", 2, b) \/ Cancels(s, b, "Div", 2, a))
  <2>1. CASE Telescopes(s, a, b) \/ Telescopes(s, b, a)
    <3>1. \E p, q \in DOMAIN s : r \in Quotient(s, p, q)
      BY <1>1, <1>3, <2>1 DEF MulRule, Telescopes
    <3> QED BY <3>1, QuotientFits
  <2>2. CASE ~(Telescopes(s, a, b) \/ Telescopes(s, b, a))
    <3>1. PICK p \in {1, 2} : /\ s[a].op = "Mul" /\ Telescopes(s, arg(a, p), b)
                              /\ r \in ScaledQuotient(s, arg(a, 3 - p), arg(arg(a, p), 1), arg(b, 2))
      BY <1>3, <2>2 DEF MulRule
    <3>2. arg(a, p) \in DOMAIN s /\ arg(a, 3 - p) \in DOMAIN s
      BY <1>1, <3>1
    <3>3. s[b].op = "Div" /\ s[arg(a, p)].op = "Div"
      BY <3>1 DEF Telescopes
    <3>4. arg(arg(a, p), 1) \in DOMAIN s /\ arg(b, 2) \in DOMAIN s
      BY <1>1, <3>2, <3>3
    <3> QED BY <3>1, <3>2, <3>4, ScaledQuotientFits
  <2> QED BY <2>1, <2>2
<1> QED BY <1>2, <1>3

LEMMA DivFits ==
  ASSUME NEW s, TableOk(s), NEW a \in DOMAIN s, NEW b \in DOMAIN s, NEW r \in DivRule(s, a, b)
  PROVE  Fitting(s, r)
<1>1. s[a].op = "Mul" => s[a].args[1] \in DOMAIN s /\ s[a].args[2] \in DOMAIN s
  BY OperandsOf DEF Binary
<1>2. (\E x \in DOMAIN s : r \in Already(x)) \/ r \in Constant(s, 1)
  BY <1>1 DEF DivRule, Cancels
<1> QED BY <1>2, AlreadyFits, ConstantFits

LEMMA AddFits ==
  ASSUME NEW s, TableOk(s), NEW a \in DOMAIN s, NEW b \in DOMAIN s, NEW r \in AddRule(s, a, b)
  PROVE  Fitting(s, r)
<1>1. \A x \in DOMAIN s : s[x].op = "Sub" => s[x].args[1] \in DOMAIN s
  BY OperandsOf DEF Binary
<1>2. \E x \in DOMAIN s : r \in Already(x)
  BY <1>1 DEF AddRule, Cancels
<1> QED BY <1>2, AlreadyFits

LEMMA SubFits ==
  ASSUME NEW s, TableOk(s), NEW a \in DOMAIN s, NEW b \in DOMAIN s, NEW r \in SubRule(s, a, b)
  PROVE  Fitting(s, r)
<1>1. s[a].op = "Add" => s[a].args[1] \in DOMAIN s /\ s[a].args[2] \in DOMAIN s
  BY OperandsOf DEF Binary
<1>2. (\E x \in DOMAIN s : r \in Already(x)) \/ r \in Constant(s, 0)
  BY <1>1 DEF SubRule, Cancels
<1> QED BY <1>2, AlreadyFits, ConstantFits

LEMMA SimplifyFits ==
  ASSUME NEW s, TableOk(s), NEW op, NEW a \in DOMAIN s, NEW b \in DOMAIN s,
         NEW r \in SimplifyBinary(s, op, a, b)
  PROVE  Fitting(s, r)
<1>1. \/ r \in MulRule(s, a, b) \/ r \in DivRule(s, a, b) \/ r \in AddRule(s, a, b)
      \/ r \in SubRule(s, a, b)
  BY DEF SimplifyBinary
<1> QED BY <1>1, MulFits, DivFits, AddFits, SubFits

LEMMA SimplifyIsBinary ==
  ASSUME NEW s, NEW op, NEW a, NEW b, SimplifyBinary(s, op, a, b) # {}
  PROVE  op \in Binary
BY DEF SimplifyBinary, Binary

------------------------------------------------------------------------------
(* The plans of the passes.                                                *)

IsPlan(p) == p = [drop |-> p.drop, emit |-> p.emit] /\ Emits(p)

LEMMA NoChangeIsPlan == IsPlan(NoChange)
<1>1. DOMAIN <<>> = {}
  OBVIOUS
<1> QED BY <1>1 DEF IsPlan, NoChange, Emits

LEMMA DceIsPlan == ASSUME NEW s, NEW os PROVE IsPlan(DcePlan(s, os))
<1>1. DOMAIN <<>> = {}
  OBVIOUS
<1> DEFINE gone == DOMAIN s \ LiveNodes(s, os, TRUE)
<1>2. DcePlan(s, os) = [drop |-> gone, emit |-> <<>>]
  BY DEF DcePlan
<1> HIDE DEF gone
<1> QED BY <1>1, <1>2 DEF IsPlan, Emits

LEMMA FoldIsPlan == ASSUME NEW s, NEW os, NEW least PROVE IsPlan(FoldPlan(s, os, least))
<1>1. PICK drop, heads, terms :
        FoldPlan(s, os, least) = [drop |-> drop, emit |-> [o \in heads |-> Operation("Sum", terms[o])]]
  BY DEF FoldPlan
<1>2. \A as : LET n == Operation("Sum", as)
              IN n.op \in Variadic /\ n = [op |-> n.op, args |-> n.args, konst |-> n.konst, coefs |-> n.coefs]
  BY DEF Operation, Variadic
<1> QED BY <1>1, <1>2 DEF IsPlan, Emits

(* An Affine added to a plan.                                              *)
LEMMA WithAffineIsPlan ==
  ASSUME NEW p, IsPlan(p), NEW gone, NEW x, NEW as, NEW c, NEW cs
  PROVE  IsPlan(WithAffine(p, gone, x, [op |-> "Affine", args |-> as, konst |-> c, coefs |-> cs]))
<1> DEFINE n == [op |-> "Affine", args |-> as, konst |-> c, coefs |-> cs]
           q == WithAffine(p, gone, x, n)
<1>1. n.op \in Variadic /\ n = [op |-> n.op, args |-> n.args, konst |-> n.konst, coefs |-> n.coefs]
  BY DEF Variadic
<1> HIDE DEF n
<1>2. /\ q.emit = [y \in DOMAIN p.emit \cup {x} |-> IF y = x THEN n ELSE p.emit[y]]
      /\ q = [drop |-> q.drop, emit |-> q.emit]
  BY DEF WithAffine
<1> HIDE DEF q
<1>3. IsPlan(q)
  BY <1>1, <1>2 DEF IsPlan, Emits
<1> QED BY <1>3 DEF q, n

LEMMA ScannedIsPlan ==
  ASSUME NEW s, NEW os, NEW taint, NEW p, IsPlan(p), NEW k
  PROVE  IsPlan(Scanned(s, os, taint, p, k))
<1>1. IsPlan(CollapseProduct(s, taint, p, k))
  BY WithAffineIsPlan DEF CollapseProduct, Rescaled, ScaledOnly
<1>2. IsPlan(CollapseChain(s, os, taint, p, k))
  BY WithAffineIsPlan DEF CollapseChain
<1> QED BY <1>1, <1>2 DEF Scanned

(* The least of a set of numbers.                                          *)
LEMMA LeastOf ==
  ASSUME NEW S \in SUBSET Nat, S # {}
  PROVE  \E x \in S : \A y \in S : x <= y
<1> DEFINE less == {ss \in Nat \X Nat : ss[1] < ss[2]}
<1>1. IsWellFoundedOn(less, Nat)
  BY NatLessThanWellFounded DEF OpToRel
<1>2. \A x, y \in Nat : y < x => <<y, x>> \in less
  OBVIOUS
<1> HIDE DEF less
<1>3. PICK x \in S : \A y \in S : ~ (<<y, x>> \in less)
  BY <1>1, WFMin
<1>4. ASSUME NEW y \in S PROVE x <= y
  <2>1. x \in Nat /\ y \in Nat /\ ~(y < x)
    BY <1>2, <1>3
  <2> QED BY <2>1
<1> QED BY <1>4

(* The scan of affine_collapse is a plan at every node, so at the last.    *)
LEMMA AffineIsPlan == ASSUME NEW s, Len(s) \in Nat, NEW os PROVE IsPlan(AffinePlan(s, os))
<1> DEFINE taint == Taints(s)
           scan == CHOOSE f : f = [k \in 0 .. Len(s) |->
                     IF k = 0 THEN NoChange ELSE Scanned(s, os, taint, f[k - 1], k)]
<1>1. AffinePlan(s, os) = scan[Len(s)]
  BY DEF AffinePlan
<1> HIDE DEF taint
<1>2. scan = CHOOSE f : f = [k \in 0 .. Len(s) |->
               IF k = 0 THEN NoChange ELSE Scanned(s, os, taint, f[k - 1], k)]
  OBVIOUS
<1> HIDE DEF scan
<1> DEFINE Runs(n, f) == f = [k \in 0 .. n |-> IF k = 0 THEN NoChange
                                               ELSE Scanned(s, os, taint, f[k - 1], k)]
           Never == {n \in 0 .. Len(s) : ~(\E f : Runs(n, f))}
           Wrong == {k \in 0 .. Len(s) : ~IsPlan(scan[k])}
<1>3. Never = {}
  <2> SUFFICES ASSUME Never # {} PROVE FALSE
    OBVIOUS
  <2>1. Never \in SUBSET Nat
    OBVIOUS
  <2> HIDE DEF Never
  <2>4. PICK n \in Never : \A m \in Never : n <= m
    BY <2>1, LeastOf
  <2> USE DEF Never
  <2>2. CASE n = 0
    <3>1. Runs(0, [k \in 0 .. 0 |-> NoChange])
      OBVIOUS
    <3> QED BY <2>2, <3>1
  <2>3. CASE n # 0
    <3>1. n - 1 \in 0 .. Len(s) /\ n \in 0 .. Len(s)
      BY <2>3
    <3>2. n - 1 \notin Never
      <4> HIDE DEF Never
      <4>1. n \in Nat /\ ~(n <= n - 1)
        BY <2>1
      <4> QED BY <2>4, <4>1
    <3>3. PICK f : Runs(n - 1, f)
      BY <3>1, <3>2
    <3> DEFINE g == [k \in 0 .. n |-> IF k = n THEN Scanned(s, os, taint, f[n - 1], n) ELSE f[k]]
    <3>4. ASSUME NEW k \in 0 .. n
          PROVE  g[k] = IF k = 0 THEN NoChange ELSE Scanned(s, os, taint, g[k - 1], k)
      <4>1. CASE k = n
        BY <4>1, <3>1, <2>3
      <4>2. CASE k # n
        <5>1. k \in 0 .. (n - 1) /\ g[k] = f[k] /\ (k # 0 => g[k - 1] = f[k - 1])
          BY <4>2, <3>1
        <5> QED BY <5>1, <3>3
      <4> QED BY <4>1, <4>2
    <3>5. Runs(n, g)
      BY <3>4
    <3> QED BY <3>5
  <2> QED BY <2>2, <2>3
<1>4. Runs(Len(s), scan)
  <2>1. \E f : Runs(Len(s), f)
    BY <1>3
  <2> QED BY <1>2, <2>1
<1>5. Wrong = {}
  <2> SUFFICES ASSUME Wrong # {} PROVE FALSE
    OBVIOUS
  <2>1. Wrong \in SUBSET Nat
    OBVIOUS
  <2> HIDE DEF Wrong
  <2>4. PICK k \in Wrong : \A m \in Wrong : k <= m
    BY <2>1, LeastOf
  <2> USE DEF Wrong
  <2>2. CASE k = 0
    BY <2>2, <1>4, NoChangeIsPlan
  <2>3. CASE k # 0
    <3>1. k - 1 \in 0 .. Len(s) /\ k - 1 \notin Wrong
      BY <2>4, <2>3
    <3>2. IsPlan(scan[k - 1])
      BY <3>1
    <3>3. scan[k] = Scanned(s, os, taint, scan[k - 1], k)
      BY <1>4, <2>3
    <3> QED BY <3>2, <3>3, ScannedIsPlan
  <2> QED BY <2>2, <2>3
<1> QED BY <1>1, <1>5

LEMMA PlanIsPlan ==
  ASSUME Len(nodes) \in Nat, NEW pass
  PROVE  IsPlan(PlanOf(pass)) /\ (pass = "cse" => PlanOf(pass) = NoChange)
BY NoChangeIsPlan, DceIsPlan, FoldIsPlan, AffineIsPlan DEF PlanOf

------------------------------------------------------------------------------
(* Recording and calling.                                                  *)

LEMMA TableAppend ==
  ASSUME NEW s, TableOk(s), NEW n, IsNode(n), \A p \in DOMAIN n.args : n.args[p] \in DOMAIN s
  PROVE  TableOk(Append(s, n)) /\ Len(Append(s, n)) = Len(s) + 1 /\ Len(s) \in Nat
<1>1. DOMAIN s = 1 .. Len(s)
  BY SequenceShape DEF TableOk
<1>2. Append(s, n) = s \o <<n>>
  BY AppendIsConcat DEF TableOk, IsSequence
<1>3. Fits(s, <<n>>) /\ Len(<<n>>) = 1
  BY <1>1, FitsOne
<1> QED BY <1>2, <1>3, TableGrows

LEMMA AdmittedIsNode ==
  ASSUME NEW n, Admitted(n)
  PROVE  IsNode(n) /\ \A p \in DOMAIN n.args : n.args[p] \in DOMAIN nodes
<1>1. /\ n = [op |-> n.op, args |-> n.args, konst |-> n.konst, coefs |-> n.coefs]
      /\ n.args \in Seq(DOMAIN nodes)
      /\ n.op \in DOMAIN Arity => Len(n.args) = Arity[n.op]
  BY DEF Admitted
<1>2. n.op \in Binary => n.op \in DOMAIN Arity /\ Arity[n.op] = 2
  BY DEF Binary, Arity
<1>3. \A T, t : t \in Seq(T) /\ Len(t) = 2 => t = <<t[1], t[2]>>
  OBVIOUS
<1> QED BY <1>1, <1>2, <1>3 DEF IsNode

LEMMA EmptyTable == TableOk(<<>>) /\ IsSequence(<<>>) /\ Len(<<>>) = 0 /\ DOMAIN <<>> = {}
BY EmptySequence DEF TableOk

LEMMA InitOk == Init => IInv
<1> SUFFICES ASSUME Init PROVE IInv
  OBVIOUS
<1> QED
  BY EmptyTable, NoChangeIsPlan
  DEF Init, IInv, Tables, Control, Maps, Planned, Hashed, CseMergesAll, IsPlan

LEMMA RecordKeeps ==
  ASSUME IInv, work' = work, NEW n, IsNode(n),
         \A p \in DOMAIN n.args : n.args[p] \in DOMAIN nodes, Record(n)
  PROVE  IInv'
<1>1. /\ calls = 0 /\ nodes' = Append(nodes, n) /\ val' = Append(val, Denote(n, val)) /\ outs = <<>>
      /\ UNCHANGED <<outs, callVars, passVars, pc, todo, prev, total>>
  BY DEF Record, Extended
<1>2. /\ TableOk(nodes') /\ Len(nodes') = Len(nodes) + 1 /\ Len(nodes) \in Nat
      /\ IsSequence(val') /\ Len(val') = Len(nodes')
  BY <1>1, TableAppend, Appended DEF IInv, Tables
<1>3. Tables'
  BY <1>1, <1>2, EmptyTable DEF IInv, Tables, passVars
<1>4. pc = "idle" /\ prev = "none" /\ remap = <<>> /\ i = 1 /\ changed \in 0 .. (i - 1)
  BY <1>1 DEF IInv, Control
<1>5. Control'
  BY <1>1, <1>2, <1>4 DEF IInv, Control, passVars, callVars
<1>6. Maps'
  BY <1>1, <1>2, <1>4, EmptyTable DEF IInv, Maps, passVars
<1>7. Planned' /\ Hashed' /\ CseMergesAll'
  BY <1>1, <1>4 DEF IInv, Planned, Hashed, CseMergesAll, passVars, Emits
<1> QED BY <1>3, <1>5, <1>6, <1>7 DEF IInv

LEMMA RegisterKeeps == ASSUME IInv, work' = work, NEW o, RegisterOutput(o) PROVE IInv'
<1>1. /\ o \in DOMAIN nodes /\ calls = 0 /\ outs' = Append(outs, o)
      /\ UNCHANGED <<nodes, val, callVars, passVars, pc, todo, prev, total>>
  BY DEF RegisterOutput
<1>2. Tables'
  <2>1. /\ IsSequence(outs') /\ DOMAIN outs' = 1 .. (Len(outs) + 1) /\ Len(outs) \in Nat
        /\ \A x \in 1 .. Len(outs) : outs'[x] = outs[x]
        /\ outs'[Len(outs) + 1] = o
    BY <1>1, Appended DEF IInv, Tables
  <2>2. DOMAIN outs = 1 .. Len(outs)
    BY SequenceShape DEF IInv, Tables
  <2>3. \A p \in DOMAIN outs' : outs'[p] \in DOMAIN nodes
    BY <1>1, <2>1, <2>2 DEF IInv, Tables
  <2> QED BY <1>1, <2>1, <2>3 DEF IInv, Tables, passVars
<1>3. pc = "idle" /\ prev = "none"
  BY <1>1 DEF IInv, Control
<1>4. Control' /\ Maps' /\ Planned' /\ Hashed' /\ CseMergesAll'
  BY <1>1, <1>3 DEF IInv, Control, Maps, Planned, Hashed, CseMergesAll, passVars, callVars, Emits
<1> QED BY <1>2, <1>4 DEF IInv

LEMMA RecordStepKeeps == ASSUME IInv, work' = work, RecordStep PROVE IInv'
<1>1. CASE RecordInput
  BY <1>1, RecordKeeps, InputIsNode DEF RecordInput
<1>2. ASSUME NEW c, RecordConst(c) PROVE IInv'
  BY <1>2, RecordKeeps, NumberIsNode DEF RecordConst
<1>3. ASSUME NEW n, RecordOp(n) PROVE IInv'
  BY <1>3, RecordKeeps, AdmittedIsNode DEF RecordOp
<1>4. ASSUME NEW o, RegisterOutput(o) PROVE IInv'
  BY <1>4, RegisterKeeps
<1> QED BY <1>1, <1>2, <1>3, <1>4 DEF RecordStep

LEMMA CallStepKeeps == ASSUME IInv, work' = work, CallStep PROVE IInv'
<1>1. ASSUME NEW j \in work.jobs, Call(j) PROVE IInv'
  <2>1. /\ pc = "idle" /\ job' = j /\ calls' = calls + 1 /\ total' = [o \in DOMAIN nodes |-> o]
        /\ UNCHANGED <<tapeVars, passVars, pc, prev>>
    BY <1>1 DEF Call
  <2>2. Tables' /\ Planned' /\ Hashed'
    BY <2>1 DEF IInv, Tables, Planned, Hashed, tapeVars, passVars, Emits
  <2>3. Control'
    BY <2>1 DEF IInv, Control, tapeVars, passVars
  <2>4. DOMAIN nodes = 1 .. Len(nodes) /\ Len(nodes) \in Nat
    BY SequenceShape DEF IInv, Tables, TableOk
  <2>5. Maps' /\ CseMergesAll'
    BY <2>1, <2>4 DEF IInv, Maps, CseMergesAll, tapeVars, passVars
  <2> QED BY <2>2, <2>3, <2>5 DEF IInv
<1>2. CASE NextRound
  BY <1>2 DEF NextRound, IInv, Tables, Control, Maps, Planned, Hashed, CseMergesAll, Emits, tapeVars, passVars
<1>3. CASE Return
  BY <1>3 DEF Return, IInv, Tables, Control, Maps, Planned, Hashed, CseMergesAll, Emits, tapeVars, passVars
<1> QED BY <1>1, <1>2, <1>3 DEF CallStep

------------------------------------------------------------------------------
(* The rebuild.                                                            *)

LEMMA StartKeeps == ASSUME IInv, work' = work, StartPass PROVE IInv'
<1>1. /\ pc = "idle" /\ todo # <<>> /\ pc' = "rebuild" /\ plan' = PlanOf(Head(todo))
      /\ i' = 1 /\ onodes' = <<>> /\ oval' = <<>> /\ seen' = <<>> /\ changed' = 0
      /\ remap' = [o \in DOMAIN nodes |-> NoNode]
      /\ UNCHANGED <<tapeVars, callVars, todo, prev, total>>
  BY DEF StartPass
<1>2. Len(nodes) \in Nat
  BY SequenceShape DEF IInv, Tables, TableOk
<1>3. Tables'
  BY <1>1, EmptyTable DEF IInv, Tables, tapeVars
<1>4. Control'
  BY <1>1, <1>2 DEF IInv, Control, tapeVars, callVars
<1>5. Maps'
  BY <1>1, EmptyTable DEF IInv, Maps, tapeVars, NoNode
<1>6. IsPlan(plan') /\ (Head(todo) = "cse" => plan' = NoChange)
  BY <1>1, <1>2, PlanIsPlan
<1>7. Planned' /\ Hashed' /\ CseMergesAll'
  BY <1>1, <1>6, EmptyTable DEF Planned, Hashed, CseMergesAll, Found, IsPlan, Emits, Pass
<1> QED BY <1>3, <1>4, <1>5, <1>7 DEF IInv

(* At a node, once the new table is known to be one.                       *)
LEMMA AdvanceKeeps ==
  ASSUME IInv, work' = work, AtNode, NEW id, NEW more \in {0, 1}, Advance(i, id, more),
         TableOk(onodes'), IsSequence(oval'), Len(oval') = Len(onodes'),
         Len(onodes') >= Len(onodes), id \in 0 .. Len(onodes'),
         \A key \in DOMAIN seen' : seen'[key] \in DOMAIN onodes',
         Pass = "cse" => Found(onodes)'
  PROVE  IInv'
<1>1. /\ remap' = [remap EXCEPT ![i] = id] /\ changed' = changed + more /\ i' = i + 1
      /\ UNCHANGED <<tapeVars, callVars, plan, pc, todo, prev, total>>
      /\ pc = "rebuild" /\ i <= Len(nodes)
  BY DEF Advance, AtNode
<1>2. /\ Len(nodes) \in Nat /\ DOMAIN nodes = 1 .. Len(nodes)
      /\ Len(onodes) \in Nat /\ Len(onodes') \in Nat
  BY SequenceShape DEF IInv, Tables, TableOk
<1>3. Tables'
  BY <1>1 DEF IInv, Tables, tapeVars
<1>4. Control'
  <2>1. i \in 1 .. Len(nodes) /\ changed \in 0 .. (i - 1) /\ calls # 0
    BY <1>1, <1>2 DEF IInv, Control
  <2>2. i' \in 1 .. (Len(nodes) + 1) /\ changed' \in 0 .. (i' - 1)
    BY <1>1, <1>2, <2>1
  <2> QED BY <1>1, <2>1, <2>2 DEF IInv, Control, tapeVars, callVars
<1>5. Maps'
  <2>1. \A o \in DOMAIN remap' : remap'[o] \in 0 .. Len(onodes')
    BY <1>1, <1>2 DEF IInv, Maps
  <2> QED BY <1>1, <1>2, <2>1 DEF IInv, Maps, tapeVars
<1>6. Planned' /\ Hashed' /\ CseMergesAll'
  BY <1>1 DEF IInv, Planned, Hashed, CseMergesAll, Emits, Pass
<1> QED BY <1>3, <1>4, <1>5, <1>6 DEF IInv

LEMMA GrowOk ==
  ASSUME IInv, NEW ns, Fits(onodes, ns), Grow(ns)
  PROVE  /\ TableOk(onodes') /\ IsSequence(oval') /\ Len(oval') = Len(onodes')
         /\ Len(onodes') = Len(onodes) + Len(ns) /\ Len(onodes) \in Nat /\ Len(ns) \in 0 .. 2
         /\ DOMAIN onodes = 1 .. Len(onodes) /\ DOMAIN onodes' = 1 .. Len(onodes')
         /\ \A j \in DOMAIN onodes : onodes'[j] = onodes[j]
         /\ \A q \in 1 .. Len(ns) : onodes'[Len(onodes) + q] = ns[q]
         /\ \A j \in DOMAIN onodes : oval'[j] = oval[j]
<1>1. onodes' = onodes \o ns /\ oval' = ExtendedBy(oval, ns)
  BY DEF Grow
<1>2. TableOk(onodes) /\ IsSequence(oval) /\ Len(oval) = Len(onodes)
  BY DEF IInv, Tables
<1>3. /\ TableOk(onodes') /\ Len(onodes') = Len(onodes) + Len(ns)
      /\ Len(onodes) \in Nat /\ Len(ns) \in 0 .. 2 /\ DOMAIN onodes = 1 .. Len(onodes)
      /\ \A j \in DOMAIN onodes : onodes'[j] = onodes[j]
      /\ \A q \in 1 .. Len(ns) : onodes'[Len(onodes) + q] = ns[q]
  BY <1>1, <1>2, TableGrows
<1>4. DOMAIN onodes' = 1 .. Len(onodes')
  BY <1>3, SequenceShape DEF TableOk
<1>5. /\ IsSequence(oval') /\ Len(oval') = Len(oval) + Len(ns)
      /\ \A j \in 1 .. Len(oval) : oval'[j] = oval[j]
  <2>1. CASE Len(ns) = 0
    <3>1. ns = <<>>
      BY <2>1 DEF Fits, IsSequence
    <3> QED BY <1>1, <1>2, <1>3, <2>1, <3>1 DEF ExtendedBy
  <2>2. CASE Len(ns) = 1
    <3>1. ns # <<>>
      BY <2>2, EmptySequence
    <3>2. oval' = Append(oval, Denote(ns[1], oval))
      BY <1>1, <2>2, <3>1 DEF ExtendedBy, Extended
    <3> HIDE DEF Denote
    <3> QED BY <1>2, <2>2, <3>2, Appended
  <2>3. CASE Len(ns) = 2
    <3>1. ns # <<>>
      BY <2>3, EmptySequence
    <3> DEFINE first == Append(oval, Denote(ns[1], oval))
    <3>2. oval' = Append(first, Denote(ns[2], first))
      BY <1>1, <2>3, <3>1 DEF ExtendedBy, Extended
    <3>3. IsSequence(first) /\ Len(first) = Len(oval) + 1 /\ \A j \in 1 .. Len(oval) : first[j] = oval[j]
      BY <1>2, Appended
    <3> HIDE DEF first
    <3>4. /\ IsSequence(oval') /\ Len(oval') = Len(first) + 1
          /\ \A j \in 1 .. Len(first) : oval'[j] = first[j]
      BY <3>2, <3>3, Appended
    <3> QED BY <1>2, <1>3, <2>3, <3>3, <3>4
  <2> QED BY <1>3, <2>1, <2>2, <2>3
<1> QED BY <1>2, <1>3, <1>4, <1>5

(* Away from cse the hash table is left alone.                             *)
LEMMA PlainStep ==
  ASSUME IInv, work' = work, AtNode, NEW ns, Fits(onodes, ns), Grow(ns), UNCHANGED seen,
         NEW id \in 0 .. (Len(onodes) + Len(ns)), NEW more \in {0, 1}, Advance(i, id, more),
         Pass = "cse" => ns = <<>>
  PROVE  IInv'
<1>1. /\ TableOk(onodes') /\ IsSequence(oval') /\ Len(oval') = Len(onodes')
      /\ Len(onodes') = Len(onodes) + Len(ns) /\ Len(onodes) \in Nat /\ Len(ns) \in 0 .. 2
      /\ DOMAIN onodes = 1 .. Len(onodes) /\ DOMAIN onodes' = 1 .. Len(onodes')
      /\ \A j \in DOMAIN onodes : onodes'[j] = onodes[j]
  BY GrowOk
<1>2. Len(onodes') >= Len(onodes) /\ id \in 0 .. Len(onodes')
  BY <1>1
<1>3. \A key \in DOMAIN seen' : seen'[key] \in DOMAIN onodes'
  BY <1>1 DEF IInv, Maps
<1>4. ASSUME Pass = "cse" PROVE Found(onodes)'
  <2>1. Len(ns) = 0
    BY <1>4, EmptySequence
  <2>2. Found(onodes)
    BY <1>4 DEF IInv, Hashed, AtNode
  <2> QED BY <1>1, <2>1, <2>2 DEF Found
<1> QED BY <1>1, <1>2, <1>3, <1>4, AdvanceKeeps

LEMMA KeepIsGrow == ASSUME IInv, Keep PROVE Grow(<<>>)
BY DEF Keep, Grow, ExtendedBy, IInv, Tables, TableOk, IsSequence

LEMMA DropKeeps == ASSUME IInv, work' = work, Drop PROVE IInv'
<1>1. AtNode /\ Grow(<<>>) /\ UNCHANGED seen /\ Advance(i, 0, 1) /\ Fits(onodes, <<>>) /\ Len(<<>>) = 0
  BY KeepIsGrow, FitsNone DEF Drop, NoNode
<1>2. 0 \in 0 .. (Len(onodes) + 0)
  BY SequenceShape DEF IInv, Tables, TableOk
<1> QED BY <1>1, <1>2, PlainStep

(* What a node reads, copied, is in the new table.                         *)
LEMMA MappedFits ==
  ASSUME IInv, NEW n, IsNode(Mapped(n)), AllMapped(n),
         n = [op |-> n.op, args |-> n.args, konst |-> n.konst, coefs |-> n.coefs]
  PROVE  Fits(onodes, <<Mapped(n)>>)
<1>1. TableOk(onodes) /\ DOMAIN onodes = 1 .. Len(onodes)
  BY SequenceShape DEF IInv, Tables, TableOk
<1>2. \A p \in DOMAIN Mapped(n).args : Mapped(n).args[p] \in 1 .. Len(onodes)
  BY <1>1, MappedNode DEF AllMapped
<1> QED BY <1>1, <1>2, FitsOne

LEMMA EmitKeeps == ASSUME IInv, work' = work, Emit PROVE IInv'
<1> DEFINE n == plan.emit[i]
<1>1. /\ AtNode /\ i \in DOMAIN plan.emit /\ AllMapped(n) /\ Grow(<<Mapped(n)>>) /\ UNCHANGED seen
      /\ Advance(i, Len(onodes) + 1, 1)
  BY DEF Emit
<1>2. n.op \in Variadic /\ n = [op |-> n.op, args |-> n.args, konst |-> n.konst, coefs |-> n.coefs]
  BY <1>1 DEF IInv, Planned, Emits
<1> HIDE DEF n
<1>3. IsNode(Mapped(n))
  BY <1>2, MappedNode DEF Variadic, Binary
<1>4. Fits(onodes, <<Mapped(n)>>) /\ Len(<<Mapped(n)>>) = 1
  BY <1>1, <1>2, <1>3, MappedFits
<1>5. Pass # "cse"
  <2>1. DOMAIN <<>> = {}
    OBVIOUS
  <2> QED BY <1>1, <2>1 DEF IInv, Planned, NoChange, AtNode
<1>6. Len(onodes) + 1 \in 0 .. (Len(onodes) + 1)
  BY SequenceShape DEF IInv, Tables, TableOk
<1> QED BY <1>1, <1>4, <1>5, <1>6, PlainStep

LEMMA MergeKeeps == ASSUME IInv, work' = work, Merge PROVE IInv'
<1>1. /\ AtNode /\ Grow(<<>>) /\ UNCHANGED seen /\ CseKey(nodes[i]) \in DOMAIN seen
      /\ Advance(i, seen[CseKey(nodes[i])], 1) /\ Fits(onodes, <<>>) /\ Len(<<>>) = 0
  BY KeepIsGrow, FitsNone DEF Merge
<1>2. seen[CseKey(nodes[i])] \in 0 .. (Len(onodes) + 0)
  <2>1. seen[CseKey(nodes[i])] \in DOMAIN onodes
    BY <1>1 DEF IInv, Maps
  <2> QED BY <2>1, SequenceShape DEF IInv, Tables, TableOk
<1> QED BY <1>1, <1>2, PlainStep

LEMMA MatchFits ==
  ASSUME IInv, AtNode, AllMapped(nodes[i]), NEW r \in Match
  PROVE  Fitting(onodes, r) /\ Pass # "cse"
<1> DEFINE n == nodes[i]
           m == Mapped(n)
<1>1. Pass = "simplify" /\ r \in SimplifyBinary(onodes, m.op, m.args[1], m.args[2])
  BY DEF Match
<1>2. i \in DOMAIN nodes /\ IsNode(n)
  <2>1. DOMAIN nodes = 1 .. Len(nodes) /\ Len(nodes) \in Nat
    BY SequenceShape DEF IInv, Tables, TableOk
  <2> QED BY <2>1 DEF IInv, Tables, TableOk, Control, AtNode
<1> HIDE DEF n
<1>3. m = [op |-> n.op, args |-> [p \in DOMAIN n.args |-> remap[n.args[p]]],
           konst |-> n.konst, coefs |-> n.coefs]
  BY <1>2, MappedNode DEF IsNode
<1>4. n.op \in Binary
  BY <1>1, <1>3, SimplifyIsBinary
<1>5. m.args[1] \in DOMAIN onodes /\ m.args[2] \in DOMAIN onodes
  <2>1. DOMAIN n.args = {1, 2}
    BY <1>2, <1>4, BinaryArgs
  <2> QED BY <1>3, <2>1 DEF AllMapped, n
<1> HIDE DEF m
<1> QED BY <1>1, <1>5, SimplifyFits DEF IInv, Tables

LEMMA ReduceKeeps == ASSUME IInv, work' = work, Reduce PROVE IInv'
<1>1. PICK r \in Match : AtNode /\ AllMapped(nodes[i]) /\ Grow(r.add) /\ UNCHANGED seen /\ Advance(i, r.at, 1)
  BY DEF Reduce
<1>2. Fitting(onodes, r) /\ Pass # "cse"
  BY <1>1, MatchFits
<1>3. r.at \in 0 .. (Len(onodes) + Len(r.add))
  BY <1>2 DEF Fitting
<1> QED BY <1>1, <1>2, <1>3, PlainStep DEF Fitting

(* The node a copy appends, if it appends one.                             *)
LEMMA RecordedFits ==
  ASSUME IInv, AtNode, AllMapped(nodes[i]), NEW r \in Recorded
  PROVE  /\ Fitting(onodes, r) /\ Len(r.add) <= 1 /\ i \in DOMAIN nodes
         /\ Leaf(nodes[i]) => Len(r.add) = 0 \/ Leaf(r.add[1])
         /\ ~Leaf(nodes[i]) => r.add = <<Mapped(nodes[i])>> /\ r.at = Len(onodes) + 1
<1> DEFINE n == nodes[i]
<1>1. i \in DOMAIN nodes /\ IsNode(n)
  <2>1. DOMAIN nodes = 1 .. Len(nodes) /\ Len(nodes) \in Nat
    BY SequenceShape DEF IInv, Tables, TableOk
  <2> QED BY <2>1 DEF IInv, Tables, TableOk, Control, AtNode
<1>2. TableOk(onodes) /\ Len(onodes) \in Nat
  BY SequenceShape DEF IInv, Tables, TableOk
<1>3. CASE n.op = "Const"
  <2>1. r \in Constant(onodes, n.konst)
    BY <1>3 DEF Recorded
  <2>2. /\ Fitting(onodes, r) /\ Len(r.add) <= 1
        /\ r.add = <<Number(n.konst)>> \/ r.add = <<>>
    BY <1>2, <2>1, ConstantFits
  <2>3. Len(r.add) = 0 \/ Leaf(r.add[1])
    BY <2>2, NumberIsNode, EmptySequence DEF Leaf
  <2> QED BY <1>1, <1>3, <2>2, <2>3 DEF Leaf
<1>4. CASE n.op = "Input"
  <2> DEFINE m == InputNode(Cardinality(Inputs(onodes)) + 1)
  <2>1. r.add = <<m>> /\ r.at = Len(onodes) + 1
    BY <1>4 DEF Recorded
  <2>2. IsNode(m) /\ DOMAIN m.args = {} /\ Leaf(m)
    BY InputIsNode DEF Leaf
  <2> HIDE DEF m
  <2>3. Fits(onodes, <<m>>) /\ Len(<<m>>) = 1 /\ <<m>>[1] = m
    BY <1>2, <2>2, FitsOne
  <2>4. Fitting(onodes, r) /\ Len(r.add) <= 1 /\ Leaf(r.add[1])
    BY <1>2, <2>1, <2>2, <2>3 DEF Fitting
  <2> QED BY <1>1, <1>4, <2>4 DEF Leaf
<1>5. CASE n.op \notin {"Const", "Input"}
  <2>1. r.add = <<Mapped(n)>> /\ r.at = Len(onodes) + 1
    BY <1>5 DEF Recorded
  <2>2. IsNode(Mapped(n))
    BY <1>1, MappedNode DEF IsNode
  <2>3. Fits(onodes, <<Mapped(n)>>) /\ Len(<<Mapped(n)>>) = 1
    BY <1>1, <2>2, MappedFits DEF IsNode
  <2> QED BY <1>1, <1>2, <1>5, <2>1, <2>3 DEF Fitting, Leaf
<1> QED BY <1>3, <1>4, <1>5

LEMMA CopyKeeps == ASSUME IInv, work' = work, Copy PROVE IInv'
<1> DEFINE key == CseKey(nodes[i])
           hashes == Pass = "cse" /\ ~Leaf(nodes[i])
<1>1. PICK r \in Recorded :
        /\ AtNode /\ AllMapped(nodes[i]) /\ (hashes => key \notin DOMAIN seen)
        /\ Grow(r.add) /\ seen' = IF hashes THEN Noted(key, r.at) ELSE seen
        /\ Advance(i, r.at, IF Pass = "cse" /\ r.add = <<>> THEN 1 ELSE 0)
  BY DEF Copy
<1>2. /\ Fits(onodes, r.add) /\ r.at \in 1 .. (Len(onodes) + Len(r.add)) /\ Len(r.add) <= 1
      /\ Leaf(nodes[i]) => Len(r.add) = 0 \/ Leaf(r.add[1])
      /\ ~Leaf(nodes[i]) => r.add = <<Mapped(nodes[i])>> /\ r.at = Len(onodes) + 1
  BY <1>1, RecordedFits DEF Fitting
<1>3. /\ TableOk(onodes') /\ IsSequence(oval') /\ Len(oval') = Len(onodes')
      /\ Len(onodes') = Len(onodes) + Len(r.add) /\ Len(onodes) \in Nat /\ Len(r.add) \in 0 .. 2
      /\ DOMAIN onodes = 1 .. Len(onodes) /\ DOMAIN onodes' = 1 .. Len(onodes')
      /\ \A j \in DOMAIN onodes : onodes'[j] = onodes[j]
      /\ \A q \in 1 .. Len(r.add) : onodes'[Len(onodes) + q] = r.add[q]
  BY <1>1, <1>2, GrowOk
<1> HIDE DEF key, hashes
<1>4. Len(onodes') >= Len(onodes) /\ r.at \in 0 .. Len(onodes') /\ r.at \in DOMAIN onodes'
  BY <1>2, <1>3
<1>5. DOMAIN onodes \subseteq DOMAIN onodes'
  BY <1>3
<1>6. \A k \in DOMAIN seen' : seen'[k] \in DOMAIN onodes'
  <2>1. \A k \in DOMAIN seen : seen[k] \in DOMAIN onodes
    BY DEF IInv, Maps
  <2> QED BY <1>1, <1>4, <1>5, <2>1 DEF Noted
<1>7. ASSUME Pass = "cse" PROVE Found(onodes)'
  <2>1. Found(onodes)
    BY <1>1, <1>7 DEF IInv, Hashed, AtNode
  <2>2. CASE Leaf(nodes[i])
    <3>1. ~hashes
      BY <2>2 DEF hashes
    <3>2. ASSUME NEW j \in DOMAIN onodes', ~Leaf(onodes'[j]) PROVE j \in DOMAIN onodes
      <4>1. CASE Len(r.add) = 0
        BY <1>3, <4>1
      <4>2. CASE Len(r.add) # 0
        <5>1. Len(r.add) = 1 /\ Leaf(r.add[1])
          <6>1. Leaf(r.add[1])
            BY <1>2, <2>2, <4>2
          <6>2. Len(r.add) <= 1 /\ Len(r.add) \in 0 .. 2
            BY <1>2, <1>3
          <6> QED BY <4>2, <6>1, <6>2
        <5>2. onodes'[Len(onodes) + 1] = r.add[1] /\ Len(onodes') = Len(onodes) + 1
          BY <1>3, <5>1
        <5>3. j # Len(onodes) + 1
          BY <3>2, <5>1, <5>2
        <5> QED BY <1>3, <5>2, <5>3
      <4> QED BY <4>1, <4>2
    <3> QED BY <1>1, <1>3, <2>1, <3>1, <3>2 DEF Found
  <2>3. CASE ~Leaf(nodes[i])
    <3>1. hashes /\ seen' = Noted(key, Len(onodes) + 1) /\ key \notin DOMAIN seen
      BY <1>1, <1>2, <1>7, <2>3 DEF hashes
    <3>2. /\ Len(onodes') = Len(onodes) + 1 /\ onodes'[Len(onodes) + 1] = Mapped(nodes[i])
          /\ key = Ordered(Mapped(nodes[i]))
      <4>1. r.add = <<Mapped(nodes[i])>> /\ Len(r.add) = 1 /\ r.add[1] = Mapped(nodes[i])
        BY <1>2, <2>3, OneElement
      <4>2. 1 \in 1 .. Len(r.add)
        BY <4>1
      <4> QED BY <1>3, <4>1, <4>2 DEF key, CseKey
    <3>3. ASSUME NEW j \in DOMAIN onodes', ~Leaf(onodes'[j])
          PROVE  Ordered(onodes'[j]) \in DOMAIN seen' /\ seen'[Ordered(onodes'[j])] = j
      <4>1. CASE j \in DOMAIN onodes
        BY <1>3, <2>1, <3>1, <3>3, <4>1 DEF Found, Noted
      <4>2. CASE j \notin DOMAIN onodes
        <5>1. j = Len(onodes) + 1
          BY <1>3, <3>2, <4>2
        <5> QED BY <3>1, <3>2, <5>1 DEF Noted
      <4> QED BY <4>1, <4>2
    <3> QED BY <3>3 DEF Found
  <2> QED BY <2>2, <2>3
<1> QED BY <1>1, <1>3, <1>4, <1>6, <1>7, AdvanceKeeps

LEMMA ThrowKeeps == ASSUME IInv, work' = work, Throw PROVE IInv'
<1>1. pc = "rebuild" /\ pc' = "failed" /\ UNCHANGED <<tapeVars, callVars, passVars, todo, prev, total>>
  BY DEF Throw
<1> QED
  BY <1>1 DEF IInv, Tables, Control, Maps, Planned, Hashed, CseMergesAll, Emits,
              tapeVars, callVars, passVars

(* Two operations with one key are one node.                               *)
LEMMA NoTwins ==
  ASSUME NEW s, TableOk(s), Found(s), NEW j \in DOMAIN s, NEW m \in DOMAIN s, j < m, ~Leaf(s[j])
  PROVE  ~Twins(s[j], s[m])
<1> SUFFICES ASSUME Twins(s[j], s[m]) PROVE FALSE
  OBVIOUS
<1> DEFINE x == s[j]
           y == s[m]
<1>1. /\ IsNode(x) /\ IsNode(y) /\ x.op = y.op /\ x.konst = y.konst /\ x.coefs = y.coefs
      /\ ~Leaf(x) /\ ~Leaf(y)
  BY DEF TableOk, Twins, Leaf
<1>2. Ordered(x) = Ordered(y)
  <2>1. CASE x.args = y.args
    BY <1>1, <2>1 DEF IsNode
  <2>2. CASE x.args # y.args
    <3>1. x.op \in Commutative /\ x.args = <<y.args[2], y.args[1]>> /\ y.args = <<y.args[1], y.args[2]>>
      BY <1>1, <2>2 DEF Twins, IsNode, Binary, Commutative
    <3>2. PICK a, b : a = y.args[1] /\ b = y.args[2]
      OBVIOUS
    <3>3. a \in Int /\ b \in Int
      <4>1. DOMAIN y.args = {1, 2}
        BY <1>1, <3>1, BinaryArgs DEF Commutative, Binary
      <4>2. \A p \in DOMAIN y.args : y.args[p] \in 1 .. (m - 1)
        BY DEF TableOk
      <4> QED BY <3>2, <4>1, <4>2
    <3>4. /\ x = [op |-> x.op, args |-> <<b, a>>, konst |-> x.konst, coefs |-> x.coefs]
          /\ y = [op |-> x.op, args |-> <<a, b>>, konst |-> x.konst, coefs |-> x.coefs]
      BY <1>1, <3>1, <3>2 DEF IsNode
    <3> HIDE DEF x, y
    <3>5. PICK o, k, c : /\ x = [op |-> o, args |-> <<b, a>>, konst |-> k, coefs |-> c]
                         /\ y = [op |-> o, args |-> <<a, b>>, konst |-> k, coefs |-> c] /\ o \in Commutative
      BY <3>1, <3>4
    <3>6. CASE a < b
      BY <3>3, <3>5, <3>6 DEF Ordered
    <3>7. CASE b < a
      BY <3>3, <3>5, <3>7 DEF Ordered
    <3>8. CASE a = b
      BY <3>5, <3>8
    <3> QED BY <3>3, <3>6, <3>7, <3>8
  <2> QED BY <2>1, <2>2
<1>3. seen[Ordered(x)] = j /\ seen[Ordered(y)] = m
  BY <1>1 DEF Found
<1>4. j \in Nat /\ m \in Nat
  BY SequenceShape DEF TableOk
<1> QED BY <1>2, <1>3, <1>4

LEMMA FinishKeeps == ASSUME IInv, work' = work, Finish PROVE IInv'
<1>1. /\ pc = "rebuild" /\ \A p \in DOMAIN outs : remap[outs[p]] # NoNode
      /\ nodes' = onodes /\ val' = oval /\ outs' = [p \in DOMAIN outs |-> remap[outs[p]]]
      /\ total' = Composed(remap) /\ pc' = "idle" /\ prev' = Pass
      /\ plan' = NoChange /\ i' = 1 /\ onodes' = <<>> /\ oval' = <<>> /\ remap' = <<>> /\ seen' = <<>>
      /\ changed' = 0 /\ UNCHANGED callVars
  BY DEF Finish
<1>2. /\ DOMAIN nodes = 1 .. Len(nodes) /\ Len(nodes) \in Nat
      /\ DOMAIN onodes = 1 .. Len(onodes) /\ Len(onodes) \in Nat
      /\ DOMAIN outs = 1 .. Len(outs) /\ Len(outs) \in Nat
  BY SequenceShape DEF IInv, Tables, TableOk
<1>3. DOMAIN remap = DOMAIN nodes /\ \A o \in DOMAIN remap : remap[o] \in 0 .. Len(onodes)
  BY <1>1 DEF IInv, Maps
<1>4. Tables'
  <2>1. \A p \in DOMAIN outs : outs[p] \in DOMAIN nodes
    BY DEF IInv, Tables
  <2>2. ASSUME NEW p \in DOMAIN outs' PROVE outs'[p] \in DOMAIN nodes'
    BY <1>1, <1>2, <1>3, <2>1, <2>2 DEF NoNode
  <2>3. IsSequence(outs')
    <3>1. outs' \in [1 .. Len(outs) -> {outs'[x] : x \in DOMAIN outs'}]
      BY <1>1, <1>2
    <3> QED BY <3>1, <1>2 DEF IsSequence
  <2> QED BY <1>1, <2>2, <2>3, EmptyTable DEF IInv, Tables
<1>5. Control'
  BY <1>1, <1>2 DEF IInv, Control, callVars
<1>6. Maps'
  <2>1. ASSUME NEW o \in DOMAIN total' PROVE total'[o] \in 0 .. Len(nodes')
    <3>1. total[o] \in 0 .. Len(nodes) /\ total'[o] = IF total[o] = NoNode THEN NoNode ELSE remap[total[o]]
      BY <1>1 DEF IInv, Maps, Composed
    <3> QED BY <1>1, <1>2, <1>3, <3>1 DEF NoNode
  <2> QED BY <1>1, <2>1, EmptyTable DEF Maps
<1>7. Planned' /\ Hashed'
  BY <1>1, NoChangeIsPlan DEF Planned, Hashed, IsPlan
<1>8. CseMergesAll'
  <2> SUFFICES ASSUME Pass = "cse", NEW j \in DOMAIN onodes, NEW m \in DOMAIN onodes,
                      j < m, ~Leaf(onodes[j])
               PROVE  ~Twins(onodes[j], onodes[m])
    BY <1>1 DEF CseMergesAll
  <2> QED BY <1>1, NoTwins DEF IInv, Tables, Hashed
<1> QED BY <1>4, <1>5, <1>6, <1>7, <1>8 DEF IInv

LEMMA NextKeeps == IInv /\ [Next]_vars => IInv'
<1> SUFFICES ASSUME IInv, [Next]_vars PROVE IInv'
  OBVIOUS
<1>1. CASE UNCHANGED vars
  BY <1>1 DEF vars, IInv, Tables, Control, Maps, Planned, Hashed, CseMergesAll, Emits, Found, Pass,
              tapeVars, callVars, passVars
<1>2. CASE Next
  <2>1. work' = work /\ (RecordStep \/ CallStep \/ PassStep)
    BY <1>2 DEF Next
  <2>2. PassStep => IInv'
    BY <2>1, StartKeeps, DropKeeps, EmitKeeps, MergeKeeps, ReduceKeeps, CopyKeeps, ThrowKeeps, FinishKeeps
    DEF PassStep
  <2> QED BY <2>1, <2>2, RecordStepKeeps, CallStepKeeps
<1> QED BY <1>1, <1>2

THEOREM Invariance == Spec => []IInv
<1> QED BY InitOk, NextKeeps, PTL DEF Spec

(* Whatever is recorded and called, both tables are tapes whose operands   *)
(* come before their readers, and the maps of the rebuild and of the call  *)
(* hold ids of the tables they lead to (Rebuilder, compose).               *)
THEOREM TypeIsOk == Spec => []TypeOK
<1>1. IInv => TypeOK
  <2> SUFFICES ASSUME IInv PROVE TypeOK
    OBVIOUS
  <2>1. Len(nodes) \in Nat /\ Len(onodes) \in Nat /\ DOMAIN remap \subseteq DOMAIN nodes
    <3>1. DOMAIN <<>> = {}
      OBVIOUS
    <3> QED BY <3>1, SequenceShape DEF IInv, Tables, TableOk, Control, Maps
  <2>2. changed \in 0 .. Len(nodes)
    BY <2>1 DEF IInv, Control
  <2> QED BY <2>1, <2>2 DEF IInv, Tables, TableOk, Control, Maps, TypeOK, IsTable, Ids
<1> QED BY <1>1, Invariance, PTL

(* After cse no two operations of a tape are the same (passes.hpp:17-19),  *)
(* whatever the tape and whatever ran on it before.                        *)
THEOREM CseIsComplete == Spec => []CseMergesAll
<1>1. IInv => CseMergesAll
  BY DEF IInv
<1> QED BY <1>1, Invariance, PTL

------------------------------------------------------------------------------
(* cse and dce, where no arithmetic is done again: the nodes they keep     *)
(* have the values they had, whatever the operations mean.                 *)

(* A node has the value of its operands' values.                           *)
LEMMA SameOperands ==
  ASSUME NEW n, IsNode(n), NEW m, NEW v, NEW w,
         m = [op |-> n.op, args |-> m.args, konst |-> n.konst, coefs |-> n.coefs],
         DOMAIN m.args = DOMAIN n.args, \A p \in DOMAIN n.args : w[m.args[p]] = v[n.args[p]]
  PROVE  Denote(m, w) = Denote(n, v)
<1>1. m.op = n.op /\ m.konst = n.konst /\ m.coefs = n.coefs
  OBVIOUS
<1>2. CASE n.op \in Commutative
  <2>1. DOMAIN n.args = {1, 2}
    BY <1>2, BinaryArgs DEF Commutative, Binary
  <2>2. w[m.args[1]] = v[n.args[1]] /\ w[m.args[2]] = v[n.args[2]]
    BY <2>1
  <2> QED BY <1>1, <1>2, <2>2 DEF Denote
<1>3. CASE n.op \notin Commutative
  <2>1. [p \in DOMAIN m.args |-> w[m.args[p]]] = [p \in DOMAIN n.args |-> v[n.args[p]]]
    OBVIOUS
  <2> QED BY <1>1, <1>3, <2>1 DEF Denote
<1> QED BY <1>2, <1>3

LEMMA SameNode ==
  ASSUME NEW n, IsNode(n), NEW v, NEW w, \A p \in DOMAIN n.args : w[n.args[p]] = v[n.args[p]]
  PROVE  Denote(n, w) = Denote(n, v)
<1>1. n = [op |-> n.op, args |-> n.args, konst |-> n.konst, coefs |-> n.coefs]
  BY DEF IsNode
<1> QED BY <1>1, SameOperands

LEMMA OrderDoesNotCount ==
  ASSUME NEW n, IsNode(n), NEW v
  PROVE  Denote(Ordered(n), v) = Denote(n, v)
<1>1. CASE n.op \in Commutative /\ n.args[2] < n.args[1]
  <2> DEFINE m == Ordered(n)
  <2>1. m = [n EXCEPT !.args = <<n.args[2], n.args[1]>>]
    BY <1>1 DEF Ordered
  <2>2. m.op = n.op /\ m.konst = n.konst /\ m.coefs = n.coefs /\ m.args = <<n.args[2], n.args[1]>>
    BY <2>1 DEF IsNode
  <2> HIDE DEF m
  <2>3. m.args[1] = n.args[2] /\ m.args[2] = n.args[1]
    BY <2>2
  <2>4. {v[m.args[1]], v[m.args[2]]} = {v[n.args[1]], v[n.args[2]]}
    BY <2>3
  <2>5. Denote(m, v) = Denote(n, v)
    BY <1>1, <2>2, <2>4 DEF Denote
  <2> QED BY <2>5 DEF m
<1>2. CASE ~(n.op \in Commutative /\ n.args[2] < n.args[1])
  BY <1>2 DEF Ordered
<1> QED BY <1>1, <1>2

Denoted(s, v) == \A j \in DOMAIN s : v[j] = Denote(s[j], v)

InputsTo(s, j) == {m \in Inputs(s) : m <= j}

(* Leaves are as Tape::input and Tape::constant make them, and inputs      *)
(* have their ordinals.                                                    *)
LeafOk(n) == (n.op = "Const" => n = Number(n.konst)) /\ (n.op = "Input" => n = InputNode(n.konst))
LeavesOk(s) ==
  \A j \in DOMAIN s : /\ LeafOk(s[j])
                      /\ s[j].op = "Input" => s[j].konst = Cardinality(InputsTo(s, j))

LEMMA FiniteInputs ==
  ASSUME NEW s, TableOk(s)
  PROVE  /\ IsFiniteSet(Inputs(s)) /\ Cardinality(Inputs(s)) \in Nat
         /\ \A j : IsFiniteSet(InputsTo(s, j)) /\ Cardinality(InputsTo(s, j)) \in Nat
<1>1. DOMAIN s = 1 .. Len(s) /\ Len(s) \in Nat
  BY SequenceShape DEF TableOk
<1>2. IsFiniteSet(Inputs(s))
  <2>1. IsFiniteSet(1 .. Len(s)) /\ Inputs(s) \subseteq 1 .. Len(s)
    BY <1>1, FS_Interval DEF Inputs
  <2> QED BY <2>1, FS_Subset
<1>3. ASSUME NEW j PROVE IsFiniteSet(InputsTo(s, j))
  BY <1>2, FS_Subset DEF InputsTo
<1> QED BY <1>2, <1>3, FS_CardinalityType

(* One node more.                                                          *)
LEMMA TableWith ==
  ASSUME NEW s, TableOk(s), NEW v, IsSequence(v), Len(v) = Len(s), Denoted(s, v), LeavesOk(s),
         NEW n, IsNode(n), \A p \in DOMAIN n.args : n.args[p] \in DOMAIN s,
         n.op = "Const" => n = Number(n.konst),
         n.op = "Input" => n = InputNode(Cardinality(Inputs(s)) + 1)
  PROVE  LET t == Append(s, n)  w == Append(v, Denote(n, v))
         IN /\ Denoted(t, w) /\ LeavesOk(t) /\ w[Len(s) + 1] = Denote(n, v)
            /\ Cardinality(Inputs(t)) = Cardinality(Inputs(s)) + IF n.op = "Input" THEN 1 ELSE 0
<1> DEFINE t == Append(s, n)
           d == Denote(n, v)
           w == Append(v, d)
<1>1. /\ DOMAIN s = 1 .. Len(s) /\ Len(s) \in Nat /\ Len(t) = Len(s) + 1
      /\ DOMAIN t = 1 .. (Len(s) + 1) /\ \A x \in DOMAIN s : t[x] = s[x]
      /\ t[Len(s) + 1] = n
  BY Appended, SequenceShape DEF TableOk
<1>2. /\ \A x \in DOMAIN s : w[x] = v[x]
      /\ w[Len(s) + 1] = d
  BY <1>1, Appended
<1> HIDE DEF t, w, d
<1>3. TableOk(t)
  BY TableAppend DEF t
<1>4. ASSUME NEW j \in DOMAIN t PROVE w[j] = Denote(t[j], w)
  <2>1. CASE j \in DOMAIN s
    <3>1. \A p \in DOMAIN s[j].args : s[j].args[p] \in DOMAIN s
      BY <1>1, <2>1 DEF TableOk
    <3>2. IsNode(s[j]) /\ v[j] = Denote(s[j], v)
      BY <2>1 DEF TableOk, Denoted
    <3> QED BY <1>1, <1>2, <2>1, <3>1, <3>2, SameNode
  <2>2. CASE j \notin DOMAIN s
    <3>1. j = Len(s) + 1
      BY <1>1, <2>2
    <3>2. Denote(n, w) = d
      BY <1>2, SameNode DEF d
    <3> QED BY <1>1, <1>2, <3>1, <3>2
  <2> QED BY <2>1, <2>2
<1>5. Inputs(t) = IF n.op = "Input" THEN Inputs(s) \cup {Len(s) + 1} ELSE Inputs(s)
  BY <1>1 DEF Inputs
<1>6. Len(s) + 1 \notin Inputs(s)
  BY <1>1 DEF Inputs
<1>7. Cardinality(Inputs(t)) = Cardinality(Inputs(s)) + IF n.op = "Input" THEN 1 ELSE 0
  <2>1. IsFiniteSet(Inputs(s)) /\ Cardinality(Inputs(s)) \in Nat
    BY FiniteInputs
  <2>2. Cardinality(Inputs(s) \cup {Len(s) + 1}) = Cardinality(Inputs(s)) + 1
    BY <1>6, <2>1, FS_AddElement
  <2> QED BY <1>5, <2>1, <2>2
<1>8. ASSUME NEW j \in DOMAIN t
      PROVE  LeafOk(t[j]) /\ (t[j].op = "Input" => t[j].konst = Cardinality(InputsTo(t, j)))
  <2>1. CASE j \in DOMAIN s
    <3>1. InputsTo(t, j) = InputsTo(s, j)
      BY <1>1, <1>5, <2>1 DEF InputsTo
    <3> QED BY <1>1, <2>1, <3>1 DEF LeavesOk
  <2>2. CASE j \notin DOMAIN s
    <3>1. j = Len(s) + 1 /\ t[j] = n
      BY <1>1, <2>2
    <3>2. ASSUME n.op = "Input" PROVE n.konst = Cardinality(InputsTo(t, j)) /\ n = InputNode(n.konst)
      <4>1. n = InputNode(Cardinality(Inputs(s)) + 1) /\ n.konst = Cardinality(Inputs(s)) + 1
        BY <3>2 DEF InputNode
      <4>2. InputsTo(t, j) = Inputs(t)
        <5>1. \A m \in Inputs(t) : m <= j
          BY <1>1, <3>1 DEF Inputs
        <5> QED BY <5>1 DEF InputsTo
      <4> QED BY <1>7, <3>2, <4>1, <4>2
    <3> QED BY <3>1, <3>2 DEF LeafOk
  <2> QED BY <2>1, <2>2
<1> QED BY <1>2, <1>4, <1>7, <1>8 DEF Denoted, LeavesOk, t, w, d

(* What dce keeps is what outputs, inputs, and kept nodes read.            *)
LEMMA LiveIsClosed ==
  ASSUME NEW s, TableOk(s), NEW os
  PROVE  LET live == LiveNodes(s, os, TRUE)
         IN /\ live \subseteq DOMAIN s /\ Inputs(s) \subseteq live
            /\ \A p \in DOMAIN os : os[p] \in DOMAIN s => os[p] \in live
            /\ \A x \in live : \A p \in DOMAIN s[x].args : s[x].args[p] \in live
<1> DEFINE Needed(f, k) == \/ \E p \in DOMAIN os : os[p] = k
                           \/ TRUE /\ s[k].op = "Input"
                           \/ \E j \in (k + 1) .. Len(s) : k \in ArgSet(s[j]) /\ f[j]
           Runs(n, f) == f = [k \in n .. Len(s) |-> Needed(f, k)]
           never == {n \in 0 .. Len(s) : ~(\E f : Runs(Len(s) + 1 - n, f))}
           live == CHOOSE f : f = [k \in DOMAIN s |-> Needed(f, k)]
<1>1. DOMAIN s = 1 .. Len(s) /\ Len(s) \in Nat
  BY SequenceShape DEF TableOk
<1>2. never = {}
  <2> SUFFICES ASSUME never # {} PROVE FALSE
    OBVIOUS
  <2>1. never \in SUBSET Nat
    OBVIOUS
  <2> HIDE DEF never
  <2>2. PICK n \in never : \A m \in never : n <= m
    BY <2>1, LeastOf
  <2>3. n \in 0 .. Len(s) /\ ~(\E f : Runs(Len(s) + 1 - n, f))
    BY <2>2 DEF never
  <2>4. CASE n = 0
    <3>1. Runs(Len(s) + 1, [k \in (Len(s) + 1) .. Len(s) |-> TRUE])
      <4>1. (Len(s) + 1) .. Len(s) = {}
        BY <1>1
      <4> QED BY <4>1
    <3> QED BY <1>1, <2>3, <2>4, <3>1
  <2>5. CASE n # 0
    <3> DEFINE low == Len(s) + 1 - n
    <3>1. n - 1 \in 0 .. Len(s) /\ Len(s) + 1 - (n - 1) = low + 1 /\ low \in 1 .. Len(s)
      BY <1>1, <2>3, <2>5
    <3>2. n - 1 \notin never
      <4>1. n \in Nat /\ ~(n <= n - 1)
        BY <2>3
      <4> QED BY <2>2, <4>1
    <3>3. PICK f : Runs(low + 1, f)
      BY <3>1, <3>2 DEF never
    <3> DEFINE g == [k \in low .. Len(s) |-> IF k = low THEN Needed(f, low) ELSE f[k]]
    <3>4. low .. Len(s) = {low} \cup (low + 1) .. Len(s)
      BY <1>1, <3>1
    <3> HIDE DEF low
    <3>5. ASSUME NEW k \in low .. Len(s) PROVE g[k] = Needed(g, k)
      <4>1. ASSUME NEW j \in (k + 1) .. Len(s) PROVE g[j] = f[j]
        <5>1. j \in low .. Len(s) /\ j # low
          BY <1>1, <3>1
        <5> HIDE DEF Needed
        <5> QED BY <5>1
      <4>2. Needed(g, k) = Needed(f, k)
        BY <4>1
      <4>3. CASE k = low
        BY <4>2, <4>3
      <4>4. CASE k # low
        <5>1. k \in (low + 1) .. Len(s) /\ g[k] = f[k]
          BY <3>4, <4>4
        <5>2. f[k] = Needed(f, k)
          BY <3>3, <5>1
        <5> QED BY <4>2, <5>1, <5>2
      <4> QED BY <4>3, <4>4
    <3>6. Runs(low, g)
      <4>1. g = [k \in low .. Len(s) |-> g[k]]
        OBVIOUS
      <4> HIDE DEF g
      <4> QED BY <3>5, <4>1
    <3> QED BY <2>3, <3>6 DEF low
  <2> QED BY <2>4, <2>5
<1>3. live = [k \in DOMAIN s |-> Needed(live, k)]
  <2>1. Len(s) \in 0 .. Len(s) /\ Len(s) + 1 - Len(s) = 1
    BY <1>1
  <2>2. \E f : Runs(1, f)
    BY <1>2, <2>1
  <2>3. \E f : f = [k \in DOMAIN s |-> Needed(f, k)]
    BY <1>1, <2>2
  <2> QED BY <2>3
<1>4. LiveNodes(s, os, TRUE) = {k \in DOMAIN s : live[k]}
  BY DEF LiveNodes
<1> HIDE DEF live
<1>5. \A k \in DOMAIN s : live[k] = Needed(live, k)
  BY <1>3
<1>6. \A k \in DOMAIN s : k \in LiveNodes(s, os, TRUE) <=> Needed(live, k)
  BY <1>4, <1>5
<1>7. ASSUME NEW x \in LiveNodes(s, os, TRUE), NEW p \in DOMAIN s[x].args
      PROVE  s[x].args[p] \in LiveNodes(s, os, TRUE)
  <2>1. x \in DOMAIN s /\ live[x]
    BY <1>4
  <2>2. s[x].args[p] \in 1 .. (x - 1)
    BY <2>1 DEF TableOk
  <2>3. s[x].args[p] \in DOMAIN s /\ x \in (s[x].args[p] + 1) .. Len(s)
    BY <1>1, <2>1, <2>2
  <2>4. Needed(live, s[x].args[p])
    BY <2>1, <2>3 DEF ArgSet
  <2> QED BY <1>6, <2>3, <2>4
<1>8. Inputs(s) \subseteq LiveNodes(s, os, TRUE)
  BY <1>6 DEF Inputs
<1> QED BY <1>4, <1>6, <1>7, <1>8

Plain == work.jobs \subseteq {"cse", "dce"}

Tapes ==
  /\ Denoted(nodes, val) /\ LeavesOk(nodes)
  /\ Denoted(onodes, oval) /\ LeavesOk(onodes)

Jobs ==
  /\ Plain /\ pc # "failed" /\ job \in {"none", "cse", "dce"}
  /\ todo \in {<<>>, <<"cse">>, <<"dce">>} /\ (pc = "rebuild" => todo # <<>>)
  /\ calls = 0 => total = <<>>

(* The nodes the rebuild has passed are in the new table with the values   *)
(* they had, or dropped; so are the inputs; and what cse has found is      *)
(* found under its own key.                                                *)
Rebuilt ==
  pc = "rebuild" =>
    /\ Pass \in {"cse", "dce"} /\ plan = IF Pass = "dce" THEN DcePlan(nodes, outs) ELSE NoChange
    /\ \A o \in 1 .. (i - 1) : IF o \in plan.drop THEN remap[o] = NoNode
                               ELSE remap[o] \in DOMAIN onodes /\ oval[remap[o]] = val[o]
    /\ Cardinality(Inputs(onodes)) = Cardinality(InputsTo(nodes, i - 1))
    /\ \A key \in DOMAIN seen : key = Ordered(onodes[seen[key]])

(* The call's map keeps values, and takes the outputs to the outputs.      *)
Composes ==
  /\ \A o \in DOMAIN total : total[o] # NoNode => orig.val[o] = val[total[o]]
  /\ job # "none" =>
       /\ Len(outs) = Len(orig.outs)
       /\ \A p \in DOMAIN outs : orig.outs[p] \in DOMAIN total /\ total[orig.outs[p]] = outs[p]
       /\ Cardinality(Inputs(nodes)) = orig.inputs

DInv == Tapes /\ Jobs /\ Rebuilt /\ Composes

LEMMA TapesNext ==
  ASSUME work' = work
  PROVE  Tapes' <=> /\ Denoted(nodes', val') /\ LeavesOk(nodes')
                    /\ Denoted(onodes', oval') /\ LeavesOk(onodes')
BY DEF Tapes, Denoted, Denote

LEMMA PlainInit == Init /\ Plain => DInv
<1> SUFFICES ASSUME Init, Plain PROVE DInv
  OBVIOUS
<1>1. DOMAIN <<>> = {}
  OBVIOUS
<1> QED BY <1>1 DEF Init, DInv, Tapes, Jobs, Rebuilt, Composes, Denoted, LeavesOk

LEMMA PlainRecord ==
  ASSUME IInv, DInv, work' = work, NEW n, IsNode(n),
         \A p \in DOMAIN n.args : n.args[p] \in DOMAIN nodes, Record(n),
         n.op = "Const" => n = Number(n.konst),
         n.op = "Input" => n = InputNode(Cardinality(Inputs(nodes)) + 1)
  PROVE  DInv'
<1>1. /\ calls = 0 /\ nodes' = Append(nodes, n) /\ val' = Append(val, Denote(n, val))
      /\ UNCHANGED <<outs, callVars, passVars, pc, todo, prev, total>>
  BY DEF Record, Extended
<1>2. TableOk(nodes) /\ IsSequence(val) /\ Len(val) = Len(nodes) /\ Denoted(nodes, val) /\ LeavesOk(nodes)
  BY DEF IInv, Tables, DInv, Tapes
<1>3. Denoted(nodes', val') /\ LeavesOk(nodes')
  BY <1>1, <1>2, TableWith
<1>4. pc = "idle" /\ job = "none" /\ total = <<>>
  BY <1>1 DEF IInv, Control, DInv, Jobs
<1>5. Tapes'
  BY <1>1, <1>3, TapesNext DEF DInv, Tapes, passVars
<1>6. DOMAIN <<>> = {}
  OBVIOUS
<1> QED BY <1>1, <1>4, <1>5, <1>6 DEF DInv, Jobs, Plain, Rebuilt, Composes, callVars

LEMMA PlainRecordStep == ASSUME IInv, DInv, work' = work, RecordStep PROVE DInv'
<1>1. CASE RecordInput
  <2> DEFINE n == InputNode(Cardinality(Inputs(nodes)) + 1)
  <2>1. IsNode(n) /\ DOMAIN n.args = {} /\ n.op = "Input" /\ Record(n)
    BY <1>1, InputIsNode DEF RecordInput
  <2> QED BY <2>1, PlainRecord
<1>2. ASSUME NEW c, RecordConst(c) PROVE DInv'
  <2>1. IsNode(Number(c)) /\ DOMAIN Number(c).args = {} /\ Number(c).op = "Const" /\ Number(c).konst = c
    BY NumberIsNode
  <2>2. Record(Number(c))
    BY <1>2 DEF RecordConst
  <2> QED BY <2>1, <2>2, PlainRecord
<1>3. ASSUME NEW n, RecordOp(n) PROVE DInv'
  <2>1. n.op \notin {"Const", "Input"}
    BY <1>3 DEF RecordOp, Admitted, Arity, Variadic
  <2> QED BY <1>3, <2>1, PlainRecord, AdmittedIsNode DEF RecordOp
<1>4. ASSUME NEW o, RegisterOutput(o) PROVE DInv'
  <2>1. calls = 0 /\ UNCHANGED <<nodes, val, callVars, passVars, pc, todo, prev, total>>
    BY <1>4 DEF RegisterOutput
  <2>2. pc = "idle" /\ job = "none" /\ total = <<>> /\ DOMAIN <<>> = {}
    BY <2>1 DEF IInv, Control, DInv, Jobs
  <2> QED BY <2>1, <2>2, TapesNext DEF DInv, Tapes, Jobs, Plain, Rebuilt, Composes, callVars, passVars
<1> QED BY <1>1, <1>2, <1>3, <1>4 DEF RecordStep

LEMMA PlainCall == ASSUME IInv, DInv, work' = work, CallStep PROVE DInv'
<1>1. ASSUME NEW j \in work.jobs, Call(j) PROVE DInv'
  <2>1. /\ pc = "idle" /\ job' = j /\ todo' = Script[j] /\ calls' = calls + 1
        /\ total' = [o \in DOMAIN nodes |-> o]
        /\ orig' = [val |-> val, outs |-> outs, inputs |-> Cardinality(Inputs(nodes))]
        /\ UNCHANGED <<tapeVars, passVars, pc, prev>>
    BY <1>1 DEF Call
  <2>2. j \in {"cse", "dce"} /\ todo' \in {<<"cse">>, <<"dce">>}
    BY <2>1 DEF DInv, Jobs, Plain, Script
  <2>3. calls' # 0
    BY <2>1 DEF IInv, Control
  <2>4. Composes'
    BY <2>1, <2>2 DEF Composes, IInv, Tables, tapeVars
  <2> QED BY <2>1, <2>2, <2>3, <2>4, TapesNext DEF DInv, Tapes, Jobs, Plain, Rebuilt, tapeVars, passVars
<1>2. ~NextRound
  BY DEF NextRound, DInv, Jobs
<1>3. CASE Return
  BY <1>3, TapesNext DEF Return, DInv, Tapes, Jobs, Plain, Rebuilt, Composes, tapeVars, passVars
<1> QED BY <1>1, <1>2, <1>3 DEF CallStep

LEMMA PlainStart == ASSUME IInv, DInv, work' = work, StartPass PROVE DInv'
<1>1. /\ pc = "idle" /\ todo # <<>> /\ pc' = "rebuild" /\ plan' = PlanOf(Head(todo))
      /\ i' = 1 /\ onodes' = <<>> /\ oval' = <<>> /\ seen' = <<>>
      /\ UNCHANGED <<tapeVars, callVars, todo, total>>
  BY DEF StartPass
<1>2. Head(todo) \in {"cse", "dce"}
  BY <1>1 DEF DInv, Jobs
<1>3. plan' = IF Head(todo) = "dce" THEN DcePlan(nodes, outs) ELSE NoChange
  BY <1>1, <1>2 DEF PlanOf
<1>4. DOMAIN <<>> = {}
  OBVIOUS
<1>5. Inputs(<<>>) = {} /\ InputsTo(nodes, 0) = {}
  <2>1. DOMAIN nodes \subseteq Nat \ {0}
    BY SequenceShape DEF IInv, Tables, TableOk
  <2> QED BY <1>4, <2>1 DEF Inputs, InputsTo
<1>6. Tapes'
  BY <1>1, <1>4, TapesNext DEF DInv, Tapes, Denoted, LeavesOk, tapeVars
<1>7. Rebuilt'
  <2>1. Pass' = Head(todo)
    BY <1>1 DEF Pass
  <2>2. 1 .. (i' - 1) = {} /\ InputsTo(nodes', i' - 1) = {} /\ Inputs(onodes') = {}
    BY <1>1, <1>5 DEF tapeVars
  <2> QED BY <1>1, <1>2, <1>3, <1>4, <2>1, <2>2 DEF Rebuilt, tapeVars
<1> QED BY <1>1, <1>6, <1>7 DEF DInv, Jobs, Plain, Composes, tapeVars, callVars

LEMMA InputsStep ==
  ASSUME NEW s, TableOk(s), NEW j \in DOMAIN s
  PROVE  Cardinality(InputsTo(s, j)) = Cardinality(InputsTo(s, j - 1)) + IF s[j].op = "Input" THEN 1 ELSE 0
<1>1. DOMAIN s = 1 .. Len(s) /\ Len(s) \in Nat
  BY SequenceShape DEF TableOk
<1>2. InputsTo(s, j) = IF s[j].op = "Input" THEN InputsTo(s, j - 1) \cup {j} ELSE InputsTo(s, j - 1)
  BY <1>1 DEF InputsTo, Inputs
<1>3. j \notin InputsTo(s, j - 1)
  BY <1>1 DEF InputsTo
<1>4. IsFiniteSet(InputsTo(s, j - 1)) /\ Cardinality(InputsTo(s, j - 1)) \in Nat
  BY FiniteInputs
<1>5. Cardinality(InputsTo(s, j - 1) \cup {j}) = Cardinality(InputsTo(s, j - 1)) + 1
  BY <1>3, <1>4, FS_AddElement
<1> QED BY <1>2, <1>4, <1>5

LEMMA PlainAdvance ==
  ASSUME IInv, DInv, work' = work, AtNode, NEW id, NEW more, Advance(i, id, more),
         DOMAIN onodes \subseteq DOMAIN onodes', \A x \in DOMAIN onodes : oval'[x] = oval[x],
         Denoted(onodes', oval'), LeavesOk(onodes'),
         IF i \in plan.drop THEN id = NoNode ELSE id \in DOMAIN onodes' /\ oval'[id] = val[i],
         Cardinality(Inputs(onodes')) = Cardinality(Inputs(onodes)) + IF nodes[i].op = "Input" THEN 1 ELSE 0,
         \A key \in DOMAIN seen' : key = Ordered(onodes'[seen'[key]])
  PROVE  DInv'
<1>1. /\ remap' = [remap EXCEPT ![i] = id] /\ i' = i + 1
      /\ UNCHANGED <<tapeVars, callVars, plan, pc, todo, prev, total>>
      /\ pc = "rebuild" /\ i <= Len(nodes)
  BY DEF Advance, AtNode
<1>2. i \in DOMAIN nodes /\ i \in Nat /\ DOMAIN remap = DOMAIN nodes /\ DOMAIN nodes = 1 .. Len(nodes) /\ Len(nodes) \in Nat
  BY <1>1, SequenceShape DEF IInv, Tables, TableOk, Control, Maps
<1>3. ASSUME NEW o \in 1 .. (i' - 1)
      PROVE  IF o \in plan.drop THEN remap'[o] = NoNode
             ELSE remap'[o] \in DOMAIN onodes' /\ oval'[remap'[o]] = val[o]
  <2>1. CASE o = i
    BY <1>1, <1>2, <2>1
  <2>2. CASE o # i
    <3>1. o \in 1 .. (i - 1) /\ o \in DOMAIN remap
      BY <1>1, <1>2, <2>2
    <3>2. remap'[o] = remap[o]
      BY <1>1, <2>2, <3>1
    <3> QED BY <1>1, <3>1, <3>2 DEF DInv, Rebuilt
  <2> QED BY <2>1, <2>2
<1>4. Cardinality(Inputs(onodes')) = Cardinality(InputsTo(nodes, i' - 1))
  <2>1. i' - 1 = i
    BY <1>1, <1>2
  <2>2. Cardinality(Inputs(onodes)) = Cardinality(InputsTo(nodes, i - 1))
    BY <1>1 DEF DInv, Rebuilt
  <2> QED BY <1>2, <2>1, <2>2, InputsStep DEF IInv, Tables
<1>5. Rebuilt'
  BY <1>1, <1>3, <1>4 DEF DInv, Rebuilt, Pass, tapeVars
<1>6. Tapes'
  BY <1>1, TapesNext DEF DInv, Tapes, tapeVars
<1> QED BY <1>1, <1>5, <1>6 DEF DInv, Jobs, Plain, Composes, tapeVars, callVars

LEMMA AtNodeFacts ==
  ASSUME IInv, DInv, AtNode
  PROVE  /\ i \in DOMAIN nodes /\ i \in Nat /\ IsNode(nodes[i])
         /\ \A p \in DOMAIN nodes[i].args : nodes[i].args[p] \in 1 .. (i - 1)
         /\ val[i] = Denote(nodes[i], val) /\ LeafOk(nodes[i])
         /\ nodes[i].op = "Input" => nodes[i].konst = Cardinality(InputsTo(nodes, i))
         /\ Pass \in {"cse", "dce"} /\ plan = IF Pass = "dce" THEN DcePlan(nodes, outs) ELSE NoChange
         /\ TableOk(onodes) /\ IsSequence(oval) /\ Len(oval) = Len(onodes)
         /\ Denoted(onodes, oval) /\ LeavesOk(onodes)
         /\ DOMAIN onodes = 1 .. Len(onodes) /\ Len(onodes) \in Nat
<1>1. i \in DOMAIN nodes /\ i \in Nat
  BY SequenceShape DEF IInv, Tables, TableOk, Control, AtNode
<1>2. DOMAIN onodes = 1 .. Len(onodes) /\ Len(onodes) \in Nat
  BY SequenceShape DEF IInv, Tables, TableOk
<1> QED BY <1>1, <1>2 DEF IInv, Tables, TableOk, DInv, Tapes, Denoted, LeavesOk, Rebuilt, AtNode

(* A copy of the node at hand has its value.                               *)
LEMMA CopyDenotes ==
  ASSUME IInv, DInv, AtNode, AllMapped(nodes[i])
  PROVE  /\ IsNode(Mapped(nodes[i])) /\ Denote(Mapped(nodes[i]), oval) = val[i]
         /\ Mapped(nodes[i]).op = nodes[i].op
         /\ \A p \in DOMAIN Mapped(nodes[i]).args : Mapped(nodes[i]).args[p] \in DOMAIN onodes
<1> DEFINE n == nodes[i]
           m == Mapped(n)
<1>1. /\ IsNode(n) /\ \A p \in DOMAIN n.args : n.args[p] \in 1 .. (i - 1)
      /\ val[i] = Denote(n, val) /\ DOMAIN onodes = 1 .. Len(onodes)
  BY AtNodeFacts
<1>2. \A p \in DOMAIN n.args : remap[n.args[p]] \in DOMAIN onodes
  BY DEF AllMapped
<1>3. \A o \in 1 .. (i - 1) : remap[o] # NoNode => oval[remap[o]] = val[o]
  BY DEF DInv, Rebuilt, AtNode
<1> HIDE DEF n
<1>4. /\ m = [op |-> n.op, args |-> [p \in DOMAIN n.args |-> remap[n.args[p]]],
              konst |-> n.konst, coefs |-> n.coefs]
      /\ IsNode(m)
  BY <1>1, MappedNode DEF IsNode
<1> HIDE DEF m
<1>5. /\ m = [op |-> n.op, args |-> m.args, konst |-> n.konst, coefs |-> n.coefs] /\ m.op = n.op
      /\ DOMAIN m.args = DOMAIN n.args /\ \A p \in DOMAIN n.args : m.args[p] = remap[n.args[p]]
  BY <1>4
<1>6. \A p \in DOMAIN n.args : oval[m.args[p]] = val[n.args[p]]
  BY <1>1, <1>2, <1>3, <1>5 DEF NoNode
<1>7. Denote(m, oval) = Denote(n, val)
  BY <1>1, <1>5, <1>6, SameOperands
<1> QED BY <1>1, <1>2, <1>4, <1>5, <1>7 DEF m, n

LEMMA PlanDrops ==
  /\ NoChange.drop = {} /\ DOMAIN NoChange.emit = {}
  /\ \A s, os : /\ DcePlan(s, os).drop = (DOMAIN s) \ LiveNodes(s, os, TRUE)
               /\ DOMAIN DcePlan(s, os).emit = {}
<1>1. DOMAIN <<>> = {}
  OBVIOUS
<1>2. ASSUME NEW s, NEW os
      PROVE  /\ DcePlan(s, os).drop = (DOMAIN s) \ LiveNodes(s, os, TRUE)
             /\ DOMAIN DcePlan(s, os).emit = {}
  <2> DEFINE gone == (DOMAIN s) \ LiveNodes(s, os, TRUE)
  <2>1. DcePlan(s, os) = [drop |-> gone, emit |-> <<>>]
    BY DEF DcePlan
  <2> HIDE DEF gone
  <2>2. DcePlan(s, os).drop = gone /\ DOMAIN DcePlan(s, os).emit = {}
    BY <1>1, <2>1
  <2> QED BY <2>2 DEF gone
<1> QED BY <1>1, <1>2 DEF NoChange

LEMMA PlainDrop == ASSUME IInv, DInv, work' = work, Drop PROVE DInv'
<1>1. AtNode /\ i \in plan.drop /\ UNCHANGED <<onodes, oval, seen>> /\ Advance(i, NoNode, 1)
  BY DEF Drop, Keep
<1>2. nodes[i].op # "Input"
  <2>1. plan.drop = {} \/ plan.drop = DOMAIN nodes \ LiveNodes(nodes, outs, TRUE)
    BY <1>1, AtNodeFacts, PlanDrops
  <2>2. Inputs(nodes) \subseteq LiveNodes(nodes, outs, TRUE)
    BY LiveIsClosed DEF IInv, Tables
  <2> QED BY <1>1, <2>1, <2>2, AtNodeFacts DEF Inputs
<1>3. Cardinality(Inputs(onodes)) \in Nat
  BY FiniteInputs DEF IInv, Tables
<1>4. \A key \in DOMAIN seen : key = Ordered(onodes[seen[key]])
  BY <1>1 DEF DInv, Rebuilt, AtNode
<1>5. Denoted(onodes', oval') /\ LeavesOk(onodes')
  BY <1>1 DEF DInv, Tapes
<1>6. Cardinality(Inputs(onodes')) = Cardinality(Inputs(onodes)) + IF nodes[i].op = "Input" THEN 1 ELSE 0
  BY <1>1, <1>2, <1>3
<1> QED BY <1>1, <1>4, <1>5, <1>6, PlainAdvance

LEMMA PlainMerge == ASSUME IInv, DInv, work' = work, Merge PROVE DInv'
<1> DEFINE key == CseKey(nodes[i])
           id == seen[key]
<1>1. /\ AtNode /\ Pass = "cse" /\ ~Leaf(nodes[i]) /\ AllMapped(nodes[i]) /\ key \in DOMAIN seen
      /\ UNCHANGED <<onodes, oval, seen>> /\ Advance(i, id, 1)
  BY DEF Merge, Keep
<1>2. i \notin plan.drop
  BY <1>1, AtNodeFacts DEF NoChange
<1>3. id \in DOMAIN onodes /\ key = Ordered(onodes[id])
  BY <1>1 DEF IInv, Maps, DInv, Rebuilt, AtNode
<1>4. oval[id] = val[i]
  <2>1. IsNode(onodes[id]) /\ oval[id] = Denote(onodes[id], oval)
    BY <1>3 DEF IInv, Tables, TableOk, DInv, Tapes, Denoted
  <2>2. Denote(key, oval) = oval[id]
    BY <1>3, <2>1, OrderDoesNotCount
  <2>3. Denote(key, oval) = val[i]
    BY <1>1, CopyDenotes, OrderDoesNotCount DEF CseKey
  <2> QED BY <2>2, <2>3
<1>5. \A k \in DOMAIN seen : k = Ordered(onodes[seen[k]])
  BY <1>1 DEF DInv, Rebuilt, AtNode
<1>6. Denoted(onodes', oval') /\ LeavesOk(onodes')
  BY <1>1 DEF DInv, Tapes
<1>7. Cardinality(Inputs(onodes')) = Cardinality(Inputs(onodes)) + IF nodes[i].op = "Input" THEN 1 ELSE 0
  <2>1. Cardinality(Inputs(onodes)) \in Nat
    BY FiniteInputs DEF IInv, Tables
  <2> QED BY <1>1, <2>1 DEF Leaf
<1> HIDE DEF id, key
<1> QED BY <1>1, <1>2, <1>3, <1>4, <1>5, <1>6, <1>7, PlainAdvance

(* Where the copy of a node is, it has the value of the node.              *)
LEMMA RecordedDenotes ==
  ASSUME IInv, DInv, AtNode, AllMapped(nodes[i]), NEW r \in Recorded, Grow(r.add)
  PROVE  /\ DOMAIN onodes \subseteq DOMAIN onodes' /\ \A x \in DOMAIN onodes : oval'[x] = oval[x]
         /\ \A x \in DOMAIN onodes : onodes'[x] = onodes[x]
         /\ Denoted(onodes', oval') /\ LeavesOk(onodes')
         /\ r.at \in DOMAIN onodes' /\ oval'[r.at] = val[i]
         /\ Cardinality(Inputs(onodes')) = Cardinality(Inputs(onodes)) + IF nodes[i].op = "Input" THEN 1 ELSE 0
         /\ ~Leaf(nodes[i]) => onodes'[r.at] = Mapped(nodes[i])
<1> DEFINE n == nodes[i]
<1>1. /\ i \in DOMAIN nodes /\ i \in Nat /\ IsNode(n) /\ val[i] = Denote(n, val) /\ LeafOk(n)
      /\ n.op = "Input" => n.konst = Cardinality(InputsTo(nodes, i))
      /\ TableOk(onodes) /\ IsSequence(oval) /\ Len(oval) = Len(onodes)
      /\ Denoted(onodes, oval) /\ LeavesOk(onodes)
      /\ DOMAIN onodes = 1 .. Len(onodes) /\ Len(onodes) \in Nat
  BY AtNodeFacts
<1>2. /\ Fits(onodes, r.add)
      /\ Leaf(n) => Len(r.add) = 0 \/ Leaf(r.add[1])
      /\ ~Leaf(n) => r.add = <<Mapped(n)>> /\ r.at = Len(onodes) + 1
  BY RecordedFits DEF Fitting
<1>3. /\ DOMAIN onodes \subseteq DOMAIN onodes' /\ \A x \in DOMAIN onodes : oval'[x] = oval[x]
      /\ \A x \in DOMAIN onodes : onodes'[x] = onodes[x]
  BY <1>2, GrowOk
<1>4. Cardinality(Inputs(onodes)) \in Nat
  BY <1>1, FiniteInputs
(* A node m appended that denotes what n does.                             *)
<1>5. ASSUME NEW m, r.add = <<m>>, r.at = Len(onodes) + 1, IsNode(m), m.op = n.op,
             \A p \in DOMAIN m.args : m.args[p] \in DOMAIN onodes,
             m.op = "Const" => m = Number(m.konst),
             m.op = "Input" => m = InputNode(Cardinality(Inputs(onodes)) + 1),
             Denote(m, oval) = val[i]
      PROVE  /\ Denoted(onodes', oval') /\ LeavesOk(onodes')
             /\ r.at \in DOMAIN onodes' /\ oval'[r.at] = val[i] /\ onodes'[r.at] = m
             /\ Cardinality(Inputs(onodes')) = Cardinality(Inputs(onodes)) + IF n.op = "Input" THEN 1 ELSE 0
  <2>1. onodes' = Append(onodes, m) /\ oval' = Append(oval, Denote(m, oval))
    <3>1. <<m>> # <<>> /\ Len(<<m>>) = 1 /\ <<m>>[1] = m
      OBVIOUS
    <3>2. onodes' = onodes \o <<m>>
      BY <1>5 DEF Grow
    <3>3. onodes' = Append(onodes, m)
      BY <3>2, <1>1, AppendIsConcat DEF IsSequence, TableOk
    <3> QED BY <1>5, <3>1, <3>3 DEF Grow, ExtendedBy, Extended
  <2>2. /\ Denoted(onodes', oval') /\ LeavesOk(onodes') /\ oval'[Len(onodes) + 1] = Denote(m, oval)
        /\ Cardinality(Inputs(onodes')) = Cardinality(Inputs(onodes)) + IF m.op = "Input" THEN 1 ELSE 0
    BY <1>1, <1>5, <2>1, TableWith
  <2>3. DOMAIN onodes' = 1 .. (Len(onodes) + 1) /\ onodes'[Len(onodes) + 1] = m
    BY <1>1, <2>1, Appended DEF TableOk
  <2> QED BY <1>1, <1>5, <2>2, <2>3
<1>6. CASE n.op = "Const"
  <2>1. r \in Constant(onodes, n.konst)
    BY <1>6 DEF Recorded
  <2>2. n = Number(n.konst) /\ IsNode(n) /\ DOMAIN n.args = {}
    BY <1>1, <1>6, NumberIsNode DEF LeafOk
  <2>3. Denote(n, oval) = val[i]
    BY <1>1, <2>2, SameNode
  <2>4. CASE r.add = <<Number(n.konst)>> /\ r.at = Len(onodes) + 1
    <3>1. r.add = <<n>>
      BY <2>2, <2>4
    <3> HIDE DEF n
    <3> QED BY <1>3, <1>5, <1>6, <2>2, <2>3, <2>4, <3>1 DEF Leaf, n
  <2>5. CASE r.add = <<>> /\ r.at \in DOMAIN onodes /\ Is(onodes, r.at, n.konst)
    <3>1. onodes[r.at].op = "Const" /\ onodes[r.at].konst = n.konst
      BY <2>5 DEF Is
    <3>2. onodes[r.at] = n
      BY <1>1, <2>2, <2>5, <3>1 DEF LeavesOk, LeafOk
    <3>3. oval[r.at] = val[i]
      BY <1>1, <2>3, <2>5, <3>2 DEF Denoted
    <3>4. onodes' = onodes /\ oval' = oval
      BY <1>1, <2>5 DEF Grow, ExtendedBy, TableOk, IsSequence
    <3> QED BY <1>1, <1>4, <1>6, <2>5, <3>3, <3>4 DEF Leaf
  <2> QED BY <1>1, <2>1, <2>4, <2>5, ConstantFits
<1>7. CASE n.op = "Input"
  <2> DEFINE m == InputNode(Cardinality(Inputs(onodes)) + 1)
  <2>1. r.add = <<m>> /\ r.at = Len(onodes) + 1
    BY <1>7 DEF Recorded
  <2>2. n = InputNode(n.konst) /\ n.konst = Cardinality(InputsTo(nodes, i))
    BY <1>1, <1>7 DEF LeafOk
  <2>3. Cardinality(InputsTo(nodes, i)) = Cardinality(Inputs(onodes)) + 1
    <3>1. Cardinality(InputsTo(nodes, i)) = Cardinality(InputsTo(nodes, i - 1)) + 1
      BY <1>1, <1>7, InputsStep DEF IInv, Tables
    <3>2. Cardinality(Inputs(onodes)) = Cardinality(InputsTo(nodes, i - 1))
      BY DEF DInv, Rebuilt, AtNode
    <3> QED BY <3>1, <3>2
  <2>4. m = n
    BY <2>2, <2>3
  <2>5. IsNode(n) /\ DOMAIN n.args = {}
    BY <2>2, InputIsNode
  <2>6. Denote(n, oval) = val[i]
    BY <1>1, <2>5, SameNode
  <2>7. n = InputNode(Cardinality(Inputs(onodes)) + 1) /\ r.add = <<n>>
    BY <2>1, <2>4
  <2> HIDE DEF n, m
  <2> QED BY <1>3, <1>5, <1>7, <2>1, <2>5, <2>6, <2>7 DEF Leaf, n
<1>8. CASE n.op \notin {"Const", "Input"}
  <2> DEFINE m == Mapped(n)
  <2>1. r.add = <<m>> /\ r.at = Len(onodes) + 1
    BY <1>2, <1>8 DEF Leaf
  <2>2. IsNode(m) /\ Denote(m, oval) = val[i] /\ m.op = n.op /\ \A p \in DOMAIN m.args : m.args[p] \in DOMAIN onodes
    BY CopyDenotes
  <2> HIDE DEF n, m
  <2> QED BY <1>3, <1>5, <1>8, <2>1, <2>2 DEF n, m
<1> QED BY <1>6, <1>7, <1>8

LEMMA PlainCopy == ASSUME IInv, DInv, work' = work, Copy PROVE DInv'
<1> DEFINE key == CseKey(nodes[i])
           hashes == Pass = "cse" /\ ~Leaf(nodes[i])
<1>1. PICK r \in Recorded :
        /\ AtNode /\ AllMapped(nodes[i]) /\ i \notin plan.drop
        /\ Grow(r.add) /\ seen' = IF hashes THEN Noted(key, r.at) ELSE seen
        /\ Advance(i, r.at, IF Pass = "cse" /\ r.add = <<>> THEN 1 ELSE 0)
  BY DEF Copy
<1>2. /\ DOMAIN onodes \subseteq DOMAIN onodes' /\ \A x \in DOMAIN onodes : oval'[x] = oval[x]
      /\ \A x \in DOMAIN onodes : onodes'[x] = onodes[x]
      /\ Denoted(onodes', oval') /\ LeavesOk(onodes')
      /\ r.at \in DOMAIN onodes' /\ oval'[r.at] = val[i]
      /\ Cardinality(Inputs(onodes')) = Cardinality(Inputs(onodes)) + IF nodes[i].op = "Input" THEN 1 ELSE 0
      /\ ~Leaf(nodes[i]) => onodes'[r.at] = Mapped(nodes[i])
  BY <1>1, RecordedDenotes
<1>3. \A k \in DOMAIN seen : seen[k] \in DOMAIN onodes /\ k = Ordered(onodes[seen[k]])
  BY <1>1 DEF IInv, Maps, DInv, Rebuilt, AtNode
<1>4. hashes => key = Ordered(onodes'[r.at])
  BY <1>2 DEF CseKey
<1> HIDE DEF key, hashes
<1>5. \A k \in DOMAIN seen' : k = Ordered(onodes'[seen'[k]])
  BY <1>1, <1>2, <1>3, <1>4 DEF Noted
<1> QED BY <1>1, <1>2, <1>5, PlainAdvance

(* An operand of a node that is kept is kept, so no pass throws.           *)
LEMMA PlainThrow == ASSUME IInv, DInv PROVE ~Throw
<1> SUFFICES ASSUME Throw PROVE FALSE
  OBVIOUS
<1>1. pc = "rebuild"
  BY DEF Throw
<1>2. /\ plan = IF Pass = "dce" THEN DcePlan(nodes, outs) ELSE NoChange
      /\ \A o \in 1 .. (i - 1) : o \notin plan.drop => remap[o] \in DOMAIN onodes
  BY <1>1 DEF DInv, Rebuilt
<1>3. DOMAIN nodes = 1 .. Len(nodes) /\ Len(nodes) \in Nat /\ NoNode \notin DOMAIN onodes /\ i \in Nat
  BY SequenceShape DEF IInv, Tables, TableOk, NoNode, Control
<1>4. DOMAIN plan.emit = {}
  BY <1>2, PlanDrops
<1>5. CASE i <= Len(nodes) /\ i \notin plan.drop /\ ~AllMapped(nodes[i])
  <2>1. AtNode
    BY <1>1, <1>5 DEF AtNode
  <2>2. i \in DOMAIN nodes /\ \A p \in DOMAIN nodes[i].args : nodes[i].args[p] \in 1 .. (i - 1)
    BY <2>1, AtNodeFacts
  <2>3. ASSUME NEW p \in DOMAIN nodes[i].args PROVE nodes[i].args[p] \notin plan.drop
    <3>1. CASE plan = NoChange
      BY <3>1, PlanDrops
    <3>2. CASE plan = DcePlan(nodes, outs)
      <4>1. i \in LiveNodes(nodes, outs, TRUE)
        <5>1. plan.drop = (DOMAIN nodes) \ LiveNodes(nodes, outs, TRUE)
          BY <3>2, PlanDrops
        <5> QED BY <1>5, <2>2, <5>1
      <4>2. nodes[i].args[p] \in LiveNodes(nodes, outs, TRUE)
        BY <4>1, LiveIsClosed DEF IInv, Tables
      <4>3. plan.drop = (DOMAIN nodes) \ LiveNodes(nodes, outs, TRUE)
        BY <3>2, PlanDrops
      <4> QED BY <4>2, <4>3
    <3> QED BY <1>2, <3>1, <3>2
  <2> QED BY <1>2, <1>5, <2>2, <2>3 DEF AllMapped
<1>6. CASE i > Len(nodes) /\ \E p \in DOMAIN outs : remap[outs[p]] = NoNode
  <2>1. PICK p \in DOMAIN outs : remap[outs[p]] = NoNode
    BY <1>6
  <2>2. outs[p] \in DOMAIN nodes /\ outs[p] \in 1 .. (i - 1)
    BY <1>3, <1>6 DEF IInv, Tables
  <2>3. outs[p] \notin plan.drop
    <3>1. CASE plan = NoChange
      BY <3>1, PlanDrops
    <3>2. CASE plan = DcePlan(nodes, outs)
      <4>1. outs[p] \in LiveNodes(nodes, outs, TRUE)
        BY <2>2, LiveIsClosed DEF IInv, Tables
      <4>2. plan.drop = (DOMAIN nodes) \ LiveNodes(nodes, outs, TRUE)
        BY <3>2, PlanDrops
      <4> QED BY <4>1, <4>2
    <3> QED BY <1>2, <3>1, <3>2
  <2> QED BY <1>2, <1>3, <2>1, <2>2, <2>3
<1> QED BY <1>4, <1>5, <1>6 DEF Throw

LEMMA PlainFinish == ASSUME IInv, DInv, work' = work, Finish PROVE DInv'
<1>1. /\ pc = "rebuild" /\ i > Len(nodes) /\ \A p \in DOMAIN outs : remap[outs[p]] # NoNode
      /\ nodes' = onodes /\ val' = oval /\ outs' = [p \in DOMAIN outs |-> remap[outs[p]]]
      /\ total' = Composed(remap) /\ pc' = "idle" /\ todo' = Tail(todo)
      /\ onodes' = <<>> /\ oval' = <<>> /\ UNCHANGED callVars
  BY DEF Finish
<1>2. DOMAIN <<>> = {}
  OBVIOUS
<1>3. Tapes'
  BY <1>1, <1>2, TapesNext DEF DInv, Tapes, Denoted, LeavesOk
<1>4. /\ DOMAIN nodes = 1 .. Len(nodes) /\ Len(nodes) \in Nat /\ i = Len(nodes) + 1
      /\ DOMAIN remap = DOMAIN nodes
      /\ IsSequence(outs) /\ DOMAIN outs = 1 .. Len(outs) /\ Len(outs) \in Nat
  <2>1. /\ DOMAIN nodes = 1 .. Len(nodes) /\ Len(nodes) \in Nat
        /\ IsSequence(outs) /\ DOMAIN outs = 1 .. Len(outs) /\ Len(outs) \in Nat
    BY SequenceShape DEF IInv, Tables, TableOk
  <2> QED BY <1>1, <2>1 DEF IInv, Control, Maps
<1>5. \A x \in DOMAIN nodes : remap[x] # NoNode => oval[remap[x]] = val[x]
  <2>1. \A x \in 1 .. (i - 1) : remap[x] # NoNode => oval[remap[x]] = val[x]
    BY <1>1 DEF DInv, Rebuilt
  <2>2. i - 1 = Len(nodes)
    BY <1>4
  <2> QED BY <1>4, <2>1, <2>2
<1>6. \A o \in DOMAIN total : total[o] # NoNode => total[o] \in DOMAIN nodes
  BY <1>4 DEF IInv, Maps, NoNode
<1>7. DOMAIN total' = DOMAIN total
      /\ \A o \in DOMAIN total : total'[o] = IF total[o] = NoNode THEN NoNode ELSE remap[total[o]]
  BY <1>1 DEF Composed
<1>8. ASSUME NEW o \in DOMAIN total', total'[o] # NoNode PROVE orig.val[o] = oval[total'[o]]
  BY <1>5, <1>6, <1>7, <1>8 DEF DInv, Composes
<1>9. ASSUME job # "none"
      PROVE  /\ Len(outs') = Len(orig.outs)
             /\ \A p \in DOMAIN outs' : orig.outs[p] \in DOMAIN total' /\ total'[orig.outs[p]] = outs'[p]
             /\ Cardinality(Inputs(onodes)) = orig.inputs
  <2>1. Len(outs') = Len(outs)
    <3>1. outs' \in [1 .. Len(outs) -> {outs'[x] : x \in DOMAIN outs'}]
      BY <1>1, <1>4
    <3> QED BY <3>1, <1>4
  <2>2. ASSUME NEW p \in DOMAIN outs' PROVE orig.outs[p] \in DOMAIN total' /\ total'[orig.outs[p]] = outs'[p]
    <3>1. p \in DOMAIN outs /\ outs'[p] = remap[outs[p]] /\ outs[p] \in DOMAIN nodes
      BY <1>1 DEF IInv, Tables
    <3>2. orig.outs[p] \in DOMAIN total /\ total[orig.outs[p]] = outs[p]
      BY <1>9, <3>1 DEF DInv, Composes
    <3>3. outs[p] # NoNode
      BY <1>4, <3>1 DEF NoNode
    <3> QED BY <1>7, <3>1, <3>2, <3>3
  <2>3. Cardinality(Inputs(onodes)) = Cardinality(Inputs(nodes))
    <3>1. Cardinality(Inputs(onodes)) = Cardinality(InputsTo(nodes, i - 1))
      BY <1>1 DEF DInv, Rebuilt
    <3>2. InputsTo(nodes, i - 1) = Inputs(nodes)
      BY <1>4 DEF InputsTo, Inputs
    <3> QED BY <3>1, <3>2
  <2> QED BY <1>9, <2>1, <2>2, <2>3 DEF DInv, Composes
<1>10. Composes'
  BY <1>1, <1>8, <1>9 DEF Composes, callVars
<1>11. Jobs'
  <2>1. calls # 0
    BY <1>1 DEF IInv, Control
  <2>2. Tail(todo) = <<>>
    <3>1. todo \in {<<"cse">>, <<"dce">>}
      BY <1>1 DEF DInv, Jobs
    <3>2. PICK x : todo = <<x>>
      BY <3>1
    <3>3. IsSequence(todo) /\ Len(todo) = 1
      BY <3>2, OneElement
    <3>4. \E S : Tail(todo) \in Seq(S) /\ Len(Tail(todo)) = 0
      BY <1>1, <3>3, HeadTailProperties DEF DInv, Jobs, IsSequence
    <3> QED BY <3>4, EmptySeq
  <2> QED BY <1>1, <2>1, <2>2 DEF DInv, Jobs, Plain, callVars
<1> QED BY <1>1, <1>3, <1>10, <1>11 DEF DInv, Rebuilt

LEMMA PlainNext == IInv /\ DInv /\ [Next]_vars => DInv'
<1> SUFFICES ASSUME IInv, DInv, [Next]_vars PROVE DInv'
  OBVIOUS
<1>1. CASE UNCHANGED vars
  BY <1>1, TapesNext
  DEF vars, DInv, Tapes, Jobs, Plain, Rebuilt, Composes, Pass, tapeVars, callVars, passVars
<1>2. CASE Next
  <2>1. work' = work /\ (RecordStep \/ CallStep \/ PassStep)
    BY <1>2 DEF Next
  <2>2. ~Emit
    <3> SUFFICES ASSUME Emit PROVE FALSE
      OBVIOUS
    <3>1. AtNode /\ i \in DOMAIN plan.emit
      BY DEF Emit
    <3> QED BY <3>1, AtNodeFacts, PlanDrops
  <2>3. ~Reduce
    <3> SUFFICES ASSUME Reduce PROVE FALSE
      OBVIOUS
    <3>1. AtNode /\ Pass = "simplify"
      BY DEF Reduce, Match
    <3> QED BY <3>1, AtNodeFacts
  <2>4. PassStep => DInv'
    BY <2>1, <2>2, <2>3, PlainStart, PlainDrop, PlainMerge, PlainCopy, PlainThrow, PlainFinish
    DEF PassStep
  <2> QED BY <2>1, <2>4, PlainRecordStep, PlainCall
<1> QED BY <1>1, <1>2

(* Where only cse and dce are called, on whatever tape, the map of a call  *)
(* takes every node to one that has its value bit for bit, whatever the    *)
(* operations compute, or to none, the outputs and the inputs to           *)
(* themselves, and no pass drops what is still read (passes.hpp:7-15).     *)
THEOREM CseAndDceKeepValues == Spec /\ Plain => []TotalDenotes
<1>1. Spec /\ Plain => []DInv
  BY Invariance, PlainInit, PlainNext, PTL DEF Spec
<1>2. IInv /\ DInv => TotalDenotes
  <2> SUFFICES ASSUME IInv, DInv PROVE TotalDenotes
    OBVIOUS
  <2>1. NothingDropped
    BY DEF DInv, Jobs, NothingDropped
  <2>2. \A o \in DOMAIN total : total[o] # NoNode => Agrees(orig.val[o], val[total[o]])
    BY DEF DInv, Composes, Agrees
  <2>3. InterfaceKept
    <3> SUFFICES ASSUME job # "none" PROVE InterfaceKept
      BY DEF InterfaceKept
    <3>1. ASSUME NEW p \in DOMAIN outs
          PROVE  Agrees(orig.val[orig.outs[p]], val[outs[p]]) /\ total[orig.outs[p]] = outs[p]
      <4>1. orig.outs[p] \in DOMAIN total /\ total[orig.outs[p]] = outs[p]
        BY DEF DInv, Composes
      <4>2. outs[p] # NoNode
        BY SequenceShape DEF IInv, Tables, TableOk, NoNode
      <4> QED BY <2>2, <4>1, <4>2
    <3>2. \A j \in Inputs(nodes) : nodes[j].konst = Cardinality({m \in Inputs(nodes) : m <= j})
      BY DEF DInv, Tapes, LeavesOk, Inputs, InputsTo
    <3> QED BY <3>1, <3>2 DEF InterfaceKept, DInv, Composes
  <2> QED BY <2>1, <2>2, <2>3 DEF TotalDenotes
<1> QED BY <1>1, <1>2, Invariance, PTL
=============================================================================
