----------------------------- MODULE MCTapePass -----------------------------
(***************************************************************************)
(* The values TapePass compares in its model-checking runs.                *)
(*                                                                         *)
(* E0 is the arithmetic of doubles up to what IEEE 754 says is exact: a    *)
(* value is a term, and two terms are the same when the identities         *)
(* x+y = y+x, xy = yx, -0.0+x = x, 1x = x, (-x)y = -(xy), x-y = x+(-y)     *)
(* make them so (NaN apart).  Sums keep their order of addition.           *)
(*                                                                         *)
(* Real is exact arithmetic, where a value is the function it computes of  *)
(* the inputs, over the integers modulo a prime, and undefined where it    *)
(* divides by zero.                                                        *)
(***************************************************************************)
EXTENDS TapePass

CONSTANT Prime

Lit(c) == <<"Lit", c>>
Opposite(x) ==
  CASE x[1] = "Lit" -> Lit(Negated(x[2]))
    [] x[1] = "Neg" -> x[2]
    [] OTHER -> <<"Neg", x>>
Plus(x, y) ==
  IF x = Lit(MinusZero) THEN y ELSE IF y = Lit(MinusZero) THEN x ELSE <<"Add", {x, y}>>

Negative(x) == x[1] = "Neg" \/ (x[1] = "Lit" /\ (x[2] < 0 \/ x[2] = MinusZero))
Magnitude(x) == IF Negative(x) THEN Opposite(x) ELSE x
Times(x, y) ==
  LET a == Magnitude(x)
      b == Magnitude(y)
      product == IF a = Lit(1) THEN b ELSE IF b = Lit(1) THEN a ELSE <<"Mul", {a, b}>>
  IN IF Negative(x) = Negative(y) THEN product ELSE Opposite(product)

Both(Op(_, _), xs) ==
  LET x == CHOOSE x \in xs : TRUE
  IN IF xs = {x} THEN Op(x, x) ELSE Op(x, CHOOSE y \in xs : y # x)

FromLeft(start, xs) ==
  LET acc[n \in 0..Len(xs)] == IF n = 0 THEN start ELSE Plus(acc[n - 1], xs[n])
  IN acc[Len(xs)]

E0Meaning(op, konst, coefs, xs) ==
  CASE op = "Input" -> <<"Input", konst>>
    [] op = "Const" -> Lit(konst)
    [] op = "Add" -> Both(Plus, xs)
    [] op = "Mul" -> Both(Times, xs)
    [] op = "Sub" -> Plus(xs[1], Opposite(xs[2]))
    [] op = "Neg" -> Opposite(xs[1])
    [] op = "Sum" -> FromLeft(xs[1], Tail(xs))
    [] op = "Affine" -> FromLeft(Lit(konst), [p \in DOMAIN xs |-> Times(Lit(coefs[p]), xs[p])])
    [] OTHER -> <<op, xs>>

------------------------------------------------------------------------------
Points == [1..2 -> 0..(Prime - 1)]
Undefined == -1
Residue(c) == IF c = MinusZero THEN 0 ELSE c % Prime

Pointwise(Op(_, _), v, w) ==
  [pt \in Points |-> IF v[pt] = Undefined \/ w[pt] = Undefined THEN Undefined
                     ELSE Op(v[pt], w[pt])]

RAdd(x, y) == (x + y) % Prime
RSub(x, y) == (x - y) % Prime
RMul(x, y) == (x * y) % Prime
RDiv(x, y) ==
  IF y = 0 THEN Undefined ELSE CHOOSE q \in 0..(Prime - 1) : (q * y) % Prime = x

SumOf(start, xs) ==
  LET acc[n \in 0..Len(xs)] == IF n = 0 THEN start ELSE Pointwise(RAdd, acc[n - 1], xs[n])
  IN acc[Len(xs)]
Flat(c) == [pt \in Points |-> Residue(c)]

RealMeaning(op, konst, coefs, xs) ==
  LET Of(Op(_, _), S) == LET x == CHOOSE x \in S : TRUE
                         IN Pointwise(Op, x, IF S = {x} THEN x ELSE CHOOSE y \in S : y # x)
  IN CASE op = "Input" -> [pt \in Points |-> pt[konst]]
       [] op = "Const" -> Flat(konst)
       [] op = "Add" -> Of(RAdd, xs)
       [] op = "Mul" -> Of(RMul, xs)
       [] op = "Sub" -> Pointwise(RSub, xs[1], xs[2])
       [] op = "Div" -> Pointwise(RDiv, xs[1], xs[2])
       [] op = "Neg" -> Pointwise(RSub, Flat(0), xs[1])
       [] op = "Sum" -> SumOf(xs[1], Tail(xs))
       [] op = "Affine" ->
            SumOf(Flat(konst), [p \in DOMAIN xs |-> Pointwise(RMul, Flat(coefs[p]), xs[p])])
WhereDefined(v, w) == \A pt \in Points : v[pt] = Undefined \/ v[pt] = w[pt]

TheMeaning(numbers, op, konst, coefs, xs) ==
  IF numbers = "doubles" THEN E0Meaning(op, konst, coefs, xs)
  ELSE RealMeaning(op, konst, coefs, xs)
MayReplace(numbers, v, w) == numbers = "reals" /\ WhereDefined(v, w)

------------------------------------------------------------------------------
(* The operations recorded, on table s.                                    *)
Pairs(s) == {<<a, b>> : a, b \in DOMAIN s}
All(ops, s) == {Operation(op, args) : op \in ops, args \in Pairs(s)}
Unary(ops, s) == {Operation(op, <<a>>) : op \in ops, a \in DOMAIN s}

(* Inputs are alike: the first operation reads input 1 on its left.        *)
FirstOnInput1(s, ns) == {n \in ns : (\A j \in DOMAIN s : Leaf(s[j])) => n.args[1] = 1}

(* "chains": additions, products with a constant, and Exp of an input,     *)
(* which collapse wholly, in part, or not at all.                          *)
Recordable(operations, s) ==
  CASE operations = "sums" -> All({"Add"}, s) \cup Unary({"Exp"}, s)
    [] operations = "mixed" -> All({"Add", "Sub", "Mul"}, s) \cup Unary({"Neg", "Exp"}, s)
    [] operations = "chains" ->
         {n \in All({"Add", "Mul"}, s) \cup Unary({"Exp"}, s) :
            /\ n.op = "Mul" => {s[a].op = "Const" : a \in ArgSet(n)} = BOOLEAN
            /\ n.op = "Exp" => s[n.args[1]].op = "Input"}
    [] operations = "field" ->
         {n \in FirstOnInput1(s, All({"Add", "Sub", "Mul", "Div"}, s)) :
            n.op \in {"Add", "Mul"} => n.args[1] # n.args[2]}
    [] operations = "ratios" -> FirstOnInput1(s, All({"Mul", "Div"}, s))

Registered(outputs, s, os) ==
  CASE outputs = "last" -> {Len(s)} \cap DOMAIN s
    [] outputs = "any" -> DOMAIN s

------------------------------------------------------------------------------
(* What is recorded and called.                                            *)
Work(jobs, times, inputs, konsts, operations, outputs, size, unread, numbers) ==
  [jobs |-> jobs, calls |-> times, inputs |-> inputs, konsts |-> konsts,
   operations |-> operations, outputs |-> outputs, ops |-> size, outs |-> 1,
   unread |-> unread, numbers |-> numbers]

OnePass  == Work({"cse", "dce", "fold_sum"}, 2, 1, {2}, "sums", "any", 3, 2, "doubles")
TwoInputs == Work({"cse", "dce"}, 1, 2, {2}, "sums", "any", 3, 2, "doubles")
Standardised == Work({"standard_passes"}, 1, 1, {2}, "mixed", "last", 3, 1, "doubles")
Collapsed == Work({"affine_collapse"}, 1, 1, {2}, "chains", "last", 4, 2, "doubles")
CollapsedAnyOut == [Collapsed EXCEPT !.outputs = "any", !.ops = 3]
Compiled == Work({"compile"}, 1, 2, {}, "field", "last", 3, 2, "reals")
Simplified == Work({"simplify"}, 1, 2, {}, "ratios", "last", 3, 2, "reals")

EveryWork == {OnePass, TwoInputs, Standardised, Collapsed, CollapsedAnyOut, Compiled, Simplified}
Ratios == {Simplified}
=============================================================================
