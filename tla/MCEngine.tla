----------------------------- MODULE MCEngine -----------------------------
(* Small tapes: families of recordings, each for the shapes of program it  *)
(* leads to, and the interpreters each is run by.                          *)
EXTENDS Engine

(* The meaning of an operation is a term.  Terms are the same where the    *)
(* rules say the numbers are: x * 1 is x, a / b is a * (1 / b), and a      *)
(* product and a sum fused is the sum of the product; a Sum adds its       *)
(* members from the left.                                                  *)
One == <<"Const", 1>>
RECURSIVE TermOf(_, _, _, _)
TermOf(op, konst, coefs, xs) ==
  CASE op \in {"Input", "Const"} -> <<op, konst>>
    [] op = "Mul" /\ One \in Range(xs) -> IF xs[1] = One THEN xs[2] ELSE xs[1]
    [] op = "Div" -> <<"Mul", {xs[1], <<"Recip", xs[2]>>}>>
    [] op = "Fma" -> <<"Add", {TermOf("Mul", 0, <<>>, <<xs[1], xs[2]>>), xs[3]}>>
    [] op = "Sum" -> FoldLeft(LAMBDA sum, x : <<"Add", {sum, x}>>, xs[1], Tail(xs))
    [] op \in Commutative -> <<op, {xs[1], xs[2]}>>
    [] op = "Recip" -> <<"Recip", xs[1]>>
    [] op = "Affine" -> <<op, konst, coefs, xs>>
    [] OTHER -> <<op, xs>>

Pairs(s) == (DOMAIN s) \X (DOMAIN s)
Unary(ops, s) == {Operation(op, <<a>>) : op \in ops, a \in DOMAIN s}
Binary(ops, s) == {Operation(op, args) : op \in ops, args \in Pairs(s)}
Affine1(s) == {[Operation("Affine", <<a>>) EXCEPT !.coefs = <<2>>] : a \in DOMAIN s}
Sums(s) == Binary({"Sum"}, s)
Newest(s, ns) == {n \in ns : (\E j \in DOMAIN s : ~Leaf(s[j])) => Len(s) \in ArgSet(n)}
Ins(s) == {i \in DOMAIN s : s[i].op = "Input"}

Recordable(operations, s) ==
  CASE operations = "exps" -> Unary({"Exp"}, s)
    [] operations = "ladder" -> Newest(s, Affine1(s) \cup Binary({"Mul"}, s))
    [] operations = "path" -> Newest(s, Binary({"Add", "Mul"}, s))
    [] operations = "exp" -> Newest(s, Unary({"Exp"}, s) \cup Binary({"Sub"}, s))
    [] operations = "any" -> Binary({"Sub", "Mul"}, s) \cup Unary({"Exp"}, s)
    [] operations = "braid" ->
         {Operation(IF Len(s) % 2 = 0 THEN "Mul" ELSE "Sub", <<a, Len(s)>>) : a \in {1, Len(s) - 2, Len(s) - 1} \cap DOMAIN s}
    [] operations = "linmaps" -> {[Operation("Affine", <<a>>) EXCEPT !.coefs = <<2>>, !.konst = c] : a \in Ins(s), c \in {1, 2}}
    [] operations = "divs" -> {Operation("Div", <<a, b>>) : a \in Ins(s), b \in Ins(s)}
    [] operations = "sums" -> {Operation("Sum", <<a>>) : a \in DOMAIN s} \cup {Operation("Exp", <<a>>) : a \in DOMAIN s}
    [] operations = "squares" ->
         LET n == Cardinality({j \in DOMAIN s : ~Leaf(s[j])})
         IN IF n < 2 THEN {Operation("Exp", <<a>>) : a \in Ins(s)}
            ELSE IF n < 4 THEN {Operation("Mul", <<a, a>>) : a \in {Len(s), Len(s) - 1}}
            ELSE {Operation("Sum", <<Len(s) - 1, Len(s)>>)}
    [] operations = "calls" ->
         LET n == Cardinality({j \in DOMAIN s : ~Leaf(s[j])})
             Arith(a, b) == {Operation(op, <<a, b>>) : op \in {"Mul", "Sub"}}
         IN CASE n % 4 = 0 -> UNION {Arith(a, b) : a \in Ins(s), b \in Ins(s)}
              [] n % 4 = 1 -> UNION {Arith(Len(s), a) \cup Arith(a, Len(s)) : a \in Ins(s)} \cup {Operation("Neg", <<Len(s)>>)}
              [] OTHER -> {Operation("Exp", <<Len(s)>>)}
    [] operations = "weave" ->
         LET n == Cardinality({j \in DOMAIN s : ~Leaf(s[j])})
         IN {Operation("Sub", <<a, b>>) : a \in IF n \in {0, 3} THEN {1} ELSE {Len(s)},
                                          b \in IF n < 3 THEN {2} ELSE {2, 3, 4, 5}}
    [] operations = "folds" ->
         LET n == Cardinality({j \in DOMAIN s : ~Leaf(s[j])})
         IN IF n < 2 THEN UNION {{Operation("Exp", <<a>>), Operation("Fma", <<a, 1, 2>>)} : a \in Ins(s)}
            ELSE {Operation("Sum", <<a, b>>) : a, b \in {3, 4}}
    [] operations = "calculus" ->
         Newest(s, Unary({"Exp", "Log", "Sqrt", "Recip", "Neg"}, s) \cup Binary({"Add", "Sub", "Mul", "Div"}, s)
                   \cup {Operation("Fma", <<a, Len(s), b>>) : a, b \in DOMAIN s})
    [] operations = "maps" ->
         Newest(s, {[Operation("Affine", <<a, b>>) EXCEPT !.coefs = <<2, 3>>, !.konst = 1] : a, b \in DOMAIN s} \cup Unary({"Exp"}, s))
    [] operations = "branches" ->
         LET n == Cardinality({j \in DOMAIN s : ~Leaf(s[j])})
         IN CASE n = 0 -> Binary({"CmpLt", "CmpEq"}, s)
              [] n = 1 -> {Operation("Mul", <<a, b>>) : a, b \in Ins(s)}
              [] OTHER -> {Operation("Select", <<Len(s) - 1, a, b>>) : a, b \in DOMAIN s \ {Len(s) - 1}}
    [] operations = "reductions" ->
         LET n == Cardinality({j \in DOMAIN s : ~Leaf(s[j])})
         IN CASE n % 3 = 0 /\ n < 6 -> {[Operation("Affine", <<a>>) EXCEPT !.coefs = <<2>>] : a \in {n \div 3 + 1}}
              [] n % 3 = 1 -> {Operation("Sum", <<2 - n \div 3, n \div 3 + 1>>)}
              [] n % 3 = 2 -> {Operation("Mul", <<Len(s) - 1, Len(s)>>)}
              [] OTHER -> {Operation("Sum", <<5, 8>>)}
    [] operations = "compound" ->
         LET n == Cardinality({j \in DOMAIN s : ~Leaf(s[j])})
         IN IF n % 2 = 1 THEN {Operation("Mul", <<Len(s), a>>) : a \in Ins(s)}
            ELSE {Operation("Sum", <<Len(s), a>>) : a \in Ins(s)}


Family(operations, inputs, konsts, ops, outputs, rewrites) ==
  [inputs |-> inputs, konsts |-> konsts, operations |-> operations, ops |-> ops, outs |-> outputs, rewrites |-> rewrites]

EveryRecording ==
  {Family("braid", 2, {}, 6, "last", 0),     \* scans that read each other
   Family("exps", 1, {}, 5, "any", 0),       \* chains and branches
   Family("exps", 1, {}, 6, "last", 0),      \* these are inferred and no more
   Family("weave", 2, {}, 6, "last", 0),     \* a scan with waves
   Family("folds", 2, {}, 4, "last", 0),     \* reductions of two
   Family("path", 2, {}, 3, "last", 0),       \* chains with shared operands
   Family("exp", 1, {3}, 3, "any", 0),       \* chains that begin at a constant
   Family("any", 1, {2, 3}, 2, "last", 0),   \* columns and literals
   Family("linmaps", 3, {}, 4, "last", 2),
   Family("sums", 2, {}, 3, "around", 1),
   Family("divs", 3, {}, 2, "last", 1),
   Family("exps", 2, {}, 4, "last", 1),
   Family("squares", 2, {}, 5, "last", 0),
   Family("compound", 1, {}, 6, "last", 1),
   Family("calculus", 2, {}, 2, "last", 0),   \* every operation a derivative is taken of
   Family("branches", 2, {}, 3, "last", 0),
   Family("maps", 2, {}, 3, "any", 0),
   Family("calls", 2, {}, 4, "last", 1)}

AllOn == {"reduction_fusion", "fused_pairs", "chain_tails", "inline_producers", "emit_outputs"}
Setting(lanes, batch, split, on) == [lanes |-> lanes, batch |-> batch, split |-> split, on |-> on]

InferredOnly(r) == r.operations = "exps" /\ r.ops = 6
SettingsOf(r) ==
  CASE InferredOnly(r) -> {}
    [] r.operations = "any" -> {Setting(5, 7, split, AllOn) : split \in BOOLEAN}
    [] r.operations = "sums" -> {Setting(lanes, 2, FALSE, AllOn) : lanes \in {1, 2}}
    [] r.operations \in {"calls", "linmaps"} -> {Setting(1, 1, FALSE, on) : on \in {AllOn, {"catalogue"}}}
    [] r.operations = "exps" -> {Setting(1, 1, FALSE, AllOn \cup {"catalogue"})}
    [] r.operations = "squares" -> {Setting(1, 1, FALSE, on) : on \in {AllOn, {"r6"}}}
    [] r.operations \in {"calculus", "branches", "maps"} -> {}
    [] OTHER -> {Setting(1, 1, FALSE, AllOn)}

(* Every option of the adjoint, for the small families.                    *)
AdjointsOf(r) ==
  CASE InferredOnly(r) -> {}
    [] r.operations \in {"calculus", "branches", "maps"} -> {{"materialise_steps"}}
    [] r.operations \in {"sums", "any"} -> {{}}
    [] r.operations \in {"exps", "weave", "braid", "compound"} ->
         {{}, {"materialise_steps", "catalogue", "seed_pull"}}
    [] r.operations \in {"squares", "divs"} -> {{}, {"materialise_steps"}}
    [] OTHER -> {}

(* Each mode is the cheapest for some prices.                              *)
SomeRates ==
  {[pass |-> 1, adjoint |-> 8, entry |-> 20], [pass |-> 5, adjoint |-> 1, entry |-> 20], [pass |-> 5, adjoint |-> 8, entry |-> 1]}

(* A chain of two steps that are the last of three; a program R6 finishes  *)
(* the plan of; and an Affine and a Sum that R5 puts in one group.         *)
LadderRecording == {Family("ladder", 1, {}, 5, "last", 0)}
NoSettings(r) == {}
NoAdjoints(r) == {}
PlannedRecording == {Family("squares", 2, {}, 5, "last", 0)}
ReductionRecording == {Family("reductions", 2, {}, 7, "last", 2)}
ReductionSettings(r) == {Setting(1, 1, FALSE, AllOn)}
PlannedSettings(r) == {Setting(1, 1, FALSE, AllOn \cup {"r6"})}
=============================================================================
