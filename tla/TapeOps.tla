------------------------------ MODULE TapeOps ------------------------------
(***************************************************************************)
(* The analyses the tape passes make before they rebuild a tape            *)
(* (tape/passes.cpp): use counts, liveness, the chains fold_sum and        *)
(* affine_collapse recognise, and the peepholes of simplify.               *)
(*                                                                         *)
(* A tape here is a sequence s of nodes and a sequence outs of output ids. *)
(* A node has its operands in args, earlier ids; konst is the number of a  *)
(* Const, the leading number of an Affine, the ordinal of an Input, and    *)
(* coefs the coefficients of an Affine.                                    *)
(***************************************************************************)
EXTENDS Integers, Sequences, FiniteSets

Leaf(n) == n.op \in {"Input", "Const"}
Commutative == {"Add", "Mul", "CmpEq"}
Variadic == {"Sum", "Affine"}

(* How many operands an operation that is not variadic reads.              *)
Arity == [Neg |-> 1, Exp |-> 1, Log |-> 1, Sqrt |-> 1, Recip |-> 1,
          Add |-> 2, Sub |-> 2, Mul |-> 2, Div |-> 2,
          CmpLt |-> 2, CmpLe |-> 2, CmpGt |-> 2, CmpGe |-> 2, CmpEq |-> 2,
          Fma |-> 3, Select |-> 3]

ArgSet(n) == {n.args[p] : p \in DOMAIN n.args}
NoNode == 0

Number(c) == [op |-> "Const", args |-> <<>>, konst |-> c, coefs |-> <<>>]
Operation(op, args) == [op |-> op, args |-> args, konst |-> 0, coefs |-> <<>>]

(***************************************************************************)
(* Numbers.  A constant is an integer, or MinusZero: the passes negate     *)
(* coefficients, and -0.0 is not 0.0.                                      *)
(***************************************************************************)
MinusZero == 1000
Negated(c) == IF c = 0 THEN MinusZero ELSE IF c = MinusZero THEN 0 ELSE -c

(* compute_uses: where node i is read; reader NoNode is the output list.   *)
Reads(s, outs, i) ==
  UNION {{<<j, p>> : p \in {q \in DOMAIN s[j].args : s[j].args[q] = i}} : j \in DOMAIN s}
    \cup {<<NoNode, p>> : p \in {q \in DOMAIN outs : outs[q] = i}}

(* Uses::count[i] = 1.                                                     *)
UsedOnce(s, outs, i) == Cardinality(Reads(s, outs, i)) = 1

(* Node x is read once, by the left operand of the chain node u.           *)
LeftOnly_AnyUse(s, outs, chain, x, u) ==
  s[x].op \in chain /\ s[u].op \in chain /\ s[u].args[1] = x

LeftOnly(s, outs, chain, x, u) ==
  /\ s[x].op \in chain /\ s[u].op \in chain
  /\ s[u].args[1] = x /\ UsedOnce(s, outs, x)

(* Node::tainted.                                                          *)
Taints(s) ==
  LET taint[i \in DOMAIN s] == s[i].op = "Input" \/ \E a \in ArgSet(s[i]) : taint[a]
  IN taint

(* The backward sweep of dce, and of slice when keepInputs is FALSE.       *)

LiveNodes(s, outs, keepInputs) ==
  LET live[i \in DOMAIN s] ==
        \/ \E p \in DOMAIN outs : outs[p] = i
        \/ keepInputs /\ s[i].op = "Input"
        \/ \E j \in (i + 1)..Len(s) : i \in ArgSet(s[j]) /\ live[j]
  IN {i \in DOMAIN s : live[i]}

(***************************************************************************)
(* What a pass does to the nodes: it drops some, emits a variadic node in  *)
(* the place of others (operands by old id), and copies the rest.          *)
(***************************************************************************)
NoChange == [drop |-> {}, emit |-> <<>>]

DcePlan_DropsInputs(s, outs) ==
  [drop |-> DOMAIN s \ LiveNodes(s, outs, FALSE), emit |-> <<>>]

DcePlan(s, outs) ==
  [drop |-> DOMAIN s \ LiveNodes(s, outs, TRUE), emit |-> <<>>]

------------------------------------------------------------------------------
(***************************************************************************)
(* fold_sum.  A chain is a left spine of Adds and Sums whose inner nodes   *)
(* are used once, as a left operand; its addends in fold order become the  *)
(* operands of one Sum.                                                    *)
(***************************************************************************)
FoldChain == {"Add", "Sum"}

FoldInner(s, outs, x) == \E u \in DOMAIN s : LeftOnly(s, outs, FoldChain, x, u)

FoldTerms_HeadFirst(s, outs) ==
  LET terms[x \in DOMAIN s] ==
        IF s[x].op \notin FoldChain THEN <<>>
        ELSE IF FoldInner(s, outs, s[x].args[1])
             THEN Tail(s[x].args) \o terms[s[x].args[1]]
             ELSE s[x].args
  IN terms

FoldTerms(s, outs) ==
  LET terms[x \in DOMAIN s] ==
        IF s[x].op \notin FoldChain THEN <<>>
        ELSE IF FoldInner(s, outs, s[x].args[1])
             THEN terms[s[x].args[1]] \o Tail(s[x].args)
             ELSE s[x].args
  IN terms

Spine(s, outs, ops, x) ==
  LET down[y \in DOMAIN s] ==
        {y} \cup IF Leaf(s[y]) \/ ~LeftOnly(s, outs, ops, s[y].args[1], y) THEN {}
                 ELSE down[s[y].args[1]]
  IN down[x]

FoldPlan(s, outs, minTerms) ==
  LET terms == FoldTerms(s, outs)
      heads == {o \in DOMAIN s : /\ s[o].op \in FoldChain /\ ~FoldInner(s, outs, o)
                                 /\ s[o].op = "Sum" => LeftOnly(s, outs, FoldChain, s[o].args[1], o)
                                 /\ Len(terms[o]) >= minTerms}
  IN [drop |-> UNION {Spine(s, outs, FoldChain, o) \ {o} : o \in heads},
      emit |-> [o \in heads |-> Operation("Sum", terms[o])]]

------------------------------------------------------------------------------
(***************************************************************************)
(* affine_collapse.  The scan goes once over the nodes in order; st holds  *)
(* the nodes already emitted as an Affine, the nodes absorbed into one,    *)
(* and the Affine nodes to emit.                                           *)
(***************************************************************************)
AffineChain == {"Add", "Sub", "Sum"}

AtomOk(s, taint, st, m) ==
  s[m].op \in {"Input", "Affine"} \/ m \in DOMAIN st.emit \/ ~taint[m]

(* A product of a Const and an atom, in either order.                      *)
ScaledAt(s, taint, st, m, p) ==
  /\ s[m].op = "Mul" /\ s[s[m].args[p]].op = "Const" /\ s[s[m].args[3 - p]].op # "Const"
  /\ AtomOk(s, taint, st, s[m].args[3 - p])

(* make_term: the set of ways an addend can be taken as (coef, atom); the  *)
(* first that applies is the one the code takes.                           *)
Term(s, taint, st, ad) ==
  LET n == s[ad.node]
      Signed(c) == IF ad.sign = 1 THEN c ELSE Negated(c)
      open == ad.node \notin st.drop
  IN IF open /\ ScaledAt(s, taint, st, ad.node, 1)
       THEN {[coef |-> Signed(s[n.args[1]].konst), atom |-> n.args[2], absorbs |-> TRUE]}
     ELSE IF open /\ ScaledAt(s, taint, st, ad.node, 2)
       THEN {[coef |-> Signed(s[n.args[2]].konst), atom |-> n.args[1], absorbs |-> TRUE]}
     ELSE IF open /\ n.op = "Neg" /\ AtomOk(s, taint, st, n.args[1])
       THEN {[coef |-> -ad.sign, atom |-> n.args[1], absorbs |-> TRUE]}
     ELSE IF AtomOk(s, taint, st, ad.node)
       THEN {[coef |-> ad.sign, atom |-> ad.node, absorbs |-> FALSE]}
     ELSE {}

(* The addends of the left spine ending in x, bottom first; `at' is the    *)
(* spine node an addend belongs to.                                        *)
Addends(s, outs) ==
  LET Own(x, ps) == [q \in 1..Cardinality(ps) |->
                       LET p == q + Len(s[x].args) - Cardinality(ps)
                       IN [sign |-> IF s[x].op = "Sub" /\ p = 2 THEN -1 ELSE 1,
                           node |-> s[x].args[p], at |-> x]]
      adds[x \in DOMAIN s] ==
        IF s[x].op \notin AffineChain THEN <<>>
        ELSE IF LeftOnly(s, outs, AffineChain, s[x].args[1], x)
             THEN adds[s[x].args[1]] \o Own(x, DOMAIN s[x].args \ {1})
             ELSE Own(x, DOMAIN s[x].args)
  IN adds

(* The Affine n in the place of node x, and of the nodes that go.          *)
WithAffine(st, gone, x, n) ==
  [drop |-> st.drop \cup gone,
   emit |-> [y \in DOMAIN st.emit \cup {x} |-> IF y = x THEN n ELSE st.emit[y]]]

(* What the scan does with the chain that ends in head.                    *)
CollapseChain(s, outs, taint, st, head) ==
  LET spine == Spine(s, outs, AffineChain, head)
      ads == Addends(s, outs)[head]
      leading == s[ads[1].node].op = "Const"
      Taken(q) == (q = 1 /\ leading) \/ Term(s, taint, st, ads[q]) # {}
      prefix == {q \in DOMAIN ads : \A r \in 1..q : Taken(r)}
      whole == {x \in spine : \A q \in DOMAIN ads : ads[q].at = x => q \in prefix}
      top == CHOOSE x \in whole : \A y \in whole : y <= x
      kept == {q \in DOMAIN ads : ads[q].at <= top}
      first == IF leading THEN 2 ELSE 1
      terms == [q \in 1..(Cardinality(kept) - first + 1) |->
                  CHOOSE tm \in Term(s, taint, st, ads[q + first - 1]) : TRUE]
      absorbed == {ads[q].node : q \in {r \in kept : /\ ~(r = 1 /\ leading)
                                                     /\ UsedOnce(s, outs, ads[r].node)
                                                     /\ terms[r - first + 1].absorbs}}
  IN IF Cardinality(prefix) < 2 \/ whole = {} \/ ~(\E q \in DOMAIN terms : taint[terms[q].atom])
     THEN st
     ELSE WithAffine(st, {x \in spine : x < top} \cup absorbed, top,
                    [op |-> "Affine", args |-> [q \in DOMAIN terms |-> terms[q].atom],
                     konst |-> IF leading THEN s[ads[1].node].konst ELSE MinusZero,
                     coefs |-> [q \in DOMAIN terms |-> terms[q].coef]])

(* A tainted product that a product with a Const reads: the one-term       *)
(* Affine of the D39 rule.                                                 *)
ScaledAgain(s, x) ==
  \E j \in DOMAIN s : \E p \in 1..2 :
    s[j].op = "Mul" /\ s[s[j].args[p]].op = "Const" /\ s[j].args[3 - p] = x

ScaledOnly(s, m, p, c) ==
  [op |-> "Affine", args |-> <<s[m].args[3 - p]>>, konst |-> MinusZero, coefs |-> <<c>>]
Rescaled_Unscaled(s, m, p) == ScaledOnly(s, m, p, 1)
Rescaled(s, m, p) == ScaledOnly(s, m, p, s[s[m].args[p]].konst)

CollapseProduct(s, taint, st, m) ==
  LET p == IF ScaledAt(s, taint, st, m, 1) THEN 1 ELSE 2
  IN IF ~ScaledAt(s, taint, st, m, p) THEN st ELSE WithAffine(st, {}, m, Rescaled(s, m, p))

(* The scan at node i.                                                     *)
Scanned(s, outs, taint, st, i) ==
  IF s[i].op = "Mul" /\ taint[i] /\ ScaledAgain(s, i)
    THEN CollapseProduct(s, taint, st, i)
  ELSE IF \/ s[i].op \notin AffineChain \/ i \in st.drop
          \/ \E u \in DOMAIN s : LeftOnly(s, outs, AffineChain, i, u)
    THEN st
  ELSE CollapseChain(s, outs, taint, st, i)

AffinePlan(s, outs) ==
  LET taint == Taints(s)
      scan[i \in 0..Len(s)] ==
        IF i = 0 THEN NoChange ELSE Scanned(s, outs, taint, scan[i - 1], i)
  IN scan[Len(s)]
------------------------------------------------------------------------------
(***************************************************************************)
(* simplify.  The rules look at the nodes already emitted; a match is the  *)
(* node that replaces op(a, b) and the nodes appended to make it.          *)
(***************************************************************************)
Is(s, x, c) == s[x].op = "Const" /\ s[x].konst = c
IsZero(s, x) == Is(s, x, 0) \/ Is(s, x, MinusZero)

(* x is op(_, c), and cancels against c.                                   *)
Cancels_AnyOperand(s, x, op, p, c) == s[x].op = op
Cancels(s, x, op, p, c) == s[x].op = op /\ s[x].args[p] = c

(* div(p, q) at x and div(q, r) at y.                                      *)
Telescopes_SameEnd(s, x, y) ==
  s[x].op = "Div" /\ s[y].op = "Div" /\ s[x].args[2] = s[y].args[2]
Telescopes(s, x, y) ==
  s[x].op = "Div" /\ s[y].op = "Div" /\ s[x].args[2] = s[y].args[1]

Already(x) == {[add |-> <<>>, at |-> x]}

Constant(s, c) ==
  {[add |-> IF \E x \in DOMAIN s : Is(s, x, c) THEN <<>>
            ELSE <<Number(c)>>,
    at |-> IF \E x \in DOMAIN s : Is(s, x, c) THEN CHOOSE x \in DOMAIN s : Is(s, x, c)
           ELSE Len(s) + 1]}

Quotient(s, p, r) ==
  {[add |-> <<Operation("Div", <<p, r>>)>>, at |-> Len(s) + 1]}

(* mul(mul(x, div(p, q)), div(q, r)) becomes mul(x, div(p, r)).            *)
ScaledQuotient(s, x, p, r) ==
  {[add |-> <<Operation("Div", <<p, r>>), Operation("Mul", <<x, Len(s) + 1>>)>>,
    at |-> Len(s) + 2]}

MulRule(s, a, b) ==
  LET arg(x, p) == s[x].args[p]
      Nested(p) == s[a].op = "Mul" /\ Telescopes(s, arg(a, p), b)
  IN IF Is(s, a, 1) THEN Already(b)
     ELSE IF Is(s, b, 1) THEN Already(a)
     ELSE IF Cancels(s, a, "Div", 2, b) THEN Already(arg(a, 1))
     ELSE IF Cancels(s, b, "Div", 2, a) THEN Already(arg(b, 1))
     ELSE IF Telescopes(s, a, b) THEN Quotient(s, arg(a, 1), arg(b, 2))
     ELSE IF Telescopes(s, b, a) THEN Quotient(s, arg(b, 1), arg(a, 2))
     ELSE IF Nested(2) THEN ScaledQuotient(s, arg(a, 1), arg(arg(a, 2), 1), arg(b, 2))
     ELSE IF Nested(1) THEN ScaledQuotient(s, arg(a, 2), arg(arg(a, 1), 1), arg(b, 2))
     ELSE {}

DivRule(s, a, b) ==
  IF Is(s, b, 1) THEN Already(a)
  ELSE IF a = b THEN Constant(s, 1)
  ELSE IF Cancels(s, a, "Mul", 2, b) THEN Already(s[a].args[1])
  ELSE IF Cancels(s, a, "Mul", 1, b) THEN Already(s[a].args[2])
  ELSE {}

AddRule(s, a, b) ==
  IF IsZero(s, a) THEN Already(b)
  ELSE IF IsZero(s, b) THEN Already(a)
  ELSE IF Cancels(s, b, "Sub", 2, a) THEN Already(s[b].args[1])
  ELSE IF Cancels(s, a, "Sub", 2, b) THEN Already(s[a].args[1])
  ELSE {}

SubRule(s, a, b) ==
  IF IsZero(s, b) THEN Already(a)
  ELSE IF a = b THEN Constant(s, 0)
  ELSE IF Cancels(s, a, "Add", 2, b) THEN Already(s[a].args[1])
  ELSE IF Cancels(s, a, "Add", 1, b) THEN Already(s[a].args[2])
  ELSE {}

(* The empty set is "no rule".                                             *)
SimplifyBinary(s, op, a, b) ==
  CASE op = "Mul" -> MulRule(s, a, b)
    [] op = "Div" -> DivRule(s, a, b)
    [] op = "Add" -> AddRule(s, a, b)
    [] op = "Sub" -> SubRule(s, a, b)
    [] OTHER -> {}
=============================================================================
