----------------------------- MODULE Signature -----------------------------
(***************************************************************************)
(* The signature pass (ir/signature.cpp): which nodes of a tape are        *)
(* boundaries, which runs of nodes are chains, and the classes of          *)
(* isomorphic trees between boundaries.  InferIR lays them out.            *)
(*                                                                         *)
(* The 64-bit hashes of the code are modelled by what they hash: a token,  *)
(* in which the operands of a commutative operation are a set.             *)
(*                                                                         *)
(* An analysis b of tape s with outputs outs is a record of sets of nodes  *)
(* and of the chains found; the passes extend it one after the other.      *)
(***************************************************************************)
EXTENDS DomainIR

CONSTANTS
  ScanMinSteps,  \* scan_min_steps: a chain has at least so many steps
  ScanMaxDepth,  \* scan_max_depth: the carry is at most so deep in a step
  ScanMaxTree    \* scan_max_tree: a larger tree is not a step

ASSUME SignatureAssumption ==
  ScanMinSteps \in Nat \ {0} /\ ScanMaxDepth \in Nat /\ ScanMaxTree \in Nat

Nodes(s) == [i \in DOMAIN s |-> i]
ConstNodes(s) == {i \in DOMAIN s : s[i].op = "Const"}
MemberUse(s, outs) ==
  Range(outs) \cup UNION {ArgSet(s[j]) : j \in {k \in DOMAIN s : s[k].op \in Variadic}}

(* A boundary has a row of its own; an inner node is part of the tree of   *)
(* the one boundary that reads it.                                         *)
InitialBoundaries(s, outs) ==
  {i \in DOMAIN s \ ConstNodes(s) :
     \/ s[i].op = "Input" \/ s[i].op \in Variadic
     \/ ~UsedOnce(s, outs, i) \/ i \in MemberUse(s, outs)}

(* An operation on tokens.                                                 *)
Token(op, ts) == IF op \in Commutative THEN <<op, {ts[1], ts[2]}>> ELSE <<op, ts>>
ConstToken == <<"const">>
RefToken == <<"ref">>
CarryToken == <<"carry">>

(* The position of node i in chains, a sequence of chains.                 *)
ChainOf(chains, i) == {c \in DOMAIN chains : i \in Range(chains[c].members)}
Chained(chains) == UNION {Range(chains[c].members) : c \in DOMAIN chains}
PositionIn(chain, i) == CHOOSE k \in DOMAIN chain.members : chain.members[k] = i
CarryInto(chain, i) ==
  LET k == PositionIn(chain, i) IN IF k = 1 THEN chain.init ELSE chain.members[k - 1]

(***************************************************************************)
(* The sharing rule: when one instance of a computation is a boundary, all *)
(* are.  The deep token of a node is its expression seen through shared    *)
(* nodes, up to Inputs, variadic operations and steps of chains.           *)
(***************************************************************************)
Deep(s, chains) ==
  Build(Len(s), LAMBDA deep, i :
    IF s[i].op = "Const" THEN ConstToken
    ELSE IF i \in Chained(chains) THEN <<"scan", <<s[i].op>>>>
    ELSE IF s[i].op = "Input" \/ s[i].op \in Variadic THEN <<s[i].op>>
    ELSE Token(s[i].op, [q \in DOMAIN s[i].args |-> deep[s[i].args[q]]]))

PromoteShared(s, b) ==
  LET deep == Deep(s, b.chains)
      shared == {deep[i] : i \in b.boundary}
      promoted == {i \in DOMAIN s \ (b.boundary \cup ConstNodes(s) \cup b.scanInner) : deep[i] \in shared}
  IN [b EXCEPT !.boundary = @ \cup promoted, !.promoted = @ \cup promoted]

------------------------------------------------------------------------------
(***************************************************************************)
(* detect_chains.  The tree of a node is walked through nodes read once; a *)
(* small Sum, and a member read once, are walked on the way to the carry   *)
(* and are references off it.                                              *)
(***************************************************************************)
SmallSum(n) == n.op = "Sum" /\ Len(n.args) \in 2..3

Seen(s, outs, promoted, chained, c) ==
  CASE s[c].op = "Const" -> "const"
    [] c \in chained \/ s[c].op \in {"Input", "Affine"} -> "ref"
    [] s[c].op = "Sum" -> IF SmallSum(s[c]) /\ UsedOnce(s, outs, c) THEN "on_path" ELSE "ref"
    [] ~UsedOnce(s, outs, c) \/ c \in promoted -> "ref"
    [] OTHER -> IF c \in MemberUse(s, outs) THEN "on_path" ELSE "inner"

(* The view of the tree of every node at one moment of the detection.      *)
View(s, outs, promoted, chained) ==
  Build(Len(s), LAMBDA view, c : Seen(s, outs, promoted, chained, c))
Expanded(view, c) == view[c] \in {"inner", "on_path"}

(* The nodes in the tree of i below i, and the entries of the tree.        *)
Below(s, view, i) ==
  LET below[j \in DOMAIN s] ==
        ArgSet(s[j]) \cup UNION {below[c] : c \in {a \in ArgSet(s[j]) : Expanded(view, a)}}
  IN below[i]

TreeSize(s, view, i) ==
  LET size[j \in DOMAIN s] ==
        FoldLeft(LAMBDA sum, c : sum + IF Expanded(view, c) THEN size[c] ELSE 1, 1, s[j].args)
  IN size[i]

TreeFits(s, view, i) == TreeSize(s, view, i) <= ScanMaxTree

(* The token of root's step with the node target cut out of it.            *)
StepToken(s, view, root, target) ==
  LET token[c \in DOMAIN s] ==   \* of a node whose tree is walked
        Token(s[c].op, [q \in DOMAIN s[c].args |->
          LET a == s[c].args[q]
          IN CASE a = target -> CarryToken
               [] view[a] = "const" -> ConstToken
               [] view[a] = "inner" \/ (view[a] = "on_path" /\ target \in Below(s, view, a)) -> token[a]
               [] OTHER -> RefToken])
  IN token[root]

(* The entries at depth 1, 2, ... of root's tree, in order: where they     *)
(* stand, the node, and the node above.                                    *)
Children(s, entry) ==
  [q \in DOMAIN s[entry.node].args |->
     [path |-> Append(entry.path, q), node |-> s[entry.node].args[q], above |-> entry.node]]

Entries(s, view, root) ==
  LET Deeper(level) ==
        FoldLeft(LAMBDA es, e : es \o (IF Expanded(view, e.node) THEN Children(s, e) ELSE <<>>),
                 <<>>, level)
      levels[k \in 1..ScanMaxDepth] ==
        IF k = 1 THEN Children(s, [path |-> <<>>, node |-> root]) ELSE Deeper(levels[k - 1])
  IN FoldLeft(LAMBDA es, k : es \o levels[k], <<>>, [k \in 1..ScanMaxDepth |-> k])

(* A running sum of inner values is a reduction, not a scan.               *)
Reduction(s, b, chained, e) ==
  /\ s[e.above].op \in {"Add", "Sum"}
  /\ e.node \notin ConstNodes(s) \cup b.boundary \cup chained

(* The candidate carries of root, each node where it comes first.          *)
CutsOf(s, b, view, chained, root) ==
  LET es == Entries(s, view, root)
      first == {k \in DOMAIN es : \A j \in 1..(k - 1) : es[j].node # es[k].node}
      taken == SelectSeq([k \in DOMAIN es |-> k],
                         LAMBDA k : k \in first /\ ~Reduction(s, b, chained, es[k]))
  IN [k \in DOMAIN taken |->
        LET e == es[taken[k]]
        IN [target |-> e.node, path |-> e.path, token |-> StepToken(s, view, root, e.node)]]

SameStep(c, d) == c.token = d.token /\ c.path = d.path

Candidate(s, banned, view, i) ==
  /\ s[i].op \notin {"Const", "Input", "Affine"} /\ (s[i].op = "Sum" => SmallSum(s[i]))
  /\ i \notin banned /\ TreeFits(s, view, i)

(* What the cut k of node i does: it extends a chain whose tail it cuts    *)
(* with the chain's step, or it starts one with a node whose own cut has   *)
(* this step.                                                              *)
Extends(found, cut) ==
  {c \in ChainOf(found.chains, cut.target) :
     SameStep(found.chains[c], cut) /\ Last(found.chains[c].members) = cut.target}
Starts(s, found, cut) ==
  IF cut.target \in ConstNodes(s) \cup Chained(found.chains) THEN {}
  ELSE {d \in DOMAIN found.cuts[cut.target] : SameStep(found.cuts[cut.target][d], cut)}

Least(ks) == CHOOSE k \in ks : \A j \in ks : k <= j

Lengthened(chains, extended, i) ==
  [c \in DOMAIN chains |->
     IF c \in extended THEN [chains[c] EXCEPT !.members = Append(@, i)] ELSE chains[c]]

Started(found, cut, start, i) ==
  Append(found.chains,
         [token |-> cut.token, path |-> cut.path, members |-> <<cut.target, i>>,
          init |-> found.cuts[cut.target][start].target])

Grown(found, cut, extended, starts, i) ==
  IF extended # {} THEN Lengthened(found.chains, extended, i) ELSE Started(found, cut, Least(starts), i)

(* The first cut of node i that extends or starts a chain does.            *)
Cutting(s, found, cuts, i) ==
  LET Does(k) == [cut |-> cuts[k], extended |-> Extends(found, cuts[k]), starts |-> Starts(s, found, cuts[k])]
      does == SelectSeq([k \in DOMAIN cuts |-> Does(k)], LAMBDA x : x.extended # {} \/ x.starts # {})
  IN [cuts |-> Append(found.cuts, cuts),
      chains |-> IF does = <<>> THEN found.chains
                 ELSE Grown(found, does[1].cut, does[1].extended, does[1].starts, i)]

CandidateCuts(s, b, view, chained, i) ==
  IF Candidate(s, b.banned, view, i) THEN CutsOf(s, b, view, chained, i) ELSE <<>>

Visit(s, outs, b, found, i) ==
  LET chained == Chained(found.chains)
  IN Cutting(s, found, CandidateCuts(s, b, View(s, outs, b.promoted, chained), chained, i), i)

(* What a kept chain makes of the nodes of its steps: the occurrences of   *)
(* the carry in the tree of m, and the walked nodes above and beside them. *)
OnThePath(s, view, m, carry) ==
  {c \in Below(s, view, m) : Expanded(view, c) /\ carry \in Below(s, view, c)}

InStep(s, view, m, carry) ==
  LET path == OnThePath(s, view, m, carry)
      in[j \in DOMAIN s] ==   \* the nodes of the step under j, which is in it
        UNION {{a} \cup in[a] : a \in {c \in ArgSet(s[j]) :
                 c # carry /\ (view[c] = "inner" \/ (view[c] = "on_path" /\ c \in path))}}
  IN in[m]

LastSlot(s, c, carry) ==
  <<c, CHOOSE q \in DOMAIN s[c].args : /\ s[c].args[q] = carry
                                      /\ \A r \in (q + 1)..Len(s[c].args) : s[c].args[r] # carry>>

TakeStep(s, outs, b, m, carry) ==
  LET view == View(s, outs, b.promoted, Chained(b.chains))
      path == {c \in OnThePath(s, view, m, carry) : view[c] = "on_path"}
      reading == {m} \cup OnThePath(s, view, m, carry)
  IN [b EXCEPT
        !.fits = @ /\ TreeFits(s, view, m),
        !.fixedSum = @ \cup {c \in path \cup {m} : s[c].op = "Sum"},
        !.boundary = @ \ path,
        !.scanInner = @ \cup path \cup InStep(s, view, m, carry),
        !.constInit = IF s[carry].op # "Const" THEN @
                      ELSE @ \cup {LastSlot(s, c, carry) : c \in {d \in reading : carry \in ArgSet(s[d])}}]

TakeChain(s, outs, b, chain) ==
  FoldLeft(LAMBDA a, m : TakeStep(s, outs, a, m, CarryInto(chain, m)), b, chain.members)

FoundChains(s, outs, b) ==
  FoldLeft(LAMBDA f, i : Visit(s, outs, b, f, i), [cuts |-> <<>>, chains |-> <<>>], Nodes(s)).chains

TakeChains(s, outs, b, kept) ==
  LET inits == {kept[c].init : c \in DOMAIN kept} \ ConstNodes(s)
      start == [b EXCEPT !.chains = kept, !.boundary = @ \cup Chained(kept) \cup inits]
  IN FoldLeft(LAMBDA a, chain : TakeChain(s, outs, a, chain), start, kept)

DetectChains(s, outs, b) ==
  TakeChains(s, outs, b, SelectSeq(FoundChains(s, outs, b), LAMBDA c : Len(c.members) >= ScanMinSteps))

(***************************************************************************)
(* The whole analysis; banned are the nodes earlier rounds keep out of     *)
(* chains.                                                                 *)
(***************************************************************************)
PromoteAgain(s, b) == IF b.chains = <<>> THEN b ELSE PromoteShared(s, b)

Analysis(s, outs, banned) ==
  LET start == [boundary |-> InitialBoundaries(s, outs), promoted |-> {}, scanInner |-> {},
                fixedSum |-> {}, constInit |-> {}, chains |-> <<>>, banned |-> banned, fits |-> TRUE]
  IN PromoteAgain(s, DetectChains(s, outs, PromoteShared(s, start)))

------------------------------------------------------------------------------
(***************************************************************************)
(* hash_all and extract_tree.  The tree of a boundary in post-order: its   *)
(* steps, its numbers and its references, each in the order of the walk.   *)
(***************************************************************************)
IsRef(s, b, i, q) ==
  LET c == s[i].args[q] IN c \in b.boundary \/ <<i, q>> \in b.constInit

Hash(s, b) ==
  Build(Len(s), LAMBDA h, i :
    IF s[i].op \in {"Const", "Input"} \/ (s[i].op \in Variadic /\ i \notin b.fixedSum) THEN <<s[i].op>>
    ELSE LET t == Token(s[i].op, [q \in DOMAIN s[i].args |->
                    IF IsRef(s, b, i, q) THEN RefToken
                    ELSE IF s[i].args[q] \in ConstNodes(s) THEN ConstToken ELSE h[s[i].args[q]]])
         IN IF i \in Chained(b.chains) THEN <<"scan", t>> ELSE t)

TokenAt(s, b, h, i, q) ==
  IF IsRef(s, b, i, q) THEN RefToken
  ELSE IF s[i].args[q] \in ConstNodes(s) THEN ConstToken ELSE h[s[i].args[q]]

Swapped(s, b, h, i) ==
  /\ s[i].op \in Commutative
  /\ TokenAt(s, b, h, i, 1) # LesserOf(TokenAt(s, b, h, i, 1), TokenAt(s, b, h, i, 2))

Positions(s, b, h, i) ==
  IF Swapped(s, b, h, i) THEN <<2, 1>> ELSE [q \in DOMAIN s[i].args |-> q]

Empty == [proto |-> <<>>, swapped |-> <<>>, consts |-> <<>>, refs |-> <<>>, args |-> <<>>]

(* Puts the tree sub behind what t has, and makes it the next operand.     *)
Joined(t, sub) ==
  LET Shift(a) == CASE a[1] = "step" -> StepAt(a[2] + Len(t.proto))
                    [] a[1] = "column" -> Column(a[2] + Len(t.consts))
                    [] a[1] = "gather" -> Gather(a[2] + Len(t.refs))
      shifted == [k \in DOMAIN sub.proto |->
                    [sub.proto[k] EXCEPT !.args = [q \in DOMAIN @ |-> Shift(@[q])]]]
  IN [proto |-> t.proto \o shifted, swapped |-> t.swapped \o sub.swapped,
      consts |-> t.consts \o sub.consts, refs |-> t.refs \o sub.refs,
      args |-> Append(t.args, StepAt(Len(t.proto) + Len(sub.proto)))]

Extract(s, b, h, root) ==
  LET tree[i \in DOMAIN s] ==
        LET Operand(t, q) ==
              LET c == s[i].args[q]
              IN IF IsRef(s, b, i, q)
                   THEN [t EXCEPT !.refs = Append(@, c), !.args = Append(@, Gather(Len(t.refs) + 1))]
                 ELSE IF c \in ConstNodes(s)
                   THEN [t EXCEPT !.consts = Append(@, s[c].konst),
                                  !.args = Append(@, Column(Len(t.consts) + 1))]
                 ELSE Joined(t, tree[c])
            all == FoldLeft(Operand, Empty, Positions(s, b, h, i))
        IN [all EXCEPT !.proto = Append(@, Step(s[i].op, all.args, NoSlot)),
                       !.swapped = Append(@, Swapped(s, b, h, i)), !.args = <<>>]
  IN tree[root]

(***************************************************************************)
(* partition: the rows.  A row is a boundary, or a Const node a variadic   *)
(* operation or a chain reads or an output is.  Its class is the token of  *)
(* its tree and which reference is the carry.                              *)
(***************************************************************************)
PlainVariadic(s, b, i) == s[i].op \in Variadic /\ i \notin b.fixedSum

ConstRows(s, outs, b) ==
  ConstNodes(s) \cap
    (Range(outs) \cup UNION {ArgSet(s[i]) : i \in {j \in b.boundary : PlainVariadic(s, b, j)}}
       \cup {b.chains[c].init : c \in DOMAIN b.chains})

RowTree(s, b, h, i) ==
  IF s[i].op = "Input" THEN [Empty EXCEPT !.proto = <<Step("Input", <<InputSlot>>, NoSlot)>>, !.swapped = <<FALSE>>]
  ELSE IF s[i].op = "Const"
    THEN [Empty EXCEPT !.proto = <<Step("Const", <<>>, Column(1))>>, !.swapped = <<FALSE>>, !.consts = <<s[i].konst>>]
  ELSE IF PlainVariadic(s, b, i)
    THEN [Empty EXCEPT !.proto = <<Step(s[i].op, <<Segment(1)>>, IF s[i].op = "Affine" THEN Column(1) ELSE NoSlot)>>,
                       !.swapped = <<FALSE>>,
                       !.consts = IF s[i].op = "Affine" THEN <<s[i].konst>> ELSE <<>>]
  ELSE Extract(s, b, h, i)

CarrySlot(s, b, tree, i) ==
  IF ChainOf(b.chains, i) = {} THEN 0
  ELSE LET carry == CarryInto(b.chains[CHOOSE c \in ChainOf(b.chains, i) : TRUE], i)
           slots == {k \in DOMAIN tree.refs : tree.refs[k] = carry}
       IN IF slots = {} THEN 0 ELSE CHOOSE k \in slots : \A j \in slots : k <= j

NoRow == [tree |-> Empty, carry |-> 0, class |-> <<<<"none">>, 0>>, members |-> <<>>, coefs |-> <<>>]

(* Per node, its row, or NoRow.                                            *)
Partition(s, outs, b) ==
  LET h == Hash(s, b)
      Row(i) == LET tree == RowTree(s, b, h, i)
                    carry == CarrySlot(s, b, tree, i)
                IN [tree |-> tree, carry |-> carry, class |-> <<h[i], carry>>,
                    members |-> IF PlainVariadic(s, b, i) THEN s[i].args ELSE <<>>,
                    coefs |-> s[i].coefs]
      rows == b.boundary \cup ConstRows(s, outs, b)
  IN Build(Len(s), LAMBDA done, i : IF i \in rows THEN Row(i) ELSE NoRow)
=============================================================================
