---------------------------- MODULE EGraphProofs ----------------------------
(***************************************************************************)
(* What saturation leaves in the graph, for any rules, limits and calls:   *)
(* every tier is congruent, no content is inserted twice by a round, the   *)
(* exactness of a node is that of its history, and a call that stopped by  *)
(* itself has left nothing out.                                            *)
(***************************************************************************)
EXTENDS EGraph, SequenceTheorems, FiniteSetTheorems, WellFoundedInduction, TLAPS

IsSequence(s) == s \in Seq({s[x] : x \in DOMAIN s})

(* A tier of the forest: every node hangs from a root, a root of rank 0    *)
(* alone, and nodes hang from one root exactly when their contents agree.  *)
TierOk(t) ==
  /\ IsSequence(t)
  /\ \A x \in DOMAIN t :
       /\ {"content", "history", "exact", "up", "rank"} \subseteq DOMAIN t[x]
       /\ t[x].up \in DOMAIN t /\ t[t[x].up].up = t[x].up /\ t[x].rank \in Nat
       /\ t[x].up = x /\ t[x].rank = 0 => \A y \in DOMAIN t : t[y].up = x => y = x
       /\ \A y \in DOMAIN t : t[x].up = t[y].up <=> t[x].content = t[y].content

(* A node of class E0 has no rule of class E1 in its history.              *)
ExactOk(t) ==
  \A x \in DOMAIN t : /\ IsSequence(t[x].history) /\ t[x].exact \in {0, 1}
                      /\ t[x].exact = 0 => Range(t[x].history) \cap E1 = {}

SitesAt(s, n) == Sites(rules[s], programs[n].content)

QueuedPrograms == {pendingPrograms[q].content : q \in DOMAIN pendingPrograms}
QueuedPlans(n) == {pendingPlans[q].content : q \in NewPlansOf(n)}

GraphOk ==
  /\ TierOk(programs) /\ ExactOk(programs)
  /\ IsSequence(plans) /\ Len(plans) = Len(programs)
  /\ \A n \in DOMAIN programs : programs[n].content \in ProgramNames
  /\ \A n \in DOMAIN plans : /\ TierOk(plans[n]) /\ ExactOk(plans[n])
                             /\ \A j \in DOMAIN plans[n] : "top" \in DOMAIN plans[n][j]

(* What waits for the rebuild is new, and made from nodes there are.       *)
QueueOk ==
  /\ IsSequence(pendingPrograms) /\ IsSequence(pendingPlans)
  /\ \A q \in DOMAIN pendingPrograms :
       /\ pendingPrograms[q].content \in ProgramNames \ Contents(programs)
       /\ pendingPrograms[q].parent \in DOMAIN programs
  /\ \A q \in DOMAIN pendingPlans :
       /\ pendingPlans[q].program \in DOMAIN plans
       /\ pendingPlans[q].parent \in DOMAIN plans[pendingPlans[q].program]
       /\ pendingPlans[q].content \notin Contents(plans[pendingPlans[q].program])
  /\ pc = "idle" => pendingPrograms = <<>> /\ pendingPlans = <<>>

(* Where the round is, and what a rule's kind says of its proposals.       *)
RoundOk ==
  /\ rules \in Seq(DOMAIN Proposals) /\ limits \in Limits /\ calls \in Nat
  /\ pc \in {"idle", "node", "site", "rebuild"}
  /\ {slot, pid, site} \subseteq Nat \ {0}
  /\ calls = 0 => pc = "idle" /\ rules = <<>>
  /\ rules = <<>> => calls = 0
  /\ pc \in {"node", "site"} => slot \in DOMAIN rules
  /\ pc = "site" => pid \in DOMAIN programs
  /\ pc = "rebuild" => slot = Len(rules) + 1
  /\ pc # "idle" => outcome = "none"
  /\ DOMAIN ruleKind = DOMAIN rules
  /\ \A s \in DOMAIN rules : ruleKind[s] = "program" =>
       \E program \in ProgramNames : \E x \in DOMAIN Sites(rules[s], program) :
         Sites(rules[s], program)[x].kind = "program"

(* What a memo entry remembers is in the graph or waits to be.             *)
Remembered(n, s, x) ==
  LET m == memo[n][s][x]
      proposal == SitesAt(s, n)[x]
  IN /\ {"kind", "done"} \subseteq DOMAIN m
     /\ m.kind \in {"unknown", "program", "annotation"}
     /\ m.done \in Nat /\ m.done <= Len(plans[n])
     /\ m.kind # "unknown" => proposal.kind = m.kind
     /\ m.kind # "annotation" => m.done = 0
     /\ m.kind = "program" => proposal.to \in {Invalid} \cup Contents(programs) \cup QueuedPrograms
     /\ \A j \in DOMAIN plans[n] :
          j <= m.done /\ MayExtend(s, plans[n][j]) =>
            Merged(plans[n][j].content, proposal.delta) \in Contents(plans[n]) \cup QueuedPlans(n)

MemoOk ==
  calls > 0 =>
    /\ DOMAIN memo = DOMAIN programs
    /\ \A n \in DOMAIN programs :
         /\ DOMAIN memo[n] = DOMAIN rules
         /\ \A s \in DOMAIN rules : /\ DOMAIN memo[n][s] = DOMAIN SitesAt(s, n)
                                    /\ \A x \in DOMAIN SitesAt(s, n) : Remembered(n, s, x)

Passed(s, n, x) ==
  \/ s < slot
  \/ s = slot /\ n < pid
  \/ s = slot /\ n = pid /\ pc = "site" /\ x < site

Answered(s, n, x) ==
  \/ memo[n][s][x].kind = "program"
  \/ memo[n][s][x].kind = "annotation" /\ memo[n][s][x].done = Len(plans[n])
  \/ limits.refire # AllRules /\ (OneKind => SitesAt(s, n)[x].kind = "program" /\ ~MayRewrite(s, n))

(* A round that no bound has cut has had an answer, or needs none, at      *)
(* every site it has passed.                                               *)
SweepOk ==
  pc # "idle" /\ ~bound =>
    \A s \in DOMAIN rules : \A n \in DOMAIN programs : Matched(n) =>
      \A x \in DOMAIN SitesAt(s, n) : Passed(s, n, x) => Answered(s, n, x)

ClosedOk ==
  outcome = "fixpoint" /\ (OneKind \/ limits.refire = AllRules) => \A n \in Representatives : Exhausted(n)

IInv == GraphOk /\ QueueOk /\ RoundOk /\ MemoOk /\ SweepOk /\ ClosedOk

------------------------------------------------------------------------------
(* Sequences, least numbers, and functions given by recursion.             *)

LEMMA MinIsLeast ==
  ASSUME NEW S \in SUBSET Nat, S # {}
  PROVE  Min(S) \in S /\ \A y \in S : Min(S) <= y
<1> DEFINE less == {ss \in Nat \X Nat : ss[1] < ss[2]}
<1>1. IsWellFoundedOn(less, Nat)
  BY NatLessThanWellFounded DEF OpToRel
<1>2. \A x, y \in Nat : y < x => <<y, x>> \in less
  OBVIOUS
<1> HIDE DEF less
<1>3. PICK x \in S : \A y \in S : ~ (<<y, x>> \in less)
  BY <1>1, WFMin
<1>4. ASSUME NEW y \in S PROVE x <= y
  <2>1. x \in Nat /\ y \in Nat
    OBVIOUS
  <2>2. ~ (y < x)
    BY <1>2, <1>3, <2>1
  <2> QED BY <2>1, <2>2
<1> QED BY <1>4 DEF Min

LEMMA SequenceShape ==
  ASSUME NEW s, IsSequence(s)
  PROVE  Len(s) \in Nat /\ DOMAIN s = 1 .. Len(s)
BY LenProperties DEF IsSequence

LEMMA FunctionIsSequence ==
  ASSUME NEW n \in Nat, NEW s, s = [x \in 1 .. n |-> s[x]]
  PROVE  IsSequence(s) /\ Len(s) = n /\ DOMAIN s = 1 .. n
<1>1. s \in [1 .. n -> {s[x] : x \in DOMAIN s}]
  OBVIOUS
<1>2. s \in Seq({s[x] : x \in DOMAIN s})
  BY <1>1
<1> QED BY <1>1, <1>2 DEF IsSequence

LEMMA AppendSequence ==
  ASSUME NEW s, IsSequence(s), NEW e
  PROVE  /\ Len(s) \in Nat /\ DOMAIN s = 1 .. Len(s)
         /\ IsSequence(Append(s, e)) /\ Len(Append(s, e)) = Len(s) + 1
         /\ DOMAIN Append(s, e) = 1 .. (Len(s) + 1)
         /\ \A x \in 1 .. Len(s) : Append(s, e)[x] = s[x]
         /\ Append(s, e)[Len(s) + 1] = e
<1> DEFINE S == {s[x] : x \in DOMAIN s} \cup {e}
           t == Append(s, e)
<1>1. Len(s) \in Nat /\ DOMAIN s = 1 .. Len(s) /\ s \in Seq({s[x] : x \in DOMAIN s})
  BY SequenceShape DEF IsSequence
<1>2. s \in Seq(S)
  <2>1. s \in [1 .. Len(s) -> S]
    BY <1>1
  <2> QED BY <1>1, <2>1
<1>3. /\ t \in Seq(S) /\ Len(t) = Len(s) + 1
      /\ \A x \in 1 .. Len(s) : t[x] = s[x]
      /\ t[Len(s) + 1] = e
  BY <1>1, <1>2, AppendProperties
<1>4. IsSequence(t) /\ DOMAIN t = 1 .. (Len(s) + 1)
  <2> HIDE DEF t
  <2>1. Len(t) \in Nat /\ t = [x \in 1 .. Len(t) |-> t[x]]
    BY <1>3, LenProperties
  <2> QED BY <1>3, <2>1, FunctionIsSequence
<1> QED BY <1>1, <1>3, <1>4

------------------------------------------------------------------------------
(* Tiers.                                                                  *)

(* Node m is node n in another place of the forest.                        *)
Kept(n, m) ==
  /\ DOMAIN m = DOMAIN n
  /\ m.content = n.content /\ m.history = n.history /\ m.exact = n.exact
  /\ "top" \in DOMAIN n => m.top = n.top

(* Node m is what was to be inserted, n, in its place.                     *)
Raw(n) == {"content", "history", "exact"} \subseteq DOMAIN n /\ "up" \notin DOMAIN n /\ "rank" \notin DOMAIN n
Carries(n, m) ==
  /\ DOMAIN m = DOMAIN n \cup {"up", "rank"}
  /\ m.content = n.content /\ m.history = n.history /\ m.exact = n.exact
  /\ "top" \in DOMAIN n => m.top = n.top

(* In a forest of depth one find is one step.                              *)
LEMMA FindInForest ==
  ASSUME NEW t, \A x \in DOMAIN t : t[x].up \in DOMAIN t /\ t[t[x].up].up = t[x].up,
         NEW x \in DOMAIN t
  PROVE  Find(t, x) = t[x].up
<1> DEFINE Roots(f) == f = [n \in DOMAIN t |-> IF t[n].up = n THEN n ELSE f[t[n].up]]
           root == CHOOSE f : Roots(f)
           up == [n \in DOMAIN t |-> t[n].up]
<1>2. Roots(up)
  OBVIOUS
<1>3. Roots(root)
  BY <1>2
<1>4. Find(t, x) = root[x]
  BY DEF Find
<1> HIDE DEF root
<1>5. \A n \in DOMAIN t : root[n] = IF t[n].up = n THEN n ELSE root[t[n].up]
  BY <1>3
<1> HIDE DEF Roots
<1>6. root[t[x].up] = t[x].up
  BY <1>5
<1> QED BY <1>4, <1>5, <1>6

LEMMA FindFlat ==
  ASSUME NEW t, TierOk(t), NEW x \in DOMAIN t
  PROVE  Find(t, x) = t[x].up
BY FindInForest DEF TierOk

(* Nodes are of one class exactly when they have one content.              *)
LEMMA OneClassOneContent ==
  ASSUME NEW t, TierOk(t)
  PROVE  /\ CongruentTier(t)
         /\ \A x, y \in DOMAIN t : SameClass(t, x, y) <=> t[x].content = t[y].content
<1>1. \A x, y \in DOMAIN t : SameClass(t, x, y) <=> t[x].content = t[y].content
  BY FindFlat DEF SameClass, TierOk
<1> QED BY <1>1 DEF CongruentTier, SameContent

(* A node alone in a new class.                                            *)
LEMMA PlacedFields ==
  ASSUME NEW node, Raw(node), NEW at
  PROVE  Carries(node, Placed(node, at)) /\ Placed(node, at).up = at /\ Placed(node, at).rank = 0
BY DEF Raw, Carries, Placed

Nodes(t) == \A x \in DOMAIN t : {"content", "history", "exact", "up", "rank"} \subseteq DOMAIN t[x]

(* Root w is hung under root v, whose rank becomes r.                      *)
Hung(t, w, v, r) == [t EXCEPT ![w].up = v, ![v].rank = r]

LEMMA HungFields ==
  ASSUME NEW t, IsSequence(t), Nodes(t), NEW w \in DOMAIN t, NEW v \in DOMAIN t, v # w, NEW r
  PROVE  /\ IsSequence(Hung(t, w, v, r)) /\ Len(Hung(t, w, v, r)) = Len(t)
         /\ DOMAIN Hung(t, w, v, r) = DOMAIN t
         /\ \A x \in DOMAIN t : Kept(t[x], Hung(t, w, v, r)[x])
         /\ \A x \in DOMAIN t : Hung(t, w, v, r)[x].up = IF x = w THEN v ELSE t[x].up
         /\ \A x \in DOMAIN t : Hung(t, w, v, r)[x].rank = IF x = v THEN r ELSE t[x].rank
<1> DEFINE u == Hung(t, w, v, r)
<1>1. Len(t) \in Nat /\ DOMAIN t = 1 .. Len(t)
  BY SequenceShape
<1>2. /\ DOMAIN u = DOMAIN t
      /\ u = [x \in DOMAIN t |-> u[x]]
      /\ \A x \in DOMAIN t : x # w /\ x # v => u[x] = t[x]
      /\ u[w] = [t[w] EXCEPT !.up = v]
      /\ u[v] = [t[v] EXCEPT !.rank = r]
  BY DEF Hung
<1> HIDE DEF u
<1>3. IsSequence(u) /\ Len(u) = Len(t)
  BY <1>1, <1>2, FunctionIsSequence
<1>4. Kept(t[w], u[w]) /\ u[w].up = v /\ u[w].rank = t[w].rank
  BY <1>2 DEF Kept, Nodes
<1>5. Kept(t[v], u[v]) /\ u[v].up = t[v].up /\ u[v].rank = r
  BY <1>2 DEF Kept, Nodes
<1>6. \A x \in DOMAIN t : x # w /\ x # v => Kept(t[x], u[x])
  BY <1>2 DEF Kept, Nodes
<1> QED BY <1>2, <1>3, <1>4, <1>5, <1>6 DEF u

(* A node inserted into a tier leaves a tier, with the nodes there were    *)
(* where they were, and itself at the end.                                 *)
LEMMA InsertTier ==
  ASSUME NEW t, TierOk(t), NEW node, Raw(node)
  PROVE  /\ TierOk(Insert(t, node)) /\ Len(Insert(t, node)) = Len(t) + 1
         /\ DOMAIN Insert(t, node) = 1 .. (Len(t) + 1)
         /\ \A x \in DOMAIN t : Kept(t[x], Insert(t, node)[x])
         /\ Carries(node, Insert(t, node)[Len(t) + 1])
<1>1. PICK new, all, u : /\ new = Len(t) + 1 /\ all = Alone(t, node) /\ u = Insert(t, node)
  OBVIOUS
<1>2. /\ Len(t) \in Nat /\ DOMAIN t = 1 .. Len(t) /\ new \in Nat /\ new \notin DOMAIN t
      /\ IsSequence(all) /\ Len(all) = new /\ DOMAIN all = DOMAIN t \cup {new}
      /\ \A x \in DOMAIN t : all[x] = t[x]
      /\ all[new] = Placed(node, new)
  <2>1. IsSequence(t)
    BY DEF TierOk
  <2>2. all = Append(t, Placed(node, new))
    BY <1>1 DEF Alone
  <2> QED BY <1>1, <2>1, <2>2, AppendSequence
<1>3. /\ Carries(node, all[new]) /\ all[new].up = new /\ all[new].rank = 0
  BY <1>2, PlacedFields
<1>4. \A x \in DOMAIN t : /\ {"content", "history", "exact", "up", "rank"} \subseteq DOMAIN t[x]
                          /\ t[x].up \in DOMAIN t /\ t[t[x].up].up = t[x].up /\ t[x].rank \in Nat
  BY DEF TierOk
<1>5. \A x, y \in DOMAIN t : t[x].up = t[y].up <=> t[x].content = t[y].content
  BY DEF TierOk
<1>6. \A x, y \in DOMAIN t : t[x].up = x /\ t[x].rank = 0 /\ t[y].up = x => y = x
  BY DEF TierOk
<1>7. Nodes(all)
  BY <1>2, <1>3, <1>4 DEF Carries, Raw, Nodes
<1>a. \A x \in DOMAIN all : x \in DOMAIN t \/ x = new
  BY <1>2
<1>8. PICK same : same = {x \in DOMAIN t : t[x].content = node.content}
  OBVIOUS
<1>9. u = IF same = {} THEN all ELSE Unite(all, new, Min(same))
  BY <1>1, <1>2, <1>8 DEF Insert, SameContent
<1>10. CASE same = {}
  <2>1. u = all
    BY <1>9, <1>10
  <2>a. \A x \in DOMAIN t : u[x].up = t[x].up /\ u[x].rank = t[x].rank /\ u[x].content = t[x].content
    BY <1>2, <2>1
  <2>b. DOMAIN u = DOMAIN t \cup {new} /\ new \notin DOMAIN t /\ u[new].up = new /\ u[new].rank = 0
    BY <1>2, <1>3, <2>1
  <2>2. \A x \in DOMAIN u : u[x].up \in DOMAIN u /\ u[u[x].up].up = u[x].up /\ u[x].rank \in Nat
    BY <1>4, <2>a, <2>b
  <2>3. \A x, y \in DOMAIN u : u[x].up = x /\ u[x].rank = 0 /\ u[y].up = x => y = x
    BY <1>4, <1>6, <2>a, <2>b
  <2>4. \A x, y \in DOMAIN u : u[x].up = u[y].up <=> u[x].content = u[y].content
    <3>1. \A x \in DOMAIN t : u[x].content # u[new].content /\ u[x].up # u[new].up
      BY <1>2, <1>3, <1>4, <1>8, <1>10, <2>1 DEF Carries
    <3> QED BY <1>5, <2>a, <2>b, <3>1
  <2>5. TierOk(u)
    BY <1>2, <1>7, <2>1, <2>2, <2>3, <2>4 DEF TierOk, Nodes
  <2>6. \A x \in DOMAIN t : Kept(t[x], u[x])
    BY <1>2, <2>1 DEF Kept
  <2> QED BY <1>1, <1>2, <1>3, <2>1, <2>5, <2>6
<1>11. CASE same # {}
  <2>1. PICK first : first = Min(same)
    OBVIOUS
  <2>2. first \in DOMAIN t /\ t[first].content = node.content
    <3>1. same \in SUBSET Nat
      BY <1>2, <1>8
    <3>2. first \in same
      BY <1>11, <2>1, <3>1, MinIsLeast
    <3> QED BY <1>8, <3>2
  <2>3. PICK r : r = t[first].up
    OBVIOUS
  <2>4. r \in DOMAIN t /\ r # new /\ t[r].up = r /\ t[r].rank \in Nat /\ all[r] = t[r]
    BY <1>2, <1>4, <2>2, <2>3
  <2>b. r \in DOMAIN all /\ new \in DOMAIN all /\ r # new /\ IsSequence(all)
    BY <1>2, <2>4
  <2>5. Find(all, new) = new /\ Find(all, first) = r
    <3>1. \A x \in DOMAIN all : all[x].up \in DOMAIN all /\ all[all[x].up].up = all[x].up
      BY <1>2, <1>3, <1>4
    <3>2. \A x \in DOMAIN all : Find(all, x) = all[x].up
      BY <3>1, FindInForest
    <3> QED BY <1>2, <1>3, <2>2, <2>3, <3>2
  <2>6. \A x \in DOMAIN t : t[x].up = r <=> t[x].content = node.content
    BY <1>5, <2>2, <2>3
  <2>7. CASE t[r].rank = 0
    <3>1. u = Hung(all, r, new, 1)
      <4>1. u = Unite(all, new, first)
        BY <1>9, <1>11, <2>1
      <4>a. all[new].rank = 0 /\ all[r].rank = 0 /\ ~(0 < 0) /\ new # r
        BY <1>3, <2>4, <2>7
      <4>2. Unite(all, new, first) = [all EXCEPT ![r].up = new, ![new].rank = IF TRUE THEN @ + 1 ELSE @]
        BY <2>5, <4>a DEF Unite
      <4>3. [all EXCEPT ![r].up = new, ![new].rank = IF TRUE THEN @ + 1 ELSE @] = Hung(all, r, new, 1)
        BY <1>2, <1>3, <2>4 DEF Hung
      <4> QED BY <4>1, <4>2, <4>3
    <3>2. /\ IsSequence(u) /\ Len(u) = new /\ DOMAIN u = DOMAIN all
          /\ \A x \in DOMAIN all : Kept(all[x], u[x])
          /\ \A x \in DOMAIN all : u[x].up = IF x = r THEN new ELSE all[x].up
          /\ \A x \in DOMAIN all : u[x].rank = IF x = new THEN 1 ELSE all[x].rank
      <4>1. /\ IsSequence(Hung(all, r, new, 1)) /\ Len(Hung(all, r, new, 1)) = Len(all)
            /\ DOMAIN Hung(all, r, new, 1) = DOMAIN all
            /\ \A x \in DOMAIN all : Kept(all[x], Hung(all, r, new, 1)[x])
            /\ \A x \in DOMAIN all : Hung(all, r, new, 1)[x].up = IF x = r THEN new ELSE all[x].up
            /\ \A x \in DOMAIN all : Hung(all, r, new, 1)[x].rank = IF x = new THEN 1 ELSE all[x].rank
        BY <1>7, <2>b, HungFields
      <4> QED BY <1>2, <3>1, <4>1
    <3>3. \A x \in DOMAIN t : t[x].up = r => x = r
      BY <1>6, <2>4, <2>7
    <3>4. \A x \in DOMAIN u : u[x].up \in DOMAIN u /\ u[u[x].up].up = u[x].up /\ u[x].rank \in Nat
      BY <1>2, <1>3, <1>4, <2>4, <3>2, <3>3
    <3>5. \A x, y \in DOMAIN u : u[x].up = x /\ u[x].rank = 0 /\ u[y].up = x => y = x
      BY <1>2, <1>3, <1>4, <1>6, <2>4, <3>2, <3>3
    <3>6. \A x, y \in DOMAIN u : u[x].up = u[y].up <=> u[x].content = u[y].content
      <4>1. \A x \in DOMAIN t : u[x].content = t[x].content /\ u[x].up = IF x = r THEN new ELSE t[x].up
        BY <1>2, <3>2 DEF Kept
      <4>2. u[new].content = node.content /\ u[new].up = new
        BY <1>2, <1>3, <2>4, <3>2 DEF Kept, Carries
      <4>3. \A x \in DOMAIN t : t[x].content = node.content <=> x = r
        BY <2>4, <2>6, <3>3
      <4>4. \A x, y \in DOMAIN t : u[x].up = u[y].up <=> u[x].content = u[y].content
        BY <1>2, <1>4, <1>5, <2>4, <3>3, <4>1
      <4>5. \A x \in DOMAIN t : u[x].up = u[new].up <=> u[x].content = u[new].content
        BY <1>2, <1>4, <4>1, <4>2, <4>3
      <4> QED BY <1>2, <3>2, <4>4, <4>5
    <3>7. \A x \in DOMAIN u : {"content", "history", "exact", "up", "rank"} \subseteq DOMAIN u[x]
      BY <1>7, <3>2 DEF Kept, Nodes
    <3>8. TierOk(u)
      BY <3>2, <3>4, <3>5, <3>6, <3>7 DEF TierOk
    <3>9. /\ \A x \in DOMAIN t : Kept(t[x], u[x])
          /\ Carries(node, u[new])
      BY <1>2, <1>3, <3>2 DEF Kept, Carries
    <3> QED BY <1>1, <1>2, <3>2, <3>8, <3>9
  <2>8. CASE t[r].rank # 0
    <3>1. u = Hung(all, new, r, t[r].rank)
      <4>1. u = Unite(all, new, first)
        BY <1>9, <1>11, <2>1
      <4>2. all[new].rank < all[r].rank /\ ~(all[new].rank = all[r].rank)
        BY <1>3, <2>4, <2>8
      <4>3. Unite(all, new, first) = [all EXCEPT ![new].up = r, ![r].rank = IF FALSE THEN @ + 1 ELSE @]
        BY <2>4, <2>5, <4>2 DEF Unite
      <4>4. [all EXCEPT ![new].up = r, ![r].rank = IF FALSE THEN @ + 1 ELSE @] = Hung(all, new, r, t[r].rank)
        BY <1>2, <2>4 DEF Hung
      <4> QED BY <4>1, <4>3, <4>4
    <3>2. /\ IsSequence(u) /\ Len(u) = new /\ DOMAIN u = DOMAIN all
          /\ \A x \in DOMAIN all : Kept(all[x], u[x])
          /\ \A x \in DOMAIN all : u[x].up = IF x = new THEN r ELSE all[x].up
          /\ \A x \in DOMAIN all : u[x].rank = IF x = r THEN t[r].rank ELSE all[x].rank
      <4>1. /\ IsSequence(Hung(all, new, r, t[r].rank)) /\ Len(Hung(all, new, r, t[r].rank)) = Len(all)
            /\ DOMAIN Hung(all, new, r, t[r].rank) = DOMAIN all
            /\ \A x \in DOMAIN all : Kept(all[x], Hung(all, new, r, t[r].rank)[x])
            /\ \A x \in DOMAIN all : Hung(all, new, r, t[r].rank)[x].up = IF x = new THEN r ELSE all[x].up
            /\ \A x \in DOMAIN all : Hung(all, new, r, t[r].rank)[x].rank = IF x = r THEN t[r].rank ELSE all[x].rank
        BY <1>7, <2>b, HungFields
      <4> QED BY <1>2, <3>1, <4>1
    <3>3. \A x \in DOMAIN t : u[x].up = t[x].up /\ u[x].rank = t[x].rank
      BY <1>2, <2>4, <3>2
    <3>4. \A x \in DOMAIN u : u[x].up \in DOMAIN u /\ u[u[x].up].up = u[x].up /\ u[x].rank \in Nat
      BY <1>2, <1>3, <1>4, <2>4, <3>2, <3>3
    <3>5. \A x, y \in DOMAIN u : u[x].up = x /\ u[x].rank = 0 /\ u[y].up = x => y = x
      BY <1>2, <1>4, <1>6, <2>4, <2>8, <3>2, <3>3
    <3>6. \A x, y \in DOMAIN u : u[x].up = u[y].up <=> u[x].content = u[y].content
      <4>1. \A x \in DOMAIN t : u[x].content = t[x].content
        BY <1>2, <3>2 DEF Kept
      <4>2. u[new].content = node.content /\ u[new].up = r
        BY <1>2, <1>3, <3>2 DEF Kept, Carries
      <4> QED BY <1>2, <1>5, <2>6, <3>2, <3>3, <4>1, <4>2
    <3>7. \A x \in DOMAIN u : {"content", "history", "exact", "up", "rank"} \subseteq DOMAIN u[x]
      BY <1>7, <3>2 DEF Kept, Nodes
    <3>8. TierOk(u)
      BY <3>2, <3>4, <3>5, <3>6, <3>7 DEF TierOk
    <3>9. /\ \A x \in DOMAIN t : Kept(t[x], u[x])
          /\ Carries(node, u[new])
      BY <1>2, <1>3, <3>2 DEF Kept, Carries
    <3> QED BY <1>1, <1>2, <3>2, <3>8, <3>9
  <2> QED BY <2>7, <2>8
<1> QED BY <1>10, <1>11

(* Tier u is tier t with the nodes of the queue that are mine, up to m.    *)
Grown(t, queue, mine, m, u) ==
  /\ TierOk(u) /\ Len(t) <= Len(u)
  /\ 1 .. m \subseteq mine => Len(u) = Len(t) + m
  /\ \A x \in DOMAIN t : x \in DOMAIN u /\ Kept(t[x], u[x])
  /\ \A x \in DOMAIN u : x \in DOMAIN t \/ \E n \in mine : n <= m /\ Carries(queue[n], u[x])
  /\ \A n \in mine : n <= m => \E x \in DOMAIN u : u[x].content = queue[n].content

LEMMA KeptTwice ==
  ASSUME NEW n1, NEW n2, NEW n3, Kept(n2, n3)
  PROVE  /\ Kept(n1, n2) => Kept(n1, n3)
         /\ Carries(n1, n2) => Carries(n1, n3)
BY DEF Kept, Carries

LEMMA GrownStep ==
  ASSUME NEW t, NEW queue, NEW mine \in SUBSET Nat, NEW m \in Nat, NEW u,
         Grown(t, queue, mine, m, u), IsSequence(t)
  PROVE  /\ m + 1 \in mine /\ Raw(queue[m + 1]) =>
              Grown(t, queue, mine, m + 1, Insert(u, queue[m + 1]))
         /\ m + 1 \notin mine => Grown(t, queue, mine, m + 1, u)
<1>1. CASE m + 1 \in mine /\ Raw(queue[m + 1])
  <2>1. PICK w : w = Insert(u, queue[m + 1])
    OBVIOUS
  <2>2. /\ TierOk(w) /\ Len(w) = Len(u) + 1 /\ DOMAIN w = 1 .. (Len(u) + 1)
        /\ \A x \in DOMAIN u : Kept(u[x], w[x])
        /\ Carries(queue[m + 1], w[Len(u) + 1])
    BY <1>1, <2>1, InsertTier DEF Grown
  <2>3. Len(u) \in Nat /\ DOMAIN u = 1 .. Len(u) /\ Len(t) \in Nat
    BY SequenceShape DEF Grown, TierOk
  <2>a. Len(t) <= Len(u) /\ (1 .. m \subseteq mine => Len(u) = Len(t) + m)
    BY DEF Grown
  <2>4. DOMAIN w = DOMAIN u \cup {Len(u) + 1} /\ Len(t) <= Len(w)
    <3>1. PICK lt, lu, lw : lt = Len(t) /\ lu = Len(u) /\ lw = Len(w)
      OBVIOUS
    <3>2. lt \in Nat /\ lu \in Nat /\ lw = lu + 1 /\ lt <= lu
      BY <2>2, <2>3, <2>a, <3>1
    <3>3. lt <= lw /\ 1 .. (lu + 1) = 1 .. lu \cup {lu + 1}
      BY <3>2
    <3> QED BY <2>2, <2>3, <3>1, <3>3
  <2>5. \A x \in DOMAIN t : x \in DOMAIN w /\ Kept(t[x], w[x])
    BY <2>2, <2>4, KeptTwice DEF Grown
  <2>6. ASSUME NEW x \in DOMAIN w
        PROVE  x \in DOMAIN t \/ \E n \in mine : n <= m + 1 /\ Carries(queue[n], w[x])
    <3>1. CASE x = Len(u) + 1
      BY <1>1, <2>2, <3>1
    <3>2. CASE x \in DOMAIN u
      <4>1. Kept(u[x], w[x])
        BY <2>2, <3>2
      <4>2. CASE x \notin DOMAIN t
        <5>1. PICK n \in mine : n <= m /\ Carries(queue[n], u[x])
          BY <3>2, <4>2 DEF Grown
        <5>2. n <= m + 1 /\ Carries(queue[n], w[x])
          BY <4>1, <5>1, KeptTwice
        <5> QED BY <5>2
      <4> QED BY <4>2
    <3> QED BY <2>4, <3>1, <3>2
  <2>7. ASSUME NEW n \in mine, n <= m + 1
        PROVE  \E x \in DOMAIN w : w[x].content = queue[n].content
    <3>1. CASE n = m + 1
      BY <2>2, <2>4, <3>1 DEF Carries
    <3>2. CASE n # m + 1
      <4>1. n <= m
        BY <2>7, <3>2
      <4>2. PICK x \in DOMAIN u : u[x].content = queue[n].content
        BY <4>1 DEF Grown
      <4> QED BY <2>2, <2>4, <4>2 DEF Kept
    <3> QED BY <3>1, <3>2
  <2>8. 1 .. (m + 1) \subseteq mine => Len(w) = Len(t) + (m + 1)
    <3>1. 1 .. m \subseteq 1 .. (m + 1)
      OBVIOUS
    <3>2. 1 .. (m + 1) \subseteq mine => Len(u) = Len(t) + m
      BY <2>a, <3>1
    <3>3. PICK lt, lu : lt = Len(t) /\ lu = Len(u)
      OBVIOUS
    <3>a. lt \in Nat /\ lu \in Nat
      BY <2>3, <3>3
    <3>4. (lu = lt + m => lu + 1 = lt + (m + 1))
      BY <3>a
    <3> QED BY <2>2, <3>2, <3>3, <3>4
  <2>9. Grown(t, queue, mine, m + 1, w)
    BY <2>2, <2>4, <2>5, <2>6, <2>7, <2>8 DEF Grown
  <2> QED BY <1>1, <2>1, <2>9
<1>2. CASE m + 1 \notin mine
  <2>1. /\ \A n \in mine : n <= m + 1 <=> n <= m
        /\ m + 1 \in 1 .. (m + 1)
    BY <1>2
  <2> QED BY <1>2, <2>1 DEF Grown
<1> QED BY <1>1, <1>2

(* The whole queue.                                                        *)
LEMMA InsertAllTier ==
  ASSUME NEW t, TierOk(t), NEW queue, IsSequence(queue), NEW mine \in SUBSET DOMAIN queue,
         \A n \in mine : Raw(queue[n])
  PROVE  /\ Grown(t, queue, mine, Len(queue), InsertAll(t, queue, mine))
         /\ Len(queue) = 0 => InsertAll(t, queue, mine) = t
<1> DEFINE Step(f, n) == IF n = 0 THEN t ELSE IF n \in mine THEN Insert(f[n - 1], queue[n]) ELSE f[n - 1]
           Grows(f, m) == f = [n \in 0 .. m |-> Step(f, n)]
           grown == CHOOSE f : Grows(f, Len(queue))
<1>1. Len(queue) \in Nat /\ DOMAIN queue = 1 .. Len(queue) /\ mine \in SUBSET Nat /\ IsSequence(t)
  BY SequenceShape DEF TierOk
<1>2. \A m \in Nat : \E f : Grows(f, m)
  <2>1. SUFFICES ASSUME \E m \in Nat : ~ \E f : Grows(f, m) PROVE FALSE
    OBVIOUS
  <2>2. PICK S : S = {m \in Nat : ~ \E f : Grows(f, m)}
    OBVIOUS
  <2>3. PICK m : m \in S /\ m \in Nat /\ \A y \in S : m <= y
    BY <2>1, <2>2, MinIsLeast
  <2>4. m # 0
    <3>1. Grows([n \in 0 .. 0 |-> t], 0)
      OBVIOUS
    <3> QED BY <2>2, <2>3, <3>1
  <2>5. PICK f : Grows(f, m - 1)
    <3>1. m - 1 \in Nat /\ ~ (m <= m - 1)
      BY <2>3, <2>4
    <3> QED BY <2>2, <2>3, <3>1
  <2> DEFINE g == [n \in 0 .. m |-> IF n = m THEN Step(f, m) ELSE f[n]]
  <2>6. \A n \in 0 .. m : g[n] = Step(g, n)
    <3>1. \A n \in 0 .. (m - 1) : f[n] = Step(f, n)
      BY <2>5
    <3>2. \A n \in 0 .. m : n # 0 => n - 1 \in 0 .. m /\ n - 1 # m /\ n - 1 \in 0 .. (m - 1)
      BY <2>3, <2>4
    <3>3. \A n \in 0 .. m : Step(g, n) = Step(f, n)
      BY <3>2
    <3>4. \A n \in 0 .. m : n # m => n \in 0 .. (m - 1)
      BY <2>3
    <3> QED BY <3>1, <3>3, <3>4
  <2>7. Grows(g, m)
    <3> HIDE DEF Step
    <3>1. g = [n \in 0 .. m |-> g[n]]
      OBVIOUS
    <3> HIDE DEF g
    <3> QED BY <2>6, <3>1
  <2> QED BY <2>2, <2>3, <2>7
<1>3. Grows(grown, Len(queue))
  <2>1. \E f : Grows(f, Len(queue))
    BY <1>1, <1>2
  <2> HIDE DEF Grows
  <2> QED BY <2>1
<1>4. InsertAll(t, queue, mine) = grown[Len(queue)]
  BY DEF InsertAll
<1> HIDE DEF grown
<1>5. \A n \in 0 .. Len(queue) : grown[n] = Step(grown, n)
  BY <1>3
<1> HIDE DEF Grows
<1>6. grown[0] = t
  BY <1>1, <1>5
<1>7. Grown(t, queue, mine, 0, t)
  <2>1. \A n \in mine : ~ (n <= 0)
    BY <1>1
  <2>2. \A x \in DOMAIN t : Kept(t[x], t[x])
    BY DEF Kept
  <2>3. Len(t) <= Len(t) /\ Len(t) = Len(t) + 0
    BY <1>1, SequenceShape
  <2> QED BY <2>1, <2>2, <2>3 DEF Grown
<1>8. \A n \in Nat : n <= Len(queue) => Grown(t, queue, mine, n, grown[n])
  <2>1. SUFFICES ASSUME \E n \in Nat : n <= Len(queue) /\ ~Grown(t, queue, mine, n, grown[n]) PROVE FALSE
    OBVIOUS
  <2>2. PICK S : S = {n \in Nat : n <= Len(queue) /\ ~Grown(t, queue, mine, n, grown[n])}
    OBVIOUS
  <2>3. PICK n : n \in S /\ n \in Nat /\ \A y \in S : n <= y
    BY <2>1, <2>2, MinIsLeast
  <2>4. n # 0
    BY <1>6, <1>7, <2>2, <2>3
  <2>5. PICK m : m = n - 1
    OBVIOUS
  <2>6. m \in Nat /\ n = m + 1 /\ m <= Len(queue) /\ ~ (n <= m) /\ n \in 0 .. Len(queue)
    BY <1>1, <2>2, <2>3, <2>4, <2>5
  <2>7. Grown(t, queue, mine, m, grown[m])
    BY <2>2, <2>3, <2>6
  <2>8. grown[n] = IF n \in mine THEN Insert(grown[m], queue[n]) ELSE grown[m]
    BY <1>5, <2>4, <2>5, <2>6
  <2>9. Grown(t, queue, mine, n, grown[n])
    BY <1>1, <2>6, <2>7, <2>8, GrownStep
  <2> QED BY <2>2, <2>3, <2>9
<1> QED BY <1>1, <1>4, <1>6, <1>8

------------------------------------------------------------------------------
(* What an annotation's proposals are queued as.                           *)

PlaceIn(P, j) == Cardinality({m \in P : m <= j})

(* The places of the elements of a finite set of numbers are all different *)
(* and run from 1.                                                         *)
LEMMA Numbered ==
  ASSUME NEW P \in SUBSET Nat, IsFiniteSet(P)
  PROVE  /\ Cardinality(P) \in Nat
         /\ \A j \in P : PlaceIn(P, j) \in 1 .. Cardinality(P)
         /\ \A j, h \in P : PlaceIn(P, j) = PlaceIn(P, h) => j = h
         /\ \A n \in 1 .. Cardinality(P) : \E j \in P : PlaceIn(P, j) = n
<1> DEFINE below == [j \in P |-> {m \in P : m <= j}]
<1>1. \A j \in P : /\ IsFiniteSet(below[j]) /\ Cardinality(below[j]) \in Nat
                   /\ Cardinality(below[j]) <= Cardinality(P)
  <2>1. \A j \in P : below[j] \subseteq P
    OBVIOUS
  <2> HIDE DEF below
  <2> QED BY <2>1, FS_Subset, FS_CardinalityType
<1>2. \A j \in P : j \in below[j] /\ PlaceIn(P, j) = Cardinality(below[j])
  BY DEF PlaceIn
<1>3. ASSUME NEW j \in P, NEW h \in P, j < h PROVE Cardinality(below[j]) < Cardinality(below[h])
  <2>a. below[j] = {m \in P : m <= j} /\ below[h] = {m \in P : m <= h}
    OBVIOUS
  <2>b. \A m \in P : m <= j => m <= h
    BY <1>3
  <2>c. h <= h /\ ~ (h <= j)
    BY <1>3
  <2>1. below[j] \subseteq below[h] /\ h \in below[h] /\ h \notin below[j]
    BY <2>a, <2>b, <2>c
  <2> HIDE DEF below
  <2>2. Cardinality(below[j]) <= Cardinality(below[h])
    BY <1>1, <2>1, FS_Subset
  <2>3. Cardinality(below[j]) # Cardinality(below[h])
    BY <1>1, <2>1, FS_Subset
  <2> QED BY <1>1, <2>2, <2>3
<1>4. Cardinality(P) \in Nat
  BY FS_CardinalityType
<1> HIDE DEF below
<1>5. \A j \in P : PlaceIn(P, j) \in 1 .. Cardinality(P)
  <2>1. \A j \in P : Cardinality(below[j]) # 0
    BY <1>1, <1>2, FS_EmptySet
  <2> QED BY <1>1, <1>2, <1>4, <2>1
<1>6. \A j, h \in P : PlaceIn(P, j) = PlaceIn(P, h) => j = h
  <2>1. \A j, h \in P : j < h \/ h < j \/ j = h
    OBVIOUS
  <2>2. \A j, h \in P : j < h => PlaceIn(P, j) < PlaceIn(P, h)
    BY <1>2, <1>3
  <2>3. \A j \in P : PlaceIn(P, j) \in Nat
    BY <1>1, <1>2
  <2> QED BY <2>1, <2>2, <2>3
<1>7. \A n \in 1 .. Cardinality(P) : \E j \in P : PlaceIn(P, j) = n
  <2> DEFINE f == [j \in P |-> PlaceIn(P, j)]
             T == 1 .. Cardinality(P)
  <2>1. f \in Injection(P, T)
    BY <1>5, <1>6 DEF Injection, IsInjective
  <2>2. IsFiniteSet(T) /\ Cardinality(T) = Cardinality(P)
    BY <1>4, FS_Interval
  <2>3. f \in Surjection(P, T)
    <3> HIDE DEF f, T
    <3> QED BY <2>1, <2>2, FS_Injection
  <2> QED BY <2>3 DEF Surjection
<1> QED BY <1>4, <1>5, <1>6, <1>7

LEMMA QueuedFacts ==
  ASSUME NEW delta, NEW P \in SUBSET DOMAIN plans[pid], IsSequence(plans[pid])
  PROVE  /\ IsSequence(Queued(delta, P)) /\ Len(Queued(delta, P)) = Cardinality(P)
         /\ DOMAIN Queued(delta, P) = 1 .. Cardinality(P)
         /\ \A q \in DOMAIN Queued(delta, P) : \E j \in P :
              /\ Queued(delta, P)[q].program = pid /\ Queued(delta, P)[q].parent = j
              /\ Queued(delta, P)[q].content = Merged(plans[pid][j].content, delta)
         /\ \A j \in P : \E q \in DOMAIN Queued(delta, P) :
              /\ Queued(delta, P)[q].program = pid
              /\ Queued(delta, P)[q].content = Merged(plans[pid][j].content, delta)
         /\ P = {} => Cardinality(P) = 0
<1>1. Len(plans[pid]) \in Nat /\ P \in SUBSET (1 .. Len(plans[pid]))
  BY SequenceShape
<1>2. IsFiniteSet(P) /\ P \in SUBSET Nat
  <2>1. IsFiniteSet(1 .. Len(plans[pid]))
    BY <1>1, FS_Interval
  <2> QED BY <1>1, <2>1, FS_Subset
<1> DEFINE Nth(n) == CHOOSE j \in P : PlaceIn(P, j) = n
           Entry(j) == [program |-> pid, parent |-> j, content |-> Merged(plans[pid][j].content, delta),
                        rule |-> rules[slot], slot |-> slot]
           queue == Queued(delta, P)
<1>3. queue = [n \in 1 .. Cardinality(P) |-> Entry(Nth(n))]
  BY DEF Queued, PlaceIn
<1>4. /\ \A n \in 1 .. Cardinality(P) : Nth(n) \in P
      /\ \A j \in P : PlaceIn(P, j) \in 1 .. Cardinality(P) /\ Nth(PlaceIn(P, j)) = j
      /\ Cardinality(P) \in Nat
  BY <1>2, Numbered
<1>5. \A j : /\ Entry(j).program = pid /\ Entry(j).parent = j
             /\ Entry(j).content = Merged(plans[pid][j].content, delta)
  OBVIOUS
<1> HIDE DEF queue, Entry, Nth
<1>6. IsSequence(queue) /\ Len(queue) = Cardinality(P) /\ DOMAIN queue = 1 .. Cardinality(P)
  <2>1. queue = [n \in 1 .. Cardinality(P) |-> queue[n]]
    BY <1>3
  <2> QED BY <1>4, <2>1, FunctionIsSequence
<1>7. \A q \in DOMAIN queue : \E j \in P : queue[q] = Entry(j)
  BY <1>3, <1>4
<1>8. \A j \in P : \E q \in DOMAIN queue : queue[q] = Entry(j)
  BY <1>3, <1>4
<1>9. P = {} => Cardinality(P) = 0
  BY FS_EmptySet
<1> QED BY <1>5, <1>6, <1>7, <1>8, <1>9 DEF queue

LEMMA ConcatSequence ==
  ASSUME NEW s, IsSequence(s), NEW t, IsSequence(t)
  PROVE  /\ IsSequence(s \o t) /\ Len(s \o t) = Len(s) + Len(t)
         /\ \A x \in DOMAIN s : x \in DOMAIN (s \o t) /\ (s \o t)[x] = s[x]
         /\ \A x \in DOMAIN t : Len(s) + x \in DOMAIN (s \o t) /\ (s \o t)[Len(s) + x] = t[x]
         /\ \A y \in DOMAIN (s \o t) : y \in DOMAIN s \/ \E x \in DOMAIN t : y = Len(s) + x
         /\ Range(s \o t) = Range(s) \cup Range(t)
         /\ t = <<>> => s \o t = s
<1> DEFINE S == {s[x] : x \in DOMAIN s} \cup {t[x] : x \in DOMAIN t}
           u == s \o t
<1>1. Len(s) \in Nat /\ DOMAIN s = 1 .. Len(s) /\ Len(t) \in Nat /\ DOMAIN t = 1 .. Len(t)
  BY SequenceShape
<1>2. s \in Seq(S) /\ t \in Seq(S)
  <2>1. s \in [1 .. Len(s) -> S] /\ t \in [1 .. Len(t) -> S]
    BY <1>1 DEF IsSequence
  <2> QED BY <1>1, <2>1
<1> HIDE DEF S
<1>3. /\ u \in Seq(S) /\ Len(u) = Len(s) + Len(t)
      /\ \A x \in 1 .. Len(s) + Len(t) : u[x] = IF x <= Len(s) THEN s[x] ELSE t[x - Len(s)]
  BY <1>2, ConcatProperties
<1>4. t = <<>> => u = s
  BY <1>2, ConcatEmptySeq
<1> HIDE DEF u
<1>5. IsSequence(u) /\ DOMAIN u = 1 .. (Len(s) + Len(t))
  <2>1. Len(u) \in Nat /\ u = [x \in 1 .. Len(u) |-> u[x]]
    BY <1>3, LenProperties
  <2> QED BY <1>3, <2>1, FunctionIsSequence
<1>6. \A x \in DOMAIN s : x \in DOMAIN u /\ u[x] = s[x]
  BY <1>1, <1>3, <1>5
<1>7. \A x \in DOMAIN t : Len(s) + x \in DOMAIN u /\ u[Len(s) + x] = t[x]
  <2>1. ASSUME NEW x \in DOMAIN t PROVE Len(s) + x \in DOMAIN u /\ u[Len(s) + x] = t[x]
    <3>1. Len(s) + x \in 1 .. Len(s) + Len(t) /\ ~ (Len(s) + x <= Len(s)) /\ (Len(s) + x) - Len(s) = x
      BY <1>1
    <3> QED BY <1>3, <1>5, <3>1
  <2> QED BY <2>1
<1>8. \A y \in DOMAIN u : y \in DOMAIN s \/ \E x \in DOMAIN t : y = Len(s) + x
  <2>1. ASSUME NEW y \in DOMAIN u, y \notin DOMAIN s PROVE \E x \in DOMAIN t : y = Len(s) + x
    <3>1. y - Len(s) \in DOMAIN t /\ y = Len(s) + (y - Len(s))
      BY <1>1, <1>5, <2>1
    <3> QED BY <3>1
  <2> QED BY <2>1
<1>9. Range(u) = Range(s) \cup Range(t)
  BY <1>6, <1>7, <1>8 DEF Range
<1> QED BY <1>3, <1>4, <1>5, <1>6, <1>7, <1>8, <1>9 DEF u

------------------------------------------------------------------------------
(* The steps of a round.                                                   *)

(* The sites of a rule at a program are numbered from 1.                   *)
LEMMA SitesShape ==
  ASSUME GraphOk, RoundOk, NEW s \in DOMAIN rules, NEW n \in DOMAIN programs
  PROVE  /\ rules[s] \in DOMAIN Proposals /\ programs[n].content \in ProgramNames
         /\ IsSequence(SitesAt(s, n)) /\ Len(SitesAt(s, n)) \in Nat
         /\ DOMAIN SitesAt(s, n) = 1 .. Len(SitesAt(s, n))
         /\ \A x \in DOMAIN SitesAt(s, n) :
              \/ SitesAt(s, n)[x].kind = "program" /\ SitesAt(s, n)[x].to \in ProgramNames \cup {Invalid}
              \/ SitesAt(s, n)[x].kind = "annotation"
<1>1. rules[s] \in DOMAIN Proposals /\ programs[n].content \in ProgramNames
  BY DEF GraphOk, RoundOk
<1>2. SitesAt(s, n) = Proposals[rules[s]][programs[n].content]
  BY DEF SitesAt, Sites
<1>3. IsSequence(SitesAt(s, n))
  BY <1>1, <1>2, ProposalsAssumption DEF IsSequence
<1>4. \A x \in DOMAIN SitesAt(s, n) :
         \/ SitesAt(s, n)[x].kind = "program" /\ SitesAt(s, n)[x].to \in ProgramNames \cup {Invalid}
         \/ SitesAt(s, n)[x].kind = "annotation"
  BY <1>1, <1>2, ProposalsAssumption
<1> QED BY <1>1, <1>3, <1>4, SequenceShape

(* Where the graph, the queues and the memo stay.                          *)
LEMMA SameGraph ==
  ASSUME IInv, UNCHANGED <<programs, plans, rules, memo, pendingPrograms, pendingPlans, limits, outcome, calls>>,
         pc # "idle", pc' # "idle"
  PROVE  GraphOk' /\ QueueOk' /\ MemoOk' /\ ClosedOk'
<1>1. GraphOk'
  BY DEF IInv, GraphOk
<1>2. QueueOk'
  BY DEF IInv, QueueOk
<1>3. /\ QueuedPrograms' = QueuedPrograms
      /\ \A n : QueuedPlans(n)' = QueuedPlans(n)
      /\ \A s, n : SitesAt(s, n)' = SitesAt(s, n)
      /\ \A s, q : MayExtend(s, q)' <=> MayExtend(s, q)
  BY DEF QueuedPrograms, QueuedPlans, NewPlansOf, SitesAt, MayExtend
<1>4. \A n, s, x : Remembered(n, s, x)' <=> Remembered(n, s, x)
  BY DEF Remembered, QueuedPrograms, QueuedPlans, NewPlansOf, SitesAt, MayExtend
<1>5. MemoOk'
  BY <1>3, <1>4 DEF IInv, MemoOk
<1>6. outcome' = "none"
  BY DEF IInv, RoundOk
<1> QED BY <1>1, <1>2, <1>5, <1>6 DEF ClosedOk

LEMMA SweepStep ==
  ASSUME IInv, UNCHANGED <<programs, plans, rules, memo, limits, bound>>, pc # "idle",
         ~bound => \A s \in DOMAIN rules : \A n \in DOMAIN programs : Matched(n) =>
           \A x \in DOMAIN SitesAt(s, n) : Passed(s, n, x)' => Passed(s, n, x) \/ Answered(s, n, x)
  PROVE  SweepOk'
<1>1. /\ \A s, n : SitesAt(s, n)' = SitesAt(s, n)
      /\ \A n : Matched(n)' <=> Matched(n)
  BY DEF SitesAt, Matched, Representatives
<1>2. \A s, n : MayRewrite(s, n)' <=> MayRewrite(s, n)
  BY DEF MayRewrite, Produced
<1>3. \A s, n, x : Answered(s, n, x)' <=> Answered(s, n, x)
  BY <1>1, <1>2 DEF Answered
<1> QED BY <1>1, <1>3 DEF IInv, SweepOk

LEMMA PassStep == ASSUME IInv, Pass PROVE IInv'
<1>1. /\ pc = "node" /\ pid \in DOMAIN programs /\ pid' = pid + 1
      /\ (~Matched(pid)) \/ Blocked(slot, pid)
      /\ UNCHANGED <<programs, plans, rules, memo, ruleKind, pendingPrograms, pendingPlans, limits, pc, slot,
                     site, iter, bound, outcome, calls>>
  BY DEF Pass, graph, queues
<1>2. GraphOk' /\ QueueOk' /\ MemoOk' /\ ClosedOk'
  BY <1>1, SameGraph
<1>3. RoundOk'
  BY <1>1 DEF IInv, RoundOk
<1>4. ASSUME NEW s \in DOMAIN rules, NEW n \in DOMAIN programs, Matched(n),
             NEW x \in DOMAIN SitesAt(s, n), Passed(s, n, x)'
      PROVE  Passed(s, n, x) \/ Answered(s, n, x)
  <2>1. s < slot \/ (s = slot /\ n < pid + 1)
    BY <1>1, <1>4 DEF Passed
  <2>2. n \in Nat /\ pid \in Nat
    BY SequenceShape DEF IInv, RoundOk, GraphOk, TierOk
  <2>3. CASE s < slot \/ (s = slot /\ n < pid)
    BY <2>3 DEF Passed
  <2>4. CASE s = slot /\ n = pid
    <3>1. Blocked(s, n)
      BY <1>1, <1>4, <2>4
    <3>2. limits.refire # AllRules /\ n # 1 /\ ruleKind[s] = "program" /\ Produced(n) # rules[s]
      BY <3>1 DEF Blocked
    <3>3. ~MayRewrite(s, n)
      BY <3>2 DEF MayRewrite
    <3>4. PICK program \in ProgramNames : \E y \in DOMAIN Sites(rules[s], program) :
                                            Sites(rules[s], program)[y].kind = "program"
      BY <3>2 DEF IInv, RoundOk
    <3>5. PICK y \in DOMAIN Sites(rules[s], program) : Sites(rules[s], program)[y].kind = "program"
      BY <3>4
    <3>6. rules[s] \in DOMAIN Proposals /\ programs[n].content \in ProgramNames
      BY SitesShape DEF IInv
    <3>7. OneKind => SitesAt(s, n)[x].kind = "program"
      BY <3>5, <3>6 DEF OneKind, SitesAt, Sites
    <3> QED BY <3>2, <3>3, <3>7 DEF Answered
  <2> QED BY <2>1, <2>2, <2>3, <2>4
<1>5. SweepOk'
  BY <1>1, <1>4, SweepStep
<1> QED BY <1>2, <1>3, <1>5 DEF IInv

LEMMA MatchStep == ASSUME IInv, Match PROVE IInv'
<1>1. /\ pc = "node" /\ pid \in DOMAIN programs /\ pc' = "site" /\ site' = 1
      /\ UNCHANGED <<programs, plans, rules, memo, ruleKind, pendingPrograms, pendingPlans, limits, slot, pid,
                     iter, bound, outcome, calls>>
  BY DEF Match, graph, queues
<1>2. GraphOk' /\ QueueOk' /\ MemoOk' /\ ClosedOk'
  BY <1>1, SameGraph
<1>3. RoundOk'
  BY <1>1 DEF IInv, RoundOk
<1>4. ASSUME NEW s \in DOMAIN rules, NEW n \in DOMAIN programs,
             NEW x \in DOMAIN SitesAt(s, n), Passed(s, n, x)'
      PROVE  Passed(s, n, x)
  <2>1. s < slot \/ (s = slot /\ n < pid) \/ x < 1
    BY <1>1, <1>4 DEF Passed
  <2>2. x \in Nat /\ ~ (x < 1)
    BY SitesShape DEF IInv
  <2> QED BY <2>1, <2>2 DEF Passed
<1>5. SweepOk'
  BY <1>1, <1>4, SweepStep
<1> QED BY <1>2, <1>3, <1>5 DEF IInv

LEMMA NextRuleRound ==
  ASSUME RoundOk, pc \in {"node", "site"}, NextRule, UNCHANGED <<rules, limits, calls, outcome, programs, ruleKind>>,
         site' \in Nat \ {0}
  PROVE  RoundOk' /\ pc' \in {"node", "rebuild"} /\ slot' = slot + 1 /\ pid' = 1
<1>1. /\ slot' = slot + 1 /\ pid' = 1 /\ pc' = IF slot = Len(rules) THEN "rebuild" ELSE "node"
  BY DEF NextRule
<1>2. Len(rules) \in Nat /\ DOMAIN rules = 1 .. Len(rules) /\ slot \in 1 .. Len(rules)
  BY LenProperties DEF RoundOk
<1>a. PICK last, here : last = Len(rules) /\ here = slot
  OBVIOUS
<1>b. last \in Nat /\ here \in 1 .. last
  BY <1>2, <1>a
<1>c. /\ here + 1 \in Nat \ {0}
      /\ here # last => here + 1 \in 1 .. last
  BY <1>b
<1>3. pc' = "node" => slot' \in DOMAIN rules
  BY <1>1, <1>2, <1>a, <1>c
<1>4. /\ pc' \in {"node", "rebuild"} /\ slot' \in Nat \ {0}
      /\ pc' = "rebuild" => slot' = Len(rules) + 1
  BY <1>1, <1>a, <1>c
<1>5. DOMAIN ruleKind' = DOMAIN rules' /\ calls' = calls /\ rules' = rules /\ calls # 0 /\ outcome' = "none"
  BY DEF RoundOk
<1> QED BY <1>1, <1>3, <1>4, <1>5 DEF RoundOk

LEMMA EndRuleStep == ASSUME IInv, EndRule PROVE IInv'
<1>1. /\ pc = "node" /\ pid \notin DOMAIN programs /\ NextRule
      /\ UNCHANGED <<programs, plans, rules, memo, ruleKind, pendingPrograms, pendingPlans, limits, site, iter,
                     bound, outcome, calls>>
  BY DEF EndRule, graph, queues
<1>2. RoundOk' /\ pc' \in {"node", "rebuild"} /\ slot' = slot + 1 /\ pid' = 1
  BY <1>1, NextRuleRound DEF IInv, RoundOk
<1>3. GraphOk' /\ QueueOk' /\ MemoOk' /\ ClosedOk'
  BY <1>1, <1>2, SameGraph
<1>4. ASSUME NEW s \in DOMAIN rules, NEW n \in DOMAIN programs,
             NEW x \in DOMAIN SitesAt(s, n), Passed(s, n, x)'
      PROVE  Passed(s, n, x)
  <2>1. /\ n \in Nat /\ n >= 1 /\ n <= Len(programs) /\ pid \in Nat /\ pid >= 1 /\ ~ (pid <= Len(programs))
        /\ Len(programs) \in Nat
    BY <1>1, SequenceShape DEF IInv, RoundOk, GraphOk, TierOk
  <2>2. s \in Nat /\ slot \in Nat
    BY LenProperties DEF IInv, RoundOk
  <2>3. s < slot + 1 \/ (s = slot + 1 /\ n < 1)
    BY <1>2, <1>4 DEF Passed
  <2>4. s < slot \/ (s = slot /\ n < pid)
    BY <2>1, <2>2, <2>3
  <2> QED BY <2>4 DEF Passed
<1>5. SweepOk'
  BY <1>1, <1>4, SweepStep
<1> QED BY <1>2, <1>3, <1>5 DEF IInv

LEMMA EndSitesStep == ASSUME IInv, EndSites PROVE IInv'
<1>1. /\ pc = "site" /\ site \notin DOMAIN SitesAt(slot, pid) /\ pc' = "node" /\ pid' = pid + 1
      /\ UNCHANGED <<programs, plans, rules, memo, ruleKind, pendingPrograms, pendingPlans, limits, slot, site,
                     iter, bound, outcome, calls>>
  BY DEF EndSites, graph, queues, At, SitesAt
<1>2. GraphOk' /\ QueueOk' /\ MemoOk' /\ ClosedOk'
  BY <1>1, SameGraph
<1>3. RoundOk'
  BY <1>1 DEF IInv, RoundOk
<1>4. ASSUME NEW s \in DOMAIN rules, NEW n \in DOMAIN programs,
             NEW x \in DOMAIN SitesAt(s, n), Passed(s, n, x)'
      PROVE  Passed(s, n, x)
  <2>1. n \in Nat /\ pid \in Nat /\ site \in Nat /\ site >= 1
    BY SequenceShape DEF IInv, RoundOk, GraphOk, TierOk
  <2>2. s < slot \/ (s = slot /\ n < pid + 1)
    BY <1>1, <1>4 DEF Passed
  <2>3. CASE s = slot /\ n = pid
    <3>1. x \in 1 .. Len(SitesAt(slot, pid)) /\ site \notin 1 .. Len(SitesAt(slot, pid))
          /\ Len(SitesAt(slot, pid)) \in Nat
      BY <1>1, <2>3, SitesShape DEF IInv
    <3>2. x < site
      BY <2>1, <3>1
    <3> QED BY <1>1, <2>3, <3>2 DEF Passed
  <2> QED BY <2>1, <2>2, <2>3 DEF Passed
<1>5. SweepOk'
  BY <1>1, <1>4, SweepStep
<1> QED BY <1>2, <1>3, <1>5 DEF IInv

LEMMA RecallStep == ASSUME IInv, Recall PROVE IInv'
<1>1. /\ pc = "site" /\ site \in DOMAIN SitesAt(slot, pid) /\ Recalled(memo[pid][slot][site])
      /\ site' = site + 1
      /\ UNCHANGED <<programs, plans, rules, memo, ruleKind, pendingPrograms, pendingPlans, limits, pc, slot,
                     pid, iter, bound, outcome, calls>>
  BY DEF Recall, graph, queues, At, SitesAt
<1>2. GraphOk' /\ QueueOk' /\ MemoOk' /\ ClosedOk'
  BY <1>1, SameGraph
<1>3. RoundOk'
  BY <1>1 DEF IInv, RoundOk
<1>4. Answered(slot, pid, site)
  <2>1. slot \in DOMAIN rules /\ pid \in DOMAIN programs /\ calls > 0
    BY <1>1 DEF IInv, RoundOk
  <2>2. Remembered(pid, slot, site)
    BY <1>1, <2>1 DEF IInv, MemoOk
  <2>3. memo[pid][slot][site].done \in Nat /\ memo[pid][slot][site].done <= Len(plans[pid])
    BY <2>2 DEF Remembered
  <2>4. Len(plans[pid]) \in Nat
    BY <2>1, SequenceShape DEF IInv, GraphOk, TierOk
  <2> QED BY <1>1, <2>3, <2>4 DEF Recalled, Answered
<1>5. ASSUME NEW s \in DOMAIN rules, NEW n \in DOMAIN programs,
             NEW x \in DOMAIN SitesAt(s, n), Passed(s, n, x)'
      PROVE  Passed(s, n, x) \/ Answered(s, n, x)
  <2>1. x \in Nat /\ site \in Nat
    BY SitesShape DEF IInv, RoundOk
  <2>2. s < slot \/ (s = slot /\ n < pid) \/ (s = slot /\ n = pid /\ x < site + 1)
    BY <1>1, <1>5 DEF Passed
  <2>3. CASE s = slot /\ n = pid /\ x = site
    BY <1>4, <2>3
  <2> QED BY <1>1, <2>1, <2>2, <2>3 DEF Passed
<1>6. SweepOk'
  BY <1>1, <1>5, SweepStep
<1> QED BY <1>2, <1>3, <1>6 DEF IInv

LEMMA CutProgramsStep == ASSUME IInv, CutPrograms PROVE IInv'
<1>1. /\ pc = "site" /\ NextRule /\ bound' = TRUE
      /\ UNCHANGED <<programs, plans, rules, memo, ruleKind, pendingPrograms, pendingPlans, limits, site, iter,
                     outcome, calls>>
  BY DEF CutPrograms, Proposes, Cut, graph, queues
<1>2. RoundOk' /\ pc' \in {"node", "rebuild"} /\ slot' = slot + 1 /\ pid' = 1
  BY <1>1, NextRuleRound DEF IInv, RoundOk
<1>3. GraphOk' /\ QueueOk' /\ MemoOk' /\ ClosedOk'
  BY <1>1, <1>2, SameGraph
<1> QED BY <1>1, <1>2, <1>3 DEF IInv, SweepOk

(* The memo with entry e at one place.                                     *)
Updated(mm, n, s, x, e) == [mm EXCEPT ![n][s][x] = e]

LEMMA UpdatedFields ==
  ASSUME NEW mm, NEW n0 \in DOMAIN mm, NEW s0 \in DOMAIN mm[n0], NEW x0 \in DOMAIN mm[n0][s0], NEW e
  PROVE  /\ DOMAIN Updated(mm, n0, s0, x0, e) = DOMAIN mm
         /\ \A n \in DOMAIN mm :
              /\ DOMAIN Updated(mm, n0, s0, x0, e)[n] = DOMAIN mm[n]
              /\ \A s \in DOMAIN mm[n] :
                   /\ DOMAIN Updated(mm, n0, s0, x0, e)[n][s] = DOMAIN mm[n][s]
                   /\ \A x \in DOMAIN mm[n][s] : ~ (n = n0 /\ s = s0 /\ x = x0) =>
                         Updated(mm, n0, s0, x0, e)[n][s][x] = mm[n][s][x]
         /\ Updated(mm, n0, s0, x0, e)[n0][s0][x0] = e
<1> DEFINE row == [mm[n0] EXCEPT ![s0] = [mm[n0][s0] EXCEPT ![x0] = e]]
           u == Updated(mm, n0, s0, x0, e)
<1>1. u = [mm EXCEPT ![n0] = row]
  BY DEF Updated
<1>2. /\ DOMAIN u = DOMAIN mm /\ u[n0] = row
      /\ \A n \in DOMAIN mm : n # n0 => u[n] = mm[n]
  BY <1>1
<1>3. PICK cells : cells = [mm[n0][s0] EXCEPT ![x0] = e]
  OBVIOUS
<1>4. /\ DOMAIN cells = DOMAIN mm[n0][s0] /\ cells[x0] = e
      /\ \A x \in DOMAIN mm[n0][s0] : x # x0 => cells[x] = mm[n0][s0][x]
  BY <1>3
<1>5. /\ DOMAIN row = DOMAIN mm[n0] /\ row[s0] = cells
      /\ \A s \in DOMAIN mm[n0] : s # s0 => row[s] = mm[n0][s]
  BY <1>3
<1> HIDE DEF row, u
<1> QED BY <1>2, <1>4, <1>5 DEF u

(* An offer at site x0: what the memo learns there, with the queues grown. *)
LEMMA OfferStep ==
  ASSUME IInv, pc = "site", UNCHANGED <<programs, plans, rules, limits, outcome, calls>>, pc' # "idle",
         NEW n0, NEW s0, NEW x0, n0 = pid, s0 = slot, x0 = site, site \in DOMAIN SitesAt(slot, pid),
         NEW e, memo' = Updated(memo, n0, s0, x0, e), Remembered(n0, s0, x0)',
         QueuedPrograms \subseteq QueuedPrograms', \A n : QueuedPlans(n) \subseteq QueuedPlans(n)',
         bound' \/ (/\ UNCHANGED <<pc, slot, pid, bound>> /\ site' = site + 1
                    /\ Answered(s0, n0, x0)')
  PROVE  GraphOk' /\ MemoOk' /\ SweepOk' /\ ClosedOk'
<1>1. GraphOk'
  BY DEF IInv, GraphOk
<1>2. outcome' = "none" /\ calls > 0 /\ s0 \in DOMAIN rules /\ n0 \in DOMAIN programs
  BY DEF IInv, RoundOk
<1>3. /\ DOMAIN memo = DOMAIN programs
      /\ \A n \in DOMAIN programs :
           /\ DOMAIN memo[n] = DOMAIN rules
           /\ \A s \in DOMAIN rules : /\ DOMAIN memo[n][s] = DOMAIN SitesAt(s, n)
                                      /\ \A x \in DOMAIN SitesAt(s, n) : Remembered(n, s, x)
  BY <1>2 DEF IInv, MemoOk
<1>4. /\ DOMAIN memo' = DOMAIN programs
      /\ \A n \in DOMAIN programs :
           /\ DOMAIN memo'[n] = DOMAIN rules
           /\ \A s \in DOMAIN rules :
                /\ DOMAIN memo'[n][s] = DOMAIN SitesAt(s, n)
                /\ \A x \in DOMAIN SitesAt(s, n) : ~ (n = n0 /\ s = s0 /\ x = x0) =>
                     memo'[n][s][x] = memo[n][s][x]
  <2>1. n0 \in DOMAIN memo /\ s0 \in DOMAIN memo[n0] /\ x0 \in DOMAIN memo[n0][s0]
    BY <1>2, <1>3
  <2>2. /\ DOMAIN Updated(memo, n0, s0, x0, e) = DOMAIN memo
        /\ \A n \in DOMAIN memo :
             /\ DOMAIN Updated(memo, n0, s0, x0, e)[n] = DOMAIN memo[n]
             /\ \A s \in DOMAIN memo[n] :
                  /\ DOMAIN Updated(memo, n0, s0, x0, e)[n][s] = DOMAIN memo[n][s]
                  /\ \A x \in DOMAIN memo[n][s] : ~ (n = n0 /\ s = s0 /\ x = x0) =>
                        Updated(memo, n0, s0, x0, e)[n][s][x] = memo[n][s][x]
    BY <2>1, UpdatedFields
  <2> QED BY <1>3, <2>2
<1>5. /\ \A s, n : SitesAt(s, n)' = SitesAt(s, n)
      /\ \A s, q : MayExtend(s, q)' <=> MayExtend(s, q)
      /\ \A n : Matched(n)' <=> Matched(n)
      /\ \A s, n : MayRewrite(s, n)' <=> MayRewrite(s, n)
  BY DEF SitesAt, MayExtend, Matched, Representatives, MayRewrite, Produced
<1>6. ASSUME NEW n \in DOMAIN programs, NEW s \in DOMAIN rules, NEW x \in DOMAIN SitesAt(s, n)
      PROVE  Remembered(n, s, x)'
  <2>1. CASE n = n0 /\ s = s0 /\ x = x0
    BY <2>1
  <2>2. CASE ~ (n = n0 /\ s = s0 /\ x = x0)
    <3>1. memo'[n][s][x] = memo[n][s][x] /\ Remembered(n, s, x)
      BY <1>3, <1>4, <2>2
    <3>2. QueuedPlans(n) \subseteq QueuedPlans(n)'
      OBVIOUS
    <3> QED BY <1>5, <3>1, <3>2 DEF Remembered
  <2> QED BY <2>1, <2>2
<1>7. MemoOk'
  BY <1>4, <1>5, <1>6 DEF MemoOk
<1>8. ASSUME ~bound', NEW n \in DOMAIN programs, NEW s \in DOMAIN rules, Matched(n), NEW x \in DOMAIN SitesAt(s, n),
             Passed(s, n, x)'
      PROVE  Answered(s, n, x)'
  <2>1. CASE n = n0 /\ s = s0 /\ x = x0
    BY <1>8, <2>1
  <2>2. CASE ~ (n = n0 /\ s = s0 /\ x = x0)
    <3>1. /\ s < slot \/ (s = slot /\ n < pid) \/ (s = slot /\ n = pid /\ x < site + 1)
          /\ ~bound
      BY <1>8 DEF Passed
    <3>2. x \in Nat /\ site \in Nat
      BY SitesShape DEF IInv, RoundOk
    <3>3. x < site + 1 /\ x # site => x < site
      BY <3>2
    <3>4. Passed(s, n, x)
      BY <2>2, <3>1, <3>3 DEF Passed
    <3>5. Answered(s, n, x)
      BY <1>8, <3>1, <3>4 DEF IInv, SweepOk
    <3>6. memo'[n][s][x] = memo[n][s][x]
      BY <1>4, <2>2
    <3> QED BY <1>5, <3>5, <3>6 DEF Answered
  <2> QED BY <2>1, <2>2
<1>9. SweepOk'
  BY <1>5, <1>8 DEF SweepOk
<1> QED BY <1>1, <1>2, <1>7, <1>9 DEF ClosedOk

(* What a rule's kind says after one more proposal.                        *)
LEMMA NotedKind ==
  ASSUME IInv, pc = "site", site \in DOMAIN SitesAt(slot, pid), NEW kind \in {"program", "annotation"},
         SitesAt(slot, pid)[site].kind = kind, NoteKind(kind), UNCHANGED rules
  PROVE  /\ DOMAIN ruleKind' = DOMAIN rules'
         /\ \A s \in DOMAIN rules' : ruleKind'[s] = "program" =>
              \E program \in ProgramNames : \E x \in DOMAIN Sites(rules'[s], program) :
                Sites(rules'[s], program)[x].kind = "program"
<1>1. slot \in DOMAIN rules /\ DOMAIN ruleKind = DOMAIN rules /\ pid \in DOMAIN programs
  BY DEF IInv, RoundOk
<1>2. /\ DOMAIN ruleKind' = DOMAIN ruleKind
      /\ \A s \in DOMAIN ruleKind : s # slot => ruleKind'[s] = ruleKind[s]
      /\ ruleKind'[slot] \in {kind, "mixed"}
  BY <1>1 DEF NoteKind
<1>3. ASSUME NEW s \in DOMAIN rules, ruleKind'[s] = "program"
      PROVE  \E program \in ProgramNames : \E x \in DOMAIN Sites(rules[s], program) :
               Sites(rules[s], program)[x].kind = "program"
  <2>1. CASE s # slot
    BY <1>1, <1>2, <1>3, <2>1 DEF IInv, RoundOk
  <2>2. CASE s = slot
    <3>1. kind = "program"
      BY <1>2, <1>3, <2>2
    <3>2. programs[pid].content \in ProgramNames
      BY <1>1 DEF IInv, GraphOk
    <3> QED BY <2>2, <3>1, <3>2 DEF SitesAt
  <2> QED BY <2>1, <2>2
<1> QED BY <1>1, <1>2, <1>3

LEMMA OfferProgramStep == ASSUME IInv, OfferProgram PROVE IInv'
<1>1. /\ pc = "site" /\ site \in DOMAIN SitesAt(slot, pid) /\ SitesAt(slot, pid)[site].kind = "program"
      /\ ~Recalled(memo[pid][slot][site])
      /\ NoteKind("program") /\ site' = site + 1
      /\ memo' = [memo EXCEPT ![pid][slot][site].kind = "program"]
      /\ UNCHANGED <<programs, plans, rules, limits, iter, outcome, calls, pendingPlans, pc, slot, pid, bound>>
  BY DEF OfferProgram, Proposes, graph, At, SitesAt
<1>2. PICK program : program = SitesAt(slot, pid)[site].to
  OBVIOUS
<1>a. pendingPrograms' = IF program = Invalid \/ ProgramKnown(program) THEN pendingPrograms
                         ELSE Append(pendingPrograms, [content |-> program, parent |-> pid, rule |-> rules[slot]])
  BY <1>2 DEF OfferProgram, At, SitesAt
<1>3. slot \in DOMAIN rules /\ pid \in DOMAIN programs /\ calls > 0
  BY <1>1 DEF IInv, RoundOk
<1>4. program \in ProgramNames \cup {Invalid}
  BY <1>1, <1>2, <1>3, SitesShape DEF IInv
<1>5. /\ QueueOk' /\ QueuedPrograms \subseteq QueuedPrograms'
      /\ program \in {Invalid} \cup Contents(programs) \cup QueuedPrograms'
  <2>1. CASE program = Invalid \/ ProgramKnown(program)
    <3>1. pendingPrograms' = pendingPrograms
      BY <1>a, <2>1
    <3>2. QueueOk' /\ QueuedPrograms' = QueuedPrograms
      BY <1>1, <3>1 DEF IInv, QueueOk, QueuedPrograms
    <3> QED BY <2>1, <3>2 DEF ProgramKnown
  <2>2. CASE ~ (program = Invalid \/ ProgramKnown(program))
    <3>1. PICK entry : entry = [content |-> program, parent |-> pid, rule |-> rules[slot]]
      OBVIOUS
    <3>2. pendingPrograms' = Append(pendingPrograms, entry) /\ entry.content = program /\ entry.parent = pid
      BY <1>a, <2>2, <3>1
    <3>3. IsSequence(pendingPrograms)
      BY DEF IInv, QueueOk
    <3>4. /\ Len(pendingPrograms) \in Nat /\ DOMAIN pendingPrograms = 1 .. Len(pendingPrograms)
          /\ IsSequence(pendingPrograms')
          /\ DOMAIN pendingPrograms' = 1 .. (Len(pendingPrograms) + 1)
          /\ \A x \in 1 .. Len(pendingPrograms) : pendingPrograms'[x] = pendingPrograms[x]
          /\ pendingPrograms'[Len(pendingPrograms) + 1] = entry
      BY <3>2, <3>3, AppendSequence
    <3>5. \A q \in DOMAIN pendingPrograms' :
             \/ q \in DOMAIN pendingPrograms /\ pendingPrograms'[q] = pendingPrograms[q]
             \/ pendingPrograms'[q] = entry
      BY <3>4
    <3>6. program \in ProgramNames \ Contents(programs)
      BY <1>4, <2>2 DEF ProgramKnown
    <3>7. \A q \in DOMAIN pendingPrograms' :
             /\ pendingPrograms'[q].content \in ProgramNames \ Contents(programs)
             /\ pendingPrograms'[q].parent \in DOMAIN programs
      BY <1>3, <3>2, <3>5, <3>6 DEF IInv, QueueOk
    <3>8. QueueOk'
      BY <1>1, <3>4, <3>7 DEF IInv, QueueOk, Contents
    <3>9. QueuedPrograms \subseteq QueuedPrograms' /\ program \in QueuedPrograms'
      <4>1. \A q \in DOMAIN pendingPrograms : q \in DOMAIN pendingPrograms' /\ pendingPrograms'[q] = pendingPrograms[q]
        BY <3>4
      <4>2. Len(pendingPrograms) + 1 \in DOMAIN pendingPrograms'
        BY <3>4
      <4> QED BY <3>2, <3>4, <4>1, <4>2 DEF QueuedPrograms
    <3> QED BY <3>8, <3>9
  <2> QED BY <2>1, <2>2
<1>6. RoundOk'
  <2>1. /\ DOMAIN ruleKind' = DOMAIN rules'
        /\ \A s \in DOMAIN rules' : ruleKind'[s] = "program" =>
             \E p \in ProgramNames : \E x \in DOMAIN Sites(rules'[s], p) : Sites(rules'[s], p)[x].kind = "program"
    BY <1>1, NotedKind
  <2>2. site' \in Nat \ {0}
    BY <1>1 DEF IInv, RoundOk
  <2> QED BY <1>1, <2>1, <2>2 DEF IInv, RoundOk
<1>7. PICK n0, s0, x0, old, e : /\ n0 = pid /\ s0 = slot /\ x0 = site /\ old = memo[pid][slot][site]
                                /\ e = [old EXCEPT !.kind = "program"]
  OBVIOUS
<1>8. memo' = Updated(memo, n0, s0, x0, e)
  BY <1>1, <1>7 DEF Updated
<1>9. /\ pid \in DOMAIN memo /\ slot \in DOMAIN memo[pid] /\ site \in DOMAIN memo[pid][slot]
      /\ Remembered(pid, slot, site)
  BY <1>1, <1>3 DEF IInv, MemoOk
<1>10. /\ {"kind", "done"} \subseteq DOMAIN old /\ old.done = 0
  <2>1. old.kind # "annotation"
    BY <1>1, <1>7, <1>9 DEF Remembered
  <2> QED BY <1>7, <1>9, <2>1 DEF Remembered
<1>11. {"kind", "done"} \subseteq DOMAIN e /\ e.done = 0 /\ e.kind = "program"
  BY <1>7, <1>10
<1>12. memo'[n0][s0][x0] = e
  BY <1>7, <1>8, <1>9, UpdatedFields
<1>13. SitesAt(s0, n0)' = SitesAt(slot, pid)
  BY <1>1, <1>7 DEF SitesAt
<1>14. Remembered(n0, s0, x0)'
  <2>1. \A j \in DOMAIN plans[n0] : ~ (j <= 0)
    <3>1. IsSequence(plans[n0])
      BY <1>3, <1>7, SequenceShape DEF IInv, GraphOk, TierOk
    <3> QED BY <3>1, SequenceShape
  <2>2. Len(plans[n0]) \in Nat /\ 0 <= Len(plans[n0])
    BY <1>3, <1>7, SequenceShape DEF IInv, GraphOk, TierOk
  <2> QED BY <1>1, <1>2, <1>5, <1>7, <1>11, <1>12, <1>13, <2>1, <2>2 DEF Remembered
<1>15. Answered(s0, n0, x0)'
  BY <1>11, <1>12 DEF Answered
<1>16. \A n : QueuedPlans(n) \subseteq QueuedPlans(n)'
  BY <1>1 DEF QueuedPlans, NewPlansOf
<1>17. GraphOk' /\ MemoOk' /\ SweepOk' /\ ClosedOk'
  BY <1>1, <1>5, <1>7, <1>8, <1>14, <1>15, <1>16, OfferStep
<1> QED BY <1>5, <1>6, <1>17 DEF IInv

LEMMA OfferPlansStep == ASSUME IInv, OfferPlans PROVE IInv'
<1>1. /\ pc = "site" /\ site \in DOMAIN SitesAt(slot, pid) /\ SitesAt(slot, pid)[site].kind = "annotation"
      /\ ~Recalled(memo[pid][slot][site])
      /\ NoteKind("annotation")
      /\ UNCHANGED <<programs, plans, rules, limits, iter, outcome, calls, pendingPrograms>>
  BY DEF OfferPlans, Proposes, graph, At, SitesAt
<1>2. PICK delta, parents, taken, done :
        /\ delta = SitesAt(slot, pid)[site].delta /\ parents = Fresh(delta) /\ taken = Affordable(parents)
        /\ done = IF taken = parents THEN Len(plans[pid]) ELSE Min(parents \ taken) - 1
  OBVIOUS
<1>3. /\ pendingPlans' = pendingPlans \o Queued(delta, taken)
      /\ memo' = [memo EXCEPT ![pid][slot][site] = [kind |-> "annotation", done |-> done]]
      /\ IF taken = parents THEN site' = site + 1 /\ UNCHANGED <<pc, slot, pid, bound>>
         ELSE Cut
  BY <1>2 DEF OfferPlans, At, SitesAt
<1>4. slot \in DOMAIN rules /\ pid \in DOMAIN programs /\ calls > 0 /\ pid \in DOMAIN plans
  BY <1>1, SequenceShape DEF IInv, RoundOk, GraphOk, TierOk
<1>5. IsSequence(plans[pid]) /\ Len(plans[pid]) \in Nat /\ DOMAIN plans[pid] = 1 .. Len(plans[pid])
  BY <1>4, SequenceShape DEF IInv, GraphOk, TierOk
<1>6. PICK n0, s0, x0, old, e : /\ n0 = pid /\ s0 = slot /\ x0 = site /\ old = memo[pid][slot][site]
                                /\ e = [kind |-> "annotation", done |-> done]
  OBVIOUS
<1>7. /\ pid \in DOMAIN memo /\ slot \in DOMAIN memo[pid] /\ site \in DOMAIN memo[pid][slot]
      /\ Remembered(pid, slot, site)
  BY <1>1, <1>4 DEF IInv, MemoOk
<1>8. /\ parents \subseteq DOMAIN plans[pid] /\ taken \subseteq parents
      /\ \A j \in parents : Merged(plans[pid][j].content, delta) \notin Contents(plans[pid])
      /\ \A j \in DOMAIN plans[pid] : j > old.done /\ MayExtend(slot, plans[pid][j]) /\ j \notin parents =>
           Merged(plans[pid][j].content, delta) \in Contents(plans[pid])
  BY <1>2, <1>6 DEF Fresh, Affordable, PlanKnown
<1>9. /\ done \in Nat /\ done <= Len(plans[pid])
      /\ \A j \in parents : j <= done => j \in taken
  <2>1. CASE taken = parents
    BY <1>2, <1>5, <2>1
  <2>2. CASE taken # parents
    <3>1. PICK least : least = Min(parents \ taken)
      OBVIOUS
    <3>2. parents \ taken \in SUBSET Nat /\ parents \ taken # {}
      BY <1>5, <1>8, <2>2
    <3>3. least \in parents \ taken /\ \A j \in parents \ taken : least <= j
      BY <3>1, <3>2, MinIsLeast
    <3>4. least \in 1 .. Len(plans[pid])
      BY <1>5, <1>8, <3>3
    <3>5. done = least - 1
      BY <1>2, <2>2, <3>1
    <3>6. done \in Nat /\ done <= Len(plans[pid]) /\ ~ (least <= done)
      BY <1>5, <3>4, <3>5
    <3>7. ASSUME NEW j \in parents, j <= done, j \notin taken PROVE FALSE
      <4>1. least <= j /\ j \in 1 .. Len(plans[pid])
        BY <1>5, <1>8, <3>3, <3>7
      <4> QED BY <1>5, <3>4, <3>5, <3>7, <4>1
    <3> QED BY <3>6, <3>7
  <2> QED BY <2>1, <2>2
<1>10. /\ IsSequence(Queued(delta, taken))
       /\ \A q \in DOMAIN Queued(delta, taken) : \E j \in taken :
            /\ Queued(delta, taken)[q].program = pid /\ Queued(delta, taken)[q].parent = j
            /\ Queued(delta, taken)[q].content = Merged(plans[pid][j].content, delta)
       /\ \A j \in taken : \E q \in DOMAIN Queued(delta, taken) :
            /\ Queued(delta, taken)[q].program = pid
            /\ Queued(delta, taken)[q].content = Merged(plans[pid][j].content, delta)
  <2>1. taken \in SUBSET DOMAIN plans[pid]
    BY <1>8
  <2> QED BY <1>5, <2>1, QueuedFacts
<1>11. PICK more : more = Queued(delta, taken)
  OBVIOUS
<1>12. /\ IsSequence(pendingPlans) /\ IsSequence(pendingPlans')
       /\ \A x \in DOMAIN pendingPlans : x \in DOMAIN pendingPlans' /\ pendingPlans'[x] = pendingPlans[x]
       /\ \A x \in DOMAIN more : /\ Len(pendingPlans) + x \in DOMAIN pendingPlans'
                                 /\ pendingPlans'[Len(pendingPlans) + x] = more[x]
       /\ \A y \in DOMAIN pendingPlans' : y \in DOMAIN pendingPlans \/ \E x \in DOMAIN more : y = Len(pendingPlans) + x
  <2>1. IsSequence(pendingPlans)
    BY DEF IInv, QueueOk
  <2>2. pendingPlans' = pendingPlans \o more
    BY <1>3, <1>11
  <2>3. IsSequence(more)
    BY <1>10, <1>11
  <2>4. IsSequence(pendingPlans \o more)
    BY <2>1, <2>3, ConcatSequence
  <2>5. \A x \in DOMAIN pendingPlans : x \in DOMAIN (pendingPlans \o more) /\ (pendingPlans \o more)[x] = pendingPlans[x]
    BY <2>1, <2>3, ConcatSequence
  <2>6. \A x \in DOMAIN more : /\ Len(pendingPlans) + x \in DOMAIN (pendingPlans \o more)
                              /\ (pendingPlans \o more)[Len(pendingPlans) + x] = more[x]
    BY <2>1, <2>3, ConcatSequence
  <2>7. \A y \in DOMAIN (pendingPlans \o more) :
          y \in DOMAIN pendingPlans \/ \E x \in DOMAIN more : y = Len(pendingPlans) + x
    BY <2>1, <2>3, ConcatSequence
  <2> QED BY <2>1, <2>2, <2>4, <2>5, <2>6, <2>7
<1>13. ASSUME NEW y \in DOMAIN pendingPlans', y \notin DOMAIN pendingPlans
       PROVE  /\ pendingPlans'[y].program = pid /\ pendingPlans'[y].parent \in DOMAIN plans[pid]
              /\ pendingPlans'[y].content \notin Contents(plans[pid])
  <2>1. PICK x \in DOMAIN more : pendingPlans'[y] = more[x]
    BY <1>12, <1>13
  <2>2. PICK j \in taken : /\ more[x].program = pid /\ more[x].parent = j
                           /\ more[x].content = Merged(plans[pid][j].content, delta)
    BY <1>10, <1>11
  <2> QED BY <1>8, <2>1, <2>2
<1>14. /\ pc' \in {"site", "node", "rebuild"} /\ RoundOk'
       /\ bound' \/ (UNCHANGED <<pc, slot, pid, bound>> /\ site' = site + 1 /\ taken = parents)
  <2>1. /\ DOMAIN ruleKind' = DOMAIN rules'
        /\ \A s \in DOMAIN rules' : ruleKind'[s] = "program" =>
             \E p \in ProgramNames : \E x \in DOMAIN Sites(rules'[s], p) : Sites(rules'[s], p)[x].kind = "program"
    BY <1>1, NotedKind
  <2>2. CASE taken = parents
    <3>1. site' = site + 1 /\ UNCHANGED <<pc, slot, pid, bound>> /\ site' \in Nat \ {0}
      BY <1>3, <2>2 DEF IInv, RoundOk
    <3> QED BY <1>1, <2>1, <2>2, <3>1 DEF IInv, RoundOk
  <2>3. CASE taken # parents
    <3>1. bound' = TRUE /\ NextRule /\ site' = site
      BY <1>3, <2>3 DEF Cut
    <3>a. /\ slot' = slot + 1 /\ pid' = 1 /\ pc' = IF slot = Len(rules) THEN "rebuild" ELSE "node"
      BY <3>1 DEF NextRule
    <3>b. PICK last, here : last = Len(rules) /\ here = slot
      OBVIOUS
    <3>c. last \in Nat /\ here \in 1 .. last /\ DOMAIN rules = 1 .. last
      BY <1>4, <3>b, LenProperties DEF IInv, RoundOk
    <3>d. /\ here + 1 \in Nat \ {0}
          /\ here # last => here + 1 \in 1 .. last
      BY <3>c
    <3>e. pc' = "node" => slot' \in DOMAIN rules
      BY <3>a, <3>b, <3>c, <3>d
    <3>f. /\ pc' \in {"node", "rebuild"} /\ slot' \in Nat \ {0}
          /\ pc' = "rebuild" => slot' = Len(rules) + 1
      BY <3>a, <3>b, <3>d
    <3> QED BY <1>1, <1>4, <2>1, <3>1, <3>a, <3>e, <3>f DEF IInv, RoundOk
  <2> QED BY <2>2, <2>3
<1>15. QueueOk'
  <2>1. \A y \in DOMAIN pendingPlans' :
          /\ pendingPlans'[y].program \in DOMAIN plans
          /\ pendingPlans'[y].parent \in DOMAIN plans[pendingPlans'[y].program]
          /\ pendingPlans'[y].content \notin Contents(plans[pendingPlans'[y].program])
    <3>1. \A y \in DOMAIN pendingPlans :
            /\ pendingPlans[y].program \in DOMAIN plans
            /\ pendingPlans[y].parent \in DOMAIN plans[pendingPlans[y].program]
            /\ pendingPlans[y].content \notin Contents(plans[pendingPlans[y].program])
      BY DEF IInv, QueueOk
    <3> QED BY <1>4, <1>12, <1>13, <3>1
  <2> QED BY <1>1, <1>12, <1>14, <2>1 DEF IInv, QueueOk, Contents
<1>16. QueuedPrograms \subseteq QueuedPrograms' /\ \A n : QueuedPlans(n) \subseteq QueuedPlans(n)'
  <2>1. QueuedPrograms \subseteq QueuedPrograms'
    BY <1>1 DEF QueuedPrograms
  <2>2. ASSUME NEW n PROVE QueuedPlans(n) \subseteq QueuedPlans(n)'
    BY <1>12 DEF QueuedPlans, NewPlansOf
  <2> QED BY <2>1, <2>2
<1>17. memo' = Updated(memo, n0, s0, x0, e) /\ memo'[n0][s0][x0] = e /\ SitesAt(s0, n0)' = SitesAt(slot, pid)
  <2>1. memo' = Updated(memo, n0, s0, x0, e)
    BY <1>3, <1>6 DEF Updated
  <2> QED BY <1>1, <1>6, <1>7, <2>1, UpdatedFields DEF SitesAt
<1>18. e.kind = "annotation" /\ e.done = done /\ {"kind", "done"} \subseteq DOMAIN e
  BY <1>6
<1>19. ASSUME NEW j \in DOMAIN plans[n0], j <= done, MayExtend(s0, plans[n0][j])
       PROVE  Merged(plans[n0][j].content, delta) \in Contents(plans[n0]) \cup QueuedPlans(n0)'
  <2>1. CASE j <= old.done
    <3>1. Merged(plans[n0][j].content, delta) \in Contents(plans[n0]) \cup QueuedPlans(n0)
      BY <1>2, <1>6, <1>7, <1>19, <2>1 DEF Remembered
    <3>2. QueuedPlans(n0) \subseteq QueuedPlans(n0)'
      BY <1>16
    <3> QED BY <3>1, <3>2
  <2>2. CASE ~ (j <= old.done)
    <3>1. old.done \in Nat /\ j \in Nat
      BY <1>5, <1>6, <1>7 DEF Remembered
    <3>2. j > old.done
      BY <2>2, <3>1
    <3>3. CASE j \in parents
      <4>1. j \in taken
        BY <1>9, <1>19, <3>3
      <4>2. PICK q \in DOMAIN more : more[q].program = pid /\ more[q].content = Merged(plans[pid][j].content, delta)
        BY <1>10, <1>11, <4>1
      <4>3. PICK y : y \in DOMAIN pendingPlans' /\ pendingPlans'[y] = more[q]
        BY <1>12
      <4>4. y \in NewPlansOf(n0)'
        BY <1>6, <4>2, <4>3 DEF NewPlansOf
      <4> QED BY <1>6, <4>2, <4>3, <4>4 DEF QueuedPlans
    <3>4. CASE j \notin parents
      BY <1>6, <1>8, <1>19, <3>2, <3>4
    <3> QED BY <3>3, <3>4
  <2> QED BY <2>1, <2>2
<1>20. Remembered(n0, s0, x0)'
  <2>1. \A s, q : MayExtend(s, q)' <=> MayExtend(s, q)
    BY <1>1 DEF MayExtend
  <2>2. plans'[n0] = plans[n0] /\ n0 = pid /\ Len(plans[n0]) = Len(plans[pid])
    BY <1>1, <1>6
  <2>3. SitesAt(s0, n0)'[x0].delta = delta /\ SitesAt(s0, n0)'[x0].kind = "annotation"
    BY <1>1, <1>2, <1>6, <1>17
  <2>4. Contents(plans[n0])' = Contents(plans[n0])
    BY <2>2 DEF Contents
  <2>5. \A j \in DOMAIN plans[n0] : j <= done /\ MayExtend(s0, plans[n0][j]) =>
           Merged(plans[n0][j].content, delta) \in Contents(plans[n0])' \cup QueuedPlans(n0)'
    BY <1>19, <2>4
  <2>6. done \in Nat /\ done <= Len(plans'[n0])
    BY <1>9, <2>2
  <2> QED BY <1>1, <1>17, <1>18, <2>1, <2>2, <2>3, <2>5, <2>6 DEF Remembered
<1>21. taken = parents => Answered(s0, n0, x0)'
  <2>1. taken = parents => done = Len(plans[n0])
    BY <1>2, <1>6
  <2> QED BY <1>1, <1>17, <1>18, <2>1 DEF Answered
<1>22. GraphOk' /\ MemoOk' /\ SweepOk' /\ ClosedOk'
  <2>1. pc' # "idle"
    BY <1>14
  <2>2. bound' \/ (UNCHANGED <<pc, slot, pid, bound>> /\ site' = site + 1 /\ Answered(s0, n0, x0)')
    BY <1>14, <1>21
  <2> QED BY <1>1, <1>6, <1>16, <1>17, <1>20, <2>1, <2>2, OfferStep
<1> QED BY <1>14, <1>15, <1>22 DEF IInv

------------------------------------------------------------------------------
(* The first nodes, and a call's beginning.                                *)

LEMMA EmptySequence == IsSequence(<<>>) /\ Len(<<>>) = 0 /\ DOMAIN <<>> = {} /\ Range(<<>>) = {}
<1>1. <<>> \in Seq({}) /\ Len(<<>>) = 0 /\ DOMAIN <<>> = {}
  OBVIOUS
<1>2. \A S : S = {} => Seq({}) = Seq(S)
  OBVIOUS
<1>3. {<<>>[x] : x \in DOMAIN <<>>} = {}
  BY <1>1
<1>4. IsSequence(<<>>)
  BY <1>1, <1>3 DEF IsSequence
<1> QED BY <1>1, <1>4 DEF Range

LEMMA FirstTier ==
  ASSUME NEW node, Raw(node), node.history = <<>>, node.exact = 0
  PROVE  /\ TierOk(Insert(<<>>, node)) /\ ExactOk(Insert(<<>>, node))
         /\ Len(Insert(<<>>, node)) = 1 /\ DOMAIN Insert(<<>>, node) = {1}
         /\ Carries(node, Insert(<<>>, node)[1])
<1>1. TierOk(<<>>)
  BY EmptySequence DEF TierOk
<1>2. PICK t : t = Insert(<<>>, node)
  OBVIOUS
<1>3. /\ TierOk(t) /\ Len(t) = 0 + 1 /\ DOMAIN t = 1 .. (0 + 1) /\ Carries(node, t[0 + 1])
  BY <1>1, <1>2, EmptySequence, InsertTier
<1>4. Len(t) = 1 /\ DOMAIN t = {1} /\ Carries(node, t[1])
  BY <1>3
<1>5. ExactOk(t)
  BY <1>4, EmptySequence DEF ExactOk, Carries
<1> QED BY <1>2, <1>3, <1>4, <1>5

LEMMA RootsRaw ==
  /\ Raw(RootProgram) /\ RootProgram.history = <<>> /\ RootProgram.exact = 0 /\ RootProgram.content = Root
  /\ Raw(RootPlan) /\ RootPlan.history = <<>> /\ RootPlan.exact = 0 /\ "top" \in DOMAIN RootPlan
BY DEF Raw, RootProgram, RootPlan

LEMMA InitIInv == Init => IInv
<1> SUFFICES ASSUME Init PROVE IInv
  OBVIOUS
<1>1. PICK tier : tier = Insert(<<>>, RootPlan)
  OBVIOUS
<1>2. /\ TierOk(tier) /\ ExactOk(tier) /\ DOMAIN tier = {1} /\ Carries(RootPlan, tier[1])
  BY <1>1, RootsRaw, FirstTier
<1>3. /\ TierOk(programs) /\ ExactOk(programs) /\ Len(programs) = 1 /\ DOMAIN programs = {1}
      /\ Carries(RootProgram, programs[1])
  BY RootsRaw, FirstTier DEF Init
<1>4. plans = <<tier>>
  BY <1>1 DEF Init
<1>5. IsSequence(plans) /\ Len(plans) = 1 /\ DOMAIN plans = {1} /\ plans[1] = tier
  <2>1. 1 .. 1 = {1}
    OBVIOUS
  <2>2. plans = [x \in 1 .. 1 |-> plans[x]]
    BY <1>4
  <2> QED BY <1>4, <2>1, <2>2, FunctionIsSequence
<1>6. programs[1].content \in ProgramNames /\ "top" \in DOMAIN tier[1]
  BY <1>2, <1>3, RootsRaw, ProposalsAssumption DEF Carries
<1>7. GraphOk
  BY <1>2, <1>3, <1>5, <1>6 DEF GraphOk
<1>8. QueueOk
  BY EmptySequence DEF QueueOk, Init
<1>9. RoundOk
  <2>1. rules = <<>> /\ ruleKind = <<>> /\ calls = 0 /\ pc = "idle" /\ limits \in Limits
        /\ slot = 1 /\ pid = 1 /\ site = 1
    BY DEF Init
  <2>2. rules \in Seq(DOMAIN Proposals)
    BY <2>1
  <2> QED BY <2>1, <2>2, EmptySequence DEF RoundOk
<1>10. MemoOk /\ SweepOk /\ ClosedOk
  BY DEF MemoOk, SweepOk, ClosedOk, Init
<1> QED BY <1>7, <1>8, <1>9, <1>10 DEF IInv

(* A tier whose plans have forgotten the slots of their rules.             *)
Cleared(t) == [x \in DOMAIN t |-> [t[x] EXCEPT !.top = 0]]

LEMMA ClearedTier ==
  ASSUME NEW t, TierOk(t), ExactOk(t), \A x \in DOMAIN t : "top" \in DOMAIN t[x]
  PROVE  /\ TierOk(Cleared(t)) /\ ExactOk(Cleared(t))
         /\ \A x \in DOMAIN Cleared(t) : "top" \in DOMAIN Cleared(t)[x]
<1> DEFINE u == Cleared(t)
<1>1. /\ DOMAIN u = DOMAIN t
      /\ \A x \in DOMAIN t : u[x] = [t[x] EXCEPT !.top = 0]
  BY DEF Cleared
<1>2. u = [x \in DOMAIN t |-> u[x]]
  BY DEF Cleared
<1> HIDE DEF u
<1>3. IsSequence(u)
  <2>1. Len(t) \in Nat /\ DOMAIN t = 1 .. Len(t)
    BY SequenceShape DEF TierOk
  <2> QED BY <1>2, <2>1, FunctionIsSequence
<1>4. \A x \in DOMAIN t : /\ DOMAIN u[x] = DOMAIN t[x]
                          /\ u[x].content = t[x].content /\ u[x].history = t[x].history
                          /\ u[x].exact = t[x].exact /\ u[x].up = t[x].up /\ u[x].rank = t[x].rank
  BY <1>1 DEF TierOk
<1>5. TierOk(u) /\ ExactOk(u)
  BY <1>1, <1>3, <1>4 DEF TierOk, ExactOk
<1> QED BY <1>1, <1>4, <1>5 DEF u

(* A row of the memo where nothing is known yet.                           *)
LEMMA FreshRow ==
  ASSUME GraphOk', NEW n \in DOMAIN programs', memo'[n] = NewMemo(programs'[n].content, rules')
  PROVE  /\ DOMAIN memo'[n] = DOMAIN rules'
         /\ \A s \in DOMAIN rules' : /\ DOMAIN memo'[n][s] = DOMAIN SitesAt(s, n)'
                                     /\ \A x \in DOMAIN SitesAt(s, n)' : Remembered(n, s, x)'
<1>1. /\ DOMAIN memo'[n] = DOMAIN rules'
      /\ \A s \in DOMAIN rules' :
           /\ DOMAIN memo'[n][s] = DOMAIN SitesAt(s, n)'
           /\ \A x \in DOMAIN SitesAt(s, n)' : memo'[n][s][x] = [kind |-> "unknown", done |-> 0]
  BY DEF NewMemo, SitesAt
<1>2. n \in DOMAIN plans' /\ IsSequence(plans'[n])
  BY SequenceShape DEF GraphOk, TierOk
<1>3. Len(plans'[n]) \in Nat /\ DOMAIN plans'[n] = 1 .. Len(plans'[n])
  BY <1>2, SequenceShape
<1>4. 0 \in Nat /\ 0 <= Len(plans'[n]) /\ \A j \in DOMAIN plans'[n] : ~ (j <= 0)
  BY <1>3
<1>5. ASSUME NEW s \in DOMAIN rules', NEW x \in DOMAIN SitesAt(s, n)'
      PROVE  Remembered(n, s, x)'
  <2>1. PICK m : m = memo'[n][s][x]
    OBVIOUS
  <2>2. {"kind", "done"} \subseteq DOMAIN m /\ m.kind = "unknown" /\ m.done = 0
    BY <1>1, <2>1
  <2> QED BY <1>4, <2>1, <2>2 DEF Remembered
<1> QED BY <1>1, <1>5

LEMMA SaturateStep ==
  ASSUME IInv, NEW order \in Orders, NEW lim \in Limits, Saturate(order, lim)
  PROVE  IInv'
<1>1. /\ pc = "idle" /\ KeepsPolicy(lim) /\ Sync(order)
      /\ memo' = MemoFor(programs, order, rules = order /\ lim.dedup)
      /\ limits' = lim /\ pc' = "node" /\ slot' = 1 /\ pid' = 1 /\ site' = 1
      /\ bound' = FALSE /\ outcome' = "none" /\ calls' = calls + 1
      /\ UNCHANGED <<programs, pendingPrograms, pendingPlans>>
  BY DEF Saturate, queues
<1>2. /\ order # <<>> /\ order \in Seq(DOMAIN Proposals)
      /\ calls \in Nat /\ (rules = <<>> => calls = 0) /\ (calls = 0 => rules = <<>>)
  BY EGraphAssumption, ProposalsAssumption DEF IInv, RoundOk
<1>3. calls' \in Nat /\ calls' # 0 /\ (rules = order => calls # 0)
  BY <1>1, <1>2
<1>4. rules' = order
  BY <1>1 DEF Sync
<1>5. GraphOk'
  <2>1. CASE rules = order
    <3>1. UNCHANGED plans
      BY <1>1, <2>1 DEF Sync
    <3> QED BY <1>1, <3>1 DEF IInv, GraphOk
  <2>2. CASE rules # order
    <3>1. plans' = [i \in DOMAIN plans |-> Cleared(plans[i])]
      BY <1>1, <2>2 DEF Sync, Cleared
    <3>2. /\ DOMAIN plans' = DOMAIN plans /\ plans' = [i \in DOMAIN plans |-> plans'[i]]
          /\ \A n \in DOMAIN plans : plans'[n] = Cleared(plans[n])
      BY <3>1
    <3>3. IsSequence(plans) /\ Len(plans) \in Nat /\ DOMAIN plans = 1 .. Len(plans) /\ Len(plans) = Len(programs)
      BY SequenceShape DEF IInv, GraphOk
    <3>4. IsSequence(plans') /\ Len(plans') = Len(plans)
      BY <3>2, <3>3, FunctionIsSequence
    <3>5. \A n \in DOMAIN plans : /\ TierOk(plans[n]) /\ ExactOk(plans[n])
                                  /\ \A j \in DOMAIN plans[n] : "top" \in DOMAIN plans[n][j]
      BY DEF IInv, GraphOk
    <3>6. \A n \in DOMAIN plans : /\ TierOk(Cleared(plans[n])) /\ ExactOk(Cleared(plans[n]))
                                  /\ \A j \in DOMAIN Cleared(plans[n]) : "top" \in DOMAIN Cleared(plans[n])[j]
      BY <3>5, ClearedTier
    <3> QED BY <1>1, <3>2, <3>3, <3>4, <3>6 DEF IInv, GraphOk
  <2> QED BY <2>1, <2>2
<1>6. QueueOk'
  BY <1>1, EmptySequence DEF IInv, QueueOk
<1>7. RoundOk'
  <2>1. 1 \in DOMAIN order
    <3>1. PICK last : last = Len(order)
      OBVIOUS
    <3>2. last \in Nat /\ DOMAIN order = 1 .. last /\ last # 0
      BY <1>2, <3>1, LenProperties, EmptySeq
    <3> QED BY <3>2
  <2>2. /\ DOMAIN ruleKind' = DOMAIN order
        /\ \A s \in DOMAIN order : ruleKind'[s] = "program" =>
             \E p \in ProgramNames : \E x \in DOMAIN Sites(order[s], p) : Sites(order[s], p)[x].kind = "program"
    <3>1. CASE rules = order
      BY <1>1, <3>1 DEF Sync, IInv, RoundOk
    <3>2. CASE rules # order
      <4>1. ruleKind' = [s \in DOMAIN order |-> "unknown"]
        BY <1>1, <3>2 DEF Sync
      <4> QED BY <4>1
    <3> QED BY <3>1, <3>2
  <2> QED BY <1>1, <1>2, <1>3, <1>4, <2>1, <2>2 DEF RoundOk
<1>8. MemoOk'
  <2>1. /\ DOMAIN memo' = DOMAIN programs
        /\ \A n \in DOMAIN programs :
             memo'[n] = IF (rules = order /\ lim.dedup) /\ n \in DOMAIN memo THEN memo[n]
                        ELSE NewMemo(programs[n].content, order)
    BY <1>1 DEF MemoFor
  <2>2. ASSUME NEW n \in DOMAIN programs'
        PROVE  /\ DOMAIN memo'[n] = DOMAIN rules'
               /\ \A s \in DOMAIN rules' : /\ DOMAIN memo'[n][s] = DOMAIN SitesAt(s, n)'
                                           /\ \A x \in DOMAIN SitesAt(s, n)' : Remembered(n, s, x)'
    <3>1. CASE (rules = order /\ lim.dedup) /\ n \in DOMAIN memo
      <4>1. memo'[n] = memo[n] /\ UNCHANGED <<rules, plans>>
        BY <1>1, <1>4, <2>1, <2>2, <3>1 DEF Sync
      <4>2. calls > 0
        BY <1>2, <1>3, <3>1
      <4>3. limits'.refire = limits.refire
        BY <1>1, <4>2 DEF KeepsPolicy
      <4>4. /\ \A s : SitesAt(s, n)' = SitesAt(s, n)
            /\ \A s, q : MayExtend(s, q)' <=> MayExtend(s, q)
        BY <1>1, <4>1, <4>3 DEF SitesAt, MayExtend
      <4>5. QueuedPrograms' = QueuedPrograms /\ QueuedPlans(n)' = QueuedPlans(n)
        BY <1>1 DEF QueuedPrograms, QueuedPlans, NewPlansOf
      <4>6. /\ DOMAIN memo[n] = DOMAIN rules
            /\ \A s \in DOMAIN rules : /\ DOMAIN memo[n][s] = DOMAIN SitesAt(s, n)
                                       /\ \A x \in DOMAIN SitesAt(s, n) : Remembered(n, s, x)
        BY <1>1, <2>2, <4>2 DEF IInv, MemoOk
      <4>7. \A s \in DOMAIN rules : \A x \in DOMAIN SitesAt(s, n) : Remembered(n, s, x)'
        BY <1>1, <4>1, <4>4, <4>5, <4>6 DEF Remembered
      <4> QED BY <4>1, <4>4, <4>6, <4>7
    <3>2. CASE ~ ((rules = order /\ lim.dedup) /\ n \in DOMAIN memo)
      <4>1. memo'[n] = NewMemo(programs'[n].content, rules')
        BY <1>1, <1>4, <2>1, <2>2, <3>2
      <4> QED BY <1>5, <4>1, FreshRow
    <3> QED BY <3>1, <3>2
  <2> QED BY <1>1, <2>1, <2>2 DEF MemoOk
<1>9. SweepOk'
  <2>1. ASSUME NEW n \in DOMAIN programs, NEW s \in DOMAIN order, NEW x PROVE ~Passed(s, n, x)'
    <3>1. n \in Nat /\ n >= 1 /\ s \in Nat /\ s >= 1
      BY <1>2, LenProperties, SequenceShape DEF IInv, GraphOk, TierOk
    <3> QED BY <1>1, <3>1 DEF Passed
  <2> QED BY <1>1, <1>4, <2>1 DEF SweepOk
<1>10. ClosedOk'
  BY <1>1 DEF ClosedOk
<1> QED BY <1>5, <1>6, <1>7, <1>8, <1>9, <1>10 DEF IInv

------------------------------------------------------------------------------
(* The rebuild.                                                            *)

ExactNode(n) ==
  /\ IsSequence(n.history) /\ n.exact \in {0, 1}
  /\ n.exact = 0 => Range(n.history) \cap E1 = {}

LEMMA ExactGrown ==
  ASSUME NEW t, ExactOk(t), NEW queue, NEW mine, \A n \in mine : ExactNode(queue[n]),
         NEW m, NEW u, Grown(t, queue, mine, m, u)
  PROVE  ExactOk(u)
<1>1. ASSUME NEW x \in DOMAIN u PROVE ExactNode(u[x])
  <2>1. CASE x \in DOMAIN t
    <3>1. Kept(t[x], u[x]) /\ ExactNode(t[x])
      BY <2>1 DEF Grown, ExactOk, ExactNode
    <3> QED BY <3>1 DEF Kept, ExactNode
  <2>2. CASE x \notin DOMAIN t
    <3>1. PICK n \in mine : Carries(queue[n], u[x])
      BY <2>2 DEF Grown
    <3>2. ExactNode(queue[n])
      OBVIOUS
    <3> QED BY <3>1, <3>2 DEF Carries, ExactNode
  <2> QED BY <2>1, <2>2
<1> QED BY <1>1 DEF ExactOk, ExactNode

(* A node made from another by one more rule.                              *)
LEMMA ExactChild ==
  ASSUME NEW from, ExactNode(from), NEW n, NEW rule,
         n.history = from.history \o <<rule>>, n.exact = Combined(from.exact, ClassOf(rule))
  PROVE  ExactNode(n)
<1>1. PICK last : last = <<rule>>
  OBVIOUS
<1>2. IsSequence(last) /\ Range(last) = {rule}
  <2>1. last = [x \in 1 .. 1 |-> last[x]] /\ DOMAIN last = {1} /\ last[1] = rule
    BY <1>1
  <2>2. IsSequence(last)
    <3>1. 1 \in Nat
      OBVIOUS
    <3> QED BY <3>1, <2>1, FunctionIsSequence
  <2>3. Range(last) = {rule}
    BY <2>1 DEF Range
  <2> QED BY <2>2, <2>3
<1>3. IsSequence(from.history)
  BY DEF ExactNode
<1>4. IsSequence(n.history) /\ Range(n.history) = Range(from.history) \cup {rule}
  <2>1. n.history = from.history \o last
    BY <1>1
  <2>2. IsSequence(from.history \o last)
    BY <1>2, <1>3, ConcatSequence
  <2>3. Range(from.history \o last) = Range(from.history) \cup Range(last)
    BY <1>2, <1>3, ConcatSequence
  <2> QED BY <1>2, <2>1, <2>2, <2>3
<1>5. from.exact \in {0, 1} /\ ClassOf(rule) \in {0, 1}
  BY DEF ExactNode, ClassOf
<1>6. n.exact \in {0, 1} /\ (n.exact = 0 => from.exact = 0 /\ ClassOf(rule) = 0)
  BY <1>5 DEF Combined
<1>7. n.exact = 0 => rule \notin E1 /\ Range(from.history) \cap E1 = {}
  BY <1>6 DEF ClassOf, ExactNode
<1> QED BY <1>4, <1>6, <1>7 DEF ExactNode

(* What the queues say is to be inserted.                                  *)
LEMMA NewNodes ==
  ASSUME IInv
  PROVE  /\ IsSequence(NewPrograms) /\ Len(NewPrograms) = Len(pendingPrograms)
         /\ DOMAIN NewPrograms = DOMAIN pendingPrograms
         /\ \A n \in DOMAIN pendingPrograms : /\ Raw(NewPrograms[n]) /\ ExactNode(NewPrograms[n])
                                              /\ NewPrograms[n].content = pendingPrograms[n].content
         /\ IsSequence(NewPlans) /\ Len(NewPlans) = Len(pendingPlans)
         /\ DOMAIN NewPlans = DOMAIN pendingPlans
         /\ \A n \in DOMAIN pendingPlans : /\ Raw(NewPlans[n]) /\ ExactNode(NewPlans[n])
                                           /\ NewPlans[n].content = pendingPlans[n].content
                                           /\ "top" \in DOMAIN NewPlans[n]
<1>1. /\ Len(pendingPrograms) \in Nat /\ DOMAIN pendingPrograms = 1 .. Len(pendingPrograms)
      /\ Len(pendingPlans) \in Nat /\ DOMAIN pendingPlans = 1 .. Len(pendingPlans)
  BY SequenceShape DEF IInv, QueueOk
<1>2. PICK new : new = NewPrograms
  OBVIOUS
<1>3. /\ DOMAIN new = DOMAIN pendingPrograms /\ new = [n \in DOMAIN pendingPrograms |-> new[n]]
      /\ \A n \in DOMAIN pendingPrograms : new[n] = NewProgram(pendingPrograms[n])
  BY <1>2 DEF NewPrograms
<1>4. IsSequence(new) /\ Len(new) = Len(pendingPrograms)
  BY <1>1, <1>3, FunctionIsSequence
<1>5. ASSUME NEW n \in DOMAIN pendingPrograms
      PROVE  Raw(new[n]) /\ ExactNode(new[n]) /\ new[n].content = pendingPrograms[n].content
  <2>1. PICK p, from : p = pendingPrograms[n] /\ from = programs[p.parent]
    OBVIOUS
  <2>2. new[n] = [content |-> p.content, history |-> from.history \o <<p.rule>>,
                  exact |-> Combined(from.exact, ClassOf(p.rule))]
    BY <1>3, <2>1 DEF NewProgram
  <2>3. /\ DOMAIN new[n] = {"content", "history", "exact"} /\ new[n].content = p.content
        /\ new[n].history = from.history \o <<p.rule>>
        /\ new[n].exact = Combined(from.exact, ClassOf(p.rule))
    BY <2>2
  <2>4. ExactNode(from)
    BY <2>1 DEF IInv, QueueOk, GraphOk, ExactOk, ExactNode
  <2>5. ExactNode(new[n])
    BY <2>3, <2>4, ExactChild
  <2> QED BY <2>1, <2>3, <2>5 DEF Raw
<1>6. PICK more : more = NewPlans
  OBVIOUS
<1>7. /\ DOMAIN more = DOMAIN pendingPlans /\ more = [n \in DOMAIN pendingPlans |-> more[n]]
      /\ \A n \in DOMAIN pendingPlans : more[n] = NewPlan(pendingPlans[n])
  BY <1>6 DEF NewPlans
<1>8. IsSequence(more) /\ Len(more) = Len(pendingPlans)
  BY <1>1, <1>7, FunctionIsSequence
<1>9. ASSUME NEW n \in DOMAIN pendingPlans
      PROVE  /\ Raw(more[n]) /\ ExactNode(more[n]) /\ more[n].content = pendingPlans[n].content
             /\ "top" \in DOMAIN more[n]
  <2>1. PICK p, from : p = pendingPlans[n] /\ from = plans[p.program][p.parent]
    OBVIOUS
  <2>2. more[n] = [content |-> p.content, history |-> from.history \o <<p.rule>>,
                   exact |-> Combined(from.exact, ClassOf(p.rule)),
                   top |-> Combined(p.slot, from.top)]
    BY <1>7, <2>1 DEF NewPlan
  <2>3. /\ DOMAIN more[n] = {"content", "history", "exact", "top"} /\ more[n].content = p.content
        /\ more[n].history = from.history \o <<p.rule>>
        /\ more[n].exact = Combined(from.exact, ClassOf(p.rule))
    BY <2>2
  <2>4. ExactNode(from)
    BY <2>1 DEF IInv, QueueOk, GraphOk, ExactOk, ExactNode
  <2>5. ExactNode(more[n])
    BY <2>3, <2>4, ExactChild
  <2> QED BY <2>1, <2>3, <2>5 DEF Raw
<1> QED BY <1>2, <1>3, <1>4, <1>5, <1>6, <1>7, <1>8, <1>9

(* The plan tiers a rebuild starts from: those there are, and one with the *)
(* empty plan under every new program.                                     *)
Tiers == plans \o [n \in DOMAIN pendingPrograms |-> Insert(<<>>, RootPlan)]

LEMMA TiersOk ==
  ASSUME IInv
  PROVE  /\ IsSequence(Tiers) /\ Len(Tiers) = Len(programs) + Len(pendingPrograms)
         /\ \A n \in DOMAIN plans : n \in DOMAIN Tiers /\ Tiers[n] = plans[n]
         /\ \A n \in DOMAIN Tiers : /\ TierOk(Tiers[n]) /\ ExactOk(Tiers[n])
                                    /\ \A j \in DOMAIN Tiers[n] : "top" \in DOMAIN Tiers[n][j]
         /\ pendingPrograms = <<>> => Tiers = plans
<1>1. PICK first, added : /\ first = Insert(<<>>, RootPlan) /\ added = [n \in DOMAIN pendingPrograms |-> first]
  OBVIOUS
<1>2. Tiers = plans \o added
  BY <1>1 DEF Tiers
<1>3. /\ Len(pendingPrograms) \in Nat /\ DOMAIN pendingPrograms = 1 .. Len(pendingPrograms)
      /\ IsSequence(plans) /\ Len(plans) = Len(programs)
  BY SequenceShape DEF IInv, QueueOk, GraphOk
<1>4. /\ added = [n \in DOMAIN pendingPrograms |-> added[n]]
      /\ DOMAIN added = DOMAIN pendingPrograms /\ \A n \in DOMAIN added : added[n] = first
  BY <1>1
<1>5. IsSequence(added) /\ Len(added) = Len(pendingPrograms)
  BY <1>3, <1>4, FunctionIsSequence
<1>6. /\ TierOk(first) /\ ExactOk(first) /\ \A j \in DOMAIN first : "top" \in DOMAIN first[j]
  <2>1. /\ TierOk(first) /\ ExactOk(first) /\ DOMAIN first = {1} /\ Carries(RootPlan, first[1])
    BY <1>1, RootsRaw, FirstTier
  <2> QED BY <2>1, RootsRaw DEF Carries
<1>7. IsSequence(Tiers) /\ Len(Tiers) = Len(plans) + Len(added)
  BY <1>2, <1>3, <1>5, ConcatSequence
<1>8. \A n \in DOMAIN plans : n \in DOMAIN Tiers /\ Tiers[n] = plans[n]
  <2>1. \A n \in DOMAIN plans : n \in DOMAIN (plans \o added) /\ (plans \o added)[n] = plans[n]
    BY <1>3, <1>5, ConcatSequence
  <2> QED BY <1>2, <2>1
<1>9. \A n \in DOMAIN Tiers : n \in DOMAIN plans \/ Tiers[n] = first
  <2>1. \A y \in DOMAIN (plans \o added) : y \in DOMAIN plans \/ \E x \in DOMAIN added : y = Len(plans) + x
    BY <1>3, <1>5, ConcatSequence
  <2>2. \A x \in DOMAIN added : (plans \o added)[Len(plans) + x] = added[x]
    BY <1>3, <1>5, ConcatSequence
  <2> QED BY <1>2, <1>4, <2>1, <2>2
<1>10. \A n \in DOMAIN plans : /\ TierOk(plans[n]) /\ ExactOk(plans[n])
                               /\ \A j \in DOMAIN plans[n] : "top" \in DOMAIN plans[n][j]
  BY DEF IInv, GraphOk
<1>11. ASSUME pendingPrograms = <<>> PROVE Tiers = plans
  <2>1. added = <<>>
    <3>1. DOMAIN added = {}
      BY <1>4, <1>11, EmptySequence
    <3>2. added \in Seq({added[x] : x \in DOMAIN added}) /\ Len(added) = 0
      BY <1>5, <1>11, EmptySequence DEF IsSequence
    <3> QED BY <3>2, EmptySeq
  <2>2. added = <<>> => plans \o added = plans
    BY <1>3, <1>5, ConcatSequence
  <2> QED BY <1>2, <2>1, <2>2
<1> QED BY <1>3, <1>5, <1>6, <1>7, <1>8, <1>9, <1>10, <1>11

(* What a rebuild makes of the graph.                                      *)
Rebuilt ==
  /\ Grown(programs, NewPrograms, DOMAIN pendingPrograms, Len(pendingPrograms), programs')
  /\ Len(programs') = Len(programs) + Len(pendingPrograms)
  /\ \A n \in DOMAIN plans : /\ n \in DOMAIN plans'
                             /\ Grown(plans[n], NewPlans, NewPlansOf(n), Len(pendingPlans), plans'[n])
  /\ Contents(programs) \cup QueuedPrograms \subseteq Contents(programs')
  /\ \A n \in DOMAIN plans : Contents(plans[n]) \cup QueuedPlans(n) \subseteq Contents(plans'[n])

LEMMA ContentsGrow ==
  ASSUME NEW t, NEW queue, NEW mine, NEW m, NEW u, Grown(t, queue, mine, m, u), \A n \in mine : n <= m
  PROVE  Contents(t) \cup {queue[n].content : n \in mine} \subseteq Contents(u)
<1>1. \A x \in DOMAIN t : x \in DOMAIN u /\ u[x].content = t[x].content
  BY DEF Grown, Kept
<1>2. \A n \in mine : \E x \in DOMAIN u : u[x].content = queue[n].content
  BY DEF Grown
<1> QED BY <1>1, <1>2 DEF Contents

LEMMA RebuildGraph ==
  ASSUME IInv, Rebuild
  PROVE  /\ Rebuilt /\ GraphOk'
         /\ pendingPrograms = <<>> /\ pendingPlans = <<>> => UNCHANGED <<programs, plans>>
<1>1. /\ programs' = InsertAll(programs, NewPrograms, DOMAIN NewPrograms)
      /\ plans' = [i \in DOMAIN Tiers |-> InsertAll(Tiers[i], NewPlans, NewPlansOf(i))]
  BY DEF Rebuild, Tiers
<1>2. /\ IsSequence(NewPrograms) /\ Len(NewPrograms) = Len(pendingPrograms)
      /\ DOMAIN NewPrograms = DOMAIN pendingPrograms
      /\ \A n \in DOMAIN pendingPrograms : /\ Raw(NewPrograms[n]) /\ ExactNode(NewPrograms[n])
                                           /\ NewPrograms[n].content = pendingPrograms[n].content
  BY NewNodes
<1>3. /\ IsSequence(NewPlans) /\ Len(NewPlans) = Len(pendingPlans)
      /\ DOMAIN NewPlans = DOMAIN pendingPlans
      /\ \A n \in DOMAIN pendingPlans : /\ Raw(NewPlans[n]) /\ ExactNode(NewPlans[n])
                                        /\ NewPlans[n].content = pendingPlans[n].content
                                        /\ "top" \in DOMAIN NewPlans[n]
  BY NewNodes
<1>4. /\ Len(pendingPrograms) \in Nat /\ DOMAIN pendingPrograms = 1 .. Len(pendingPrograms)
      /\ Len(pendingPlans) \in Nat /\ DOMAIN pendingPlans = 1 .. Len(pendingPlans)
      /\ IsSequence(plans) /\ Len(plans) = Len(programs) /\ DOMAIN plans = 1 .. Len(plans)
      /\ Len(programs) \in Nat /\ DOMAIN programs = 1 .. Len(programs)
  BY SequenceShape DEF IInv, QueueOk, GraphOk, TierOk
<1>5. TierOk(programs) /\ ExactOk(programs) /\ \A n \in DOMAIN programs : programs[n].content \in ProgramNames
  BY DEF IInv, GraphOk
<1>6. /\ Grown(programs, NewPrograms, DOMAIN pendingPrograms, Len(pendingPrograms), programs')
      /\ Len(pendingPrograms) = 0 => programs' = programs
  <2>1. \A n \in DOMAIN NewPrograms : Raw(NewPrograms[n])
    BY <1>2
  <2>2. /\ Grown(programs, NewPrograms, DOMAIN NewPrograms, Len(NewPrograms),
                 InsertAll(programs, NewPrograms, DOMAIN NewPrograms))
        /\ Len(NewPrograms) = 0 => InsertAll(programs, NewPrograms, DOMAIN NewPrograms) = programs
    BY <1>2, <1>5, <2>1, InsertAllTier
  <2> QED BY <1>1, <1>2, <2>2
<1>7. Len(programs') = Len(programs) + Len(pendingPrograms)
  BY <1>4, <1>6 DEF Grown
<1>8. /\ IsSequence(Tiers) /\ Len(Tiers) = Len(programs) + Len(pendingPrograms)
      /\ \A n \in DOMAIN plans : n \in DOMAIN Tiers /\ Tiers[n] = plans[n]
      /\ \A n \in DOMAIN Tiers : /\ TierOk(Tiers[n]) /\ ExactOk(Tiers[n])
                                 /\ \A j \in DOMAIN Tiers[n] : "top" \in DOMAIN Tiers[n][j]
      /\ pendingPrograms = <<>> => Tiers = plans
  BY TiersOk
<1>9. /\ DOMAIN plans' = DOMAIN Tiers /\ plans' = [n \in DOMAIN Tiers |-> plans'[n]]
      /\ \A n \in DOMAIN Tiers : plans'[n] = InsertAll(Tiers[n], NewPlans, NewPlansOf(n))
  BY <1>1
<1>10. ASSUME NEW n \in DOMAIN Tiers
       PROVE  /\ Grown(Tiers[n], NewPlans, NewPlansOf(n), Len(pendingPlans), plans'[n])
              /\ Len(pendingPlans) = 0 => plans'[n] = Tiers[n]
  <2>1. NewPlansOf(n) \in SUBSET DOMAIN NewPlans
    BY <1>3 DEF NewPlansOf
  <2>2. \A q \in NewPlansOf(n) : Raw(NewPlans[q])
    BY <1>3, <2>1
  <2>3. TierOk(Tiers[n])
    BY <1>8
  <2>4. /\ Grown(Tiers[n], NewPlans, NewPlansOf(n), Len(NewPlans), InsertAll(Tiers[n], NewPlans, NewPlansOf(n)))
        /\ Len(NewPlans) = 0 => InsertAll(Tiers[n], NewPlans, NewPlansOf(n)) = Tiers[n]
    BY <1>3, <2>1, <2>2, <2>3, InsertAllTier
  <2> QED BY <1>3, <1>9, <2>4
<1>11. ASSUME NEW n \in DOMAIN Tiers
       PROVE  /\ TierOk(plans'[n]) /\ ExactOk(plans'[n])
              /\ \A j \in DOMAIN plans'[n] : "top" \in DOMAIN plans'[n][j]
  <2>1. TierOk(plans'[n])
    BY <1>10 DEF Grown
  <2>2. \A q \in NewPlansOf(n) : ExactNode(NewPlans[q]) /\ "top" \in DOMAIN NewPlans[q]
    BY <1>3 DEF NewPlansOf
  <2>3. ExactOk(plans'[n])
    <3>1. ExactOk(Tiers[n]) /\ Grown(Tiers[n], NewPlans, NewPlansOf(n), Len(pendingPlans), plans'[n])
      BY <1>8, <1>10
    <3>2. \A q \in NewPlansOf(n) : ExactNode(NewPlans[q])
      BY <2>2
    <3> QED BY <3>1, <3>2, ExactGrown
  <2>4. ASSUME NEW j \in DOMAIN plans'[n] PROVE "top" \in DOMAIN plans'[n][j]
    <3>1. CASE j \in DOMAIN Tiers[n]
      BY <1>8, <1>10, <3>1 DEF Grown, Kept
    <3>2. CASE j \notin DOMAIN Tiers[n]
      <4>1. PICK q \in NewPlansOf(n) : Carries(NewPlans[q], plans'[n][j])
        BY <1>10, <3>2 DEF Grown
      <4>2. "top" \in DOMAIN NewPlans[q]
        BY <2>2
      <4> QED BY <4>1, <4>2 DEF Carries
    <3> QED BY <3>1, <3>2
  <2> QED BY <2>1, <2>3, <2>4
<1>12. IsSequence(plans') /\ Len(plans') = Len(Tiers)
  <2>1. Len(Tiers) \in Nat /\ DOMAIN Tiers = 1 .. Len(Tiers)
    BY <1>8, SequenceShape
  <2> QED BY <1>9, <2>1, FunctionIsSequence
<1>13. TierOk(programs') /\ ExactOk(programs')
  <2>1. \A n \in DOMAIN pendingPrograms : ExactNode(NewPrograms[n])
    BY <1>2
  <2>2. ExactOk(programs')
    BY <1>5, <1>6, <2>1, ExactGrown
  <2> QED BY <1>6, <2>2 DEF Grown
<1>14. ASSUME NEW n \in DOMAIN programs' PROVE programs'[n].content \in ProgramNames
  <2>1. CASE n \in DOMAIN programs
    BY <1>5, <1>6, <2>1 DEF Grown, Kept
  <2>2. CASE n \notin DOMAIN programs
    <3>1. PICK q \in DOMAIN pendingPrograms : Carries(NewPrograms[q], programs'[n])
      BY <1>6, <2>2 DEF Grown
    <3>2. NewPrograms[q].content \in ProgramNames
      BY <1>2 DEF IInv, QueueOk
    <3> QED BY <3>1, <3>2 DEF Carries
  <2> QED BY <2>1, <2>2
<1>15. GraphOk'
  BY <1>7, <1>8, <1>9, <1>11, <1>12, <1>13, <1>14 DEF GraphOk
<1>16. \A n \in DOMAIN plans : /\ n \in DOMAIN plans'
                               /\ Grown(plans[n], NewPlans, NewPlansOf(n), Len(pendingPlans), plans'[n])
  BY <1>8, <1>9, <1>10
<1>17. Contents(programs) \cup QueuedPrograms \subseteq Contents(programs')
  <2>1. \A q \in DOMAIN pendingPrograms : q <= Len(pendingPrograms)
    BY <1>4
  <2>2. Contents(programs) \cup {NewPrograms[q].content : q \in DOMAIN pendingPrograms} \subseteq Contents(programs')
    BY <1>6, <2>1, ContentsGrow
  <2> QED BY <1>2, <2>2 DEF QueuedPrograms
<1>18. ASSUME NEW n \in DOMAIN plans
       PROVE  Contents(plans[n]) \cup QueuedPlans(n) \subseteq Contents(plans'[n])
  <2>1. \A q \in NewPlansOf(n) : q <= Len(pendingPlans) /\ q \in DOMAIN pendingPlans
    BY <1>4 DEF NewPlansOf
  <2>2. Contents(plans[n]) \cup {NewPlans[q].content : q \in NewPlansOf(n)} \subseteq Contents(plans'[n])
    BY <1>16, <2>1, ContentsGrow
  <2> QED BY <1>3, <2>1, <2>2 DEF QueuedPlans
<1>19. ASSUME pendingPrograms = <<>>, pendingPlans = <<>> PROVE UNCHANGED <<programs, plans>>
  <2>1. programs' = programs
    BY <1>6, <1>19, EmptySequence
  <2>2. Tiers = plans /\ \A n \in DOMAIN plans : plans'[n] = plans[n]
    BY <1>8, <1>10, <1>19, EmptySequence
  <2>3. plans = [n \in DOMAIN plans |-> plans[n]]
    <3>1. plans \in Seq({plans[x] : x \in DOMAIN plans})
      BY <1>4 DEF IsSequence
    <3>2. plans \in [1 .. Len(plans) -> {plans[x] : x \in DOMAIN plans}]
      BY <3>1, LenProperties
    <3> QED BY <3>2
  <2>4. plans' = [n \in DOMAIN plans |-> plans[n]]
    BY <1>9, <2>2
  <2> QED BY <2>1, <2>3, <2>4
<1> QED BY <1>6, <1>7, <1>15, <1>16, <1>17, <1>18, <1>19 DEF Rebuilt

(* Representatives of an unmoved graph are answered for by the sweep.      *)
LEMMA SweptIsExhausted ==
  ASSUME IInv, pc = "rebuild", ~bound, pendingPrograms = <<>>, pendingPlans = <<>>,
         OneKind \/ limits.refire = AllRules, NEW n \in Representatives
  PROVE  Exhausted(n)
<1>1. n \in DOMAIN programs /\ Matched(n) /\ \A j \in 1 .. (n - 1) : ~SameClass(programs, j, n)
  BY DEF Representatives, FirstOfClass, Matched
<1>2. /\ Len(programs) \in Nat /\ DOMAIN programs = 1 .. Len(programs)
      /\ n \in DOMAIN plans /\ IsSequence(plans[n]) /\ TierOk(programs)
  BY <1>1, SequenceShape DEF IInv, GraphOk, TierOk
<1>3. Len(plans[n]) \in Nat /\ DOMAIN plans[n] = 1 .. Len(plans[n])
  BY <1>2, SequenceShape
<1>4. QueuedPrograms = {} /\ QueuedPlans(n) = {}
  BY EmptySequence DEF QueuedPrograms, QueuedPlans, NewPlansOf
<1>5. ASSUME NEW s \in DOMAIN rules, NEW x \in DOMAIN SitesAt(s, n)
      PROVE  Answered(s, n, x) /\ Remembered(n, s, x)
  <2>1. calls > 0 /\ slot = Len(rules) + 1
    BY DEF IInv, RoundOk
  <2>2. Remembered(n, s, x)
    BY <1>1, <2>1 DEF IInv, MemoOk
  <2>3. s < slot
    <3>1. PICK last : last = Len(rules)
      OBVIOUS
    <3>2. last \in Nat /\ s \in 1 .. last
      BY <3>1, LenProperties DEF IInv, RoundOk
    <3>3. s < last + 1
      BY <3>2
    <3> QED BY <2>1, <3>1, <3>3
  <2> QED BY <1>1, <2>2, <2>3 DEF IInv, SweepOk, Passed
<1>6. Min({j \in DOMAIN programs : SameClass(programs, j, n)}) = n
  <2>1. PICK S, r : S = {j \in DOMAIN programs : SameClass(programs, j, n)} /\ r = Min(S)
    OBVIOUS
  <2>2. n \in S /\ S \in SUBSET Nat
    BY <1>1, <1>2, <2>1 DEF SameClass
  <2>3. r \in S /\ r <= n
    BY <2>1, <2>2, MinIsLeast
  <2>4. r \in 1 .. Len(programs) /\ n \in 1 .. Len(programs)
    BY <1>1, <1>2, <2>1, <2>3
  <2>5. r \notin 1 .. (n - 1)
    BY <1>1, <2>1, <2>3
  <2>6. r = n
    BY <1>2, <2>3, <2>4, <2>5
  <2> QED BY <2>1, <2>6
<1>7. ASSUME NEW s \in DOMAIN rules, NEW proposal \in Range(Sites(rules[s], programs[n].content)),
             proposal.kind = "program", MayRewrite(s, n)
      PROVE  proposal.to \in Contents(programs) \cup {Invalid}
  <2>1. PICK x \in DOMAIN SitesAt(s, n) : proposal = SitesAt(s, n)[x]
    BY <1>7 DEF Range, SitesAt
  <2>2. Answered(s, n, x) /\ Remembered(n, s, x)
    BY <1>5
  <2>3. memo[n][s][x].kind = "program"
    BY <1>7, <2>1, <2>2 DEF Answered, Remembered
  <2> QED BY <1>4, <2>1, <2>2, <2>3 DEF Remembered
<1>8. ASSUME NEW s \in DOMAIN rules, NEW proposal \in Range(Sites(rules[s], programs[n].content)),
             proposal.kind # "program", NEW plan \in Range(plans[n]), MayExtend(s, plan)
      PROVE  PlanKnown(n, Merged(plan.content, proposal.delta))
  <2>1. PICK x \in DOMAIN SitesAt(s, n) : proposal = SitesAt(s, n)[x]
    BY <1>8 DEF Range, SitesAt
  <2>2. Answered(s, n, x) /\ Remembered(n, s, x)
    BY <1>5
  <2>3. memo[n][s][x].done = Len(plans[n])
    BY <1>8, <2>1, <2>2 DEF Answered, Remembered
  <2>4. PICK j \in DOMAIN plans[n] : plan = plans[n][j]
    BY <1>8 DEF Range
  <2>5. j <= memo[n][s][x].done
    BY <1>3, <2>3
  <2>6. Merged(plans[n][j].content, SitesAt(s, n)[x].delta) \in Contents(plans[n])
    BY <1>4, <1>8, <2>2, <2>4, <2>5 DEF Remembered
  <2> QED BY <2>1, <2>4, <2>6 DEF PlanKnown
<1> QED BY <1>6, <1>7, <1>8 DEF Exhausted

LEMMA RebuildStep == ASSUME IInv, Rebuild PROVE IInv'
<1>1. /\ pc = "rebuild" /\ UNCHANGED <<rules, ruleKind, limits, calls>>
      /\ pendingPrograms' = <<>> /\ pendingPlans' = <<>>
      /\ slot' = 1 /\ pid' = 1 /\ site' = 1 /\ bound' = FALSE
      /\ (pc' = "node" /\ outcome' = "none") \/ pc' = "idle"
      /\ outcome' = "fixpoint" => ~bound /\ pendingPrograms = <<>> /\ pendingPlans = <<>>
      /\ \E keep : memo' = MemoFor(programs', rules, keep)
  <2>1. PICK ends : /\ ends = IF bound THEN "bound"
                              ELSE IF queues = <<<<>>, <<>>>> THEN "fixpoint"
                              ELSE IF iter = limits.iterations THEN "iterations" ELSE "none"
    OBVIOUS
  <2>2. /\ outcome' = ends
        /\ memo' = MemoFor(programs', rules, limits.dedup \/ ends # "none")
        /\ IF ends = "none" THEN pc' = "node" /\ iter' = iter + 1 ELSE pc' = "idle" /\ UNCHANGED iter
    BY <2>1 DEF Rebuild
  <2>3. ends = "fixpoint" => ~bound /\ pendingPrograms = <<>> /\ pendingPlans = <<>>
    BY <2>1 DEF queues
  <2>4. \E keep : memo' = MemoFor(programs', rules, keep)
    BY <2>2
  <2> QED BY <2>2, <2>3, <2>4 DEF Rebuild
<1>2. /\ Rebuilt /\ GraphOk'
      /\ pendingPrograms = <<>> /\ pendingPlans = <<>> => UNCHANGED <<programs, plans>>
  BY RebuildGraph
<1>3. calls > 0 /\ calls # 0 /\ rules # <<>> /\ rules \in Seq(DOMAIN Proposals)
  BY <1>1 DEF IInv, RoundOk
<1>4. QueueOk'
  BY <1>1, EmptySequence DEF QueueOk
<1>5. RoundOk'
  <2>1. 1 \in DOMAIN rules
    <3>1. PICK last : last = Len(rules)
      OBVIOUS
    <3>2. last \in Nat /\ DOMAIN rules = 1 .. last /\ last # 0
      BY <1>3, <3>1, LenProperties, EmptySeq
    <3> QED BY <3>2
  <2> QED BY <1>1, <1>3, <2>1 DEF IInv, RoundOk
<1>6. PICK keep : memo' = MemoFor(programs', rules, keep)
  BY <1>1
<1>7. /\ DOMAIN memo' = DOMAIN programs'
      /\ \A n \in DOMAIN programs' : memo'[n] = IF keep /\ n \in DOMAIN memo THEN memo[n]
                                                ELSE NewMemo(programs'[n].content, rules)
  BY <1>6 DEF MemoFor
<1>8. /\ DOMAIN memo = DOMAIN programs
      /\ \A n \in DOMAIN programs :
           /\ DOMAIN memo[n] = DOMAIN rules
           /\ \A s \in DOMAIN rules : /\ DOMAIN memo[n][s] = DOMAIN SitesAt(s, n)
                                      /\ \A x \in DOMAIN SitesAt(s, n) : Remembered(n, s, x)
  BY <1>3 DEF IInv, MemoOk
<1>9. ASSUME NEW n \in DOMAIN programs'
      PROVE  /\ DOMAIN memo'[n] = DOMAIN rules'
             /\ \A s \in DOMAIN rules' : /\ DOMAIN memo'[n][s] = DOMAIN SitesAt(s, n)'
                                         /\ \A x \in DOMAIN SitesAt(s, n)' : Remembered(n, s, x)'
  <2>1. CASE keep /\ n \in DOMAIN memo
    <3>1. n \in DOMAIN programs /\ memo'[n] = memo[n] /\ n \in DOMAIN plans
      BY <1>7, <1>8, <2>1, SequenceShape DEF IInv, GraphOk, TierOk
    <3>2. /\ programs'[n].content = programs[n].content
          /\ Contents(programs) \cup QueuedPrograms \subseteq Contents(programs')
          /\ Grown(plans[n], NewPlans, NewPlansOf(n), Len(pendingPlans), plans'[n])
          /\ Contents(plans[n]) \cup QueuedPlans(n) \subseteq Contents(plans'[n])
      BY <1>2, <3>1 DEF Rebuilt, Grown, Kept
    <3>3. \A s : SitesAt(s, n)' = SitesAt(s, n)
      BY <1>1, <3>2 DEF SitesAt
    <3>4. \A j \in DOMAIN plans[n] : /\ j \in DOMAIN plans'[n] /\ plans'[n][j].content = plans[n][j].content
                                     /\ plans'[n][j].top = plans[n][j].top
      BY <3>1, <3>2 DEF Grown, Kept, IInv, GraphOk
    <3>5. /\ Len(plans[n]) \in Nat /\ DOMAIN plans[n] = 1 .. Len(plans[n]) /\ Len(plans[n]) <= Len(plans'[n])
          /\ Len(plans'[n]) \in Nat /\ DOMAIN plans'[n] = 1 .. Len(plans'[n])
      BY <3>1, <3>2, SequenceShape DEF IInv, GraphOk, TierOk, Grown
    <3>6. ASSUME NEW s \in DOMAIN rules, NEW x \in DOMAIN SitesAt(s, n) PROVE Remembered(n, s, x)'
      <4>1. Remembered(n, s, x)
        BY <1>8, <3>1
      <4>2. PICK m, proposal : m = memo[n][s][x] /\ proposal = SitesAt(s, n)[x]
        OBVIOUS
      <4>3. m.done \in Nat /\ m.done <= Len(plans[n])
        BY <4>1, <4>2 DEF Remembered
      <4>4. m.done <= Len(plans'[n])
        <5>1. PICK lo, hi, d : lo = Len(plans[n]) /\ hi = Len(plans'[n]) /\ d = m.done
          OBVIOUS
        <5>2. lo \in Nat /\ hi \in Nat /\ d \in Nat /\ d <= lo /\ lo <= hi
          BY <3>5, <4>3, <5>1
        <5>3. d <= hi
          BY <5>2
        <5> QED BY <5>1, <5>3
      <4>5. ASSUME NEW j \in DOMAIN plans'[n], j <= m.done PROVE j \in DOMAIN plans[n]
        <5>1. PICK lo, d : lo = Len(plans[n]) /\ d = m.done
          OBVIOUS
        <5>2. lo \in Nat /\ d \in Nat /\ d <= lo /\ j \in Nat /\ j >= 1 /\ j <= d
          BY <3>5, <4>3, <4>5, <5>1
        <5>3. j \in 1 .. lo
          BY <5>2
        <5> QED BY <3>5, <5>1, <5>3
      <4>6. \A j \in DOMAIN plans[n] : MayExtend(s, plans[n][j])' <=> MayExtend(s, plans[n][j])
        BY <1>1, <3>4 DEF MayExtend
      <4>7. \A j \in DOMAIN plans'[n] : j <= m.done /\ MayExtend(s, plans[n][j])' =>
               Merged(plans'[n][j].content, proposal.delta) \in Contents(plans'[n])
        BY <3>2, <3>4, <4>1, <4>2, <4>5, <4>6 DEF Remembered
      <4>8. m.kind = "program" => proposal.to \in {Invalid} \cup Contents(programs')
        BY <3>2, <4>1, <4>2 DEF Remembered
      <4>9. memo'[n][s][x] = m /\ SitesAt(s, n)'[x] = proposal
        BY <3>1, <3>3, <4>2
      <4>10. Contents(plans[n])' = Contents(plans'[n]) /\ Contents(programs)' = Contents(programs')
        BY DEF Contents
      <4> QED BY <4>1, <4>2, <4>3, <4>4, <4>7, <4>8, <4>9, <4>10 DEF Remembered
    <3> QED BY <1>1, <1>8, <3>1, <3>3, <3>6
  <2>2. CASE ~ (keep /\ n \in DOMAIN memo)
    <3>1. memo'[n] = NewMemo(programs'[n].content, rules')
      BY <1>1, <1>7, <2>2
    <3> QED BY <1>2, <3>1, FreshRow
  <2> QED BY <2>1, <2>2
<1>10. MemoOk'
  BY <1>7, <1>9 DEF MemoOk
<1>11. SweepOk'
  <2>1. ASSUME NEW n \in DOMAIN programs', NEW s \in DOMAIN rules', NEW x PROVE ~Passed(s, n, x)'
    <3>1. IsSequence(programs') /\ Len(rules) \in Nat /\ DOMAIN rules = 1 .. Len(rules)
      BY <1>2, <1>3, LenProperties DEF GraphOk, TierOk
    <3>2. n \in Nat /\ n >= 1 /\ s \in Nat /\ s >= 1
      BY <1>1, <3>1, SequenceShape
    <3> QED BY <1>1, <3>2 DEF Passed
  <2> QED BY <2>1 DEF SweepOk
<1>12. ClosedOk'
  <2> SUFFICES ASSUME outcome' = "fixpoint", OneKind \/ limits'.refire = AllRules, NEW n \in Representatives'
               PROVE  Exhausted(n)'
    BY DEF ClosedOk
  <2>1. ~bound /\ pendingPrograms = <<>> /\ pendingPlans = <<>> /\ UNCHANGED <<programs, plans, rules, limits>>
    BY <1>1, <1>2
  <2>2. n \in Representatives
    BY <2>1 DEF Representatives
  <2>3. Exhausted(n)
    BY <1>1, <2>1, <2>2, SweptIsExhausted
  <2>4. \A s : MayRewrite(s, n)' <=> MayRewrite(s, n)
    BY <2>1 DEF MayRewrite, Produced
  <2> QED BY <2>1, <2>3, <2>4 DEF Exhausted, MayExtend, PlanKnown
<1> QED BY <1>2, <1>4, <1>5, <1>10, <1>11, <1>12 DEF IInv

------------------------------------------------------------------------------

LEMMA NextIInv == IInv /\ [Next]_vars => IInv'
<1> SUFFICES ASSUME IInv, [Next]_vars PROVE IInv'
  OBVIOUS
<1>1. ASSUME NEW order \in Orders, NEW lim \in Limits, Saturate(order, lim) PROVE IInv'
  BY <1>1, SaturateStep
<1>2. CASE Pass
  BY <1>2, PassStep
<1>3. CASE Match
  BY <1>3, MatchStep
<1>4. CASE EndRule
  BY <1>4, EndRuleStep
<1>5. CASE EndSites
  BY <1>5, EndSitesStep
<1>6. CASE Recall
  BY <1>6, RecallStep
<1>7. CASE CutPrograms
  BY <1>7, CutProgramsStep
<1>8. CASE OfferProgram
  BY <1>8, OfferProgramStep
<1>9. CASE OfferPlans
  BY <1>9, OfferPlansStep
<1>10. CASE Rebuild
  BY <1>10, RebuildStep
<1>11. CASE UNCHANGED vars
  <2>1. UNCHANGED <<programs, plans, rules, memo, ruleKind, pendingPrograms, pendingPlans, limits, pc, slot, pid,
                    site, iter, bound, outcome, calls>>
    BY <1>11 DEF vars, graph, queues
  <2>2. GraphOk' /\ QueueOk' /\ RoundOk'
    BY <2>1 DEF IInv, GraphOk, QueueOk, RoundOk
  <2>3. /\ \A s, n : SitesAt(s, n)' = SitesAt(s, n)
        /\ \A s, n : MayRewrite(s, n)' <=> MayRewrite(s, n)
        /\ \A n : Matched(n)' <=> Matched(n)
        /\ Representatives' = Representatives
    BY <2>1 DEF SitesAt, MayRewrite, Produced, Matched, Representatives
  <2>4. \A n, s, x : /\ Remembered(n, s, x)' <=> Remembered(n, s, x)
                     /\ Answered(s, n, x)' <=> Answered(s, n, x)
                     /\ Passed(s, n, x)' <=> Passed(s, n, x)
    BY <2>1, <2>3 DEF Remembered, QueuedPrograms, QueuedPlans, NewPlansOf, MayExtend, Answered, Passed
  <2>5. \A n : Exhausted(n)' <=> Exhausted(n)
    BY <2>1, <2>3 DEF Exhausted, MayExtend, PlanKnown
  <2> QED BY <2>1, <2>2, <2>3, <2>4, <2>5 DEF IInv, MemoOk, SweepOk, ClosedOk
<1> QED BY <1>1, <1>2, <1>3, <1>4, <1>5, <1>6, <1>7, <1>8, <1>9, <1>10, <1>11 DEF Next

(* The graph, the queues, the memo and the sweep stay as IInv says,        *)
(* whatever the rules, the limits and the calls of saturate.               *)
THEOREM Invariance == Spec => []IInv
<1>1. Init => IInv
  BY InitIInv
<1>2. IInv /\ [Next]_vars => IInv'
  BY NextIInv
<1> QED BY <1>1, <1>2, PTL DEF Spec

(* E0 extraction never selects a program or a plan an E1 rule had a hand   *)
(* in, however the graph was grown (extract.hpp:10).                       *)
THEOREM ClassKept == Spec => []ExtractionKeepsClass
<1>1. IInv => ExtractionKeepsClass
  <2> SUFFICES ASSUME IInv, NEW c \in Candidates(0)
               PROVE  Range(programs[c[1]].history \o plans[c[1]][c[2]].history) \cap E1 = {}
    BY DEF ExtractionKeepsClass
  <2>1. PICK n \in {n \in Representatives : programs[n].exact <= 0} :
          c \in {<<n, j>> : j \in {j \in PlanRepresentatives(n) :
                                     Combined(programs[n].exact, plans[n][j].exact) <= 0}}
    BY DEF Candidates
  <2>2. PICK j \in PlanRepresentatives(n) : c = <<n, j>> /\ Combined(programs[n].exact, plans[n][j].exact) <= 0
    BY <2>1
  <2>3. n \in DOMAIN programs /\ j \in DOMAIN plans[n] /\ n \in DOMAIN plans /\ c[1] = n /\ c[2] = j
    BY <2>2, SequenceShape DEF Representatives, PlanRepresentatives, FirstOfClass, IInv, GraphOk, TierOk
  <2>4. ExactNode(programs[n]) /\ ExactNode(plans[n][j])
    BY <2>3 DEF IInv, GraphOk, ExactOk, ExactNode
  <2>5. programs[n].exact = 0 /\ plans[n][j].exact = 0
    BY <2>2, <2>4 DEF ExactNode, Combined
  <2>6. Range(programs[n].history) \cap E1 = {} /\ Range(plans[n][j].history) \cap E1 = {}
    BY <2>4, <2>5 DEF ExactNode
  <2>7. Range(programs[n].history \o plans[n][j].history)
          = Range(programs[n].history) \cup Range(plans[n][j].history)
    BY <2>4, ConcatSequence DEF ExactNode
  <2> QED BY <2>3, <2>6, <2>7
<1> QED BY <1>1, Invariance, PTL

(* A round that queued anything adds a content.                            *)
THEOREM AddsContent == Spec => RoundsAddContent
<1> DEFINE Adds == pc = "rebuild" /\ queues # <<<<>>, <<>>>> =>
                     \/ Contents(programs) # Contents(programs')
                     \/ \E i \in DOMAIN plans : Contents(plans[i]) # Contents(plans'[i])
<1>1. IInv /\ [Next]_vars => [Adds]_vars
  <2> SUFFICES ASSUME IInv, Next, pc = "rebuild", queues # <<<<>>, <<>>>>
               PROVE  \/ Contents(programs) # Contents(programs')
                      \/ \E i \in DOMAIN plans : Contents(plans[i]) # Contents(plans'[i])
    OBVIOUS
  <2>1. Rebuild
    BY DEF Next, Saturate, Pass, Match, EndRule, EndSites, Recall, CutPrograms, OfferProgram, OfferPlans, Proposes
  <2>2. Rebuilt
    BY <2>1, RebuildGraph
  <2>3. CASE pendingPrograms # <<>>
    <3>1. PICK q \in DOMAIN pendingPrograms : TRUE
      BY <2>3, SequenceShape, EmptySeq DEF IInv, QueueOk, IsSequence
    <3>2. pendingPrograms[q].content \in QueuedPrograms /\ pendingPrograms[q].content \notin Contents(programs)
      BY DEF QueuedPrograms, IInv, QueueOk
    <3> QED BY <2>2, <3>2 DEF Rebuilt
  <2>4. CASE pendingPlans # <<>>
    <3>1. PICK q \in DOMAIN pendingPlans : TRUE
      BY <2>4, SequenceShape, EmptySeq DEF IInv, QueueOk, IsSequence
    <3>2. PICK n : n = pendingPlans[q].program
      OBVIOUS
    <3>3. /\ n \in DOMAIN plans /\ pendingPlans[q].content \in QueuedPlans(n)
          /\ pendingPlans[q].content \notin Contents(plans[n])
      BY <3>2 DEF QueuedPlans, NewPlansOf, IInv, QueueOk
    <3> QED BY <2>2, <3>3 DEF Rebuilt
  <2> QED BY <2>3, <2>4 DEF queues
<1> QED BY <1>1, Invariance, PTL DEF Spec, RoundsAddContent

(* A call that stopped by itself has left no answer of a rule out, if      *)
(* every rule makes proposals of one kind.                                 *)
THEOREM Closed == ASSUME OneKind PROVE Spec => []SaturatedIsClosed
<1>1. IInv => SaturatedIsClosed
  BY DEF IInv, ClosedOk, SaturatedIsClosed
<1> QED BY <1>1, Invariance, PTL

(* Nodes are one class exactly when they have one content, and a complete  *)
(* saturation answers for the duplicates as for their representatives.     *)
THEOREM Lossless == Spec => []DedupIsLossless
<1>1. ASSUME IInv PROVE Congruent
  <2>1. TierOk(programs) /\ \A n \in DOMAIN plans : TierOk(plans[n])
    BY <1>1 DEF IInv, GraphOk
  <2> QED BY <2>1, OneClassOneContent DEF Congruent
<1>2. ASSUME IInv, outcome = "fixpoint", limits.refire = AllRules, NEW i \in DOMAIN programs
      PROVE  Exhausted(i)
  <2>1. TierOk(programs) /\ DOMAIN programs \in SUBSET Nat /\ Len(programs) \in Nat
        /\ DOMAIN programs = 1 .. Len(programs)
    BY <1>2, SequenceShape DEF IInv, GraphOk, TierOk
  <2>2. \A x, y \in DOMAIN programs : SameClass(programs, x, y) <=> programs[x].content = programs[y].content
    BY <2>1, OneClassOneContent
  <2>3. PICK S, r : S = {j \in DOMAIN programs : SameClass(programs, j, i)} /\ r = Min(S)
    OBVIOUS
  <2>4. i \in S /\ S \in SUBSET Nat
    BY <2>1, <2>2, <2>3
  <2>5. r \in S /\ \A j \in S : r <= j
    BY <2>3, <2>4, MinIsLeast
  <2>6. r \in DOMAIN programs /\ programs[r].content = programs[i].content
    BY <2>2, <2>3, <2>5
  <2>7. {j \in DOMAIN programs : SameClass(programs, j, r)} = S
    BY <2>2, <2>3, <2>6
  <2>8. r \in Representatives
    <3>1. ASSUME NEW j \in 1 .. (r - 1), SameClass(programs, j, r) PROVE FALSE
      <4>1. j \in DOMAIN programs /\ ~ (r <= j)
        BY <2>1, <2>6
      <4>2. j \in S
        BY <2>7, <3>1, <4>1
      <4> QED BY <2>5, <4>1, <4>2
    <3> QED BY <2>6, <3>1 DEF Representatives, FirstOfClass
  <2>9. Exhausted(r)
    BY <1>2, <2>8 DEF IInv, ClosedOk
  <2>10. \A s : MayRewrite(s, r)
    BY <1>2 DEF MayRewrite
  <2> QED BY <2>3, <2>6, <2>7, <2>9, <2>10 DEF Exhausted
<1>3. IInv => DedupIsLossless
  BY <1>1, <1>2 DEF DedupIsLossless
<1> QED BY <1>3, Invariance, PTL
=============================================================================
