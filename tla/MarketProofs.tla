---------------------------- MODULE MarketProofs ----------------------------
(***************************************************************************)
(* The calibration of curves that read one another, for any number of      *)
(* curves and whatever their instruments read: the blocks Tarjan's search  *)
(* finds are the strongly connected components, every one after those it   *)
(* needs, so that no instrument reads a curve without values.  The         *)
(* registry of conventions: what it accepted names nothing that is absent, *)
(* and makes trades.  The curve of regions: whatever the constructor       *)
(* accepts, the regions tile.                                              *)
(***************************************************************************)
EXTENDS Market, FiniteSetTheorems, SequenceTheorems, WellFoundedInduction, TLAPS

Calls == [curve : Calibration!Curves, todo : SUBSET Calibration!Curves]

(* The types a search keeps.                                               *)
Types ==
  /\ reads \in Markets /\ sequential \in BOOLEAN
  /\ pc \in {"start", "visit", "calibrate", "done", "thrown", "unsolved"}
  /\ deps \in [Calibration!Curves -> SUBSET Calibration!Curves]
  /\ index \in [Calibration!Curves -> Int] /\ low \in [Calibration!Curves -> Int]
  /\ on_stack \in [Calibration!Curves -> BOOLEAN] /\ counter \in Nat
  /\ stack \in Seq(Calibration!Curves) /\ visits \in Seq(Calls)
  /\ out \in Seq(SUBSET Calibration!Curves) /\ results \in Seq(SUBSET Calibration!Curves)

Seen(c) == index[c] >= 0
Frames == {visits[k].curve : k \in DOMAIN visits}

(* The edge from c to d has been looked at.                                *)
LookedAt(c, d) == d \in deps[c] /\ \A k \in DOMAIN visits : visits[k].curve = c => d \notin visits[k].todo

(* Whatever holds x and what its curves depend on holds y.                 *)
Reaches(x, y) == \A S \in SUBSET Calibration!Curves : x \in S /\ (\A c \in S : deps[c] \subseteq S) => y \in S

(* Curves are numbered as they are seen, and stand on the stack and among  *)
(* the calls in that order.                                                *)
IndexOk ==
  /\ \A c \in Calibration!Curves : index[c] < counter /\ (on_stack[c] => Seen(c))
  /\ \A c, d \in Calibration!Curves : Seen(c) /\ index[c] = index[d] => c = d

StackOk ==
  /\ \A c \in Calibration!Curves : on_stack[c] <=> \E n \in DOMAIN stack : stack[n] = c
  /\ \A m, n \in DOMAIN stack : m < n => index[stack[m]] < index[stack[n]]

VisitsOk ==
  /\ \A k \in DOMAIN visits : on_stack[visits[k].curve] /\ visits[k].todo \subseteq deps[visits[k].curve]
  /\ \A j, k \in DOMAIN visits : j < k => index[visits[j].curve] < index[visits[k].curve]

(* An edge looked at leads to a curve that is seen, and low knows of those *)
(* on the stack.                                                           *)
EdgesOk ==
  \A c, d \in Calibration!Curves :
    on_stack[c] /\ LookedAt(c, d) => Seen(d) /\ (on_stack[d] => low[c] <= index[d])

(* low is the number of a curve on the stack that can be reached; of a     *)
(* curve whose visit has returned, of one before it.                       *)
LowestOf(c) == \E d \in Calibration!Curves : on_stack[d] /\ index[d] = low[c] /\ Reaches(c, d)
LowOk ==
  \A c \in Calibration!Curves : on_stack[c] =>
    /\ low[c] <= index[c] /\ (c \notin Frames => low[c] # index[c])
    /\ LowestOf(c)

(* What is on the stack since a call began, and since then of no later one.*)
Under(k, c) == on_stack[c] /\ index[visits[k].curve] <= index[c]
OwnOf(k, c) == Under(k, c) /\ \A j \in DOMAIN visits : k < j => index[c] < index[visits[j].curve]

SubtreeOk ==
  \A k \in DOMAIN visits : \A u, c \in Calibration!Curves : u = visits[k].curve =>
    /\ Under(k, c) => Reaches(u, c)
    /\ OwnOf(k, c) => low[u] <= low[c]

Before(n) == UNION {out[m] : m \in 1 .. (n - 1)}

(* The blocks found are those seen and off the stack; each is connected,   *)
(* and all it depends on is in it or before it.                            *)
BlockOk(n) ==
  /\ out[n] # {} /\ out[n] \cap Before(n) = {}
  /\ \A c \in out[n] : deps[c] \subseteq out[n] \cup Before(n)
  /\ \A c, d \in out[n] : Reaches(c, d)

OutOk ==
  sequential =>
    /\ \A c \in Calibration!Curves : (\E n \in DOMAIN out : c \in out[n]) <=> Seen(c) /\ ~on_stack[c]
    /\ \A n \in DOMAIN out : BlockOk(n)

SearchOk == IndexOk /\ StackOk /\ VisitsOk /\ EdgesOk /\ LowOk /\ SubtreeOk /\ OutOk

(* Where the calibration is.                                               *)
StageOk ==
  /\ pc = "start" => /\ visits = <<>> /\ stack = <<>> /\ out = <<>>
                     /\ \A c \in Calibration!Curves : ~Seen(c) /\ ~on_stack[c]
  /\ sequential /\ pc \in {"visit", "calibrate", "done", "unsolved"} => deps = Calibration!Needs
  /\ ~sequential /\ pc \notin {"start"} => out = <<Calibration!Curves>>
  /\ pc = "visit" => sequential

ResultsOk ==
  /\ pc \in {"start", "visit"} => results = <<>>
  /\ Len(results) <= Len(out)
  /\ calibrated = Before(Len(results) + 1)

IInv == Types /\ SearchOk /\ StageOk /\ ResultsOk

-----------------------------------------------------------------------------
(* Sequences, and what reaches what.                                       *)

LEMMA Appended ==
  ASSUME NEW S, NEW s \in Seq(S), NEW e \in S
  PROVE  /\ Len(s) \in Nat /\ DOMAIN s = 1 .. Len(s)
         /\ Append(s, e) \in Seq(S) /\ Len(Append(s, e)) = Len(s) + 1
         /\ DOMAIN Append(s, e) = 1 .. (Len(s) + 1)
         /\ \A x \in 1 .. Len(s) : Append(s, e)[x] = s[x]
         /\ Append(s, e)[Len(s) + 1] = e
BY AppendProperties, LenProperties

LEMMA CutOff ==
  ASSUME NEW S, NEW s \in Seq(S), NEW n \in 0 .. Len(s)
  PROVE  /\ SubSeq(s, 1, n) \in Seq(S) /\ Len(SubSeq(s, 1, n)) = n
         /\ DOMAIN SubSeq(s, 1, n) = 1 .. n
         /\ \A x \in 1 .. n : SubSeq(s, 1, n)[x] = s[x]
<1>1. Len(s) \in Nat /\ DOMAIN s = 1 .. Len(s)
  BY LenProperties
<1>2. \A x \in 1 .. n : s[x] \in S
  BY <1>1, ElementOfSeq
<1>3. SubSeq(s, 1, n) = [x \in 1 .. n |-> s[x]]
  OBVIOUS
<1>4. [x \in 1 .. n |-> s[x]] \in [1 .. n -> S] /\ n \in Nat
  BY <1>1, <1>2
<1> QED BY <1>1, <1>3, <1>4

LEMMA ReachesItself == \A x : Reaches(x, x)
BY DEF Reaches

LEMMA ReachesEdge ==
  ASSUME Types, NEW x \in Calibration!Curves, NEW y \in deps[x]
  PROVE  Reaches(x, y)
BY DEF Reaches

LEMMA ReachesOn ==
  ASSUME NEW x, NEW y, NEW z, Reaches(x, y), Reaches(y, z)
  PROVE  Reaches(x, z)
BY DEF Reaches

LEMMA ReachesKept ==
  ASSUME UNCHANGED deps
  PROVE  \A x, y : Reaches(x, y)' <=> Reaches(x, y)
BY DEF Reaches

-----------------------------------------------------------------------------
(* A curve is entered.                                                     *)

(* The calls in progress when curve v is: of the last one, v was to do.    *)
CallersOf(v, callers) ==
  /\ callers \in Seq(Calls) /\ Len(callers) = Len(visits)
  /\ \A k \in DOMAIN visits : /\ callers[k].curve = visits[k].curve
                              /\ callers[k].todo \subseteq visits[k].todo
                              /\ visits[k].todo \subseteq callers[k].todo \cup {v}
  /\ \A k \in DOMAIN visits : k = Len(visits) => v \in deps[visits[k].curve]

LEMMA VisitsShape ==
  ASSUME Types
  PROVE  /\ Len(visits) \in Nat /\ DOMAIN visits = 1 .. Len(visits)
         /\ \A k \in DOMAIN visits : visits[k].curve \in Calibration!Curves /\ visits[k].todo \subseteq Calibration!Curves
<1>1. visits \in Seq(Calls)
  BY DEF Types
<1>2. Len(visits) \in Nat /\ DOMAIN visits = 1 .. Len(visits)
  BY <1>1, LenProperties
<1>3. \A k \in DOMAIN visits : visits[k] \in Calls
  BY <1>1, <1>2, ElementOfSeq
<1> QED BY <1>2, <1>3 DEF Calls

LEMMA EnterStep ==
  ASSUME Types, NEW v \in Calibration!Curves, NEW callers, CallersOf(v, callers), Calibration!Enter(v, callers)
  PROVE  /\ \A c \in Calibration!Curves :
              /\ index'[c] = IF c = v THEN counter ELSE index[c]
              /\ low'[c] = IF c = v THEN counter ELSE low[c]
              /\ on_stack'[c] <=> (c = v \/ on_stack[c])
         /\ counter' = counter + 1 /\ out' = out
         /\ DOMAIN stack = 1 .. Len(stack) /\ Len(stack) \in Nat
         /\ DOMAIN stack' = 1 .. (Len(stack) + 1)
         /\ \A m \in DOMAIN stack : stack'[m] = stack[m]
         /\ stack'[Len(stack) + 1] = v
         /\ DOMAIN visits' = 1 .. (Len(visits) + 1)
         /\ \A k \in DOMAIN visits : visits'[k] = callers[k]
         /\ visits'[Len(visits) + 1].curve = v /\ visits'[Len(visits) + 1].todo = deps[v]
         /\ index' \in [Calibration!Curves -> Int] /\ low' \in [Calibration!Curves -> Int]
         /\ on_stack' \in [Calibration!Curves -> BOOLEAN] /\ counter' \in Nat
         /\ stack' \in Seq(Calibration!Curves) /\ visits' \in Seq(Calls)
<1>1. /\ index' = [index EXCEPT ![v] = counter] /\ low' = [low EXCEPT ![v] = counter]
      /\ on_stack' = [on_stack EXCEPT ![v] = TRUE]
      /\ counter' = counter + 1 /\ out' = out
      /\ stack' = Append(stack, v)
      /\ visits' = Append(callers, [curve |-> v, todo |-> deps[v]])
  BY DEF Calibration!Enter, Calibration!Call
<1>2. [curve |-> v, todo |-> deps[v]] \in Calls
  BY DEF Types, Calls
<1>3. callers \in Seq(Calls) /\ Len(callers) = Len(visits)
  BY DEF CallersOf
<1>4. /\ DOMAIN stack = 1 .. Len(stack) /\ Len(stack) \in Nat
      /\ DOMAIN stack' = 1 .. (Len(stack) + 1)
      /\ \A m \in DOMAIN stack : stack'[m] = stack[m]
      /\ stack'[Len(stack) + 1] = v /\ stack' \in Seq(Calibration!Curves)
  <2>1. stack \in Seq(Calibration!Curves)
    BY DEF Types
  <2> QED BY <1>1, <2>1, Appended
<1>5. /\ DOMAIN visits' = 1 .. (Len(visits) + 1)
      /\ \A k \in DOMAIN visits : visits'[k] = callers[k]
      /\ visits'[Len(visits) + 1] = [curve |-> v, todo |-> deps[v]]
      /\ visits' \in Seq(Calls)
  BY <1>1, <1>2, <1>3, Appended, VisitsShape
<1>6. /\ \A c \in Calibration!Curves :
           /\ index'[c] = IF c = v THEN counter ELSE index[c]
           /\ low'[c] = IF c = v THEN counter ELSE low[c]
           /\ on_stack'[c] <=> (c = v \/ on_stack[c])
      /\ index' \in [Calibration!Curves -> Int] /\ low' \in [Calibration!Curves -> Int]
      /\ on_stack' \in [Calibration!Curves -> BOOLEAN] /\ counter' \in Nat
  BY <1>1 DEF Types
<1>7. visits'[Len(visits) + 1].curve = v /\ visits'[Len(visits) + 1].todo = deps[v]
  BY <1>5
<1> QED BY <1>1, <1>4, <1>5, <1>6, <1>7

LEMMA EnterKeeps ==
  ASSUME Types, SearchOk, NEW v \in Calibration!Curves, ~Seen(v),
         NEW callers, CallersOf(v, callers), Calibration!Enter(v, callers),
         UNCHANGED <<deps, sequential>>
  PROVE  SearchOk'
<1>a. PICK n : n = Len(visits) + 1
  OBVIOUS
<1>b. Len(visits) \in Nat /\ DOMAIN visits = 1 .. Len(visits)
  BY VisitsShape
<1>c. DOMAIN visits' = 1 .. (Len(visits) + 1)
  BY EnterStep
<1>e. visits'[Len(visits) + 1].curve = v /\ visits'[Len(visits) + 1].todo = deps[v]
  BY EnterStep
<1>d. \A k \in DOMAIN visits : visits'[k] = callers[k]
  BY EnterStep
<1>1. /\ n \in Nat /\ n \notin DOMAIN visits /\ DOMAIN visits' = DOMAIN visits \cup {n}
      /\ \A k \in DOMAIN visits : k \in Nat /\ k < n
      /\ \A k \in DOMAIN visits : visits'[k] = callers[k]
      /\ visits'[n].curve = v /\ visits'[n].todo = deps[v]
  BY <1>a, <1>b, <1>c, <1>d, <1>e
<1>2. /\ \A c \in Calibration!Curves :
           /\ index'[c] = IF c = v THEN counter ELSE index[c]
           /\ low'[c] = IF c = v THEN counter ELSE low[c]
           /\ on_stack'[c] <=> (c = v \/ on_stack[c])
      /\ counter' = counter + 1 /\ out' = out
  BY EnterStep
<1>3. \A k \in DOMAIN visits : /\ visits'[k].curve = visits[k].curve
                               /\ visits'[k].todo \subseteq visits[k].todo
                               /\ visits[k].todo \subseteq visits'[k].todo \cup {v}
  BY <1>1 DEF CallersOf
<1>4. \A k \in DOMAIN visits : /\ visits[k].curve \in Calibration!Curves /\ visits[k].curve # v
                               /\ on_stack[visits[k].curve]
  BY VisitsShape DEF SearchOk, IndexOk, VisitsOk, Seen
<1>5. \A x, y : Reaches(x, y)' <=> Reaches(x, y)
  BY ReachesKept
<1>6. /\ counter \in Nat /\ ~on_stack[v]
      /\ \A c \in Calibration!Curves : index[c] \in Int /\ low[c] \in Int /\ index[c] < counter
      /\ \A c \in Calibration!Curves : on_stack[c] \in BOOLEAN /\ (on_stack[c] => Seen(c))
  BY DEF Types, SearchOk, IndexOk
<1>7. IndexOk'
  BY <1>2, <1>6 DEF SearchOk, IndexOk, Seen
<1>8. StackOk'
  <2>a. PICK m : m = Len(stack) + 1
    OBVIOUS
  <2>b. /\ DOMAIN stack = 1 .. Len(stack) /\ Len(stack) \in Nat
        /\ DOMAIN stack' = 1 .. (Len(stack) + 1)
        /\ \A x \in DOMAIN stack : stack'[x] = stack[x]
        /\ stack'[Len(stack) + 1] = v
    BY EnterStep
  <2>1. /\ DOMAIN stack' = DOMAIN stack \cup {m} /\ m \notin DOMAIN stack
        /\ \A x \in DOMAIN stack : stack'[x] = stack[x] /\ x \in Nat /\ x < m
        /\ stack'[m] = v /\ m \in Nat
    BY <2>a, <2>b
  <2>2. \A x \in DOMAIN stack : stack[x] \in Calibration!Curves
    <3>1. stack \in Seq(Calibration!Curves)
      BY DEF Types
    <3> QED BY <3>1, ElementOfSeq, LenProperties
  <2>3. \A x \in DOMAIN stack : on_stack[stack[x]] /\ stack[x] # v
    BY <2>2, <1>6 DEF SearchOk, StackOk
  <2>4. ASSUME NEW c \in Calibration!Curves PROVE on_stack'[c] <=> \E x \in DOMAIN stack' : stack'[x] = c
    BY <1>2, <2>1, <2>3 DEF SearchOk, StackOk
  <2>5. ASSUME NEW x \in DOMAIN stack', NEW y \in DOMAIN stack', x < y
        PROVE  index'[stack'[x]] < index'[stack'[y]]
    <3>1. x \in DOMAIN stack /\ stack'[x] = stack[x]
      BY <2>1, <2>5
    <3>2. index'[stack'[x]] = index[stack[x]]
      BY <3>1, <2>2, <2>3, <1>2
    <3>3. CASE y = m
      BY <3>1, <3>2, <3>3, <2>1, <2>2, <1>2, <1>6
    <3>4. CASE y \in DOMAIN stack
      <4>1. index'[stack'[y]] = index[stack[y]]
        BY <3>4, <2>1, <2>2, <2>3, <1>2
      <4> QED BY <3>1, <3>2, <3>4, <4>1, <2>5 DEF SearchOk, StackOk
    <3> QED BY <3>3, <3>4, <2>1
  <2> QED BY <2>4, <2>5 DEF StackOk
<1>9. VisitsOk'
  <2>1. \A k \in DOMAIN visits' : on_stack'[visits'[k].curve] /\ visits'[k].todo \subseteq deps'[visits'[k].curve]
    BY <1>1, <1>2, <1>3, <1>4 DEF SearchOk, VisitsOk
  <2>2. ASSUME NEW j \in DOMAIN visits', NEW k \in DOMAIN visits', j < k
        PROVE  index'[visits'[j].curve] < index'[visits'[k].curve]
    <3>1. j \in DOMAIN visits /\ index'[visits'[j].curve] = index[visits[j].curve]
      BY <2>2, <1>1, <1>2, <1>3, <1>4
    <3>2. CASE k = n
      BY <3>1, <3>2, <1>1, <1>2, <1>4, <1>6
    <3>3. CASE k \in DOMAIN visits
      <4>1. index'[visits'[k].curve] = index[visits[k].curve]
        BY <3>3, <1>2, <1>3, <1>4
      <4> QED BY <3>1, <3>3, <4>1, <2>2 DEF SearchOk, VisitsOk
    <3> QED BY <3>2, <3>3, <1>1
  <2> QED BY <2>1, <2>2 DEF VisitsOk
<1>10. EdgesOk'
  <2> SUFFICES ASSUME NEW c \in Calibration!Curves, NEW d \in Calibration!Curves, on_stack'[c], LookedAt(c, d)'
               PROVE  Seen(d)' /\ (on_stack'[d] => low'[c] <= index'[d])
    BY DEF EdgesOk
  <2>1. c # v
    BY <1>1 DEF LookedAt
  <2>2. on_stack[c] /\ low'[c] = low[c] /\ low[c] <= index[c]
    BY <2>1, <1>2 DEF SearchOk, LowOk
  <2>3. CASE LookedAt(c, d)
    <3>1. Seen(d) /\ (on_stack[d] => low[c] <= index[d])
      BY <2>2, <2>3 DEF SearchOk, EdgesOk
    <3> QED BY <3>1, <2>2, <1>2 DEF Seen
  <2>4. CASE ~LookedAt(c, d)
    <3>1. PICK k \in DOMAIN visits : visits[k].curve = c /\ d \in visits[k].todo
      BY <2>4 DEF LookedAt
    <3>2. d \notin visits'[k].todo
      BY <3>1, <1>1, <1>3 DEF LookedAt
    <3>3. d = v
      BY <3>1, <3>2, <1>3
    <3> QED BY <3>3, <2>2, <1>2, <1>6 DEF Seen
  <2> QED BY <2>3, <2>4
<1>11. LowOk'
  <2> SUFFICES ASSUME NEW c \in Calibration!Curves, on_stack'[c]
               PROVE  /\ low'[c] <= index'[c] /\ (c \notin Frames' => low'[c] # index'[c])
                      /\ LowestOf(c)'
    BY DEF LowOk
  <2>1. CASE c = v
    <3>1. c \in Frames'
      BY <2>1, <1>1 DEF Frames
    <3>2. LowestOf(c)'
      BY <2>1, <1>2, <1>5, ReachesItself DEF LowestOf
    <3> QED BY <2>1, <3>1, <3>2, <1>2, <1>6
  <2>2. CASE c # v
    <3>1. /\ on_stack[c] /\ low'[c] = low[c] /\ index'[c] = index[c]
          /\ low[c] <= index[c] /\ (c \notin Frames => low[c] # index[c]) /\ LowestOf(c)
      BY <2>2, <1>2 DEF SearchOk, LowOk
    <3>2. c \in Frames => c \in Frames'
      BY <1>1, <1>3 DEF Frames
    <3>3. LowestOf(c)'
      <4>1. PICK d \in Calibration!Curves : on_stack[d] /\ index[d] = low[c] /\ Reaches(c, d)
        BY <3>1 DEF LowestOf
      <4>2. on_stack'[d] /\ index'[d] = low'[c] /\ Reaches(c, d)'
        BY <4>1, <3>1, <1>2, <1>5, <1>6
      <4> QED BY <4>2 DEF LowestOf
    <3> QED BY <3>1, <3>2, <3>3
  <2> QED BY <2>1, <2>2
<1>12. SubtreeOk'
  <2> SUFFICES ASSUME NEW k \in DOMAIN visits', NEW u \in Calibration!Curves, NEW c \in Calibration!Curves, u = visits'[k].curve
               PROVE  /\ Under(k, c)' => Reaches(u, c)'
                      /\ OwnOf(k, c)' => low'[u] <= low'[c]
    BY DEF SubtreeOk
  <2>1. CASE k = n
    <3>1. Under(k, c)' => c = v
      BY <2>1, <1>1, <1>2, <1>6 DEF Under
    <3> QED BY <2>1, <3>1, <1>1, <1>2, <1>5, <1>6, ReachesItself DEF OwnOf
  <2>2. CASE k \in DOMAIN visits
    <3>1. u = visits[k].curve /\ u # v
      BY <2>2, <1>3, <1>4
    <3>2. index'[u] = index[u] /\ low'[u] = low[u]
      BY <3>1, <1>2
    <3>3. ASSUME Under(k, c)' PROVE Reaches(u, c)'
      <4>1. CASE c = v
        <5>1. PICK l \in DOMAIN visits : l = Len(visits) /\ k <= l
          BY <2>2, VisitsShape
        <5>a. PICK top \in Calibration!Curves : top = visits[l].curve
          BY <5>1, <1>4
        <5>2. Under(k, top)
          <6>1. index[visits[k].curve] <= index[top]
            BY <2>2, <5>1, <5>a, <1>1, <1>4, <1>6 DEF SearchOk, VisitsOk
          <6> QED BY <6>1, <5>a, <1>4 DEF Under
        <5>3. Reaches(u, top)
          BY <2>2, <3>1, <5>2 DEF SearchOk, SubtreeOk
        <5>4. Reaches(top, v)
          BY <5>1, <5>a, ReachesEdge DEF CallersOf
        <5> QED BY <4>1, <5>3, <5>4, <1>5, ReachesOn
      <4>2. CASE c # v
        <5>1. Under(k, c)
          BY <4>2, <3>1, <3>2, <3>3, <1>2 DEF Under
        <5>2. Reaches(u, c)
          BY <5>1, <3>1, <2>2 DEF SearchOk, SubtreeOk
        <5> QED BY <5>2, <1>5
      <4> QED BY <4>1, <4>2
    <3>4. ASSUME OwnOf(k, c)' PROVE low'[u] <= low'[c]
      <4>1. index'[c] < index'[visits'[n].curve]
        BY <3>4, <2>2, <1>1 DEF OwnOf
      <4>2. c # v
        BY <4>1, <1>1, <1>2, <1>6
      <4>3. index'[c] = index[c] /\ low'[c] = low[c] /\ (on_stack'[c] <=> on_stack[c])
        BY <4>2, <1>2
      <4>4. Under(k, c)
        BY <3>4, <3>1, <3>2, <4>3 DEF OwnOf, Under
      <4>5. \A j \in DOMAIN visits : k < j => index[c] < index[visits[j].curve]
        BY <3>4, <4>3, <1>1, <1>2, <1>3, <1>4 DEF OwnOf
      <4> QED BY <2>2, <3>1, <3>2, <4>3, <4>4, <4>5 DEF OwnOf, SearchOk, SubtreeOk
    <3> QED BY <3>3, <3>4
  <2> QED BY <2>1, <2>2, <1>1
<1>13. OutOk'
  <2> SUFFICES ASSUME sequential
               PROVE  /\ \A c \in Calibration!Curves : (\E m \in DOMAIN out : c \in out[m]) <=> Seen(c)' /\ ~on_stack'[c]
                      /\ \A m \in DOMAIN out : BlockOk(m)'
    BY <1>2 DEF OutOk
  <2>1. \A c \in Calibration!Curves : (\E m \in DOMAIN out : c \in out[m]) <=> Seen(c) /\ ~on_stack[c]
    BY DEF SearchOk, OutOk
  <2>2. \A c \in Calibration!Curves : Seen(c)' /\ ~on_stack'[c] <=> Seen(c) /\ ~on_stack[c]
    BY <1>2 DEF Seen
  <2>3. \A m \in DOMAIN out : BlockOk(m)
    BY DEF SearchOk, OutOk
  <2>4. \A m : BlockOk(m)' <=> BlockOk(m)
    BY <1>2, <1>5 DEF BlockOk, Before
  <2> QED BY <2>1, <2>2, <2>3, <2>4
<1> QED BY <1>7, <1>8, <1>9, <1>10, <1>11, <1>12, <1>13 DEF SearchOk

-----------------------------------------------------------------------------
(* An edge to a curve that is seen.                                        *)

LEMMA LeastOfCurves ==
  ASSUME NEW S \in SUBSET Calibration!Curves, S # {}
  PROVE  Calibration!Min(S) \in S
<1> DEFINE less == {ss \in Nat \X Nat : ss[1] < ss[2]}
<1>1. IsWellFoundedOn(less, Nat)
  BY NatLessThanWellFounded DEF OpToRel
<1>2. \A x, y \in Nat : y < x => <<y, x>> \in less
  OBVIOUS
<1> HIDE DEF less
<1>3. S \in SUBSET Nat
  BY DEF Calibration!Curves
<1>4. PICK x \in S : \A y \in S : ~ (<<y, x>> \in less)
  BY <1>1, <1>3, WFMin
<1>5. ASSUME NEW y \in S PROVE x <= y
  <2>1. x \in Nat /\ y \in Nat
    BY <1>3
  <2>2. ~ (y < x)
    BY <1>2, <1>4, <2>1
  <2> QED BY <2>1, <2>2
<1> QED BY <1>5 DEF Calibration!Min

(* The smaller of two numbers.                                             *)
LEMMA SmallerOf ==
  ASSUME NEW x \in Int, NEW y \in Int
  PROVE  Calibration!Min({x, y}) = IF x <= y THEN x ELSE y
<1>1. CASE x <= y
  <2>1. x \in {x, y} /\ \A z \in {x, y} : x <= z
    BY <1>1
  <2>2. \A w \in {x, y} : (\A z \in {x, y} : w <= z) => w = x
    BY <1>1
  <2> QED BY <1>1, <2>1, <2>2 DEF Calibration!Min
<1>2. CASE ~(x <= y)
  <2>1. y \in {x, y} /\ \A z \in {x, y} : y <= z
    BY <1>2
  <2>2. \A w \in {x, y} : (\A z \in {x, y} : w <= z) => w = y
    BY <1>2
  <2> QED BY <1>2, <2>1, <2>2 DEF Calibration!Min
<1> QED BY <1>1, <1>2

(* The call at work: the last of the visits, of curve v.                   *)
LEMMA AtWork ==
  ASSUME Types, SearchOk, visits # <<>>
  PROVE  \E n \in DOMAIN visits, v \in Calibration!Curves :
           /\ n = Len(visits) /\ v = visits[n].curve
           /\ Calibration!V = v /\ Calibration!Todo = visits[n].todo
           /\ on_stack[v] /\ visits[n].todo \subseteq deps[v]
           /\ \A k \in DOMAIN visits : k <= n /\ (k # n => index[visits[k].curve] < index[v])
<1>1. PICK n : n = Len(visits)
  OBVIOUS
<1>2. n \in DOMAIN visits /\ \A k \in DOMAIN visits : k \in Nat /\ k <= n /\ n \in Nat
  <2>1. Len(visits) # 0
    BY EmptySeq DEF Types
  <2> QED BY <1>1, <2>1, VisitsShape
<1>3. PICK v \in Calibration!Curves : v = visits[n].curve
  BY <1>2, VisitsShape
<1>4. Calibration!V = v /\ Calibration!Todo = visits[n].todo
  BY <1>1, <1>3 DEF Calibration!V, Calibration!Todo, Calibration!Last
<1>5. on_stack[v] /\ visits[n].todo \subseteq deps[v]
  BY <1>2, <1>3 DEF SearchOk, VisitsOk
<1>6. \A k \in DOMAIN visits : k # n => index[visits[k].curve] < index[v]
  BY <1>2, <1>3 DEF SearchOk, VisitsOk
<1> QED BY <1>1, <1>2, <1>3, <1>4, <1>5, <1>6

(* The visits when the last call has looked at curve w.                    *)
LookedShape(w, visited) ==
  /\ visited \in Seq(Calls) /\ Len(visited) = Len(visits) /\ DOMAIN visited = DOMAIN visits
  /\ \A k \in DOMAIN visits :
       /\ visited[k].curve = visits[k].curve
       /\ k # Len(visits) => visited[k].todo = visits[k].todo
       /\ k = Len(visits) => visited[k].todo = visits[k].todo \ {w}

LEMMA LookedCalls ==
  ASSUME Types, SearchOk, visits # <<>>
  PROVE  LookedShape(Calibration!W, Calibration!Looked)
<1>1. PICK w : w = Calibration!W
  OBVIOUS
<1>2. PICK n \in DOMAIN visits, v \in Calibration!Curves :
         n = Len(visits) /\ v = visits[n].curve /\ Calibration!Todo = visits[n].todo
  BY AtWork
<1>3. PICK visited : visited = Calibration!Looked
  OBVIOUS
<1>4. visited = [visits EXCEPT ![n].todo = visits[n].todo \ {w}]
  BY <1>1, <1>2, <1>3 DEF Calibration!Looked
<1>5. visits \in Seq(Calls) /\ visits[n] \in Calls
  BY <1>2, ElementOfSeq, LenProperties DEF Types
<1>6. [visits[n] EXCEPT !.todo = visits[n].todo \ {w}] \in Calls
  BY <1>5 DEF Calls
<1>7. visited = [visits EXCEPT ![n] = [visits[n] EXCEPT !.todo = visits[n].todo \ {w}]]
  BY <1>4
<1>8. visited \in Seq(Calls) /\ Len(visited) = Len(visits)
  <2>1. n \in 1 .. Len(visits)
    BY <1>2, VisitsShape
  <2> QED BY <1>5, <1>6, <1>7, <2>1, ExceptSeq
<1>9. DOMAIN visited = DOMAIN visits /\ \A k \in DOMAIN visits : k # n => visited[k] = visits[k]
  BY <1>7
<1>10. visited[n].curve = visits[n].curve /\ visited[n].todo = visits[n].todo \ {w}
  BY <1>5, <1>7 DEF Calls
<1> QED BY <1>1, <1>2, <1>3, <1>8, <1>9, <1>10 DEF LookedShape

LEMMA LookKeeps ==
  ASSUME Types, SearchOk, Calibration!Look
  PROVE  /\ SearchOk'
         /\ visits' \in Seq(Calls) /\ low' \in [Calibration!Curves -> Int]
<1>1. PICK n \in DOMAIN visits, v \in Calibration!Curves :
         /\ n = Len(visits) /\ v = visits[n].curve
         /\ Calibration!V = v /\ Calibration!Todo = visits[n].todo
         /\ on_stack[v] /\ visits[n].todo \subseteq deps[v]
         /\ \A k \in DOMAIN visits : k <= n /\ (k # n => index[visits[k].curve] < index[v])
  BY AtWork DEF Calibration!Look, Calibration!Working
<1>2. PICK w : w = Calibration!W
  OBVIOUS
<1>3. /\ w \in visits[n].todo /\ w \in Calibration!Curves /\ w \in deps[v]
  <2>1. visits[n].todo \in SUBSET Calibration!Curves /\ visits[n].todo # {}
    BY <1>1, VisitsShape DEF Calibration!Look
  <2>2. w \in visits[n].todo
    BY <1>1, <1>2, <2>1, LeastOfCurves DEF Calibration!W
  <2> QED BY <1>1, <2>1, <2>2
<1>4. /\ UNCHANGED <<reads, sequential, pc, deps, index, on_stack, stack, counter, out, calibrated, results>>
      /\ Seen(w) /\ visits' = Calibration!Looked
      /\ low' = IF on_stack[w] THEN [low EXCEPT ![v] = Calibration!Min({low[v], index[w]})] ELSE low
  BY <1>1, <1>2 DEF Calibration!Look, Calibration!OnStack, Seen
<1>5. LookedShape(w, visits')
  BY <1>2, <1>4, LookedCalls DEF Calibration!Look, Calibration!Working
<1>6. /\ DOMAIN visits' = DOMAIN visits
      /\ \A k \in DOMAIN visits : visits'[k].curve = visits[k].curve /\ visits'[k].todo \subseteq visits[k].todo
      /\ \A k \in DOMAIN visits : \A d : d \in visits[k].todo /\ d \notin visits'[k].todo => k = n /\ d = w
  BY <1>1, <1>5 DEF LookedShape
<1>7. /\ low' \in [Calibration!Curves -> Int]
      /\ \A c \in Calibration!Curves : c # v => low'[c] = low[c]
      /\ low'[v] <= low[v] /\ (on_stack[w] => low'[v] <= index[w])
      /\ low'[v] = low[v] \/ (on_stack[w] /\ low'[v] = index[w])
  <2>1. low \in [Calibration!Curves -> Int] /\ low[v] \in Int /\ index[w] \in Int
    BY <1>3 DEF Types
  <2>2. CASE on_stack[w]
    <3>1. low' = [low EXCEPT ![v] = IF low[v] <= index[w] THEN low[v] ELSE index[w]]
      BY <2>1, <2>2, <1>4, SmallerOf
    <3> QED BY <3>1, <2>1, <2>2
  <2>3. CASE ~on_stack[w]
    BY <2>1, <2>3, <1>4
  <2> QED BY <2>2, <2>3
<1>8. \A x, y : Reaches(x, y)' <=> Reaches(x, y)
  BY <1>4, ReachesKept
<1>9. /\ \A c \in Calibration!Curves : index[c] \in Int /\ low[c] \in Int /\ low'[c] \in Int /\ low'[c] <= low[c]
      /\ index' = index /\ on_stack' = on_stack /\ deps' = deps
  BY <1>4, <1>7 DEF Types
<1>10. IndexOk' /\ StackOk'
  BY <1>4 DEF SearchOk, IndexOk, StackOk, Seen
<1>11. VisitsOk'
  BY <1>6, <1>9 DEF SearchOk, VisitsOk
<1>12. EdgesOk'
  <2> SUFFICES ASSUME NEW c \in Calibration!Curves, NEW d \in Calibration!Curves, on_stack[c], LookedAt(c, d)'
               PROVE  Seen(d) /\ (on_stack[d] => low'[c] <= index[d])
    BY <1>9 DEF EdgesOk, Seen
  <2>1. CASE LookedAt(c, d)
    BY <2>1, <1>9 DEF SearchOk, EdgesOk
  <2>2. CASE ~LookedAt(c, d)
    <3>1. PICK k \in DOMAIN visits : visits[k].curve = c /\ d \in visits[k].todo
      BY <2>2, <1>9 DEF LookedAt
    <3>2. d \notin visits'[k].todo
      BY <3>1, <1>6 DEF LookedAt
    <3>3. d = w /\ c = v
      BY <3>1, <3>2, <1>1, <1>6
    <3> QED BY <3>3, <1>4, <1>7
  <2> QED BY <2>1, <2>2
<1>13. Frames' = Frames
  BY <1>6 DEF Frames
<1>14. LowOk'
  <2> SUFFICES ASSUME NEW c \in Calibration!Curves, on_stack[c]
               PROVE  /\ low'[c] <= index[c] /\ (c \notin Frames => low'[c] # index[c])
                      /\ LowestOf(c)'
    BY <1>9, <1>13 DEF LowOk
  <2>1. /\ low[c] <= index[c] /\ (c \notin Frames => low[c] # index[c]) /\ LowestOf(c)
    BY DEF SearchOk, LowOk
  <2>2. v \in Frames
    BY <1>1 DEF Frames
  <2>3. low'[c] <= index[c] /\ (c \notin Frames => low'[c] # index[c])
    BY <2>1, <2>2, <1>7, <1>9
  <2>4. CASE low'[c] = low[c]
    <3>1. PICK d \in Calibration!Curves : on_stack[d] /\ index[d] = low[c] /\ Reaches(c, d)
      BY <2>1 DEF LowestOf
    <3> QED BY <2>3, <2>4, <3>1, <1>8, <1>9 DEF LowestOf
  <2>5. CASE low'[c] # low[c]
    <3>1. c = v /\ on_stack[w] /\ low'[v] = index[w]
      BY <2>5, <1>7
    <3>2. Reaches(v, w)
      BY <1>3, ReachesEdge
    <3> QED BY <2>3, <3>1, <3>2, <1>3, <1>8, <1>9 DEF LowestOf
  <2> QED BY <2>4, <2>5
<1>15. SubtreeOk'
  <2> SUFFICES ASSUME NEW k \in DOMAIN visits, NEW u \in Calibration!Curves, NEW c \in Calibration!Curves, u = visits[k].curve
               PROVE  /\ Under(k, c)' => Reaches(u, c)'
                      /\ OwnOf(k, c)' => low'[u] <= low'[c]
    BY <1>6 DEF SubtreeOk
  <2>1. Under(k, c)' <=> Under(k, c)
    BY <1>6, <1>9 DEF Under
  <2>2. OwnOf(k, c)' => OwnOf(k, c)
    BY <2>1, <1>6, <1>9 DEF OwnOf
  <2>3. /\ Under(k, c) => Reaches(u, c)
        /\ OwnOf(k, c) => low[u] <= low[c]
    BY DEF SearchOk, SubtreeOk
  <2>4. ASSUME OwnOf(k, c) PROVE low'[u] <= low'[c]
    <3>1. CASE c # v
      BY <2>3, <2>4, <3>1, <1>7, <1>9
    <3>2. CASE c = v
      <4>1. k = n
        BY <2>4, <3>2, <1>1, <1>9 DEF OwnOf
      <4> QED BY <4>1, <3>2, <1>1, <1>9
    <3> QED BY <3>1, <3>2
  <2> QED BY <2>1, <2>2, <2>3, <2>4, <1>8
<1>16. OutOk'
  <2>1. \A m : BlockOk(m)' <=> BlockOk(m)
    BY <1>4, <1>8 DEF BlockOk, Before
  <2> QED BY <2>1, <1>4 DEF SearchOk, OutOk, Seen
<1> QED BY <1>5, <1>7, <1>10, <1>11, <1>12, <1>14, <1>15, <1>16 DEF SearchOk, LookedShape

-----------------------------------------------------------------------------
(* A visit returns.                                                        *)

Component(v) == {c \in Calibration!Curves : on_stack[c] /\ index[v] <= index[c]}

(* What is popped are the curves above v on the stack, and v.              *)
LEMMA PoppedComponent ==
  ASSUME Types, SearchOk, NEW v \in Calibration!Curves, on_stack[v], Calibration!V = v
  PROVE  \E at \in DOMAIN stack :
           /\ stack[at] = v /\ DOMAIN stack = 1 .. Len(stack) /\ Len(stack) \in Nat
           /\ Calibration!Popped = Component(v)
           /\ Calibration!Cardinality(Calibration!Popped) = Len(stack) - at + 1
           /\ \A m \in DOMAIN stack : m < at <=> index[stack[m]] < index[v]
<1>1. PICK at : at = CHOOSE n \in DOMAIN stack : stack[n] = v
  OBVIOUS
<1>2. \E n \in DOMAIN stack : stack[n] = v
  BY DEF SearchOk, StackOk
<1>3. at \in DOMAIN stack /\ stack[at] = v
  BY <1>1, <1>2
<1>4. stack \in Seq(Calibration!Curves)
  BY DEF Types
<1>5. PICK top : top = Len(stack)
  OBVIOUS
<1>6. top \in Nat /\ DOMAIN stack = 1 .. top /\ \A m \in DOMAIN stack : stack[m] \in Calibration!Curves
  BY <1>4, <1>5, LenProperties, ElementOfSeq
<1>7. Calibration!Popped = {stack[n] : n \in at .. top}
  BY <1>1, <1>5 DEF Calibration!Popped
<1>8. \A c \in Calibration!Curves : index[c] \in Int
  BY DEF Types
<1>9. \A m \in DOMAIN stack : m < at <=> index[stack[m]] < index[v]
  <2> TAKE m \in DOMAIN stack
  <2>1. m \in Nat /\ at \in Nat /\ index[stack[m]] \in Int /\ index[v] \in Int
    BY <1>3, <1>6, <1>8
  <2>2. m < at => index[stack[m]] < index[v]
    BY <1>3 DEF SearchOk, StackOk
  <2>3. at < m => index[v] < index[stack[m]]
    BY <1>3 DEF SearchOk, StackOk
  <2> QED BY <2>1, <2>2, <2>3, <1>3
<1>10. \A m \in DOMAIN stack : m \in at .. top <=> index[v] <= index[stack[m]]
  <2> TAKE m \in DOMAIN stack
  <2>1. m \in Nat /\ at \in Nat /\ m <= top /\ index[stack[m]] \in Int /\ index[v] \in Int
    BY <1>3, <1>6, <1>8
  <2> QED BY <2>1, <1>6, <1>9
<1>11. Calibration!Popped = Component(v)
  <2>1. \A c \in Calibration!Curves : on_stack[c] <=> \E n \in DOMAIN stack : stack[n] = c
    BY DEF SearchOk, StackOk
  <2>2. ASSUME NEW c \in Calibration!Popped PROVE c \in Component(v)
    <3>1. PICK m \in at .. top : c = stack[m]
      BY <1>7
    <3>2. m \in DOMAIN stack
      BY <3>1, <1>3, <1>6
    <3> QED BY <3>1, <3>2, <2>1, <1>6, <1>10 DEF Component
  <2>3. ASSUME NEW c \in Component(v) PROVE c \in Calibration!Popped
    <3>1. c \in Calibration!Curves /\ on_stack[c] /\ index[v] <= index[c]
      BY DEF Component
    <3>2. PICK m \in DOMAIN stack : c = stack[m]
      BY <3>1, <2>1
    <3> QED BY <3>1, <3>2, <1>7, <1>10
  <2> QED BY <2>2, <2>3
<1>12. Cardinality(Calibration!Popped) = top - at + 1
  <2> DEFINE f == [m \in at .. top |-> stack[m]]
  <2>1. at \in Nat /\ at <= top
    BY <1>3, <1>6
  <2>2. IsFiniteSet(at .. top) /\ Cardinality(at .. top) = top - at + 1
    BY <2>1, <1>6, FS_Interval
  <2>3. \A m, n \in DOMAIN stack : stack[m] = stack[n] => m = n
    <3>1. \A m, n \in DOMAIN stack : m < n => stack[m] # stack[n]
      BY <1>6, <1>8 DEF SearchOk, StackOk
    <3> QED BY <3>1, <1>6
  <2>4. f \in Bijection(at .. top, Calibration!Popped)
    <3>1. f \in [at .. top -> Calibration!Popped]
      BY <1>7
    <3>2. \A m, n \in at .. top : f[m] = f[n] => m = n
      BY <2>3, <1>3, <1>6
    <3>3. \A c \in Calibration!Popped : \E m \in at .. top : f[m] = c
      BY <1>7
    <3> QED BY <3>1, <3>2, <3>3 DEF Bijection, Injection, Surjection, IsInjective
  <2> QED BY <2>2, <2>4, FS_Bijection DEF ExistsBijection
<1>13. Calibration!Cardinality(Calibration!Popped) = Cardinality(Calibration!Popped)
  BY DEF Calibration!Cardinality, Cardinality
<1> QED BY <1>3, <1>5, <1>6, <1>9, <1>11, <1>12, <1>13

(* Every curve above a root on the stack reaches it: the least that did    *)
(* not would reach one before it.                                          *)
LEMMA RootIsReached ==
  ASSUME Types, SearchOk, NEW n \in DOMAIN visits, n = Len(visits), NEW v \in Calibration!Curves,
         v = visits[n].curve, low[v] = index[v], NEW c \in Component(v)
  PROVE  Reaches(c, v)
<1>1. /\ \A d \in Calibration!Curves : index[d] \in Int /\ low[d] \in Int
      /\ \A d \in Calibration!Curves : on_stack[d] => index[d] \in Nat
  BY DEF Types, SearchOk, IndexOk, Seen
<1>2. \A k \in DOMAIN visits : k \in Nat /\ n \in Nat /\ k <= n
  BY VisitsShape
<1> DEFINE Lost == {index[d] : d \in {e \in Component(v) : ~Reaches(e, v)}}
           less == {ss \in Nat \X Nat : ss[1] < ss[2]}
<1>3. IsWellFoundedOn(less, Nat)
  BY NatLessThanWellFounded DEF OpToRel
<1>4. Lost \in SUBSET Nat
  BY <1>1 DEF Component
<1>5. ASSUME Lost # {} PROVE FALSE
  <2>1. \A x, y \in Nat : y < x => <<y, x>> \in less
    OBVIOUS
  <2> HIDE DEF less
  <2>2. PICK i \in Lost : \A j \in Lost : ~ (<<j, i>> \in less)
    BY <1>3, <1>4, <1>5, WFMin
  <2>3. PICK d \in Calibration!Curves : d \in Component(v) /\ ~Reaches(d, v) /\ index[d] = i
    BY <2>2 DEF Component
  <2>4. d # v
    BY <2>3, ReachesItself
  <2>5. d \notin Frames
    <3>1. \A k \in DOMAIN visits : k # n => index[visits[k].curve] < index[v]
      BY <1>2 DEF SearchOk, VisitsOk
    <3>2. \A k \in DOMAIN visits : visits[k].curve \in Calibration!Curves
      BY VisitsShape
    <3> QED BY <3>1, <3>2, <2>3, <2>4, <1>1 DEF Frames, Component
  <2>6. on_stack[d] /\ low[d] < index[d] /\ LowestOf(d)
    BY <2>3, <2>5, <1>1 DEF Component, SearchOk, LowOk
  <2>7. PICK e \in Calibration!Curves : on_stack[e] /\ index[e] = low[d] /\ Reaches(d, e)
    BY <2>6 DEF LowestOf
  <2>8. low[v] <= low[d]
    <3>1. OwnOf(n, d)
      BY <2>3, <1>2 DEF OwnOf, Under, Component
    <3> QED BY <3>1 DEF SearchOk, SubtreeOk
  <2>9. e \in Component(v)
    BY <2>7, <2>8, <1>1 DEF Component
  <2>10. Reaches(e, v)
    <3>1. CASE ~Reaches(e, v)
      <4>1. index[e] \in Lost
        BY <2>9, <3>1
      <4>2. index[e] \in Nat /\ i \in Nat /\ index[e] < i
        BY <2>3, <2>6, <2>7, <1>1, <1>4, <2>2
      <4> QED BY <4>1, <4>2, <2>1, <2>2
    <3> QED BY <3>1
  <2> QED BY <2>3, <2>7, <2>10, ReachesOn
<1> QED BY <1>5 DEF Component

(* Of what is popped every edge has been looked at, and leads into it or   *)
(* to a block there is.                                                    *)
LEMMA RootIsBlock ==
  ASSUME Types, SearchOk, sequential, NEW n \in DOMAIN visits, n = Len(visits), NEW v \in Calibration!Curves,
         v = visits[n].curve, visits[n].todo = {}, low[v] = index[v], on_stack[v]
  PROVE  /\ \A c, d \in Component(v) : Reaches(c, d)
         /\ \A c \in Component(v) : \A d \in deps[c] :
              d \in Component(v) \/ \E m \in DOMAIN out : d \in out[m]
<1>1. /\ \A d \in Calibration!Curves : index[d] \in Int /\ low[d] \in Int
      /\ \A c \in Calibration!Curves : \A d \in deps[c] : d \in Calibration!Curves
  BY DEF Types
<1>2. \A k \in DOMAIN visits : /\ k \in Nat /\ n \in Nat /\ k <= n /\ visits[k].curve \in Calibration!Curves
                               /\ (k # n => index[visits[k].curve] < index[v])
  BY VisitsShape DEF SearchOk, VisitsOk
<1>3. ASSUME NEW c \in Component(v), NEW d \in Component(v) PROVE Reaches(c, d)
  <2>1. Reaches(c, v)
    BY RootIsReached
  <2>2. Under(n, d)
    BY DEF Under, Component
  <2>3. Reaches(v, d)
    BY <2>2 DEF SearchOk, SubtreeOk, Component
  <2> QED BY <2>1, <2>3, ReachesOn
<1>4. ASSUME NEW c \in Component(v), NEW d \in deps[c]
      PROVE  d \in Component(v) \/ \E m \in DOMAIN out : d \in out[m]
  <2>1. c \in Calibration!Curves /\ on_stack[c] /\ index[v] <= index[c] /\ d \in Calibration!Curves
    BY <1>1 DEF Component
  <2>2. LookedAt(c, d)
    <3>1. \A k \in DOMAIN visits : visits[k].curve = c => k = n
      BY <2>1, <1>1, <1>2
    <3> QED BY <3>1 DEF LookedAt
  <2>3. Seen(d) /\ (on_stack[d] => low[c] <= index[d])
    BY <2>1, <2>2 DEF SearchOk, EdgesOk
  <2>4. low[v] <= low[c]
    <3>1. OwnOf(n, c)
      BY <2>1, <1>2 DEF OwnOf, Under
    <3> QED BY <3>1, <2>1 DEF SearchOk, SubtreeOk
  <2>5. CASE on_stack[d]
    BY <2>1, <2>3, <2>4, <2>5, <1>1 DEF Component
  <2>6. CASE ~on_stack[d]
    BY <2>1, <2>3, <2>6 DEF SearchOk, OutOk
  <2> QED BY <2>5, <2>6
<1> QED BY <1>3, <1>4

(* The last call is gone, and its caller knows how low it got.             *)
Returned(n, v) ==
  /\ n \in DOMAIN visits /\ n = Len(visits) /\ v \in Calibration!Curves /\ v = visits[n].curve
  /\ visits[n].todo = {} /\ on_stack[v]
  /\ DOMAIN visits' = DOMAIN visits \ {n} /\ \A k \in DOMAIN visits' : visits'[k] = visits[k]
  /\ visits' \in Seq(Calls) /\ low' \in [Calibration!Curves -> Int]
  /\ \A k \in DOMAIN visits : k \in Nat /\ k <= n /\ (k # n => index[visits[k].curve] < index[v])

Folded(n, v) ==
  \/ DOMAIN visits' = {} /\ low' = low
  \/ \E u \in Calibration!Curves :
       /\ n - 1 \in DOMAIN visits' /\ u = visits[n - 1].curve
       /\ \A c \in Calibration!Curves : c # u => low'[c] = low[c]
       /\ low'[u] = IF low[u] <= low[v] THEN low[u] ELSE low[v]

LEMMA ReturnStep ==
  ASSUME Types, SearchOk, Calibration!Return
  PROVE  \E n, v : Returned(n, v) /\ Folded(n, v) /\ Calibration!V = v
<1>1. PICK n \in DOMAIN visits, v \in Calibration!Curves :
         /\ n = Len(visits) /\ v = visits[n].curve
         /\ Calibration!V = v /\ Calibration!Todo = visits[n].todo
         /\ on_stack[v]
         /\ \A k \in DOMAIN visits : k <= n /\ (k # n => index[visits[k].curve] < index[v])
  BY AtWork DEF Calibration!Return, Calibration!Working
<1>2. visits[n].todo = {}
  BY <1>1 DEF Calibration!Return
<1>3. /\ DOMAIN visits = 1 .. n /\ n \in Nat /\ n \in 1 .. n
      /\ \A k \in DOMAIN visits : k \in Nat /\ visits[k].curve \in Calibration!Curves
  BY <1>1, VisitsShape
<1>4. visits' = SubSeq(visits, 1, n - 1)
  BY <1>1 DEF Calibration!Return, Calibration!Front
<1>5. /\ visits' \in Seq(Calls) /\ DOMAIN visits' = 1 .. (n - 1)
      /\ \A k \in 1 .. (n - 1) : visits'[k] = visits[k]
  <2>1. visits \in Seq(Calls) /\ n - 1 \in 0 .. Len(visits)
    BY <1>1, <1>3 DEF Types
  <2> QED BY <2>1, <1>4, CutOff
<1>6. DOMAIN visits' = DOMAIN visits \ {n}
  BY <1>3, <1>5
<1>7. low \in [Calibration!Curves -> Int]
  BY DEF Types
<1>8. CASE n = 1
  <2>1. low' = low
    BY <1>1, <1>8 DEF Calibration!Return
  <2>2. DOMAIN visits' = {}
    BY <1>5, <1>8
  <2>3. Returned(n, v) /\ Folded(n, v)
    BY <2>1, <2>2, <1>1, <1>2, <1>3, <1>5, <1>6, <1>7 DEF Returned, Folded
  <2> QED BY <2>3, <1>1
<1>9. CASE n # 1
  <2>1. n - 1 \in DOMAIN visits /\ n - 1 \in DOMAIN visits' /\ n > 1
    BY <1>3, <1>5, <1>9
  <2>2. PICK u \in Calibration!Curves : u = visits[n - 1].curve
    BY <2>1, <1>3
  <2>3. low' = [low EXCEPT ![u] = Calibration!Min({low[u], low[v]})]
    BY <2>1, <2>2, <1>1 DEF Calibration!Return, Calibration!FoldIn
  <2>4. low' = [low EXCEPT ![u] = IF low[u] <= low[v] THEN low[u] ELSE low[v]]
    BY <2>3, <1>1, <1>7, SmallerOf
  <2>5. /\ low' \in [Calibration!Curves -> Int]
        /\ \A c \in Calibration!Curves : c # u => low'[c] = low[c]
        /\ low'[u] = IF low[u] <= low[v] THEN low[u] ELSE low[v]
    BY <2>2, <2>4, <1>1, <1>7
  <2>6. Returned(n, v)
    BY <2>5, <1>1, <1>2, <1>3, <1>5, <1>6 DEF Returned
  <2>7. Folded(n, v)
    BY <2>1, <2>2, <2>5 DEF Folded
  <2> QED BY <2>6, <2>7, <1>1
<1> QED BY <1>8, <1>9

(* A curve that is no root stays on the stack, for its caller to answer.   *)
LEMMA ReturnToCaller ==
  ASSUME Types, SearchOk, NEW n, NEW v, Returned(n, v), Folded(n, v), low[v] # index[v],
         UNCHANGED <<sequential, deps, index, on_stack, stack, counter, out>>
  PROVE  SearchOk'
<1>1. /\ n \in DOMAIN visits /\ n = Len(visits) /\ v \in Calibration!Curves /\ v = visits[n].curve
      /\ visits[n].todo = {} /\ on_stack[v]
      /\ DOMAIN visits' = DOMAIN visits \ {n} /\ \A k \in DOMAIN visits' : visits'[k] = visits[k]
      /\ \A k \in DOMAIN visits : k \in Nat /\ k <= n /\ (k # n => index[visits[k].curve] < index[v])
  BY DEF Returned
<1>2. /\ \A c \in Calibration!Curves : index[c] \in Int /\ low[c] \in Int /\ low'[c] \in Int
      /\ index' = index /\ on_stack' = on_stack /\ deps' = deps /\ n \in Nat
  BY <1>1 DEF Types, Returned
<1>3. \A k \in DOMAIN visits : visits[k].curve \in Calibration!Curves
  BY VisitsShape
<1>4. /\ \A c \in Calibration!Curves : low'[c] <= low[c]
      /\ \A c \in Calibration!Curves : low'[c] = low[c] \/ (low'[c] = low[v] /\ c \in Frames' /\ Under(n - 1, v) /\ c = visits[n - 1].curve /\ n - 1 \in DOMAIN visits)
  <2>1. CASE low' = low
    BY <2>1, <1>2
  <2>2. CASE \E u \in Calibration!Curves :
               /\ n - 1 \in DOMAIN visits' /\ u = visits[n - 1].curve
               /\ \A c \in Calibration!Curves : c # u => low'[c] = low[c]
               /\ low'[u] = IF low[u] <= low[v] THEN low[u] ELSE low[v]
    <3>1. PICK u \in Calibration!Curves :
               /\ n - 1 \in DOMAIN visits' /\ u = visits[n - 1].curve
               /\ \A c \in Calibration!Curves : c # u => low'[c] = low[c]
               /\ low'[u] = IF low[u] <= low[v] THEN low[u] ELSE low[v]
      BY <2>2
    <3>2. u \in Frames' /\ Under(n - 1, v) /\ n - 1 \in DOMAIN visits
      BY <3>1, <1>1, <1>2, <1>3 DEF Frames, Under
    <3>3. low'[u] <= low[u] /\ (low'[u] = low[u] \/ low'[u] = low[v])
      BY <3>1, <1>1, <1>2
    <3> QED BY <3>1, <3>2, <3>3, <1>2
  <2> QED BY <2>1, <2>2 DEF Folded
<1>5. \A x, y : Reaches(x, y)' <=> Reaches(x, y)
  BY <1>2, ReachesKept
<1>6. IndexOk' /\ StackOk'
  BY <1>2 DEF SearchOk, IndexOk, StackOk, Seen
<1>7. VisitsOk'
  BY <1>1, <1>2 DEF SearchOk, VisitsOk
<1>8. EdgesOk'
  <2> SUFFICES ASSUME NEW c \in Calibration!Curves, NEW d \in Calibration!Curves, on_stack[c], LookedAt(c, d)'
               PROVE  Seen(d) /\ (on_stack[d] => low'[c] <= index[d])
    BY <1>2 DEF EdgesOk, Seen
  <2>1. LookedAt(c, d)
    BY <1>1, <1>2 DEF LookedAt
  <2>2. Seen(d) /\ (on_stack[d] => low[c] <= index[d])
    BY <2>1 DEF SearchOk, EdgesOk
  <2> QED BY <2>2, <1>2, <1>4
<1>9. LowOk'
  <2> SUFFICES ASSUME NEW c \in Calibration!Curves, on_stack[c]
               PROVE  /\ low'[c] <= index[c] /\ (c \notin Frames' => low'[c] # index[c])
                      /\ LowestOf(c)'
    BY <1>2 DEF LowOk
  <2>1. /\ low[c] <= index[c] /\ (c \notin Frames => low[c] # index[c]) /\ LowestOf(c)
    BY DEF SearchOk, LowOk
  <2>2. low'[c] <= index[c]
    BY <2>1, <1>2, <1>4
  <2>3. c \notin Frames' => low'[c] # index[c]
    <3>1. ASSUME c \notin Frames' PROVE low'[c] # index[c]
      <4>1. low'[c] = low[c]
        BY <3>1, <1>4
      <4>2. c = v \/ c \notin Frames
        BY <3>1, <1>1 DEF Frames
      <4> QED BY <4>1, <4>2, <2>1
    <3> QED BY <3>1
  <2>4. CASE low'[c] = low[c]
    <3>1. PICK d \in Calibration!Curves : on_stack[d] /\ index[d] = low[c] /\ Reaches(c, d)
      BY <2>1 DEF LowestOf
    <3>2. LowestOf(c)'
      BY <2>4, <3>1, <1>2, <1>5 DEF LowestOf
    <3> QED BY <2>2, <2>3, <3>2
  <2>5. CASE low'[c] # low[c]
    <3>1. low'[c] = low[v] /\ Under(n - 1, v) /\ c = visits[n - 1].curve /\ n - 1 \in DOMAIN visits
      BY <2>5, <1>4
    <3>2. Reaches(c, v)
      BY <3>1, <1>1 DEF SearchOk, SubtreeOk
    <3>3. LowestOf(v)
      BY <1>1 DEF SearchOk, LowOk
    <3>4. PICK d \in Calibration!Curves : on_stack[d] /\ index[d] = low[v] /\ Reaches(v, d)
      BY <3>3 DEF LowestOf
    <3>5. Reaches(c, d)
      BY <3>2, <3>4, ReachesOn
    <3>6. LowestOf(c)'
      BY <3>1, <3>4, <3>5, <1>2, <1>5 DEF LowestOf
    <3> QED BY <2>2, <2>3, <3>6
  <2> QED BY <2>4, <2>5
<1>10. SubtreeOk'
  <2> SUFFICES ASSUME NEW k \in DOMAIN visits', NEW u \in Calibration!Curves, NEW c \in Calibration!Curves, u = visits[k].curve
               PROVE  /\ Under(k, c)' => Reaches(u, c)'
                      /\ OwnOf(k, c)' => low'[u] <= low'[c]
    BY <1>1 DEF SubtreeOk
  <2>1. k \in DOMAIN visits /\ k < n /\ k \in Nat
    BY <1>1, <1>2
  <2>2. Under(k, c)' <=> Under(k, c)
    BY <2>1, <1>1, <1>2 DEF Under
  <2>3. Under(k, c) => Reaches(u, c)
    BY <2>1 DEF SearchOk, SubtreeOk
  <2>4. ASSUME OwnOf(k, c)' PROVE low'[u] <= low'[c]
    <3>1. Under(k, c) /\ index[u] <= index[c]
      BY <2>2, <2>4 DEF OwnOf, Under
    <3>2. \A j \in DOMAIN visits : k < j /\ j # n => index[c] < index[visits[j].curve]
      BY <2>4, <1>1, <1>2 DEF OwnOf
    <3>3. CASE k = n - 1
      <4>1. /\ low'[u] = IF low[u] <= low[v] THEN low[u] ELSE low[v]
            /\ c # u => low'[c] = low[c]
        BY <3>3 DEF Folded
      <4>2. low'[u] <= low[u] /\ low'[u] <= low[v]
        BY <4>1, <1>1, <1>2
      <4>3. CASE index[c] < index[v]
        <5>1. OwnOf(k, c)
          BY <3>1, <3>2, <4>3, <1>1 DEF OwnOf
        <5>2. low[u] <= low[c]
          BY <5>1, <2>1 DEF SearchOk, SubtreeOk
        <5> QED BY <5>2, <4>1, <4>2, <1>2
      <4>4. CASE ~(index[c] < index[v])
        <5>1. OwnOf(n, c)
          BY <3>1, <4>4, <1>1, <1>2 DEF OwnOf, Under
        <5>2. low[v] <= low[c]
          BY <5>1, <1>1 DEF SearchOk, SubtreeOk
        <5> QED BY <5>2, <4>1, <4>2, <1>1, <1>2
      <4> QED BY <4>3, <4>4
    <3>4. CASE k # n - 1
      <4>1. n - 1 \in DOMAIN visits' /\ k < n - 1
        BY <3>4, <2>1, <1>1, <1>2, VisitsShape
      <4>2. index[c] < index[visits[n - 1].curve] /\ index[visits[n - 1].curve] < index[v]
        BY <3>2, <4>1, <1>1, <1>2
      <4>3. OwnOf(k, c)
        <5>1. index[c] < index[v]
          <6>1. visits[n - 1].curve \in Calibration!Curves
            BY <4>1, <1>1, <1>3
          <6> QED BY <6>1, <4>2, <1>1, <1>2
        <5>2. visits[n].curve = v
          BY <1>1
        <5> QED BY <3>1, <3>2, <5>1, <5>2 DEF OwnOf
      <4>4. low[u] <= low[c]
        BY <4>3, <2>1 DEF SearchOk, SubtreeOk
      <4>5. u # visits[n - 1].curve /\ c # visits[n - 1].curve
        BY <3>1, <4>2, <1>1, <1>2, <1>3
      <4>6. low'[u] = low[u] /\ low'[c] = low[c]
        BY <4>5, <1>4
      <4> QED BY <4>4, <4>6
    <3> QED BY <3>3, <3>4
  <2> QED BY <2>2, <2>3, <2>4, <1>5
<1>11. OutOk'
  <2>1. \A m : BlockOk(m)' <=> BlockOk(m)
    BY <1>2, <1>5 DEF BlockOk, Before
  <2> QED BY <2>1, <1>2 DEF SearchOk, OutOk, Seen
<1> QED BY <1>6, <1>7, <1>8, <1>9, <1>10, <1>11 DEF SearchOk

(* A root is popped with what is above it.                                 *)
LEMMA ReturnRoot ==
  ASSUME Types, SearchOk, NEW n, NEW v, Returned(n, v), Folded(n, v), low[v] = index[v], Calibration!V = v,
         out' = Append(out, Calibration!Popped),
         stack' = SubSeq(stack, 1, Len(stack) - Calibration!Cardinality(Calibration!Popped)),
         on_stack' = [c \in Calibration!Curves |-> on_stack[c] /\ c \notin Calibration!Popped],
         UNCHANGED <<sequential, deps, index, counter>>
  PROVE  /\ SearchOk'
         /\ stack' \in Seq(Calibration!Curves) /\ on_stack' \in [Calibration!Curves -> BOOLEAN]
         /\ out' \in Seq(SUBSET Calibration!Curves)
         /\ Len(out') \in Nat /\ Len(out) \in Nat /\ Len(out) <= Len(out')
<1>1. /\ n \in DOMAIN visits /\ n = Len(visits) /\ v \in Calibration!Curves /\ v = visits[n].curve
      /\ visits[n].todo = {} /\ on_stack[v]
      /\ DOMAIN visits' = DOMAIN visits \ {n} /\ \A k \in DOMAIN visits' : visits'[k] = visits[k]
      /\ \A k \in DOMAIN visits : k \in Nat /\ k <= n /\ (k # n => index[visits[k].curve] < index[v])
  BY DEF Returned
<1>2. /\ \A c \in Calibration!Curves : index[c] \in Int /\ low[c] \in Int
      /\ index' = index /\ deps' = deps /\ n \in Nat
  BY <1>1 DEF Types
<1>3. \A k \in DOMAIN visits : visits[k].curve \in Calibration!Curves /\ on_stack[visits[k].curve]
  BY VisitsShape DEF SearchOk, VisitsOk
<1>4. \A c \in Calibration!Curves : low'[c] = low[c]
  <2>1. CASE low' = low
    BY <2>1
  <2>2. CASE \E u \in Calibration!Curves :
               /\ n - 1 \in DOMAIN visits' /\ u = visits[n - 1].curve
               /\ \A c \in Calibration!Curves : c # u => low'[c] = low[c]
               /\ low'[u] = IF low[u] <= low[v] THEN low[u] ELSE low[v]
    <3>1. PICK u \in Calibration!Curves :
               /\ n - 1 \in DOMAIN visits' /\ u = visits[n - 1].curve
               /\ \A c \in Calibration!Curves : c # u => low'[c] = low[c]
               /\ low'[u] = IF low[u] <= low[v] THEN low[u] ELSE low[v]
      BY <2>2
    <3>2. index[u] < index[v] /\ on_stack[u]
      BY <3>1, <1>1, <1>2, <1>3
    <3>3. low[u] <= index[u]
      BY <3>2 DEF SearchOk, LowOk
    <3>4. low[u] <= low[v]
      BY <3>2, <3>3, <1>1, <1>2
    <3> QED BY <3>1, <3>4
  <2> QED BY <2>1, <2>2 DEF Folded
<1>5. \A x, y : Reaches(x, y)' <=> Reaches(x, y)
  BY <1>2, ReachesKept
<1>6. PICK at \in DOMAIN stack :
           /\ stack[at] = v /\ DOMAIN stack = 1 .. Len(stack) /\ Len(stack) \in Nat
           /\ Calibration!Popped = Component(v)
           /\ Calibration!Cardinality(Calibration!Popped) = Len(stack) - at + 1
           /\ \A m \in DOMAIN stack : m < at <=> index[stack[m]] < index[v]
  BY <1>1, PoppedComponent
<1>7. /\ stack' \in Seq(Calibration!Curves) /\ DOMAIN stack' = 1 .. (at - 1)
      /\ \A m \in DOMAIN stack' : stack'[m] = stack[m]
  <2>1. at \in Nat /\ Len(stack) - Calibration!Cardinality(Calibration!Popped) = at - 1
    BY <1>6
  <2>2. stack \in Seq(Calibration!Curves) /\ at - 1 \in 0 .. Len(stack)
    BY <1>6 DEF Types
  <2>3. PICK k : k = at - 1
    OBVIOUS
  <2>4. stack' = SubSeq(stack, 1, k) /\ k \in 0 .. Len(stack)
    BY <2>1, <2>2, <2>3
  <2>5. stack \in Seq(Calibration!Curves) /\ k \in 0 .. Len(stack)
    BY <2>2, <2>3
  <2>6. /\ SubSeq(stack, 1, k) \in Seq(Calibration!Curves)
        /\ DOMAIN SubSeq(stack, 1, k) = 1 .. k
        /\ \A m \in 1 .. k : SubSeq(stack, 1, k)[m] = stack[m]
    BY <2>5, CutOff
  <2>7. /\ stack' \in Seq(Calibration!Curves) /\ DOMAIN stack' = 1 .. k
        /\ \A m \in 1 .. k : stack'[m] = stack[m]
    BY <2>4, <2>6, Zenon
  <2> QED BY <2>3, <2>7
<1>8. /\ \A c \in Calibration!Curves : on_stack'[c] <=> on_stack[c] /\ index[c] < index[v]
      /\ on_stack' \in [Calibration!Curves -> BOOLEAN]
  <2>1. on_stack \in [Calibration!Curves -> BOOLEAN]
    BY DEF Types
  <2>2. on_stack' = [c \in Calibration!Curves |-> on_stack[c] /\ c \notin Component(v)]
    BY <1>6
  <2>3. \A c \in Calibration!Curves : on_stack'[c] <=> on_stack[c] /\ c \notin Component(v)
    BY <2>2, Zenon
  <2>4. \A c \in Calibration!Curves : on_stack[c] => (c \notin Component(v) <=> index[c] < index[v])
    BY <1>1, <1>2 DEF Component
  <2>5. on_stack' \in [Calibration!Curves -> BOOLEAN]
    BY <2>2, Zenon
  <2> QED BY <2>3, <2>4, <2>5
<1>9. IndexOk'
  BY <1>2, <1>8 DEF SearchOk, IndexOk, Seen
<1>10. StackOk'
  <2>1. \A m \in DOMAIN stack' : m \in DOMAIN stack /\ m < at
    BY <1>6, <1>7
  <2>2. \A m \in DOMAIN stack : m < at => m \in DOMAIN stack'
    BY <1>6, <1>7
  <2>3. ASSUME NEW c \in Calibration!Curves PROVE on_stack'[c] <=> \E m \in DOMAIN stack' : stack'[m] = c
    <3>1. on_stack[c] <=> \E m \in DOMAIN stack : stack[m] = c
      BY DEF SearchOk, StackOk
    <3>2. ASSUME on_stack'[c] PROVE \E m \in DOMAIN stack' : stack'[m] = c
      <4>1. PICK m \in DOMAIN stack : stack[m] = c
        BY <3>1, <3>2, <1>8
      <4>2. m < at
        BY <3>2, <4>1, <1>6, <1>8
      <4> QED BY <4>1, <4>2, <2>2, <1>7
    <3>3. ASSUME NEW m \in DOMAIN stack', stack'[m] = c PROVE on_stack'[c]
      <4>1. m \in DOMAIN stack /\ m < at /\ stack[m] = c
        BY <3>3, <2>1, <1>7
      <4>2. on_stack[c] /\ index[c] < index[v]
        BY <4>1, <3>1, <1>6
      <4> QED BY <4>2, <1>8
    <3> QED BY <3>2, <3>3
  <2>4. \A x, y \in DOMAIN stack' : x < y => index'[stack'[x]] < index'[stack'[y]]
    BY <2>1, <1>2, <1>7 DEF SearchOk, StackOk
  <2> QED BY <2>3, <2>4 DEF StackOk
<1>11. VisitsOk'
  <2>1. \A k \in DOMAIN visits' : on_stack'[visits'[k].curve] /\ visits'[k].todo \subseteq deps'[visits'[k].curve]
    BY <1>1, <1>2, <1>3, <1>8 DEF SearchOk, VisitsOk
  <2>2. \A j, k \in DOMAIN visits' : j < k => index'[visits'[j].curve] < index'[visits'[k].curve]
    BY <1>1, <1>2 DEF SearchOk, VisitsOk
  <2> QED BY <2>1, <2>2 DEF VisitsOk
<1>12. EdgesOk'
  <2> SUFFICES ASSUME NEW c \in Calibration!Curves, NEW d \in Calibration!Curves, on_stack'[c], LookedAt(c, d)'
               PROVE  Seen(d) /\ (on_stack'[d] => low'[c] <= index[d])
    BY <1>2 DEF EdgesOk, Seen
  <2>1. on_stack[c] /\ c # v
    BY <1>1, <1>2, <1>8
  <2>2. LookedAt(c, d)
    BY <2>1, <1>1, <1>2 DEF LookedAt
  <2>3. Seen(d) /\ (on_stack[d] => low[c] <= index[d])
    BY <2>1, <2>2 DEF SearchOk, EdgesOk
  <2> QED BY <2>3, <1>4, <1>8
<1>13. LowOk'
  <2> SUFFICES ASSUME NEW c \in Calibration!Curves, on_stack'[c]
               PROVE  /\ low'[c] <= index'[c] /\ (c \notin Frames' => low'[c] # index'[c])
                      /\ LowestOf(c)'
    BY DEF LowOk
  <2>1. on_stack[c] /\ index[c] < index[v] /\ c # v
    BY <1>1, <1>2, <1>8
  <2>2. /\ low[c] <= index[c] /\ (c \notin Frames => low[c] # index[c]) /\ LowestOf(c)
    BY <2>1 DEF SearchOk, LowOk
  <2>3. c \in Frames => c \in Frames'
    BY <2>1, <1>1 DEF Frames
  <2>4. PICK d \in Calibration!Curves : on_stack[d] /\ index[d] = low[c] /\ Reaches(c, d)
    BY <2>2 DEF LowestOf
  <2>5. on_stack'[d]
    BY <2>1, <2>2, <2>4, <1>1, <1>2, <1>8
  <2>6. LowestOf(c)'
    BY <2>4, <2>5, <1>2, <1>4, <1>5 DEF LowestOf
  <2> QED BY <2>2, <2>3, <2>6, <1>2, <1>4
<1>14. SubtreeOk'
  <2> SUFFICES ASSUME NEW k \in DOMAIN visits', NEW u \in Calibration!Curves, NEW c \in Calibration!Curves, u = visits[k].curve
               PROVE  /\ Under(k, c)' => Reaches(u, c)'
                      /\ OwnOf(k, c)' => low'[u] <= low'[c]
    BY <1>1 DEF SubtreeOk
  <2>1. k \in DOMAIN visits /\ visits'[k] = visits[k]
    BY <1>1
  <2>2. Under(k, c)' => Under(k, c) /\ index[c] < index[v]
    BY <2>1, <1>2, <1>8 DEF Under
  <2>3. Under(k, c) => Reaches(u, c)
    BY <2>1 DEF SearchOk, SubtreeOk
  <2>4. ASSUME OwnOf(k, c)' PROVE OwnOf(k, c)
    <3>1. Under(k, c) /\ index[c] < index[v]
      BY <2>2, <2>4 DEF OwnOf
    <3>2. \A j \in DOMAIN visits' : k < j => index[c] < index[visits[j].curve]
      BY <2>4, <1>1, <1>2 DEF OwnOf
    <3> QED BY <3>1, <3>2, <1>1 DEF OwnOf
  <2>5. OwnOf(k, c) => low[u] <= low[c]
    BY <2>1 DEF SearchOk, SubtreeOk
  <2> QED BY <2>2, <2>3, <2>4, <2>5, <1>4, <1>5
<1>15. PICK top : top = Len(out)
  OBVIOUS
<1>16. /\ top \in Nat /\ DOMAIN out = 1 .. top /\ DOMAIN out' = 1 .. (top + 1) /\ Len(out') = top + 1
       /\ \A m \in 1 .. top : out'[m] = out[m]
       /\ out'[top + 1] = Component(v)
       /\ out' \in Seq(SUBSET Calibration!Curves)
  <2>1. out \in Seq(SUBSET Calibration!Curves) /\ Component(v) \in SUBSET Calibration!Curves
    BY DEF Types, Component
  <2>2. out' = Append(out, Component(v))
    BY <1>6
  <2> QED BY <2>1, <2>2, <1>15, Appended
<1>17. OutOk'
  <2> SUFFICES ASSUME sequential
               PROVE  /\ \A c \in Calibration!Curves : (\E m \in DOMAIN out' : c \in out'[m]) <=> Seen(c)' /\ ~on_stack'[c]
                      /\ \A m \in DOMAIN out' : BlockOk(m)'
    BY DEF OutOk
  <2>1. \A c \in Calibration!Curves : (\E m \in DOMAIN out : c \in out[m]) <=> Seen(c) /\ ~on_stack[c]
    BY DEF SearchOk, OutOk
  <2>2. \A c \in Calibration!Curves : c \in Component(v) <=> on_stack[c] /\ ~on_stack'[c]
    BY <1>1, <1>2, <1>8 DEF Component
  <2>3. \A c \in Calibration!Curves : (on_stack[c] => Seen(c)) /\ (Seen(c)' <=> Seen(c)) /\ (on_stack'[c] => on_stack[c])
    BY <1>2, <1>8 DEF SearchOk, IndexOk, Seen
  <2>4. \A c : (\E m \in DOMAIN out' : c \in out'[m]) <=> c \in Component(v) \/ \E m \in DOMAIN out : c \in out[m]
    <3>1. DOMAIN out' = DOMAIN out \cup {top + 1}
      BY <1>16
    <3> QED BY <3>1, <1>16
  <2>5. \A c \in Calibration!Curves : (\E m \in DOMAIN out' : c \in out'[m]) <=> Seen(c)' /\ ~on_stack'[c]
    BY <2>1, <2>2, <2>3, <2>4
  <2>6. \A m \in 1 .. (top + 1) : Before(m)' = Before(m)
    <3> TAKE m \in 1 .. (top + 1)
    <3>1. \A i \in 1 .. (m - 1) : out'[i] = out[i]
      BY <1>16
    <3> QED BY <3>1 DEF Before
  <2>7. ASSUME NEW m \in 1 .. top PROVE BlockOk(m)'
    <3>1. BlockOk(m)
      BY <1>16 DEF SearchOk, OutOk
    <3>2. Before(m)' = Before(m) /\ out'[m] = out[m]
      BY <2>6, <1>16
    <3> QED BY <3>1, <3>2, <1>2, <1>5 DEF BlockOk
  <2>8. ASSUME NEW m, m = top + 1 PROVE BlockOk(m)'
    <3>1. out'[m] = Component(v) /\ Before(m)' = Before(m)
      BY <2>6, <2>8, <1>16
    <3>2. \A c : c \in Before(m) <=> \E i \in DOMAIN out : c \in out[i]
      BY <2>8, <1>16 DEF Before
    <3>3. v \in Component(v) /\ Component(v) \subseteq Calibration!Curves
      BY <1>1, <1>2 DEF Component
    <3>4. Component(v) \cap Before(m) = {}
      BY <3>2, <3>3, <2>1, <2>2
    <3>5. /\ \A c, d \in Component(v) : Reaches(c, d)
          /\ \A c \in Component(v) : \A d \in deps[c] :
               d \in Component(v) \/ \E i \in DOMAIN out : d \in out[i]
      BY <1>1, RootIsBlock
    <3>6. \A c \in Component(v) : deps[c] \subseteq Component(v) \cup Before(m)
      BY <3>2, <3>5
    <3> QED BY <3>1, <3>3, <3>4, <3>5, <3>6, <1>2, <1>5 DEF BlockOk
  <2> QED BY <2>5, <2>7, <2>8, <1>16
<1> QED BY <1>7, <1>8, <1>9, <1>10, <1>11, <1>12, <1>13, <1>14, <1>15, <1>16, <1>17 DEF SearchOk

LEMMA ReturnKeeps ==
  ASSUME Types, SearchOk, Calibration!Return
  PROVE  /\ SearchOk'
         /\ visits' \in Seq(Calls) /\ low' \in [Calibration!Curves -> Int]
         /\ stack' \in Seq(Calibration!Curves) /\ on_stack' \in [Calibration!Curves -> BOOLEAN]
         /\ out' \in Seq(SUBSET Calibration!Curves)
         /\ Len(out) \in Nat /\ Len(out') \in Nat /\ Len(out) <= Len(out')
<1>1. PICK n, v : Returned(n, v) /\ Folded(n, v) /\ Calibration!V = v
  BY ReturnStep
<1>2. /\ UNCHANGED <<sequential, deps, index, counter>>
      /\ visits' \in Seq(Calls) /\ low' \in [Calibration!Curves -> Int]
  BY <1>1 DEF Calibration!Return, Returned
<1>3. CASE low[v] = index[v]
  <2>1. /\ out' = Append(out, Calibration!Popped)
        /\ stack' = SubSeq(stack, 1, Len(stack) - Calibration!Cardinality(Calibration!Popped))
        /\ on_stack' = [c \in Calibration!Curves |-> on_stack[c] /\ c \notin Calibration!Popped]
    BY <1>1, <1>3 DEF Calibration!Return
  <2> QED BY <2>1, <1>1, <1>2, <1>3, ReturnRoot
<1>4. CASE low[v] # index[v]
  <2>1. UNCHANGED <<out, stack, on_stack>>
    BY <1>1, <1>4 DEF Calibration!Return
  <2>2. SearchOk'
    BY <2>1, <1>1, <1>2, <1>4, ReturnToCaller
  <2>3. Len(out) \in Nat /\ Len(out') = Len(out)
    BY <2>1, LenProperties DEF Types
  <2> QED BY <2>1, <2>2, <2>3, <1>2 DEF Types
<1> QED BY <1>3, <1>4

-----------------------------------------------------------------------------
(* The other steps, and the whole invariant.                               *)

LEMMA CallersOfNone ==
  ASSUME Types, visits = <<>>, NEW v
  PROVE  CallersOf(v, <<>>)
<1>1. <<>> \in Seq(Calls) /\ Len(<<>>) = 0 /\ DOMAIN visits = {}
  BY EmptySeq
<1> QED BY <1>1 DEF CallersOf

LEMMA CallersLooked ==
  ASSUME Types, SearchOk, visits # <<>>, NEW w, w = Calibration!W, w \in Calibration!Todo
  PROVE  CallersOf(w, Calibration!Looked)
<1>1. PICK n \in DOMAIN visits, v \in Calibration!Curves :
         /\ n = Len(visits) /\ v = visits[n].curve
         /\ Calibration!Todo = visits[n].todo
         /\ visits[n].todo \subseteq deps[v]
  BY AtWork
<1>2. LookedShape(w, Calibration!Looked)
  BY LookedCalls
<1> QED BY <1>1, <1>2 DEF CallersOf, LookedShape

(* A step of the search keeps the types, what it has found so far, and the *)
(* rest of the calibration as it is.                                       *)
Searches ==
  /\ SearchOk' /\ pc = "visit"
  /\ UNCHANGED <<reads, sequential, pc, deps, calibrated, results>>
  /\ index' \in [Calibration!Curves -> Int] /\ low' \in [Calibration!Curves -> Int]
  /\ on_stack' \in [Calibration!Curves -> BOOLEAN] /\ counter' \in Nat
  /\ stack' \in Seq(Calibration!Curves) /\ visits' \in Seq(Calls)
  /\ out' \in Seq(SUBSET Calibration!Curves)

LEMMA EnterSearches ==
  ASSUME Types, SearchOk, pc = "visit", NEW v \in Calibration!Curves, ~Seen(v),
         NEW callers, CallersOf(v, callers), Calibration!Enter(v, callers),
         UNCHANGED <<reads, sequential, pc, deps, calibrated, results>>
  PROVE  Searches
<1>1. SearchOk'
  BY EnterKeeps
<1>2. index' \in [Calibration!Curves -> Int]
  BY EnterStep
<1>3. low' \in [Calibration!Curves -> Int]
  BY EnterStep
<1>4. on_stack' \in [Calibration!Curves -> BOOLEAN]
  BY EnterStep
<1>5. counter' \in Nat
  BY EnterStep
<1>6. stack' \in Seq(Calibration!Curves)
  BY EnterStep
<1>7. visits' \in Seq(Calls)
  BY EnterStep
<1>8. out' = out
  BY EnterStep
<1> QED BY <1>1, <1>2, <1>3, <1>4, <1>5, <1>6, <1>7, <1>8 DEF Searches, Types

LEMMA NewRootSearches ==
  ASSUME Types, SearchOk, Calibration!NewRoot
  PROVE  Searches
<1>1. PICK v : v = Calibration!Min(Calibration!Unseen)
  OBVIOUS
<1>2. Calibration!Unseen \in SUBSET Calibration!Curves /\ Calibration!Unseen # {}
  BY DEF Calibration!NewRoot, Calibration!Unseen
<1>3. v \in Calibration!Unseen
  BY <1>1, <1>2, LeastOfCurves
<1>4. v \in Calibration!Curves /\ ~Seen(v)
  <2>1. v \in Calibration!Curves /\ index[v] < 0 /\ index[v] \in Int
    BY <1>3 DEF Calibration!Unseen, Types
  <2> QED BY <2>1 DEF Seen
<1>5. /\ CallersOf(v, <<>>)
      /\ Calibration!Enter(v, <<>>)
      /\ pc = "visit" /\ UNCHANGED <<reads, sequential, pc, deps, calibrated, results>>
  BY <1>1, CallersOfNone DEF Calibration!NewRoot
<1> QED BY <1>4, <1>5, EnterSearches

LEMMA DescendSearches ==
  ASSUME Types, SearchOk, Calibration!Descend
  PROVE  Searches
<1>1. PICK w : w = Calibration!W
  OBVIOUS
<1>2. PICK n \in DOMAIN visits, v \in Calibration!Curves :
         Calibration!Todo = visits[n].todo /\ visits[n].todo \subseteq deps[v]
  BY AtWork DEF Calibration!Descend, Calibration!Working
<1>3. Calibration!Todo \in SUBSET Calibration!Curves /\ Calibration!Todo # {}
  BY <1>2, VisitsShape DEF Calibration!Descend
<1>4. w \in Calibration!Todo
  BY <1>1, <1>3, LeastOfCurves DEF Calibration!W
<1>5. w \in Calibration!Curves /\ ~Seen(w)
  <2>1. w \in Calibration!Curves /\ index[w] < 0 /\ index[w] \in Int
    BY <1>1, <1>3, <1>4 DEF Calibration!Descend, Types
  <2> QED BY <2>1 DEF Seen
<1>6. /\ CallersOf(w, Calibration!Looked)
      /\ Calibration!Enter(w, Calibration!Looked)
      /\ pc = "visit" /\ UNCHANGED <<reads, sequential, pc, deps, calibrated, results>>
  BY <1>1, <1>4, CallersLooked DEF Calibration!Descend, Calibration!Working
<1> QED BY <1>5, <1>6, EnterSearches

LEMMA LookSearches ==
  ASSUME Types, SearchOk, Calibration!Look
  PROVE  Searches
<1>1. SearchOk' /\ visits' \in Seq(Calls) /\ low' \in [Calibration!Curves -> Int]
  BY LookKeeps
<1>2. /\ pc = "visit"
      /\ UNCHANGED <<reads, sequential, pc, deps, index, on_stack, stack, counter, out, calibrated, results>>
  BY DEF Calibration!Look, Calibration!Working
<1> QED BY <1>1, <1>2 DEF Searches, Types

LEMMA ReturnSearches ==
  ASSUME Types, SearchOk, Calibration!Return
  PROVE  Searches
<1>1. /\ SearchOk'
      /\ visits' \in Seq(Calls) /\ low' \in [Calibration!Curves -> Int]
      /\ stack' \in Seq(Calibration!Curves) /\ on_stack' \in [Calibration!Curves -> BOOLEAN]
      /\ out' \in Seq(SUBSET Calibration!Curves)
  BY ReturnKeeps
<1>2. /\ pc = "visit"
      /\ UNCHANGED <<reads, sequential, pc, deps, index, counter, calibrated, results>>
  BY DEF Calibration!Return, Calibration!Working
<1> QED BY <1>1, <1>2 DEF Searches, Types

LEMMA BeforeFirst == Before(1) = {}
BY DEF Before

LEMMA SearchesKeeps ==
  ASSUME IInv, Searches
  PROVE  IInv'
<1>1. Types'
  BY DEF IInv, Types, Searches
<1>2. StageOk'
  <2>1. pc' = "visit" /\ sequential' = sequential /\ deps' = deps /\ Calibration!Needs' = Calibration!Needs
    BY DEF Searches, Calibration!Needs
  <2>2. sequential /\ deps = Calibration!Needs
    BY DEF Searches, IInv, StageOk
  <2> QED BY <2>1, <2>2 DEF StageOk
<1>3. ResultsOk'
  <2>1. results' = <<>> /\ calibrated' = {}
    <3>1. results = <<>> /\ calibrated = Before(Len(results) + 1)
      BY DEF IInv, ResultsOk, Searches
    <3>2. Len(results) + 1 = 1
      BY <3>1
    <3> QED BY <3>1, <3>2, BeforeFirst DEF Searches
  <2>2. Len(results') = 0 /\ Len(out') >= 0
    <3>1. out' \in Seq(SUBSET Calibration!Curves)
      BY DEF Searches
    <3> QED BY <2>1, <3>1, LenProperties
  <2>3. \A m : m \notin 1 .. ((Len(results') + 1) - 1)
    BY <2>2
  <2>4. (calibrated = Before(Len(results) + 1))'
    BY <2>1, <2>3 DEF Before
  <2>5. (Len(results) <= Len(out))'
    BY <2>2
  <2> QED BY <2>1, <2>4, <2>5 DEF ResultsOk
<1> QED BY <1>1, <1>2, <1>3 DEF IInv, Searches

LEMMA SearchUnmoved ==
  ASSUME SearchOk, UNCHANGED <<sequential, deps, index, low, on_stack, stack, counter, visits, out>>
  PROVE  SearchOk'
<1>1. \A x, y : Reaches(x, y)' <=> Reaches(x, y)
  BY ReachesKept
<1>2. \A m : BlockOk(m)' <=> BlockOk(m)
  BY <1>1 DEF BlockOk, Before
<1>3. \A c : LowestOf(c)' <=> LowestOf(c)
  BY <1>1 DEF LowestOf
<1>4. /\ \A k, c : (Under(k, c)' <=> Under(k, c)) /\ (OwnOf(k, c)' <=> OwnOf(k, c))
      /\ \A c, d : LookedAt(c, d)' <=> LookedAt(c, d)
      /\ Frames' = Frames
      /\ \A c : Seen(c)' <=> Seen(c)
  BY DEF Under, OwnOf, LookedAt, Frames, Seen
<1>5. IndexOk' /\ StackOk' /\ VisitsOk'
  BY <1>4 DEF SearchOk, IndexOk, StackOk, VisitsOk
<1>6. EdgesOk'
  BY <1>4 DEF SearchOk, EdgesOk
<1>7. LowOk'
  BY <1>3, <1>4 DEF SearchOk, LowOk
<1>8. SubtreeOk'
  BY <1>1, <1>4 DEF SearchOk, SubtreeOk
<1>9. OutOk'
  BY <1>2, <1>4 DEF SearchOk, OutOk
<1> QED BY <1>5, <1>6, <1>7, <1>8, <1>9 DEF SearchOk

LEMMA KnotsHaveCurves ==
  ASSUME NEW cs, NEW ks \in SUBSET Calibration!KnotsOf(cs)
  PROVE  Calibration!CurvesOf(ks) \subseteq cs
<1> SUFFICES ASSUME NEW k \in ks PROVE k[1] \in cs
  BY DEF Calibration!CurvesOf
<1>1. PICK c \in cs : k \in {c} \X (1 .. Knots[c])
  BY DEF Calibration!KnotsOf
<1> QED BY <1>1

LEMMA MarketsRead ==
  ASSUME NEW market \in Markets, NEW i \in Calibration!Instruments
  PROVE  market[i] \in SUBSET Calibration!KnotsOf(Calibration!Curves) /\ Calibration!CurvesOf(market[i]) \subseteq Calibration!Curves
<1>1. Calibration!CurveSetAssumption
  BY MarketAssumption
<1>2. Markets \subseteq [Calibration!Instruments -> SUBSET Calibration!KnotsOf(Calibration!Curves)]
  BY <1>1 DEF Calibration!CurveSetAssumption
<1>3. market[i] \in SUBSET Calibration!KnotsOf(Calibration!Curves)
  BY <1>2
<1> QED BY <1>3, KnotsHaveCurves

LEMMA NeedsType ==
  ASSUME Types
  PROVE  Calibration!Needs \in [Calibration!Curves -> SUBSET Calibration!Curves]
<1>1. \A i \in Calibration!Instruments : Calibration!CurvesOf(reads[i]) \subseteq Calibration!Curves
  BY MarketsRead DEF Types
<1> QED BY <1>1 DEF Calibration!Needs

(* Nothing but the stage moves.                                            *)
LEMMA StageMoves ==
  ASSUME IInv, UNCHANGED <<reads, sequential, deps, index, low, on_stack, stack, counter, visits, out,
                           calibrated, results>>,
         pc' \in {"calibrate", "done", "thrown", "unsolved"}, pc # "start" \/ sequential,
         sequential /\ pc' # "thrown" => deps = Calibration!Needs
  PROVE  IInv'
<1>1. Types'
  BY DEF IInv, Types
<1>2. SearchOk'
  BY SearchUnmoved DEF IInv
<1>3. StageOk'
  <2>1. Calibration!Needs' = Calibration!Needs
    BY DEF Calibration!Needs
  <2> QED BY <2>1 DEF IInv, StageOk
<1>4. ResultsOk'
  BY DEF IInv, ResultsOk, Before
<1> QED BY <1>1, <1>2, <1>3, <1>4 DEF IInv

LEMMA DiscoverKeeps ==
  ASSUME IInv, Calibration!Discover
  PROVE  IInv'
<1>1. /\ pc = "start"
      /\ UNCHANGED <<reads, sequential, index, low, on_stack, stack, counter, visits, calibrated, results>>
      /\ visits = <<>> /\ stack = <<>> /\ out = <<>> /\ results = <<>>
      /\ \A c \in Calibration!Curves : ~Seen(c) /\ ~on_stack[c]
  BY DEF Calibration!Discover, IInv, StageOk, ResultsOk
<1>2. calibrated = {}
  <2>1. Len(results) + 1 = 1
    BY <1>1
  <2> QED BY <2>1, BeforeFirst DEF IInv, ResultsOk
<1>3. \/ ~sequential /\ out' = <<Calibration!Curves>> /\ pc' = "calibrate" /\ deps' = deps
      \/ sequential /\ pc' = "thrown" /\ UNCHANGED <<out, deps>>
      \/ sequential /\ deps' = Calibration!Needs /\ pc' = "visit" /\ out' = out
  BY DEF Calibration!Discover, Calibration!Needs
<1>4. CASE pc' = "thrown"
  <2>1. /\ UNCHANGED <<reads, sequential, deps, index, low, on_stack, stack, counter, visits, out, calibrated, results>>
        /\ sequential
    BY <1>1, <1>3, <1>4
  <2> QED BY <2>1, <1>4, StageMoves
<1>5. CASE pc' # "thrown"
  <2>1. out' \in Seq(SUBSET Calibration!Curves) /\ Len(out') >= 0
    <3>1. out' = <<>> \/ out' = <<Calibration!Curves>>
      BY <1>1, <1>3, <1>5
    <3>2. <<>> \in Seq(SUBSET Calibration!Curves) /\ Len(<<>>) = 0
      BY EmptySeq
    <3>3. \A S : \A e \in S : <<e>> \in Seq(S) /\ Len(<<e>>) = 1
      OBVIOUS
    <3>4. <<Calibration!Curves>> \in Seq(SUBSET Calibration!Curves) /\ Len(<<Calibration!Curves>>) = 1
      BY <3>3
    <3>5. CASE out' = <<>>
      <4>1. out' \in Seq(SUBSET Calibration!Curves) /\ Len(out') = 0
        BY <3>2, <3>5, Zenon
      <4> QED BY <4>1
    <3>6. CASE out' = <<Calibration!Curves>>
      <4>1. out' \in Seq(SUBSET Calibration!Curves) /\ Len(out') = 1
        BY <3>4, <3>6, Zenon
      <4> QED BY <4>1
    <3> QED BY <3>1, <3>5, <3>6
  <2>2. deps' \in [Calibration!Curves -> SUBSET Calibration!Curves]
    BY <1>3, <1>5, NeedsType DEF IInv, Types
  <2>3. Types'
    BY <1>1, <1>3, <1>5, <2>1, <2>2 DEF IInv, Types
  <2>4. StageOk'
    <3>1. Calibration!Needs' = Calibration!Needs
      BY <1>1 DEF Calibration!Needs
    <3> QED BY <3>1, <1>1, <1>3, <1>5 DEF StageOk
  <2>5. ResultsOk'
    <3>1. \A m : m \notin 1 .. ((Len(results') + 1) - 1)
      BY <1>1
    <3>2. (calibrated = Before(Len(results) + 1))'
      BY <3>1, <1>1, <1>2 DEF Before
    <3>3. (Len(results) <= Len(out))'
      BY <1>1, <2>1
    <3> QED BY <3>2, <3>3, <1>1 DEF ResultsOk
  <2>6. IndexOk' /\ StackOk' /\ VisitsOk'
    BY <1>1 DEF IInv, SearchOk, IndexOk, StackOk, VisitsOk, Seen
  <2>7. EdgesOk' /\ LowOk'
    BY <1>1 DEF EdgesOk, LowOk
  <2>8. SubtreeOk'
    BY <1>1 DEF SubtreeOk
  <2>9. OutOk'
    <3>1. sequential => out' = <<>>
      BY <1>1, <1>3, <1>5
    <3>2. sequential => DOMAIN out' = {}
      BY <3>1
    <3> QED BY <3>2, <1>1 DEF OutOk, Seen
  <2> QED BY <2>3, <2>4, <2>5, <2>6, <2>7, <2>8, <2>9 DEF IInv, SearchOk
<1> QED BY <1>4, <1>5

LEMMA BlockShape ==
  ASSUME IInv, Calibration!Calibrating
  PROVE  \E n \in DOMAIN out : /\ n = Len(results) + 1 /\ n \in Nat /\ DOMAIN out = 1 .. Len(out)
                               /\ Calibration!Block = out[n]
                               /\ out[n] \in SUBSET Calibration!Curves
                               /\ calibrated = Before(n)
                               /\ pc = "calibrate"
<1>1. out \in Seq(SUBSET Calibration!Curves) /\ results \in Seq(SUBSET Calibration!Curves)
  BY DEF IInv, Types
<1>2. PICK n : n = Len(results) + 1
  OBVIOUS
<1>3. Len(results) \in Nat /\ Len(out) \in Nat /\ DOMAIN out = 1 .. Len(out)
  BY <1>1, LenProperties
<1>4. pc = "calibrate" /\ Len(results) < Len(out) /\ Calibration!Block = out[n]
  BY <1>2 DEF Calibration!Calibrating, Calibration!Block
<1>5. n \in DOMAIN out /\ n \in Nat
  BY <1>2, <1>3, <1>4
<1>6. out[n] \in SUBSET Calibration!Curves
  BY <1>1, <1>5, ElementOfSeq, <1>3
<1>7. calibrated = Before(n)
  BY <1>2 DEF IInv, ResultsOk
<1> QED BY <1>2, <1>3, <1>4, <1>5, <1>6, <1>7

LEMMA CalibrateKeeps ==
  ASSUME IInv, Calibration!CalibrateBlock
  PROVE  IInv'
<1>1. PICK n \in DOMAIN out : /\ n = Len(results) + 1 /\ n \in Nat /\ DOMAIN out = 1 .. Len(out)
                              /\ Calibration!Block = out[n]
                              /\ out[n] \in SUBSET Calibration!Curves
                              /\ calibrated = Before(n)
                              /\ pc = "calibrate"
  BY BlockShape DEF Calibration!CalibrateBlock, Calibration!Recorded
<1>2. /\ results' = Append(results, out[n]) /\ calibrated' = calibrated \cup out[n]
      /\ UNCHANGED <<reads, sequential, pc, deps, index, low, on_stack, stack, counter, visits, out>>
  BY <1>1 DEF Calibration!CalibrateBlock, Calibration!search
<1>3. results' \in Seq(SUBSET Calibration!Curves) /\ Len(results') = n
  <2>1. results \in Seq(SUBSET Calibration!Curves)
    BY DEF IInv, Types
  <2> QED BY <2>1, <1>1, <1>2, Appended
<1>4. Types'
  BY <1>2, <1>3 DEF IInv, Types
<1>5. SearchOk'
  BY <1>2, SearchUnmoved DEF IInv
<1>6. StageOk'
  <2>1. Calibration!Needs' = Calibration!Needs
    BY <1>2 DEF Calibration!Needs
  <2> QED BY <2>1, <1>2 DEF IInv, StageOk
<1>7. ResultsOk'
  <2>1. \A m : m \in 1 .. ((n + 1) - 1) <=> m = n \/ m \in 1 .. (n - 1)
    BY <1>1
  <2>2. calibrated' = UNION {out[m] : m \in 1 .. ((n + 1) - 1)}
    BY <2>1, <1>1, <1>2 DEF Before
  <2>3. (calibrated = Before(Len(results) + 1))'
    BY <2>2, <1>2, <1>3 DEF Before
  <2>4. (Len(results) <= Len(out))'
    BY <1>1, <1>2, <1>3
  <2> QED BY <2>3, <2>4, <1>1, <1>2 DEF ResultsOk
<1> QED BY <1>4, <1>5, <1>6, <1>7 DEF IInv

LEMMA InitIInv ==
  ASSUME Calibration!Init
  PROVE  IInv
<1>1. DOMAIN visits = {} /\ DOMAIN stack = {} /\ DOMAIN out = {} /\ Len(results) = 0 /\ Len(out) = 0
  BY DEF Calibration!Init
<1>2. Types
  <2>1. <<>> \in Seq(Calibration!Curves) /\ <<>> \in Seq(Calls) /\ <<>> \in Seq(SUBSET Calibration!Curves)
    BY EmptySeq
  <2> QED BY <2>1 DEF Calibration!Init, Types
<1>3. IndexOk /\ StackOk /\ VisitsOk /\ EdgesOk /\ LowOk /\ SubtreeOk /\ OutOk
  BY <1>1 DEF Calibration!Init, IndexOk, StackOk, VisitsOk, EdgesOk, LowOk, SubtreeOk, OutOk, Seen
<1>4. StageOk
  BY DEF Calibration!Init, StageOk, Seen
<1>5. ResultsOk
  <2>1. Before(Len(results) + 1) = {}
    BY <1>1 DEF Before
  <2> QED BY <2>1, <1>1 DEF Calibration!Init, ResultsOk
<1> QED BY <1>2, <1>3, <1>4, <1>5 DEF IInv, SearchOk

LEMMA NextIInv ==
  ASSUME IInv, Calibration!Next
  PROVE  IInv'
<1>1. Types /\ SearchOk
  BY DEF IInv
<1>2. CASE Calibration!Discover
  BY <1>2, DiscoverKeeps
<1>3. CASE Calibration!NewRoot \/ Calibration!Descend \/ Calibration!Look \/ Calibration!Return
  BY <1>1, <1>3, NewRootSearches, DescendSearches, LookSearches, ReturnSearches, SearchesKeeps
<1>4. CASE Calibration!CalibrateBlock
  BY <1>4, CalibrateKeeps
<1>5. CASE Calibration!Searched \/ Calibration!Diverge \/ Calibration!Throw \/ Calibration!Finish
  <2>1. /\ UNCHANGED <<reads, sequential, deps, index, low, on_stack, stack, counter, visits, out, calibrated, results>>
        /\ pc' \in {"calibrate", "done", "thrown", "unsolved"} /\ pc \in {"visit", "calibrate"}
    BY <1>5 DEF Calibration!Searched, Calibration!Diverge, Calibration!Throw, Calibration!Finish, Calibration!Recorded, Calibration!search, Calibration!Calibrating
  <2>2. sequential => deps = Calibration!Needs
    BY <2>1 DEF IInv, StageOk
  <2> QED BY <2>1, <2>2, StageMoves
<1>6. CASE Calibration!Stopped
  <2>1. UNCHANGED <<reads, sequential, deps, index, low, on_stack, stack, counter, visits, out, calibrated, results>>
    BY <1>6 DEF Calibration!Stopped, Calibration!vars
  <2>2. pc' = pc /\ pc \in {"done", "thrown", "unsolved"}
    BY <1>6 DEF Calibration!Stopped, Calibration!vars
  <2>3. sequential /\ pc' # "thrown" => deps = Calibration!Needs
    BY <2>2 DEF IInv, StageOk
  <2> QED BY <2>1, <2>2, <2>3, StageMoves
<1> QED BY <1>2, <1>3, <1>4, <1>5, <1>6 DEF Calibration!Next, Calibration!Step

LEMMA IInvUnmoved ==
  ASSUME IInv, UNCHANGED curveVars
  PROVE  IInv'
<1>1. UNCHANGED <<reads, sequential, pc, deps, index, low, on_stack, stack, counter, visits, out, calibrated, results>>
  BY DEF curveVars
<1>2. SearchOk'
  BY <1>1, SearchUnmoved DEF IInv
<1>3. Types' /\ StageOk' /\ ResultsOk'
  BY <1>1 DEF IInv, Types, StageOk, ResultsOk, Calibration!Needs, Before, Seen
<1> QED BY <1>2, <1>3 DEF IInv

(* A behaviour of the market calibrates, or has nothing to calibrate.      *)
MarketInv == IF pc = "idle" THEN NoCalibration ELSE IInv

LEMMA MarketInit ==
  ASSUME Init
  PROVE  MarketInv
<1>1. CASE Calibration!Init
  BY <1>1, InitIInv DEF MarketInv, Calibration!Init
<1>2. CASE NoCalibration
  BY <1>2 DEF MarketInv, NoCalibration
<1> QED BY <1>1, <1>2 DEF Init

LEMMA MarketNext ==
  ASSUME MarketInv, [Next]_vars
  PROVE  MarketInv'
<1>1. CASE pc # "idle" /\ Calibration!Next
  <2>1. IInv'
    BY <1>1, NextIInv DEF MarketInv
  <2> QED BY <2>1 DEF MarketInv, IInv, Types
<1>2. CASE UNCHANGED curveVars
  <2>1. CASE pc = "idle"
    BY <1>2, <2>1 DEF MarketInv, NoCalibration, curveVars
  <2>2. CASE pc # "idle"
    <3>1. IInv' /\ pc' = pc
      BY <1>2, <2>2, IInvUnmoved DEF MarketInv, curveVars
    <3> QED BY <3>1, <2>2 DEF MarketInv
  <2> QED BY <2>1, <2>2
<1> QED BY <1>1, <1>2 DEF Next, vars

LEMMA MarketAlways == Spec => []MarketInv
<1>1. Init => MarketInv
  BY MarketInit
<1>2. MarketInv /\ [Next]_vars => MarketInv'
  BY MarketNext
<1> QED BY <1>1, <1>2, PTL DEF Spec

-----------------------------------------------------------------------------
(* What a calibration does.                                                *)

(* The curves an instrument reads are in the block of its curve or before. *)
LEMMA BlockClosed ==
  ASSUME IInv, Calibration!Calibrating
  PROVE  /\ \A c \in Calibration!Block : Calibration!Needs[c] \subseteq Calibration!Block \cup calibrated
         /\ Calibration!Valued
<1>1. PICK n \in DOMAIN out : /\ n = Len(results) + 1 /\ n \in Nat /\ DOMAIN out = 1 .. Len(out)
                              /\ Calibration!Block = out[n]
                              /\ out[n] \in SUBSET Calibration!Curves
                              /\ calibrated = Before(n)
                              /\ pc = "calibrate"
  BY BlockShape
<1>2. Calibration!Needs \in [Calibration!Curves -> SUBSET Calibration!Curves]
  BY NeedsType DEF IInv
<1>3. \A c \in out[n] : Calibration!Needs[c] \subseteq out[n] \cup calibrated
  <2>1. CASE sequential
    <3>1. BlockOk(n) /\ deps = Calibration!Needs
      BY <1>1, <2>1 DEF IInv, SearchOk, OutOk, StageOk
    <3> QED BY <3>1, <1>1 DEF BlockOk
  <2>2. CASE ~sequential
    <3>1. out = <<Calibration!Curves>>
      BY <1>1, <2>2 DEF IInv, StageOk
    <3>2. out[n] = Calibration!Curves
      BY <3>1, <1>1
    <3> QED BY <3>2, <1>2
  <2> QED BY <2>1, <2>2
<1>4. ASSUME NEW i \in Calibration!Instruments, Owner[i] \in out[n]
      PROVE  Calibration!CurvesOf(reads[i]) \subseteq out[n] \cup calibrated
  <2>1. Owner[i] \in Calibration!Curves
    BY <1>1, <1>4
  <2>2. Calibration!Needs[Owner[i]] = (UNION {Calibration!CurvesOf(reads[j]) : j \in {k \in Calibration!Instruments : Owner[k] = Owner[i]}}) \ {Owner[i]}
    BY <2>1 DEF Calibration!Needs
  <2>3. Calibration!CurvesOf(reads[i]) \subseteq Calibration!Needs[Owner[i]] \cup {Owner[i]}
    BY <2>2
  <2> QED BY <2>3, <1>3, <1>4
<1> QED BY <1>1, <1>3, <1>4 DEF Calibration!Valued, Calibration!Insts

LEMMA InstrumentsRead ==
  ASSUME MarketInv
  PROVE  DependenciesFirst
<1>1. CASE pc = "idle"
  BY <1>1 DEF DependenciesFirst, Calibration!DependenciesFirst, Calibration!Calibrating
<1>2. CASE IInv
  BY <1>2, BlockClosed DEF DependenciesFirst, Calibration!DependenciesFirst
<1> QED BY <1>1, <1>2 DEF MarketInv

(* No instrument ever reads a curve that has no values yet, whatever the   *)
(* instruments read: the exception of CurveStates::curve is not reached    *)
(* from calibrate.                                                         *)
THEOREM DependenciesCome == Spec => []DependenciesFirst
<1>1. MarketInv => DependenciesFirst
  BY InstrumentsRead
<1> QED BY <1>1, MarketAlways, PTL

(* A block of a sequential calibration is connected: what of it could be   *)
(* calibrated sooner would be closed, and hold no more than it reaches.    *)
LEMMA NothingSmaller ==
  ASSUME IInv, Calibration!Calibrating, sequential, NEW part \in SUBSET Calibration!Block, part # {}, part # Calibration!Block
  PROVE  ~ \A c \in part : Calibration!Needs[c] \subseteq part \cup calibrated
<1>1. PICK n \in DOMAIN out : /\ n = Len(results) + 1 /\ n \in Nat /\ DOMAIN out = 1 .. Len(out)
                              /\ Calibration!Block = out[n]
                              /\ out[n] \in SUBSET Calibration!Curves
                              /\ calibrated = Before(n)
                              /\ pc = "calibrate"
  BY BlockShape
<1>2. deps = Calibration!Needs /\ \A m \in DOMAIN out : BlockOk(m)
  BY <1>1 DEF IInv, SearchOk, OutOk, StageOk
<1>3. PICK x \in part, y \in out[n] : y \notin part
  BY <1>1
<1> SUFFICES ASSUME \A c \in part : deps[c] \subseteq part \cup calibrated
             PROVE  FALSE
  BY <1>2
<1>4. \A c \in calibrated : deps[c] \subseteq calibrated /\ c \in Calibration!Curves
  <2> TAKE c \in calibrated
  <2>1. PICK m \in 1 .. (n - 1) : c \in out[m]
    BY <1>1 DEF Before
  <2>2. m \in DOMAIN out /\ m \in Nat /\ m < n
    BY <1>1
  <2>3. deps[c] \subseteq out[m] \cup Before(m)
    BY <2>1, <2>2, <1>2 DEF BlockOk
  <2>4. out[m] \cup Before(m) \subseteq Before(n)
    BY <2>1, <2>2, <1>1 DEF Before
  <2>5. out[m] \in SUBSET Calibration!Curves
    BY <2>2, ElementOfSeq, <1>1 DEF IInv, Types
  <2> QED BY <2>1, <2>3, <2>4, <2>5, <1>1
<1>5. Reaches(x, y)
  BY <1>1, <1>2, <1>3 DEF BlockOk
<1>6. part \cup calibrated \in SUBSET Calibration!Curves
  BY <1>1, <1>4
<1>7. y \in part \cup calibrated
  BY <1>3, <1>4, <1>5, <1>6 DEF Reaches
<1>8. y \notin calibrated
  BY <1>1, <1>2, <1>3 DEF BlockOk
<1> QED BY <1>3, <1>7, <1>8

LEMMA OrderInit ==
  ASSUME Init
  PROVE  Order!Init
<1>1. calibrated = {} /\ sequential \in BOOLEAN
  BY DEF Init, Calibration!Init, NoCalibration
<1>2. \A i \in Calibration!Instruments : Calibration!CurvesOf(reads[i]) \subseteq Calibration!Curves
  <2>1. CASE Calibration!Init
    BY <2>1, MarketsRead DEF Calibration!Init
  <2>2. CASE NoCalibration
    <3>1. \A i \in Calibration!Instruments : reads[i] = {}
      BY <2>2 DEF NoCalibration, Calibration!Instruments
    <3> QED BY <3>1 DEF Calibration!CurvesOf
  <2> QED BY <2>1, <2>2 DEF Init
<1>3. Calibration!Needs \in [Calibration!Curves -> SUBSET Calibration!Curves]
  BY <1>2 DEF Calibration!Needs
<1> QED BY <1>1, <1>3 DEF Order!Init, Calibration!Needs

LEMMA OrderStep ==
  ASSUME MarketInv, [Next]_vars
  PROVE  [Order!Calibrate]_Order!order
<1>1. UNCHANGED <<reads, sequential>>
  <2>1. CASE Calibration!Next
    BY <2>1 DEF Calibration!Next, Calibration!Step, Calibration!Discover, Calibration!NewRoot, Calibration!Descend, Calibration!Look, Calibration!Return, Calibration!Searched,
                Calibration!CalibrateBlock, Calibration!Diverge, Calibration!Throw, Calibration!Finish, Calibration!Stopped, Calibration!vars
  <2>2. CASE UNCHANGED curveVars
    BY <2>2 DEF curveVars
  <2> QED BY <2>1, <2>2 DEF Next, vars
<1>2. Calibration!Needs' = Calibration!Needs
  BY <1>1 DEF Calibration!Needs
<1>3. CASE calibrated' = calibrated
  BY <1>1, <1>2, <1>3 DEF Order!order, Calibration!Needs
<1>4. CASE Calibration!CalibrateBlock /\ IInv /\ calibrated' # calibrated
  <2>1. Calibration!Calibrating /\ calibrated' = calibrated \cup Calibration!Block
    BY <1>4 DEF Calibration!CalibrateBlock, Calibration!Recorded
  <2>2. PICK block : block = Calibration!Block
    OBVIOUS
  <2>3. block \in SUBSET (Calibration!Curves \ calibrated) /\ block # {}
    <3>1. PICK n \in DOMAIN out : /\ n = Len(results) + 1 /\ n \in Nat /\ DOMAIN out = 1 .. Len(out)
                                  /\ Calibration!Block = out[n]
                                  /\ out[n] \in SUBSET Calibration!Curves
                                  /\ calibrated = Before(n)
                                  /\ pc = "calibrate"
      BY <1>4, <2>1, BlockShape
    <3>2. out[n] \cap calibrated = {}
      <4>1. CASE sequential
        <5>1. BlockOk(n)
          BY <1>4, <4>1 DEF IInv, SearchOk, OutOk
        <5> QED BY <5>1, <3>1 DEF BlockOk
      <4>2. CASE ~sequential
        <5>1. out = <<Calibration!Curves>>
          BY <1>4, <3>1, <4>2 DEF IInv, StageOk
        <5>2. n = 1
          BY <3>1, <5>1
        <5> QED BY <5>2, <3>1, BeforeFirst
      <4> QED BY <4>1, <4>2
    <3> QED BY <3>1, <3>2, <2>1, <2>2, <1>4
  <2>4. \A c \in block : Calibration!Needs[c] \subseteq block \cup calibrated
    BY <1>4, <2>1, <2>2, BlockClosed
  <2>5. sequential => \A part \in (SUBSET block) \ {{}, block} : ~ \A c \in part : Calibration!Needs[c] \subseteq part \cup calibrated
    BY <1>4, <2>1, <2>2, NothingSmaller
  <2>6. ~sequential => block = Calibration!Curves
    <3>1. ASSUME ~sequential PROVE block = Calibration!Curves
      <4>1. out = <<Calibration!Curves>>
        BY <1>4, <2>1, <3>1 DEF IInv, StageOk, Calibration!Calibrating
      <4>2. PICK n \in DOMAIN out : Calibration!Block = out[n]
        BY <1>4, <2>1, BlockShape
      <4> QED BY <4>1, <4>2, <2>2
    <3> QED BY <3>1
  <2>7. Order!NextBlock(block)
    BY <2>4, <2>5, <2>6 DEF Order!NextBlock, Order!Closed, Calibration!Needs
  <2> QED BY <2>1, <2>2, <2>3, <2>7, <1>1, <1>2 DEF Order!Calibrate, Calibration!Needs
<1>5. calibrated' = calibrated \/ (Calibration!CalibrateBlock /\ IInv)
  <2>1. CASE pc # "idle" /\ Calibration!Next
    BY <2>1 DEF MarketInv, Calibration!Next, Calibration!Step, Calibration!Discover, Calibration!NewRoot, Calibration!Descend, Calibration!Look, Calibration!Return, Calibration!Searched,
                Calibration!Diverge, Calibration!Throw, Calibration!Finish, Calibration!Stopped, Calibration!vars
  <2>2. CASE UNCHANGED curveVars
    BY <2>2 DEF curveVars
  <2> QED BY <2>1, <2>2 DEF Next, vars
<1> QED BY <1>3, <1>4, <1>5

(* The blocks are calibrated as the header promises, whatever the graph of *)
(* reads: each of them closed under what it reads and, in sequential mode, *)
(* a strongly connected component; or one block of every curve.            *)
THEOREM CalibratesByComponents == Spec => CalibratesInOrder
<1>1. Init => Order!Init
  BY OrderInit
<1>2. MarketInv /\ [Next]_vars => [Order!Calibrate]_Order!order
  BY OrderStep
<1> QED BY <1>1, <1>2, MarketAlways, PTL DEF Spec, CalibratesInOrder, Order!Spec

-----------------------------------------------------------------------------
(* What a calibration refuses.                                             *)

(* Nothing that a closed set holds reaches out of it.                      *)
LEMMA BeforeClosed ==
  ASSUME IInv, sequential, NEW n \in DOMAIN out, NEW c \in Before(n)
  PROVE  c \in Calibration!Curves /\ deps[c] \subseteq Before(n)
<1>1. out \in Seq(SUBSET Calibration!Curves) /\ DOMAIN out = 1 .. Len(out) /\ Len(out) \in Nat
  BY LenProperties DEF IInv, Types
<1>2. PICK m \in 1 .. (n - 1) : c \in out[m]
  BY DEF Before
<1>3. n \in Nat /\ m \in DOMAIN out /\ m \in Nat /\ m < n
  BY <1>1
<1>4. BlockOk(m)
  BY <1>3 DEF IInv, SearchOk, OutOk
<1>5. deps[c] \subseteq out[m] \cup Before(m)
  BY <1>2, <1>4 DEF BlockOk
<1>6. out[m] \cup Before(m) \subseteq Before(n)
  BY <1>3, <1>2 DEF Before
<1>7. out[m] \in SUBSET Calibration!Curves
  BY <1>1, <1>3, ElementOfSeq
<1> QED BY <1>2, <1>5, <1>6, <1>7

(* The curves of a block are those that need one another with any of them. *)
LEMMA BlockTogether ==
  ASSUME IInv, Calibration!Calibrating, NEW c \in Calibration!Block
  PROVE  c \in Calibration!Curves /\ Calibration!Together(c) = Calibration!Block
<1>1. PICK n \in DOMAIN out : /\ n = Len(results) + 1 /\ n \in Nat /\ DOMAIN out = 1 .. Len(out)
                              /\ Calibration!Block = out[n]
                              /\ out[n] \in SUBSET Calibration!Curves
                              /\ calibrated = Before(n)
                              /\ pc = "calibrate"
  BY BlockShape
<1>2. \A x, y : Calibration!Reaches(x, y) <=> Reaches(x, y)
  BY DEF Calibration!Reaches, Reaches
<1>3. CASE ~sequential
  <2>1. out = <<Calibration!Curves>>
    BY <1>1, <1>3 DEF IInv, StageOk
  <2>2. out[n] = Calibration!Curves
    BY <1>1, <2>1
  <2> QED BY <1>1, <1>3, <2>2 DEF Calibration!Together
<1>4. CASE sequential
  <2>1. BlockOk(n)
    BY <1>1, <1>4 DEF IInv, SearchOk, OutOk
  <2>2. ASSUME NEW d \in Calibration!Curves, Reaches(c, d), Reaches(d, c)
        PROVE  d \in out[n]
    <3>1. Before(n) \in SUBSET Calibration!Curves /\ \A e \in Before(n) : deps[e] \subseteq Before(n)
      BY <1>4, BeforeClosed
    <3>2. out[n] \cup Before(n) \in SUBSET Calibration!Curves /\ \A e \in out[n] \cup Before(n) : deps[e] \subseteq out[n] \cup Before(n)
      BY <1>1, <2>1, <3>1 DEF BlockOk
    <3>3. d \in out[n] \cup Before(n)
      BY <1>1, <2>2, <3>2 DEF Reaches
    <3>4. ASSUME d \in Before(n) PROVE FALSE
      <4>1. c \in Before(n)
        BY <2>2, <3>1, <3>4 DEF Reaches
      <4> QED BY <4>1, <1>1, <2>1 DEF BlockOk
    <3> QED BY <3>3, <3>4
  <2>3. \A d \in out[n] : d \in Calibration!Curves /\ Reaches(c, d) /\ Reaches(d, c)
    BY <1>1, <2>1 DEF BlockOk
  <2>4. Calibration!Together(c) = {d \in Calibration!Curves : Reaches(c, d) /\ Reaches(d, c)}
    BY <1>2, <1>4 DEF Calibration!Together
  <2> QED BY <1>1, <2>2, <2>3, <2>4
<1> QED BY <1>3, <1>4

(* A block that is refused is ill posed: it reads nothing without values.  *)
LEMMA RefusedIllPosed ==
  ASSUME IInv, Calibration!Calibrating, Calibration!Curves # {},
         ~(Calibration!Enough /\ Calibration!Valued /\ Calibration!Coupled)
  PROVE  \E c \in Calibration!Curves : Calibration!IllPosed(Calibration!Together(c))
<1>1. PICK n \in DOMAIN out : /\ n = Len(results) + 1 /\ n \in Nat /\ DOMAIN out = 1 .. Len(out)
                              /\ Calibration!Block = out[n]
                              /\ out[n] \in SUBSET Calibration!Curves
                              /\ calibrated = Before(n)
                              /\ pc = "calibrate"
  BY BlockShape
<1>2. Calibration!Block # {}
  <2>1. CASE sequential
    <3>1. BlockOk(n)
      BY <1>1, <2>1 DEF IInv, SearchOk, OutOk
    <3> QED BY <1>1, <3>1 DEF BlockOk
  <2>2. CASE ~sequential
    <3>1. out = <<Calibration!Curves>>
      BY <1>1, <2>2 DEF IInv, StageOk
    <3> QED BY <1>1, <3>1
  <2> QED BY <2>1, <2>2
<1>3. PICK c \in Calibration!Block : TRUE
  BY <1>2
<1>4. c \in Calibration!Curves /\ Calibration!Together(c) = Calibration!Block
  BY <1>3, BlockTogether
<1>5. Calibration!Valued
  BY BlockClosed
<1>6. Calibration!Unknowns # {}
  <2>1. Calibration!CurveSetAssumption
    BY MarketAssumption
  <2>2. Knots[c] \in Nat \ {0}
    BY <1>4, <2>1 DEF Calibration!CurveSetAssumption
  <2>3. <<c, 1>> \in {c} \X (1 .. Knots[c])
    BY <2>2
  <2> QED BY <2>3, <1>3 DEF Calibration!Unknowns, Calibration!KnotsOf
<1>7. Calibration!IllPosed(Calibration!Block)
  BY <1>5, <1>6 DEF Calibration!Enough, Calibration!Coupled, Calibration!IllPosed, Calibration!Insts, Calibration!Unknowns
<1> QED BY <1>4, <1>7

LEMMA RefusedFor ==
  ASSUME MarketInv, Accepts, [Next]_vars
  PROVE  Accepts'
<1> DEFINE Refusal == \/ Calibration!Curves = {}
                      \/ sequential /\ \E i \in Calibration!Instruments : reads[i] = {}
                      \/ \E c \in Calibration!Curves : Calibration!IllPosed(Calibration!Together(c))
<1>1. Accepts <=> (pc = "thrown" => Refusal)
  BY DEF Accepts, Calibration!Accepts
<1>2. Accepts' <=> (pc' = "thrown" => Refusal')
  BY DEF Accepts, Calibration!Accepts
<1>3. UNCHANGED <<reads, sequential, deps>> => (Refusal' <=> Refusal)
  BY DEF Calibration!Together, Calibration!Reaches, Calibration!IllPosed
<1>4. CASE pc # "idle" /\ Calibration!Next
  <2>1. IInv
    BY <1>4 DEF MarketInv
  <2>2. CASE Calibration!Discover
    <3>1. ASSUME pc' = "thrown" PROVE Refusal /\ UNCHANGED <<reads, sequential, deps>>
      <4>1. UNCHANGED <<reads, sequential, deps>> /\ sequential /\ \E i \in Calibration!Instruments : reads[i] = {}
        BY <2>2, <3>1 DEF Calibration!Discover
      <4> QED BY <4>1
    <3> HIDE DEF Refusal
    <3> QED BY <3>1, <1>2, <1>3
  <2>3. CASE Calibration!Throw
    <3>1. /\ Calibration!Calibrating /\ UNCHANGED <<reads, sequential, deps>>
          /\ ~(Calibration!Enough /\ Calibration!Valued /\ Calibration!Coupled)
      BY <2>3 DEF Calibration!Throw
    <3>2. Refusal
      BY <2>1, <3>1, RefusedIllPosed
    <3> HIDE DEF Refusal
    <3> QED BY <3>1, <3>2, <1>2, <1>3
  <2> HIDE DEF Refusal
  <2>4. CASE Calibration!Stopped
    BY <2>4, <1>1, <1>2, <1>3 DEF Calibration!Stopped, Calibration!vars
  <2>5. CASE ~Calibration!Discover /\ ~Calibration!Throw /\ ~Calibration!Stopped
    <3>1. pc' # "thrown"
      BY <1>4, <2>1, <2>5 DEF Calibration!Next, Calibration!Step, Calibration!NewRoot, Calibration!Descend, Calibration!Look, Calibration!Return, Calibration!Searched,
            Calibration!CalibrateBlock, Calibration!Diverge, Calibration!Finish, Calibration!Working, Calibration!Recorded, Calibration!Calibrating
    <3> QED BY <3>1, <1>2
  <2> QED BY <2>2, <2>3, <2>4, <2>5
<1>5. CASE UNCHANGED curveVars
  <2> HIDE DEF Refusal
  <2> QED BY <1>5, <1>1, <1>2, <1>3 DEF curveVars
<1> QED BY <1>4, <1>5 DEF Next, vars

(* A calibration throws for no other reason than a solve that does not     *)
(* converge, an empty set, an instrument that reads no curve, or curves    *)
(* that need one another and have too few instruments, a knot that none of *)
(* these reads, or an instrument that reads none of their knots: never for *)
(* the order in which curves are found or calibrated, for any number of    *)
(* curves and whatever their instruments read.                             *)
THEOREM NothingElseRefused == Spec => []Accepts
<1>1. Init => Accepts
  BY DEF Init, Calibration!Init, NoCalibration, Accepts, Calibration!Accepts
<1>2. MarketInv /\ Accepts /\ [Next]_vars => Accepts'
  BY RefusedFor
<1> QED BY <1>1, <1>2, MarketAlways, PTL DEF Spec

-----------------------------------------------------------------------------
(* The names of a registry.                                                *)

(* What is stored is well formed, and no two have a name in a section.     *)
DefsOk(ds) ==
  /\ \A d \in ds : Conventions!WellFormed(d)
  /\ \A d, e \in ds : d.section = e.section /\ d.name = e.name => d = e

Indexed(docs) == DOMAIN docs \subseteq Nat /\ \A f \in DOMAIN docs : DOMAIN docs[f] \subseteq Nat

LEMMA AddedOk ==
  ASSUME NEW ds, DefsOk(ds), NEW docs, Indexed(docs)
  PROVE  /\ ds \subseteq Conventions!AddDocuments(ds, docs).defs
         /\ DefsOk(Conventions!AddDocuments(ds, docs).defs)
<1> DEFINE throwing == Conventions!Throwing(ds, docs)
           kept == {p \in Conventions!Places(docs) \ throwing : ~\E q \in throwing : Conventions!Earlier(q, p)}
           all == ds \cup {Conventions!Entry(docs, p) : p \in kept}
<1>1. Conventions!AddDocuments(ds, docs).defs = all
  BY DEF Conventions!AddDocuments
<1>2. \A p \in Conventions!Places(docs) : p[1] \in Nat /\ p[2] \in Nat /\ p = <<p[1], p[2]>>
  BY DEF Conventions!Places, Indexed
<1>3. \A p, q \in Conventions!Places(docs) : p = q \/ Conventions!Earlier(p, q) \/ Conventions!Earlier(q, p)
  BY <1>2 DEF Conventions!Earlier
<1>4. ASSUME NEW p \in kept
      PROVE  /\ p \in Conventions!Places(docs) /\ Conventions!WellFormed(Conventions!Entry(docs, p))
             /\ \A d \in ds : ~(d.section = Conventions!Entry(docs, p).section /\ d.name = Conventions!Entry(docs, p).name)
             /\ \A q \in Conventions!Places(docs) : Conventions!Earlier(q, p) =>
                  ~(Conventions!Entry(docs, q).section = Conventions!Entry(docs, p).section /\ Conventions!Entry(docs, q).name = Conventions!Entry(docs, p).name)
  <2>1. p \in Conventions!Places(docs) /\ p \notin throwing
    OBVIOUS
  <2>2. Conventions!WellFormed(Conventions!Entry(docs, p))
    BY <2>1 DEF Conventions!Throwing
  <2>3. ~Conventions!Twice(Conventions!Entry(docs, p), ds \cup {Conventions!Entry(docs, q) : q \in {q \in Conventions!Places(docs) : Conventions!Earlier(q, p)}})
    BY <2>1 DEF Conventions!Throwing
  <2> QED BY <2>1, <2>2, <2>3 DEF Conventions!Twice, Conventions!Names
<1> HIDE DEF kept
<1>5. \A d \in all : Conventions!WellFormed(d)
  BY <1>4 DEF DefsOk
<1>6. ASSUME NEW d \in all, NEW e \in all, d.section = e.section, d.name = e.name
      PROVE  d = e
  <2>1. CASE d \in ds /\ e \in ds
    BY <2>1, <1>6 DEF DefsOk
  <2>2. CASE d \in ds /\ e \notin ds
    BY <2>2, <1>4, <1>6
  <2>3. CASE d \notin ds /\ e \in ds
    BY <2>3, <1>4, <1>6
  <2>4. CASE d \notin ds /\ e \notin ds
    <3>1. PICK p \in kept, q \in kept : d = Conventions!Entry(docs, p) /\ e = Conventions!Entry(docs, q)
      BY <2>4
    <3> QED BY <3>1, <1>3, <1>4, <1>6
  <2> QED BY <2>1, <2>2, <2>3, <2>4
<1> QED BY <1>1, <1>5, <1>6 DEF DefsOk

LEMMA Found ==
  ASSUME NEW ds, NEW section, NEW name \in Conventions!Names(section, ds)
  PROVE  \E d \in ds : d.section = section /\ d.name = name /\ Conventions!Body(section, name, ds) = d.body
<1>1. \E d \in ds : d.section = section /\ d.name = name
  BY DEF Conventions!Names
<1> QED BY <1>1 DEF Conventions!Body

LEMMA BodyKept ==
  ASSUME NEW ds, NEW es, ds \subseteq es, DefsOk(es), NEW section, NEW name \in Conventions!Names(section, ds)
  PROVE  name \in Conventions!Names(section, es) /\ Conventions!Body(section, name, es) = Conventions!Body(section, name, ds)
<1>1. PICK d \in ds : d.section = section /\ d.name = name /\ Conventions!Body(section, name, ds) = d.body
  BY Found
<1>2. name \in Conventions!Names(section, es)
  BY <1>1 DEF Conventions!Names
<1>3. PICK e \in es : e.section = section /\ e.name = name /\ Conventions!Body(section, name, es) = e.body
  BY <1>2, Found
<1>4. d = e
  BY <1>1, <1>3 DEF DefsOk
<1> QED BY <1>1, <1>2, <1>3, <1>4

(* Every reference of what is stored is to a calendar built, or stored.    *)
ReferencesOk(ds, cals) ==
  DOMAIN cals = Conventions!Names("calendars", ds) /\ \A d \in ds : Conventions!Refers(d, ds, cals)

RegistryInv ==
  /\ DefsOk(defs)
  /\ DefsOk(prints)
  /\ verdict \in {"none", "idle"} => defs = {} /\ ~valid
  /\ verdict = "ok" => ReferencesOk(defs, calendars)
  /\ valid => /\ prints # {} /\ Conventions!Resolves
              /\ \A d \in prints : d.section = "blueprints" =>
                   Conventions!LookedUp(d.body).indices \subseteq Conventions!Names("indices", defs)

LEMMA LegsRead ==
  ASSUME NEW conv, Conventions!GoodInstrument(conv), NEW l \in DOMAIN conv.legs
  PROVE  conv.legs[l].role \in {"fixed", "float"}
<1>1. CASE Conventions!IsSwap(conv)
  BY <1>1 DEF Conventions!GoodInstrument, Conventions!RoleOk
<1>2. CASE ~Conventions!IsSwap(conv)
  <2>1. conv.legs = <<>>
    BY <1>2 DEF Conventions!GoodInstrument
  <2>2. DOMAIN <<>> = {}
    OBVIOUS
  <2> QED BY <2>1, <2>2
<1> QED BY <1>1, <1>2

(* The convention a blueprint names, which is well formed.                 *)
LEMMA ConventionFound ==
  ASSUME DefsOk(defs), NEW b, b.convention \in Conventions!Names("instruments", defs)
  PROVE  \E d \in defs : /\ d.section = "instruments" /\ Conventions!Body("instruments", b.convention, defs) = d.body
                         /\ Conventions!GoodInstrument(d.body)
<1>1. PICK d \in defs : d.section = "instruments" /\ Conventions!Body("instruments", b.convention, defs) = d.body
  BY Found
<1>2. Conventions!WellFormed(d)
  BY DEF DefsOk
<1>3. Conventions!GoodInstrument(d.body)
  BY <1>1, <1>2 DEF Conventions!WellFormed
<1> QED BY <1>1, <1>3

LEMMA NamesFound ==
  ASSUME DefsOk(defs), ReferencesOk(defs, calendars), NEW b, b.convention \in Conventions!Names("instruments", defs)
  PROVE  /\ Conventions!LookedUp(b).indices \subseteq Conventions!Names("indices", defs)
         /\ Conventions!LookedUp(b).calendars \subseteq DOMAIN calendars
<1>1. PICK d \in defs : /\ d.section = "instruments" /\ Conventions!Body("instruments", b.convention, defs) = d.body
                        /\ Conventions!GoodInstrument(d.body)
  BY ConventionFound
<1>2. PICK conv : conv = d.body
  OBVIOUS
<1>3. Conventions!Refers(d, defs, calendars)
  BY DEF ReferencesOk
<1> DEFINE floating == {l \in DOMAIN conv.legs : conv.legs[l].role = "float"}
<1>4. /\ conv.calendar \in DOMAIN calendars
      /\ Conventions!OwnIndices(conv) \subseteq Conventions!Names("indices", defs)
      /\ \A l \in DOMAIN conv.legs : Conventions!LegRefers(conv.legs[l], defs, calendars)
  BY <1>1, <1>2, <1>3 DEF Conventions!Refers
<1>5. \A l \in DOMAIN conv.legs : /\ conv.legs[l].role = "float" => conv.legs[l].index \in Conventions!Names("indices", defs)
                                  /\ conv.legs[l].calendar # 0 => conv.legs[l].calendar \in DOMAIN calendars
  BY <1>4 DEF Conventions!LegRefers
<1>6. Conventions!LookedUp(b).indices = Conventions!OwnIndices(conv) \cup {conv.legs[l].index : l \in floating}
  BY <1>1, <1>2 DEF Conventions!LookedUp
<1>7. Conventions!LookedUp(b).indices \subseteq Conventions!Names("indices", defs)
  BY <1>4, <1>5, <1>6
<1>8. ASSUME NEW x \in Conventions!LookedUp(b).indices
      PROVE  Conventions!Body("indices", x, defs).fixing_calendar \in DOMAIN calendars
  <2>1. PICK e \in defs : e.section = "indices" /\ Conventions!Body("indices", x, defs) = e.body
    BY <1>7, <1>8, Found
  <2>2. Conventions!Refers(e, defs, calendars)
    BY DEF ReferencesOk
  <2> QED BY <2>1, <2>2 DEF Conventions!Refers
<1>9. Conventions!LookedUp(b).calendars =
        {conv.calendar} \cup ({conv.legs[l].calendar : l \in DOMAIN conv.legs} \ {0})
          \cup {Conventions!Body("indices", x, defs).fixing_calendar : x \in Conventions!LookedUp(b).indices \cap Conventions!Names("indices", defs)}
  BY <1>1, <1>2 DEF Conventions!LookedUp
<1>10. Conventions!LookedUp(b).calendars \subseteq DOMAIN calendars
  BY <1>4, <1>5, <1>8, <1>9
<1> QED BY <1>7, <1>10

(* What was accepted is accepted when more is stored.                      *)
LEMMA ResolvesKept ==
  ASSUME RegistryInv, valid, defs \subseteq defs', DefsOk(defs'), prints' = prints
  PROVE  /\ Conventions!Resolves'
         /\ \A d \in prints : d.section = "blueprints" =>
              (Conventions!LookedUp(d.body).indices)' \subseteq Conventions!Names("indices", defs')
<1>1. /\ Conventions!Resolves /\ DefsOk(defs)
      /\ \A d \in prints : d.section = "blueprints" => Conventions!LookedUp(d.body).indices \subseteq Conventions!Names("indices", defs)
  BY DEF RegistryInv
<1>2. \A section : \A name \in Conventions!Names(section, defs) :
        name \in Conventions!Names(section, defs') /\ Conventions!Body(section, name, defs') = Conventions!Body(section, name, defs)
  BY BodyKept
<1>3. ASSUME NEW b, Conventions!ValidPrint(b), Conventions!LookedUp(b).indices \subseteq Conventions!Names("indices", defs)
      PROVE  Conventions!ValidPrint(b)' /\ (Conventions!LookedUp(b).indices)' \subseteq Conventions!Names("indices", defs')
  <2>1. b.convention \in Conventions!Names("instruments", defs)
    BY <1>3 DEF Conventions!ValidPrint
  <2>2. PICK conv : conv = Conventions!Body("instruments", b.convention, defs)
    OBVIOUS
  <2>3. Conventions!GoodInstrument(conv)
    BY <1>1, <2>1, <2>2, ConventionFound
  <2>4. b.convention \in Conventions!Names("instruments", defs') /\ conv = Conventions!Body("instruments", b.convention, defs')
    BY <1>2, <2>1, <2>2
  <2>5. ASSUME NEW l \in DOMAIN conv.legs, NEW kind, Conventions!Records(kind, conv.legs[l])
        PROVE  Conventions!Records(kind, conv.legs[l])'
    <3>1. CASE conv.legs[l].role = "fixed"
      BY <3>1, <2>5 DEF Conventions!Records, Conventions!DefaultCoupon
    <3>2. CASE conv.legs[l].role # "fixed"
      <4>1. conv.legs[l].role = "float"
        BY <2>3, <3>2, LegsRead
      <4>2. conv.legs[l].index \in Conventions!LookedUp(b).indices
        BY <2>2, <4>1 DEF Conventions!LookedUp
      <4>3. Conventions!Body("indices", conv.legs[l].index, defs') = Conventions!Body("indices", conv.legs[l].index, defs)
        BY <1>2, <1>3, <4>2
      <4> QED BY <4>3, <2>5 DEF Conventions!Records, Conventions!DefaultCoupon
    <3> QED BY <3>1, <3>2
  <2>6. PICK legs : legs = Conventions!LegsOf(b)
    OBVIOUS
  <2>7. legs # <<>> => /\ Conventions!IsSwap(conv) /\ DOMAIN legs = DOMAIN conv.legs
                       /\ \A l \in DOMAIN legs : Conventions!Records(legs[l].coupon, conv.legs[l])
    BY <1>3, <2>2, <2>6 DEF Conventions!ValidPrint
  <2>8. legs # <<>> => \A l \in DOMAIN legs : Conventions!Records(legs[l].coupon, conv.legs[l])'
    BY <2>5, <2>7
  <2>9. Conventions!LegsOf(b)' = legs
    BY <2>6 DEF Conventions!LegsOf, Conventions!Given
  <2>10. Conventions!ValidPrint(b)'
    BY <2>4, <2>7, <2>8, <2>9 DEF Conventions!ValidPrint
  <2>11. (Conventions!LookedUp(b).indices)' = Conventions!LookedUp(b).indices
    BY <2>2, <2>4 DEF Conventions!LookedUp
  <2> QED BY <2>10, <2>11, <1>2, <1>3
<1>4. ASSUME NEW c, Conventions!ValidCurve(c) PROVE Conventions!ValidCurve(c)'
  <2>1. c.index \in Conventions!Names("indices", defs')
    BY <1>2, <1>4 DEF Conventions!ValidCurve
  <2>2. ASSUME NEW e \in Conventions!Range(c.instruments)
        PROVE  /\ e.blueprint \in Conventions!Names("blueprints", prints)
               /\ Conventions!Body("instruments", Conventions!Body("blueprints", e.blueprint, prints).convention, defs').type = "future" <=> Conventions!Given(e, "contracts", 0) > 0
    <3>1. /\ e.blueprint \in Conventions!Names("blueprints", prints)
          /\ Conventions!Body("instruments", Conventions!Body("blueprints", e.blueprint, prints).convention, defs).type = "future" <=> Conventions!Given(e, "contracts", 0) > 0
      BY <1>4 DEF Conventions!ValidCurve
    <3>2. PICK d \in prints : d.section = "blueprints" /\ Conventions!Body("blueprints", e.blueprint, prints) = d.body
      BY <3>1, Found
    <3>3. d.body.convention \in Conventions!Names("instruments", defs)
      BY <1>1, <3>2 DEF Conventions!Resolves, Conventions!ValidPrint
    <3> QED BY <1>2, <3>1, <3>2, <3>3
  <2> QED BY <2>1, <2>2 DEF Conventions!ValidCurve
<1> QED BY <1>1, <1>3, <1>4 DEF Conventions!Resolves

-----------------------------------------------------------------------------
(* Every step keeps that.                                                  *)

LEMMA DocumentsIndexed ==
  ASSUME NEW doc \in Documents \cup Prints PROVE Indexed(<<doc>>)
<1>1. DOMAIN doc \subseteq Nat
  BY MarketAssumption DEF Conventions!RegistryAssumption
<1> QED BY <1>1 DEF Indexed

LEMMA FinalizeResolves ==
  ASSUME NEW ds, ~Conventions!Finalize(ds).thrown
  PROVE  ReferencesOk(ds, Conventions!Finalize(ds).cals)
<1> DEFINE swept == Conventions!Sweeps(ds, [cals |-> Conventions!RuleCalendars(ds), thrown |-> FALSE])
<1>1. Conventions!Finalize(ds).cals = swept.cals
  BY DEF Conventions!Finalize
<1>2. DOMAIN swept.cals = Conventions!Names("calendars", ds) /\ \A d \in ds : Conventions!Refers(d, ds, swept.cals)
  BY DEF Conventions!Finalize
<1> QED BY <1>1, <1>2 DEF ReferencesOk

LEMMA LoadKeeps ==
  ASSUME RegistryInv, NEW docs \in Conventions!Orders, Conventions!Load(docs)
  PROVE  RegistryInv'
<1> DEFINE r == Conventions!AddDocuments({}, docs)
           f == Conventions!Finalize(r.defs)
<1>1. Indexed(docs)
  <2>1. PICK n \in 1..3 : docs \in [1..n -> Documents]
    BY DEF Conventions!Orders
  <2>2. \A k \in 1..n : docs[k] \in Documents
    BY <2>1
  <2>3. \A k \in 1..n : DOMAIN docs[k] \subseteq Nat
    BY <2>2, MarketAssumption DEF Conventions!RegistryAssumption
  <2> QED BY <2>1, <2>3 DEF Indexed
<1>2. DefsOk(r.defs)
  BY <1>1, AddedOk DEF DefsOk
<1>3. verdict = "none" /\ defs = {} /\ ~valid
  <2>1. verdict = "none"
    BY DEF Conventions!Load
  <2>2. defs = {}
    BY <2>1 DEF RegistryInv
  <2>3. ~valid
    BY <2>1 DEF RegistryInv
  <2> QED BY <2>1, <2>2, <2>3
<1>4. valid' = valid /\ prints' = prints /\ DefsOk(prints)
  BY DEF Conventions!Load, RegistryInv
<1>5. CASE r.thrown \/ f.thrown
  <2>1. verdict' = "thrown" /\ defs' = defs
    BY <1>5 DEF Conventions!Load
  <2> QED BY <2>1, <1>3, <1>4 DEF RegistryInv, DefsOk
<1>6. CASE ~(r.thrown \/ f.thrown)
  <2>1. verdict' = "ok" /\ defs' = r.defs /\ calendars' = f.cals
    BY <1>6 DEF Conventions!Load
  <2>2. ReferencesOk(r.defs, f.cals)
    BY <1>6, FinalizeResolves
  <2> QED BY <2>1, <2>2, <1>2, <1>3, <1>4 DEF RegistryInv
<1> QED BY <1>5, <1>6

(* A file only adds: what it stored before it threw stays.                 *)
LEMMA AddFileKeeps ==
  ASSUME RegistryInv, NEW doc \in Documents, Conventions!AddFile(doc)
  PROVE  RegistryInv'
<1> DEFINE r == Conventions!AddDocuments(defs, <<doc>>)
           f == Conventions!Finalize(r.defs)
<1>1. defs \subseteq r.defs /\ DefsOk(r.defs)
  BY DocumentsIndexed, AddedOk DEF RegistryInv
<1>2. /\ defs' = r.defs /\ prints' = prints /\ valid' = valid
      /\ calendars' = IF r.thrown THEN calendars ELSE f.cals
      /\ verdict' = IF r.thrown \/ f.thrown THEN "thrown" ELSE "ok"
  BY DEF Conventions!AddFile
<1>3. verdict' = "ok" => ReferencesOk(defs', calendars')
  BY <1>2, FinalizeResolves
<1>4. verdict' \notin {"none", "idle"}
  BY <1>2
<1>5. valid' => /\ prints' # {} /\ Conventions!Resolves'
                /\ \A d \in prints' : d.section = "blueprints" =>
                     (Conventions!LookedUp(d.body).indices)' \subseteq Conventions!Names("indices", defs')
  BY <1>1, <1>2, ResolvesKept DEF RegistryInv
<1>6. DefsOk(prints')
  BY <1>2 DEF RegistryInv
<1> QED BY <1>1, <1>2, <1>3, <1>4, <1>5, <1>6 DEF RegistryInv

LEMMA SameResolves ==
  ASSUME defs' = defs, prints' = prints
  PROVE  Conventions!Resolves' <=> Conventions!Resolves
<1>1. \A b : Conventions!ValidPrint(b)' <=> Conventions!ValidPrint(b)
  <2>1. \A kind, leg : Conventions!Records(kind, leg)' <=> Conventions!Records(kind, leg)
    BY DEF Conventions!Records, Conventions!DefaultCoupon
  <2> QED BY <2>1 DEF Conventions!ValidPrint
<1>2. \A c : Conventions!ValidCurve(c)' <=> Conventions!ValidCurve(c)
  BY DEF Conventions!ValidCurve
<1> QED BY <1>1, <1>2 DEF Conventions!Resolves

LEMMA ValidateKeeps ==
  ASSUME RegistryInv, Conventions!Validate
  PROVE  RegistryInv'
<1>1. /\ verdict = "ok" /\ prints # {} /\ valid' = Conventions!Resolves
      /\ verdict' = verdict /\ defs' = defs /\ prints' = prints /\ calendars' = calendars
  BY DEF Conventions!Validate
<1>2. DefsOk(defs) /\ ReferencesOk(defs, calendars)
  BY <1>1 DEF RegistryInv
<1>3. valid' => Conventions!Resolves'
  BY <1>1, SameResolves
<1>4. ASSUME valid', NEW d \in prints, d.section = "blueprints"
      PROVE  Conventions!LookedUp(d.body).indices \subseteq Conventions!Names("indices", defs)
  <2>1. d.body.convention \in Conventions!Names("instruments", defs)
    BY <1>1, <1>4 DEF Conventions!Resolves, Conventions!ValidPrint
  <2> QED BY <2>1, <1>2, NamesFound
<1>5. \A d \in prints : (Conventions!LookedUp(d.body).indices)' = Conventions!LookedUp(d.body).indices
  BY <1>1 DEF Conventions!LookedUp
<1> QED BY <1>1, <1>2, <1>3, <1>4, <1>5 DEF RegistryInv

LEMMA AddPrintsKeeps ==
  ASSUME RegistryInv, NEW doc \in Prints, Conventions!AddPrints(doc)
  PROVE  RegistryInv'
<1>1. /\ verdict = "ok" /\ prints = {}
      /\ defs' = defs /\ calendars' = calendars /\ verdict' = verdict /\ valid' = valid
  BY DEF Conventions!AddPrints
<1>2. ~valid /\ DefsOk(defs) /\ ReferencesOk(defs, calendars)
  BY <1>1 DEF RegistryInv
<1>3. DefsOk(prints')
  <2>1. DefsOk({})
    BY DEF DefsOk
  <2>2. prints' = Conventions!AddDocuments({}, <<doc>>).defs
    BY DEF Conventions!AddPrints
  <2> QED BY <2>1, <2>2, DocumentsIndexed, AddedOk
<1> QED BY <1>1, <1>2, <1>3 DEF RegistryInv

LEMMA RegistryStep ==
  ASSUME RegistryInv, [Next]_vars
  PROVE  RegistryInv'
<1>1. CASE verdict # "idle" /\ Conventions!Next
  BY <1>1, LoadKeeps, AddFileKeeps, AddPrintsKeeps, ValidateKeeps DEF Conventions!Next
<1>2. CASE UNCHANGED registryVars
  <2>1. defs' = defs /\ calendars' = calendars /\ verdict' = verdict /\ prints' = prints /\ valid' = valid
    BY <1>2 DEF registryVars
  <2>2. Conventions!Resolves => Conventions!Resolves'
    BY <2>1, SameResolves
  <2>3. \A d \in prints : (Conventions!LookedUp(d.body).indices)' = Conventions!LookedUp(d.body).indices
    BY <2>1 DEF Conventions!LookedUp
  <2> QED BY <2>1, <2>2, <2>3 DEF RegistryInv
<1> QED BY <1>1, <1>2 DEF Next, vars

LEMMA RegistryStart == Init => RegistryInv
<1>1. Init => defs = {} /\ verdict \in {"none", "idle"} /\ ~valid /\ prints = {}
  BY DEF Init, Conventions!Init, NoRegistry
<1> QED BY <1>1 DEF RegistryInv, DefsOk

LEMMA RegistryNames == RegistryInv => Conventions!NamesResolve
<1> SUFFICES ASSUME RegistryInv, verdict = "ok" 
             PROVE  /\ DOMAIN calendars = Conventions!Names("calendars", defs)
                    /\ valid => /\ Conventions!Resolves
                                /\ \A d \in prints : d.section = "blueprints" =>
                                     /\ Conventions!LookedUp(d.body).indices \subseteq Conventions!Names("indices", defs)
                                     /\ Conventions!LookedUp(d.body).calendars \subseteq DOMAIN calendars
  BY DEF Conventions!NamesResolve
<1>1. DefsOk(defs) /\ ReferencesOk(defs, calendars) /\ (valid => Conventions!Resolves)
  BY DEF RegistryInv
<1>2. ASSUME valid, NEW d \in prints, d.section = "blueprints"
      PROVE  /\ Conventions!LookedUp(d.body).indices \subseteq Conventions!Names("indices", defs)
             /\ Conventions!LookedUp(d.body).calendars \subseteq DOMAIN calendars
  <2>1. d.body.convention \in Conventions!Names("instruments", defs)
    BY <1>1, <1>2 DEF Conventions!Resolves, Conventions!ValidPrint
  <2> QED BY <2>1, <1>1, NamesFound
<1> QED BY <1>1, <1>2 DEF ReferencesOk

(* The legs of a blueprint that has observation days are of an overnight   *)
(* index.                                                                  *)
LEMMA ObservesOvernight ==
  ASSUME DefsOk(defs), DefsOk(prints), ReferencesOk(defs, calendars),
         NEW d \in prints, d.section = "blueprints", Conventions!ValidPrint(d.body),
         NEW l \in DOMAIN Conventions!LegsOf(d.body),
         "observation" \in DOMAIN Conventions!LegsOf(d.body)[l],
         NEW conv, conv = Conventions!Body("instruments", d.body.convention, defs)
  PROVE  conv.legs[l].role = "float" /\ Conventions!Body("indices", conv.legs[l].index, defs).type = "overnight"
<1>1. PICK legs, coupon : legs = Conventions!LegsOf(d.body) /\ coupon = legs[l].coupon
  OBVIOUS
<1>2. Conventions!IsRfr(coupon)
  <2>1. Conventions!WellFormed(d)
    BY DEF DefsOk
  <2>2. Conventions!GoodPrint(d.body)
    BY <2>1 DEF Conventions!WellFormed
  <2>3. Conventions!GoodLegPrint(legs[l])
    BY <1>1, <2>2 DEF Conventions!GoodPrint
  <2> QED BY <1>1, <2>3 DEF Conventions!GoodLegPrint
<1>3. legs # <<>>
  <2>1. DOMAIN <<>> = {}
    OBVIOUS
  <2> QED BY <1>1, <2>1
<1>4. l \in DOMAIN conv.legs /\ Conventions!Records(coupon, conv.legs[l])
  BY <1>1, <1>3 DEF Conventions!ValidPrint
<1>5. PICK e \in defs : /\ e.section = "instruments" /\ conv = e.body /\ Conventions!GoodInstrument(e.body)
  <2>1. d.body.convention \in Conventions!Names("instruments", defs)
    BY DEF Conventions!ValidPrint
  <2> QED BY <2>1, ConventionFound
<1>6. PICK leg : leg = conv.legs[l]
  OBVIOUS
<1>7. Conventions!IsRfr(Conventions!DefaultCoupon(leg))
  BY <1>2, <1>4, <1>6 DEF Conventions!Records
<1>8. leg.role # "fixed" /\ Conventions!Body("indices", leg.index, defs).type # "term"
  BY <1>7 DEF Conventions!DefaultCoupon, Conventions!IsRfr
<1>9. leg.role = "float"
  BY <1>4, <1>5, <1>6, <1>8, LegsRead
<1>10. leg.index \in Conventions!Names("indices", defs)
  <2>1. Conventions!Refers(e, defs, calendars)
    BY DEF ReferencesOk
  <2>2. Conventions!LegRefers(leg, defs, calendars)
    BY <1>4, <1>5, <1>6, <2>1 DEF Conventions!Refers
  <2> QED BY <1>9, <2>2 DEF Conventions!LegRefers
<1>11. PICK x \in defs : x.section = "indices" /\ Conventions!Body("indices", leg.index, defs) = x.body
  BY <1>10, Found
<1>12. Conventions!GoodIndex(x.body)
  <2>1. Conventions!WellFormed(x)
    BY DEF DefsOk
  <2> QED BY <1>11, <2>1 DEF Conventions!WellFormed
<1> QED BY <1>6, <1>8, <1>9, <1>11, <1>12 DEF Conventions!GoodIndex

(* An entry of a curve asks for an instrument or more, by contract or by   *)
(* tenor as the convention says.                                           *)
LEMMA EntryTrades ==
  ASSUME DefsOk(prints), NEW d \in prints, d.section = "curves", Conventions!ValidCurve(d.body),
         NEW e \in Conventions!Range(d.body.instruments),
         NEW conv, conv = Conventions!Body("instruments", Conventions!Body("blueprints", e.blueprint, prints).convention, defs)
  PROVE  /\ Conventions!TradesOf(e) # <<>>
         /\ \A t \in Conventions!Range(Conventions!TradesOf(e)) :
              t[1] = IF conv.type = "future" THEN "contract" ELSE "tenor"
<1>1. conv.type = "future" <=> Conventions!Given(e, "contracts", 0) > 0
  BY DEF Conventions!ValidCurve
<1>2. Conventions!GoodEntry(e)
  <2>1. Conventions!WellFormed(d)
    BY DEF DefsOk
  <2>2. Conventions!GoodCurve(d.body)
    BY <2>1 DEF Conventions!WellFormed
  <2> QED BY <2>2 DEF Conventions!GoodCurve, Conventions!Range
<1>3. DOMAIN <<>> = {}
  OBVIOUS
<1>4. CASE "contracts" \in DOMAIN e
  <2>1. e.contracts \in Nat \ {0} /\ conv.type = "future"
    BY <1>1, <1>2, <1>4 DEF Conventions!GoodEntry, Conventions!Given
  <2>2. Conventions!TradesOf(e) = [n \in 1 .. e.contracts |-> <<"contract", n>>]
    BY <1>4 DEF Conventions!TradesOf
  <2>3. 1 \in DOMAIN Conventions!TradesOf(e)
    BY <2>1, <2>2
  <2>4. \A t \in Conventions!Range(Conventions!TradesOf(e)) : t[1] = "contract"
    BY <2>2 DEF Conventions!Range
  <2> QED BY <1>3, <2>1, <2>3, <2>4
<1>5. CASE "contracts" \notin DOMAIN e
  <2>1. conv.type # "future"
    BY <1>1, <1>5 DEF Conventions!Given
  <2>2. PICK tenors : tenors = Conventions!Given(e, "tenors", <<Conventions!Given(e, "tenor", "")>>)
    OBVIOUS
  <2>3. DOMAIN tenors # {}
    <3>1. CASE "tenors" \in DOMAIN e
      BY <1>2, <2>2, <3>1 DEF Conventions!GoodEntry, Conventions!Given
    <3>2. CASE "tenors" \notin DOMAIN e
      <4>1. PICK only : only = Conventions!Given(e, "tenor", "")
        OBVIOUS
      <4>2. tenors = <<only>>
        BY <2>2, <3>2, <4>1, Zenon DEF Conventions!Given
      <4>3. 1 \in DOMAIN <<only>>
        OBVIOUS
      <4> QED BY <4>2, <4>3
    <3> QED BY <3>1, <3>2
  <2>4. Conventions!TradesOf(e) = [n \in DOMAIN tenors |-> <<"tenor", tenors[n]>>]
    BY <1>5, <2>2 DEF Conventions!TradesOf
  <2>5. \A t \in Conventions!Range(Conventions!TradesOf(e)) : t[1] = "tenor"
    BY <2>4 DEF Conventions!Range
  <2>6. DOMAIN Conventions!TradesOf(e) = DOMAIN tenors
    BY <2>4
  <2> QED BY <1>3, <2>1, <2>3, <2>5, <2>6
<1> QED BY <1>4, <1>5

LEMMA PrintsTrade == RegistryInv => Conventions!PrintsMakeTrades
<1> SUFFICES ASSUME RegistryInv, verdict = "ok", valid PROVE Conventions!PrintsMakeTrades
  BY DEF Conventions!PrintsMakeTrades
<1>1. DefsOk(defs) /\ DefsOk(prints) /\ ReferencesOk(defs, calendars) /\ Conventions!Resolves
  BY DEF RegistryInv
<1>2. ASSUME NEW d \in prints, d.section = "blueprints",
             NEW l \in DOMAIN Conventions!LegsOf(d.body), "observation" \in DOMAIN Conventions!LegsOf(d.body)[l]
      PROVE  /\ Conventions!Body("instruments", d.body.convention, defs).legs[l].role = "float"
             /\ Conventions!Body("indices", Conventions!Body("instruments", d.body.convention, defs).legs[l].index, defs).type
                  = "overnight"
  <2>1. Conventions!ValidPrint(d.body)
    BY <1>1, <1>2 DEF Conventions!Resolves
  <2> QED BY <1>1, <1>2, <2>1, ObservesOvernight
<1>3. ASSUME NEW d \in prints, d.section = "curves", NEW e \in Conventions!Range(d.body.instruments),
             NEW conv, conv = Conventions!Body("instruments", Conventions!Body("blueprints", e.blueprint, prints).convention, defs)
      PROVE  /\ Conventions!TradesOf(e) # <<>>
             /\ \A t \in Conventions!Range(Conventions!TradesOf(e)) :
                  t[1] = IF conv.type = "future" THEN "contract" ELSE "tenor"
  <2>1. Conventions!ValidCurve(d.body)
    BY <1>1, <1>3 DEF Conventions!Resolves
  <2> QED BY <1>1, <1>3, <2>1, EntryTrades
<1> QED BY <1>2, <1>3 DEF Conventions!PrintsMakeTrades

(* A registry that accepted its last file has every calendar it defines,   *)
(* and blueprints it once accepted still name nothing that is not there,   *)
(* and still make trades, by contract or by tenor as their conventions ask *)
(* and with observation days only of overnight indices, whatever was added,*)
(* or refused half way, since: files only add, so that what a name was     *)
(* found to mean is what it still means.                                   *)
THEOREM NamesAlwaysResolve == Spec => [](Conventions!NamesResolve /\ Conventions!PrintsMakeTrades)
<1>1. RegistryInv /\ UNCHANGED vars => RegistryInv'
  BY RegistryStep
<1>2. RegistryInv => Conventions!NamesResolve /\ Conventions!PrintsMakeTrades
  BY RegistryNames, PrintsTrade
<1> QED BY RegistryStart, RegistryStep, <1>2, PTL DEF Spec

-----------------------------------------------------------------------------
(* The regions of a curve.                                                 *)

LEMMA LeastNumber ==
  ASSUME NEW S \in SUBSET Nat, S # {}
  PROVE  \E x \in S : \A y \in S : x <= y
<1> DEFINE less == {ss \in Nat \X Nat : ss[1] < ss[2]}
<1>1. IsWellFoundedOn(less, Nat)
  BY NatLessThanWellFounded DEF OpToRel
<1>2. \A x, y \in Nat : y < x => <<y, x>> \in less
  OBVIOUS
<1> HIDE DEF less
<1>3. PICK x \in S : \A y \in S : ~ (<<y, x>> \in less)
  BY <1>1, WFMin
<1>4. ASSUME NEW y \in S PROVE x <= y
  <2>1. x \in Nat /\ y \in Nat /\ ~(y < x)
    BY <1>2, <1>3
  <2> QED BY <2>1
<1> QED BY <1>4

(* What rises from one place to the next rises over any distance.          *)
LEMMA Ascending ==
  ASSUME NEW n \in Nat, NEW f, \A x \in 1 .. n : f[x] \in Int,
         \A x \in 1 .. n - 1 : f[x] < f[x + 1],
         NEW x \in 1 .. n, NEW y \in 1 .. n, x < y
  PROVE  f[x] < f[y]
<1> DEFINE S == {z \in 1 .. n : x < z /\ ~(f[x] < f[z])}
<1> SUFFICES ASSUME S # {} PROVE FALSE
  OBVIOUS
<1>1. PICK z \in S : \A w \in S : z <= w
  <2>1. S \in SUBSET Nat
    OBVIOUS
  <2> HIDE DEF S
  <2> QED BY <2>1, LeastNumber
<1>2. z \in 1 .. n /\ x < z /\ ~(f[x] < f[z]) /\ z - 1 \in 1 .. n - 1 /\ z - 1 + 1 = z
  OBVIOUS
<1>3. f[z - 1] < f[z]
  BY <1>2
<1>4. z - 1 # x
  BY <1>2, <1>3
<1>5. z - 1 \notin S
  BY <1>1, <1>2
<1>6. f[x] < f[z - 1]
  BY <1>2, <1>4, <1>5
<1>7. f[x] \in Int /\ f[z - 1] \in Int /\ f[z] \in Int
  BY <1>2
<1> QED BY <1>2, <1>3, <1>6, <1>7

LEMMA CardinalityOfCurves == \A S : Interpolation!Cardinality(S) = Cardinality(S)
BY DEF Cardinality, Interpolation!Cardinality

(* The places before some place.                                           *)
LEMMA PlacesBefore ==
  ASSUME NEW n \in Nat, NEW S \in SUBSET (1 .. n), \A x \in S : \A y \in 1 .. n : y < x => y \in S
  PROVE  \E m \in 0 .. n : S = 1 .. m /\ Interpolation!Cardinality(S) = m
<1> DEFINE T == {x \in 1 .. n + 1 : x \notin S}
<1>1. n + 1 \in T /\ T \in SUBSET Nat
  OBVIOUS
<1>2. PICK x \in T : \A y \in T : x <= y
  BY <1>1, LeastNumber
<1>3. x \in 1 .. n + 1 /\ x \notin S /\ x - 1 \in 0 .. n
  OBVIOUS
<1>4. S = 1 .. x - 1
  <2>1. ASSUME NEW y \in 1 .. x - 1 PROVE y \in S
    <3>1. y \in 1 .. n + 1 /\ ~(x <= y)
      BY <1>3
    <3> QED BY <1>2, <3>1
  <2>2. ASSUME NEW y \in S PROVE y \in 1 .. x - 1
    <3>1. y \in 1 .. n /\ y # x
      BY <1>3
    <3>2. ~(x < y)
      <4>1. x \in 1 .. n \/ ~(x < y)
        BY <1>3, <3>1
      <4> QED BY <1>3, <4>1
    <3> QED BY <1>3, <3>1, <3>2
  <2> QED BY <2>1, <2>2
<1>5. Cardinality(1 .. x - 1) = x - 1
  BY <1>3, FS_Interval
<1> QED BY <1>3, <1>4, <1>5, CardinalityOfCurves

(* What an accepted definition says of its knots and its regions.          *)
Accepted == definition \in Definitions /\ Interpolation!Acceptable(definition)

LEMMA KnotsRise ==
  ASSUME Accepted
  PROVE  /\ Interpolation!KnotTimes \in Seq(Int) /\ Len(Interpolation!KnotTimes) \in Nat \ {0}
         /\ DOMAIN Interpolation!KnotTimes = 1 .. Len(Interpolation!KnotTimes)
         /\ \A x \in DOMAIN Interpolation!KnotTimes :
              /\ Interpolation!KnotTimes[x] \in Int /\ Interpolation!KnotTimes[x] >= 0
              /\ Interpolation!KnotTimes[x] < Infinity
         /\ \A x, y \in DOMAIN Interpolation!KnotTimes : x < y => Interpolation!KnotTimes[x] < Interpolation!KnotTimes[y]
<1>1. PICK K : K = definition.knots
  OBVIOUS
<1>2. K \in Seq(Int) /\ (\A x \in DOMAIN K : K[x] < Infinity) /\ K # <<>>
  BY <1>1, SchemesAssumption DEF Accepted, Interpolation!CurvesAssumption, Interpolation!Acceptable
<1>3. \A x \in DOMAIN K : K[x] >= 0 /\ (x > 1 => K[x] > K[x - 1])
  BY <1>1 DEF Accepted, Interpolation!Acceptable
<1>4. PICK n : n = Len(K)
  OBVIOUS
<1>5. n \in Nat \ {0} /\ DOMAIN K = 1 .. n /\ \A x \in 1 .. n : K[x] \in Int
  BY <1>2, <1>4, EmptySeq
<1>6. ASSUME NEW x \in 1 .. n - 1 PROVE K[x] < K[x + 1]
  <2>1. x + 1 \in DOMAIN K /\ x + 1 > 1 /\ x + 1 - 1 = x /\ x \in 1 .. n
    BY <1>5
  <2>2. K[x + 1] > K[x]
    BY <1>3, <2>1
  <2> QED BY <1>5, <2>1, <2>2
<1>7. \A x, y \in 1 .. n : x < y => K[x] < K[y]
  BY <1>5, <1>6, Ascending
<1> QED BY <1>1, <1>2, <1>3, <1>4, <1>5, <1>7 DEF Interpolation!KnotTimes

LEMMA RegionsRise ==
  ASSUME Accepted
  PROVE  /\ Len(Interpolation!Specs) \in Nat \ {0} /\ DOMAIN Interpolation!Specs = 1 .. Len(Interpolation!Specs)
         /\ Interpolation!Ta(1) = 0 /\ Interpolation!Tb(Len(Interpolation!Specs)) = Infinity /\ Infinity \in Nat
         /\ \A r \in DOMAIN Interpolation!Specs :
              /\ Interpolation!Ta(r) \in Int /\ Interpolation!Tb(r) \in Int /\ Interpolation!Ta(r) < Interpolation!Tb(r)
              /\ Interpolation!Owned(definition, r) # {}
         /\ \A q, r \in DOMAIN Interpolation!Specs : q < r => /\ Interpolation!Tb(q) <= Interpolation!Ta(r)
                                                              /\ Interpolation!Ta(q) < Interpolation!Ta(r)
         /\ \A r \in DOMAIN Interpolation!Specs \ {1} : /\ r - 1 \in DOMAIN Interpolation!Specs
                                                        /\ Interpolation!Tb(r - 1) = Interpolation!Ta(r)
<1>1. PICK S : S = definition.regions
  OBVIOUS
<1>2. S \in Seq([ta : Int, tb : Int, scheme : STRING, variable : STRING]) /\ Infinity \in Nat /\ S # <<>>
  BY <1>1, SchemesAssumption DEF Accepted, Interpolation!CurvesAssumption, Interpolation!Acceptable
<1>3. PICK n : n = Len(S)
  OBVIOUS
<1>4. n \in Nat \ {0} /\ DOMAIN S = 1 .. n /\ \A r \in 1 .. n : S[r].ta \in Int /\ S[r].tb \in Int
  <2>1. PICK region : region = [ta : Int, tb : Int, scheme : STRING, variable : STRING]
    OBVIOUS
  <2>2. S \in Seq(region)
    BY <1>2, <2>1
  <2>3. n \in Nat /\ DOMAIN S = 1 .. n /\ \A r \in 1 .. n : S[r] \in region
    BY <1>3, <2>2
  <2>4. n # 0
    BY <1>2, <1>3, <2>2, EmptySeq
  <2>5. \A x \in region : x.ta \in Int /\ x.tb \in Int
    BY <2>1
  <2> QED BY <2>3, <2>4, <2>5
<1>5. /\ S[1].ta = 0
      /\ \A r \in 1 .. n : /\ S[r].ta < Interpolation!Final_t(definition, r)
                           /\ r < n => S[r + 1].ta = S[r].tb
                           /\ Interpolation!Owned(definition, r) # {}
  BY <1>1, <1>3, <1>4 DEF Accepted, Interpolation!Acceptable
<1>6. \A r \in 1 .. n : Interpolation!Ta(r) = S[r].ta /\ Interpolation!Tb(r) = IF r = n THEN Infinity ELSE S[r].tb
  BY <1>1, <1>3 DEF Interpolation!Ta, Interpolation!Tb, Interpolation!Specs, Interpolation!Final_t
<1>7. \A r \in 1 .. n : /\ Interpolation!Ta(r) \in Int /\ Interpolation!Tb(r) \in Int
                        /\ Interpolation!Ta(r) < Interpolation!Tb(r)
  BY <1>2, <1>4, <1>5, <1>6 DEF Interpolation!Tb
<1>8. ASSUME NEW r \in 1 .. n - 1
      PROVE  /\ Interpolation!Tb(r) = Interpolation!Ta(r + 1) /\ Interpolation!Ta(r) < Interpolation!Ta(r + 1)
             /\ r + 1 \in 1 .. n /\ r \in 1 .. n
  <2>1. r \in 1 .. n /\ r + 1 \in 1 .. n /\ r # n /\ r < n
    BY <1>4
  <2>2. Interpolation!Tb(r) = Interpolation!Ta(r + 1)
    BY <1>5, <1>6, <2>1
  <2> QED BY <1>7, <2>1, <2>2
<1>9. ASSUME NEW q \in 1 .. n, NEW r \in 1 .. n, q < r
      PROVE  Interpolation!Ta(q) < Interpolation!Ta(r)
  <2> DEFINE f == [x \in 1 .. n |-> Interpolation!Ta(x)]
  <2>1. \A x \in 1 .. n : f[x] = Interpolation!Ta(x) /\ f[x] \in Int
    BY <1>7
  <2>2. \A x \in 1 .. n - 1 : f[x] < f[x + 1]
    BY <1>8, <2>1
  <2> HIDE DEF f
  <2>3. f[q] < f[r]
    BY <1>4, <1>9, <2>1, <2>2, Ascending
  <2> QED BY <2>1, <2>3
<1>10. ASSUME NEW q \in 1 .. n, NEW r \in 1 .. n, q < r
       PROVE  Interpolation!Tb(q) <= Interpolation!Ta(r)
  <2>1. q \in 1 .. n - 1 /\ q + 1 \in 1 .. n /\ (q + 1 = r \/ q + 1 < r)
    BY <1>4, <1>10
  <2>2. Interpolation!Tb(q) = Interpolation!Ta(q + 1)
    BY <1>8, <2>1
  <2>3. CASE q + 1 = r
    BY <1>7, <2>2, <2>3
  <2>4. CASE q + 1 < r
    <3>1. Interpolation!Ta(q + 1) < Interpolation!Ta(r)
      BY <1>9, <2>1, <2>4
    <3> QED BY <1>7, <2>1, <2>2, <3>1
  <2> QED BY <2>1, <2>3, <2>4
<1>11. ASSUME NEW r \in 1 .. n, r # 1 PROVE r - 1 \in 1 .. n /\ Interpolation!Tb(r - 1) = Interpolation!Ta(r)
  <2>1. r - 1 \in 1 .. n - 1 /\ r - 1 + 1 = r
    BY <1>4, <1>11
  <2> QED BY <1>8, <2>1
<1>12. Interpolation!Ta(1) = 0 /\ Interpolation!Tb(n) = Infinity
  BY <1>4, <1>5, <1>6
<1>13. Interpolation!Specs = S
  BY <1>1 DEF Interpolation!Specs
<1> QED BY <1>2, <1>3, <1>4, <1>5, <1>7, <1>9, <1>10, <1>11, <1>12, <1>13

(* The knots of a region are those from its first, as many as it counts.   *)
LEMMA KnotsBeforeTime ==
  ASSUME Accepted, NEW x \in Int
  PROVE  \E m \in 0 .. Len(Interpolation!KnotTimes) :
           /\ {k \in DOMAIN Interpolation!KnotTimes : Interpolation!KnotTimes[k] < x} = 1 .. m
           /\ Interpolation!Cardinality({k \in DOMAIN Interpolation!KnotTimes : Interpolation!KnotTimes[k] < x}) = m
<1>1. PICK K : K = Interpolation!KnotTimes
  OBVIOUS
<1>2. PICK n : n = Len(K)
  OBVIOUS
<1>3. /\ n \in Nat /\ DOMAIN K = 1 .. n /\ \A k \in 1 .. n : K[k] \in Int
      /\ \A k, l \in 1 .. n : k < l => K[k] < K[l]
  BY <1>1, <1>2, KnotsRise
<1>4. PICK S : S = {k \in 1 .. n : K[k] < x}
  OBVIOUS
<1>5. ASSUME NEW k \in S, NEW l \in 1 .. n, l < k PROVE l \in S
  <2>1. k \in 1 .. n /\ K[k] < x
    BY <1>4
  <2>2. K[l] < K[k]
    BY <1>3, <1>5, <2>1
  <2> QED BY <1>3, <1>4, <2>1, <2>2
<1>6. S \in SUBSET (1 .. n)
  BY <1>4
<1>7. \E m \in 0 .. n : S = 1 .. m /\ Interpolation!Cardinality(S) = m
  BY <1>3, <1>5, <1>6, PlacesBefore
<1> QED BY <1>1, <1>2, <1>3, <1>4, <1>7

LEMMA OwnedAre ==
  ASSUME Accepted, NEW r \in DOMAIN Interpolation!Specs
  PROVE  /\ Interpolation!FirstKnot(r) \in DOMAIN Interpolation!KnotTimes /\ Interpolation!Count(r) \in Nat \ {0}
         /\ Interpolation!FirstKnot(r) + Interpolation!Count(r) - 1 \in DOMAIN Interpolation!KnotTimes
         /\ \A k \in DOMAIN Interpolation!KnotTimes :
              /\ Interpolation!Ta(r) <= Interpolation!KnotTimes[k]
              /\ Interpolation!KnotTimes[k] < Interpolation!Tb(r)
              <=> k \in Interpolation!FirstKnot(r) .. Interpolation!FirstKnot(r) + Interpolation!Count(r) - 1
<1>1. PICK K, n, ta, tb : K = Interpolation!KnotTimes /\ n = Len(K) /\ ta = Interpolation!Ta(r) /\ tb = Interpolation!Tb(r)
  OBVIOUS
<1>2. n \in Nat /\ DOMAIN K = 1 .. n /\ \A k \in 1 .. n : K[k] \in Int
  BY <1>1, KnotsRise
<1>3. ta \in Int /\ tb \in Int /\ ta < tb
  BY <1>1, RegionsRise
<1>4. PICK a \in 0 .. n : {k \in DOMAIN K : K[k] < ta} = 1 .. a /\ Interpolation!Cardinality({k \in DOMAIN K : K[k] < ta}) = a
  BY <1>1, <1>3, KnotsBeforeTime
<1>5. PICK b \in 0 .. n : {k \in DOMAIN K : K[k] < tb} = 1 .. b /\ Interpolation!Cardinality({k \in DOMAIN K : K[k] < tb}) = b
  BY <1>1, <1>3, KnotsBeforeTime
<1>6. Interpolation!FirstKnot(r) = a + 1
  BY <1>1, <1>4 DEF Interpolation!FirstKnot
<1>7. PICK O : O = Interpolation!Owned(definition, r)
  OBVIOUS
<1>8. O = {k \in DOMAIN K : ta <= K[k] /\ K[k] < tb} /\ O # {}
  <2>1. O # {}
    BY <1>7, RegionsRise
  <2> QED BY <1>1, <1>7, <2>1 DEF Interpolation!Owned, Interpolation!Ta, Interpolation!Tb, Interpolation!Specs, Interpolation!KnotTimes
<1>9. \A k \in 1 .. n : (K[k] < ta <=> k \in 1 .. a) /\ (K[k] < tb <=> k \in 1 .. b)
  <2>1. \A k : (k \in {j \in DOMAIN K : K[j] < ta} <=> k \in 1 .. a) /\ (k \in {j \in DOMAIN K : K[j] < tb} <=> k \in 1 .. b)
    BY <1>4, <1>5
  <2> QED BY <1>2, <2>1
<1>10. O = a + 1 .. b
  <2>1. ASSUME NEW k \in O PROVE k \in a + 1 .. b
    <3>1. k \in 1 .. n /\ ~(K[k] < ta) /\ K[k] < tb
      BY <1>2, <1>3, <1>8
    <3>2. k \notin 1 .. a /\ k \in 1 .. b
      BY <1>9, <3>1
    <3> QED BY <3>2
  <2>2. ASSUME NEW k \in a + 1 .. b PROVE k \in O
    <3>1. k \in 1 .. n /\ k \notin 1 .. a /\ k \in 1 .. b
      BY <1>2, <1>4, <1>5
    <3>2. ~(K[k] < ta) /\ K[k] < tb
      BY <1>9, <3>1
    <3> QED BY <1>2, <1>3, <1>8, <3>1, <3>2
  <2> QED BY <2>1, <2>2
<1>11. a < b
  BY <1>8, <1>10
<1>12. Interpolation!Count(r) = b - a
  <2>1. Cardinality(a + 1 .. b) = b - a
    BY <1>11, FS_Interval
  <2>2. Interpolation!Cardinality(O) = b - a
    BY <1>10, <2>1, CardinalityOfCurves
  <2> QED BY <1>7, <2>2 DEF Interpolation!Count
<1>13. Interpolation!FirstKnot(r) + Interpolation!Count(r) - 1 = b
  BY <1>6, <1>12
<1>14. ASSUME NEW k \in 1 .. n PROVE (ta <= K[k] /\ K[k] < tb) <=> k \in a + 1 .. b
  <2>1. k \in O <=> (ta <= K[k] /\ K[k] < tb)
    BY <1>2, <1>8
  <2> QED BY <1>10, <2>1
<1>15. a + 1 \in 1 .. n /\ b \in 1 .. n /\ b - a \in Nat \ {0}
  BY <1>2, <1>4, <1>5, <1>11
<1> QED BY <1>1, <1>2, <1>6, <1>12, <1>13, <1>14, <1>15

(* A time within a region is priced by it.                                 *)
LEMMA RegionOfTime ==
  ASSUME Accepted, NEW r \in DOMAIN Interpolation!Specs, NEW x \in Int,
         Interpolation!Ta(r) <= x, x < Interpolation!Tb(r)
  PROVE  Interpolation!RegionOf(x) = r
<1>1. PICK n : n = Len(Interpolation!Specs)
  OBVIOUS
<1>2. n \in Nat /\ DOMAIN Interpolation!Specs = 1 .. n
  BY <1>1, RegionsRise
<1> DEFINE here(s) == x < Interpolation!Tb(s) /\ \A q \in 1 .. s - 1 : x >= Interpolation!Tb(q)
<1>3. here(r)
  <2>1. ASSUME NEW q \in 1 .. r - 1 PROVE x >= Interpolation!Tb(q)
    <3>1. q \in 1 .. n /\ q < r /\ r \in 1 .. n
      BY <1>2
    <3>2. Interpolation!Tb(q) <= Interpolation!Ta(r) /\ Interpolation!Tb(q) \in Int /\ Interpolation!Ta(r) \in Int
      BY <1>2, <3>1, RegionsRise
    <3> QED BY <3>2
  <2> QED BY <2>1
<1>4. ASSUME NEW s \in DOMAIN Interpolation!Specs, here(s) PROVE s = r
  <2>1. r \in 1 .. n /\ s \in 1 .. n
    BY <1>2
  <2>2. Interpolation!Tb(r) \in Int /\ Interpolation!Tb(s) \in Int
    BY RegionsRise
  <2>3. ASSUME r < s PROVE FALSE
    <3>1. r \in 1 .. s - 1
      BY <2>1, <2>3
    <3> QED BY <1>4, <2>2, <3>1
  <2>4. ASSUME s < r PROVE FALSE
    <3>1. s \in 1 .. r - 1
      BY <2>1, <2>4
    <3> QED BY <1>3, <1>4, <2>2, <3>1
  <2> QED BY <2>1, <2>3, <2>4
<1>5. Interpolation!RegionOf(x) = CHOOSE s \in DOMAIN Interpolation!Specs : here(s)
  BY DEF Interpolation!RegionOf
<1> HIDE DEF here
<1> QED BY <1>3, <1>4, <1>5

(* A time has a region.                                                    *)
LEMMA SomeRegion ==
  ASSUME Accepted, NEW x \in Nat, x < Infinity
  PROVE  \E r \in DOMAIN Interpolation!Specs : Interpolation!Ta(r) <= x /\ x < Interpolation!Tb(r)
<1>1. PICK n : n = Len(Interpolation!Specs)
  OBVIOUS
<1>2. n \in Nat \ {0} /\ DOMAIN Interpolation!Specs = 1 .. n
  BY <1>1, RegionsRise
<1>3. PICK S : S = {r \in 1 .. n : x < Interpolation!Tb(r)}
  OBVIOUS
<1>4. n \in S /\ S \in SUBSET Nat
  BY <1>1, <1>2, <1>3, RegionsRise
<1>5. PICK r \in S : \A q \in S : r <= q
  BY <1>4, LeastNumber
<1>6. r \in 1 .. n /\ x < Interpolation!Tb(r)
  BY <1>3
<1>7. CASE r = 1
  BY <1>2, <1>6, <1>7, RegionsRise
<1>8. CASE r # 1
  <2>1. r - 1 \in 1 .. n /\ Interpolation!Tb(r - 1) = Interpolation!Ta(r)
    BY <1>2, <1>6, <1>8, RegionsRise
  <2>2. r - 1 \notin S
    BY <1>5, <1>6
  <2>3. ~(x < Interpolation!Tb(r - 1)) /\ Interpolation!Tb(r - 1) \in Int
    BY <1>2, <1>3, <2>1, <2>2, RegionsRise
  <2> QED BY <1>2, <1>6, <2>1, <2>3
<1> QED BY <1>7, <1>8

(* The grid of a region rises, from its start to its end.                  *)
Rising(s, lo, hi) ==
  /\ s \in Seq(Int) /\ DOMAIN s = 1 .. Len(s) /\ Len(s) \in Nat
  /\ \A k \in 1 .. Len(s) : s[k] \in Int /\ lo <= s[k] /\ s[k] <= hi
  /\ \A k \in 1 .. Len(s) - 1 : s[k] < s[k + 1]
Joined(s, t) == s \o t

LEMMA RisingJoined ==
  ASSUME NEW s, NEW t, NEW lo \in Int, NEW x \in Int, NEW y \in Int, NEW hi \in Int,
         Rising(s, lo, x), Rising(t, y, hi), lo <= y, x <= hi, Len(s) = 0 \/ Len(t) = 0 \/ x < y
  PROVE  Rising(Joined(s, t), lo, hi) /\ Len(Joined(s, t)) = Len(s) + Len(t)
<1>1. PICK u, m, n : u = Joined(s, t) /\ m = Len(s) /\ n = Len(t)
  OBVIOUS
<1>2. s \in Seq(Int) /\ t \in Seq(Int) /\ m \in Nat /\ n \in Nat
  BY <1>1 DEF Rising
<1>3. /\ u \in Seq(Int) /\ Len(u) = m + n
      /\ \A k \in 1 .. m + n : u[k] = IF k <= m THEN s[k] ELSE t[k - m]
  BY <1>1, <1>2, ConcatProperties DEF Joined
<1>4. DOMAIN u = 1 .. m + n
  BY <1>3
<1>5. /\ \A k \in 1 .. m : s[k] \in Int /\ lo <= s[k] /\ s[k] <= x
      /\ \A k \in 1 .. m - 1 : s[k] < s[k + 1]
      /\ \A k \in 1 .. n : t[k] \in Int /\ y <= t[k] /\ t[k] <= hi
      /\ \A k \in 1 .. n - 1 : t[k] < t[k + 1]
  BY <1>1 DEF Rising
<1>6. m = 0 \/ n = 0 \/ x < y
  BY <1>1
<1>7. ASSUME NEW k \in 1 .. m + n PROVE u[k] \in Int /\ lo <= u[k] /\ u[k] <= hi
  <2>1. CASE k <= m
    <3>1. k \in 1 .. m /\ u[k] = s[k]
      BY <1>2, <1>3, <2>1
    <3>2. s[k] \in Int /\ lo <= s[k] /\ s[k] <= x
      BY <1>5, <3>1
    <3> QED BY <3>1, <3>2
  <2>2. CASE ~(k <= m)
    <3>1. k - m \in 1 .. n /\ u[k] = t[k - m]
      BY <1>2, <1>3, <2>2
    <3>2. t[k - m] \in Int /\ y <= t[k - m] /\ t[k - m] <= hi
      BY <1>5, <3>1
    <3> QED BY <3>1, <3>2
  <2> QED BY <2>1, <2>2
<1>8. ASSUME NEW k \in 1 .. m + n - 1 PROVE u[k] < u[k + 1]
  <2>1. k \in 1 .. m + n /\ k + 1 \in 1 .. m + n
    BY <1>2
  <2>2. CASE k + 1 <= m
    <3>1. k \in 1 .. m - 1 /\ k <= m
      BY <1>2, <2>2
    <3>2. s[k] < s[k + 1]
      BY <1>5, <3>1
    <3>3. u[k] = s[k]
      BY <1>3, <2>1, <3>1
    <3>4. u[k + 1] = s[k + 1]
      BY <1>3, <2>1, <2>2
    <3> QED BY <3>2, <3>3, <3>4
  <2>3. CASE k = m
    <3>1. m \in 1 .. m /\ 1 \in 1 .. n /\ m # 0 /\ n # 0
      BY <1>2, <2>3
    <3>2. u[k] = s[m]
      BY <1>3, <2>1, <2>3
    <3>3. u[k + 1] = t[1]
      <4>1. PICK j : j = k + 1
        OBVIOUS
      <4>2. j \in 1 .. m + n /\ ~(j <= m) /\ j - m = 1
        BY <1>2, <2>1, <2>3, <4>1
      <4>3. u[j] = t[j - m]
        BY <1>3, <4>2
      <4>4. u[j] = t[1]
        BY <4>2, <4>3, Zenon
      <4> QED BY <4>1, <4>4, Zenon
    <3>4. s[m] \in Int /\ s[m] <= x /\ t[1] \in Int /\ y <= t[1]
      BY <1>5, <3>1
    <3> QED BY <1>6, <3>1, <3>2, <3>3, <3>4
  <2>4. CASE k > m
    <3>1. k - m \in 1 .. n - 1 /\ k + 1 - m = k - m + 1 /\ ~(k <= m) /\ ~(k + 1 <= m)
      BY <1>2, <2>4
    <3>2. t[k - m] < t[k - m + 1]
      BY <1>5, <3>1
    <3>3. u[k] = t[k - m]
      BY <1>3, <2>1, <3>1
    <3>4. u[k + 1] = t[k - m + 1]
      <4>1. PICK j : j = k + 1
        OBVIOUS
      <4>2. j \in 1 .. m + n /\ ~(j <= m)
        BY <2>1, <3>1, <4>1
      <4>3. u[j] = t[j - m]
        BY <1>3, <4>2
      <4>4. j - m = k - m + 1
        BY <1>2, <4>1
      <4>5. u[k + 1] = t[j - m]
        BY <4>1, <4>3, Zenon
      <4> QED BY <4>4, <4>5, Zenon
    <3> QED BY <3>1, <3>2, <3>3, <3>4
  <2> QED BY <1>2, <2>2, <2>3, <2>4
<1> QED BY <1>1, <1>3, <1>4, <1>7, <1>8 DEF Rising

LEMMA RisingOne ==
  ASSUME NEW b \in BOOLEAN, NEW x \in Int, NEW s, s = IF b THEN <<x>> ELSE <<>>
  PROVE  Rising(s, x, x) /\ Len(s) = IF b THEN 1 ELSE 0
<1>1. CASE b
  <2>1. s = <<x>> /\ s \in Seq(Int) /\ Len(s) = 1 /\ DOMAIN s = 1 .. 1 /\ s[1] = x
    BY <1>1
  <2>2. \A k \in 1 .. Len(s) : s[k] = x
    BY <2>1
  <2> QED BY <1>1, <2>1, <2>2 DEF Rising
<1>2. CASE ~ b
  <2>1. s = <<>> /\ s \in Seq(Int) /\ Len(s) = 0
    BY <1>2, EmptySeq
  <2>2. DOMAIN s = 1 .. 0
    BY <2>1
  <2> QED BY <1>2, <2>1, <2>2 DEF Rising
<1> QED BY <1>1, <1>2

LEMMA GridRises ==
  ASSUME Accepted, NEW r \in DOMAIN Interpolation!Specs
  PROVE  /\ Rising(Interpolation!Grid(r), Interpolation!Ta(r), Interpolation!Tb(r)) /\ Len(Interpolation!Grid(r)) # 0
         /\ Interpolation!LeftAnchor(r) => Interpolation!Ta(r) > 0
<1>1. PICK K, f, l, ta, tb : /\ K = Interpolation!KnotTimes /\ f = Interpolation!FirstKnot(r)
                             /\ l = Interpolation!FirstKnot(r) + Interpolation!Count(r) - 1
                             /\ ta = Interpolation!Ta(r) /\ tb = Interpolation!Tb(r)
  OBVIOUS
<1>2. PICK n : n = Len(K)
  OBVIOUS
<1>3. K \in Seq(Int) /\ n \in Nat \ {0} /\ DOMAIN K = 1 .. n /\ \A k \in 1 .. n : K[k] \in Int
  BY <1>1, <1>2, KnotsRise
<1>4. \A k, m \in 1 .. n : k < m => K[k] < K[m]
  BY <1>1, <1>3, KnotsRise
<1>5. f \in 1 .. n /\ l \in 1 .. n /\ f <= l
  <2>1. PICK c : c = Interpolation!Count(r)
    OBVIOUS
  <2>2. f \in 1 .. n /\ c \in Nat \ {0} /\ f + c - 1 \in 1 .. n /\ l = f + c - 1
    BY <1>1, <1>3, <2>1, OwnedAre
  <2> QED BY <2>2
<1>6. ta \in Int /\ tb \in Int /\ ta < tb
  BY <1>1, RegionsRise
<1>7. \A k \in f .. l : ta <= K[k] /\ K[k] < tb
  <2>1. ASSUME NEW k \in f .. l PROVE ta <= K[k] /\ K[k] < tb
    <3>1. k \in 1 .. n
      BY <1>3, <1>5
    <3> QED BY <1>1, <1>3, <3>1, OwnedAre
  <2> QED BY <2>1
<1>8. PICK A, B, C, D : /\ A = IF Interpolation!Origin(r) THEN <<0>> ELSE <<>>
                        /\ B = IF Interpolation!LeftAnchor(r) THEN <<ta>> ELSE <<>>
                        /\ C = Interpolation!KnotsOf(r)
                        /\ D = IF Interpolation!RightAnchor(r) THEN <<tb>> ELSE <<>>
  OBVIOUS
<1>9. Interpolation!Grid(r) = Joined(Joined(Joined(A, B), C), D)
  BY <1>1, <1>8 DEF Interpolation!Grid, Joined
<1>10. Interpolation!Origin(r) => r = 1 /\ K[1] > 0
  BY <1>1 DEF Interpolation!Origin, Interpolation!HasOrigin
<1>11. Interpolation!LeftAnchor(r) => r > 1 /\ K[f] > ta
  BY <1>1 DEF Interpolation!LeftAnchor
<1>12. Interpolation!Origin(r) \in BOOLEAN /\ Interpolation!LeftAnchor(r) \in BOOLEAN /\ Interpolation!RightAnchor(r) \in BOOLEAN
  BY DEF Interpolation!Origin, Interpolation!LeftAnchor, Interpolation!RightAnchor
<1>13. ASSUME Interpolation!Origin(r) PROVE ta = 0 /\ K[f] > 0
  <2>1. r = 1 /\ K[1] > 0
    BY <1>10, <1>13
  <2>2. ta = 0
    BY <1>1, <2>1, RegionsRise
  <2>3. f = 1 \/ 1 < f
    BY <1>3, <1>5
  <2>4. 1 \in 1 .. n /\ K[1] \in Int /\ K[f] \in Int
    BY <1>3, <1>5
  <2>5. CASE f = 1
    BY <2>1, <2>2, <2>5
  <2>6. CASE 1 < f
    <3>1. K[1] < K[f]
      BY <1>4, <1>5, <2>4, <2>6
    <3> QED BY <2>1, <2>2, <2>4, <3>1
  <2> QED BY <2>3, <2>5, <2>6
<1>14. Rising(A, ta, ta) /\ Len(A) = IF Interpolation!Origin(r) THEN 1 ELSE 0
  <2>1. A = IF Interpolation!Origin(r) THEN <<ta>> ELSE <<>>
    BY <1>8, <1>13
  <2> QED BY <1>6, <1>12, <2>1, RisingOne
<1>15. Rising(B, ta, ta) /\ Len(B) = IF Interpolation!LeftAnchor(r) THEN 1 ELSE 0
  BY <1>6, <1>8, <1>12, RisingOne
<1>16. Rising(D, tb, tb) /\ Len(D) = IF Interpolation!RightAnchor(r) THEN 1 ELSE 0
  BY <1>6, <1>8, <1>12, RisingOne
<1>17. ~(Interpolation!Origin(r) /\ Interpolation!LeftAnchor(r))
  BY <1>10, <1>11
<1>18. Rising(C, K[f], K[l]) /\ Len(C) = l - f + 1
  <2>1. C = SubSeq(K, f, l)
    BY <1>1, <1>8 DEF Interpolation!KnotsOf, Interpolation!KnotTimes
  <2>2. /\ Len(C) = l - f + 1
        /\ \A k \in 1 .. l - f + 1 : C[k] = K[f + k - 1]
    BY <1>2, <1>3, <1>5, <2>1, SubSeqProperties
  <2>3. C \in Seq(Int) /\ DOMAIN C = 1 .. l - f + 1
    BY <1>2, <1>3, <1>5, <2>1, <2>2, SubSeqProperties
  <2>4. ASSUME NEW k \in 1 .. l - f + 1 PROVE C[k] \in Int /\ K[f] <= C[k] /\ C[k] <= K[l]
    <3>1. PICK j : j = f + k - 1
      OBVIOUS
    <3>2. j \in 1 .. n /\ f <= j /\ j <= l
      BY <1>3, <1>5, <3>1
    <3>3. K[f] \in Int /\ K[j] \in Int /\ K[l] \in Int /\ K[f] <= K[j] /\ K[j] <= K[l]
      <4>1. K[f] \in Int /\ K[j] \in Int /\ K[l] \in Int
        BY <1>3, <1>5, <3>2
      <4>2. f = j \/ f < j
        BY <1>5, <3>2
      <4>3. K[f] <= K[j]
        BY <1>4, <1>5, <3>2, <4>1, <4>2
      <4>4. j = l \/ j < l
        BY <1>5, <3>2
      <4>5. K[j] <= K[l]
        BY <1>4, <1>5, <3>2, <4>1, <4>4
      <4> QED BY <4>1, <4>3, <4>5
    <3> QED BY <2>2, <3>1, <3>3
  <2>5. ASSUME NEW k \in 1 .. l - f PROVE C[k] < C[k + 1]
    <3>1. PICK j : j = f + k - 1
      OBVIOUS
    <3>2. j \in 1 .. n /\ j + 1 \in 1 .. n /\ f + (k + 1) - 1 = j + 1
      BY <1>3, <1>5, <3>1
    <3>3. K[j] < K[j + 1]
      BY <1>4, <3>2
    <3>4. C[k] = K[j]
      <4>1. k \in 1 .. l - f + 1
        BY <1>5
      <4> QED BY <2>2, <3>1, <4>1
    <3>5. C[k + 1] = K[j + 1]
      <4>1. k + 1 \in 1 .. l - f + 1
        BY <1>5
      <4> QED BY <2>2, <3>2, <4>1
    <3> QED BY <3>3, <3>4, <3>5
  <2>6. l - f + 1 \in Nat /\ l - f + 1 - 1 = l - f
    BY <1>5
  <2>7. PICK c : c = Len(C)
    OBVIOUS
  <2>8. /\ \A k \in 1 .. c : C[k] \in Int /\ K[f] <= C[k] /\ C[k] <= K[l]
        /\ \A k \in 1 .. c - 1 : C[k] < C[k + 1]
    <3>1. c = l - f + 1 /\ c - 1 = l - f
      BY <1>3, <1>5, <2>2, <2>7
    <3>2. \A k \in 1 .. c : C[k] \in Int /\ K[f] <= C[k] /\ C[k] <= K[l]
      BY <2>4, <3>1, Zenon
    <3>3. \A k \in 1 .. c - 1 : C[k] < C[k + 1]
      BY <2>5, <3>1, Zenon
    <3> QED BY <3>2, <3>3
  <2> QED BY <2>2, <2>3, <2>6, <2>7, <2>8 DEF Rising
<1>19. f \in f .. l /\ l \in f .. l /\ K[f] \in Int /\ K[l] \in Int /\ K[f] <= K[l]
  BY <1>3, <1>4, <1>5
<1>20. ta <= K[f] /\ K[f] < tb /\ ta <= K[l] /\ K[l] < tb
  BY <1>7, <1>19
<1>21. Rising(Joined(A, B), ta, ta) /\ (Len(Joined(A, B)) = 0 \/ ta < K[f])
  <2>1. Len(A) = 0 \/ Len(B) = 0
    BY <1>14, <1>15, <1>17
  <2>2. Rising(Joined(A, B), ta, ta) /\ Len(Joined(A, B)) = Len(A) + Len(B)
    <3>1. ta <= ta
      BY <1>6
    <3> QED BY <1>6, <1>14, <1>15, <2>1, <3>1, RisingJoined
  <2>3. CASE Interpolation!Origin(r)
    BY <1>13, <2>2, <2>3
  <2>4. CASE Interpolation!LeftAnchor(r)
    BY <1>11, <2>2, <2>4
  <2>5. CASE ~ Interpolation!Origin(r) /\ ~ Interpolation!LeftAnchor(r)
    BY <1>14, <1>15, <2>2, <2>5
  <2> QED BY <2>3, <2>4, <2>5
<1>22. PICK P : P = Joined(A, B)
  OBVIOUS
<1>23. Rising(Joined(P, C), ta, K[l]) /\ Len(Joined(P, C)) = Len(P) + Len(C)
  BY <1>6, <1>18, <1>19, <1>20, <1>21, <1>22, RisingJoined
<1>24. PICK Q : Q = Joined(P, C)
  OBVIOUS
<1>25. Rising(Joined(Q, D), ta, tb) /\ Len(Joined(Q, D)) = Len(Q) + Len(D)
  <2>1. ta <= tb /\ K[l] <= tb /\ K[l] < tb
    BY <1>6, <1>19, <1>20
  <2>2. Rising(Q, ta, K[l])
    BY <1>23, <1>24
  <2> QED BY <1>6, <1>16, <1>19, <2>1, <2>2, RisingJoined
<1>26. Len(Joined(Q, D)) # 0
  <2>1. Len(P) \in Nat /\ Len(D) \in Nat /\ Len(C) \in Nat /\ Len(C) # 0
    BY <1>5, <1>16, <1>18, <1>21, <1>22 DEF Rising
  <2>2. Len(Joined(Q, D)) = Len(P) + Len(C) + Len(D)
    BY <1>23, <1>24, <1>25
  <2> QED BY <2>1, <2>2
<1>27. Interpolation!LeftAnchor(r) => ta > 0
  <2> SUFFICES ASSUME Interpolation!LeftAnchor(r) PROVE ta > 0
    OBVIOUS
  <2>1. PICK m : m = Len(Interpolation!Specs)
    OBVIOUS
  <2>2. m \in Nat /\ r \in 1 .. m /\ 1 \in 1 .. m /\ 1 < r
    BY <1>11, <2>1, RegionsRise
  <2>3. Interpolation!Ta(1) < Interpolation!Ta(r) /\ Interpolation!Ta(1) = 0
    BY <2>1, <2>2, RegionsRise
  <2> QED BY <1>1, <2>3
<1> QED BY <1>1, <1>9, <1>22, <1>24, <1>25, <1>26, <1>27

LEMMA RegionsOfAccepted ==
  ASSUME built = "built" => Accepted
  PROVE  Interpolation!RegionsTile
<1> SUFFICES ASSUME built = "built"
             PROVE  /\ \A r \in DOMAIN Interpolation!Specs :
                         /\ Interpolation!IsGrid(Interpolation!Grid(r))
                         /\ Interpolation!First(Interpolation!Grid(r)) >= Interpolation!Ta(r)
                         /\ Interpolation!Final(Interpolation!Grid(r)) <= Interpolation!Tb(r)
                         /\ Interpolation!LeftAnchor(r) => Interpolation!Ta(r) > 0
                         /\ \A k \in Interpolation!FirstKnot(r) .. Interpolation!FirstKnot(r) + Interpolation!Count(r) - 1 :
                              Interpolation!RegionOf(Interpolation!KnotTimes[k]) = r
                    /\ \A k \in DOMAIN Interpolation!KnotTimes : \E r \in DOMAIN Interpolation!Specs :
                         k \in Interpolation!FirstKnot(r) .. Interpolation!FirstKnot(r) + Interpolation!Count(r) - 1
  BY DEF Interpolation!RegionsTile
<1>1. Accepted
  OBVIOUS
<1>2. ASSUME NEW r \in DOMAIN Interpolation!Specs
      PROVE  /\ Interpolation!IsGrid(Interpolation!Grid(r))
             /\ Interpolation!First(Interpolation!Grid(r)) >= Interpolation!Ta(r)
             /\ Interpolation!Final(Interpolation!Grid(r)) <= Interpolation!Tb(r)
             /\ Interpolation!LeftAnchor(r) => Interpolation!Ta(r) > 0
  <2>1. PICK g, n : g = Interpolation!Grid(r) /\ n = Len(g)
    OBVIOUS
  <2>2. PICK ta, tb : ta = Interpolation!Ta(r) /\ tb = Interpolation!Tb(r)
    OBVIOUS
  <2>3. Rising(g, ta, tb) /\ n # 0 /\ (Interpolation!LeftAnchor(r) => ta > 0)
    BY <1>1, <1>2, <2>1, <2>2, GridRises
  <2>4. /\ n \in Nat /\ g \in Seq(Int) /\ \A k \in 1 .. n : g[k] \in Int /\ ta <= g[k] /\ g[k] <= tb
        /\ \A k \in 1 .. n - 1 : g[k] < g[k + 1]
    BY <2>1, <2>3 DEF Rising
  <2>5. 1 \in 1 .. n /\ n \in 1 .. n
    BY <2>3, <2>4
  <2>6. g # <<>>
    BY <2>1, <2>3
  <2>7. Interpolation!IsGrid(g)
    BY <2>1, <2>4, <2>6 DEF Interpolation!IsGrid
  <2>8. ta <= g[1] /\ g[n] <= tb /\ ta \in Int /\ tb \in Int /\ g[1] \in Int /\ g[n] \in Int
    BY <1>1, <1>2, <2>2, <2>4, <2>5, RegionsRise
  <2>9. Interpolation!First(g) >= ta /\ Interpolation!Final(g) <= tb
    BY <2>1, <2>8 DEF Interpolation!First, Interpolation!Final
  <2> QED BY <2>1, <2>2, <2>3, <2>7, <2>9
<1>3. ASSUME NEW r \in DOMAIN Interpolation!Specs,
             NEW k \in Interpolation!FirstKnot(r) .. Interpolation!FirstKnot(r) + Interpolation!Count(r) - 1
      PROVE  Interpolation!RegionOf(Interpolation!KnotTimes[k]) = r
  <2>1. PICK f, c, n : f = Interpolation!FirstKnot(r) /\ c = Interpolation!Count(r) /\ n = Len(Interpolation!KnotTimes)
    OBVIOUS
  <2>2. n \in Nat /\ DOMAIN Interpolation!KnotTimes = 1 .. n
    BY <1>1, <2>1, KnotsRise
  <2>3. f \in 1 .. n /\ f + c - 1 \in 1 .. n
    BY <1>1, <2>1, <2>2, OwnedAre
  <2>4. k \in 1 .. n
    BY <1>3, <2>1, <2>2, <2>3
  <2>5. Interpolation!Ta(r) <= Interpolation!KnotTimes[k] /\ Interpolation!KnotTimes[k] < Interpolation!Tb(r)
    BY <1>1, <1>3, <2>2, <2>4, OwnedAre
  <2>6. Interpolation!KnotTimes[k] \in Int
    BY <1>1, <2>2, <2>4, KnotsRise
  <2> QED BY <1>1, <2>5, <2>6, RegionOfTime
<1>4. ASSUME NEW k \in DOMAIN Interpolation!KnotTimes
      PROVE  \E r \in DOMAIN Interpolation!Specs :
               k \in Interpolation!FirstKnot(r) .. Interpolation!FirstKnot(r) + Interpolation!Count(r) - 1
  <2>1. Interpolation!KnotTimes[k] \in Nat /\ Interpolation!KnotTimes[k] < Infinity
    BY <1>1, KnotsRise
  <2>2. PICK r \in DOMAIN Interpolation!Specs :
          Interpolation!Ta(r) <= Interpolation!KnotTimes[k] /\ Interpolation!KnotTimes[k] < Interpolation!Tb(r)
    BY <1>1, <2>1, SomeRegion
  <2>3. k \in Interpolation!FirstKnot(r) .. Interpolation!FirstKnot(r) + Interpolation!Count(r) - 1
    BY <1>1, <2>2, OwnedAre
  <2> QED BY <2>3
<1> QED BY <1>2, <1>3, <1>4

(* A curve that is built has a definition its constructor accepted, and    *)
(* keeps it while its values are prepared.                                 *)
CurveInv == built = "built" => Accepted

LEMMA CurveKept ==
  ASSUME CurveInv, UNCHANGED <<definition, built>>
  PROVE  CurveInv'
<1>1. definition' = definition /\ built' = built
  OBVIOUS
<1> QED BY <1>1 DEF CurveInv, Accepted

LEMMA CurveStep ==
  ASSUME CurveInv, [Next]_vars
  PROVE  CurveInv'
<1>1. CASE Interpolation!Construct
  <2>1. PICK d \in Definitions : definition' = d /\ built' = IF Interpolation!Acceptable(d) THEN "built" ELSE "refused"
    BY <1>1 DEF Interpolation!Construct
  <2> SUFFICES ASSUME built' = "built" PROVE definition' \in Definitions /\ Interpolation!Acceptable(definition')
    BY DEF CurveInv, Accepted
  <2>2. Interpolation!Acceptable(d)
    BY <2>1
  <2> QED BY <2>1, <2>2
<1>2. CASE UNCHANGED <<definition, built>>
  BY <1>2, CurveKept
<1>3. CASE UNCHANGED schemeVars
  BY <1>2, <1>3 DEF schemeVars
<1>4. CASE Interpolation!GiveValues \/ Interpolation!PrepareRegion
  BY <1>2, <1>4 DEF Interpolation!GiveValues, Interpolation!PrepareRegion
<1> QED BY <1>1, <1>3, <1>4 DEF Next, vars, Interpolation!CurveNext

LEMMA CurveStart == Init => CurveInv
BY DEF Init, CurveInv, NoCurve

(* The regions of every curve a constructor accepts tile its knots: each   *)
(* region's grid, its anchors included, is one a scheme can be constructed *)
(* on and lies within it, each knot is priced by the one region that holds *)
(* it, and no anchor is converted at a time of nothing.  What the          *)
(* constructor refuses is enough, for any knots and any regions.           *)
THEOREM RegionsAlwaysTile == Spec => []Interpolation!RegionsTile
<1>1. CurveInv /\ [Next]_vars => CurveInv'
  BY CurveStep
<1>2. CurveInv => Interpolation!RegionsTile
  BY RegionsOfAccepted DEF CurveInv
<1> QED BY CurveStart, <1>1, <1>2, PTL DEF Spec
=============================================================================
