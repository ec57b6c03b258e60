-------------------------- MODULE RecordingProofs --------------------------
(***************************************************************************)
(* Proofs about Recording, for every set of tapes and Recs and every       *)
(* bound: the types; that a Rec the tape accepts always names the node it  *)
(* was recorded as; and, of the node tables, that validate() accepts every *)
(* table at every point and that every node computes the expression it was *)
(* recorded for, whatever a pass keeps and renumbers.                      *)
(***************************************************************************)
EXTENDS Recording, SequenceTheorems, FiniteSetTheorems, TLAPS

(* Appending to a sequence of anything: the facts the emission lemmas use. *)
LEMMA AppendSeq ==
  ASSUME NEW s, IsSeq(s), NEW e
  PROVE  /\ Len(s) \in Nat /\ DOMAIN s = 1..Len(s)
         /\ IsSeq(Append(s, e))
         /\ Len(Append(s, e)) = Len(s) + 1
         /\ \A i \in 1..Len(s) : Append(s, e)[i] = s[i]
         /\ Append(s, e)[Len(s) + 1] = e
<1> DEFINE S == {s[i] : i \in DOMAIN s} \cup {e}
<1>1. s \in Seq({s[i] : i \in DOMAIN s})
  BY DEF IsSeq
<1>2. Len(s) \in Nat /\ DOMAIN s = 1..Len(s)
  BY <1>1, LenProperties
<1>3. s \in Seq(S)
  <2>1. s \in [1..Len(s) -> S]
    BY <1>1, <1>2, LenProperties
  <2> QED BY <2>1, <1>2
<1>4. /\ Append(s, e) \in Seq(S) /\ Len(Append(s, e)) = Len(s) + 1
      /\ \A i \in 1..Len(s) : Append(s, e)[i] = s[i]
      /\ Append(s, e)[Len(s) + 1] = e
  BY <1>3, AppendProperties
<1>5. IsSeq(Append(s, e))
  <2> DEFINE a == Append(s, e)
  <2> HIDE DEF a
  <2>1. a \in Seq(S)  BY <1>4 DEF a
  <2>2. a \in [1..Len(a) -> S] /\ Len(a) \in Nat
    BY <2>1, LenProperties
  <2>3. a \in [1..Len(a) -> {a[i] : i \in DOMAIN a}]
    BY <2>2
  <2>4. a \in Seq({a[i] : i \in DOMAIN a})
    BY <2>2, <2>3
  <2> QED BY <2>4 DEF IsSeq, a
<1> QED BY <1>2, <1>4, <1>5

(* What updating a field of a table leaves in the others.                  *)
LEMMA NodesExcept ==
  ASSUME NEW tb, IsTable(tb), NEW s
  PROVE  [tb EXCEPT !.nodes = s] =
           [nodes |-> s, ins |-> tb.ins, outs |-> tb.outs, cix |-> tb.cix]
<1>1. PICK n, i, o, c : tb = [nodes |-> n, ins |-> i, outs |-> o, cix |-> c]
  BY DEF IsTable
<1>2. tb.nodes = n /\ tb.ins = i /\ tb.outs = o /\ tb.cix = c
  BY <1>1
<1> QED BY ONLY <1>1, <1>2

LEMMA OutsExcept ==
  ASSUME NEW tb, IsTable(tb), NEW s
  PROVE  [tb EXCEPT !.outs = s] =
           [nodes |-> tb.nodes, ins |-> tb.ins, outs |-> s, cix |-> tb.cix]
<1>1. PICK n, i, o, c : tb = [nodes |-> n, ins |-> i, outs |-> o, cix |-> c]
  BY DEF IsTable
<1>2. tb.nodes = n /\ tb.ins = i /\ tb.outs = o /\ tb.cix = c
  BY <1>1
<1> QED BY ONLY <1>1, <1>2

LEMMA NodesInsExcept ==
  ASSUME NEW tb, IsTable(tb), NEW s, NEW t
  PROVE  [tb EXCEPT !.nodes = s, !.ins = t] =
           [nodes |-> s, ins |-> t, outs |-> tb.outs, cix |-> tb.cix]
<1>1. PICK n, i, o, c : tb = [nodes |-> n, ins |-> i, outs |-> o, cix |-> c]
  BY DEF IsTable
<1>2. tb.nodes = n /\ tb.ins = i /\ tb.outs = o /\ tb.cix = c
  BY <1>1
<1> DEFINE td == [tb EXCEPT !.nodes = s]
<1>3. [tb EXCEPT !.nodes = s, !.ins = t] = [td EXCEPT !.ins = t]
  BY Zenon
<1>4. td = [nodes |-> s, ins |-> i, outs |-> o, cix |-> c]
  BY <1>2, NodesExcept
<1> HIDE DEF td
<1>5. [td EXCEPT !.ins = t] = [nodes |-> s, ins |-> t, outs |-> o, cix |-> c]
  BY ONLY <1>4
<1> QED BY <1>2, <1>3, <1>5

(* A table that grew: every node of tb is still there in tc.               *)
Grown(tb, tc) ==
  /\ Len(tb.nodes) \in Nat /\ Len(tc.nodes) \in Nat
  /\ DOMAIN tb.nodes = 1..Len(tb.nodes)
  /\ Len(tb.nodes) <= Len(tc.nodes)
  /\ \A i \in 1..Len(tb.nodes) : tc.nodes[i] = tb.nodes[i]

LEMMA GrownReflexive ==
  ASSUME NEW tb, IsTable(tb)
  PROVE  Grown(tb, tb)
<1>1. IsSeq(tb.nodes)
  BY DEF IsTable
<1>2. Len(tb.nodes) \in Nat /\ DOMAIN tb.nodes = 1..Len(tb.nodes)
  BY <1>1, AppendSeq
<1> QED BY <1>2 DEF Grown

LEMMA GrownTransitive ==
  ASSUME NEW tb, NEW tc, NEW td, Grown(tb, tc), Grown(tc, td)
  PROVE  Grown(tb, td)
BY DEF Grown

(* Tape::constant.                                                         *)
LEMMA WithConstGrows ==
  ASSUME NEW tb, IsTable(tb), NEW b \in Bits
  PROVE  IsTable(WithConst(tb, b)) /\ Grown(tb, WithConst(tb, b))
<1>1. CASE tb.cix[b] # None
  BY <1>1, GrownReflexive DEF WithConst
<1>2. CASE tb.cix[b] = None
  <2> DEFINE e == [op |-> "Const", args |-> <<b>>, tainted |-> FALSE, mean |-> <<"Const", b>>]
             tc == [nodes |-> Append(tb.nodes, e), ins |-> tb.ins, outs |-> tb.outs,
                    cix |-> [tb.cix EXCEPT ![b] = Len(tb.nodes) + 1]]
  <2>1. WithConst(tb, b) = tc
    BY <1>2 DEF WithConst, IsTable
  <2> HIDE DEF e
  <2>2. /\ Len(tb.nodes) \in Nat /\ DOMAIN tb.nodes = 1..Len(tb.nodes)
        /\ IsSeq(Append(tb.nodes, e))
        /\ Len(Append(tb.nodes, e)) = Len(tb.nodes) + 1
        /\ \A i \in 1..Len(tb.nodes) : Append(tb.nodes, e)[i] = tb.nodes[i]
    BY AppendSeq DEF IsTable
  <2>3. IsTable(tc)
    BY <2>2 DEF IsTable
  <2>4. Grown(tb, tc)
    BY <2>2 DEF Grown
  <2> QED BY <2>1, <2>3, <2>4
<1> QED BY <1>1, <1>2

LEMMA PlacedGrows ==
  ASSUME NEW tb, IsTable(tb), NEW r, IsRec(r)
  PROVE  IsTable(Placed(tb, r)) /\ Grown(tb, Placed(tb, r))
BY WithConstGrows, GrownReflexive DEF Placed, IsRec

(* Tape::binary.                                                           *)
LEMMA WithBinaryGrows ==
  ASSUME NEW tb, IsTable(tb), NEW args, NEW m
  PROVE  /\ IsTable(WithBinary(tb, args, m)) /\ Grown(tb, WithBinary(tb, args, m))
         /\ Len(WithBinary(tb, args, m).nodes) = Len(tb.nodes) + 1
         /\ WithBinary(tb, args, m).nodes[Len(tb.nodes) + 1].mean = m
         /\ WithBinary(tb, args, m).nodes[Len(tb.nodes) + 1] = BinaryNode(tb, args, m)
<1> DEFINE e == BinaryNode(tb, args, m)
           tc == [nodes |-> Append(tb.nodes, e), ins |-> tb.ins, outs |-> tb.outs, cix |-> tb.cix]
<1>0. e.mean = m
  BY Zenon DEF BinaryNode
<1>1. WithBinary(tb, args, m) = tc
  BY NodesExcept DEF WithBinary
<1> HIDE DEF e
<1>2. /\ Len(tb.nodes) \in Nat /\ DOMAIN tb.nodes = 1..Len(tb.nodes)
      /\ IsSeq(Append(tb.nodes, e))
      /\ Len(Append(tb.nodes, e)) = Len(tb.nodes) + 1
      /\ \A i \in 1..Len(tb.nodes) : Append(tb.nodes, e)[i] = tb.nodes[i]
      /\ Append(tb.nodes, e)[Len(tb.nodes) + 1] = e
  BY AppendSeq DEF IsTable
<1>3. IsTable(tc)
  BY <1>2 DEF IsTable
<1>4. Grown(tb, tc)
  BY <1>2 DEF Grown
<1>5. tc.nodes[Len(tb.nodes) + 1] = BinaryNode(tb, args, m)
  BY <1>2 DEF e
<1> QED BY <1>0, <1>1, <1>2, <1>3, <1>4, <1>5

(* Tape::input.                                                            *)
LEMMA WithInputGrows ==
  ASSUME NEW tb, IsTable(tb), NEW m
  PROVE  /\ IsTable(WithInput(tb, m)) /\ Grown(tb, WithInput(tb, m))
         /\ Len(WithInput(tb, m).nodes) = Len(tb.nodes) + 1
         /\ WithInput(tb, m).nodes[Len(tb.nodes) + 1].mean = m
         /\ WithInput(tb, m).nodes[Len(tb.nodes) + 1] = InputNode(tb, m)
<1> DEFINE e == InputNode(tb, m)
           tc == [nodes |-> Append(tb.nodes, e), ins |-> Append(tb.ins, Len(tb.nodes) + 1),
                  outs |-> tb.outs, cix |-> tb.cix]
<1>0. e.mean = m
  BY DEF InputNode
<1> HIDE DEF e
<1>1. WithInput(tb, m) = tc
  <2> DEFINE s == Append(tb.nodes, e)
             t == Append(tb.ins, Len(tb.nodes) + 1)
  <2>1. WithInput(tb, m) = [tb EXCEPT !.nodes = s, !.ins = t]
    BY Zenon DEF WithInput, e
  <2> HIDE DEF s, t
  <2>2. [tb EXCEPT !.nodes = s, !.ins = t] =
          [nodes |-> s, ins |-> t, outs |-> tb.outs, cix |-> tb.cix]
    BY NodesInsExcept
  <2> QED BY <2>1, <2>2 DEF s, t
<1>2. /\ Len(tb.nodes) \in Nat /\ DOMAIN tb.nodes = 1..Len(tb.nodes)
      /\ IsSeq(Append(tb.nodes, e))
      /\ Len(Append(tb.nodes, e)) = Len(tb.nodes) + 1
      /\ \A i \in 1..Len(tb.nodes) : Append(tb.nodes, e)[i] = tb.nodes[i]
      /\ Append(tb.nodes, e)[Len(tb.nodes) + 1] = e
  BY AppendSeq DEF IsTable
<1>3. Append(tb.ins, Len(tb.nodes) + 1) \in Seq(Nat)
  BY <1>2, AppendProperties DEF IsTable
<1>4. IsTable(tc)
  BY <1>2, <1>3 DEF IsTable
<1>5. Grown(tb, tc)
  BY <1>2 DEF Grown
<1>6. tc.nodes[Len(tb.nodes) + 1] = InputNode(tb, m)
  BY <1>2 DEF e
<1> QED BY <1>0, <1>1, <1>2, <1>4, <1>5, <1>6

(* A pass on a table: Rebuilt.                                             *)
LEMMA RankNat ==
  ASSUME NEW keep, IsFiniteSet(keep), NEW i
  PROVE  Rank(keep, i) \in Nat
<1>1. IsFiniteSet({j \in keep : j <= i})
  BY FS_Subset
<1>2. Cardinality({j \in keep : j <= i}) \in Nat
  BY <1>1, FS_CardinalityType
<1> QED BY <1>2 DEF Rank

LEMMA RebuiltIsTable ==
  ASSUME NEW tb, IsTable(tb), NEW keep \in SUBSET DOMAIN tb.nodes
  PROVE  IsTable(Rebuilt(tb, keep))
<1>1. Len(tb.nodes) \in Nat /\ DOMAIN tb.nodes = 1..Len(tb.nodes)
  BY AppendSeq DEF IsTable
<1>2. IsFiniteSet(keep)
  <2>1. keep \in SUBSET (1..Len(tb.nodes))
    BY <1>1
  <2>2. IsFiniteSet(1..Len(tb.nodes))
    BY <1>1, FS_Interval
  <2> QED BY <2>1, <2>2, FS_Subset
<1>3. Cardinality(keep) \in Nat
  BY <1>2, FS_CardinalityType
<1>4. \A i : Rank(keep, i) \in Nat
  BY <1>2, RankNat
<1> DEFINE tc == Rebuilt(tb, keep)
<1>5. IsSeq(tc.nodes)
  <2> DEFINE S == {tc.nodes[i] : i \in DOMAIN tc.nodes}
  <2>1. tc.nodes = [i \in 1..Cardinality(keep) |-> RebuiltNode(tb, keep, i)]
    BY DEF Rebuilt
  <2> HIDE DEF tc
  <2>2. tc.nodes \in [1..Cardinality(keep) -> S]
    BY <2>1
  <2>3. tc.nodes \in Seq(S)
    BY <1>3, <2>2
  <2> QED BY <2>3 DEF IsSeq
<1>6. tc.ins \in Seq(Nat) /\ tc.outs \in Seq(Nat)
  <2>1. tc.ins = [k \in DOMAIN tb.ins |-> Rank(keep, tb.ins[k])]
    BY DEF Rebuilt
  <2>2. tc.outs = [k \in DOMAIN tb.outs |-> Rank(keep, tb.outs[k])]
    BY DEF Rebuilt
  <2>3. tb.ins \in Seq(Nat) /\ tb.outs \in Seq(Nat)
    BY DEF IsTable
  <2>4. /\ Len(tb.ins) \in Nat /\ DOMAIN tb.ins = 1..Len(tb.ins)
        /\ Len(tb.outs) \in Nat /\ DOMAIN tb.outs = 1..Len(tb.outs)
    BY <2>3, LenProperties
  <2>5. tc.ins \in [1..Len(tb.ins) -> Nat] /\ tc.outs \in [1..Len(tb.outs) -> Nat]
    BY <1>4, <2>1, <2>2, <2>4
  <2> QED BY SMTT(20), <2>4, <2>5
<1>7. tc.cix \in [Bits -> Nat]
  <2>1. tc.cix = [b \in Bits |-> IF tb.cix[b] \in keep THEN Rank(keep, tb.cix[b]) ELSE None]
    BY DEF Rebuilt
  <2> QED BY <2>1, <1>4 DEF None
<1>8. tc = [nodes |-> tc.nodes, ins |-> tc.ins, outs |-> tc.outs, cix |-> tc.cix]
  BY DEF Rebuilt
<1> HIDE DEF tc
<1> QED BY <1>5, <1>6, <1>7, <1>8 DEF IsTable, tc

(* register_output: the table after the output list grew.                  *)
LEMMA OutputGrows ==
  ASSUME NEW tb, IsTable(tb), NEW o \in Nat
  PROVE  /\ IsTable([tb EXCEPT !.outs = Append(@, o)])
         /\ Grown(tb, [tb EXCEPT !.outs = Append(@, o)])
<1> DEFINE s == Append(tb.outs, o)
           tc == [nodes |-> tb.nodes, ins |-> tb.ins, outs |-> s, cix |-> tb.cix]
<1>1. [tb EXCEPT !.outs = Append(@, o)] = tc
  BY OutsExcept
<1>2. s \in Seq(Nat)
  BY AppendProperties DEF IsTable
<1>3. IsTable(tc)
  BY <1>2 DEF IsTable
<1>4. Grown(tb, tc)
  BY AppendSeq DEF IsTable, Grown
<1> QED BY <1>1, <1>3, <1>4

LEMMA EmptyIsTable == IsTable(EmptyTable)
<1>1. IsSeq(<<>>)
  BY DEF IsSeq
<1> QED BY <1>1 DEF IsTable, EmptyTable, None

LEMMA DetachedIsRec ==
  ASSUME NEW b \in Bits
  PROVE  /\ IsRec(Detached(b)) /\ Detached(b).id = None /\ Detached(b).tape = None
BY DEF IsRec, Detached, None

(* The id a placed value has on the table.                                 *)
LEMMA NodeOnNat ==
  ASSUME NEW tb, IsTable(tb), NEW r, IsRec(r)
  PROVE  NodeOn(tb, r) \in Nat
BY DEF NodeOn, IsTable, IsRec

(***************************************************************************)
(* Replacing one table, or one Rec, by another of the same type.           *)
(***************************************************************************)
Tables(f) == f = [t \in Tapes |-> f[t]] /\ \A t \in Tapes : IsTable(f[t])
RecVars(f) == f = [r \in Recs |-> f[r]] /\ \A r \in Recs : IsRec(f[r])

LEMMA TablesExcept ==
  ASSUME NEW f, Tables(f), NEW t \in Tapes, NEW tb, IsTable(tb)
  PROVE  /\ Tables([f EXCEPT ![t] = tb])
         /\ [f EXCEPT ![t] = tb][t] = tb
         /\ \A u \in Tapes \ {t} : [f EXCEPT ![t] = tb][u] = f[u]
BY DEF Tables

LEMMA RecVarsExcept ==
  ASSUME NEW f, RecVars(f), NEW q \in Recs, NEW r, IsRec(r)
  PROVE  /\ RecVars([f EXCEPT ![q] = r])
         /\ [f EXCEPT ![q] = r][q] = r
         /\ \A p \in Recs \ {q} : [f EXCEPT ![q] = r][p] = f[p]
BY DEF RecVars

------------------------------------------------------------------------------
(* Every variable keeps its type, whatever the maths, the containers and   *)
(* the passes do with the tapes.                                           *)
THEOREM TypeCorrect == Spec => []TypeOK
<1>1. Init => TypeOK
  <2> SUFFICES ASSUME Init PROVE TypeOK
    OBVIOUS
  <2>1. Tables(table)
    BY EmptyIsTable DEF Init, Tables
  <2>2. RecVars(rec)
    BY DetachedIsRec DEF Init, RecVars
  <2>3. scopes \in Seq(Tapes \cup {NoTape})
    BY DEF Init
  <2>4. nextSerial \in Nat \ {None} /\ serial \in [Tapes -> Nat]
    BY DEF Init, None
  <2> QED BY <2>1, <2>2, <2>3, <2>4 DEF Init, TypeOK, Tables, RecVars
<1>2. TypeOK /\ [Next]_vars => TypeOK'
  <2> SUFFICES ASSUME TypeOK, [Next]_vars PROVE TypeOK'
    OBVIOUS
  <2>0. /\ Tables(table) /\ RecVars(rec) /\ nextSerial \in Nat
        /\ nextSerial + 1 \in Nat \ {None} /\ nextSerial + 2 \in Nat \ {None}
    BY DEF TypeOK, Tables, RecVars, None
  <2>1. ASSUME NEW t \in Tapes, OpenScope(t) PROVE TypeOK'
    <3>1. scopes' \in Seq(Tapes \cup {NoTape})
      BY <2>1, AppendProperties DEF OpenScope, TypeOK
    <3> QED BY <2>1, <3>1 DEF OpenScope, TypeOK, tapeVars
  <2>2. CASE CloseScope
    <3>1. Len(scopes) \in Nat /\ Len(scopes) # 0 /\ \A k \in 1..Len(scopes) : scopes[k] \in Tapes \cup {NoTape}
      BY <2>2, EmptySeq, LenProperties, ElementOfSeq DEF CloseScope, TypeOK
    <3>2. scopes' \in Seq(Tapes \cup {NoTape})
      BY <2>2, <3>1, SubSeqProperties DEF CloseScope
    <3> QED BY <2>2, <3>1, <3>2 DEF CloseScope, TypeOK, tapeVars
  <2>3. ASSUME NEW t \in Tapes, Create(t) PROVE TypeOK'
    BY <2>0, <2>3 DEF Create, TypeOK, scopeVars
  <2>4. ASSUME NEW t \in Tapes, Destroy(t) PROVE TypeOK'
    <3>1. Tables(table')
      BY <2>0, <2>4, EmptyIsTable, TablesExcept DEF Destroy
    <3> QED BY <2>4, <3>1 DEF Destroy, TypeOK, Tables, None
  <2>5. ASSUME NEW t \in Tapes, Clear(t) PROVE TypeOK'
    <3>1. Tables(table')
      BY <2>0, <2>5, EmptyIsTable, TablesExcept DEF Clear
    <3> QED BY <2>0, <2>5, <3>1 DEF Clear, TypeOK, Tables, scopeVars
  <2>6. ASSUME NEW t \in Tapes, NEW u \in Tapes, Copy(t, u) PROVE TypeOK'
    <3>1. Tables(table')
      BY <2>0, <2>6, TablesExcept DEF Copy, Tables
    <3> QED BY <2>0, <2>6, <3>1 DEF Copy, TypeOK, Tables, scopeVars
  <2>7. ASSUME NEW t \in Tapes, NEW u \in Tapes, Move(t, u) PROVE TypeOK'
    <3>1. Tables(table')
      <4>1. Tables([table EXCEPT ![u] = table[t]])
        BY <2>0, TablesExcept DEF Tables
      <4>2. table' = [[table EXCEPT ![u] = table[t]] EXCEPT ![t] = EmptyTable]
        BY <2>7 DEF Move
      <4> QED BY <4>1, <4>2, EmptyIsTable, TablesExcept
    <3> QED BY <2>0, <2>7, <3>1 DEF Move, TypeOK, Tables, scopeVars
  <2>8. ASSUME NEW t \in Tapes, NEW u \in Tapes, Swap(t, u) PROVE TypeOK'
    <3>1. Tables(table')
      <4>1. Tables([table EXCEPT ![t] = table[u]])
        BY <2>0, TablesExcept DEF Tables
      <4>2. table' = [[table EXCEPT ![t] = table[u]] EXCEPT ![u] = table[t]]
        BY <2>8 DEF Swap
      <4> QED BY <2>0, <4>1, <4>2, TablesExcept DEF Tables
    <3> QED BY <2>8, <3>1 DEF Swap, TypeOK, Tables, scopeVars
  <2>9. ASSUME NEW t \in Tapes, NEW keep \in SUBSET DOMAIN table[t].nodes, Rewrite(t, keep)
        PROVE TypeOK'
    <3>1. IsTable(Rebuilt(table[t], keep))
      BY <2>0, RebuiltIsTable DEF Tables
    <3>2. Tables(table')
      BY <2>0, <2>9, <3>1, TablesExcept DEF Rewrite
    <3> QED BY <2>0, <2>9, <3>2 DEF Rewrite, TypeOK, Tables, scopeVars
  <2>10. ASSUME NEW t \in Tapes, NEW r \in Recs, MakeInput(t, r) PROVE TypeOK'
    <3> DEFINE m == <<"Input", <<serial[t], Len(table[t].nodes) + 1>>>>
               h == [id |-> Len(table[t].nodes) + 1, tape |-> serial[t], bits |-> None,
                     mean |-> m, dep |-> TRUE]
    <3>1. IsTable(table[t]) /\ Len(table[t].nodes) \in Nat
      BY <2>0, GrownReflexive DEF Tables, Grown
    <3>2. Tables(table')
      <4>1. table' = [table EXCEPT ![t] = WithInput(table[t], m)]
        BY <2>10 DEF MakeInput
      <4> HIDE DEF m
      <4>2. IsTable(WithInput(table[t], m))
        BY <3>1, WithInputGrows
      <4> QED BY <2>0, <4>1, <4>2, TablesExcept
    <3>3. IsRec(h)
      BY <3>1 DEF IsRec, TypeOK, None
    <3>4. rec' = [rec EXCEPT ![r] = h]
      BY <2>10 DEF MakeInput
    <3> HIDE DEF h
    <3>5. RecVars(rec')
      BY <2>0, <3>3, <3>4, RecVarsExcept
    <3> QED BY <2>10, <3>2, <3>5 DEF MakeInput, TypeOK, Tables, RecVars, scopeVars
  <2>11. ASSUME NEW t \in Tapes, NEW r \in Recs, RegisterOutput(t, r) PROVE TypeOK'
    <3> DEFINE tb == Placed(table[t], rec[r])
    <3>1. IsTable(tb)
      BY <2>0, PlacedGrows DEF Tables, RecVars
    <3>2. NodeOn(tb, rec[r]) \in Nat
      BY <2>0, <3>1, NodeOnNat DEF RecVars
    <3>3. table' = [table EXCEPT ![t] = [tb EXCEPT !.outs = Append(@, NodeOn(tb, rec[r]))]]
      BY <2>11 DEF RegisterOutput
    <3> HIDE DEF tb
    <3>4. Tables(table')
      BY <2>0, <3>1, <3>2, <3>3, OutputGrows, TablesExcept
    <3> QED BY <2>11, <3>4 DEF RegisterOutput, TypeOK, Tables, scopeVars
  <2>12. ASSUME NEW r \in Recs, NEW b \in Bits, Assign(r, b) PROVE TypeOK'
    <3>1. RecVars(rec')
      BY <2>0, <2>12, DetachedIsRec, RecVarsExcept DEF Assign
    <3> QED BY <2>12, <3>1 DEF Assign, TypeOK, RecVars, tapeVars, scopeVars
  <2>13. ASSUME NEW a \in Recs, NEW b \in Recs, NEW r \in Recs, Binary(a, b, r) PROVE TypeOK'
    <3> DEFINE t1 == Placed(table[current], rec[a])
               t2 == Placed(t1, rec[b])
               args == <<NodeOn(t1, rec[a]), NodeOn(t2, rec[b])>>
               m == <<"Add", rec[a].mean, rec[b].mean>>
               d == rec[a].dep \/ rec[b].dep
               h == [id |-> Len(t2.nodes) + 1, tape |-> serial[current], bits |-> None,
                     mean |-> m, dep |-> d]
    <3>0. current \in Tapes
      BY <2>13 DEF Binary, TypeOK
    <3>1. IsTable(t1)
      BY <2>0, <3>0, PlacedGrows DEF Tables, RecVars
    <3>2. IsTable(t2) /\ Len(t2.nodes) \in Nat
      BY <2>0, <3>1, PlacedGrows, GrownReflexive DEF RecVars, Grown
    <3>3. /\ table' = [table EXCEPT ![current] = WithBinary(t2, args, m)]
          /\ rec' = [rec EXCEPT ![r] = h]
      BY <2>13 DEF Binary
    <3>4. d \in BOOLEAN
      BY <2>0 DEF RecVars, IsRec
    <3>5. serial[current] \in Nat
      BY <3>0 DEF TypeOK
    <3> HIDE DEF t1, t2, args, m, d
    <3>6. IsRec(h)
      BY <3>2, <3>4, <3>5 DEF IsRec, None
    <3>7. Tables(table')
      BY <2>0, <3>0, <3>2, <3>3, WithBinaryGrows, TablesExcept
    <3> HIDE DEF h
    <3>8. RecVars(rec')
      BY <2>0, <3>3, <3>6, RecVarsExcept
    <3> QED BY <2>13, <3>7, <3>8 DEF Binary, TypeOK, Tables, RecVars, scopeVars
  <2>14. ASSUME NEW a \in Recs, NEW b \in Recs, BinaryThrows(a, b) PROVE TypeOK'
    <3>0. current \in Tapes
      BY <2>14 DEF BinaryThrows, TypeOK
    <3>1. IsTable(Placed(table[current], rec[a]))
      BY <2>0, <3>0, PlacedGrows DEF Tables, RecVars
    <3>2. Tables(table')
      BY <2>0, <2>14, <3>0, <3>1, TablesExcept DEF BinaryThrows
    <3> QED BY <2>14, <3>2 DEF BinaryThrows, TypeOK, Tables, scopeVars
  <2>15. ASSUME NEW r \in Recs, Look(r) PROVE TypeOK'
    <3>1. looked' \in BOOLEAN
      BY <2>0, <2>15 DEF Look, TypeOK, RecVars, IsRec
    <3> QED BY <2>15, <3>1 DEF Look, TypeOK, tapeVars, scopeVars
  <2>16. CASE UNCHANGED vars
    BY <2>16 DEF TypeOK, vars, tapeVars, scopeVars
  <2> QED
    BY <2>1, <2>2, <2>3, <2>4, <2>5, <2>6, <2>7, <2>8, <2>9, <2>10, <2>11, <2>12, <2>13,
       <2>14, <2>15, <2>16 DEF Next
<1> QED BY <1>1, <1>2, PTL DEF Spec

(***************************************************************************)
(* Serials.  Every action that gives a table a serial takes a fresh one or *)
(* moves one from another table, so live tables never share one.           *)
(***************************************************************************)
THEOREM SerialsCorrect == Spec => []SerialsDistinct
<1>1. Init => SerialsDistinct
  BY DetachedIsRec DEF Init, SerialsDistinct, None, Detached
<1>2. TypeOK /\ SerialsDistinct /\ [Next]_vars => SerialsDistinct'
  <2> SUFFICES ASSUME TypeOK, SerialsDistinct, [Next]_vars PROVE SerialsDistinct'
    OBVIOUS
  <2> USE DEF SerialsDistinct
  <2>0. /\ nextSerial \in Nat /\ serial \in [Tapes -> Nat] /\ alive \subseteq Tapes
        /\ RecVars(rec) /\ \A r \in Recs : rec[r].tape \in Nat
        /\ current \in Tapes \cup {NoTape} /\ NoTape \notin Tapes
        /\ Len(scopes) \in Nat /\ DOMAIN scopes = 1..Len(scopes)
    BY RecordingAssumption, LenProperties DEF TypeOK, RecVars, IsRec
  <2>1. ASSUME NEW t \in Tapes, OpenScope(t) PROVE SerialsDistinct'
    <3>1. \A k \in DOMAIN scopes' : scopes'[k] \in alive \cup {NoTape}
      <4>1. /\ Len(scopes') = Len(scopes) + 1 /\ scopes' \in Seq(Tapes \cup {NoTape})
            /\ \A k \in 1..Len(scopes) : scopes'[k] = scopes[k]
            /\ scopes'[Len(scopes) + 1] = current
        BY <2>0, <2>1, AppendProperties DEF OpenScope, TypeOK
      <4>2. DOMAIN scopes' = 1..(Len(scopes) + 1)
        BY <4>1, LenProperties
      <4> QED BY <2>0, <4>1, <4>2
    <3> QED BY <2>0, <2>1, <3>1 DEF OpenScope, tapeVars
  <2>2. CASE CloseScope
    <3>1. Len(scopes) # 0 /\ current' = scopes[Len(scopes)]
      BY <2>2, EmptySeq DEF CloseScope, TypeOK
    <3>2. current' \in alive \cup {NoTape}
      BY <2>0, <3>1
    <3>3. \A k \in DOMAIN scopes' : scopes'[k] \in alive \cup {NoTape}
      <4>1. \A k \in 1..(Len(scopes) - 1) : scopes[k] \in alive \cup {NoTape}
        BY <2>0
      <4>2. scopes' \in Seq(alive \cup {NoTape})
        BY <2>0, <2>2, <4>1, SubSeqProperties DEF CloseScope
      <4> QED BY <4>2, ElementOfSeq, LenProperties
    <3> QED BY <2>2, <3>2, <3>3 DEF CloseScope, tapeVars
  <2>3. ASSUME NEW t \in Tapes, Create(t) PROVE SerialsDistinct'
    <3>1. /\ alive' = alive \cup {t} /\ serial'[t] = nextSerial /\ nextSerial' = nextSerial + 1
          /\ \A u \in alive : u # t /\ serial'[u] = serial[u]
          /\ UNCHANGED <<rec, current, scopes>>
      BY <2>0, <2>3 DEF Create, scopeVars
    <3>2. \A u \in alive' : serial'[u] \in 1..(nextSerial' - 1)
      <4>1. nextSerial > 0
        BY DEF TypeOK, None
      <4> QED BY <2>0, <3>1, <4>1
    <3>3. \A u, v \in alive' : serial'[u] = serial'[v] => u = v
      BY <2>0, <3>1
    <3> QED BY <2>0, <3>1, <3>2, <3>3
  <2>4. ASSUME NEW t \in Tapes, Destroy(t) PROVE SerialsDistinct'
    BY <2>0, <2>4 DEF Destroy
  <2>5. ASSUME NEW t \in Tapes, Clear(t) PROVE SerialsDistinct'
    BY <2>0, <2>5 DEF Clear, scopeVars
  <2>6. ASSUME NEW t \in Tapes, NEW u \in Tapes, Copy(t, u) PROVE SerialsDistinct'
    BY <2>0, <2>6 DEF Copy, scopeVars
  <2>7. ASSUME NEW t \in Tapes, NEW u \in Tapes, Move(t, u) PROVE SerialsDistinct'
    BY <2>0, <2>7 DEF Move, scopeVars
  <2>8. ASSUME NEW t \in Tapes, NEW u \in Tapes, Swap(t, u) PROVE SerialsDistinct'
    BY <2>0, <2>8 DEF Swap, scopeVars
  <2>9. ASSUME NEW t \in Tapes, NEW keep \in SUBSET DOMAIN table[t].nodes, Rewrite(t, keep)
        PROVE SerialsDistinct'
    BY <2>0, <2>9 DEF Rewrite, scopeVars
  <2>10. ASSUME NEW t \in Tapes, NEW r \in Recs, MakeInput(t, r) PROVE SerialsDistinct'
    <3>1. \A q \in Recs : rec'[q].tape \in {rec[q].tape, serial[t]}
      BY <2>0, <2>10 DEF MakeInput, RecVars
    <3>2. t \in alive /\ UNCHANGED <<alive, serial, nextSerial, scopeVars>>
      BY <2>10 DEF MakeInput
    <3> QED BY <2>0, <3>1, <3>2 DEF scopeVars
  <2>11. ASSUME NEW t \in Tapes, NEW r \in Recs, RegisterOutput(t, r) PROVE SerialsDistinct'
    BY <2>11 DEF RegisterOutput, scopeVars
  <2>12. ASSUME NEW r \in Recs, NEW b \in Bits, Assign(r, b) PROVE SerialsDistinct'
    <3>1. \A q \in Recs : rec'[q].tape \in {rec[q].tape, None}
      BY <2>0, <2>12, DetachedIsRec DEF Assign, RecVars
    <3>2. \A q \in Recs : rec'[q].tape < nextSerial
      BY <2>0, <3>1 DEF None
    <3> QED BY <2>12, <3>2 DEF Assign, tapeVars, scopeVars
  <2>13. ASSUME NEW a \in Recs, NEW b \in Recs, NEW r \in Recs, Binary(a, b, r)
         PROVE SerialsDistinct'
    <3>1. \A q \in Recs : rec'[q].tape \in {rec[q].tape, serial[current]}
      BY <2>0, <2>13 DEF Binary, RecVars
    <3>2. current \in alive /\ UNCHANGED <<alive, serial, nextSerial, scopeVars>>
      BY <2>13 DEF Binary
    <3> QED BY <2>0, <3>1, <3>2 DEF scopeVars
  <2>14. ASSUME NEW a \in Recs, NEW b \in Recs, BinaryThrows(a, b) PROVE SerialsDistinct'
    BY <2>14 DEF BinaryThrows, scopeVars
  <2>15. ASSUME NEW r \in Recs, Look(r) PROVE SerialsDistinct'
    BY <2>15 DEF Look, tapeVars, scopeVars
  <2>16. CASE UNCHANGED vars
    BY <2>16 DEF vars, tapeVars, scopeVars
  <2> QED
    BY <2>1, <2>2, <2>3, <2>4, <2>5, <2>6, <2>7, <2>8, <2>9, <2>10, <2>11, <2>12, <2>13,
       <2>14, <2>15, <2>16 DEF Next
<1> QED BY <1>1, <1>2, TypeCorrect, PTL DEF Spec

(***************************************************************************)
(* What one step does to the live tables.  Kept(v): after the step the     *)
(* tape v bears a serial never handed out before, or the serial of a table *)
(* that was live before the step and of which v's table is a continuation. *)
(***************************************************************************)
Kept(v) ==
  \/ serial'[v] \in {nextSerial, nextSerial + 1}
  \/ \E w \in alive : serial[w] = serial'[v] /\ Grown(table[w], table'[v])

LEMMA StepKeepsTables ==
  TypeOK /\ SerialsDistinct /\ [Next]_vars => \A v \in alive' : Kept(v)
<1> SUFFICES ASSUME TypeOK, SerialsDistinct, [Next]_vars PROVE \A v \in alive' : Kept(v)
  OBVIOUS
<1> USE DEF Kept
<1>a. /\ alive \subseteq Tapes /\ Tables(table) /\ RecVars(rec) /\ serial \in [Tapes -> Nat]
      /\ current \in alive \cup {NoTape} /\ NoTape \notin Tapes
      /\ \A v \in Tapes : Grown(table[v], table[v])
  BY RecordingAssumption, GrownReflexive DEF TypeOK, SerialsDistinct, Tables, RecVars
(* Emission on one live table: the others are as they were.                *)
<1>b. ASSUME NEW t \in alive, NEW tc, Grown(table[t], tc), table' = [table EXCEPT ![t] = tc],
             alive' = alive, serial' = serial
      PROVE  \A v \in alive' : Kept(v)
  <2>1. table'[t] = tc /\ \A v \in Tapes \ {t} : table'[v] = table[v]
    BY <1>a, <1>b DEF Tables
  <2> QED BY <1>a, <1>b, <2>1
<1>1. ASSUME NEW t \in Tapes, OpenScope(t) PROVE \A v \in alive' : Kept(v)
  BY <1>a, <1>1 DEF OpenScope, tapeVars
<1>2. CASE CloseScope
  BY <1>a, <1>2 DEF CloseScope, tapeVars
<1>3. ASSUME NEW t \in Tapes, Create(t)
        PROVE \A v \in alive' : Kept(v)
  <2>1. serial'[t] = nextSerial /\ \A v \in Tapes \ {t} : table'[v] = table[v] /\ serial'[v] = serial[v]
    BY <1>a, <1>3 DEF Create, Tables
  <2> QED BY <1>a, <1>3, <2>1 DEF Create
<1>4. ASSUME NEW t \in Tapes, Destroy(t)
        PROVE \A v \in alive' : Kept(v)
  <2>1. \A v \in Tapes \ {t} : table'[v] = table[v] /\ serial'[v] = serial[v]
    BY <1>a, <1>4 DEF Destroy, Tables
  <2> QED BY <1>a, <1>4, <2>1 DEF Destroy
<1>5. ASSUME NEW t \in Tapes, Clear(t)
        PROVE \A v \in alive' : Kept(v)
  <2>1. serial'[t] = nextSerial /\ \A v \in Tapes \ {t} : table'[v] = table[v] /\ serial'[v] = serial[v]
    BY <1>a, <1>5 DEF Clear, Tables
  <2> QED BY <1>a, <1>5, <2>1 DEF Clear
<1>6. ASSUME NEW t \in Tapes, NEW u \in Tapes, Copy(t, u)
        PROVE \A v \in alive' : Kept(v)
  <2>1. serial'[u] = nextSerial /\ \A v \in Tapes \ {u} : table'[v] = table[v] /\ serial'[v] = serial[v]
    BY <1>a, <1>6 DEF Copy, Tables
  <2> QED BY <1>a, <1>6, <2>1 DEF Copy
<1>7. ASSUME NEW t \in Tapes, NEW u \in Tapes, Move(t, u)
        PROVE \A v \in alive' : Kept(v)
  <2>1. /\ t # u /\ table'[u] = table[t] /\ serial'[u] = serial[t]
        /\ serial'[t] = nextSerial
        /\ \A v \in Tapes \ {t, u} : table'[v] = table[v] /\ serial'[v] = serial[v]
    BY <1>a, <1>7 DEF Move, Tables
  <2> QED BY <1>a, <1>7, <2>1 DEF Move
<1>8. ASSUME NEW t \in Tapes, NEW u \in Tapes, Swap(t, u)
        PROVE \A v \in alive' : Kept(v)
  <2>1. /\ t # u /\ table'[u] = table[t] /\ table'[t] = table[u]
        /\ serial'[u] = serial[t] /\ serial'[t] = serial[u]
        /\ \A v \in Tapes \ {t, u} : table'[v] = table[v] /\ serial'[v] = serial[v]
    BY <1>a, <1>8 DEF Swap, Tables
  <2> QED BY <1>a, <1>8, <2>1 DEF Swap
<1>9. ASSUME NEW t \in Tapes, NEW keep \in SUBSET DOMAIN table[t].nodes, Rewrite(t, keep)
        PROVE \A v \in alive' : Kept(v)
  <2>1. serial'[t] = nextSerial + 1 /\ \A v \in Tapes \ {t} : table'[v] = table[v] /\ serial'[v] = serial[v]
    BY <1>a, <1>9 DEF Rewrite, Tables
  <2> QED BY <1>a, <1>9, <2>1 DEF Rewrite
<1>10. ASSUME NEW t \in Tapes, NEW r \in Recs, MakeInput(t, r)
      PROVE  \A v \in alive' : Kept(v)
  <2> DEFINE m == <<"Input", <<serial[t], Len(table[t].nodes) + 1>>>>
  <2>1. table' = [table EXCEPT ![t] = WithInput(table[t], m)]
    BY <1>10 DEF MakeInput
  <2>2. t \in alive /\ alive' = alive /\ serial' = serial
    BY <1>10 DEF MakeInput
  <2> HIDE DEF m
  <2>3. Grown(table[t], WithInput(table[t], m))
    BY <1>a, WithInputGrows DEF Tables
  <2> QED BY <1>b, <2>1, <2>2, <2>3
<1>11. ASSUME NEW t \in Tapes, NEW r \in Recs, RegisterOutput(t, r)
      PROVE  \A v \in alive' : Kept(v)
  <2> DEFINE tb == Placed(table[t], rec[r])
             tc == [tb EXCEPT !.outs = Append(@, NodeOn(tb, rec[r]))]
  <2>1. IsTable(tb) /\ Grown(table[t], tb) /\ NodeOn(tb, rec[r]) \in Nat
    BY <1>a, PlacedGrows, NodeOnNat DEF Tables, RecVars
  <2>2. /\ table' = [table EXCEPT ![t] = tc]
        /\ t \in alive /\ alive' = alive /\ serial' = serial
    BY <1>11 DEF RegisterOutput
  <2> HIDE DEF tb
  <2>3. Grown(tb, tc)
    BY <2>1, OutputGrows
  <2> HIDE DEF tc
  <2>4. Grown(table[t], tc)
    BY <2>1, <2>3, GrownTransitive
  <2> QED BY <1>b, <2>2, <2>4
<1>12. ASSUME NEW r \in Recs, NEW b \in Bits, Assign(r, b) PROVE \A v \in alive' : Kept(v)
  BY <1>a, <1>12 DEF Assign, tapeVars
<1>13. ASSUME NEW a \in Recs, NEW b \in Recs, NEW r \in Recs, Binary(a, b, r)
      PROVE  \A v \in alive' : Kept(v)
  <2> DEFINE t1 == Placed(table[current], rec[a])
             t2 == Placed(t1, rec[b])
             args == <<NodeOn(t1, rec[a]), NodeOn(t2, rec[b])>>
             m == <<"Add", rec[a].mean, rec[b].mean>>
             tc == WithBinary(t2, args, m)
  <2>1. /\ table' = [table EXCEPT ![current] = tc]
        /\ current \in alive /\ alive' = alive /\ serial' = serial
    BY <1>a, <1>13 DEF Binary
  <2>2. IsTable(t1) /\ Grown(table[current], t1)
    BY <1>a, <2>1, PlacedGrows DEF Tables, RecVars
  <2>3. IsTable(t2) /\ Grown(t1, t2)
    BY <1>a, <2>2, PlacedGrows DEF RecVars
  <2> HIDE DEF t1, t2, args, m
  <2>4. Grown(t2, tc)
    BY <2>3, WithBinaryGrows
  <2> HIDE DEF tc
  <2>5. Grown(table[current], tc)
    BY <2>2, <2>3, <2>4, GrownTransitive
  <2> QED BY <1>b, <2>1, <2>5
<1>14. ASSUME NEW a \in Recs, NEW b \in Recs, BinaryThrows(a, b)
      PROVE  \A v \in alive' : Kept(v)
  <2> DEFINE tc == Placed(table[current], rec[a])
  <2>1. /\ table' = [table EXCEPT ![current] = tc]
        /\ current \in alive /\ alive' = alive /\ serial' = serial
    BY <1>a, <1>14 DEF BinaryThrows
  <2>2. Grown(table[current], tc)
    BY <1>a, <2>1, PlacedGrows DEF Tables, RecVars
  <2> HIDE DEF tc
  <2> QED BY <1>b, <2>1, <2>2
<1>15. ASSUME NEW r \in Recs, Look(r) PROVE \A v \in alive' : Kept(v)
  BY <1>a, <1>15 DEF Look, tapeVars
<1>16. CASE UNCHANGED vars
  BY <1>a, <1>16 DEF vars, tapeVars
<1> QED
  BY <1>1, <1>2, <1>3, <1>4, <1>5, <1>6, <1>7, <1>8, <1>9, <1>10, <1>11, <1>12, <1>13,
     <1>14, <1>15, <1>16 DEF Next

(***************************************************************************)
(* NoAlias.  A handle r is sound when every live table that bears its      *)
(* serial has the node it was recorded as.                                 *)
(***************************************************************************)
Sound(r, liv, ser, f) ==
  \A t \in liv : r.id # None /\ r.tape = ser[t] =>
    r.id <= Len(f[t].nodes) /\ f[t].nodes[r.id].mean = r.mean

(* A handle just recorded on t, the only live table of its serial.         *)
LEMMA SoundNew ==
  ASSUME NEW r, NEW liv, NEW ser, NEW f, NEW t \in liv,
         \A u \in liv : ser[u] = ser[t] => u = t,
         r.tape = ser[t], r.id <= Len(f[t].nodes), f[t].nodes[r.id].mean = r.mean
  PROVE  Sound(r, liv, ser, f)
BY DEF Sound

(* A handle that was sound stays sound through a step that keeps tables.   *)
LEMMA SoundKept ==
  ASSUME NEW r, r.id \in Nat, r.tape \in Nat, r.tape < nextSerial, nextSerial \in Nat,
         Sound(r, alive, serial, table), \A v \in alive' : Kept(v)
  PROVE  Sound(r, alive', serial', table')
<1> SUFFICES ASSUME NEW v \in alive', r.id # None, r.tape = serial'[v]
             PROVE  r.id <= Len(table'[v].nodes) /\ table'[v].nodes[r.id].mean = r.mean
  BY DEF Sound
<1>1. PICK w \in alive : serial[w] = serial'[v] /\ Grown(table[w], table'[v])
  BY DEF Kept
<1>2. r.id <= Len(table[w].nodes) /\ table[w].nodes[r.id].mean = r.mean
  BY <1>1 DEF Sound
<1>3. r.id \in 1..Len(table[w].nodes)
  BY <1>1, <1>2 DEF Grown, None
<1> QED BY <1>1, <1>2, <1>3 DEF Grown

(* No step leaves a stale handle that a tape would accept: a handle and a  *)
(* live table that agree on the serial agree on the node.                  *)
THEOREM NoAliasCorrect == Spec => []NoAlias
<1>1. Init => NoAlias
  BY DetachedIsRec DEF Init, NoAlias
<1>2. TypeOK /\ SerialsDistinct /\ NoAlias /\ [Next]_vars => NoAlias'
  <2> SUFFICES ASSUME TypeOK, SerialsDistinct, NoAlias, [Next]_vars
               PROVE  \A q \in Recs : Sound(rec'[q], alive', serial', table')
    BY DEF NoAlias, Sound
  <2>1. /\ nextSerial \in Nat /\ alive \subseteq Tapes
        /\ Tables(table) /\ RecVars(rec) /\ NoTape \notin Tapes
        /\ current \in alive \cup {NoTape}
        /\ \A t, u \in alive : serial[t] = serial[u] => t = u
    BY RecordingAssumption DEF TypeOK, RecVars, Tables, SerialsDistinct
  <2>2. \A q \in Recs : Sound(rec[q], alive', serial', table')
    <3>1. \A q \in Recs : rec[q].tape \in Nat /\ rec[q].id \in Nat /\ rec[q].tape < nextSerial
      BY <2>1 DEF RecVars, IsRec, SerialsDistinct
    <3>2. \A q \in Recs : Sound(rec[q], alive, serial, table)
      BY DEF NoAlias, Sound
    <3>3. \A v \in alive' : Kept(v)
      BY StepKeepsTables
    <3> QED BY <2>1, <3>1, <3>2, <3>3, SoundKept
  <2>3. CASE rec' = rec
    BY <2>2, <2>3
  <2>4. ASSUME NEW r \in Recs, NEW b \in Bits, Assign(r, b)
        PROVE  \A q \in Recs : Sound(rec'[q], alive', serial', table')
    <3>1. \A q \in Recs : rec'[q] = rec[q] \/ rec'[q].id = None
      BY <2>1, <2>4, DetachedIsRec DEF Assign, RecVars
    <3> QED BY <2>2, <3>1 DEF Sound
  <2>5. ASSUME NEW t \in Tapes, NEW r \in Recs, MakeInput(t, r)
        PROVE  \A q \in Recs : Sound(rec'[q], alive', serial', table')
    <3> DEFINE n == Len(table[t].nodes) + 1
               m == <<"Input", <<serial[t], n>>>>
               tc == WithInput(table[t], m)
    <3>1. Len(tc.nodes) = n /\ tc.nodes[n].mean = m /\ n \in Nat
      <4>1. IsTable(table[t]) /\ Len(table[t].nodes) \in Nat
        BY <2>1, GrownReflexive DEF Tables, Grown
      <4> HIDE DEF m
      <4> QED BY <4>1, WithInputGrows
    <3>2. rec' = [rec EXCEPT ![r] = [id |-> n, tape |-> serial[t], bits |-> None,
                                     mean |-> m, dep |-> TRUE]]
      BY <2>5 DEF MakeInput
    <3>3. table' = [table EXCEPT ![t] = tc] /\ t \in alive /\ alive' = alive /\ serial' = serial
      BY <2>5 DEF MakeInput
    <3> HIDE DEF n, m, tc
    <3>4. /\ \A q \in Recs \ {r} : rec'[q] = rec[q]
          /\ rec'[r].id = n /\ rec'[r].tape = serial[t] /\ rec'[r].mean = m
      BY <2>1, <3>2 DEF RecVars
    <3>5. n <= Len(table'[t].nodes) /\ table'[t].nodes[n].mean = m
      BY <2>1, <3>1, <3>3 DEF Tables
    <3>6. \A u \in alive' : serial'[u] = serial'[t] => u = t
      BY <2>1, <3>3
    <3>7. Sound(rec'[r], alive', serial', table')
      BY <3>3, <3>4, <3>5, <3>6, SoundNew
    <3> QED BY <2>2, <3>4, <3>7
  <2>6. ASSUME NEW a \in Recs, NEW b \in Recs, NEW r \in Recs, Binary(a, b, r)
        PROVE  \A q \in Recs : Sound(rec'[q], alive', serial', table')
    <3> DEFINE t1 == Placed(table[current], rec[a])
               t2 == Placed(t1, rec[b])
               args == <<NodeOn(t1, rec[a]), NodeOn(t2, rec[b])>>
               m == <<"Add", rec[a].mean, rec[b].mean>>
               d == rec[a].dep \/ rec[b].dep
               n == Len(t2.nodes) + 1
               tc == WithBinary(t2, args, m)
    <3>1. /\ table' = [table EXCEPT ![current] = tc]
          /\ current \in alive /\ alive' = alive /\ serial' = serial
      BY <2>1, <2>6 DEF Binary
    <3>2. rec' = [rec EXCEPT ![r] = [id |-> n, tape |-> serial[current], bits |-> None,
                                     mean |-> m, dep |-> d]]
      BY <2>6 DEF Binary
    <3>3. IsTable(t2) /\ Len(t2.nodes) \in Nat
      BY <2>1, <3>1, PlacedGrows, GrownReflexive DEF Tables, RecVars, Grown
    <3> HIDE DEF t1, t2, args, m, d
    <3>4. Len(tc.nodes) = n /\ tc.nodes[n].mean = m /\ n \in Nat
      BY <3>3, WithBinaryGrows
    <3> HIDE DEF n, tc
    <3>5. /\ \A q \in Recs \ {r} : rec'[q] = rec[q]
          /\ rec'[r].id = n /\ rec'[r].tape = serial[current] /\ rec'[r].mean = m
      BY <2>1, <3>2 DEF RecVars
    <3>6. n <= Len(table'[current].nodes) /\ table'[current].nodes[n].mean = m
      BY <2>1, <3>1, <3>4 DEF Tables
    <3>7. \A u \in alive' : serial'[u] = serial'[current] => u = current
      BY <2>1, <3>1
    <3>8. Sound(rec'[r], alive', serial', table')
      BY <3>1, <3>5, <3>6, <3>7, SoundNew
    <3> QED BY <2>2, <3>5, <3>8
  <2> QED
    BY <2>3, <2>4, <2>5, <2>6
       DEF Next, OpenScope, CloseScope, Create, Destroy, Clear, Copy, Move, Swap, Rewrite,
           RegisterOutput, BinaryThrows, Look, vars
<1> QED BY <1>1, <1>2, TypeCorrect, SerialsCorrect, PTL DEF Spec

(* The table that bears a serial only ever grows while the serial is in    *)
(* use, through moves and swaps too.                                       *)
THEOREM TablesOnlyGrowCorrect == Spec => TablesOnlyGrow
<1> DEFINE Grow == \A t \in alive, u \in alive' : serial'[u] = serial[t] =>
               /\ Len(table[t].nodes) <= Len(table'[u].nodes)
               /\ \A i \in DOMAIN table[t].nodes : table'[u].nodes[i] = table[t].nodes[i]
<1>1. TypeOK /\ SerialsDistinct /\ [Next]_vars => Grow
  <2> SUFFICES ASSUME TypeOK, SerialsDistinct, [Next]_vars,
                      NEW t \in alive, NEW u \in alive', serial'[u] = serial[t]
               PROVE  /\ Len(table[t].nodes) <= Len(table'[u].nodes)
                      /\ \A i \in DOMAIN table[t].nodes : table'[u].nodes[i] = table[t].nodes[i]
    OBVIOUS
  <2>1. Kept(u)
    BY StepKeepsTables
  <2>2. serial'[u] \notin {nextSerial, nextSerial + 1}
    BY DEF SerialsDistinct, TypeOK
  <2>3. PICK w \in alive : serial[w] = serial'[u] /\ Grown(table[w], table'[u])
    BY <2>1, <2>2 DEF Kept
  <2>4. w = t
    BY <2>3 DEF SerialsDistinct
  <2> QED BY <2>3, <2>4 DEF Grown
<1> QED BY <1>1, TypeCorrect, SerialsCorrect, PTL DEF Spec, TablesOnlyGrow
(***************************************************************************)
(* NoPeek.  A handle r is marked when, if its value depends on an input,   *)
(* it is recorded and every live table that bears its serial has its node, *)
(* tainted.                                                                *)
(***************************************************************************)
Marked(r, liv, ser, f) ==
  /\ r.dep => r.id # None
  /\ \A t \in liv : r.dep /\ r.tape = ser[t] =>
       r.id <= Len(f[t].nodes) /\ f[t].nodes[r.id].tainted

(* A handle just recorded on t, the only live table of its serial.         *)
LEMMA MarkedNew ==
  ASSUME NEW r, NEW liv, NEW ser, NEW f, NEW t \in liv,
         \A u \in liv : ser[u] = ser[t] => u = t,
         r.id # None, r.tape = ser[t], r.id <= Len(f[t].nodes),
         r.dep => f[t].nodes[r.id].tainted
  PROVE  Marked(r, liv, ser, f)
BY DEF Marked

(* A handle that was marked stays marked through a step that keeps tables. *)
LEMMA MarkedKept ==
  ASSUME NEW r, r.id \in Nat, r.tape \in Nat, r.tape < nextSerial, nextSerial \in Nat,
         Marked(r, alive, serial, table), \A v \in alive' : Kept(v)
  PROVE  Marked(r, alive', serial', table')
<1> SUFFICES ASSUME NEW v \in alive', r.dep, r.tape = serial'[v]
             PROVE  r.id <= Len(table'[v].nodes) /\ table'[v].nodes[r.id].tainted
  BY DEF Marked
<1>1. PICK w \in alive : serial[w] = serial'[v] /\ Grown(table[w], table'[v])
  BY DEF Kept
<1>2. r.id # None /\ r.id <= Len(table[w].nodes) /\ table[w].nodes[r.id].tainted
  BY <1>1 DEF Marked
<1>3. r.id \in 1..Len(table[w].nodes)
  BY <1>1, <1>2 DEF Grown, None
<1> QED BY <1>1, <1>2, <1>3 DEF Grown

(* Taint travels with dependence: the node of a sum is tainted when an     *)
(* operand's value depends on an input.                                    *)
LEMMA SumMarked ==
  ASSUME NEW tb, IsTable(tb), NEW a, IsRec(a), NEW b, IsRec(b), NEW t,
         NEW liv, NEW ser, NEW f, t \in liv, f[t] = tb,
         Marked(a, liv, ser, f), Marked(b, liv, ser, f),
         a.dep => a.tape = ser[t], b.dep => b.tape = ser[t],
         a.dep \/ b.dep
  PROVE  LET t1 == Placed(tb, a)
             t2 == Placed(t1, b)
         IN TaintFrom(t2, <<NodeOn(t1, a), NodeOn(t2, b)>>)
<1> DEFINE t1 == Placed(tb, a)
           t2 == Placed(t1, b)
           args == <<NodeOn(t1, a), NodeOn(t2, b)>>
<1>1. IsTable(t1) /\ Grown(tb, t1)
  BY PlacedGrows
<1>2. IsTable(t2) /\ Grown(t1, t2)
  BY <1>1, PlacedGrows
<1>3. Grown(tb, t2)
  BY <1>1, <1>2, GrownTransitive
<1>4. ASSUME a.dep PROVE args[1] = a.id /\ t2.nodes[a.id].tainted
  <2>1. a.id # None /\ a.id <= Len(tb.nodes) /\ tb.nodes[a.id].tainted /\ a.id \in Nat
    BY <1>4 DEF Marked, IsRec
  <2> HIDE DEF t2
  <2>2. t2.nodes[a.id] = tb.nodes[a.id]
    BY <1>3, <2>1 DEF Grown, None
  <2> QED BY <2>1, <2>2 DEF NodeOn
<1>5. ASSUME b.dep PROVE args[2] = b.id /\ t2.nodes[b.id].tainted
  <2>1. b.id # None /\ b.id <= Len(tb.nodes) /\ tb.nodes[b.id].tainted /\ b.id \in Nat
    BY <1>5 DEF Marked, IsRec
  <2> HIDE DEF t2
  <2>2. t2.nodes[b.id] = tb.nodes[b.id]
    BY <1>3, <2>1 DEF Grown, None
  <2> QED BY <2>1, <2>2 DEF NodeOn
<1>6. 1 \in DOMAIN args /\ 2 \in DOMAIN args
  OBVIOUS
<1> HIDE DEF args, t1, t2
<1>7. \E k \in DOMAIN args : t2.nodes[args[k]].tainted
  BY <1>4, <1>5, <1>6
<1> QED BY <1>7 DEF TaintFrom, args, t1, t2

(* Every Rec is marked, whatever the maths, the containers and the passes  *)
(* do with the tapes.                                                      *)
AllMarked == \A q \in Recs : Marked(rec[q], alive, serial, table)

THEOREM AllMarkedCorrect == Spec => []AllMarked
<1>1. Init => AllMarked
  <2>1. \A b \in Bits : Detached(b).dep = FALSE
    BY DEF Detached
  <2> QED BY <2>1 DEF Init, AllMarked, Marked
<1>2. TypeOK /\ SerialsDistinct /\ AllMarked /\ [Next]_vars => AllMarked'
  <2> SUFFICES ASSUME TypeOK, SerialsDistinct, AllMarked, [Next]_vars
               PROVE  \A q \in Recs : Marked(rec'[q], alive', serial', table')
    BY DEF AllMarked
  <2>1. /\ nextSerial \in Nat /\ alive \subseteq Tapes
        /\ Tables(table) /\ RecVars(rec) /\ NoTape \notin Tapes
        /\ current \in alive \cup {NoTape}
        /\ \A t, u \in alive : serial[t] = serial[u] => t = u
    BY RecordingAssumption DEF TypeOK, RecVars, Tables, SerialsDistinct
  <2>2. \A q \in Recs : Marked(rec[q], alive', serial', table')
    <3>1. \A q \in Recs : rec[q].tape \in Nat /\ rec[q].id \in Nat /\ rec[q].tape < nextSerial
      BY <2>1 DEF RecVars, IsRec, SerialsDistinct
    <3>2. \A v \in alive' : Kept(v)
      BY StepKeepsTables
    <3> QED BY <2>1, <3>1, <3>2, MarkedKept DEF AllMarked
  <2>3. CASE rec' = rec
    BY <2>2, <2>3
  <2>4. ASSUME NEW r \in Recs, NEW b \in Bits, Assign(r, b)
        PROVE  \A q \in Recs : Marked(rec'[q], alive', serial', table')
    <3>1. Detached(b).dep = FALSE
      BY DEF Detached
    <3>2. \A q \in Recs : rec'[q] = rec[q] \/ rec'[q].dep = FALSE
      BY <2>1, <2>4, <3>1 DEF Assign, RecVars
    <3> QED BY <2>2, <3>2 DEF Marked
  <2>5. ASSUME NEW t \in Tapes, NEW r \in Recs, MakeInput(t, r)
        PROVE  \A q \in Recs : Marked(rec'[q], alive', serial', table')
    <3> DEFINE n == Len(table[t].nodes) + 1
               m == <<"Input", <<serial[t], n>>>>
               tc == WithInput(table[t], m)
    <3>1. Len(tc.nodes) = n /\ tc.nodes[n].tainted = TRUE /\ n \in Nat /\ n # None
      <4>1. IsTable(table[t]) /\ Len(table[t].nodes) \in Nat
        BY <2>1, GrownReflexive DEF Tables, Grown
      <4>2. InputNode(table[t], m).tainted = TRUE
        BY DEF InputNode
      <4> HIDE DEF m
      <4> QED BY <4>1, <4>2, WithInputGrows DEF None
    <3>2. rec' = [rec EXCEPT ![r] = [id |-> n, tape |-> serial[t], bits |-> None,
                                     mean |-> m, dep |-> TRUE]]
      BY <2>5 DEF MakeInput
    <3>3. table' = [table EXCEPT ![t] = tc] /\ t \in alive /\ alive' = alive /\ serial' = serial
      BY <2>5 DEF MakeInput
    <3> HIDE DEF n, m, tc
    <3>4. /\ \A q \in Recs \ {r} : rec'[q] = rec[q]
          /\ rec'[r].id = n /\ rec'[r].tape = serial[t]
      BY <2>1, <3>2 DEF RecVars
    <3>5. n <= Len(table'[t].nodes) /\ table'[t].nodes[n].tainted
      BY <2>1, <3>1, <3>3 DEF Tables
    <3>6. \A u \in alive' : serial'[u] = serial'[t] => u = t
      BY <2>1, <3>3
    <3>7. Marked(rec'[r], alive', serial', table')
      BY <3>1, <3>3, <3>4, <3>5, <3>6, MarkedNew
    <3> QED BY <2>2, <3>4, <3>7
  <2>6. ASSUME NEW a \in Recs, NEW b \in Recs, NEW r \in Recs, Binary(a, b, r)
        PROVE  \A q \in Recs : Marked(rec'[q], alive', serial', table')
    <3> DEFINE tb == table[current]
               t1 == Placed(tb, rec[a])
               t2 == Placed(t1, rec[b])
               args == <<NodeOn(t1, rec[a]), NodeOn(t2, rec[b])>>
               m == <<"Add", rec[a].mean, rec[b].mean>>
               d == rec[a].dep \/ rec[b].dep
               n == Len(t2.nodes) + 1
               tc == WithBinary(t2, args, m)
    <3>1. /\ table' = [table EXCEPT ![current] = tc]
          /\ current \in alive /\ alive' = alive /\ serial' = serial
      BY <2>1, <2>6 DEF Binary
    <3>2. rec' = [rec EXCEPT ![r] = [id |-> n, tape |-> serial[current], bits |-> None,
                                     mean |-> m, dep |-> d]]
      BY <2>6 DEF Binary
    <3>3. IsTable(t2) /\ Len(t2.nodes) \in Nat
      BY <2>1, <3>1, PlacedGrows, GrownReflexive DEF Tables, RecVars, Grown
    <3>4. d => TaintFrom(t2, args)
      <4>1. /\ IsTable(tb) /\ IsRec(rec[a]) /\ IsRec(rec[b])
            /\ Marked(rec[a], alive, serial, table) /\ Marked(rec[b], alive, serial, table)
        BY <2>1, <3>1 DEF Tables, RecVars, AllMarked
      <4>2. /\ rec[a].dep => rec[a].tape = serial[current]
            /\ rec[b].dep => rec[b].tape = serial[current]
        BY <2>6, <4>1 DEF Binary, Foreign, Marked
      <4> QED BY <3>1, <4>1, <4>2, SumMarked
    <3> HIDE DEF tb, t1, t2, args, m, d
    <3>5. BinaryNode(t2, args, m).tainted = TaintFrom(t2, args)
      BY DEF BinaryNode
    <3>6. Len(tc.nodes) = n /\ n \in Nat /\ n # None /\ tc.nodes[n].tainted = TaintFrom(t2, args)
      BY <3>3, <3>5, WithBinaryGrows DEF None
    <3> HIDE DEF n, tc
    <3>7. /\ \A q \in Recs \ {r} : rec'[q] = rec[q]
          /\ rec'[r].id = n /\ rec'[r].tape = serial[current] /\ rec'[r].dep = d
      BY <2>1, <3>2 DEF RecVars
    <3>8. n <= Len(table'[current].nodes) /\ table'[current].nodes[n].tainted = TaintFrom(t2, args)
      BY <2>1, <3>1, <3>6 DEF Tables
    <3>9. \A u \in alive' : serial'[u] = serial'[current] => u = current
      BY <2>1, <3>1
    <3>10. rec'[r].dep => table'[current].nodes[rec'[r].id].tainted
      BY Zenon, <3>4, <3>7, <3>8
    <3>11. Marked(rec'[r], alive', serial', table')
      BY <3>1, <3>6, <3>7, <3>8, <3>9, <3>10, MarkedNew
    <3> QED BY <2>2, <3>7, <3>11
  <2> QED
    BY <2>3, <2>4, <2>5, <2>6
       DEF Next, OpenScope, CloseScope, Create, Destroy, Clear, Copy, Move, Swap, Rewrite,
           RegisterOutput, BinaryThrows, Look, vars
<1> QED BY <1>1, <1>2, TypeCorrect, SerialsCorrect, PTL DEF Spec

(* Rec::value() and structural_if let a decision through only when it was  *)
(* taken on a value no input reaches: a Rec that depends on one is marked, *)
(* and the guard of Look reads the mark.                                   *)
THEOREM NoPeekCorrect == Spec => []NoPeek
<1>1. Init => NoPeek
  BY DEF Init, NoPeek
<1>2. TypeOK /\ SerialsDistinct /\ AllMarked /\ NoPeek /\ [Next]_vars => NoPeek'
  <2> SUFFICES ASSUME TypeOK, SerialsDistinct, AllMarked, NoPeek, [Next]_vars
               PROVE  looked' = FALSE
    BY DEF NoPeek
  <2>1. current \in alive \cup {NoTape} /\ looked = FALSE
    BY DEF SerialsDistinct, NoPeek, TypeOK
  <2>2. ASSUME NEW r \in Recs, Look(r) PROVE looked' = FALSE
    <3>1. ~rec[r].dep
      BY <2>1, <2>2 DEF Look, Foreign, AllMarked, Marked
    <3> QED BY <2>1, <2>2, <3>1 DEF Look
  <2>3. CASE looked' = looked
    BY <2>1, <2>3
  <2> QED
    BY <2>2, <2>3
       DEF Next, OpenScope, CloseScope, Create, Destroy, Clear, Copy, Move, Swap, Rewrite,
           MakeInput, RegisterOutput, Assign, Binary, BinaryThrows, vars
<1> QED BY <1>1, <1>2, TypeCorrect, SerialsCorrect, AllMarkedCorrect, PTL DEF Spec

-----------------------------------------------------------------------------
(* The node tables.                                                        *)

IsNode(n) == n = [op |-> n.op, args |-> n.args, tainted |-> n.tainted, mean |-> n.mean]

(* A node is well placed: its operands come before it, it is tainted as    *)
(* they are, and it stands for their sum.                                  *)
NodeOk(s, i) ==
  /\ IsNode(s[i])
  /\ s[i].op \in {"Input", "Const", "Add"}
  /\ s[i].op = "Input" => s[i].tainted
  /\ s[i].op = "Const" => ~s[i].tainted
  /\ s[i].op = "Add" =>
       /\ DOMAIN s[i].args = {1, 2}
       /\ s[i].args[1] \in 1..(i - 1) /\ s[i].args[2] \in 1..(i - 1)
       /\ s[i].tainted <=> s[s[i].args[1]].tainted \/ s[s[i].args[2]].tainted
       /\ s[i].mean = <<"Add", s[s[i].args[1]].mean, s[s[i].args[2]].mean>>

InputIds(s) == {i \in DOMAIN s : s[i].op = "Input"}

InputOk(tb, i) ==
  tb.nodes[i].op = "Input" =>
    tb.nodes[i].args[1] \in DOMAIN tb.ins /\ tb.ins[tb.nodes[i].args[1]] = i

LeafOk(tb, b) ==
  tb.cix[b] # None =>
    /\ tb.cix[b] \in 1..Len(tb.nodes)
    /\ tb.nodes[tb.cix[b]].op = "Const" /\ tb.nodes[tb.cix[b]].args = <<b>>
    /\ tb.nodes[tb.cix[b]].mean = <<"Const", b>>

(* The inductive form of ValidTable and NodesDenote together.              *)
TableOk(tb) ==
  /\ \A i \in 1..Len(tb.nodes) : NodeOk(tb.nodes, i) /\ InputOk(tb, i)
  /\ Cardinality(InputIds(tb.nodes)) = Len(tb.ins)
  /\ \A k \in DOMAIN tb.outs : tb.outs[k] \in 1..Len(tb.nodes)
  /\ \A b \in Bits : LeafOk(tb, b)

(* What TableOk gives.                                                     *)
LEMMA TableOkIsValid ==
  ASSUME NEW tb, IsTable(tb), TableOk(tb)
  PROVE  ValidTable(tb)
<1> DEFINE s == tb.nodes
<1>1. Len(s) \in Nat /\ DOMAIN s = 1..Len(s)
  BY AppendSeq DEF IsTable
<1>2. ASSUME NEW i \in DOMAIN s
      PROVE  /\ Operands(s[i]) \subseteq 1..(i - 1)
             /\ s[i].tainted <=> s[i].op = "Input" \/ \E j \in Operands(s[i]) : s[j].tainted
  <2>1. NodeOk(s, i)
    BY <1>1 DEF TableOk
  <2>2. CASE s[i].op \in {"Input", "Const"}
    BY <2>1, <2>2 DEF NodeOk, Operands
  <2>3. CASE s[i].op = "Add"
    <3>1. Operands(s[i]) = {s[i].args[1], s[i].args[2]}
      BY <2>1, <2>3 DEF NodeOk, Operands
    <3> QED BY <2>1, <2>3, <3>1 DEF NodeOk
  <2> QED BY <2>1, <2>2, <2>3 DEF NodeOk
<1> QED BY <1>1, <1>2 DEF TableOk, ValidTable, InputOk, LeafOk, InputIds

LEMMA EmptyIsOk == TableOk(EmptyTable)
<1>1. InputIds(<<>>) = {}
  BY DEF InputIds
<1> QED BY <1>1, FS_EmptySet DEF TableOk, EmptyTable, LeafOk, None

------------------------------------------------------------------------------
(* Emission.                                                               *)

(* An earlier node does not see what was appended.                         *)
LEMMA NodeOkGrown ==
  ASSUME NEW tb, NEW tc, Grown(tb, tc), NEW i \in 1..Len(tb.nodes), NodeOk(tb.nodes, i)
  PROVE  NodeOk(tc.nodes, i)
<1>1. tc.nodes[i] = tb.nodes[i] /\ \A j \in 1..(i - 1) : tc.nodes[j] = tb.nodes[j]
  BY DEF Grown
<1> QED BY <1>1 DEF NodeOk

(* The inputs of a table that one node was appended to.                    *)
LEMMA InputIdsAppended ==
  ASSUME NEW s, IsSeq(s), NEW e
  PROVE  /\ IsFiniteSet(InputIds(s))
         /\ e.op # "Input" => InputIds(Append(s, e)) = InputIds(s)
         /\ e.op = "Input" => Cardinality(InputIds(Append(s, e))) = Cardinality(InputIds(s)) + 1
<1> DEFINE n == Len(s) + 1
           q == Append(s, e)
<1>1. /\ Len(s) \in Nat /\ DOMAIN s = 1..Len(s) /\ DOMAIN q = 1..n /\ n \in Nat
      /\ \A i \in 1..Len(s) : q[i] = s[i]
      /\ q[n] = e
  <2>1. IsSeq(q)
    BY AppendSeq
  <2>2. DOMAIN q = 1..Len(q)
    BY <2>1, AppendSeq
  <2> QED BY <2>2, AppendSeq
<1>2. IsFiniteSet(InputIds(s))
  <2>1. IsFiniteSet(1..Len(s)) /\ InputIds(s) \in SUBSET (1..Len(s))
    BY <1>1, FS_Interval DEF InputIds
  <2> QED BY <2>1, FS_Subset
<1> HIDE DEF q
<1>3. DOMAIN q = 1..Len(s) \cup {n} /\ n \notin 1..Len(s)
  BY <1>1
<1>4. ASSUME e.op # "Input" PROVE InputIds(q) = InputIds(s)
  BY <1>1, <1>3, <1>4 DEF InputIds
<1>5. ASSUME e.op = "Input" PROVE Cardinality(InputIds(q)) = Cardinality(InputIds(s)) + 1
  <2>1. InputIds(q) = InputIds(s) \cup {n} /\ n \notin InputIds(s)
    BY <1>1, <1>3, <1>5 DEF InputIds
  <2> QED BY <1>2, <2>1, FS_AddElement
<1> QED BY <1>2, <1>4, <1>5 DEF q

(* Appending one node and, for an input, its ordinal.                      *)
LEMMA AppendedIsOk ==
  ASSUME NEW tb, IsTable(tb), TableOk(tb), NEW tc, NEW e,
         tc.nodes = Append(tb.nodes, e), tc.outs = tb.outs, IsTable(tc),
         NodeOk(tc.nodes, Len(tb.nodes) + 1), InputOk(tc, Len(tb.nodes) + 1),
         \/ e.op # "Input" /\ tc.ins = tb.ins
         \/ e.op = "Input" /\ tc.ins = Append(tb.ins, Len(tb.nodes) + 1),
         \A b \in Bits : LeafOk(tc, b)
  PROVE  TableOk(tc)
<1> DEFINE n == Len(tb.nodes) + 1
<1>1. /\ Len(tb.nodes) \in Nat /\ Len(tc.nodes) = n /\ n \in Nat
      /\ \A i \in 1..Len(tb.nodes) : tc.nodes[i] = tb.nodes[i]
      /\ DOMAIN tb.nodes = 1..Len(tb.nodes)
      /\ tc.nodes[n] = e
  BY AppendSeq DEF IsTable
<1>2. Grown(tb, tc)
  BY <1>1 DEF Grown
<1>3. /\ Len(tb.ins) \in Nat
      /\ \A k \in DOMAIN tb.ins : k \in DOMAIN tc.ins /\ tc.ins[k] = tb.ins[k]
      /\ Len(tc.ins) = IF e.op = "Input" THEN Len(tb.ins) + 1 ELSE Len(tb.ins)
  <2>1. tb.ins \in Seq(Nat) /\ n \in Nat
    BY <1>1 DEF IsTable
  <2>2. Len(tb.ins) \in Nat /\ DOMAIN tb.ins = 1..Len(tb.ins)
    BY <2>1, LenProperties
  <2>3. /\ Len(Append(tb.ins, n)) = Len(tb.ins) + 1
        /\ DOMAIN Append(tb.ins, n) = 1..(Len(tb.ins) + 1)
        /\ \A k \in 1..Len(tb.ins) : Append(tb.ins, n)[k] = tb.ins[k]
    BY <2>1, <2>2, AppendProperties, LenProperties
  <2> QED BY <2>2, <2>3
<1>4. ASSUME NEW i \in 1..Len(tc.nodes) PROVE NodeOk(tc.nodes, i) /\ InputOk(tc, i)
  <2>1. CASE i = n
    BY <2>1
  <2>2. CASE i \in 1..Len(tb.nodes)
    <3>1. NodeOk(tb.nodes, i) /\ InputOk(tb, i)
      BY <2>2 DEF TableOk
    <3>2. NodeOk(tc.nodes, i)
      BY <1>2, <2>2, <3>1, NodeOkGrown
    <3>3. InputOk(tc, i)
      BY <1>1, <1>3, <2>2, <3>1 DEF InputOk
    <3> QED BY <3>2, <3>3
  <2> QED BY <1>1, <2>1, <2>2
<1>5. Cardinality(InputIds(tc.nodes)) = Len(tc.ins)
  <2>1. Cardinality(InputIds(tb.nodes)) = Len(tb.ins) /\ IsSeq(tb.nodes)
    BY DEF TableOk, IsTable
  <2> QED BY <1>3, <2>1, InputIdsAppended
<1>6. \A k \in DOMAIN tc.outs : tc.outs[k] \in 1..Len(tc.nodes)
  BY <1>1 DEF TableOk
<1> QED BY <1>4, <1>5, <1>6 DEF TableOk

(* Tape::constant: the table stays in order, and the leaf of the bits is   *)
(* there afterwards.                                                       *)
LEMMA WithConstOk ==
  ASSUME NEW tb, IsTable(tb), TableOk(tb), NEW b \in Bits
  PROVE  /\ TableOk(WithConst(tb, b))
         /\ WithConst(tb, b).cix[b] # None
<1>1. CASE tb.cix[b] # None
  BY <1>1 DEF WithConst
<1>2. CASE tb.cix[b] = None
  <2> DEFINE e == [op |-> "Const", args |-> <<b>>, tainted |-> FALSE, mean |-> <<"Const", b>>]
             n == Len(tb.nodes) + 1
             tc == [nodes |-> Append(tb.nodes, e), ins |-> tb.ins, outs |-> tb.outs,
                    cix |-> [tb.cix EXCEPT ![b] = n]]
  <2>1. WithConst(tb, b) = tc
    BY <1>2 DEF WithConst, IsTable
  <2>2. IsTable(tc)
    BY <2>1, WithConstGrows
  <2>3. /\ e.op = "Const" /\ e.args = <<b>> /\ e.tainted = FALSE /\ e.mean = <<"Const", b>>
        /\ IsNode(e)
    BY DEF IsNode
  <2> HIDE DEF e
  <2>4. /\ Len(tb.nodes) \in Nat /\ n \in Nat /\ n # None
        /\ Len(tc.nodes) = n /\ tc.nodes[n] = e
        /\ \A i \in 1..Len(tb.nodes) : tc.nodes[i] = tb.nodes[i]
    BY AppendSeq DEF IsTable, None
  <2>5. tc.nodes = Append(tb.nodes, e) /\ tc.ins = tb.ins /\ tc.outs = tb.outs
    OBVIOUS
  <2>6. tc.cix[b] = n /\ \A c \in Bits \ {b} : tc.cix[c] = tb.cix[c]
    BY DEF IsTable
  <2> HIDE DEF tc
  <2>7. NodeOk(tc.nodes, n) /\ InputOk(tc, n)
    BY <2>3, <2>4 DEF NodeOk, InputOk
  <2>8. ASSUME NEW c \in Bits PROVE LeafOk(tc, c)
    <3>1. CASE c = b
      BY <2>3, <2>4, <2>6, <3>1 DEF LeafOk
    <3>2. CASE c # b
      <4>1. LeafOk(tb, c) /\ tc.cix[c] = tb.cix[c]
        BY <2>6, <3>2 DEF TableOk
      <4> QED BY <2>4, <4>1 DEF LeafOk
    <3> QED BY <3>1, <3>2
  <2>9. TableOk(tc)
    BY <2>2, <2>3, <2>5, <2>7, <2>8, AppendedIsOk
  <2> QED BY <2>1, <2>4, <2>6, <2>9
<1> QED BY <1>1, <1>2

(* A value the table accepts: a number, or a node of the table that stands *)
(* for what the value stands for.                                          *)
Accepted(tb, r) ==
  IF r.id = None THEN r.mean = <<"Const", r.bits>>
  ELSE r.id <= Len(tb.nodes) /\ tb.nodes[r.id].mean = r.mean

(* Rec::node_on: the operand is on the table and stands for the value.     *)
LEMMA PlacedOk ==
  ASSUME NEW tb, IsTable(tb), TableOk(tb), NEW r, IsRec(r), Accepted(tb, r)
  PROVE  /\ TableOk(Placed(tb, r))
         /\ NodeOn(Placed(tb, r), r) \in 1..Len(Placed(tb, r).nodes)
         /\ Placed(tb, r).nodes[NodeOn(Placed(tb, r), r)].mean = r.mean
<1>1. CASE r.id # None
  <2>1. r.id \in 1..Len(tb.nodes)
    BY <1>1, GrownReflexive DEF Accepted, IsRec, None, Grown
  <2> QED BY <1>1, <2>1 DEF Placed, NodeOn, Accepted
<1>2. CASE r.id = None
  <2>1. r.bits \in Bits /\ r.mean = <<"Const", r.bits>>
    BY <1>2 DEF IsRec, Accepted
  <2> DEFINE tc == WithConst(tb, r.bits)
  <2>2. TableOk(tc) /\ tc.cix[r.bits] # None
    BY <2>1, WithConstOk
  <2>3. Placed(tb, r) = tc /\ NodeOn(tc, r) = tc.cix[r.bits]
    BY <1>2 DEF Placed, NodeOn
  <2> HIDE DEF tc
  <2> QED BY <2>1, <2>2, <2>3 DEF TableOk, LeafOk
<1> QED BY <1>1, <1>2

(* An accepted value stays accepted while the table grows.                 *)
LEMMA AcceptedGrown ==
  ASSUME NEW tb, NEW tc, Grown(tb, tc), NEW r, IsRec(r), Accepted(tb, r)
  PROVE  Accepted(tc, r)
<1>1. CASE r.id = None
  BY <1>1 DEF Accepted
<1>2. CASE r.id # None
  <2>1. r.id \in 1..Len(tb.nodes)
    BY <1>2 DEF Accepted, IsRec, None, Grown
  <2> QED BY <1>2, <2>1 DEF Accepted, Grown
<1> QED BY <1>1, <1>2

(* Tape::binary on two nodes of the table.                                 *)
LEMMA WithBinaryOk ==
  ASSUME NEW tb, IsTable(tb), TableOk(tb),
         NEW x \in 1..Len(tb.nodes), NEW y \in 1..Len(tb.nodes)
  PROVE  TableOk(WithBinary(tb, <<x, y>>, <<"Add", tb.nodes[x].mean, tb.nodes[y].mean>>))
<1> DEFINE m == <<"Add", tb.nodes[x].mean, tb.nodes[y].mean>>
           e == BinaryNode(tb, <<x, y>>, m)
           n == Len(tb.nodes) + 1
           tc == WithBinary(tb, <<x, y>>, m)
<1>1. /\ e.op = "Add" /\ e.args = <<x, y>> /\ e.mean = m
      /\ e.tainted = TaintFrom(tb, <<x, y>>) /\ IsNode(e)
  BY Zenon DEF BinaryNode, IsNode
<1>2. TaintFrom(tb, <<x, y>>) <=> tb.nodes[x].tainted \/ tb.nodes[y].tainted
  <2>1. /\ DOMAIN <<x, y>> = {1, 2} /\ <<x, y>>[1] = x /\ <<x, y>>[2] = y
    OBVIOUS
  <2> QED BY <2>1 DEF TaintFrom
<1>3. /\ tc.nodes = Append(tb.nodes, e) /\ tc.ins = tb.ins /\ tc.outs = tb.outs
      /\ tc.cix = tb.cix
  <2> HIDE DEF m
  <2>1. tc = [nodes |-> Append(tb.nodes, e), ins |-> tb.ins, outs |-> tb.outs, cix |-> tb.cix]
    BY NodesExcept DEF WithBinary
  <2> HIDE DEF e, tc
  <2> QED BY <2>1
<1> HIDE DEF e
<1>4. IsTable(tc)
  BY WithBinaryGrows
<1> HIDE DEF tc
<1>5. /\ Len(tb.nodes) \in Nat /\ n \in Nat /\ Len(tc.nodes) = n /\ tc.nodes[n] = e
      /\ \A i \in 1..Len(tb.nodes) : tc.nodes[i] = tb.nodes[i]
  BY <1>3, AppendSeq DEF IsTable
<1>6. NodeOk(tc.nodes, n)
  <2>1. /\ tc.nodes[n].op = "Add" /\ DOMAIN tc.nodes[n].args = {1, 2}
        /\ tc.nodes[n].args[1] = x /\ tc.nodes[n].args[2] = y
        /\ tc.nodes[n].mean = m /\ IsNode(tc.nodes[n])
    BY <1>1, <1>5
  <2>2. tc.nodes[x] = tb.nodes[x] /\ tc.nodes[y] = tb.nodes[y] /\ x \in 1..(n - 1) /\ y \in 1..(n - 1)
    BY <1>5
  <2>3. tc.nodes[n].tainted <=> tb.nodes[x].tainted \/ tb.nodes[y].tainted
    BY Zenon, <1>1, <1>2, <1>5
  <2> QED BY <2>1, <2>2, <2>3 DEF NodeOk
<1>7. InputOk(tc, n)
  BY <1>1, <1>5 DEF InputOk
<1>8. ASSUME NEW b \in Bits PROVE LeafOk(tc, b)
  <2>1. LeafOk(tb, b)
    BY DEF TableOk
  <2> QED BY <1>3, <1>5, <2>1 DEF LeafOk
<1>9. e.op # "Input"
  BY <1>1
<1>10. TableOk(tc)
  BY <1>3, <1>4, <1>6, <1>7, <1>8, <1>9, AppendedIsOk
<1> QED BY <1>10 DEF tc

(* Tape::input.                                                            *)
LEMMA WithInputOk ==
  ASSUME NEW tb, IsTable(tb), TableOk(tb), NEW m
  PROVE  TableOk(WithInput(tb, m))
<1> DEFINE e == InputNode(tb, m)
           n == Len(tb.nodes) + 1
           k == Len(tb.ins) + 1
           tc == WithInput(tb, m)
<1>1. e.op = "Input" /\ e.args = <<k>> /\ e.tainted = TRUE /\ IsNode(e)
  BY DEF InputNode, IsNode
<1>2. /\ tc.nodes = Append(tb.nodes, e) /\ tc.ins = Append(tb.ins, n) /\ tc.outs = tb.outs
      /\ tc.cix = tb.cix
  <2> DEFINE s == Append(tb.nodes, e)
             t == Append(tb.ins, n)
  <2>1. tc = [tb EXCEPT !.nodes = s, !.ins = t]
    BY Zenon DEF WithInput
  <2> HIDE DEF s, t, tc
  <2>2. tc = [nodes |-> s, ins |-> t, outs |-> tb.outs, cix |-> tb.cix]
    BY <2>1, NodesInsExcept
  <2>3. tc.nodes = s /\ tc.ins = t /\ tc.outs = tb.outs /\ tc.cix = tb.cix
    BY <2>2
  <2> QED BY <2>3 DEF s, t
<1> HIDE DEF e
<1>3. IsTable(tc)
  BY WithInputGrows
<1> HIDE DEF tc
<1>4. /\ Len(tb.nodes) \in Nat /\ n \in Nat /\ Len(tc.nodes) = n /\ tc.nodes[n] = e
      /\ \A i \in 1..Len(tb.nodes) : tc.nodes[i] = tb.nodes[i]
  BY <1>2, AppendSeq DEF IsTable
<1>5. NodeOk(tc.nodes, n)
  BY <1>1, <1>4 DEF NodeOk
<1>6. InputOk(tc, n)
  <2>1. tb.ins \in Seq(Nat) /\ n \in Nat
    BY <1>4 DEF IsTable
  <2>2. k \in DOMAIN Append(tb.ins, n) /\ Append(tb.ins, n)[k] = n
    BY <2>1, AppendProperties, LenProperties
  <2>3. tc.nodes[n].args[1] = k
    BY <1>1, <1>4
  <2> QED BY <1>2, <2>2, <2>3 DEF InputOk
<1>7. ASSUME NEW b \in Bits PROVE LeafOk(tc, b)
  <2>1. LeafOk(tb, b)
    BY DEF TableOk
  <2> QED BY <1>2, <1>4, <2>1 DEF LeafOk
<1>8. TableOk(tc)
  BY <1>1, <1>2, <1>3, <1>5, <1>6, <1>7, AppendedIsOk
<1> QED BY <1>8 DEF tc

(* register_output of a node of the table.                                 *)
LEMMA OutputOk ==
  ASSUME NEW tb, IsTable(tb), TableOk(tb), NEW o \in 1..Len(tb.nodes)
  PROVE  TableOk([tb EXCEPT !.outs = Append(@, o)])
<1> DEFINE s == Append(tb.outs, o)
           tc == [tb EXCEPT !.outs = Append(@, o)]
<1>1. tc = [nodes |-> tb.nodes, ins |-> tb.ins, outs |-> s, cix |-> tb.cix]
  BY OutsExcept
<1>2. tb.outs \in Seq(Nat) /\ o \in Nat
  BY GrownReflexive DEF IsTable, Grown
<1>3. \A k \in DOMAIN s : s[k] \in 1..Len(tb.nodes)
  <2>1. /\ DOMAIN tb.outs = 1..Len(tb.outs) /\ Len(tb.outs) \in Nat
        /\ DOMAIN s = 1..(Len(tb.outs) + 1)
        /\ \A k \in 1..Len(tb.outs) : s[k] = tb.outs[k]
        /\ s[Len(tb.outs) + 1] = o
    BY <1>2, AppendProperties, LenProperties
  <2> HIDE DEF s
  <2> QED BY <2>1 DEF TableOk
<1> HIDE DEF s, tc
<1>4. tc.nodes = tb.nodes /\ tc.ins = tb.ins /\ tc.outs = s /\ tc.cix = tb.cix
  BY <1>1
<1>5. TableOk(tc)
  BY <1>3, <1>4 DEF TableOk, InputOk, LeafOk
<1> QED BY <1>5 DEF tc

------------------------------------------------------------------------------
(* A pass on a table.  Rank numbers the nodes kept 1, 2, ... in order: it   *)
(* is monotone, stays within their number, and reaches every number.       *)
LEMMA RankOrders ==
  ASSUME NEW n \in Nat, NEW keep \in SUBSET (1..n)
  PROVE  /\ Cardinality(keep) \in Nat
         /\ \A j \in keep : Rank(keep, j) \in 1..Cardinality(keep)
         /\ \A j, k \in keep : j < k => Rank(keep, j) < Rank(keep, k)
         /\ \A i \in 1..Cardinality(keep) : \E j \in keep : Rank(keep, j) = i
<1> DEFINE low(i) == {j \in keep : j <= i}
           c == Cardinality(keep)
           f == [j \in keep |-> Rank(keep, j)]
<1>1. IsFiniteSet(keep) /\ c \in Nat
  <2>1. IsFiniteSet(1..n)
    BY FS_Interval
  <2>2. IsFiniteSet(keep)
    BY <2>1, FS_Subset
  <2> QED BY <2>2, FS_CardinalityType
<1>2. \A i : IsFiniteSet(low(i)) /\ Cardinality(low(i)) \in Nat /\ Cardinality(low(i)) <= c
  <2> TAKE i
  <2>1. low(i) \in SUBSET keep
    OBVIOUS
  <2> HIDE DEF low
  <2>2. IsFiniteSet(low(i)) /\ Cardinality(low(i)) <= c
    BY <1>1, <2>1, FS_Subset
  <2> QED BY <2>2, FS_CardinalityType
<1>3. \A i : Rank(keep, i) = Cardinality(low(i))
  BY DEF Rank
<1>4. ASSUME NEW j \in keep, NEW k \in keep, j < k
      PROVE  Rank(keep, j) < Rank(keep, k)
  <2>0. (\A i \in keep : i <= j => i <= k) /\ k <= k /\ ~(k <= j)
    <3>1. \A i \in keep : i \in Nat
      OBVIOUS
    <3> QED BY <1>4, <3>1
  <2>1. low(j) \in SUBSET low(k) /\ k \in low(k) /\ k \notin low(j)
    BY <2>0
  <2> HIDE DEF low
  <2>2. low(j) # low(k) /\ IsFiniteSet(low(k))
    BY <1>2, <2>1
  <2>3. /\ Cardinality(low(j)) <= Cardinality(low(k))
        /\ Cardinality(low(k)) = Cardinality(low(j)) => low(k) = low(j)
    BY <2>1, <2>2, FS_Subset
  <2> QED BY <1>2, <1>3, <2>2, <2>3
<1>5. ASSUME NEW j \in keep PROVE Rank(keep, j) \in 1..c
  <2>1. j \in low(j)
    OBVIOUS
  <2> HIDE DEF low
  <2>2. Cardinality(low(j)) # 0
    BY <1>2, <2>1, FS_EmptySet
  <2> QED BY <1>1, <1>2, <1>3, <2>2
<1>6. f \in Injection(keep, 1..c)
  <2>1. f \in [keep -> 1..c]
    BY <1>5
  <2>2. ASSUME NEW j \in keep, NEW k \in keep, f[j] = f[k] PROVE j = k
    <3>1. ~(j < k) /\ ~(k < j)
      <4>1. Rank(keep, j) = Rank(keep, k) /\ Rank(keep, j) \in Nat
        BY <1>2, <1>3, <2>2
      <4> QED BY <1>4, <4>1
    <3> QED BY <3>1
  <2> HIDE DEF f
  <2>3. IsInjective(f)
    BY <2>1, <2>2 DEF IsInjective
  <2> QED BY <2>1, <2>3 DEF Injection
<1>7. f \in Surjection(keep, 1..c)
  <2>1. IsFiniteSet(1..c) /\ Cardinality(1..c) = c
    BY <1>1, FS_Interval
  <2> HIDE DEF f
  <2> QED BY <1>6, <2>1, FS_Injection
<1>8. ASSUME NEW i \in 1..c PROVE \E j \in keep : Rank(keep, j) = i
  <2>1. \E j \in keep : f[j] = i
    BY <1>7, <1>8 DEF Surjection
  <2> QED BY <2>1
<1> QED BY <1>1, <1>4, <1>5, <1>8

(* The node that stands where the kept node j was: its own label and       *)
(* meaning, over the new numbers of its operands.                          *)
LEMMA RebuiltAt ==
  ASSUME NEW tb, IsTable(tb), TableOk(tb), NEW keep \in SUBSET DOMAIN tb.nodes, NEW j \in keep
  PROVE  LET p == Rebuilt(tb, keep).nodes[Rank(keep, j)]
             n == tb.nodes[j]
         IN /\ IsNode(p) /\ p.op = n.op /\ p.tainted = n.tainted /\ p.mean = n.mean
            /\ n.op # "Add" => p.args = n.args
            /\ n.op = "Add" => /\ DOMAIN p.args = {1, 2}
                               /\ p.args[1] = Rank(keep, n.args[1])
                               /\ p.args[2] = Rank(keep, n.args[2])
<1> DEFINE n == tb.nodes[j]
           c == Cardinality(keep)
           p == Rebuilt(tb, keep).nodes[Rank(keep, j)]
           a == [k \in DOMAIN n.args |-> Rank(keep, n.args[k])]
<1>1. Len(tb.nodes) \in Nat /\ DOMAIN tb.nodes = 1..Len(tb.nodes)
  BY AppendSeq DEF IsTable
<1>2. /\ Rank(keep, j) \in 1..c
      /\ \A k \in keep : Rank(keep, k) = Rank(keep, j) => k = j
  <2>1. /\ \A i \in keep : Rank(keep, i) \in 1..c
        /\ \A i, k \in keep : i < k => Rank(keep, i) < Rank(keep, k)
        /\ c \in Nat
    BY <1>1, RankOrders
  <2>2. ASSUME NEW k \in keep, Rank(keep, k) = Rank(keep, j) PROVE k = j
    <3>1. ~(k < j) /\ ~(j < k)
      BY <2>1, <2>2
    <3> QED BY <1>1, <3>1
  <2> QED BY <2>1, <2>2
<1>3. (CHOOSE k \in keep : Rank(keep, k) = Rank(keep, j)) = j
  BY <1>2
<1>4. p = RebuiltNode(tb, keep, Rank(keep, j))
  BY <1>2 DEF Rebuilt
<1>5. p = IF Operands(n) = {} THEN n ELSE [n EXCEPT !.args = a]
  BY <1>3, <1>4 DEF RebuiltNode
<1>6. NodeOk(tb.nodes, j)
  BY <1>1 DEF TableOk
<1> HIDE DEF p
<1>7. CASE n.op # "Add"
  <2>1. Operands(n) = {}
    BY <1>6, <1>7 DEF NodeOk, Operands
  <2>2. p = n /\ IsNode(n)
    BY <1>5, <1>6, <2>1 DEF NodeOk
  <2> QED BY <1>7, <2>2 DEF p
<1>8. CASE n.op = "Add"
  <2>1. Operands(n) # {} /\ DOMAIN n.args = {1, 2} /\ IsNode(n)
    BY <1>6, <1>8 DEF NodeOk, Operands
  <2>2. a[1] = Rank(keep, n.args[1]) /\ a[2] = Rank(keep, n.args[2]) /\ DOMAIN a = {1, 2}
    BY <2>1
  <2>3. p = [n EXCEPT !.args = a]
    BY <1>5, <2>1
  <2> HIDE DEF n, a
  <2>4. p = [op |-> n.op, args |-> a, tainted |-> n.tainted, mean |-> n.mean]
    BY <2>1, <2>3 DEF IsNode
  <2>5. IsNode(p) /\ p.op = n.op /\ p.tainted = n.tainted /\ p.mean = n.mean /\ p.args = a
    BY <2>4 DEF IsNode
  <2> QED BY <1>8, <2>2, <2>5 DEF n, p
<1> QED BY <1>7, <1>8

(* A pass that keeps the inputs, the outputs and the operands of what it   *)
(* keeps leaves a table in order.                                          *)
LEMMA RebuiltOk ==
  ASSUME NEW tb, IsTable(tb), TableOk(tb), NEW keep \in SUBSET DOMAIN tb.nodes,
         \A k \in DOMAIN tb.outs : tb.outs[k] \in keep,
         \A k \in DOMAIN tb.ins : tb.ins[k] \in keep,
         \A i \in keep : Operands(tb.nodes[i]) \subseteq keep
  PROVE  TableOk(Rebuilt(tb, keep))
<1> DEFINE s == tb.nodes
           c == Cardinality(keep)
           tc == Rebuilt(tb, keep)
           R(j) == Rank(keep, j)
<1>1. Len(s) \in Nat /\ DOMAIN s = 1..Len(s)
  BY AppendSeq DEF IsTable
<1>2. /\ c \in Nat
      /\ \A j \in keep : R(j) \in 1..c
      /\ \A j, k \in keep : j < k => R(j) < R(k)
      /\ \A i \in 1..c : \E j \in keep : R(j) = i
  BY <1>1, RankOrders
<1>3. /\ DOMAIN tc.nodes = 1..c /\ Len(tc.nodes) = c
      /\ tc.ins = [k \in DOMAIN tb.ins |-> R(tb.ins[k])]
      /\ tc.outs = [k \in DOMAIN tb.outs |-> R(tb.outs[k])]
      /\ \A b \in Bits : tc.cix[b] = IF tb.cix[b] \in keep THEN R(tb.cix[b]) ELSE None
  <2>1. tc.nodes = [i \in 1..c |-> RebuiltNode(tb, keep, i)]
    BY DEF Rebuilt
  <2>2. DOMAIN tc.nodes = 1..c
    BY <2>1
  <2>3. IsSeq(tc.nodes)
    BY RebuiltIsTable DEF IsTable
  <2>4. Len(tc.nodes) = c
    BY <1>2, <2>2, <2>3, AppendSeq
  <2> QED BY <2>2, <2>4 DEF Rebuilt
<1>4. \A j \in keep :
        /\ IsNode(tc.nodes[R(j)]) /\ tc.nodes[R(j)].op = s[j].op
        /\ tc.nodes[R(j)].tainted = s[j].tainted /\ tc.nodes[R(j)].mean = s[j].mean
        /\ s[j].op # "Add" => tc.nodes[R(j)].args = s[j].args
        /\ s[j].op = "Add" => /\ DOMAIN tc.nodes[R(j)].args = {1, 2}
                              /\ tc.nodes[R(j)].args[1] = R(s[j].args[1])
                              /\ tc.nodes[R(j)].args[2] = R(s[j].args[2])
  BY RebuiltAt
<1>5. \A j \in keep : NodeOk(s, j) /\ InputOk(tb, j) /\ j \in Nat
  BY <1>1 DEF TableOk
<1> HIDE DEF tc, R, c
<1>6. ASSUME NEW i \in 1..Len(tc.nodes) PROVE NodeOk(tc.nodes, i) /\ InputOk(tc, i)
  <2>1. PICK j \in keep : R(j) = i
    BY <1>2, <1>3
  <2>2. CASE s[j].op \in {"Input", "Const"}
    <3>1. /\ tc.nodes[i].op = s[j].op /\ tc.nodes[i].args = s[j].args /\ IsNode(tc.nodes[i])
          /\ tc.nodes[i].tainted = s[j].tainted
      BY <1>4, <2>1, <2>2
    <3>2. NodeOk(tc.nodes, i)
      BY <1>5, <2>2, <3>1 DEF NodeOk
    <3>3. ASSUME s[j].op = "Input"
          PROVE  s[j].args[1] \in DOMAIN tc.ins /\ tc.ins[s[j].args[1]] = i
      <4>1. s[j].args[1] \in DOMAIN tb.ins /\ tb.ins[s[j].args[1]] = j
        BY <1>5, <3>3 DEF InputOk
      <4> QED BY <1>3, <2>1, <4>1
    <3>4. InputOk(tc, i)
      BY <3>1, <3>3 DEF InputOk
    <3> QED BY <3>2, <3>4
  <2>3. CASE s[j].op = "Add"
    <3> DEFINE x == s[j].args[1]
               y == s[j].args[2]
               q == tc.nodes[i]
    <3>1. /\ DOMAIN s[j].args = {1, 2} /\ x \in 1..(j - 1) /\ y \in 1..(j - 1)
          /\ s[j].tainted <=> s[x].tainted \/ s[y].tainted
          /\ s[j].mean = <<"Add", s[x].mean, s[y].mean>>
      BY <1>5, <2>3 DEF NodeOk
    <3>2. x \in keep /\ y \in keep
      <4>1. Operands(s[j]) = {x, y}
        BY <2>3, <3>1 DEF Operands
      <4> QED BY <4>1
    <3>3. R(x) \in 1..(i - 1) /\ R(y) \in 1..(i - 1)
      <4>1. x < j /\ y < j
        BY <1>5, <3>1
      <4>2. R(x) < i /\ R(y) < i /\ R(x) \in 1..c /\ R(y) \in 1..c /\ i \in 1..c
        BY <1>2, <1>3, <2>1, <3>2, <4>1
      <4> QED BY <1>2, <4>2
    <3>4. /\ q.op = "Add" /\ IsNode(q) /\ DOMAIN q.args = {1, 2}
          /\ q.args[1] = R(x) /\ q.args[2] = R(y)
          /\ q.tainted = s[j].tainted /\ q.mean = s[j].mean
      BY <1>4, <2>1, <2>3
    <3>5. /\ tc.nodes[R(x)].tainted = s[x].tainted /\ tc.nodes[R(x)].mean = s[x].mean
          /\ tc.nodes[R(y)].tainted = s[y].tainted /\ tc.nodes[R(y)].mean = s[y].mean
      BY <1>4, <3>2
    <3> HIDE DEF x, y
    <3>6. q.tainted <=> tc.nodes[R(x)].tainted \/ tc.nodes[R(y)].tainted
      BY Zenon, <3>1, <3>4, <3>5
    <3>7. q.mean = <<"Add", tc.nodes[R(x)].mean, tc.nodes[R(y)].mean>>
      BY <3>1, <3>4, <3>5
    <3>8. NodeOk(tc.nodes, i)
      BY <3>3, <3>4, <3>6, <3>7 DEF NodeOk
    <3>9. InputOk(tc, i)
      BY <3>4 DEF InputOk
    <3> QED BY <3>8, <3>9
  <2> QED BY <1>5, <2>2, <2>3 DEF NodeOk
<1>7. Cardinality(InputIds(tc.nodes)) = Len(tc.ins)
  <2> DEFINE S == InputIds(s)
             T == InputIds(tc.nodes)
             g == [j \in S |-> R(j)]
  <2>1. S \subseteq keep
    <3> SUFFICES ASSUME NEW j \in S PROVE j \in keep
      OBVIOUS
    <3>1. InputOk(tb, j) /\ s[j].op = "Input"
      BY <1>1 DEF TableOk, InputIds
    <3> QED BY <3>1 DEF InputOk
  <2>2. g \in [S -> T]
    <3>1. ASSUME NEW j \in S PROVE R(j) \in T
      BY <1>2, <1>3, <1>4, <2>1, <3>1 DEF InputIds
    <3> QED BY <3>1
  <2>3. IsInjective(g)
    <3>1. ASSUME NEW j \in S, NEW k \in S, R(j) = R(k) PROVE j = k
      <4>1. j \in keep /\ k \in keep /\ j \in Nat /\ k \in Nat
        BY <1>5, <2>1
      <4>2. ~(j < k) /\ ~(k < j)
        BY <1>2, <3>1, <4>1
      <4> QED BY <4>1, <4>2
    <3> QED BY <3>1 DEF IsInjective
  <2>4. \A i \in T : \E j \in S : g[j] = i
    <3> SUFFICES ASSUME NEW i \in T PROVE \E j \in S : g[j] = i
      OBVIOUS
    <3>1. i \in 1..c /\ tc.nodes[i].op = "Input"
      BY <1>3 DEF InputIds
    <3>2. PICK j \in keep : R(j) = i
      BY <1>2, <3>1
    <3>3. j \in S
      BY <1>4, <3>1, <3>2 DEF InputIds
    <3> QED BY <3>2, <3>3
  <2>5. IsFiniteSet(S)
    <3>1. IsSeq(s)
      BY DEF IsTable
    <3> QED BY <3>1, InputIdsAppended
  <2> HIDE DEF g, S, T
  <2>6. g \in Bijection(S, T)
    BY <2>2, <2>3, <2>4 DEF Bijection, Injection, Surjection
  <2>7. Cardinality(T) = Cardinality(S)
    BY <2>5, <2>6, FS_Bijection DEF ExistsBijection
  <2>8. Cardinality(S) = Len(tb.ins)
    BY DEF TableOk, S
  <2>9. Len(tc.ins) = Len(tb.ins)
    <3>1. tb.ins \in Seq(Nat) /\ tc.ins \in Seq(Nat)
      BY RebuiltIsTable DEF IsTable, tc
    <3>2. DOMAIN tc.ins = DOMAIN tb.ins
      BY <1>3
    <3>3. /\ Len(tb.ins) \in Nat /\ DOMAIN tb.ins = 1..Len(tb.ins)
          /\ Len(tc.ins) \in Nat /\ DOMAIN tc.ins = 1..Len(tc.ins)
      BY <3>1, LenProperties
    <3> QED BY <3>2, <3>3
  <2> QED BY <2>7, <2>8, <2>9 DEF T
<1>8. \A k \in DOMAIN tc.outs : tc.outs[k] \in 1..Len(tc.nodes)
  BY <1>2, <1>3
<1>9. ASSUME NEW b \in Bits PROVE LeafOk(tc, b)
  <2>1. CASE tb.cix[b] \in keep
    <3>1. tb.cix[b] \in 1..Len(s) /\ tb.cix[b] # None /\ LeafOk(tb, b)
      BY <1>1, <2>1 DEF None, TableOk
    <3>2. /\ s[tb.cix[b]].op = "Const" /\ s[tb.cix[b]].args = <<b>>
          /\ s[tb.cix[b]].mean = <<"Const", b>>
      BY <3>1 DEF LeafOk
    <3>3. tc.cix[b] = R(tb.cix[b]) /\ tc.cix[b] \in 1..Len(tc.nodes)
      BY <1>2, <1>3, <2>1
    <3>4. /\ tc.nodes[tc.cix[b]].op = "Const" /\ tc.nodes[tc.cix[b]].args = <<b>>
          /\ tc.nodes[tc.cix[b]].mean = <<"Const", b>>
      BY <1>4, <2>1, <3>2, <3>3
    <3> QED BY <3>3, <3>4 DEF LeafOk
  <2>2. CASE tb.cix[b] \notin keep
    BY <1>3, <2>2 DEF LeafOk
  <2> QED BY <2>1, <2>2
<1>10. TableOk(tc)
  BY <1>6, <1>7, <1>8, <1>9 DEF TableOk
<1> QED BY <1>10 DEF tc

------------------------------------------------------------------------------
(* Every table is in order, and a Rec without a node stands for its number. *)
TablesOk == \A t \in Tapes : TableOk(table[t])

NumbersOk == \A r \in Recs : rec[r].id = None => rec[r].mean = <<"Const", rec[r].bits>>

(* A value that is not foreign to a live tape is accepted by its table.    *)
LEMMA NotForeign ==
  ASSUME TypeOK, NoAlias, NumbersOk, NEW t \in alive, NEW r \in Recs, ~Foreign(t, rec[r])
  PROVE  Accepted(table[t], rec[r])
BY DEF NoAlias, NumbersOk, Foreign, Accepted

(* No operation of the maths, of the containers or of a pass leaves a      *)
(* table out of order.                                                     *)
THEOREM TablesOkCorrect == Spec => [](TablesOk /\ NumbersOk)
<1>1. Init => TablesOk /\ NumbersOk
  <2>1. ASSUME Init PROVE TablesOk
    BY <2>1, EmptyIsOk DEF Init, TablesOk
  <2>2. \A b \in Bits : Detached(b).mean = <<"Const", b>> /\ Detached(b).bits = b
    BY DEF Detached
  <2>3. ASSUME Init PROVE NumbersOk
    BY <2>2, <2>3 DEF Init, NumbersOk
  <2> QED BY <2>1, <2>3
<1>2. TypeOK /\ SerialsDistinct /\ NoAlias /\ TablesOk /\ NumbersOk /\ [Next]_vars
        => TablesOk' /\ NumbersOk'
  <2> SUFFICES ASSUME TypeOK, SerialsDistinct, NoAlias, TablesOk, NumbersOk, [Next]_vars
               PROVE  TablesOk' /\ NumbersOk'
    OBVIOUS
  <2>0. /\ alive \subseteq Tapes /\ Tables(table) /\ RecVars(rec) /\ NoTape \notin Tapes
        /\ current \in alive \cup {NoTape}
        /\ \A t \in Tapes : IsTable(table[t]) /\ TableOk(table[t])
    BY RecordingAssumption DEF TypeOK, RecVars, Tables, SerialsDistinct, TablesOk
  (* One table is replaced, and the Recs are as they were.                 *)
  <2>a. ASSUME NEW t \in Tapes, NEW tc, TableOk(tc), table' = [table EXCEPT ![t] = tc]
        PROVE  TablesOk'
    BY <2>0, <2>a DEF TablesOk, Tables
  (* One Rec is replaced by a recorded one.                                *)
  <2>b. ASSUME NEW r \in Recs, NEW h, h.id # None, rec' = [rec EXCEPT ![r] = h]
        PROVE  NumbersOk'
    BY <2>0, <2>b DEF NumbersOk, RecVars
  <2>1. ASSUME NEW t \in Tapes, OpenScope(t) PROVE TablesOk' /\ NumbersOk'
    BY <2>1 DEF OpenScope, tapeVars, TablesOk, NumbersOk
  <2>2. CASE CloseScope
    BY <2>2 DEF CloseScope, tapeVars, TablesOk, NumbersOk
  <2>3. ASSUME NEW t \in Tapes, Create(t) PROVE TablesOk' /\ NumbersOk'
    BY <2>3 DEF Create, TablesOk, NumbersOk
  <2>4. ASSUME NEW t \in Tapes, Destroy(t) PROVE TablesOk' /\ NumbersOk'
    BY <2>a, <2>4, EmptyIsOk DEF Destroy, NumbersOk
  <2>5. ASSUME NEW t \in Tapes, Clear(t) PROVE TablesOk' /\ NumbersOk'
    BY <2>a, <2>5, EmptyIsOk DEF Clear, NumbersOk
  <2>6. ASSUME NEW t \in Tapes, NEW u \in Tapes, Copy(t, u) PROVE TablesOk' /\ NumbersOk'
    BY <2>0, <2>a, <2>6 DEF Copy, NumbersOk
  <2>7. ASSUME NEW t \in Tapes, NEW u \in Tapes, Move(t, u) PROVE TablesOk' /\ NumbersOk'
    <3>1. \A v \in Tapes : table'[v] \in {table[v], table[t], EmptyTable}
      BY <2>0, <2>7 DEF Move, Tables
    <3> QED BY <2>0, <2>7, <3>1, EmptyIsOk DEF Move, TablesOk, NumbersOk
  <2>8. ASSUME NEW t \in Tapes, NEW u \in Tapes, Swap(t, u) PROVE TablesOk' /\ NumbersOk'
    <3>1. \A v \in Tapes : table'[v] \in {table[v], table[t], table[u]}
      BY <2>0, <2>8 DEF Swap, Tables
    <3> QED BY <2>0, <2>8, <3>1 DEF Swap, TablesOk, NumbersOk
  <2>9. ASSUME NEW t \in Tapes, NEW keep \in SUBSET DOMAIN table[t].nodes, Rewrite(t, keep)
        PROVE TablesOk' /\ NumbersOk'
    <3>1. /\ \A k \in DOMAIN table[t].outs : table[t].outs[k] \in keep
          /\ \A k \in DOMAIN table[t].ins : table[t].ins[k] \in keep
          /\ \A i \in keep : Operands(table[t].nodes[i]) \subseteq keep
          /\ table' = [table EXCEPT ![t] = Rebuilt(table[t], keep)] /\ rec' = rec
      BY <2>9 DEF Rewrite
    <3>2. TableOk(Rebuilt(table[t], keep))
      BY <2>0, <3>1, RebuiltOk
    <3> QED BY <2>a, <3>1, <3>2 DEF NumbersOk
  <2>10. ASSUME NEW t \in Tapes, NEW r \in Recs, MakeInput(t, r) PROVE TablesOk' /\ NumbersOk'
    <3> DEFINE n == Len(table[t].nodes) + 1
               m == <<"Input", <<serial[t], n>>>>
               h == [id |-> n, tape |-> serial[t], bits |-> None, mean |-> m, dep |-> TRUE]
    <3>1. table' = [table EXCEPT ![t] = WithInput(table[t], m)] /\ rec' = [rec EXCEPT ![r] = h]
      BY <2>10 DEF MakeInput
    <3>2. h.id # None
      BY <2>0, GrownReflexive DEF None, Grown
    <3> HIDE DEF h, m
    <3>3. TableOk(WithInput(table[t], m))
      BY <2>0, WithInputOk
    <3> QED BY <2>a, <2>b, <3>1, <3>2, <3>3
  <2>11. ASSUME NEW t \in Tapes, NEW r \in Recs, RegisterOutput(t, r)
         PROVE TablesOk' /\ NumbersOk'
    <3> DEFINE tb == Placed(table[t], rec[r])
               tc == [tb EXCEPT !.outs = Append(@, NodeOn(tb, rec[r]))]
    <3>1. /\ table' = [table EXCEPT ![t] = tc] /\ rec' = rec
          /\ t \in alive /\ ~Foreign(t, rec[r])
      BY <2>11 DEF RegisterOutput
    <3>2. IsRec(rec[r]) /\ Accepted(table[t], rec[r])
      BY <2>0, <3>1, NotForeign DEF RecVars
    <3>3. IsTable(tb) /\ TableOk(tb) /\ NodeOn(tb, rec[r]) \in 1..Len(tb.nodes)
      BY <2>0, <3>2, PlacedGrows, PlacedOk
    <3> HIDE DEF tb
    <3>4. TableOk(tc)
      BY <3>3, OutputOk
    <3> HIDE DEF tc
    <3> QED BY <2>a, <3>1, <3>4 DEF NumbersOk
  <2>12. ASSUME NEW r \in Recs, NEW b \in Bits, Assign(r, b) PROVE TablesOk' /\ NumbersOk'
    <3>1. Detached(b).mean = <<"Const", b>> /\ Detached(b).bits = b
      BY DEF Detached
    <3>2. \A q \in Recs : rec'[q] = rec[q] \/ rec'[q] = Detached(b)
      BY <2>0, <2>12 DEF Assign, RecVars
    <3>3. NumbersOk'
      BY <3>1, <3>2 DEF NumbersOk
    <3> QED BY <2>12, <3>3 DEF Assign, tapeVars, TablesOk
  <2>13. ASSUME NEW a \in Recs, NEW b \in Recs, NEW r \in Recs, Binary(a, b, r)
         PROVE TablesOk' /\ NumbersOk'
    <3> DEFINE t1 == Placed(table[current], rec[a])
               t2 == Placed(t1, rec[b])
               x == NodeOn(t1, rec[a])
               y == NodeOn(t2, rec[b])
               m == <<"Add", rec[a].mean, rec[b].mean>>
               d == rec[a].dep \/ rec[b].dep
               tc == WithBinary(t2, <<x, y>>, m)
               h == [id |-> Len(t2.nodes) + 1, tape |-> serial[current], bits |-> None,
                     mean |-> m, dep |-> d]
    <3>1. /\ table' = [table EXCEPT ![current] = tc] /\ current \in alive
          /\ ~Foreign(current, rec[a]) /\ ~Foreign(current, rec[b])
      BY <2>0, <2>13 DEF Binary
    <3>2. rec' = [rec EXCEPT ![r] = h]
      BY <2>13 DEF Binary
    <3>3. /\ IsRec(rec[a]) /\ IsRec(rec[b]) /\ IsTable(table[current]) /\ TableOk(table[current])
          /\ Accepted(table[current], rec[a]) /\ Accepted(table[current], rec[b])
      BY <2>0, <3>1, NotForeign DEF RecVars
    <3>4. /\ IsTable(t1) /\ Grown(table[current], t1) /\ TableOk(t1)
          /\ x \in 1..Len(t1.nodes) /\ t1.nodes[x].mean = rec[a].mean
      BY <3>3, PlacedGrows, PlacedOk
    <3> HIDE DEF t1, x
    <3>5. Accepted(t1, rec[b])
      BY <3>3, <3>4, AcceptedGrown
    <3>6. /\ IsTable(t2) /\ Grown(t1, t2) /\ TableOk(t2)
          /\ y \in 1..Len(t2.nodes) /\ t2.nodes[y].mean = rec[b].mean
      BY <3>3, <3>4, <3>5, PlacedGrows, PlacedOk
    <3> HIDE DEF t2, y
    <3>7. x \in 1..Len(t2.nodes) /\ t2.nodes[x].mean = rec[a].mean /\ Len(t2.nodes) \in Nat
      BY <3>4, <3>6 DEF Grown
    <3>8. TableOk(tc)
      BY <3>6, <3>7, WithBinaryOk
    <3>9. h.id # None
      BY <3>7 DEF None
    <3> HIDE DEF tc, h
    <3> QED BY <2>0, <2>a, <2>b, <3>1, <3>2, <3>8, <3>9
  <2>14. ASSUME NEW a \in Recs, NEW b \in Recs, BinaryThrows(a, b) PROVE TablesOk' /\ NumbersOk'
    <3> DEFINE tc == Placed(table[current], rec[a])
    <3>1. /\ table' = [table EXCEPT ![current] = tc] /\ rec' = rec /\ current \in alive
          /\ ~Foreign(current, rec[a])
      BY <2>0, <2>14 DEF BinaryThrows
    <3>2. TableOk(tc)
      BY <2>0, <3>1, NotForeign, PlacedOk DEF RecVars
    <3> HIDE DEF tc
    <3> QED BY <2>0, <2>a, <3>1, <3>2 DEF NumbersOk
  <2>15. ASSUME NEW r \in Recs, Look(r) PROVE TablesOk' /\ NumbersOk'
    BY <2>15 DEF Look, tapeVars, TablesOk, NumbersOk
  <2>16. CASE UNCHANGED vars
    BY <2>16 DEF vars, tapeVars, TablesOk, NumbersOk
  <2> QED
    BY <2>1, <2>2, <2>3, <2>4, <2>5, <2>6, <2>7, <2>8, <2>9, <2>10, <2>11, <2>12, <2>13,
       <2>14, <2>15, <2>16 DEF Next
<1> QED BY <1>1, <1>2, TypeCorrect, SerialsCorrect, NoAliasCorrect, PTL DEF Spec

(* Tape::validate() accepts every live tape after any sequence of          *)
(* recordings, throws, copies, moves, swaps, clears and passes.            *)
THEOREM ValidatesCorrect == Spec => []Validates
<1>1. TypeOK /\ TablesOk => Validates
  BY TableOkIsValid DEF TypeOK, TablesOk, Validates
<1> QED BY <1>1, TypeCorrect, TablesOkCorrect, PTL

(* What a node computes from its operands is the expression it was         *)
(* recorded for, in every table a copy, a move or a pass leaves behind.    *)
THEOREM NodesDenoteCorrect == Spec => []NodesDenote
<1>1. TypeOK /\ TablesOk => NodesDenote
  <2> SUFFICES ASSUME TypeOK, TablesOk, NEW t \in alive, NEW i \in DOMAIN table[t].nodes,
                      table[t].nodes[i].op = "Add"
               PROVE  table[t].nodes[i].mean =
                        <<"Add", table[t].nodes[table[t].nodes[i].args[1]].mean,
                                 table[t].nodes[table[t].nodes[i].args[2]].mean>>
    BY DEF NodesDenote
  <2>1. t \in Tapes /\ IsTable(table[t]) /\ TableOk(table[t])
    BY DEF TypeOK, TablesOk
  <2>2. DOMAIN table[t].nodes = 1..Len(table[t].nodes)
    BY <2>1, AppendSeq DEF IsTable
  <2>3. NodeOk(table[t].nodes, i)
    BY <2>1, <2>2 DEF TableOk
  <2> QED BY <2>3 DEF NodeOk
<1> QED BY <1>1, TypeCorrect, TablesOkCorrect, PTL
=============================================================================
