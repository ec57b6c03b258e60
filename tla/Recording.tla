----------------------------- MODULE Recording -----------------------------
(***************************************************************************)
(* The recording discipline: Tape objects, the thread's current tape, and  *)
(* the Rec values the pricing maths holds (tape/tape.hpp, tape/tape.cpp,   *)
(* scalar/rec.hpp).                                                        *)
(*                                                                         *)
(* A Rec is {v, id, tape}: a node id plus the serial of the node table it  *)
(* was recorded on.  A table can be copied, moved, swapped, cleared or     *)
(* rebuilt by a pass while Recs into it are still held by the maths; the   *)
(* serial is all that stops such a Rec from being read as some other node. *)
(*                                                                         *)
(* Two fields are history: `mean' is the expression a node or a Rec stands *)
(* for in the program being recorded, and a Rec's `dep' says whether that  *)
(* expression mentions an input.  No guard reads them.                     *)
(***************************************************************************)
EXTENDS Naturals, Sequences, FiniteSets, Folds, Functions, TLC

CONSTANTS Tapes,      \* the Tape objects (addresses)
          Recs,       \* the Rec variables of the maths being recorded
          Bits,       \* the bit patterns of the constants
          NoTape,     \* "no current tape" (nullptr)
          MaxNodes,   \* bound: nothing is recorded once the tables hold more nodes
          MaxOuts,    \* bound on the outputs of one table
          MaxScopes,  \* bound on the depth of nested Scopes
          MaxSerial   \* bound on the serials handed out

ASSUME RecordingAssumption ==
  /\ NoTape \notin Tapes
  /\ MaxNodes \in Nat /\ MaxOuts \in Nat /\ MaxScopes \in Nat /\ MaxSerial \in Nat

VARIABLES alive,      \* the Tape objects whose lifetime has begun and not ended
          serial,     \* Tape::serial_
          table,      \* the rest of each Tape: nodes_, inputs_, outputs_, const_index_
          nextSerial, \* g_next_serial
          current,    \* g_current_tape
          scopes,     \* the prev_ of each live Scope, outermost first
          rec,        \* the Rec variables
          looked      \* history: a record-time decision used an input-dependent value

tapeVars  == <<alive, serial, table, nextSerial>>
scopeVars == <<current, scopes>>
vars      == <<tapeVars, scopeVars, rec, looked>>

(* The nodes of all the tables together.                                   *)
Held == FoldFunction(LAMBDA tb, n : Len(tb.nodes) + n, 0, table)

(* Node ids are 1-based here; 0 is invalid_node, no_tape for a serial and  *)
(* an absent const_index_ entry.                                           *)
None == 0

EmptyTable == [nodes |-> <<>>, ins |-> <<>>, outs |-> <<>>, cix |-> [b \in Bits |-> None]]

Detached(b) == [id |-> None, tape |-> None, bits |-> b, mean |-> <<"Const", b>>, dep |-> FALSE]

------------------------------------------------------------------------------
(* Emission.  Every emitting operation appends to the node table; nothing  *)
(* edits a node in place.                                                  *)

(* Tape::input: the new node is the next ordinal.                          *)
InputNode(tb, m) ==
  [op |-> "Input", args |-> <<Len(tb.ins) + 1>>, tainted |-> TRUE, mean |-> m]

WithInput(tb, m) ==
  [tb EXCEPT !.nodes = Append(@, InputNode(tb, m)),
             !.ins = Append(tb.ins, Len(tb.nodes) + 1)]

(* Wrong form: numbers that compare equal, 0.0 and -0.0, share a leaf.     *)
WithConst_ByValue(tb, b) ==
  IF \E c \in Bits : tb.cix[c] # None
  THEN [tb EXCEPT !.cix[b] = tb.cix[CHOOSE c \in Bits : tb.cix[c] # None]]
  ELSE [tb EXCEPT !.nodes = Append(@, [op |-> "Const", args |-> <<b>>,
                                       tainted |-> FALSE, mean |-> <<"Const", b>>]),
                  !.cix[b] = Len(tb.nodes) + 1]

(* Tape::constant: the existing leaf of these bits, or a new one.          *)
WithConst(tb, b) ==
  IF tb.cix[b] # None THEN tb
  ELSE [tb EXCEPT !.nodes = Append(@, [op |-> "Const", args |-> <<b>>,
                                       tainted |-> FALSE, mean |-> <<"Const", b>>]),
                  !.cix[b] = Len(tb.nodes) + 1]

(* Rec::node_on: what placing r on the table does to it, and the id it has *)
(* there afterwards.                                                       *)
Placed(tb, r) == IF r.id # None THEN tb ELSE WithConst(tb, r.bits)
NodeOn(tb, r) == IF r.id # None THEN r.id ELSE tb.cix[r.bits]

(* require_recorded_on fails: a recorded value of another table.           *)
Foreign(t, r) == r.id # None /\ r.tape # serial[t]

(* Wrong form: taint from the first operand only.                          *)
TaintFrom_First(tb, args) == tb.nodes[args[1]].tainted

(* Tape::taint_from: the disjunction of the operands' taint.               *)
TaintFrom(tb, args) == \E k \in DOMAIN args : tb.nodes[args[k]].tainted

(* Tape::binary.                                                           *)
BinaryNode(tb, args, m) ==
  [op |-> "Add", args |-> args, tainted |-> TaintFrom(tb, args), mean |-> m]

WithBinary(tb, args, m) == [tb EXCEPT !.nodes = Append(@, BinaryNode(tb, args, m))]

(* The node ids n reads.                                                   *)
Operands(n) == IF n.op \in {"Input", "Const"} THEN {} ELSE {n.args[k] : k \in DOMAIN n.args}

(* Tape::validate: topological order, taint bits, input ordinals, outputs  *)
(* in range, and a constant index that names the Const leaf of its bits.   *)
ValidTable(tb) ==
  LET s == tb.nodes
  IN /\ \A i \in DOMAIN s :
          /\ Operands(s[i]) \subseteq 1..(i - 1)
          /\ s[i].op = "Input" => s[i].args[1] \in DOMAIN tb.ins /\ tb.ins[s[i].args[1]] = i
          /\ s[i].tainted <=> s[i].op = "Input" \/ \E j \in Operands(s[i]) : s[j].tainted
     /\ Cardinality({i \in DOMAIN s : s[i].op = "Input"}) = Len(tb.ins)
     /\ \A k \in DOMAIN tb.outs : tb.outs[k] \in DOMAIN s
     /\ \A b \in Bits : tb.cix[b] # None =>
          tb.cix[b] \in DOMAIN s /\ s[tb.cix[b]].op = "Const" /\ s[tb.cix[b]].args = <<b>>

------------------------------------------------------------------------------
Init ==
  /\ alive = {}
  /\ serial = [t \in Tapes |-> None]
  /\ table = [t \in Tapes |-> EmptyTable]
  /\ nextSerial = 1
  /\ current = NoTape
  /\ scopes = <<>>
  /\ rec \in [Recs -> {Detached(b) : b \in Bits}]
  /\ looked = FALSE

(* Scope: the constructor saves the previous current tape, the destructor  *)
(* restores it.                                                            *)
OpenScope(t) ==
  /\ t \in alive /\ Len(scopes) < MaxScopes
  /\ scopes' = Append(scopes, current)
  /\ current' = t
  /\ UNCHANGED <<tapeVars, rec, looked>>

CloseScope ==
  /\ scopes # <<>>
  /\ current' = scopes[Len(scopes)]
  /\ scopes' = SubSeq(scopes, 1, Len(scopes) - 1)
  /\ UNCHANGED <<tapeVars, rec, looked>>

(* Tape::Tape().                                                           *)
Create(t) ==
  /\ t \notin alive /\ nextSerial <= MaxSerial
  /\ alive' = alive \cup {t}
  /\ serial' = [serial EXCEPT ![t] = nextSerial]
  /\ nextSerial' = nextSerial + 1
  /\ UNCHANGED <<table, scopeVars, rec, looked>>

(* ~Tape: clears the current pointer when it is this tape.  A tape that an *)
(* enclosing Scope is going to restore outlives that Scope (the fixtures   *)
(* declare the Tape before the Scope), so it is not destroyed here.        *)
Destroy(t) ==
  /\ t \in alive
  /\ \A k \in DOMAIN scopes : scopes[k] # t
  /\ alive' = alive \ {t}
  /\ serial' = [serial EXCEPT ![t] = None]
  /\ table' = [table EXCEPT ![t] = EmptyTable]
  /\ current' = IF current = t THEN NoTape ELSE current
  /\ UNCHANGED <<nextSerial, scopes, rec, looked>>

(* Wrong form: a memberwise copy, the serial included.                     *)
Copy_KeepsSerial(t, u) ==
  /\ t \in alive /\ t # u
  /\ alive' = alive \cup {u}
  /\ serial' = [serial EXCEPT ![u] = serial[t]]
  /\ table' = [table EXCEPT ![u] = table[t]]
  /\ UNCHANGED <<nextSerial, scopeVars, rec, looked>>

(* Copy construction and copy assignment: a new table, a new serial.       *)
Copy(t, u) ==
  /\ t \in alive /\ t # u /\ nextSerial <= MaxSerial
  /\ alive' = alive \cup {u}
  /\ serial' = [serial EXCEPT ![u] = nextSerial]
  /\ table' = [table EXCEPT ![u] = table[t]]
  /\ nextSerial' = nextSerial + 1
  /\ UNCHANGED <<scopeVars, rec, looked>>

(* Move construction and move assignment: u takes t's table and its        *)
(* serial, t becomes an empty table with a new serial.                     *)
Move(t, u) ==
  /\ t \in alive /\ t # u /\ nextSerial <= MaxSerial
  /\ alive' = alive \cup {u}
  /\ serial' = [serial EXCEPT ![u] = serial[t], ![t] = nextSerial]
  /\ table' = [table EXCEPT ![u] = table[t], ![t] = EmptyTable]
  /\ nextSerial' = nextSerial + 1
  /\ UNCHANGED <<scopeVars, rec, looked>>

(* Wrong form: the tables are exchanged and the serials are not.           *)
Swap_KeepsSerials(t, u) ==
  /\ {t, u} \subseteq alive /\ t # u
  /\ table' = [table EXCEPT ![t] = table[u], ![u] = table[t]]
  /\ UNCHANGED <<alive, serial, nextSerial, scopeVars, rec, looked>>

Swap(t, u) ==
  /\ {t, u} \subseteq alive /\ t # u
  /\ serial' = [serial EXCEPT ![t] = serial[u], ![u] = serial[t]]
  /\ table' = [table EXCEPT ![t] = table[u], ![u] = table[t]]
  /\ UNCHANGED <<alive, nextSerial, scopeVars, rec, looked>>

(* Wrong form: values recorded before the clear still carry the serial.    *)
Clear_KeepsSerial(t) ==
  /\ t \in alive
  /\ table' = [table EXCEPT ![t] = EmptyTable]
  /\ UNCHANGED <<alive, serial, nextSerial, scopeVars, rec, looked>>

(* Wrong form: const_index_ is left behind.                                *)
Clear_KeepsIndex(t) ==
  /\ t \in alive /\ nextSerial <= MaxSerial
  /\ serial' = [serial EXCEPT ![t] = nextSerial]
  /\ table' = [table EXCEPT ![t] = [EmptyTable EXCEPT !.cix = table[t].cix]]
  /\ nextSerial' = nextSerial + 1
  /\ UNCHANGED <<alive, scopeVars, rec, looked>>

Clear(t) ==
  /\ t \in alive /\ nextSerial <= MaxSerial
  /\ serial' = [serial EXCEPT ![t] = nextSerial]
  /\ table' = [table EXCEPT ![t] = EmptyTable]
  /\ nextSerial' = nextSerial + 1
  /\ UNCHANGED <<alive, scopeVars, rec, looked>>

(***************************************************************************)
(* A pass (Rebuilder): a working copy of the table takes one serial, the   *)
(* rebuilt table another, and the rebuilt table is swapped in.  The nodes  *)
(* that survive are `keep', an operand-closed set holding the inputs and   *)
(* the outputs, renumbered in order; what each pass keeps and what it puts *)
(* in the place of a node is the subject of TapePass.                      *)
(***************************************************************************)
Rank(keep, i) == Cardinality({j \in keep : j <= i})

RebuiltNode(tb, keep, i) ==
  LET n == tb.nodes[CHOOSE j \in keep : Rank(keep, j) = i]
  IN IF Operands(n) = {} THEN n
     ELSE [n EXCEPT !.args = [k \in DOMAIN @ |-> Rank(keep, @[k])]]

Rebuilt(tb, keep) ==
  [nodes |-> [i \in 1..Cardinality(keep) |-> RebuiltNode(tb, keep, i)],
   ins   |-> [k \in DOMAIN tb.ins |-> Rank(keep, tb.ins[k])],
   outs  |-> [k \in DOMAIN tb.outs |-> Rank(keep, tb.outs[k])],
   cix   |-> [b \in Bits |-> IF tb.cix[b] \in keep THEN Rank(keep, tb.cix[b]) ELSE None]]

Rewrite(t, keep) ==
  LET tb == table[t]
  IN /\ t \in alive /\ nextSerial + 1 <= MaxSerial
     /\ \A k \in DOMAIN tb.outs : tb.outs[k] \in keep
     /\ \A k \in DOMAIN tb.ins : tb.ins[k] \in keep
     /\ \A i \in keep : Operands(tb.nodes[i]) \subseteq keep
     /\ serial' = [serial EXCEPT ![t] = nextSerial + 1]
     /\ table' = [table EXCEPT ![t] = Rebuilt(tb, keep)]
     /\ nextSerial' = nextSerial + 2
     /\ UNCHANGED <<alive, scopeVars, rec, looked>>

------------------------------------------------------------------------------
(* make_input(t, value): on any live tape, current or not.                 *)
MakeInput(t, r) ==
  LET i == Len(table[t].nodes) + 1
      mean == <<"Input", <<serial[t], i>>>>
  IN /\ t \in alive /\ Held < MaxNodes
     /\ table' = [table EXCEPT ![t] = WithInput(@, mean)]
     /\ rec' = [rec EXCEPT ![r] = [id |-> i, tape |-> serial[t], bits |-> None,
                                   mean |-> mean, dep |-> TRUE]]
     /\ UNCHANGED <<alive, serial, nextSerial, scopeVars, looked>>

(* Rec(double), and an operation on unrecorded values outside every Scope: *)
(* a constant, detached until it is used in a recorded operation.          *)
Assign(r, b) ==
  /\ rec' = [rec EXCEPT ![r] = Detached(b)]
  /\ UNCHANGED <<tapeVars, scopeVars, looked>>

(***************************************************************************)
(* rec_binary with a tape recording.  Each operand is placed on the tape   *)
(* in turn; a foreign operand throws, and what the operands before it      *)
(* materialised stays.                                                     *)
(***************************************************************************)
Binary(a, b, r) ==
  LET t  == current
      t1 == Placed(table[t], rec[a])
      t2 == Placed(t1, rec[b])
      mean == <<"Add", rec[a].mean, rec[b].mean>>
  IN /\ t # NoTape /\ ~Foreign(t, rec[a]) /\ ~Foreign(t, rec[b])
     /\ Held + Len(t2.nodes) - Len(table[t].nodes) < MaxNodes
     /\ table' = [table EXCEPT ![t] =
          WithBinary(t2, <<NodeOn(t1, rec[a]), NodeOn(t2, rec[b])>>, mean)]
     /\ rec' = [rec EXCEPT ![r] = [id |-> Len(t2.nodes) + 1, tape |-> serial[t], bits |-> None,
                                   mean |-> mean, dep |-> rec[a].dep \/ rec[b].dep]]
     /\ UNCHANGED <<alive, serial, nextSerial, scopeVars, looked>>

BinaryThrows(a, b) ==
  /\ current # NoTape /\ ~Foreign(current, rec[a]) /\ Foreign(current, rec[b])
  /\ Held < MaxNodes
  /\ table' = [table EXCEPT ![current] = Placed(@, rec[a])]
  /\ UNCHANGED <<alive, serial, nextSerial, scopeVars, rec, looked>>

(* register_output(t, x): the tape need not be the current one.            *)
RegisterOutput(t, r) ==
  LET tb == Placed(table[t], rec[r])
  IN /\ t \in alive /\ ~Foreign(t, rec[r])
     /\ Held + Len(tb.nodes) - Len(table[t].nodes) <= MaxNodes
     /\ Len(tb.outs) < MaxOuts
     /\ table' = [table EXCEPT ![t] = [tb EXCEPT !.outs = Append(@, NodeOn(tb, rec[r]))]]
     /\ UNCHANGED <<alive, serial, nextSerial, scopeVars, rec, looked>>

(* Rec::value() and structural_if with a tape recording: the maths uses    *)
(* the number itself, and what it does next is fixed into the recording.   *)
Look(r) ==
  /\ current # NoTape
  /\ rec[r].id # None => /\ ~Foreign(current, rec[r])
                         /\ ~table[current].nodes[rec[r].id].tainted
  /\ looked' = (looked \/ rec[r].dep)
  /\ UNCHANGED <<tapeVars, scopeVars, rec>>

------------------------------------------------------------------------------
Next ==
  \/ \E t \in Tapes : OpenScope(t) \/ Create(t) \/ Destroy(t) \/ Clear(t)
  \/ CloseScope
  \/ \E t, u \in Tapes : Copy(t, u) \/ Move(t, u) \/ Swap(t, u)
  \/ \E t \in Tapes : \E keep \in SUBSET DOMAIN table[t].nodes : Rewrite(t, keep)
  \/ \E t \in Tapes, r \in Recs : MakeInput(t, r) \/ RegisterOutput(t, r)
  \/ \E r \in Recs, b \in Bits : Assign(r, b)
  \/ \E a, b, r \in Recs : Binary(a, b, r)
  \/ \E a, b \in Recs : BinaryThrows(a, b)
  \/ \E r \in Recs : Look(r)

Spec == Init /\ [][Next]_vars

------------------------------------------------------------------------------
(* s is a sequence, whatever its elements.                                 *)
IsSeq(s) == s \in Seq({s[i] : i \in DOMAIN s})

IsTable(tb) ==
  /\ tb = [nodes |-> tb.nodes, ins |-> tb.ins, outs |-> tb.outs, cix |-> tb.cix]
  /\ IsSeq(tb.nodes) /\ tb.ins \in Seq(Nat) /\ tb.outs \in Seq(Nat)
  /\ tb.cix \in [Bits -> Nat]

IsRec(r) ==
  /\ r = [id |-> r.id, tape |-> r.tape, bits |-> r.bits, mean |-> r.mean, dep |-> r.dep]
  /\ r.id \in Nat /\ r.tape \in Nat /\ r.dep \in BOOLEAN
  /\ r.id = None => r.bits \in Bits

(* Types: the shape of every variable; a Rec without a node has a number,  *)
(* and the next serial is never the reserved one.                          *)
TypeOK ==
  /\ alive \subseteq Tapes
  /\ serial \in [Tapes -> Nat] /\ nextSerial \in Nat \ {None}
  /\ table = [t \in Tapes |-> table[t]] /\ \A t \in Tapes : IsTable(table[t])
  /\ current \in Tapes \cup {NoTape} /\ scopes \in Seq(Tapes \cup {NoTape})
  /\ rec = [r \in Recs |-> rec[r]] /\ \A r \in Recs : IsRec(rec[r])
  /\ looked \in BOOLEAN

(***************************************************************************)
(* Serials: no two live tables share one, every one in use was handed out, *)
(* and the current tape is a live object.                                  *)
(***************************************************************************)
SerialsDistinct ==
  /\ \A t \in alive : serial[t] \in 1..(nextSerial - 1)
  /\ \A t, u \in alive : serial[t] = serial[u] => t = u
  /\ \A r \in Recs : rec[r].tape < nextSerial
  /\ current \in alive \cup {NoTape}
  /\ \A k \in DOMAIN scopes : scopes[k] \in alive \cup {NoTape}

(***************************************************************************)
(* A Rec the tape accepts (its serial is the tape's) names a node of the   *)
(* table, and that node is the expression the Rec stood for when it was    *)
(* recorded, whatever was copied, moved, swapped, cleared or rebuilt in    *)
(* between (rec.hpp: "stale values throw rather than alias").              *)
(***************************************************************************)
NoAlias ==
  \A r \in Recs, t \in alive :
    rec[r].id # None /\ rec[r].tape = serial[t] =>
      /\ rec[r].id <= Len(table[t].nodes)
      /\ table[t].nodes[rec[r].id].mean = rec[r].mean

(* What each node computes from its operands is the expression it was      *)
(* recorded for, in every table a copy, a move or a pass leaves behind.    *)
NodesDenote ==
  \A t \in alive : LET s == table[t].nodes
    IN \A i \in DOMAIN s : s[i].op = "Add" => 
         s[i].mean = <<"Add", s[s[i].args[1]].mean, s[s[i].args[2]].mean>>

(* The maths never decides anything on a value that depends on an input    *)
(* while it is being recorded (Rec::value, structural_if).                 *)
NoPeek == ~looked

(* Tape::validate() accepts every live tape at every point.                *)
Validates == \A t \in alive : ValidTable(table[t])

(***************************************************************************)
(* As long as a serial is in use, the table that bears it only grows, even *)
(* when a move or a swap takes it to another Tape object: a node id handed *)
(* out under a serial keeps its node.                                      *)
(***************************************************************************)
TablesOnlyGrow ==
  [][\A t \in alive, u \in alive' : serial'[u] = serial[t] =>
       /\ Len(table[t].nodes) <= Len(table'[u].nodes)
       /\ \A i \in DOMAIN table[t].nodes : table'[u].nodes[i] = table[t].nodes[i]]_vars

(* Tape objects, Rec variables and bit patterns are interchangeable.       *)
Symmetry == Permutations(Tapes) \cup Permutations(Recs) \cup Permutations(Bits)
=============================================================================
