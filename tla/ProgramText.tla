---------------------------- MODULE ProgramText ----------------------------
(***************************************************************************)
(* A program as a text (ir::serialize) and back (ir::deserialize).  The    *)
(* text is the whole identity of a program where the e-graph looks one up  *)
(* (optimise/egraph.cpp), so two programs must never have the same.        *)
(*                                                                         *)
(* A text is a sequence of tokens.  Lists are preceded by their lengths,   *)
(* and nothing but these says where one ends.  The tables of all domains   *)
(* are in one list per kind, each with its domain's number, a slot has the *)
(* place of its table in that list, and the numbers steps read are in one  *)
(* list of literals.  Names, levels and the inputs' values are left out.   *)
(***************************************************************************)
EXTENDS DomainIR

Version == 3

Word(w) == <<"word", w>>
Num(n) == <<"int", n>>
Bits(x) == <<"bits", x>>   \* a double as its 64 bits
Ints(s) == [k \in DOMAIN s |-> Num(s[k])]
Doubles(s) == [k \in DOMAIN s |-> Bits(s[k])]
Listed(tokens) == <<Num(Len(tokens))>> \o tokens
ListOf(w, entries) == <<Word(w), Num(Len(entries))>> \o FlattenSeq(entries)

------------------------------------------------------------------------------
(* Tables, of all domains in order.                                        *)

(* F applied n times, to what it gave before and its turn.                 *)
Iterate(n, base, F(_, _)) ==
  LET f[k \in 0..n] == IF k = 0 THEN base ELSE LET prev == f[k - 1] IN F(prev, k)
  IN f[n]

ColumnsOf(dom) == dom.columns
GathersOf(dom) == dom.gathers
SegmentsOf(dom) == dom.segments
ChainsOf(dom) == IF Scans(dom) THEN <<dom.scan>> ELSE <<>>

Count(p, d, F(_)) == Iterate(d, 0, LAMBDA sum, k : sum + Len(F(p.domains[k])))
AllTables(p, F(_)) ==
  FlattenSeq([d \in DOMAIN p.domains |->
                [k \in DOMAIN F(p.domains[d]) |-> [domain |-> d, table |-> F(p.domains[d])[k]]]])

FourSlots(st) == Append(st.args, st.konst)
Literals(p) ==
  LET slots == FlattenSeq([d \in DOMAIN p.domains |->
                 FlattenSeq([k \in DOMAIN p.domains[d].steps |-> FourSlots(p.domains[d].steps[k])])])
      numbers == SelectSeq(slots, LAMBDA slot : slot[1] = "literal")
  IN Iterate(Len(numbers), <<>>, LAMBDA found, k : IF numbers[k][2] \in Range(found) THEN found
                                                   ELSE Append(found, numbers[k][2]))

PlaceOf(p, d, literals, slot) ==
  CASE slot[1] = "literal" -> CHOOSE k \in DOMAIN literals : literals[k] = slot[2]
    [] slot[1] = "column" -> Count(p, d - 1, ColumnsOf) + slot[2]
    [] slot[1] = "gather" -> Count(p, d - 1, GathersOf) + slot[2]
    [] slot[1] = "segment" -> Count(p, d - 1, SegmentsOf) + slot[2]
    [] OTHER -> slot[2]

------------------------------------------------------------------------------
(* serialize.                                                              *)

PutSlot(p, d, literals, slot) == <<Word(slot[1]), Num(PlaceOf(p, d, literals, slot))>>

(* A step has three operand slots, whatever its operation takes.           *)
PutStep(p, d, literals, st) ==
  LET slot(q) == IF q <= Len(st.args) THEN st.args[q] ELSE NoSlot
  IN <<Word("step"), Word(st.op)>> \o FlattenSeq([q \in 1..3 |-> PutSlot(p, d, literals, slot(q))])
       \o PutSlot(p, d, literals, st.konst)

Flag(b) == Num(IF b THEN 1 ELSE 0)
PutDomain(p, d) ==
  <<Word("domain"), Num(p.domains[d].rows), Num(Base(p, d)), Flag(Recurrent(p, d)),
    Num(IF Scans(p.domains[d]) THEN Count(p, d, ChainsOf) ELSE 0)>>
    \o Listed(Ints(SetToSortSeq(DomainReads(p, d), LAMBDA a, b : a < b)))

PutGroup(p, d, literals) ==
  <<Word("group"), Num(d), Num(Len(p.domains[d].steps))>>
    \o FlattenSeq([k \in DOMAIN p.domains[d].steps |-> PutStep(p, d, literals, p.domains[d].steps[k])])

Offsets(members) == Build(Len(members) + 1, LAMBDA o, r : IF r = 1 THEN 0 ELSE Last(o) + Len(members[r - 1]))

PutSegment_OneLength(t) ==
  <<Word("segment"), Num(t.domain), Num(Len(t.table.members) + 1),
    Num(Len(FlattenSeq(t.table.members))), Num(Len(FlattenSeq(t.table.members))), Word("offsets")>>
    \o Ints(Offsets(t.table.members)) \o <<Word("members")>> \o Ints(FlattenSeq(t.table.members))
    \o <<Word("coefs")>> \o Doubles(FlattenSeq(t.table.coefs))

PutSegment(t) ==
  <<Word("segment"), Num(t.domain), Num(Len(t.table.members) + 1),
    Num(Len(FlattenSeq(t.table.members))), Num(Len(FlattenSeq(t.table.coefs))), Word("offsets")>>
    \o Ints(Offsets(t.table.members)) \o <<Word("members")>> \o Ints(FlattenSeq(t.table.members))
    \o <<Word("coefs")>> \o Doubles(FlattenSeq(t.table.coefs))

PutTable(w, t, tokens) == <<Word(w), Num(t.domain)>> \o Listed(tokens)
PutScan(p, t) ==
  <<Word("scan"), Num(t.domain), Num(PlaceOf(p, t.domain, <<>>, Gather(p.domains[t.domain].carry)))>>
    \o Listed(Ints(t.table))

PutTables(w, ts, Put(_)) == ListOf(w, [k \in DOMAIN ts |-> Put(ts[k])])

Serialize(p) ==
  LET literals == Literals(p)
      domains == DOMAIN p.domains
  IN <<Word("epykos-ir"), Num(Version), Word("literals")>> \o Listed(Doubles(literals))
       \o ListOf("domains", [d \in domains |-> PutDomain(p, d)])
       \o ListOf("groups", [d \in domains |-> PutGroup(p, d, literals)])
       \o PutTables("columns", AllTables(p, ColumnsOf), LAMBDA t : PutTable("column", t, Doubles(t.table)))
       \o PutTables("gathers", AllTables(p, GathersOf), LAMBDA t : PutTable("gather", t, Ints(t.table)))
       \o PutTables("segments", AllTables(p, SegmentsOf), PutSegment)
       \o PutTables("scans", AllTables(p, ChainsOf), LAMBDA t : PutScan(p, t))
       \o <<Word("inputs")>> \o Listed(Ints(p.inputs)) \o <<Word("outputs")>> \o Listed(Ints(p.outputs))
       \o <<Word("end")>>

------------------------------------------------------------------------------
(***************************************************************************)
(* deserialize.  A reader r is at a token of a text and has the values got *)
(* so far; it is no longer ok once a token is not the one it expects.      *)
(***************************************************************************)
Reader(text) == [text |-> text, at |-> 1, ok |-> TRUE, got |-> <<>>]

Sees(r, kind) == r.ok /\ r.at <= Len(r.text) /\ r.text[r.at][1] = kind
Failed(r) == [r EXCEPT !.ok = FALSE]
Get(r, kind) == IF Sees(r, kind) THEN [r EXCEPT !.at = @ + 1, !.got = Append(@, r.text[r.at][2])] ELSE Failed(r)
Expect(r, w) == IF Sees(r, "word") /\ r.text[r.at][2] = w THEN [r EXCEPT !.at = @ + 1] ELSE Failed(r)

(* What Read gets, as one value; n times, as a sequence; after a length.   *)
As(r, Read(_)) == LET all == Read([r EXCEPT !.got = <<>>]) IN [all EXCEPT !.got = Append(r.got, all.got)]
Repeat(r, n, Read(_)) == As(r, LAMBDA s : Iterate(n, s, LAMBDA a, k : Read(a)))
Counted(r, Read(_)) ==
  LET n == Get(r, "int")
  IN IF n.ok THEN Repeat([n EXCEPT !.got = r.got], Last(n.got), Read) ELSE n
GetInt(r) == Get(r, "int")
GetBits(r) == Get(r, "bits")
Section(r, w, Read(_)) == Counted(Expect(r, w), LAMBDA s : As(s, Read))

GetSlot(r) == As(r, LAMBDA s : GetInt(Get(s, "word")))
GetStep(r) == LET op == Get(Expect(r, "step"), "word") IN Repeat(op, 4, GetSlot)
GetDomain(r) == Counted(GetInt(GetInt(GetInt(GetInt(Expect(r, "domain"))))), GetInt)
GetGroup(r) == Counted(GetInt(Expect(r, "group")), LAMBDA s : As(s, GetStep))
GetTable(r, w, Read(_)) == Counted(GetInt(Expect(r, w)), Read)
GetScan(r) == Counted(GetInt(GetInt(Expect(r, "scan"))), GetInt)
GetSegment(r) ==
  LET head == GetInt(GetInt(GetInt(GetInt(Expect(r, "segment")))))
      n(k) == head.got[k]
  IN IF ~head.ok THEN head
     ELSE Repeat(Expect(Repeat(Expect(Repeat(Expect(head, "offsets"), n(2), GetInt), "members"),
                             n(3), GetInt), "coefs"), n(4), GetBits)

(* The parts of a program, in the order of the text.                       *)
GetProgram(r) ==
  LET head == Get(Expect(r, "epykos-ir"), "int")
      literals == IF ~head.ok \/ head.got # <<Version>> THEN Failed(head)
                  ELSE Counted(Expect([head EXCEPT !.got = <<>>], "literals"), GetBits)
      groups == Section(Section(literals, "domains", GetDomain), "groups", GetGroup)
      tables == Section(Section(groups, "columns", LAMBDA s : GetTable(s, "column", GetBits)),
                        "gathers", LAMBDA s : GetTable(s, "gather", GetInt))
      scans == Section(Section(tables, "segments", GetSegment), "scans", GetScan)
      inputs == Counted(Expect(scans, "inputs"), GetInt)
  IN Expect(Counted(Expect(inputs, "outputs"), GetInt), "end")

(* Rows cut at the offsets; a Sum's segment has no coefficients.           *)
Cut(offsets, flat) == [r \in 1..(Len(offsets) - 1) |-> SubSeq(flat, offsets[r] + 1, offsets[r + 1])]
SegmentOf(t) ==
  [members |-> Cut(t[5], t[6]),
   coefs |-> IF t[7] = <<>> THEN [r \in 1..(Len(t[5]) - 1) |-> <<>>] ELSE Cut(t[5], t[7])]

InDomain(ts, d) == SelectSeq(ts, LAMBDA t : t[1] = d)
(* A slot's table, among those of its domain.                              *)
Local(parts, slot) ==
  LET among(ts) == Len(InDomain(SubSeq(ts, 1, slot[2]), ts[slot[2]][1]))
  IN CASE slot[1] = "literal" -> Literal(parts[1][slot[2]])
       [] slot[1] = "column" -> Column(among(parts[4]))
       [] slot[1] = "gather" -> Gather(among(parts[5]))
       [] slot[1] = "segment" -> Segment(among(parts[6]))
       [] OTHER -> slot

StepOf(parts, st) ==
  LET slots == [q \in 1..4 |-> Local(parts, st[2][q])]
  IN Step(st[1], SelectSeq(SubSeq(slots, 1, 3), LAMBDA slot : slot # NoSlot), slots[4])

DomainOfText(parts, d) ==
  LET scan == parts[2][d][4]
      tables(k, Of(_)) == LET ts == InDomain(parts[k], d) IN [i \in DOMAIN ts |-> Of(ts[i])]
  IN [rows |-> parts[2][d][1],
      steps |-> [k \in DOMAIN parts[3][d][2] |-> StepOf(parts, parts[3][d][2][k])],
      columns |-> tables(4, LAMBDA t : t[2]), gathers |-> tables(5, LAMBDA t : t[2]),
      segments |-> tables(6, SegmentOf),
      carry |-> IF scan = 0 THEN 0 ELSE Local(parts, <<"gather", parts[7][scan][2]>>)[2],
      scan |-> IF scan = 0 THEN <<>> ELSE parts[7][scan][3]]

(* What a domain says of itself that follows from the others.              *)
Consistent(p, d, told) ==
  /\ told[2] = Base(p, d) /\ told[3] = (IF Recurrent(p, d) THEN 1 ELSE 0) /\ Range(told[5]) = DomainReads(p, d)

ProgramOf(parts) ==
  [domains |-> [d \in DOMAIN parts[2] |-> DomainOfText(parts, d)], inputs |-> parts[8], outputs |-> parts[9]]

(* The program a text is of, if any.                                       *)
Finished(r) ==
  IF ~r.ok THEN {}
  ELSE {p \in {ProgramOf(r.got)} : Valid(p) /\ \A d \in DOMAIN p.domains : Consistent(p, d, r.got[2][d])}
Deserialize(text) == Finished(GetProgram(Reader(text)))
=============================================================================
