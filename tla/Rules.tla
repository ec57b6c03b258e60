------------------------------- MODULE Rules -------------------------------
(***************************************************************************)
(* The structural rewrite rules (rewrite/): the sites each matches in a    *)
(* program, and the program it proposes at a site.  A proposal that throws *)
(* is Thrown.                                                              *)
(***************************************************************************)
EXTENDS DomainIR

CONSTANT MinBlockRows  \* R7 splits into blocks of no fewer rows

ASSUME RulesAssumption == MinBlockRows \in Nat

Thrown == [domains |-> <<>>, inputs |-> <<>>, outputs |-> <<>>]

------------------------------------------------------------------------------
(* Editing a program.                                                      *)

Uniform(xs) == \A r \in DOMAIN xs : xs[r] = xs[1]

SlotsOf(st) == Range(st.args) \cup {st.konst}
UsersOf(steps, slot) == {q \in DOMAIN steps : slot \in SlotsOf(steps[q])}

MapSlots(st, F(_)) ==
  [op |-> st.op, args |-> [q \in DOMAIN st.args |-> F(st.args[q])], konst |-> F(st.konst)]

(* A domain that reads value to[v] where it read v.                        *)
Reading(dom, to) ==
  [dom EXCEPT
     !.gathers = [k \in DOMAIN dom.gathers |-> [r \in DOMAIN dom.gathers[k] |-> to[dom.gathers[k][r]]]],
     !.segments = [k \in DOMAIN dom.segments |->
                     [members |-> [r \in DOMAIN dom.segments[k].members |->
                                     [m \in DOMAIN dom.segments[k].members[r] |-> to[dom.segments[k].members[r][m]]]],
                      coefs |-> dom.segments[k].coefs]]]

Relabelled(p, domains, to) ==
  [domains |-> [d \in DOMAIN domains |-> Reading(domains[d], to)],
   inputs |-> [k \in DOMAIN p.inputs |-> to[p.inputs[k]]],
   outputs |-> [k \in DOMAIN p.outputs |-> to[p.outputs[k]]]]

Without(p, d) == SubSeq(p.domains, 1, d - 1) \o SubSeq(p.domains, d + 1, Len(p.domains))

(* A new domain after domain d, which reads values up to those of d: the   *)
(* values after it move up.                                                *)
InsertAfter(p, d, dom) ==
  LET to == [v \in 1..NumValues(p) |-> IF v <= Base(p, d + 1) THEN v ELSE v + dom.rows]
  IN Relabelled(p, SubSeq(p.domains, 1, d) \o <<dom>> \o SubSeq(p.domains, d + 1, Len(p.domains)), to)

(* Mutant: the values after it stay.                                       *)
Eliminate_LeavesIds(p, d, replacement) ==
  Relabelled(p, Without(p, d),
             [v \in 1..NumValues(p) |-> IF v > Base(p, d) /\ v <= Base(p, d + 1) THEN replacement[v - Base(p, d)] ELSE v])

(* A domain whose rows are read at replacement instead: the values after   *)
(* it move down.                                                           *)
Eliminate(p, d, replacement) ==
  Relabelled(p, Without(p, d),
             [v \in 1..NumValues(p) |-> IF v <= Base(p, d) THEN v
                                        ELSE IF v <= Base(p, d + 1) THEN replacement[v - Base(p, d)]
                                        ELSE v - p.domains[d].rows])

(* A domain becomes several, the values staying where they are.            *)
Split(p, d, parts) ==
  [p EXCEPT !.domains = SubSeq(p.domains, 1, d - 1) \o parts \o SubSeq(p.domains, d + 1, Len(p.domains))]

(* Rows b[1]..b[2] of a table.                                             *)
Slice(table, b) == SubSeq(table, b[1], b[2])
SegmentSlice(segment, b) == [members |-> Slice(segment.members, b), coefs |-> Slice(segment.coefs, b)]

(* The blocks that begin at the rows of starts.                            *)
BlocksAt(starts, rows) ==
  LET lo == SetToSortSeq(starts, <)
  IN [k \in DOMAIN lo |-> <<lo[k], IF k = Len(lo) THEN rows ELSE lo[k + 1] - 1>>]

------------------------------------------------------------------------------
(* R1: a column that is uniform becomes a literal where a step reads it;   *)
(* the table stays.                                                        *)
FoldableColumns(dom) ==
  {k \in DOMAIN dom.columns : Uniform(dom.columns[k]) /\ UsersOf(dom.steps, Column(k)) # {}}

FoldColumns(p, d) ==
  LET dom == p.domains[d]
      Fold(slot) == IF slot \in {Column(k) : k \in FoldableColumns(dom)}
                    THEN Literal(dom.columns[slot[2]][1]) ELSE slot
  IN [p EXCEPT !.domains[d].steps = [k \in DOMAIN dom.steps |-> MapSlots(dom.steps[k], Fold)]]

R1(p) == {FoldColumns(p, d) : d \in {e \in DOMAIN p.domains : FoldableColumns(p.domains[e]) # {}}}

------------------------------------------------------------------------------
(* R2: a domain whose rows come in runs, one for each combination of the   *)
(* columns that vary, is split into those runs.                            *)
Kind(dom, r) ==
  [k \in {c \in DOMAIN dom.columns : ~Uniform(dom.columns[c])} |-> dom.columns[k][r]]

RunStarts(dom) == {r \in 1..dom.rows : r = 1 \/ Kind(dom, r) # Kind(dom, r - 1)}

ComesInRuns(p, d) ==
  LET dom == p.domains[d]
  IN /\ ~Recurrent(p, d) /\ ~Scans(dom)
     /\ \E k \in DOMAIN dom.columns : ~Uniform(dom.columns[k])
     /\ Cardinality(RunStarts(dom)) < dom.rows
     /\ Cardinality(RunStarts(dom)) = Cardinality({Kind(dom, r) : r \in 1..dom.rows})

Bucket(dom, b) ==
  [dom EXCEPT !.rows = b[2] - b[1] + 1,
              !.columns = [k \in DOMAIN dom.columns |-> Slice(dom.columns[k], b)],
              !.gathers = [k \in DOMAIN dom.gathers |-> Slice(dom.gathers[k], b)],
              !.segments = [k \in DOMAIN dom.segments |-> SegmentSlice(dom.segments[k], b)]]

BucketRows(p, d) ==
  LET dom == p.domains[d]
      blocks == BlocksAt(RunStarts(dom), dom.rows)
  IN Split(p, d, [k \in DOMAIN blocks |-> Bucket(dom, blocks[k])])

R2(p) == {BucketRows(p, d) : d \in {e \in DOMAIN p.domains : ComesInRuns(p, e)}}

------------------------------------------------------------------------------
(* R3: a domain that sums one member a row is its members.                 *)
IsVariadicSum(st) == st.op = "Sum" /\ ~IsFixedSum(st)

IsTrivialMap(p, d) ==
  LET dom == p.domains[d]
  IN /\ ~Recurrent(p, d) /\ ~Scans(dom)
     /\ Len(dom.steps) = 1 /\ IsVariadicSum(dom.steps[1])
     /\ \A r \in 1..dom.rows : Len(MembersOf(dom, r, dom.steps[1])) = 1

ElideMap(p, d) ==
  LET dom == p.domains[d]
  IN Eliminate(p, d, [r \in 1..dom.rows |-> MembersOf(dom, r, dom.steps[1])[1]])

R3(p) == {ElideMap(p, d) : d \in {e \in DOMAIN p.domains : IsTrivialMap(p, e)}}

------------------------------------------------------------------------------
(* R4a and R4b: an operation on what a gather reads, where the gather      *)
(* reads rows of one domain more than once (or several gathers do), moves  *)
(* to a new domain with a row for every row of that domain.                *)
ReadsOnly(p, gather, s) == \A r \in DOMAIN gather : DomainOf(p, gather[r]) = s
Repeats(gather) == Cardinality(Range(gather)) < Len(gather)
OperandOf(dom, k, q) == dom.gathers[dom.steps[k].args[q][2]]

(* The steps that apply op to a gather of rows of domain s: its q-th       *)
(* operand.                                                                *)
SitesOf(p, s, op, q) ==
  {<<d, k>> \in UNION {{d} \X (DOMAIN p.domains[d].steps) : d \in {e \in DOMAIN p.domains : ~Recurrent(p, e)}} :
     LET st == p.domains[d].steps[k]
     IN /\ st.op = op /\ st.args[q][1] = "gather"
        /\ ReadsOnly(p, OperandOf(p.domains[d], k, q), s)}

RowByRow(p, s, op) ==
  [rows |-> p.domains[s].rows, steps |-> <<Step(op, <<Gather(1)>>, NoSlot)>>, columns |-> <<>>,
   gathers |-> <<[r \in 1..p.domains[s].rows |-> ValueOf(p, s, r)]>>,
   segments |-> <<>>, scan |-> <<>>, carry |-> 0]

(* The row of the new domain is read, not the row of domain s with the     *)
(* position of the reader.                                                 *)
Redirected_ByReader(p, s, gather) == [r \in DOMAIN gather |-> Base(p, s + 1) + r]
Redirected(p, s, gather) == [r \in DOMAIN gather |-> Base(p, s + 1) + RowOf(p, gather[r])]

(* Each site multiplies by the new row: with what it divided, or with 1.   *)
(* What it read before stays in the domain, read by no step.               *)
Relocated(p, s, sites, q, op) ==
  LET inserted == InsertAfter(p, s, RowByRow(p, s, op))
      Multiply(d, dom, k) ==
        IF <<d, k>> \notin sites THEN dom
        ELSE LET new == Gather(Len(dom.gathers) + 1)
             IN [dom EXCEPT !.gathers = Append(@, Redirected(p, s, OperandOf(p.domains[d], k, q))),
                            !.steps[k] = Step("Mul", IF q = 1 THEN <<new, Literal(1)>>
                                                     ELSE <<dom.steps[k].args[1], new>>, NoSlot)]
  IN [inserted EXCEPT !.domains = [d \in DOMAIN inserted.domains |->
        LET dom == inserted.domains[d]
        IN IF d <= s + 1 THEN dom
           ELSE FoldLeft(LAMBDA e, k : Multiply(d - 1, e, k), dom, [k \in DOMAIN dom.steps |-> k])]]

Pushed == {"Exp", "Log", "Sqrt", "Neg"}

UnarySites(p, s, op) ==
  {site \in SitesOf(p, s, op, 1) : Repeats(OperandOf(p.domains[site[1]], site[2], 1))}

R4a(p) ==
  {Relocated(p, so[1], UnarySites(p, so[1], so[2]), 1, so[2]) :
     so \in {x \in (DOMAIN p.domains) \X Pushed : UnarySites(p, x[1], x[2]) # {}}}

DivisionSites(p, s) ==
  LET all == SitesOf(p, s, "Div", 2)
  IN IF Cardinality(all) > 1 THEN all
     ELSE {site \in all : Repeats(OperandOf(p.domains[site[1]], site[2], 2))}

R4b(p) ==
  {Relocated(p, s, DivisionSites(p, s), 2, "Recip") : s \in {e \in DOMAIN p.domains : DivisionSites(p, e) # {}}}

------------------------------------------------------------------------------
(* R5: a domain that one gather alone reads, row by row, moves into its    *)
(* reader when that feeds a reduction.                                     *)
Tables(p) ==
  UNION {{<<"gather", d, k>> : k \in DOMAIN p.domains[d].gathers}
           \cup {<<"segment", d, k>> : k \in DOMAIN p.domains[d].segments} : d \in DOMAIN p.domains}

ReadAt(p, table) ==
  LET dom == p.domains[table[2]]
  IN IF table[1] = "gather" THEN Range(dom.gathers[table[3]])
     ELSE UNION {Range(dom.segments[table[3]].members[r]) : r \in DOMAIN dom.segments[table[3]].members}

ValuesOf(p, d) == (Base(p, d) + 1)..Base(p, d + 1)
TablesReading(p, d) == {t \in Tables(p) : ReadAt(p, t) \cap ValuesOf(p, d) # {}}
Feeds(p, d) == \E t \in TablesReading(p, d) : t[1] = "segment"

Merges(p, d) ==
  \E t \in Tables(p) :
    /\ TablesReading(p, d) = {t} /\ t[1] = "gather"
    /\ p.domains[t[2]].gathers[t[3]] = [r \in 1..p.domains[d].rows |-> ValueOf(p, d, r)]
    /\ ~Recurrent(p, d) /\ ~Recurrent(p, t[2])
    /\ Feeds(p, t[2])
    /\ Range(p.outputs) \cap ValuesOf(p, d) = {}

(* The steps of the reader after those of the domain it read.  The gather  *)
(* between them goes, and those of the reader behind it close up.          *)
Merged(producer, consumer, gone) ==
  LET n == Len(producer.steps)
      Moved(slot) ==
        CASE slot = Gather(gone) -> StepAt(n)
          [] slot[1] = "step" -> StepAt(slot[2] + n)
          [] slot[1] = "column" -> Column(slot[2] + Len(producer.columns))
          [] slot[1] = "gather" -> Gather(Len(producer.gathers) + IF slot[2] > gone THEN slot[2] - 1 ELSE slot[2])
          [] slot[1] = "segment" -> Segment(slot[2] + Len(producer.segments))
          [] OTHER -> slot
  IN [consumer EXCEPT
        !.steps = producer.steps \o [k \in DOMAIN consumer.steps |-> MapSlots(consumer.steps[k], Moved)],
        !.columns = producer.columns \o consumer.columns,
        !.gathers = producer.gathers \o RemoveAt(consumer.gathers, gone),
        !.segments = producer.segments \o consumer.segments]

(* A value of the domain that something else still names cannot be moved:  *)
(* the rows of an Input domain are the inputs of the program.              *)
MergeProducer(p, d) ==
  LET t == CHOOSE x \in TablesReading(p, d) : TRUE
      merged == Merged(p.domains[d], p.domains[t[2]], t[3])
  IN IF Range(p.inputs) \cap ValuesOf(p, d) # {} THEN Thrown
     ELSE Eliminate([p EXCEPT !.domains[t[2]] = merged], d, [r \in 1..p.domains[d].rows |-> 0])

R5(p) == {MergeProducer(p, d) : d \in {e \in DOMAIN p.domains : Merges(p, e)}}

------------------------------------------------------------------------------
(* R7: a linmap whose rows read one advancing span after the other of the  *)
(* domain they read is split at the spans.                                 *)
IsLinmap(p, d) == ~Recurrent(p, d) /\ Len(p.domains[d].steps) = 1 /\ p.domains[d].steps[1].op = "Affine"

LinmapBlocks(p, d) ==
  LET dom == p.domains[d]
      Read(r) == Range(MembersOf(dom, r, dom.steps[1]))
      sources(r) == {DomainOf(p, v) : v \in Read(r)}
      \* the rows that begin a block, the domains the last block reads, and
      \* the last value it reads
      blocks == FoldLeft(LAMBDA b, r :
                  LET extends == r > 1 /\ Cardinality(sources(r)) = 1 /\ b.sources = sources(r) /\ Min(Read(r)) <= b.last
                  IN [starts |-> IF extends THEN b.starts ELSE b.starts \cup {r}, sources |-> sources(r),
                      last |-> Max(Read(r) \cup IF extends THEN {b.last} ELSE {})],
                [starts |-> {}, sources |-> {}, last |-> 0], [r \in 1..dom.rows |-> r])
  IN BlocksAt(blocks.starts, dom.rows)

SplitsIntoBlocks(p, d) ==
  /\ IsLinmap(p, d) /\ Len(LinmapBlocks(p, d)) >= 2
  /\ \A k \in DOMAIN LinmapBlocks(p, d) :
       LinmapBlocks(p, d)[k][2] - LinmapBlocks(p, d)[k][1] + 1 >= MinBlockRows

(* The first block keeps the tables of the domain, those its step reads    *)
(* cut to its rows; the others are made anew.                              *)
FirstBlock(dom, b) ==
  LET st == dom.steps[1]
  IN [dom EXCEPT !.rows = b[2],
        !.segments = [k \in DOMAIN dom.segments |->
                        IF Segment(k) = st.args[1] THEN SegmentSlice(dom.segments[k], b) ELSE dom.segments[k]],
        !.columns = [k \in DOMAIN dom.columns |->
                        IF Column(k) = st.konst THEN Slice(dom.columns[k], b) ELSE dom.columns[k]]]

LaterBlock(dom, b) ==
  LET st == dom.steps[1]
      columned == st.konst[1] = "column"
  IN [rows |-> b[2] - b[1] + 1,
      steps |-> <<Step("Affine", <<Segment(1)>>, IF columned THEN Column(1) ELSE st.konst)>>,
      columns |-> IF columned THEN <<Slice(dom.columns[st.konst[2]], b)>> ELSE <<>>,
      gathers |-> <<>>,
      segments |-> <<SegmentSlice(dom.segments[st.args[1][2]], b)>>,
      scan |-> <<>>, carry |-> 0]

SplitLinmap(p, d) ==
  LET dom == p.domains[d]
      blocks == LinmapBlocks(p, d)
  IN Split(p, d, [k \in DOMAIN blocks |-> IF k = 1 THEN FirstBlock(dom, blocks[1]) ELSE LaterBlock(dom, blocks[k])])

R7(p) == {SplitLinmap(p, d) : d \in {e \in DOMAIN p.domains : SplitsIntoBlocks(p, e)}}

------------------------------------------------------------------------------
(* Contraction: a product that one sum of two alone reads is multiplied    *)
(* and added at once.                                                      *)
SumOf(steps, k) ==
  {q \in DOMAIN steps : /\ UsersOf(steps, StepAt(k)) = {q} /\ k # q
                        /\ IsFixedSum(steps[q]) /\ Len(steps[q].args) = 2}

Addend(st, k) == IF st.args[1] = StepAt(k) THEN st.args[2] ELSE st.args[1]

Fused(steps, k, q) ==
  LET Moved(slot) == IF slot[1] = "step" /\ slot[2] > k THEN StepAt(slot[2] - 1) ELSE slot
      fma == Step("Fma", steps[k].args \o <<Addend(steps[q], k)>>, NoSlot)
      new == [j \in DOMAIN steps |-> MapSlots(IF j = q THEN fma ELSE steps[j], Moved)]
  IN RemoveAt(new, k)

FMA(p) ==
  UNION {UNION {{[p EXCEPT !.domains[d].steps = Fused(p.domains[d].steps, k, q)] : q \in SumOf(p.domains[d].steps, k)} :
                k \in {j \in DOMAIN p.domains[d].steps : p.domains[d].steps[j].op = "Mul"}} : d \in DOMAIN p.domains}

------------------------------------------------------------------------------
StructuralRules == {"R1", "R2", "R3", "R4a", "R4b", "R5", "R7", "FMA"}

Proposals(rule, p) ==
  CASE rule = "R1" -> R1(p) [] rule = "R2" -> R2(p) [] rule = "R3" -> R3(p) [] rule = "R4a" -> R4a(p)
    [] rule = "R4b" -> R4b(p) [] rule = "R5" -> R5(p) [] rule = "R7" -> R7(p) [] rule = "FMA" -> FMA(p)
=============================================================================
