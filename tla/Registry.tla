------------------------------ MODULE Registry ------------------------------
(***************************************************************************)
(* The registry of conventions (src/conventions/registry.cpp) and the      *)
(* blueprints that name them (src/maths/instrument/blueprint.cpp), filled  *)
(* from documents.  A document is the sequence of its entries in the order *)
(* add_document reads them: [section, name, body].  An entry that is not   *)
(* well formed, or is defined twice, throws with the entries before it     *)
(* stored; finalize then builds the calendars anew and resolves the names. *)
(***************************************************************************)
EXTENDS Calendars, Functions

CONSTANTS Documents,   \* what files may say
          Prints,      \* what files of blueprints may say
          MaxFiles     \* bound: files added after the first load

\* Assumed by Market, which composes this module.
RegistryAssumption == MaxFiles \in Nat /\ \A doc \in Documents \cup Prints : DOMAIN doc \subseteq Nat

VARIABLES defs,       \* the definitions stored: {[section, name, body]}
          calendars,  \* calendars_, by name
          verdict,    \* of the last call: "ok", "thrown"; "none": no call yet
          prints,     \* the blueprints and curves stored
          valid,      \* validate has accepted them
          files       \* how many files were added

vars == <<defs, calendars, verdict, prints, valid, files>>

Names(section, ds) == {d.name : d \in {e \in ds : e.section = section}}
Body(section, name, ds) == (CHOOSE d \in ds : d.section = section /\ d.name = name).body
-----------------------------------------------------------------------------
(* An object is the record of the keys that are given.  Strict objects     *)
(* have no key but those allowed, and each of those required.              *)
Strict(o, allowed, required) == DOMAIN o \subseteq allowed /\ required \subseteq DOMAIN o
Given(o, key, otherwise) == IF key \in DOMAIN o THEN o[key] ELSE otherwise

CrossChecks == {"agree", "disagree", "partial", "not_in_source", "own_research"}
GoodProvenance(o) ==
  "provenance" \in DOMAIN o =>
    /\ Strict(o.provenance, {"imported_from", "imported_on", "imported_key", "cross_check", "notes"},
                            {"imported_from", "imported_on", "cross_check"})
    /\ o.provenance.cross_check \in CrossChecks

(* What the reader checks of an entry by itself.                           *)
Compounding(leg) == Given(leg, "compounding", "none")
RoleOk(leg) ==
  \/ leg.role = "fixed" /\ {"index", "compounding", "observation"} \cap DOMAIN leg = {}
  \/ leg.role = "float" /\ "index" \in DOMAIN leg /\ Compounding(leg) \in {"compounded", "averaged", "none"}
Observed(leg) ==
  "observation" \in DOMAIN leg =>
    LET o == leg.observation
    IN /\ Strict(o, {"method", "lookback_days", "lockout_days", "accrual"}, {"method"})
       /\ {Given(o, "lookback_days", 0), Given(o, "lockout_days", 0)} \subseteq Nat
       /\ Given(o, "accrual", "observation_period") # "observation_period" => o.method = "observation_shift"
       /\ o.method = "plain" => Given(o, "lookback_days", 0) = 0
IsSwap(p) == p.type \in {"ois", "irs", "basis"}
GoodInstrument(p) ==
  IF IsSwap(p)
  THEN /\ Len(p.legs) = 2 /\ "index" \notin DOMAIN p
       /\ \A l \in DOMAIN p.legs : RoleOk(p.legs[l]) /\ Observed(p.legs[l])
       /\ p.type = "basis" => Cardinality({l \in DOMAIN p.legs : p.legs[l].spread}) = 1
  ELSE p.type \in {"deposit", "future"} /\ p.legs = <<>> /\ "index" \in DOMAIN p
GoodRule(r) ==
  CASE r.kind = "fixed" -> /\ Strict(r, {"kind", "month", "day", "observance", "from_year", "to_year"}, {"month", "day"})
                           /\ r.month \in 1 .. 12 /\ r.day \in 1 .. 31
    [] r.kind = "nth_weekday" -> /\ Strict(r, {"kind", "month", "weekday", "n", "from_year", "to_year"}, {"month", "weekday", "n"})
                                 /\ r.month \in 1 .. 12 /\ r.weekday \in 0 .. 6 /\ r.n \in {-1, 1, 2, 3, 4, 5}
    [] r.kind = "easter_offset" -> Strict(r, {"kind", "days", "skip_first", "from_year", "to_year"}, {"days"})
    [] OTHER -> FALSE
GoodCalendar(c) ==
  IF c.join # <<>> THEN Len(c.join) >= 2
  ELSE /\ c.weekend \subseteq 0..6 /\ c.first_year \in 1600..c.last_year /\ c.last_year <= 3000
       /\ \A r \in DOMAIN c.rules : GoodRule(c.rules[r])
GoodIndex(x) == \/ x.type = "overnight" /\ "tenor" \notin DOMAIN x
                \/ x.type = "term" /\ {"tenor", "fixing_lag"} \subseteq DOMAIN x
GoodMeetings(cb) == \A n \in 2..Len(cb.meetings) : cb.meetings[n - 1] < cb.meetings[n]

(* Of a blueprint: observation days are for legs that observe.             *)
CouponKinds == {"fixed", "rfr_compounded", "rfr_averaged", "term_rate"}
IsRfr(kind) == kind \in {"rfr_compounded", "rfr_averaged"}
Sides == {"receive", "long", "lend", "pay", "short", "borrow"}
GoodLegPrint_AnyKind(l) == Strict(l, {"coupon", "observation", "spread"}, {"coupon"}) /\ l.coupon \in CouponKinds
GoodLegPrint(l) ==
  /\ Strict(l, {"coupon", "observation", "spread"}, {"coupon"}) /\ l.coupon \in CouponKinds
  /\ "observation" \in DOMAIN l =>
       IsRfr(l.coupon) /\ Strict(l.observation, {"method", "lookback_days", "lockout_days"}, {"method"})
LegsOf(b) == Given(b, "legs", <<>>)
GoodPrint(b) ==
  /\ Strict(b, {"convention", "description", "legs", "notional", "side", "tenor", "start", "fixed_rate", "spread",
                "traded_price", "sources"}, {"convention"})
  /\ \A l \in DOMAIN LegsOf(b) : GoodLegPrint(LegsOf(b)[l])
  /\ Given(b, "side", "receive") \in Sides

(* Of a curve: its regions one after the other from today, and for each    *)
(* entry one way to say which instruments are meant.                       *)
RegionsOf(c) == Given(c, "regions", <<[scheme |-> Given(c, "scheme", "linear"), variable |-> Given(c, "variable", "zero")]>>)
GoodRegions(c) ==
  /\ "regions" \in DOMAIN c => {"scheme", "variable"} \cap DOMAIN c = {}
  /\ RegionsOf(c) # <<>>
  /\ \A r \in DOMAIN RegionsOf(c) :
       LET region == RegionsOf(c)[r]
       IN /\ Strict(region, {"from", "scheme", "variable"}, {"scheme", "variable"})
          /\ "from" \in DOMAIN region <=> r > 1
GoodEntry(e) ==
  /\ Strict(e, {"blueprint", "tenors", "tenor", "key", "contracts"}, {"blueprint"})
  /\ Cardinality(DOMAIN e \cap {"tenors", "tenor", "contracts"}) = 1
  /\ "key" \in DOMAIN e => "tenors" \notin DOMAIN e
  /\ "tenors" \in DOMAIN e => DOMAIN e.tenors # {}
  /\ "contracts" \in DOMAIN e => e.contracts \in Nat \ {0}
GoodCurve(c) ==
  /\ Strict(c, {"index", "currency", "description", "scheme", "variable", "regions", "knots", "instruments", "sources"},
               {"index", "instruments"})
  /\ GoodRegions(c) /\ c.instruments # <<>> /\ \A n \in DOMAIN c.instruments : GoodEntry(c.instruments[n])

WellFormed(d) ==
  CASE d.section = "blueprints" -> GoodPrint(d.body)
    [] d.section = "curves" -> GoodCurve(d.body)
    [] d.section = "calendars" -> GoodCalendar(d.body) /\ GoodProvenance(d.body)
    [] d.section = "indices" -> GoodIndex(d.body) /\ GoodProvenance(d.body)
    [] d.section = "instruments" -> GoodInstrument(d.body) /\ GoodProvenance(d.body)
    [] d.section = "cb_schedules" -> GoodMeetings(d.body)
    [] OTHER -> GoodProvenance(d.body)

Twice(d, ds) == d.name \in Names(d.section, ds)

(* add_document, document after document: the entries before the first one *)
(* that throws are stored.                                                 *)
Places(docs) == UNION {{f} \X DOMAIN docs[f] : f \in DOMAIN docs}
Entry(docs, p) == docs[p[1]][p[2]]
Earlier(p, q) == p[1] < q[1] \/ (p[1] = q[1] /\ p[2] < q[2])
Throwing(ds, docs) ==
  {p \in Places(docs) : \/ ~WellFormed(Entry(docs, p))
                        \/ Twice(Entry(docs, p), ds \cup {Entry(docs, q) : q \in {q \in Places(docs) : Earlier(q, p)}})}
AddDocuments(ds, docs) ==
  LET throwing == Throwing(ds, docs)
  IN  [defs |-> ds \cup {Entry(docs, p) : p \in {p \in Places(docs) \ throwing : ~\E q \in throwing : Earlier(q, p)}},
       thrown |-> throwing # {}]
-----------------------------------------------------------------------------
(* finalize: the calendars with rules, then those whose members are there, *)
(* as long as a sweep in the order of names builds one.                    *)
RuleCalendars(ds) ==
  LET ruled == {n \in Names("calendars", ds) : Body("calendars", n, ds).join = <<>>}
  IN  [n \in ruled |-> RuleCalendar(Body("calendars", n, ds))]

(* A member is looked at only when those before it in the join are built.  *)
Reached(cals, join) == {join[k] : k \in {j \in DOMAIN join : \A i \in 1..(j - 1) : join[i] \in DOMAIN cals}}
Absent(ds, name, members) == \E m \in members : m = name \/ m \notin Names("calendars", ds)
Apart(members) == JointFirst(members) > JointLast(members)

Joined(ds, cals, name) ==
  LET join == Body("calendars", name, ds).join
      members == {cals[m] : m \in Range(join) \cap DOMAIN cals}
  IN  IF name \in DOMAIN cals THEN [cals |-> cals, thrown |-> FALSE]
      ELSE IF Absent(ds, name, Reached(cals, join)) \/ (Range(join) \subseteq DOMAIN cals /\ Apart(members))
           THEN [cals |-> cals, thrown |-> TRUE]
      ELSE IF ~(Range(join) \subseteq DOMAIN cals) THEN [cals |-> cals, thrown |-> FALSE]
      ELSE [cals |-> [n \in DOMAIN cals \cup {name} |->
                        IF n = name THEN JointCalendar(members) ELSE cals[n]], thrown |-> FALSE]

InOrder(names) == SelectSeq([n \in 1..Max(names \cup {0}) |-> n], LAMBDA n : n \in names)
Sweep(ds, r) ==
  FoldLeft(LAMBDA s, n : IF s.thrown THEN s ELSE Joined(ds, s.cals, n), r,
           InOrder(Names("calendars", ds)))
(* Every sweep but the last builds a calendar, and one that builds none    *)
(* would build none if it were made again.                                 *)
Sweeps(ds, r) ==
  FoldLeft(LAMBDA s, n : Sweep(ds, s), r, [n \in 0 .. Cardinality(Names("calendars", ds)) |-> n])

(* The cross references.  A convention's own index may be the empty string,*)
(* which is taken for none.                                                *)
OwnIndices(p) == {Given(p, "index", ""), p.discount_index} \ {""}
LegRefers(leg, ds, cals) ==
  /\ leg.role = "float" =>
       /\ leg.index \in Names("indices", ds)
       /\ Body("indices", leg.index, ds).type = "overnight" <=> Compounding(leg) # "none"
  /\ leg.calendar # 0 => leg.calendar \in DOMAIN cals
Refers(d, ds, cals) ==
  CASE d.section = "currencies" ->
         /\ d.body.settlement_calendar \in DOMAIN cals
         /\ d.body.discount_index \in Names("indices", ds)
         /\ d.body.default_instrument \in Names("instruments", ds)
    [] d.section = "indices" ->
         d.body.currency \in Names("currencies", ds) /\ d.body.fixing_calendar \in DOMAIN cals
    [] d.section = "instruments" ->
         /\ d.body.currency \in Names("currencies", ds) /\ d.body.calendar \in DOMAIN cals
         /\ OwnIndices(d.body) \subseteq Names("indices", ds)
         /\ \A l \in DOMAIN d.body.legs : LegRefers(d.body.legs[l], ds, cals)
    [] d.section = "cb_schedules" -> d.name \in Names("currencies", ds)
    [] OTHER -> TRUE

Finalize(ds) ==
  LET built == Sweeps(ds, [cals |-> RuleCalendars(ds), thrown |-> FALSE])
  IN  [cals |-> built.cals,
       thrown |-> \/ built.thrown \/ DOMAIN built.cals # Names("calendars", ds)
                  \/ \E d \in ds : ~Refers(d, ds, built.cals)]
-----------------------------------------------------------------------------
Init == /\ defs = {} /\ calendars = <<>> /\ verdict = "none"
        /\ prints = {} /\ valid = FALSE /\ files = 0

(* load_files: all the documents, then one finalize; a throw leaves no     *)
(* registry behind.                                                        *)
Load(docs) ==
  LET r == AddDocuments({}, docs)
      f == Finalize(r.defs)
  IN  /\ verdict = "none"
      /\ IF r.thrown \/ f.thrown THEN verdict' = "thrown" /\ UNCHANGED <<defs, calendars>>
         ELSE verdict' = "ok" /\ defs' = r.defs /\ calendars' = f.cals
      /\ UNCHANGED <<prints, valid, files>>

(* add_file: what was stored before a throw stays, and so do the calendars *)
(* built before it.                                                        *)
AddFile(doc) ==
  LET r == AddDocuments(defs, <<doc>>)
      f == Finalize(r.defs)
  IN  /\ files < MaxFiles
      /\ files' = files + 1
      /\ defs' = r.defs
      /\ calendars' = IF r.thrown THEN calendars ELSE f.cals
      /\ verdict' = IF r.thrown \/ f.thrown THEN "thrown" ELSE "ok"
      /\ UNCHANGED <<prints, valid>>

(* Blueprints are stored as they are read, and validated against the       *)
(* registry later.                                                         *)
AddPrints(doc) ==
  /\ verdict = "ok" /\ prints = {}
  /\ prints' = AddDocuments({}, <<doc>>).defs
  /\ UNCHANGED <<defs, calendars, verdict, valid, files>>

DefaultCoupon(leg) ==
  IF leg.role = "fixed" THEN "fixed"
  ELSE IF Body("indices", leg.index, defs).type = "term" THEN "term_rate"
  ELSE IF Compounding(leg) = "compounded" THEN "rfr_compounded" ELSE "rfr_averaged"
Records(kind, leg) == kind = DefaultCoupon(leg) \/ (IsRfr(kind) /\ IsRfr(DefaultCoupon(leg)))

ValidPrint(b) ==
  /\ b.convention \in Names("instruments", defs)
  /\ LET conv == Body("instruments", b.convention, defs)
     IN  LegsOf(b) # <<>> => /\ IsSwap(conv) /\ DOMAIN LegsOf(b) = DOMAIN conv.legs
                             /\ \A l \in DOMAIN LegsOf(b) : Records(LegsOf(b)[l].coupon, conv.legs[l])
ValidCurve(c) ==
  /\ c.index \in Names("indices", defs)
  /\ \A e \in Range(c.instruments) :
       /\ e.blueprint \in Names("blueprints", prints)
       /\ LET conv == Body("instruments", Body("blueprints", e.blueprint, prints).convention, defs)
          IN  conv.type = "future" <=> Given(e, "contracts", 0) > 0

Resolves == \A d \in prints : /\ d.section = "blueprints" => ValidPrint(d.body)
                              /\ d.section = "curves" => ValidCurve(d.body)
Validate ==
  /\ verdict = "ok" /\ prints # {} /\ ~valid
  /\ valid' = Resolves
  /\ UNCHANGED <<defs, calendars, verdict, prints, files>>

Orders == {o \in UNION {[1..n -> Documents] : n \in 1..3} : IsInjective(o)}
Next == \/ verdict = "none" /\ \E docs \in Orders : Load(docs)
        \/ \E doc \in Documents : AddFile(doc)
        \/ \E doc \in Prints : AddPrints(doc)
        \/ Validate
-----------------------------------------------------------------------------
(* The calendars under a calendar, however deep it joins others.           *)
Leaves(name) ==
  LET join(n) == Body("calendars", n, defs).join
      under[n \in Names("calendars", defs), deep \in Nat] ==
        IF join(n) = <<>> THEN {n}
        ELSE IF deep = 0 THEN {} ELSE UNION {under[m, deep - 1] : m \in Range(join(n))}
  IN  under[name, Cardinality(defs)]
(* The weekdays a calendar with rules closes on, by any rule of any year.  *)
Closed(c, d) ==
  \/ Weekday(d) \in c.weekend
  \/ /\ d \notin c.not_holidays
     /\ \/ d \in c.extra
        \/ \E r \in DOMAIN c.rules, y \in (c.first_year - 3) .. (c.last_year + 3) :
             d \in DateForYear(c.rules[r], y, c.observance)

(* What a curve set looks up, building the instruments of a curve: the     *)
(* names of a blueprint's convention, of its legs and of their indices.    *)
LookedUp(b) ==
  LET conv == Body("instruments", b.convention, defs)
      floating == {l \in DOMAIN conv.legs : conv.legs[l].role = "float"}
      indices == OwnIndices(conv) \cup {conv.legs[l].index : l \in floating}
  IN  [indices |-> indices,
       calendars |-> {conv.calendar} \cup ({conv.legs[l].calendar : l \in DOMAIN conv.legs} \ {0})
                       \cup {Body("indices", x, defs).fixing_calendar : x \in indices \cap Names("indices", defs)}]

(* Every calendar that is defined is built, and blueprints once accepted   *)
(* stand, and are built without a name, or a calendar, that is not there.  *)
NamesResolve ==
  verdict = "ok" =>
    /\ DOMAIN calendars = Names("calendars", defs)
    /\ valid => /\ Resolves
                /\ \A d \in prints : d.section = "blueprints" =>
                     /\ LookedUp(d.body).indices \subseteq Names("indices", defs)
                     /\ LookedUp(d.body).calendars \subseteq DOMAIN calendars

(* Blueprints once accepted make trades: an instrument or more for every   *)
(* entry of a curve, asked for by contract if its convention is of futures *)
(* and by tenor if not, and observation days where there is a fixing each  *)
(* day to observe.                                                         *)
TradesOf(e) ==
  IF "contracts" \in DOMAIN e THEN [k \in 1 .. e.contracts |-> <<"contract", k>>]
  ELSE LET tenors == Given(e, "tenors", <<Given(e, "tenor", "")>>) IN [n \in DOMAIN tenors |-> <<"tenor", tenors[n]>>]
PrintsMakeTrades ==
  verdict = "ok" /\ valid =>
    /\ \A d \in prints : d.section = "blueprints" =>
         LET conv == Body("instruments", d.body.convention, defs)
         IN \A l \in DOMAIN LegsOf(d.body) : "observation" \in DOMAIN LegsOf(d.body)[l] =>
              conv.legs[l].role = "float" /\ Body("indices", conv.legs[l].index, defs).type = "overnight"
    /\ \A d \in prints : d.section = "curves" =>
         \A e \in Range(d.body.instruments) :
           LET conv == Body("instruments", Body("blueprints", e.blueprint, prints).convention, defs)
               as == IF conv.type = "future" THEN "contract" ELSE "tenor"
           IN TradesOf(e) # <<>> /\ \A t \in Range(TradesOf(e)) : t[1] = as

(* Each is closed on exactly the days one of the calendars under it is.    *)
ClosedAsRuled ==
  verdict = "ok" =>
    \A n \in DOMAIN calendars :
      LET under == {Body("calendars", m, defs) : m \in Leaves(n)}
      IN  \A d \in calendars[n].first .. calendars[n].last :
            IsBusinessDay(calendars[n], d) <=> \A c \in under : ~Closed(c, d)

(* A registry that accepted its last file, whatever it refused before, has *)
(* every calendar, right, and every name, and makes trades of blueprints.  *)
AcceptedIsWhole == NamesResolve /\ ClosedAsRuled /\ PrintsMakeTrades
=============================================================================
