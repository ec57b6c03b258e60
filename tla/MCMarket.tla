------------------------------ MODULE MCMarket ------------------------------
(* Small markets: graphs of reads, documents of conventions, trades around *)
(* Easter 2024.                                                            *)
EXTENDS Market, Calendars

(* Four curves and five instruments, two of them of the first curve, which *)
(* has two knots: every graph of reads in which each curve reads itself,   *)
(* and on the first three curves reads of any knots, even of none.         *)
SomeCurves == 0 .. (N - 1)
TwoKnotsFirst == [c \in SomeCurves |-> IF c = 0 THEN 2 ELSE 1]
FiveInstruments == <<0, 1, 2, 3, 0>>
EveryKnot(cs) == UNION {{c} \X (1 .. TwoKnotsFirst[c]) : c \in cs}
EveryGraph ==
    {[i \in 1 .. 5 |-> IF i = 1 THEN EveryKnot(r[1]) \ {<<0, 2>>} ELSE IF i = 5 THEN {<<0, 2>>} ELSE EveryKnot(r[i])] :
       r \in {g \in [1 .. 4 -> SUBSET SomeCurves] : \A i \in 1 .. 4 : FiveInstruments[i] \in g[i]}}
AnyReads ==
    {<<a, b, EveryKnot(c), {<<3, 1>>}, d>> :
       a \in SUBSET EveryKnot(0 .. 2), b \in SUBSET EveryKnot(0 .. 2), c \in {{2}, 0 .. 2}, d \in {{}, {<<0, 2>>}}}
SomeReads == EveryGraph \cup AnyReads
-----------------------------------------------------------------------------
Fixed(month, day, observance) ==
  [kind |-> "fixed", month |-> month, day |-> day, observance |-> observance, from_year |-> 0, to_year |-> 0]
Easter(days) == [kind |-> "easter_offset", days |-> days, skip_first |-> FALSE, from_year |-> 0, to_year |-> 0]
LastMonday(month) ==
  [kind |-> "nth_weekday", month |-> month, weekday |-> 0, n |-> -1, from_year |-> 0, to_year |-> 0]
Ruled(weekend, rules, observance, year) ==
  [join |-> <<>>, weekend |-> weekend, rules |-> rules, observance |-> observance, extra |-> {},
   not_holidays |-> {}, first_year |-> year, last_year |-> year]
Join(names) == [Ruled({}, <<>>, "none", 0) EXCEPT !.join = names]

(* Definitions of 2021, whose New Year is kept on the last day of 2020 and *)
(* whose 31 December is the New Year of 2022.                              *)
Entry(section, name, body) == [section |-> section, name |-> name, body |-> body]
Cal(name, body) == Entry("calendars", name, body)
Us == Ruled({5, 6}, <<Fixed(1, 1, ""), LastMonday(5), Fixed(6, 19, "")>>, "sat_to_fri_sun_to_mon", 2021)
Eu == [Ruled({5, 6}, <<Easter(-2), Easter(1), Fixed(12, 25, "")>>, "none", 2021) EXCEPT
         !.extra = {DaysFromCivil(2021, 3, 17)}, !.not_holidays = {DaysFromCivil(2021, 4, 5)}]
Gulf == Ruled({4, 5}, <<Fixed(12, 2, "")>>, "none", 2021)
Late == Ruled({5, 6}, <<>>, "none", 2023)

Currency(calendar) ==
  Entry("currencies", "usd", [settlement_calendar |-> calendar, discount_index |-> "sofr", default_instrument |-> "ois"])
IndexOf(name, type, calendar) ==
  Entry("indices", name, [type |-> type, currency |-> "usd", fixing_calendar |-> calendar]
                           @@ (IF type = "term" THEN [tenor |-> "3M", fixing_lag |-> 2] ELSE <<>>))
PartOf(role) == [role |-> role, spread |-> FALSE, calendar |-> 0]
LegOf(of, compounding) == PartOf("float") @@ [index |-> of] @@ (IF compounding = "" THEN <<>> ELSE [compounding |-> compounding])
ConvOf(name, type, calendar, legs) ==
  Entry("instruments", name, [type |-> type, currency |-> "usd", calendar |-> calendar, discount_index |-> "", legs |-> legs])
On(of, type, name) == [ConvOf(name, type, 2, <<>>) EXCEPT !.body = [index |-> of] @@ @]

(* A joint of a joint that is named after it, whose other member is in     *)
(* another file.                                                           *)
Joints == <<Cal(4, Us), Cal(2, Join(<<1, 3>>)), Cal(1, Join(<<3, 4>>))>>
Imported(c, check) ==
  c @@ [provenance |-> [imported_from |-> "calendar", imported_on |-> "2021-01-04", cross_check |-> check]]
Leaf == <<Cal(3, Imported(Eu, "agree"))>>
Unchecked == <<Cal(3, Imported(Eu, "perhaps"))>>
OtherLeaf == <<Cal(3, Gulf)>>
Cyclic == <<Cal(5, Join(<<4, 6>>)), Cal(6, Join(<<5, 4>>))>>
Selfish == <<Cal(5, Join(<<5, 4>>))>>
NoCommonYear == <<Cal(7, Late), Cal(5, Join(<<4, 7>>))>>
Dollars ==
  <<Currency(2), IndexOf("sofr", "overnight", 4),
    ConvOf("ois", "ois", 2, <<PartOf("fixed"),
                              LegOf("sofr", "compounded") @@ [observation |-> [method |-> "lookback", lookback_days |-> 2]]>>),
    Entry("cb_schedules", "usd", [meetings |-> <<1, 2>>])>>
Libor ==
  <<IndexOf("libor", "term", 1), On("libor", "future", "future"), On("", "deposit", "loan"),
    ConvOf("basis", "basis", 1, <<[LegOf("libor", "none") EXCEPT !.spread = TRUE, !.calendar = 4], LegOf("sofr", "averaged")>>)>>
Uncompounded == <<ConvOf("irs", "irs", 2, <<PartOf("fixed"), LegOf("sofr", "")>>)>>
HalfWrong ==
  <<Cal(8, Us), ConvOf("fix", "irs", 2, <<PartOf("fixed") @@ [index |-> "sofr"], LegOf("libor", "none")>>)>>
Misruled == <<Cal(9, Ruled({5, 6}, <<Fixed(1, 1, ""), [LastMonday(5) EXCEPT !.n = -2]>>, "none", 2021))>>
SomeDocuments ==
  {Misruled, Joints, Leaf, OtherLeaf, Unchecked, Cyclic, Selfish, NoCommonYear, Dollars, Libor, Uncompounded, HalfWrong}

Blueprint(name, convention, legs) ==
  Entry("blueprints", name, IF legs = <<>> THEN [convention |-> convention] ELSE [convention |-> convention, legs |-> legs])
Pays(kind) == [coupon |-> kind]
Observing(kind) == [coupon |-> kind, observation |-> [method |-> "lookback", lookback_days |-> 5]]
ByTenors(tenors) == [blueprint |-> "swap", tenors |-> tenors]
CurveOf(of, list) == Entry("curves", "curve", [index |-> of, instruments |-> list])
Sofr(regions) == Entry("curves", "curve", [index |-> "sofr", regions |-> regions, instruments |-> <<ByTenors(<<"1M">>)>>])
Contracts(n) == [blueprint |-> "strip", contracts |-> n]
Swap == Blueprint("swap", "ois", <<Pays("fixed"), Observing("rfr_averaged")>>)
Region0 == [scheme |-> "linear", variable |-> "zero"]
SomePrints ==
  {<<Swap, CurveOf("sofr", <<ByTenors(<<"1M", "2M">>), [blueprint |-> "swap", tenor |-> "1Y", key |-> "year"]>>)>>,
   <<Swap, Sofr(<<Region0, [from |-> "1M", scheme |-> "flat", variable |-> "forward"]>>)>>,
   <<Blueprint("swap", "basis", <<>>), Blueprint("strip", "future", <<>>), CurveOf("libor", <<Contracts(2), ByTenors(<<"1M">>)>>)>>,
   <<Blueprint("swap", "basis", <<Observing("rfr_averaged"), Observing("rfr_averaged")>>)>>,
   <<Blueprint("swap", "ois", <<Pays("fixed"), Pays("term_rate")>>)>>,
   <<CurveOf("sofr", <<ByTenors(<<"1M">>)>>)>>}
    \cup {<<Swap, d>> : d \in
           {Sofr(<<>>), Sofr(<<[from |-> "1M", scheme |-> "flat", variable |-> "zero"]>>), Sofr(<<Region0, Region0>>),
            CurveOf("sofr", <<>>), CurveOf("sofr", <<ByTenors(<<>>)>>), CurveOf("sofr", <<Contracts(0)>>),
            CurveOf("sofr", <<[blueprint |-> "swap", tenor |-> "1M", contracts |-> 1]>>),
            Blueprint("second", "ois", <<Observing("fixed"), Pays("rfr_averaged")>>),
            Blueprint("swap", "basis", <<>>)}}
-----------------------------------------------------------------------------
Sifma == Ruled({5, 6}, <<Easter(-2), LastMonday(5), Fixed(6, 19, "")>>, "sat_to_fri_sun_to_mon", 2024)
Target == Ruled({5, 6}, <<Easter(-2), Easter(1), Fixed(5, 1, "")>>, "none", 2024)
AndBoth(cals) == [US |-> cals["US"], EU |-> cals["EU"], Both |-> JointCalendar({cals["US"], cals["EU"]})]
SomeCalendars == AndBoth([name \in {"US", "EU"} |-> RuleCalendar(IF name = "US" THEN Sifma ELSE Target)])
SomeIndices == [sofr |-> [kind |-> "overnight", calendar |-> "US", fixing_lag |-> 0, slot |-> 1],
                estr |-> [kind |-> "overnight", calendar |-> "EU", fixing_lag |-> 0, slot |-> 2],
                euribor |-> [kind |-> "term", calendar |-> "EU", fixing_lag |-> 2, slot |-> 3]]
Day(m, d) == DaysFromCivil(2024, m, d)
FirstMonday == Day(3, 25)

Observed(method, lookback, lockout) == [method |-> method, lookback |-> lookback, lockout |-> lockout]
Leg(kind, of, n, unit, observation) ==
  [kind |-> kind, index |-> of, frequency |-> <<n, unit>>, term |-> FALSE, term_up_to |-> <<0, "D">>,
   day_count |-> "ACT/360", observation |-> observation, payment_lag |-> -1, calendar |-> ""]
FixedLeg(n, unit) == [Leg("fixed", "sofr", n, unit, PlainObservation) EXCEPT !.day_count = "30/360"]
Conv(type, calendar, spot, pay, bdc, stub, eom, legs) ==
  [type |-> type, calendar |-> calendar, spot_lag |-> spot, payment_lag |-> pay, bdc |-> bdc, eom |-> eom,
   stub |-> stub, legs |-> legs, period |-> ""]
Ticket(conv, trade_date, tenor, until) ==
  [conv |-> conv, trade_date |-> trade_date, effective |-> 0, tenor |-> tenor, termination |-> 0, contract |-> 0,
   missing |-> {}, until |-> until]

Mf == "ModifiedFollowing"
OisLegs(of, observation) ==
  <<[FixedLeg(2, "M") EXCEPT !.term_up_to = <<1, "M">>], Leg("rfr_compounded", of, 1, "M", observation)>>
Ois(cal, of, observation, day, n) ==
  Ticket(Conv("ois", cal, 2, 2, Mf, "ShortFront", TRUE, OisLegs(of, observation)), day, <<n, "M">>, Day(6, 7))
Swaps ==
  {Ois(cal, of, observation, FirstMonday, 2) :
     cal \in {"US", "Both"}, of \in {"sofr", "estr"},
     observation \in {PlainObservation, Observed("lookback", 2, 1), Observed("observation_shift", 2, 2), Observed("plain", 0, 3)}}
(* A period of one week with a lockout of all its days, and a swap of      *)
(* calendars that end before it does.                                      *)
Weekly ==
  {Ticket(Conv("basis", "US", 0, 0, "Unadjusted", "ShortBack", FALSE,
               <<Leg("rfr_averaged", "estr", 1, "W", observation), Leg("term_rate", "euribor", 2, "W", PlainObservation)>>),
          Day(3, 29), <<3, "W">>, Day(4, 25)) :
     observation \in {PlainObservation, Observed("observation_shift", 1, 0), Observed("plain", 0, 4)}}
TooLate == {Ois("US", "sofr", PlainObservation, Day(12, 24), 1), [Ois("US", "sofr", PlainObservation, FirstMonday, 1) EXCEPT !.termination = Day(3, 26)]}
Irs ==
  {[Ticket(Conv("irs", "Both", 2, 0, bdc, "ShortFront", TRUE,
                <<FixedLeg(1, "M"), Leg("term_rate", "euribor", 1, "M", PlainObservation)>>),
           FirstMonday, <<2, "M">>, Day(6, 4)) EXCEPT !.missing = missing] :
     bdc \in {"Following", "Preceding"}, missing \in {{}, {Day(4, 23)}}}
Hole ==
  [Ois("US", "sofr", Observed("lookback", 1, 0), FirstMonday, 1) EXCEPT !.missing = {Day(4, 10)}, !.until = Day(5, 3)]
Stubs ==
  {[Ticket(Conv("irs", "US", 0, 0, Mf, stub, eom,
                <<FixedLeg(n, "M"), Leg("term_rate", "euribor", 10, "D", PlainObservation)>>),
           0, <<1, "M">>, FirstMonday) EXCEPT !.effective = from, !.termination = to] :
     stub \in {"ShortFront", "LongFront", "ShortBack", "LongBack"}, eom \in BOOLEAN, n \in {1, 2},
     from \in {Day(3, 26), Day(3, 29), Day(4, 30)}, to \in {Day(5, 31), Day(7, 31), Day(8, 30), Day(5, 8)}}
Deposits ==
  {Ticket(Conv("deposit", "EU", 2, 0, Mf, "ShortFront", FALSE, <<Leg("term_rate", "euribor", 1, "M", PlainObservation)>>),
          day, <<1, "M">>, Day(5, 3)) : day \in {0, FirstMonday}}
Future(kind, of, period, day, n) ==
  [Ticket([Conv("future", "EU", 2, 0, Mf, "ShortFront", FALSE, <<Leg(kind, of, 1, "M", PlainObservation)>>) EXCEPT
             !.period = period], day, <<1, "M">>, Day(6, 28)) EXCEPT !.contract = n]
Futures == {Future("rfr_compounded", "sofr", "imm_quarter", Day(1, 15), 0),
            Future("rfr_averaged", "sofr", "calendar_month", FirstMonday, 0),
            Future("term_rate", "euribor", "imm_quarter_deposit", FirstMonday, 0)}
(* Curves of a deposit, swaps of tenors whose adjusted maturities come near *)
(* each other, and contracts; regions that begin at one of them or not.     *)
ToTenor(conv) == [Ticket(conv, 0, <<0, "D">>, 0) EXCEPT !.until = Day(5, 3)]
SwapEntry(tenors) == [trade |-> ToTenor(Conv("ois", "US", 2, 2, Mf, "ShortFront", TRUE, OisLegs("sofr", PlainObservation))), tenors |-> tenors, contracts |-> 0]
DepositEntry(tenors) ==
  [trade |-> ToTenor(Conv("deposit", "EU", 2, 0, Mf, "ShortFront", FALSE, <<Leg("term_rate", "euribor", 1, "M", PlainObservation)>>)),
   tenors |-> tenors, contracts |-> 0]
FutureEntry(period, n) == [trade |-> [Future(IF period = "imm_quarter_deposit" THEN "term_rate" ELSE "rfr_compounded",
                                             IF period = "imm_quarter_deposit" THEN "euribor" ELSE "sofr", period, 0, 0) EXCEPT !.until = Day(5, 3)],
                           tenors |-> <<>>, contracts |-> n]
CurveDefinition(entries, knots, from) ==
  [conv |-> [type |-> "curve"], trade_date |-> 0, missing |-> {}, until |-> Day(5, 3), entries |-> entries, knots |-> knots, from |-> from]
SomeCurveDefinitions ==
  {CurveDefinition(entries, <<>>, from) :
     entries \in {<<SwapEntry(<<<<3, "M">>, <<1, "M">>>>), DepositEntry(<<<<1, "W">>>>)>>,
                  <<DepositEntry(<<<<2, "M">>, <<1, "M">>>>), SwapEntry(<<<<5, "W">>>>)>>,
                  <<DepositEntry(<<<<1, "W">>>>), FutureEntry("imm_quarter", 2), SwapEntry(<<<<9, "M">>>>)>>,
                  <<FutureEntry("calendar_month", 2), SwapEntry(<<<<1, "M">>>>)>>,
                  <<FutureEntry("imm_quarter_deposit", 2)>>},
     from \in {<<>>, <<<<1, "M">>>>, <<<<5, "W">>, <<2, "M">>>>, <<<<1, "M">>, <<9, "M">>>>}}
  \cup {CurveDefinition(<<DepositEntry(<<<<1, "W">>, <<7, "D">>>>)>>, <<>>, <<>>)}
  \cup {CurveDefinition(<<SwapEntry(<<<<1, "M">>, <<2, "M">>>>)>>, knots, <<<<6, "W">>>>) :
          knots \in {<<<<1, "M">>, <<2, "M">>>>, <<<<30, "D">>, <<1, "M">>>>}}
SomeTrades == SomeCurveDefinitions \cup Swaps \cup Weekly \cup TooLate \cup Irs \cup {Hole} \cup Stubs \cup Deposits \cup Futures
-----------------------------------------------------------------------------
(* Curves of one region in every scheme and variable; of two and three, a  *)
(* knot on the boundary or none there; and what a constructor refuses.     *)
Region(ta, tb, scheme, variable) == [ta |-> ta, tb |-> tb, scheme |-> scheme, variable |-> variable]
Curve(knots, regions) == [knots |-> knots, regions |-> regions]
Schemes == {"flat", "linear", "hermite", "natural_cubic", "monotone_cubic", "bspline"}
Variables == {"zero", "logdf", "forward"}
OneRegion == {Curve(k, <<Region(0, 0, s, v)>>) : k \in {<<0, 2, 3, 5>>, <<1>>, <<1, 4, 6>>}, s \in Schemes, v \in Variables}
Pairs == {<<s, "linear">> : s \in Schemes} \cup {<<"monotone_cubic", s>> : s \in Schemes} \cup {<<s, s>> : s \in Schemes}
TwoRegions ==
  {Curve(<<1, 3, 4>>, <<Region(0, b, p[1], v), Region(b, 0, p[2], w)>>) :
     b \in {2, 3}, p \in Pairs, v \in Variables \ {"forward"}, w \in Variables}
ThreeRegions ==
  {Curve(<<1, 3, 4, 7>>, <<Region(0, 3, s, v), Region(3, b, "natural_cubic", w), Region(b, 0, s, v)>>) :
     b \in {4, 5}, s \in {"hermite", "linear"}, v \in {"zero", "logdf"}, w \in {"zero", "logdf"}}
Plain(ta, tb) == Region(ta, tb, "linear", "zero")
Refused ==
  {Curve(<<>>, <<Plain(0, 0)>>), Curve(<<1>>, <<>>), Curve(<<-1, 2>>, <<Plain(0, 0)>>), Curve(<<2, 2>>, <<Plain(0, 0)>>),
   Curve(<<1, 3>>, <<Plain(1, 0)>>), Curve(<<1, 3>>, <<Plain(0, 2), Plain(3, 0)>>), Curve(<<3, 4>>, <<Plain(0, 2), Plain(2, 0)>>),
   Curve(<<1, 3>>, <<Plain(0, 0), Plain(0, 0)>>), Curve(<<1, 2>>, <<Plain(0, 3), Plain(3, 0)>>)}
SomeDefinitions == OneRegion \cup TwoRegions \cup ThreeRegions \cup Refused
-----------------------------------------------------------------------------
(* Texts of up to eight tokens, two keys one of which is spelled in two    *)
(* ways; every number and string of a few units; and numbers that are next *)
(* to too large, of a double and of 64 bits.                               *)
Token(kind, units) == [kind |-> kind, units |-> units]
String(units) == Token("string", units)
SomeTokens ==
  {Token("mark", <<m>>) : m \in {"[", "]", "{", "}", ":", ",", "?"}}
    \cup {String(<<"astral">>), String(<<"high", "low">>), Token("number", <<"9">>)}
SomeScalars ==
  {Token("number", u) : u \in UNION {[1 .. n -> {"0", "9", "-", "+", ".", "e"}] : n \in 1 .. 5}}
    \cup {Token("number", u \o [d \in 1 .. n |-> "9"]) :
            u \in {<<"9", "e", "-">>, <<"9", "e", "+", "0">>, <<"0", ".", "0", "e">>, <<"0", ".", "9", "e">>}, n \in {2, 3}}
    \cup {Token("number", u \o [d \in 1 .. n |-> "9"]) :
            u \in {<<>>, <<"-">>, <<"9", "0">>, <<"-", "9", "0">>, <<"0", ".">>}, n \in {17, 18, 19}}
    \cup {String(u) : u \in UNION {[1 .. n -> {"a", "n", "quote", "u000a", "u0001", "high", "low", "raw"}] : n \in 0 .. 3}}
    \cup {Token("literal", <<w>>) : w \in {"true", "nul"}}
=============================================================================
