----------------------------- MODULE TradeLife -----------------------------
(***************************************************************************)
(* A trade built into row tables again and again as time passes and rates  *)
(* are fixed (src/maths/instrument/builder.cpp): what is paid is dropped,  *)
(* what is fixed is folded into the coupon, the rest is projected off the  *)
(* curves.  Dates stand for curve times, a sequence of days for the factor *)
(* and the sum they are folded into.                                       *)
(*                                                                         *)
(* A trade is [conv, trade_date, effective, tenor, termination, contract,  *)
(* missing, until]: its blueprint's defaults are filled in, the rates of   *)
(* `missing` are never published, and it is valued up to day `until`.  A   *)
(* convention is [type, calendar, spot_lag, payment_lag, bdc, eom, stub,   *)
(* legs] and a leg [kind, index, frequency, term, term_up_to, day_count,   *)
(* observation, payment_lag, calendar]; a future or a deposit has one leg. *)
(***************************************************************************)
EXTENDS Calendars

CONSTANTS Trades,
          Calendar,   \* calendars by name
          Index,      \* [kind, calendar, fixing_lag, slot] by name
          Discount,   \* the slot of the curve that discounts
          FirstDay,   \* the first valuation
          Steps       \* bound: how many days may pass between two valuations

\* Assumed by Market, which composes this module.
TradeLifeAssumption == FirstDay \in Nat /\ Steps \subseteq Nat \ {0}

VARIABLES trade,
          valuation,  \* BuildContext::valuation
          published,  \* the rates of the days before this one are in the history
          book        \* what build_instrument returned, or threw

vars == <<trade, valuation, published, book>>

HasFixing(index, missing, upto, d) ==
  d < upto /\ d \notin missing /\ IsBusinessDay(Calendar[Index[index].calendar], d)
-----------------------------------------------------------------------------
(* A context is [valuation, published, missing].                           *)
NoDays == <<>>
Coupon(kind, start, end, pay, days) ==
  [kind |-> kind, start |-> start, end |-> end, pay |-> pay, accrual |-> days, index |-> "", error |-> "",
   observed |-> [from |-> start, to |-> end], realised |-> NoDays, projected |-> NoDays,
   fixing |-> 0, fixed |-> FALSE]

(* An overnight coupon: the projected days have the span of their rate.    *)
Span(cal, day) ==
  [rate_date |-> day.rate_date, weight |-> day.weight, next |-> NextBusinessDay(cal, day.rate_date + 1)]
RfrRow(row, ctx, cal, period, days, realised, open) ==
  IF days = Throws THEN [row EXCEPT !.error = "days"]
  ELSE IF HasGap(days, realised, open) THEN [row EXCEPT !.error = "gap"]
  ELSE IF \E n \in DOMAIN open : open[n].rate_date < ctx.valuation THEN [row EXCEPT !.error = "unfixed"]
  ELSE [row EXCEPT !.observed = period, !.realised = realised,
                   !.projected = [n \in DOMAIN open |-> Span(cal, open[n])]]
RfrOver(row, ctx, cal, period, days) ==
  LET fixed == {d \in {days[n].rate_date : n \in DOMAIN days} : HasFixing(row.index, ctx.missing, ctx.published, d)}
  IN  RfrRow(row, ctx, cal, period, days, Realised(days, fixed), Unfixed(days, fixed))
RfrSeen(row, ctx, cal, period, observation) ==
  RfrOver(row, ctx, cal, period, ObservationDays(period, observation, cal))
RfrCoupon(ctx, leg, start, end, pay, observation) ==
  LET cal == Calendar[Index[leg.index].calendar]
      row == [Coupon(leg.kind, start, end, pay, DayCountDays(leg.day_count, start, end)) EXCEPT !.index = leg.index]
  IN  IF end <= start THEN [row EXCEPT !.error = "days"]
      ELSE RfrSeen(row, ctx, cal, ObservationPeriod(start, end, observation, cal), observation)

(* A term rate is realised when it is known, and must be when it is past.  *)
TermCoupon(ctx, leg, start, end, pay, fixing) ==
  LET fixed == HasFixing(leg.index, ctx.missing, ctx.published, fixing)
  IN  [Coupon(leg.kind, start, end, pay, DayCountDays(leg.day_count, start, end)) EXCEPT
         !.index = leg.index, !.fixing = fixing, !.fixed = fixed,
         !.error = IF fixing = Beyond THEN "days"
                   ELSE IF ~fixed /\ fixing < ctx.valuation THEN "unfixed" ELSE ""]

FixingDate(leg, start) ==
  AddBusinessDays(Calendar[Index[leg.index].calendar], start, -Index[leg.index].fixing_lag)

BuildCoupon(ctx, leg, start, end, pay) ==
  CASE leg.kind = "fixed" -> Coupon("fixed", start, end, pay, DayCountDays(leg.day_count, start, end))
    [] leg.kind \in {"rfr_compounded", "rfr_averaged"} -> RfrCoupon(ctx, leg, start, end, pay, leg.observation)
    [] leg.kind = "term_rate" -> TermCoupon(ctx, leg, start, end, pay, FixingDate(leg, start))
-----------------------------------------------------------------------------
Refused(why) == [outcome |-> why, effective |-> 0, termination |-> 0, schedules |-> <<>>, legs |-> <<>>, matures |-> 0]

TradeDate(ctx, t) == IF t.trade_date # 0 THEN t.trade_date ELSE ctx.valuation
Effective(ctx, t) ==
  IF t.effective # 0 THEN t.effective ELSE SpotDate(TradeDate(ctx, t), t.conv.spot_lag, Calendar[t.conv.calendar])
Termination(t, from) == IF t.termination # 0 THEN t.termination ELSE AddPeriod(from, t.tenor, t.conv.eom)

LegCalendar(t, leg) == Calendar[IF leg.calendar = "" THEN t.conv.calendar ELSE leg.calendar]
LegLag(t, leg) == IF leg.payment_lag >= 0 THEN leg.payment_lag ELSE t.conv.payment_lag
LegSchedule(t, leg, from, to) ==
  [effective |-> from, termination |-> to, frequency |-> leg.frequency,
   term |-> leg.term \/ (leg.term_up_to[1] > 0 /\ to <= AddPeriod(from, leg.term_up_to, t.conv.eom)),
   bdc |-> t.conv.bdc, calendar |-> LegCalendar(t, leg), stub |-> t.conv.stub,
   eom |-> FALSE, eom_auto |-> t.conv.eom]

Unpaid_DueToday(ctx, pay) == pay >= ctx.valuation
Unpaid(ctx, pay) == pay > ctx.valuation   \* a cash flow of the valuation date is paid

LegOf(ctx, leg, schedule, pays, left) ==
  [curve |-> leg.index, schedule |-> schedule, payments |-> pays,
   coupons |-> [n \in DOMAIN left |-> BuildCoupon(ctx, leg, schedule.adjusted[left[n]],
                                                  schedule.adjusted[left[n] + 1], pays[left[n]])]]
LegPaid(ctx, leg, schedule, pays) ==
  LegOf(ctx, leg, schedule, pays, SelectSeq([n \in DOMAIN pays |-> n], LAMBDA n : Unpaid(ctx, pays[n])))
LegOver(ctx, t, leg, schedule) ==
  LegPaid(ctx, leg, schedule, PaymentDates(schedule, LegLag(t, leg), LegCalendar(t, leg)))
BuildLeg(ctx, t, leg, from, to) == LegOver(ctx, t, leg, GenerateSchedule(LegSchedule(t, leg, from, to)))

Rows(legs) == UNION {Range(legs[l].coupons) : l \in DOMAIN legs}
Built(from, to, legs, rows) ==
  IF \E c \in rows : c.error # "" THEN Refused(CHOOSE e \in {c.error : c \in rows} : e # "")
  ELSE [outcome |-> "built", effective |-> from, termination |-> to,
        schedules |-> [l \in DOMAIN legs |-> legs[l].schedule],
        legs |-> [l \in DOMAIN legs |-> [curve |-> legs[l].curve, coupons |-> legs[l].coupons]],
        matures |-> Max({c.pay : c \in rows})]

SwapOf(from, to, legs, rows) ==
  IF to <= from \/ from = Beyond THEN Refused("dates")
  ELSE IF \E l \in DOMAIN legs : legs[l].schedule = NoSchedule THEN Refused("schedule")
  ELSE IF \E l \in DOMAIN legs : Beyond \in Range(legs[l].payments) THEN Refused("days")
  ELSE IF rows = {} THEN Refused("matured")
  ELSE Built(from, to, legs, rows)
SwapLegs(from, to, legs) == SwapOf(from, to, legs, Rows(legs))
BuildSwap(ctx, t, from, to) ==
  SwapLegs(from, to, [l \in DOMAIN t.conv.legs |-> BuildLeg(ctx, t, t.conv.legs[l], from, to)])

(* One period, a fixed coupon against the index over the same days.        *)
Row(coupon) ==
  [curve |-> coupon.index, schedule |-> NoSchedule, payments |-> <<coupon.pay>>, coupons |-> <<coupon>>]
DepositOf(ctx, t, leg, from, to, pay) ==
  LET fixed == Coupon("fixed", from, to, pay, DayCountDays(leg.day_count, from, to))
      float == TermCoupon(ctx, leg, from, to, pay, FixingDate(leg, from))
  IN  IF to <= from \/ Beyond \in {from, to, pay} THEN Refused("dates")
      ELSE IF ~Unpaid(ctx, pay) THEN Refused("matured")
      ELSE Built(from, to, <<Row(fixed), Row(float)>>, {fixed, float})
DepositTo(ctx, t, from, to) ==
  DepositOf(ctx, t, t.conv.legs[1], from, to, AddBusinessDays(Calendar[t.conv.calendar], to, t.conv.payment_lag))
BuildDeposit(ctx, t, from, to) ==
  DepositTo(ctx, t, from, IF t.termination # 0 THEN to ELSE Adjust(Calendar[t.conv.calendar], to, t.conv.bdc))

(* The contracts after a date, of imm.cpp: [start, end, fixing].           *)
ImmAfter(d, n) == LET after[k \in Nat] == IF k = 0 THEN d ELSE NextImm(after[k - 1]) IN after[n]
MonthAfter(d, n) == LET x == CivilFromDays(d) IN AddMonths(DaysFromCivil(x.y, x.m, 1), n, FALSE)

(* Deposit contracts whose last trading day has passed are not offered.    *)
Contract(t, from) ==
  LET cal == Calendar[t.conv.calendar]
      offered[probe \in Int, n \in Nat] ==
        LET imm == NextImm(probe)
            fixing == AddBusinessDays(cal, imm, -2)
            start == AddBusinessDays(cal, fixing, t.conv.spot_lag)
        IN  IF fixing <= from THEN offered[imm, n]
            ELSE IF n > 0 THEN offered[imm, n - 1]
            ELSE [start |-> start, end |-> Adjust(cal, AddMonths(start, 3, FALSE), "ModifiedFollowing"),
                  fixing |-> fixing]
  IN  offered[from, t.contract]

FuturesPeriod(t, from) ==
  CASE t.conv.period = "imm_quarter" ->
         [start |-> ImmAfter(from, t.contract + 1), end |-> ImmAfter(from, t.contract + 2), fixing |-> 0]
    [] t.conv.period = "calendar_month" ->
         [start |-> MonthAfter(from, t.contract + 1), end |-> MonthAfter(from, t.contract + 2), fixing |-> 0]
    [] t.conv.period = "imm_quarter_deposit" -> Contract(t, from)

(* A future is built whether or not its period is over.                    *)
FutureOver(coupon, p) ==
  IF Beyond \in {p.start, p.end} THEN Refused("days") ELSE Built(p.start, p.end, <<Row(coupon)>>, {coupon})
FutureOf(ctx, leg, p) ==
  FutureOver(IF leg.kind = "term_rate" THEN TermCoupon(ctx, leg, p.start, p.end, p.end, p.fixing)
             ELSE RfrCoupon(ctx, leg, p.start, p.end, p.end, PlainObservation), p)
BuildFuture(ctx, t) == FutureOf(ctx, t.conv.legs[1], FuturesPeriod(t, TradeDate(ctx, t)))

IsSwap(t) == t.conv.type \in {"ois", "irs", "basis"}
BuildDated(ctx, t, from, to) == IF IsSwap(t) THEN BuildSwap(ctx, t, from, to) ELSE BuildDeposit(ctx, t, from, to)
BuildFrom(ctx, t, from) == BuildDated(ctx, t, from, Termination(t, from))
BuildInstrument(ctx, t) ==
  IF t.conv.type = "future" THEN BuildFuture(ctx, t) ELSE BuildFrom(ctx, t, Effective(ctx, t))
-----------------------------------------------------------------------------
(* The instruments a curve is calibrated to, built as of the valuation: a  *)
(* definition is [conv |-> [type |-> "curve"], entries, knots, from, ...], *)
(* an entry the trade it repeats with its tenors or how many contracts.    *)
TradesOfEntry(e) ==
  IF e.contracts > 0 THEN [k \in 1 .. e.contracts |-> [e.trade EXCEPT !.contract = k - 1]]
  ELSE [n \in DOMAIN e.tenors |-> [e.trade EXCEPT !.tenor = e.tenors[n]]]
CalibrationTrades(def) == FlattenSeq([n \in DOMAIN def.entries |-> TradesOfEntry(def.entries[n])])

CalibrationInstrument(ctx, t) ==
  LET built == BuildInstrument(ctx, t)
  IN  [tenor |-> IF t.conv.type = "future" THEN <<t.contract, "contract">> ELSE t.tenor,
       outcome |-> built.outcome, matures |-> built.matures]
(* In maturity order, those of one day as they were.                       *)
ByMaturity_AsListed(list) == list
ByMaturity(list) ==
  LET before(n) == {m \in DOMAIN list : \/ list[m].matures < list[n].matures
                                        \/ list[m].matures = list[n].matures /\ m < n}
  IN  [place \in DOMAIN list |-> list[CHOOSE n \in DOMAIN list : Cardinality(before(n)) = place - 1]]
Increases(days) == \A n \in 2 .. Len(days) : days[n - 1] < days[n]

(* A region begins where the instrument quoted at its tenor matures, or    *)
(* that tenor after the valuation.                                         *)
Boundary_Tenor(ctx, list, from) == AddPeriod(ctx.valuation, from, FALSE)
Boundary(ctx, list, from) ==
  LET quoted == {n \in DOMAIN list : list[n].tenor = from}
  IN  IF quoted = {} THEN AddPeriod(ctx.valuation, from, FALSE) ELSE list[Min(quoted)].matures

SetOf(ctx, def, list, knots) ==
  IF \E n \in DOMAIN list : list[n].outcome # "built" THEN Refused("instrument")
  ELSE IF ~Increases([n \in DOMAIN list |-> list[n].matures]) THEN Refused("maturities")
  ELSE IF ~Increases(knots) THEN Refused("knots")
  ELSE Refused("set") @@ [instruments |-> list, knots |-> knots,
                          regions |-> [r \in DOMAIN def.from |-> Boundary(ctx, list, def.from[r])]]
SetKnots(ctx, def, list) ==
  IF def.knots = <<>> THEN [n \in DOMAIN list |-> list[n].matures]
  ELSE [n \in DOMAIN def.knots |-> AddPeriod(ctx.valuation, def.knots[n], FALSE)]
SetOver(ctx, def, list) == SetOf(ctx, def, list, SetKnots(ctx, def, list))
CalibrationSet(ctx, def) ==
  LET trades == CalibrationTrades(def)
  IN  SetOver(ctx, def, ByMaturity([n \in DOMAIN trades |-> CalibrationInstrument(ctx, trades[n])]))

Build(ctx, t) == IF t.conv.type = "curve" THEN CalibrationSet(ctx, t) ELSE BuildInstrument(ctx, t)
-----------------------------------------------------------------------------
(* What pricing asks the curves for: <<slot, date>> (coupon.hpp).          *)
ReadsOfCoupon(c) ==
  LET slot == Index[c.index].slot
  IN  CASE c.kind = "fixed" -> {}
        [] c.kind = "term_rate" -> IF c.fixed THEN {} ELSE {<<slot, c.start>>, <<slot, c.end>>}
        [] OTHER -> UNION {{<<slot, d.rate_date>>, <<slot, d.next>>} : d \in Range(c.projected)}
Reads(t, built) ==
  UNION {ReadsOfCoupon(c) \cup (IF t.conv.type = "future" THEN {} ELSE {<<Discount, c.pay>>}) :
           c \in Rows(built.legs)}
-----------------------------------------------------------------------------
Context(day, upto, missing) == [valuation |-> day, published |-> upto, missing |-> missing]
Now == Context(valuation, published, trade.missing)

Init == /\ trade \in Trades
        /\ valuation = FirstDay
        /\ published \in {FirstDay, FirstDay + 1}
        /\ book = Build(Now, trade)

(* Some days later the trade is built again: the rates of the days before  *)
(* are published, that of the day may be, that of the day before may not.  *)
Value(days, upto) ==
  /\ valuation + days <= trade.until
  /\ upto >= published
  /\ valuation' = valuation + days
  /\ published' = upto
  /\ book' = Build(Context(valuation', published', trade.missing), trade)
  /\ UNCHANGED trade

Next == \E days \in Steps : \E upto \in (valuation + days - 1) .. (valuation + days + 1) : Value(days, upto)
-----------------------------------------------------------------------------
Overnight(c) == c.kind \in {"rfr_compounded", "rfr_averaged"}

(* The calendar days of a coupon's observation period with the days whose  *)
(* rates they have, by the definition of rfr.hpp: the last fixing day,     *)
(* looked back, and frozen before the last m days of the period.           *)
Observation(c) ==
  IF trade.conv.type = "future" THEN PlainObservation
  ELSE (CHOOSE l \in Range(trade.conv.legs) : l.kind = c.kind /\ l.index = c.index).observation
RatesOfDays(c) ==
  LET cal == Calendar[Index[c.index].calendar]
      spec == Observation(c)
      fixings == {d \in (c.observed.from - 30) .. (c.observed.to - 1) : IsBusinessDay(cal, d)}
      days == {c.observed.from} \cup {d \in fixings : d >= c.observed.from}
      last == IF spec.lockout = 0 THEN c.observed.to
              ELSE Max({d \in days : Cardinality({e \in days : e > d}) >= spec.lockout})
      At(t) == Max({d \in fixings : d <= Min({Max({e \in days : e <= t}), last})})
      Before(d) == CHOOSE f \in fixings : Cardinality({e \in fixings : f < e /\ e <= d}) = spec.lookback
  IN  {<<t, IF spec.method = "lookback" THEN Before(At(t)) ELSE At(t)>> :
         t \in c.observed.from .. (c.observed.to - 1)}

RatesAsDue(c, rates, due) ==
  LET WeightOf(x) == FoldLeft(LAMBDA sum, r : sum + (IF r.rate_date = x THEN r.weight ELSE 0), 0, rates)
      Fixed(x) == HasFixing(c.index, trade.missing, published, x)
  IN  /\ \A x \in {day[2] : day \in due} \cup {r.rate_date : r \in Range(rates)} :
           WeightOf(x) = Cardinality({day \in due : day[2] = x})
      /\ \A r \in Range(c.realised) : Fixed(r.rate_date)
      /\ \A r \in Range(c.projected) :
           /\ ~Fixed(r.rate_date) /\ r.rate_date < r.next
           /\ ~\E d \in (r.rate_date + 1) .. (r.next - 1) : IsBusinessDay(Calendar[Index[c.index].calendar], d)
(* Every calendar day of the observation period of a coupon has the rate   *)
(* its convention says, once, either folded in, when it is published, or   *)
(* projected over the span of that rate.                                   *)
EveryDayHasItsRate ==
  \A c \in Rows(book.legs) : Overnight(c) => RatesAsDue(c, c.realised \o c.projected, RatesOfDays(c))

(* Pricing never asks a curve for a day before the valuation, and what is  *)
(* still priced is still to be paid; but a future's period may be over.    *)
ReadsAhead == /\ \A read \in Reads(trade, book) : read[2] >= valuation
              /\ trade.conv.type # "future" => \A c \in Rows(book.legs) : c.pay > valuation

(* The schedule of every leg runs from the effective to the termination    *)
(* date, rolls on the day it reports, and every period but the stub it     *)
(* reports is the frequency; a short stub is shorter than a period, a long *)
(* one not, unless there is nothing else.  Payments follow each other.     *)
Months(d) == LET x == CivilFromDays(d) IN 12 * x.y + x.m
OnRoll(s, d) ==
  LET x == CivilFromDays(d)
      last == DaysInMonth(x.y, x.m)
  IN  IF s.roll_eom THEN x.d = last ELSE x.d = Min({s.roll_dom, last})
Tiles(s, leg) ==
  LET u == s.unadjusted
      n == Len(u) - 1
      stubs == {m \in 1..n : (s.front_stub /\ m = 1) \/ (s.back_stub /\ m = n)}
      Regular(m) == IF IsDays(leg.frequency) THEN u[m + 1] - u[m] = PeriodDays(leg.frequency)
                    ELSE Months(u[m + 1]) - Months(u[m]) = PeriodMonths(leg.frequency)
      Shorter(m) == IF s.front_stub
                    THEN u[m] > AddPeriod(u[m + 1], <<-leg.frequency[1], leg.frequency[2]>>, s.roll_eom)
                    ELSE u[m + 1] < AddPeriod(u[m], leg.frequency, s.roll_eom)
      Long == trade.conv.stub \in {"LongFront", "LongBack"}
  IN  /\ \A m \in 1..n : m \notin stubs => Regular(m)
      /\ ~IsDays(leg.frequency) => \A m \in 2..n : OnRoll(s, u[m])
      /\ \A m \in stubs : IF Long THEN Shorter(m) => n = 1 ELSE Shorter(m)
SchedulesTile ==
  book.outcome = "built" => \A l \in DOMAIN book.schedules :
    LET s == book.schedules[l]
        leg == trade.conv.legs[l]
    IN  s # NoSchedule =>
          /\ s.unadjusted[1] = book.effective /\ Last(s.unadjusted) = book.termination
          /\ \A m \in DOMAIN s.adjusted : s.adjusted[m] = Adjust(LegCalendar(trade, leg), s.unadjusted[m], trade.conv.bdc)
          /\ ~LegSchedule(trade, leg, book.effective, book.termination).term => Tiles(s, leg)

CalibratesTo(trades, each) ==
  LET ends == [n \in DOMAIN each |-> each[n].matures]
      whole == \A n \in DOMAIN each : each[n].outcome = "built"
      twins == \E m, n \in DOMAIN ends : m # n /\ ends[m] = ends[n]
      After(tenor) == AddPeriod(valuation, tenor, FALSE)
  IN  /\ book.outcome \in {"set", "instrument", "maturities", "knots"}
      /\ book.outcome = "instrument" <=> ~whole
      /\ book.outcome = "maturities" <=> whole /\ twins
      /\ book.outcome = "knots" => \E m, n \in DOMAIN trade.knots : m < n /\ After(trade.knots[m]) >= After(trade.knots[n])
      /\ book.outcome = "set" =>
           /\ Len(book.instruments) = Len(trades) /\ Range(ends) = {c.matures : c \in Range(book.instruments)}
           /\ \A m, n \in DOMAIN book.instruments : m < n => book.instruments[m].matures < book.instruments[n].matures
           /\ \A n \in DOMAIN book.instruments : book.instruments[n].matures > valuation
           /\ trade.knots = <<>> => book.knots = [n \in DOMAIN book.instruments |-> book.instruments[n].matures]
           /\ \A r \in DOMAIN trade.from, n \in DOMAIN trades :
                trades[n].conv.type # "future" /\ trades[n].tenor = trade.from[r] =>
                  \E m \in DOMAIN trades : trades[m].tenor = trade.from[r] /\ book.regions[r] = ends[m]
(* The set a curve is calibrated to, on whatever day it is built: as many  *)
(* instruments as trades, one maturing after the other and all of them     *)
(* still to come, a region beginning at the knot of the instrument quoted  *)
(* there.  It is refused only with one of its instruments, or two of them  *)
(* that mature on a day, or knots out of order.                            *)
SetsCalibrate ==
  trade.conv.type = "curve" =>
    LET trades == CalibrationTrades(trade)
    IN CalibratesTo(trades, [n \in DOMAIN trades |-> BuildInstrument(Now, trades[n])])

(* As a booked trade ages it keeps the coupons that are not paid, with     *)
(* their dates and what was fixed of them, and it is refused only when it  *)
(* has matured or a rate it needs was not published in time.               *)
Kept(old, new) ==
  LET left == SelectSeq(old.coupons, LAMBDA c : c.pay > valuation')
  IN  /\ Len(new.coupons) = Len(left)
      /\ \A m \in DOMAIN left :
           /\ <<left[m].start, left[m].end, left[m].pay>> =
                <<new.coupons[m].start, new.coupons[m].end, new.coupons[m].pay>>
           /\ IsPrefix(left[m].realised, new.coupons[m].realised)
           /\ left[m].fixed => new.coupons[m].fixed
CashFlowsLast ==
  [][trade.trade_date # 0 /\ trade.conv.type # "future" /\ book.outcome = "built" =>
       CASE book'.outcome = "built" -> \A l \in DOMAIN book.legs : Kept(book.legs[l], book'.legs[l])
         [] book'.outcome = "matured" -> book.matures <= valuation'
         [] OTHER -> \/ trade.missing # {}
                     \/ \E x \in DOMAIN Index, d \in published' .. (valuation' - 1) :
                           IsBusinessDay(Calendar[Index[x].calendar], d)]_vars
=============================================================================
