----------------------------- MODULE Calendars -----------------------------
(***************************************************************************)
(* Dates as integers (include/epykos/conventions/date.hpp): the days since *)
(* 1970-01-01, their civil dates, and the periods that are added to them   *)
(* (daycount.cpp).  A period is <<n, unit>>, a calendar date [y, m, d].    *)
(*                                                                         *)
(* Holiday calendars (src/conventions/calendar.cpp): generated from rules, *)
(* or joined from other calendars, and asked for business days.  Accrual   *)
(* schedules (schedule.cpp) and the observation days of an overnight coupon*)
(* (rfr.cpp).                                                              *)
(*                                                                         *)
(* A calendar's definition is [weekend, rules, observance, extra,          *)
(* not_holidays, first_year, last_year] and, built, it is [first, last,    *)
(* weekend, holidays].  A query that leaves the span throws: it is Beyond, *)
(* and whatever is computed from Beyond is refused.  A schedule is asked   *)
(* for by [effective, termination, frequency, term, bdc, calendar, stub,   *)
(* eom, eom_auto].                                                         *)
(***************************************************************************)
EXTENDS Integers, Sequences, FiniteSets, SequencesExt

IsLeap(y) == y % 4 = 0 /\ (y % 100 # 0 \/ y % 400 = 0)
DaysInMonth(y, m) ==
  IF m = 2 /\ IsLeap(y) THEN 29 ELSE <<31, 28, 31, 30, 31, 30, 31, 31, 30, 31, 30, 31>>[m]
ValidYmd(y, m, d) == m \in 1..12 /\ d \in 1..DaysInMonth(y, m)

(* Years start in March, eras are of 400 years: the leap day is the last.  *)
DaysFromCivil(year, m, d) ==
  LET y == IF m <= 2 THEN year - 1 ELSE year
      era == y \div 400
      yoe == y - era * 400
      doy == (153 * (IF m > 2 THEN m - 3 ELSE m + 9) + 2) \div 5 + d - 1
  IN  era * 146097 + yoe * 365 + yoe \div 4 - yoe \div 100 + doy - 719468

FromMarch(year, doy, mp) ==
  [y |-> IF mp < 10 THEN year ELSE year + 1, m |-> IF mp < 10 THEN mp + 3 ELSE mp - 9,
   d |-> doy - (153 * mp + 2) \div 5 + 1]
OfYear(year, doy) == FromMarch(year, doy, (5 * doy + 2) \div 153)
OfEra(era, doe, yoe) == OfYear(yoe + era * 400, doe - (365 * yoe + yoe \div 4 - yoe \div 100))
InEra(era, doe) == OfEra(era, doe, (doe - doe \div 1460 + doe \div 36524 - doe \div 146096) \div 365)
CivilFromDays(days) ==
  LET z == days + 719468 IN InEra(z \div 146097, z % 146097)

MonthOf(d) == CivilFromDays(d).m
DayOfMonth(d) == CivilFromDays(d).d
Weekday(d) == (d + 3) % 7   \* Monday is 0

MonthEnd(x) == DaysFromCivil(x.y, x.m, DaysInMonth(x.y, x.m))
EndOfMonth(d) == MonthEnd(CivilFromDays(d))
IsEndOfMonth(d) == EndOfMonth(d) = d

(* The day of the month is kept and clipped; with eom a month end stays one. *)
Clipped(x, y, m, eom) ==
  LET last == DaysInMonth(y, m)
  IN  DaysFromCivil(y, m, IF eom /\ x.d = DaysInMonth(x.y, x.m) THEN last ELSE Min({x.d, last}))
InMonths(x, total, eom) == Clipped(x, total \div 12, (total % 12) + 1, eom)
MonthsOn(x, n, eom) == InMonths(x, x.y * 12 + x.m - 1 + n, eom)
AddMonths(d, n, eom) == MonthsOn(CivilFromDays(d), n, eom)

IsDays(period) == period[2] \in {"D", "W"}
PeriodDays(period) == IF period[2] = "W" THEN 7 * period[1] ELSE period[1]
PeriodMonths(period) == IF period[2] = "Y" THEN 12 * period[1] ELSE period[1]
AddPeriod(d, period, eom) ==
  IF IsDays(period) THEN d + PeriodDays(period) ELSE AddMonths(d, PeriodMonths(period), eom)

NthWeekday(y, m, wd, n) ==
  IF n > 0
  THEN LET first == DaysFromCivil(y, m, 1) IN first + ((wd - Weekday(first)) % 7) + 7 * (n - 1)
  ELSE LET last == DaysFromCivil(y, m, DaysInMonth(y, m))
       IN  last - ((Weekday(last) - wd) % 7) + 7 * (n + 1)

EasterSunday(y) ==
  LET a == y % 19   b == y \div 100   c == y % 100
      g == (b - (b + 8) \div 25 + 1) \div 3
      h == (19 * a + b - b \div 4 - g + 15) % 30
      l == (32 + 2 * (b % 4) + 2 * (c \div 4) - h - (c % 4)) % 7
      m == (a + 11 * h + 22 * l) \div 451
      e == h + l - 7 * m + 114
  IN  DaysFromCivil(y, e \div 31, (e % 31) + 1)

ImmDate(y, m) == NthWeekday(y, m, 2, 3)
(* The first quarterly IMM date after d: one of the next eight months has it. *)
Imm(month) == ImmDate(month \div 12, (month % 12) + 1)
ImmFrom(d, month) ==
  Imm(Min({k \in month .. (month + 7) : k % 3 = 2 /\ Imm(k) > d}))
NextImm(d) == LET x == CivilFromDays(d) IN ImmFrom(d, 12 * x.y + x.m - 1)

(* The days of [d1, d2) as a day count sees them: years have 360 or 365.   *)
Thirties(dc, a, b) ==
  LET start == Min({a.d, 30})
      stop == IF b.d = 31 /\ (dc = "30E/360" \/ start = 30) THEN 30 ELSE b.d
  IN  360 * (b.y - a.y) + 30 * (b.m - a.m) + stop - start
DayCountDays(dc, d1, d2) ==
  IF dc \in {"ACT/360", "ACT/365F"} THEN d2 - d1 ELSE Thirties(dc, CivilFromDays(d1), CivilFromDays(d2))

------------------------------------------------------------------------------
Beyond == 10000000

(* The observed date, or no date when the holiday is not observed.         *)
Observe(nominal, observance) ==
  LET sat == Weekday(nominal) = 5
      sun == Weekday(nominal) = 6
  IN  CASE observance = "none" -> {nominal}
        [] observance = "sat_to_fri_sun_to_mon" ->
             {IF sat THEN nominal - 1 ELSE IF sun THEN nominal + 1 ELSE nominal}
        [] observance = "sun_to_mon" -> IF sat THEN {} ELSE {IF sun THEN nominal + 1 ELSE nominal}
        [] observance = "sat_to_fri" -> IF sun THEN {} ELSE {IF sat THEN nominal - 1 ELSE nominal}
        [] observance = "next_weekday" ->
             {IF sat THEN nominal + 2 ELSE IF sun THEN nominal + 1 ELSE nominal}

(* The dates, at most one, a rule gives in year y.                         *)
DateForYear(rule, y, default) ==
  IF (rule.from_year # 0 /\ y < rule.from_year) \/ (rule.to_year # 0 /\ y > rule.to_year) THEN {}
  ELSE CASE rule.kind = "fixed" ->
              IF ~ValidYmd(y, rule.month, rule.day) THEN {}
              ELSE Observe(DaysFromCivil(y, rule.month, rule.day),
                           IF rule.observance # "" THEN rule.observance ELSE default)
         [] rule.kind = "nth_weekday" ->
              {d \in {NthWeekday(y, rule.month, rule.weekday, rule.n)} : MonthOf(d) = rule.month}
         [] rule.kind = "easter_offset" ->
              {d \in {EasterSunday(y) + rule.days} : ~(rule.skip_first /\ DayOfMonth(d) <= 7)}

(* An observed date may be in the year before, or after, its rule's.       *)
Generated_InSpan(def) ==
  UNION {DateForYear(def.rules[r], y, def.observance) :
           r \in DOMAIN def.rules, y \in def.first_year .. def.last_year}
Generated(def) ==
  UNION {DateForYear(def.rules[r], y, def.observance) :
           r \in DOMAIN def.rules, y \in (def.first_year - 1) .. (def.last_year + 1)}

RuleCalendar(def) ==
  LET first == DaysFromCivil(def.first_year, 1, 1)
      last == DaysFromCivil(def.last_year, 12, 31)
  IN  [first |-> first, last |-> last, weekend |-> def.weekend,
       holidays |-> {d \in Generated(def) \cup def.extra :
                       d \in first..last /\ Weekday(d) \notin def.weekend} \ def.not_holidays]

(* Closed when any member is closed, where all their spans are.            *)
JointFirst(members) == Max({m.first : m \in members})
JointLast(members) == Min({m.last : m \in members})
JointWeekend_First(members) == (CHOOSE m \in members : TRUE).weekend
JointWeekend(members) == UNION {m.weekend : m \in members}
JointCalendar(members) ==
  [first |-> JointFirst(members), last |-> JointLast(members), weekend |-> JointWeekend(members),
   holidays |-> {d \in UNION {m.holidays : m \in members} :
                   d \in JointFirst(members) .. JointLast(members) /\ Weekday(d) \notin JointWeekend(members)}]

IsBusinessDay(cal, d) == Weekday(d) \notin cal.weekend /\ d \notin cal.holidays

(* The nearest business day, day by day forwards or backwards.             *)
Walk(cal, d, by) ==
  LET walk[x \in Int] == IF x \notin cal.first .. cal.last THEN Beyond
                         ELSE IF IsBusinessDay(cal, x) THEN x ELSE walk[x + by]
  IN  walk[d]
NextBusinessDay(cal, d) == Walk(cal, d, 1)
PreviousBusinessDay(cal, d) == Walk(cal, d, -1)

Adjust(cal, d, convention) ==
  LET f == NextBusinessDay(cal, d)
      p == PreviousBusinessDay(cal, d)
  IN  CASE convention = "Unadjusted" -> d
        [] convention = "Following" -> f
        [] convention = "Preceding" -> p
        [] convention = "ModifiedFollowing" -> IF f = Beyond \/ MonthOf(f) = MonthOf(d) THEN f ELSE p
        [] convention = "ModifiedPreceding" -> IF p = Beyond \/ MonthOf(p) = MonthOf(d) THEN p ELSE f

(* A move of no days is no adjustment, even on a holiday.                  *)
AddBusinessDays(cal, d, n) ==
  LET by == IF n > 0 THEN 1 ELSE -1
      moved[x \in Int, left \in Nat] ==
        IF left = 0 \/ x = Beyond THEN x ELSE moved[Walk(cal, x + by, by), left - 1]
  IN  moved[d, by * n]
-----------------------------------------------------------------------------
FromFront(spec) == spec.stub \in {"ShortFront", "LongFront"}
Longer(spec) == spec.stub \in {"LongFront", "LongBack"}

(* The regular dates hang on the anchor; its month end decides eom_auto.   *)
Anchor(spec) == IF spec.term \/ FromFront(spec) THEN spec.termination ELSE spec.effective
RollEom(spec) == /\ spec.term \/ ~IsDays(spec.frequency)
                 /\ spec.eom \/ (spec.eom_auto /\ IsEndOfMonth(Anchor(spec)))
RollDom(spec) == DayOfMonth(Anchor(spec))

(* The k-th date rolled from the anchor, towards the other end.            *)
Roll(spec, k) ==
  LET n == IF FromFront(spec) THEN -k * spec.frequency[1] ELSE k * spec.frequency[1]
      d == AddPeriod(Anchor(spec), <<n, spec.frequency[2]>>, RollEom(spec))
  IN  IF RollEom(spec) THEN EndOfMonth(d) ELSE d

Reaches(spec, d) == IF FromFront(spec) THEN d <= spec.effective ELSE d >= spec.termination
(* The rolls before the one that reaches the other end.                    *)
Rolled(spec) ==
  LET Within[k \in Nat] == IF Reaches(spec, Roll(spec, k)) THEN <<>> ELSE <<Roll(spec, k)>> \o Within[k + 1]
  IN  Within[1]

OtherEnd(spec) == IF FromFront(spec) THEN spec.effective ELSE spec.termination
HasStub(spec) == ~spec.term /\ Roll(spec, Len(Rolled(spec)) + 1) # OtherEnd(spec)

(* A long stub takes the period next to it in, when there is one.          *)
Merged_Always(spec, rolled) == IF Longer(spec) /\ rolled # <<>> THEN Front(rolled) ELSE rolled
Merged(spec, rolled) ==
  IF HasStub(spec) /\ Longer(spec) /\ rolled # <<>> THEN Front(rolled) ELSE rolled

Unadjusted(spec) ==
  IF spec.term THEN <<spec.effective, spec.termination>>
  ELSE LET dates == <<Anchor(spec)>> \o Merged(spec, Rolled(spec)) \o <<OtherEnd(spec)>>
       IN  IF FromFront(spec) THEN Reverse(dates) ELSE dates

(* generate_schedule: an adjustment must not collapse a period.            *)
NoSchedule == [unadjusted |-> <<>>, adjusted |-> <<>>, front_stub |-> FALSE, back_stub |-> FALSE,
               roll_eom |-> FALSE, roll_dom |-> 0]
Collapsed(adjusted) == \/ Beyond \in Range(adjusted)
                       \/ \E n \in 2..Len(adjusted) : adjusted[n] <= adjusted[n - 1]
ScheduleOf(spec, dates, adjusted, stub) ==
  IF Collapsed(adjusted) THEN NoSchedule
  ELSE [unadjusted |-> dates, adjusted |-> adjusted,
        front_stub |-> stub /\ FromFront(spec), back_stub |-> stub /\ ~FromFront(spec),
        roll_eom |-> RollEom(spec), roll_dom |-> RollDom(spec)]
AdjustedSchedule(spec, dates) ==
  ScheduleOf(spec, dates, [n \in DOMAIN dates |-> Adjust(spec.calendar, dates[n], spec.bdc)], HasStub(spec))
GenerateSchedule(spec) ==
  IF spec.termination <= spec.effective THEN NoSchedule ELSE AdjustedSchedule(spec, Unadjusted(spec))

PaymentDates(schedule, lag, cal) ==
  [n \in 1..(Len(schedule.adjusted) - 1) |-> AddBusinessDays(cal, schedule.adjusted[n + 1], lag)]
SpotDate(trade_date, lag, cal) == AddBusinessDays(cal, trade_date, lag)
-----------------------------------------------------------------------------
(* An observation is [method, lookback, lockout], a period of observation  *)
(* [from, to] and a day of it [day, rate_date, weight].                    *)
PlainObservation == [method |-> "plain", lookback |-> 0, lockout |-> 0]

Shift(spec) == IF spec.method = "observation_shift" THEN spec.lookback ELSE 0
Back(spec) == IF spec.method = "lookback" THEN spec.lookback ELSE 0

ObservationPeriod(start, end, spec, cal) ==
  [from |-> AddBusinessDays(cal, start, -Shift(spec)), to |-> AddBusinessDays(cal, end, -Shift(spec))]

(* A first day that is no business day has the rate of the one before.     *)
RateDate(d, spec, cal) == AddBusinessDays(cal, PreviousBusinessDay(cal, d), -Back(spec))

DaysFrom(from, to, spec, cal) ==
  LET days[d \in Int] ==
        IF d >= to THEN <<>>
        ELSE LET next == NextBusinessDay(cal, d + 1)
                 day == [day |-> d, rate_date |-> RateDate(d, spec, cal), weight |-> Min({next, to}) - d]
             IN  IF Beyond \in {next, day.rate_date} THEN <<[day EXCEPT !.rate_date = Beyond]>>
                 ELSE <<day>> \o days[Min({next, to})]
  IN  days[from]

Frozen_One(days, m) == [days EXCEPT ![Len(days)].rate_date = days[Len(days) - m].rate_date]
(* The last m days have the rate of the day before them.                   *)
Frozen(days, m) ==
  [n \in DOMAIN days |->
     IF n > Len(days) - m THEN [days[n] EXCEPT !.rate_date = days[Len(days) - m].rate_date] ELSE days[n]]

(* The days of a period, or <<Beyond>> where the code throws: a calendar   *)
(* that ends too early, a lockout of every day; but a period shifted to no *)
(* days at all is not refused.                                             *)
Throws == <<[day |-> Beyond, rate_date |-> Beyond, weight |-> 0]>>
Locked(days, spec) ==
  IF (\E n \in DOMAIN days : days[n].rate_date = Beyond) \/ (spec.lockout > 0 /\ spec.lockout >= Len(days))
  THEN Throws
  ELSE IF spec.lockout > 0 THEN Frozen(days, spec.lockout) ELSE days
ObservationDays(period, spec, cal) ==
  IF Beyond \in {period.from, period.to} THEN Throws
  ELSE Locked(DaysFrom(period.from, period.to, spec, cal), spec)

(* realised_observations: the days whose rate is known must be a prefix of *)
(* the days; a rate known after one that is not is a gap.                  *)
Realised(days, fixed) == SelectSeq(days, LAMBDA od : od.rate_date \in fixed)
Unfixed(days, fixed) == SelectSeq(days, LAMBDA od : od.rate_date \notin fixed)
HasGap(days, realised, unfixed) == days # realised \o unfixed
=============================================================================
