------------------------------- MODULE Market -------------------------------
(***************************************************************************)
(* What happens before anything is priced: documents are read              *)
(* (JsonReader), a registry of conventions is filled and blueprints are    *)
(* validated against it (Registry), trades are built from conventions and  *)
(* built again as days pass (TradeLife), curves are constructed and        *)
(* interpolate (Curves), and a set of curves is calibrated to instruments  *)
(* that read them (CurveSet).  A behaviour is of one of these: the         *)
(* registry knows of a document the entries that were in it, the           *)
(* calibration of an instrument only the knots it reads and of a curve     *)
(* only its knots, and a trade of the registry only the convention it is   *)
(* built from.                                                             *)
(***************************************************************************)
EXTENDS Integers, Sequences, FiniteSets

CONSTANTS N, Knots, Owner, Markets, RequireCoupling,       \* see CurveSet
          Documents, Prints, MaxFiles,                     \* see Registry
          Trades, Calendar, Index, Discount, FirstDay, Steps,  \* see TradeLife
          Definitions, Levels, Infinity,                     \* see Curves
          Tokens, Alone, MaxNesting, MaxTokens               \* see JsonReader

VARIABLES reads, sequential, pc, deps, index, low, on_stack, stack, counter, visits, out,
          calibrated, results,
          defs, calendars, verdict, prints, valid, files,
          trade, valuation, published, book,
          definition, built, values, prepared,
          text, frames, reading, document, unwritten, written
curveVars == <<reads, sequential, pc, deps, index, low, on_stack, stack, counter, visits, out,
               calibrated, results>>
registryVars == <<defs, calendars, verdict, prints, valid, files>>
tradeVars == <<trade, valuation, published, book>>
schemeVars == <<definition, built, values, prepared>>
textVars == <<text, frames, reading, document, unwritten, written>>
vars == <<curveVars, registryVars, tradeVars, schemeVars, textVars>>

Calibration == INSTANCE CurveSet
Conventions == INSTANCE Registry
Trading == INSTANCE TradeLife
Interpolation == INSTANCE Curves
Json == INSTANCE JsonReader
Order == INSTANCE SolveOrder WITH Curves <- Calibration!Curves, needs <- Calibration!Needs

ASSUME MarketAssumption == /\ Calibration!CurveSetAssumption
                           /\ Conventions!RegistryAssumption
                           /\ Trading!TradeLifeAssumption
ASSUME SchemesAssumption == Interpolation!CurvesAssumption
ASSUME TextsAssumption == Json!JsonAssumption

NoCalibration ==
  /\ reads = [i \in DOMAIN Owner |-> {}] /\ sequential = FALSE /\ pc = "idle"
  /\ deps = <<>> /\ index = <<>> /\ low = <<>> /\ on_stack = <<>>
  /\ stack = <<>> /\ counter = 0 /\ visits = <<>> /\ out = <<>>
  /\ calibrated = {} /\ results = <<>>
NoRegistry ==
  /\ defs = {} /\ calendars = <<>> /\ verdict = "idle" /\ prints = {} /\ valid = FALSE /\ files = MaxFiles
NoTrade ==
  /\ trade = [conv |-> [type |-> "none"], trade_date |-> 0, missing |-> {}, until |-> 0] /\ valuation = FirstDay /\ published = FirstDay
  /\ book = [outcome |-> "none", legs |-> <<>>]

NoCurve == Interpolation!CurveInit /\ built = "idle"
NoText == Json!NothingRead /\ reading = "no"

Init == \/ Calibration!Init /\ NoRegistry /\ NoTrade /\ NoCurve /\ NoText
        \/ Conventions!Init /\ NoCalibration /\ NoTrade /\ NoCurve /\ NoText
        \/ Trading!Init /\ NoCalibration /\ NoRegistry /\ NoCurve /\ NoText
        \/ Interpolation!CurveInit /\ built = "no" /\ NoCalibration /\ NoRegistry /\ NoTrade /\ NoText
        \/ Json!JsonInit /\ NoCalibration /\ NoRegistry /\ NoTrade /\ NoCurve

Next == \/ pc # "idle" /\ Calibration!Next /\ UNCHANGED <<registryVars, tradeVars, schemeVars, textVars>>
        \/ verdict # "idle" /\ Conventions!Next /\ UNCHANGED <<curveVars, tradeVars, schemeVars, textVars>>
        \/ book.outcome # "none" /\ Trading!Next /\ UNCHANGED <<curveVars, registryVars, schemeVars, textVars>>
        \/ Interpolation!CurveNext /\ UNCHANGED <<curveVars, registryVars, tradeVars, textVars>>
        \/ Json!JsonNext /\ UNCHANGED <<curveVars, registryVars, tradeVars, schemeVars>>

(* One thread searches and records to the end.                             *)
Spec == Init /\ [][Next]_vars /\ WF_vars(Calibration!Step /\ UNCHANGED <<registryVars, tradeVars, schemeVars, textVars>>)
-----------------------------------------------------------------------------
(* The curve of a set is never refused where the regions of its definition *)
(* begin at instruments it has, later and later ones and none at the       *)
(* first: a region has the knot it begins at, and the first one another.   *)
DefinitionOf(set) ==
  LET ta(r) == IF r = 0 THEN 0 ELSE set.regions[r] - valuation
      n == Len(set.regions)
  IN [knots |-> [k \in DOMAIN set.knots |-> set.knots[k] - valuation],
      regions |-> [r \in 1 .. n + 1 |-> [ta |-> ta(r - 1), tb |-> IF r > n THEN 0 ELSE ta(r), scheme |-> "linear", variable |-> "zero"]]]
SetsMakeCurves ==
  LET quoted == {c \in DOMAIN book.instruments : \E r \in DOMAIN trade.from : book.instruments[c].tenor = trade.from[r]}
      PlaceOf(r) == CHOOSE c \in quoted : book.instruments[c].tenor = trade.from[r]
  IN book.outcome = "set" /\ trade.knots = <<>> /\ 1 \notin quoted
       /\ (\A r \in DOMAIN trade.from : \E c \in quoted : book.instruments[c].tenor = trade.from[r])
       /\ (\A r \in 2 .. Len(trade.from) : PlaceOf(r - 1) < PlaceOf(r))
     => Interpolation!Acceptable(DefinitionOf(book))

(* The properties are stated where the definitions are: CurveSet,          *)
(* Registry, TradeLife, Curves and JsonReader.                             *)

(* No instrument ever reads a curve that has no values yet.                *)
DependenciesFirst == Calibration!DependenciesFirst
(* What is refused is ill posed, whatever it is found with.                *)
Accepts == Calibration!Accepts
(* Blocks are calibrated as the header says: strongly connected components *)
(* of the graph of reads, every one after those it depends on.             *)
CalibratesInOrder == Order!Spec
(* A calibration comes to an end.                                          *)
Ends == pc # "idle" => Calibration!Ends
(* An accepted registry has every calendar, right, and every name.         *)
AcceptedIsWhole == Conventions!AcceptedIsWhole
(* Every day of an overnight coupon has its rate, folded in or projected,  *)
(* and pricing asks the curves for nothing that is past; the schedules of  *)
(* those days run from end to end in whole periods but for their stub.     *)
(* The instruments of a curve, built on any day, calibrate it.             *)
PricedAsDue == /\ Trading!EveryDayHasItsRate /\ Trading!ReadsAhead /\ Trading!SchedulesTile
               /\ Trading!SetsCalibrate /\ SetsMakeCurves
(* An ageing trade keeps what is not paid, and what was fixed of it.       *)
CashFlowsLast == Trading!CashFlowsLast
(* A curve that is accepted is whole, continuous where its regions meet,   *)
(* and between its knots what its schemes are named for.                   *)
CurvesFit == /\ Interpolation!CurvesJoin /\ Interpolation!SchemesFit /\ Interpolation!AreasAdd
             /\ Interpolation!StartsFlat /\ Interpolation!SetsOfCurves
(* Exactly the documents are accepted, and what is written of one reads    *)
(* as it did.                                                              *)
ReadsDocuments == Json!ReadsDocuments
=============================================================================
