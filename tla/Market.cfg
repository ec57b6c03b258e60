SPECIFICATION Spec
CONSTANTS
  N = 4
  Knots <- TwoKnotsFirst
  Owner <- FiveInstruments
  Markets <- SomeReads
  RequireCoupling = TRUE
  Documents <- SomeDocuments
  Prints <- SomePrints
  MaxFiles = 3
  Trades <- SomeTrades
  Calendar <- SomeCalendars
  Index <- SomeIndices
  Discount = 0
  FirstDay <- FirstMonday
  Steps = {4}
  Definitions <- SomeDefinitions
  Levels = {0, 1, 3}
  Infinity = 1000
  Tokens <- SomeTokens
  Alone <- SomeScalars
  MaxNesting = 2
  MaxTokens = 8
INVARIANTS DependenciesFirst Accepts AcceptedIsWhole PricedAsDue CurvesFit ReadsDocuments
PROPERTIES CalibratesInOrder Ends CashFlowsLast
CHECK_DEADLOCK FALSE
