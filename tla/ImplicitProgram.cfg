SPECIFICATION Spec
CONSTANTS
  ois = ois
  swap = swap
  low = low
  off = off
  Start = Start
  Nothing = Nothing
  Thrown = Thrown
  N = 3
  Free <- TwoInputs
  Quotes <- TwoQuotes
  Reads <- Triangle
  Diverges <- OffMarket
  MaxBatch = 3
  Dedup = {FALSE, TRUE}
  Throws = {FALSE, TRUE}
  MaxCalls = 2
INVARIANTS FactorsFitTheLane OneSolvePerTwin ReportsOfLastCall
PROPERTY AnswersAlone
CHECK_DEADLOCK FALSE
