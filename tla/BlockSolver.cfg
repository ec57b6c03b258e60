SPECIFICATION Spec
CONSTANTS
  MaxIterations = 4
  MaxTries = 2
  MaxStalls = 2
  MaxNorm = 6
  Options <- Solves
  NaNs = {FALSE, TRUE}
INVARIANTS StepsFromHere FactorsOfTheSolution GivesUpOnlyWhenStuck WorkBounded
PROPERTY Returns
