SPECIFICATION Spec
CONSTANTS
  Recorded <- SmallTapes
  Spare = {0, 1, 2, 4}
  Size = 4
  Arity = 2
  Residuals = 3
  Unknowns = 3
  Quotes = 1
  Sizes <- SomeSizes
  MaxDepth = 1
  MaxBlocks = 3
  Blocks <- SomeBlocks
  Batches = {1, 2, 4}
  MaxCalls = 3
INVARIANTS ExportsAreOfTheirSelects SliceComputesRoots StructureIsExact BlocksGatedAndSolved
CHECK_DEADLOCK FALSE
