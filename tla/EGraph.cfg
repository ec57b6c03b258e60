SPECIFICATION Spec
CONSTANTS
  base = base
  folded = folded
  grouped = grouped
  both = both
  malformed = malformed
  Root = base
  Invalid = malformed
  Proposals <- Meeting
  E1 = {"group"}
  Orders <- RuleVectors
  Limits <- SomeLimits
  MaxCalls = 3
INVARIANTS SaturatedIsClosed DedupIsLossless ExtractionKeepsClass
PROPERTY RoundsAddContent
CHECK_DEADLOCK FALSE
