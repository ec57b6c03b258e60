SPECIFICATION Spec
CONSTANTS
  MinTerms = 2
  Prime = 3
  Works <- EveryWork
  Operations <- Recordable
  Outputs <- Registered
  Meaning <- TheMeaning
  Refines <- MayReplace
INVARIANTS TotalDenotes CseMergesAll
CHECK_DEADLOCK FALSE
