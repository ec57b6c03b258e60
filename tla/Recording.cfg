CONSTANTS
  Tapes = {t1, t2}
  Recs = {r1, r2}
  Bits = {b1, b2}
  NoTape = NoTape
  MaxNodes = 3
  MaxOuts = 1
  MaxScopes = 2
  MaxSerial = 3
SPECIFICATION Spec
SYMMETRY Symmetry
INVARIANTS NoAlias NodesDenote NoPeek Validates
PROPERTY TablesOnlyGrow
CHECK_DEADLOCK FALSE
