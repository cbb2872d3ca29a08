SPECIFICATION ExprSpec
CONSTANTS
  Symbols <- MC_Symbols
  CastTypes <- MC_CastTypes
  MaxDepth = 5
  MaxSteps = 6
  MaxOperands = 3
INVARIANTS ResultTypes ConstraintsKept
CHECK_DEADLOCK FALSE
