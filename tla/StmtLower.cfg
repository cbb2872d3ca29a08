SPECIFICATION Spec
CONSTANTS
  Programs <- MCPrograms
  Values = {"1", "2", "3"}
  Depth = 3
  Conds = {"runtime", "zero"}
INVARIANTS JumpsLand
PROPERTIES ImplementsMeaning
CHECK_DEADLOCK FALSE
