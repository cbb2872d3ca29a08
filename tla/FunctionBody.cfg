SPECIFICATION Spec
CONSTANTS
  Names = {a}
  Values = {v}
  Lines = {x, y}
  NFiles = 2
  MaxNest <- MCMaxNest
  MaxCases = 2
SYMMETRY Symmetry
INVARIANTS
  ContextsSound
  SwitchOwnsCases
  SameLineDistinct
  GotosResolved
CHECK_DEADLOCK FALSE
