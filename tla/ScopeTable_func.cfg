SPECIFICATION Spec
CONSTANTS
  Names = {a}
  Lines = {x, y}
  NFiles = 2
  MaxDepth = 3
  MaxSyms = 3
  MaxFormals = 1
INVARIANT FunctionsComplete
CHECK_DEADLOCK FALSE
