SPECIFICATION Spec
CONSTANTS
  Names = {a}
  Lines = {x, y}
  NFiles = 2
  MaxDepth = 3
  MaxSyms = 3
  MaxFormals = 1
INVARIANTS FindsInnermost TablesSound
PROPERTIES GlobalsPersist ImplementsScopeStack
CHECK_DEADLOCK FALSE
