SPECIFICATION Spec
CONSTANTS
  Documents <- MCDocuments
  Detected <- MCDetected
  YYMAXDEPTH = 13
INVARIANT NothingLost
PROPERTY ImplementsWhole
CHECK_DEADLOCK FALSE
