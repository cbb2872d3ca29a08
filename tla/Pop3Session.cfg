SPECIFICATION Spec
CONSTANTS
  Commands <- MCCommands
  MaxSent = 4
INVARIANTS
  RequestsInOrder
  OffByOneAtMost
  LockstepPairs
  StateFollows
  AlarmExact
  NoTextWhileWaiting
  EndComplete
CHECK_DEADLOCK FALSE
