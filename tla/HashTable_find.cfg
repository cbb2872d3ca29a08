SPECIFICATION Spec
CONSTANTS
  Threads = {t1, t2}
  NoThread = NoThread
  Entries = {e1, e2}
  NoEntry = NoEntry
  Absent = Absent
  NLines = 2
  Limit = 2
  Keys <- SmallKeys
  Values <- SmallValues
  KeyOf <- SmallKeyOf
  LineOf <- SmallLineOf
  MatchSets <- SmallMatchSets
INVARIANT FindReadsItsMatch
