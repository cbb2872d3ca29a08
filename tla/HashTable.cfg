SPECIFICATION Spec
CONSTANTS
  Threads = {t1, t2}
  NoThread = NoThread
  Entries = {e1, e2, e3}
  NoEntry = NoEntry
  Absent = Absent
  NLines = 2
  Limit = 2
  Keys <- MCKeys
  Values <- MCValues
  KeyOf <- MCKeyOf
  LineOf <- MCLineOf
  MatchSets <- MCMatchSets
SYMMETRY Symmetry
INVARIANTS
  UniqueKeys
  TableSound
  LinesReleased
  EntriesAccounted
PROPERTY ImplementsMap
