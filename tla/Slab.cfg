SPECIFICATION FairSpec
CONSTANTS
  Threads = {t1, t2}
  Pages = {p1, p2}
  Slots = {s1, s2, s3, s4}
  NoThread = NoThread
INVARIANTS
  PagesConsistent
  OneHolder
  NoFalseAlarm
  NoIdlePage
PROPERTIES
  ImplementsAllocator
  LockReleased
