SPECIFICATION Spec
CONSTANTS
  Threads = {t1, t2, t3}
  Slots = {s1, s2, s3}
  NoSlot = NoSlot
  NoThread = NoThread
  MaxFiles = 2
  GoodFiles = 2
  Timeout1 = 0
  Timeout2 = 1
SYMMETRY Symmetry
INVARIANTS CacheConsistent OneFst FileReadsExclusive MutexInside
PROPERTIES NoCloseInUse RoomIfIdle
