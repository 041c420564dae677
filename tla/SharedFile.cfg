SPECIFICATION Spec
CONSTANTS
  Threads = {t1, t2}
  NoThread = NoThread
  FileSize = 3
INVARIANTS ReadsRight
