CONSTANTS
  Threads = {t1, t2}
SPECIFICATION LifeSpec
INVARIANTS NothingDangles
PROPERTIES ThreadsFinish
CHECK_DEADLOCK FALSE
