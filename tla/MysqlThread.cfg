CONSTANTS
  Task = {t1, t2, t3}
  NULL = NULL
  MAX_TASK_NUM = 3
  MaxStarts = 2
SPECIFICATION FairSpec
INVARIANTS TypeOK NoLostWakeup OnePlaceEach LossNeedsBacklog ExecutesConnected
PROPERTIES CallsReturn TaskIsTaken
CHECK_DEADLOCK FALSE
