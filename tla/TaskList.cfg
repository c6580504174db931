CONSTANTS
  Task = {t1, t2, t3}
  NULL = NULL
  MAX_TASK_NUM = 4
SPECIFICATION FairSpec
INVARIANTS TypeOK SlotSafety
PROPERTIES RefinesFifo TakesAndReturns
