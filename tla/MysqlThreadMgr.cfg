CONSTANTS
  Task = {t1, t2, t3}
  NULL = NULL
  thread_count = 2
  MAX_TASK_NUM = 3
  Hash = {0, 1}
  Counts <- MC_Counts
SPECIFICATION FairSpec
INVARIANTS TypeOK AnsweredInOrder DropIsReported
PROPERTIES TaskComesBack
CHECK_DEADLOCK FALSE
