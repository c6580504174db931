CONSTANTS
  Consumers = {c1, c2, c3}
  MaxTasks = 4
  MaxSpurious = 2
SPECIFICATION Spec
PROPERTIES DoneInTurn
CHECK_DEADLOCK FALSE
