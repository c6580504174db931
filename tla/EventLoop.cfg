CONSTANTS
  Addr = {a1, a2}
  NoTimer = NoTimer
  MaxTime = 3
  Delays = {0, 2}
  ClockSteps = {1, 3}
  Channel = {timerfd, ch1}
  TimerChannel = timerfd
SPECIFICATION Spec
INVARIANTS TypeOK TimersOwned TimerfdCovers RegistryConsistent
PROPERTIES UsesTimerQueue
