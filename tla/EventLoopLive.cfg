CONSTANTS
  Addr = {a1, a2}
  NoTimer = NoTimer
  MaxTime = 3
  Delays = {0, 2}
  ClockSteps = {}
  Channel = {timerfd, ch1}
  TimerChannel = timerfd
SPECIFICATION FairSpec
INVARIANTS TimerfdCovers
PROPERTIES TimersRun QuitEndsLoop
