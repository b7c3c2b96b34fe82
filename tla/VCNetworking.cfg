SPECIFICATION FairSpec
CONSTANTS
  MaxBacklog = 1
  MaxFd = 2
  MaxIn = 2
  MaxBufs = 1
  MaxPipe = 2
  MaxHandles = 3
INVARIANTS EndsAreReal SleepsOnlyWhenIdle
PROPERTIES ClientsAreServed CloseIsASignal
CHECK_DEADLOCK FALSE
