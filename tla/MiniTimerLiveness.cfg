\* One controller starts, stops and restarts the service.
SPECIFICATION FairSpec
CONSTANTS
  Clients = {c1}
  TimerThread = tt
  Controllers = {k1}
  Intervals = {1, 1000}
  Boot = 999000
  Instants <- MCInstants
  Horizon = 3500000
  MaxTimers = 2
  MaxStarts = 2
  MayStop = TRUE
  MayInterrupt = TRUE
  PipeCap = 1
  DiffWrap = 1073741824
INVARIANT TimeoutSane
PROPERTIES
  StartReturns
  StopReturns
  EveryTimerFires
\* Once the controller has stopped the service and no start is left, nothing runs.
CHECK_DEADLOCK FALSE
