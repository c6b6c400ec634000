\* A timer is inserted before the one the thread sleeps for.
SPECIFICATION Spec
CONSTANTS
  Clients = {c1}
  TimerThread = tt
  Controllers = {k1}
  Intervals = {1, 1000}
  Boot = 999000
  Instants <- MCTwoInstants
  Horizon = 3500000
  MaxTimers = 2
  MaxStarts = 1
  MayStop = FALSE
  MayInterrupt = FALSE
  PipeCap = 1
  DiffWrap = 1073741824
INVARIANT SleepsUntilEarliest
