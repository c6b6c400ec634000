\* A client and the callbacks add timers while two controllers start and stop
\* the service at any time.
SPECIFICATION Spec
CONSTANTS
  Clients = {c1}
  TimerThread = tt
  Controllers = {k1, k2}
  Intervals = {1, 1000}
  Boot = 999000
  Instants <- MCTwoInstants
  Horizon = 3500000
  MaxTimers = 3
  MaxStarts = 2
  MayStop = TRUE
  MayInterrupt = TRUE
  PipeCap = 1
  DiffWrap = 1073741824
INVARIANTS
  TypeOK
  TimesExact
  ListOrdered
  FiredExactlyOnce
  NeverEarly
  SleepHasCause
  OneTimerThread
  SignalAfterWait
PROPERTY ImplementsTimerService
\* Once a controller has stopped the service and no start is left, nothing runs.
CHECK_DEADLOCK FALSE
