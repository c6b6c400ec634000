\* Two threads share an object of either class; other processes are served too.
SPECIFICATION Spec
CONSTANTS
  Callers = {t1, t2}
  Null = Null
  MaxRequests = 2
  MaxUpsets = 2
  Us = 7
  Others = {9}
INVARIANTS
  TypeOK
  OwnReply
PROPERTIES
  LockReleased
  ImplementsSpiService
