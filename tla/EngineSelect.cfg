\* The default timeout, 0; descriptors are registered for at least one event.
SPECIFICATION FairSpec
CONSTANTS
  Fds = {1, 3}
  FD_SETSIZE = 5
  Arrivals <- MCArrivals
  Interests <- MCInterests
  Forever = FALSE
  Spurious = FALSE
  MayPark = FALSE
INVARIANTS TypeOK MaxFdCovers
PROPERTIES EventServed CallsReturn
