SPECIFICATION Spec
CONSTANTS
  MaxAttempts = 2
  MaxArrivals = 4
  Arrivals <- AnyArrival
  UsesEntra = TRUE
INVARIANTS
  TypeOK
  RelayIsExact
  DoneIsEarned
  FilterFailsClosed
  UpstreamReleased
  RetryBudgetIsUsed
PROPERTIES
  RetryBoundary
  RespectsContract
CHECK_DEADLOCK FALSE
