SPECIFICATION FairSpec
CONSTANTS
  MaxAttempts = 3
  MaxArrivals = 3
  Arrivals <- FewArrivals
  UsesEntra = TRUE
INVARIANTS
  LlmNeedsGrounds
  StatusIsEarned
PROPERTIES
  RespectsContract
  WaitsAreBounded
  EveryBodyEnds
CHECK_DEADLOCK FALSE
