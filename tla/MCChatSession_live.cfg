SPECIFICATION FairSpec
CONSTANTS
  MaxAttempts = 2
  MaxArrivals = 3
  Arrivals <- FewestArrivals
  UsesEntra = TRUE
PROPERTIES
  OverReleasesProvider
  TurnEnds
CHECK_DEADLOCK FALSE
