SPECIFICATION LiveSpec
CONSTANTS
  MaxAttempts = 2
  MaxArrivals = 2
  Arrivals <- FewArrivals
  UsesEntra = TRUE
PROPERTIES
  ReplyTerminates
CHECK_DEADLOCK FALSE
