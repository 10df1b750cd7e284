SPECIFICATION Spec
CONSTANTS
  MaxAttempts = 2
  MaxArrivals = 3
  Arrivals <- FewArrivals
  UsesEntra = TRUE
INVARIANTS
  TypeOK
  CompleteAnswer
  CondemnedIsRetracted
PROPERTIES
  BrowserSeesServer
CHECK_DEADLOCK FALSE
