SPECIFICATION Spec
CONSTANTS
  Runs = {r1, r2}
  Period = 2
  RunLimit = 3
  Interval <- Intervals
  MaxAge <- RoomyThresholds
PROPERTY SamplesAreApart
CHECK_DEADLOCK FALSE
