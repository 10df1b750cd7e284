SPECIFICATION FairSpec
CONSTANTS
  Runs = {r1, r2}
  Period = 2
  RunLimit = 1
  Interval <- Intervals
  MaxAge <- Thresholds
INVARIANTS TypeOK StaleMeansMissed SeriesInStep
PROPERTIES SamplesAreApart DeadSeriesIsReported SelfHeals
CHECK_DEADLOCK FALSE
