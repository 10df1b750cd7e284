SPECIFICATION FairSpec
CONSTANTS
  Items <- AnyItem
  MaxItems = 4
INVARIANTS
  CompleteIsEarned
  FailureIsVisible
  ScreenIsFaithful
PROPERTIES
  VerdictIsFinal
  TurnEnds
CHECK_DEADLOCK FALSE
