SPECIFICATION FairSpec
CONSTANTS
  c1 = c1
  Clicks <- MCClicks
  NPaths = 3
  Core = 2
  OldHas <- MCOldHas
  NewHas <- MCNewHas
  OlderPrev = TRUE
  MaxReboots = 1
  MaxCrashes = 1
CHECK_DEADLOCK FALSE
INVARIANTS EndsWhole FailureIsTrue OneVerdict
PROPERTY Settles
