CONSTANTS
  FailureThreshold = 2
  RecoveryTimeout = 3
  Windows <- TwoWindows
  Limit <- TightLimit
  Length <- TightLength
  InteractiveReserve <- TightReserve
  Calls = {c1, c2, c3}
  Weights = {1}
  MaxAttempts = 2
  Deadline = 2
  Delays <- BackoffDelays
  RetryAfters <- AfterDelay
  RetryAfterMax = 1
  Reported = {0, 3}
  Unhandled = {c2}
SPECIFICATION FairSpec
INVARIANTS
  TypeOK
  SingleProbe
  TripsAtThreshold
  BudgetKept
PROPERTIES
  ImplementsContract
  ChargedTogether
  RefreshEnds
  RecoversUnlessLost
