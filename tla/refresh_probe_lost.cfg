CONSTANTS
  FailureThreshold = 2
  RecoveryTimeout = 3
  Windows <- OneWindow
  Limit <- WideLimit
  Length <- WideLength
  InteractiveReserve <- WideReserve
  Calls = {c1, c2}
  Weights = {1}
  MaxAttempts = 2
  Deadline = 2
  Delays <- BackoffDelays
  RetryAfters <- AfterDelay
  RetryAfterMax = 1
  Reported = {}
  Unhandled = {c1, c2}
SPECIFICATION FairSpec
PROPERTY Recovers
