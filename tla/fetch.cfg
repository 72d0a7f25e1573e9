CONSTANTS
  c1 = c1
  c2 = c2
  c3 = c3
  p1 = p1
  p2 = p2
  NoCaller = NoCaller
  Callers = {c1, c2, c3}
  Processes = {p1, p2}
  Process <- TwoProcesses
  SoftTTL = 1
  HardTTL = 2
  LockTTL = 2
  LockWait = 1
  Deadline = 1
  ReplyMax = 0
  Flaky = {p2}
  Unhandled = {c1}
SPECIFICATION FairSpec
INVARIANTS
  TypeOK
  SingleFlight
  StaleRatherThanError
PROPERTIES
  StampedeBounded
  FetchEnds
