SPECIFICATION Spec
CONSTANTS
  Processes = {p1}
  Deployments = {d1}
  BadRequests = {}
  Copies = 1
  MaxAttempts = 2
  FaultKinds = {}
  MaxFaults = 0
INVARIANTS FailedIsExhausted
CHECK_DEADLOCK FALSE
