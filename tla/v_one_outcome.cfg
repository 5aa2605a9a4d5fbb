SPECIFICATION Spec
CONSTANTS
  Processes = {p1}
  Deployments = {d1}
  BadRequests = {}
  Copies = 1
  MaxAttempts = 1
  FaultKinds = {"publish"}
  MaxFaults = 2
INVARIANTS OneOutcome
CHECK_DEADLOCK FALSE
