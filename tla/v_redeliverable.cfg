SPECIFICATION Spec
CONSTANTS
  Processes = {p1}
  Deployments = {d1}
  BadRequests = {}
  Copies = 1
  MaxAttempts = 2
  FaultKinds = {"connection"}
  MaxFaults = 2
INVARIANTS ReleasedIsRedeliverable
CHECK_DEADLOCK FALSE
