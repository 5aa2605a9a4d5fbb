SPECIFICATION Spec
CONSTANTS
  Processes = {p1, p2}
  Deployments = {d1}
  BadRequests = {}
  Copies = 3
  MaxAttempts = 2
  FaultKinds = {"database", "crash"}
  MaxFaults = 3
PROPERTIES ImplementsBuildStage
CHECK_DEADLOCK FALSE
