SPECIFICATION FairSpec
CONSTANTS
  Processes = {p1, p2}
  Deployments = {d1}
  BadRequests = {b1}
  Copies = 1
  MaxAttempts = 2
  FaultKinds = {"database", "commit", "connection", "crash", "lease"}
  MaxFaults = 2
INVARIANTS UnclaimedInBroker
PROPERTIES BadRequestsDeadLettered EventuallyQuiet
CHECK_DEADLOCK FALSE
