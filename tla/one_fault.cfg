SPECIFICATION FairSpec
CONSTANTS
  Processes = {p1, p2}
  Deployments = {d1, d2}
  BadRequests = {}
  Copies = 1
  MaxAttempts = 2
  FaultKinds = {"publish", "commit"}
  MaxFaults = 1
INVARIANTS NoRequestLost
PROPERTIES EventuallyDecided EventuallyReported
CHECK_DEADLOCK FALSE
