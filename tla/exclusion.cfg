SPECIFICATION Spec
CONSTANTS
  Processes = {p1, p2}
  Deployments = {d1}
  BadRequests = {}
  Copies = 3
  MaxAttempts = 2
  FaultKinds = {"publish", "database", "commit", "connection", "crash", "lease"}
  MaxFaults = 2
INVARIANTS TypeOK SingleOwner HolderIsCurrent ClaimNumbersUnique OutcomeStoredFirst PublishRetriesBounded
CHECK_DEADLOCK FALSE
SYMMETRY Symmetry
