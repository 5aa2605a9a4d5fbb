SPECIFICATION LedgerSpec
CONSTANTS
  c1 = c1
  c2 = c2
  Callers = {c1, c2}
  Nobody = nobody
  LeaseLength = 2
  Offset <- MCOffset
  Skew = 1
  MaxTime = 5
  MaxCount = 2
  MaxRenewals = 1
INVARIANTS LedgerTypeOK AttemptsDistinct LeaseBounded MemoryAgrees
PROPERTIES NoEarlyTakeover ImplementsAtomicLedger
CHECK_DEADLOCK FALSE
