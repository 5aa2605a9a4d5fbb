SPECIFICATION FairConnectionSpec
CONSTANTS
  Connections = {g1, g2, g3}
  Nil = nil
  Schedules <- MCSchedules
  HalfRange = 4
  MaxAttempts = 3
  MaxFaults = 2
INVARIANTS ConnectionTypeOK NoConnectionLeaks NoCopyGivenUp HealthIsTruthful BackoffFollowsFailures NoCopyVanishes DelaysAreScheduled
PROPERTIES EventuallyConsumes EventuallyPublishes EventuallyStops
CHECK_DEADLOCK FALSE
