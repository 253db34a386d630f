SPECIFICATION Spec
CONSTANTS
  Threads = {1, 2}
  Routes <- MCRoutes
  Times = 2
  Seconds = 1
  Unit = 2
  Capacity = 2
  MaxClock = 4
  MaxCalls = 4
INVARIANTS TypeOK LimitHolds PoolHolds
PROPERTIES RetryIsHonoured RequestsEnd
