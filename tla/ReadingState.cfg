SPECIFICATION FairSpec
CONSTANTS
  d1 = d1
  d2 = d2
  Devices = {d1, d2}
  Unbounded = Unbounded
  Malformed = Malformed
  Setups <- SomeSetups
  TTL = 1
  Capacity = 1
  Room <- Doubling
  MaxTime = 3
  MaxReadings = 3
INVARIANTS
  TypeOK
  CacheDumpExact
  CurrentDumpAtOnce
  PastWindowsSafe
PROPERTIES
  ReadAnswered
  ReadCacheEnds
CHECK_DEADLOCK FALSE
