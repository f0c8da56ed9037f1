SPECIFICATION FairSpec
CONSTANTS
  Streams = {s1}
  d1 = d1
  d2 = d2
  Devices = {d1, d2}
  Filters <- MCFilters
  NoStream = NoStream
  Capacity = 1
  MaxReadings = 5
INVARIANTS
  TypeOK
  NoSendOnClosed
  StreamFaithful
PROPERTIES
  ClientServed
  ListenerEnds
CHECK_DEADLOCK FALSE
