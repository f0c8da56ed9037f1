SPECIFICATION FairSpec
CONSTANTS
  d1 = d1
  d2 = d2
  h1 = h1
  h2 = h2
  Devices = {d1, d2}
  Handlers = {h1, h2}
  Setups <- Plugins
  Writer = Writer
  Free = Free
  QueueSize = 2
  MaxReadings = 2
INVARIANTS
  TypeOK
  SerialReads
  OneReader
  OnlyListenersPanic
PROPERTIES
  ReadingsAdvance
  QueuedIsStored
  RoundsEnd
  WritesGetLock
  StopEndsReads
CHECK_DEADLOCK FALSE
