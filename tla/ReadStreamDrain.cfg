SPECIFICATION FairSpec
CONSTANTS
  Streams = {s1}
  d1 = d1
  d2 = d2
  Devices = {d1, d2}
  Filters <- NoFilter
  NoStream = NoStream
  Capacity = 3
  MaxReadings = 3
PROPERTY DrainEnds
CHECK_DEADLOCK FALSE
