SPECIFICATION FairSpec
CONSTANTS
  Requests = {r1, r2}
  d1 = d1
  d2 = d2
  i1 = i1
  Devices = {d1, d2}
  Writable = {d1}
  Ids = {i1}
  NoId = NoId
  NoWrite = NoWrite
  MaxItems = 1
  Calls <- ShortCalls
  QueueSize = 1
  BatchSize = 2
  Serial = TRUE
  Expires = TRUE
INVARIANT
  SerialSection
PROPERTIES
  EveryWriteResolves
  HandlersReturn
  StopEndsLoop
CHECK_DEADLOCK FALSE
