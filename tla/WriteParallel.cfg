SPECIFICATION Spec
CONSTANTS
  Requests = {r1, r2}
  d1 = d1
  d2 = d2
  i1 = i1
  Devices = {d1, d2}
  Writable = {d1}
  Ids = {i1}
  NoId = NoId
  NoWrite = NoWrite
  MaxItems = 2
  Calls <- MixedCalls
  QueueSize = 2
  BatchSize = 2
  Serial = FALSE
  Expires = FALSE
INVARIANTS
  TypeOK
  ResolvedOnce
  BatchBarrier
  PendingOncePlaced
  OutcomeTrue
  CallOrder
PROPERTY
  ServiceSpec
SYMMETRY ClientSymmetry
CHECK_DEADLOCK FALSE
