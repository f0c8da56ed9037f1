SPECIFICATION FairSpec
CONSTANTS
  Setups <- AllSetups
  ActionNames <- Names
  MaxFlips = 1
INVARIANTS
  TypeOK
  SelectionExact
  IndexesAgree
  LoadExact
  ConfigPrecedence
  ServedReady
  PostRunBeforeStop
PROPERTIES
  StartsAndEnds
  HealthFileFollows
CHECK_DEADLOCK FALSE
