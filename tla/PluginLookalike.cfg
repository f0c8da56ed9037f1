SPECIFICATION Spec
CONSTANTS
  Setups <- OneLookalike
  ActionNames <- Names
  MaxFlips = 1
INVARIANT OnlyNamedFile
CHECK_DEADLOCK FALSE
