SPECIFICATION Spec
CONSTANTS
  Setups <- OneSpelled
  ActionNames <- Names
  MaxFlips = 1
INVARIANT EnvironmentOverrides
CHECK_DEADLOCK FALSE
