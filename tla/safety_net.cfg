SPECIFICATION Spec
CONSTANTS
  Builds = {b1}
  StepsOf <- TwoThenOne
  NoBuild = NoBuild
  Capacity = 1
  MaxConns = 2
  b1 = b1
PROPERTIES NetAfterQuiet
CHECK_DEADLOCK FALSE
