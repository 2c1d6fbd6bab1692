SPECIFICATION BuildStepsSpec
CONSTANTS
  Builds = {b1}
  StepsOf <- TwoThenOne
  NoBuild = NoBuild
  Capacity = 1
  MaxConns = 2
  WaitTimeout = 3
  Agents = 2
  Empty = Empty
  b1 = b1
INVARIANTS BuildStepsTypeOK SuccessIsReal OrphanMeansFailed PassedForAReason LoneAnswerIsHeard
PROPERTIES StepsInOrder BuildEnds NoPileUp ServerStepEnds
CHECK_DEADLOCK FALSE
