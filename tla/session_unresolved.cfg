SPECIFICATION Spec
CONSTANTS
  N = 3
  Class <- MCClass
  Demand <- SmallDemand
  Limit <- MCLimit
  Deps <- SmallDeps
  LaneResult <- CompletedLanes
INVARIANTS
  FinalizedResolves
CHECK_DEADLOCK FALSE
