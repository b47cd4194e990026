SPECIFICATION Spec
CONSTANTS
  N = 3
  Class <- MCClass
  Demand <- SmallDemand
  Limit <- MCLimit
  Deps <- SmallDeps
  LaneResult <- AnyLanes
INVARIANTS
  TypeOK
  ResourceAccounting
  DependencyOrder
PROPERTIES
  HeldStartsNothing
  LateWorkQuarantined
  CheckpointGrows
CHECK_DEADLOCK FALSE
