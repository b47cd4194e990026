SPECIFICATION CycleSpec
CONSTANTS
  N = 3
  Class = {"workers"}
  Demand <- MCDemand
  Limit <- MCLimit
  Deps <- MCDeps
  LaneResult <- MCLanes
  Key = {"a", "b"}
  Scalar = {"0", "1"}
  MaxDepth = 1
  CloneWork <- MCWork
  Source <- MCSource
  HostWrite <- MCHostWrite
  Requirements <- DefaultRequirements
  Policy = "merge-nonconflicting"
  MaxWrites = 2
INVARIANTS
  ReadyIsCommittable
PROPERTIES
  CommitsWhatWasTested
  OnlyProvenWorkLands
CHECK_DEADLOCK FALSE
