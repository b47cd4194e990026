SPECIFICATION FairSpec
CONSTANTS
  N = 5
  Class <- MCClass
  Demand <- MCDemand
  Limit <- MCLimit
  Deps <- MCDeps
  LaneResult <- PlainLanes
INVARIANTS
  WorkConserving
  NoStall
  FinalAccount
  LoopsAgree
PROPERTIES
  ImplementsDagRun
  RunEnds
  CancelEnds
CHECK_DEADLOCK FALSE
