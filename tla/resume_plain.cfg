SPECIFICATION JobSpec
CONSTANTS
  N = 3
  Class <- MCClass
  Demand <- MCDemand
  Limit <- MCLimit
  Deps <- MCDeps
  LaneResult <- PlainLanes
  Revision <- MCRevisions
  Unbound <- MCUnbound
  MaxSessions = 3
INVARIANTS
  NoRework
  OutputsOfThisPlan
  ExportsAdmissible
CHECK_DEADLOCK FALSE
