SPECIFICATION PlanSpec
CONSTANTS
  NC = 3
  Token = {"t1", "t2"}
  Authority <- MCAuthority
  Request <- MCRequest
INVARIANTS
  ReadyIsSchedulable
  NothingWidened
  CoversWhatCanBe
CHECK_DEADLOCK FALSE
