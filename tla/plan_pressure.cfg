SPECIFICATION PlanSpec
CONSTANTS
  NC = 3
  Token = {"t1", "t2"}
  Authority <- MCAuthority
  Request <- PressureRequest
INVARIANTS
  ExtraPressures
CHECK_DEADLOCK FALSE
