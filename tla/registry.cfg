SPECIFICATION IgnitionSpec
CONSTANTS
  f = f
  g = g
  MaxId = 4
  Bundle <- MCBundle
  Function = {f, g}
  BindingRef = {"r"}
  Request <- MCRequest
  MaxHeld = 1
  IgnitionSet <- MCIgnitionSet
  Lane = {l1, l2}
  Content = {"c1", "c2"}
  Ref = {"r1"}
SYMMETRY Alike
INVARIANTS
  ResolveIsExact
  ResolutionsStayTrue
  IgnitionSetWhole
  VerifiedIsTheRun
CHECK_DEADLOCK FALSE
