SPECIFICATION MergeSpec
CONSTANTS
  Key = {"a", "b"}
  Scalar = {"x"}
  MaxDepth = 2
  Proposal <- MCProposal
  Body <- MCBody
  Label = {"r1", "r2"}
  Requirements <- DefaultRequirements
  MaxTokens = 2
INVARIANTS
  OrderIrrelevant
  UnwindsToStart
  DiffCarriesTheClone
  DiffSeesItsSource
PROPERTIES
  CommitsAsDecided
CHECK_DEADLOCK FALSE
