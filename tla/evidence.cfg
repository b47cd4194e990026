SPECIFICATION EvidenceSpec
CONSTANTS
  Commit <- MCCommit
  Path = {"source"}
  Blobs <- MCBlobs
  FileChecks <- MCFileChecks
  WorkflowChecks <- MCWorkflowChecks
  Workflow = {"test"}
  Claim <- MCClaim
  MaxChanges = 3
  MaxCollections = 2
INVARIANTS
  VerdictsAreDeserved
  StableRefGate
  CompleteIsComplete
  DriftExplained
CHECK_DEADLOCK FALSE
