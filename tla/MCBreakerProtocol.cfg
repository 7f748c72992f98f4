CONSTANTS
  Model = {a, b}
  FailureThreshold = 2
  ResetTimeout = 2
  HalfOpenSuccesses = 2
  MaxInFlight = 2
SPECIFICATION FairProtocolSpec
PROPERTIES
  ClosesOnEvidence
  OpenIsProbed
