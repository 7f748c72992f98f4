SPECIFICATION Spec
CONSTANTS
  g1 = g1
  g2 = g2
  o = o
  Model <- Models
  Google <- Googles
  None = None
  GlobalTimeout = 3
  CallTimeout = 2
  MaxMessages = 1
  MaxTurns = 2
  MaxTries = 2
CHECK_DEADLOCK FALSE
INVARIANTS
  GuardOutlivesFailover
  ToolCallsSigned
  LateAnswerDropped
PROPERTIES
  PlanningEnds
