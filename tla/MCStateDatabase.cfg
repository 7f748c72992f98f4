CONSTANTS
  Process = {p1, p2}
  Session = {s1}
  Missing = Missing
  OldVersion = {4}
  MaxFiles = 4
  MaxEvents = 3
SPECIFICATION Spec
CHECK_DEADLOCK FALSE
INVARIANTS
  PinsSurvive
  SetAsideForCause
PROPERTIES
  EndsWithAStore
