CONSTANTS
  cheap = cheap
  strong = strong
  Virtual = Virtual
  None = None
  Cmd = Cmd
  Model = {cheap, strong}
  Turn = {t1, t2}
  Persistent = TRUE
  MaxEvents = 4
SYMMETRY Alike
SPECIFICATION Spec
CHECK_DEADLOCK FALSE
INVARIANTS
  StaleIsNoticed
  TurnSeesScope
  TurnKeepsItsFleet
  CompactionReachesTurn
