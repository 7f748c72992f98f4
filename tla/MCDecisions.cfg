SPECIFICATION MCSpec
CONSTANTS
  Session = {s1}
  Turn = {t1, t2}
  Service = {lmStudio, ollama}
  Deadline = 1
  PingTimeout = 2
  MinAttempts = 2
  RateNum = 1
  RateDen = 2
  Window = 3
  MaxAttempts = 4
  None = None
  Unset = Unset
  MinFull = 16
  MinClassify = 8
  BatteryMin = 20
  DiskMin = 10
  ThresholdTps = 10
  WindowSize = 2
CHECK_DEADLOCK FALSE
INVARIANTS
  SpeculationIsBounded
  PromptIsReadRight
  CostIsWeighed
  LearningIsKept
  CatalogIsTrusted
  ModelFits
  StreamIsWhole
  MachineIsKnown
  TurnIsToldTruly
