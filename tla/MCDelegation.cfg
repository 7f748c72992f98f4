CONSTANTS
  econ = econ
  onbox = onbox
  small = small
  large = large
  Unknown = Unknown
  Model = {econ, onbox, small, large}
  FailureThreshold = 1
  ResetTimeout = 1
  HalfOpenSuccesses = 1
  Session = {s1}
  MaxTurns = 2
  TierOf <- MCTierOf
  ProviderOf <- MCProviderOf
  Rank <- MCRank
  Window <- MCWindow
  Cost <- MCCost
  Cursor = {econ, large}
  CursorAuto = {econ}
  Healthy = {econ, onbox, small, large}
  Registered = {econ, onbox, small, large}
  Recovering = {large}
  Fits = {econ, onbox, small, large}
  Roomy = {onbox, small, large}
SPECIFICATION RecoverySpec
PROPERTIES
  ErrorOnlyWhenExhausted
  AbortIsFinal
  FailoverEscapes
  TripsOnEvidence
  EveryTurnEnds
