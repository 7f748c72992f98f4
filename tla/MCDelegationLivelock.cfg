CONSTANTS
  econ = econ
  onbox = onbox
  small = small
  large = large
  Unknown = Unknown
  Model = {econ, onbox, small, large}
  FailureThreshold = 2
  ResetTimeout = 1
  HalfOpenSuccesses = 1
  Session = {s1}
  MaxTurns = 1
  TierOf <- MCTierOf
  ProviderOf <- MCProviderOf
  Rank <- MCRank
  Window <- MCWindow
  Cost <- MCCost
  Cursor = {econ, large}
  CursorAuto = {econ}
  Healthy = {econ, onbox, small, large}
  Registered = {econ, onbox, small, large}
  Recovering = {large}
  Fits = {econ, onbox, small, large}
  Roomy = {onbox, small, large}
SPECIFICATION FairSpec
PROPERTY
  EveryTurnEnds
