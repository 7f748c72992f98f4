CONSTANTS
  local = local
  econ = econ
  front = front
  Unknown = Unknown
  None = None
  Model = {econ, front}
  TierOf <- MCTierOf
  ProviderOf <- MCProviderOf
  Rank <- MCRank
  Cost <- MCCost
  Fleets <- MCFleets
  Overrides = {front}
  Outages = FALSE
  ProbeMayFail = TRUE
  Signature = {enoent}
  LoopThreshold = 2
  FlipThreshold = 1
  Buffer = 1
  IdleTimeout = 1
  MinStreak = 2
  MinDwell = 1
SPECIFICATION Spec
PROPERTIES
  DowngradeIsEarned
  StuckLoopEscalates
  GuardedTierHolds
