CONSTANTS
  local = local
  econ = econ
  front = front
  Unknown = Unknown
  None = None
  Model = {local, econ}
  TierOf <- MCTierOf
  ProviderOf <- MCProviderOf
  Rank <- MCRank
  Cost <- MCCost
  Fleets <- MCAllUp
  Overrides = {local}
  Outages = TRUE
  ProbeMayFail = TRUE
  Signature = {enoent}
  LoopThreshold = 2
  FlipThreshold = 1
  Buffer = 1
  IdleTimeout = 1
  MinStreak = 1
  MinDwell = 0
SPECIFICATION Spec
INVARIANTS
  StoreMirrorsPin
