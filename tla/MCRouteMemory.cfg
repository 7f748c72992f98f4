SPECIFICATION MCSpec
CONSTANTS
  k1 = k1
  k2 = k2
  Key = {k1, k2}
  Keys <- Known
  Tier = {local, cheap, frontier}
  Session = {s1}
  Artifacts <- Files
  MaxEntries = 1
  MinSamples = 3
  Margin = 15
  Band = 25
  SwapCap = 2
  MaxCount = 6
  MaxUses = 3
  None = None
SYMMETRY Symmetric
CHECK_DEADLOCK FALSE
INVARIANTS
  HintsAreEarned
  NoThrash
