SPECIFICATION FairSpec
CONSTANTS
  TQ = 5
  IDLE_BITS = 3
  INDEX_MOD = 12
  COUNT_MOD = 2
  Settings <- MCSettings
  MaxBits = 4
INVARIANTS
  TracksFrame
  ForcesArmedBits
  CountsOnce
PROPERTIES
  BusFreed
