SPECIFICATION Spec
CONSTANTS
  BITS = 3
  FRAME_MOD = 3
  COUNT_MOD = 2
  Targets <- MCTargets
INVARIANTS
  Aligned
  OneBitFlipped
  CountExactInside
CHECK_DEADLOCK TRUE
