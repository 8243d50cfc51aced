SPECIFICATION Spec
CONSTANTS
  BITS = 3
  FRAME_MOD = 3
  COUNT_MOD = 2
  Targets <- MCTargetsDeep
INVARIANTS
  CountsInjections
CHECK_DEADLOCK FALSE
