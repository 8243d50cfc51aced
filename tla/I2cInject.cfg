SPECIFICATION FairSpec
CONSTANTS
  BITS = 2
  ADDR <- MCAddr
  HALF = 4
  INDEX_MOD = 2
  LEN_MOD = 65536
  COUNT_MOD = 3
  Settings <- MCSettings
  MaxBytes = 3
INVARIANTS
  Aligned
  AcksOwn
  StretchesRight
PROPERTIES
  SdaStable
  StretchEnds
