SPECIFICATION EchoSpec
CONSTANTS
  CLKS_PER_BIT = 10
  SUB = 4
  Lines <- MCLines
  Bytes <- MCBytes
INVARIANTS
  Delivers
  EchoesAll
