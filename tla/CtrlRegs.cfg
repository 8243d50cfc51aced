SPECIFICATION QuietSpec
CONSTANTS
  NREGS = 2
  Addrs = {0, 1, 5, 130}
  Payload = {0, 1, 87}
  StatusVals = {3}
  NoiseBytes = {}
  MaxCmds = 3
  MaxNoise = 0
INVARIANTS
  Settled
  ReadYourWrites
PROPERTIES
  ImplementsRegLink
  ReadReturns
CHECK_DEADLOCK TRUE
