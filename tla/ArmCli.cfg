SPECIFICATION ArmSpec
CONSTANTS
  NREGS = 5
  Addrs = {0, 1, 2, 3, 4, 128, 129, 130}
  Payload = {0, 1, 2, 3, 4, 5, 6, 7, 9}
  StatusVals = {2, 3}
  NoiseBytes = {87, 82, 0}
  MaxCmds = 1
  MaxNoise = 1
  Commands <- MCCommands
  MaxStarts = 3
INVARIANTS
  InStep
  AnswerNeverWaits
  ArmedWholeByHand
PROPERTIES
  CleanWritesLand
  ClrKeepsEnable
CHECK_DEADLOCK FALSE
