SPECIFICATION BSpec
CONSTANTS
  FpgaOrder <- MCFpgaOrder
  FpgaName <- MCFpgaName
  Lib <- MCLib
  Mods <- MCMods
  Others <- MCOthers
  Script <- MCScript
  MaxKills <- MCMaxKills
CHECK_DEADLOCK FALSE
INVARIANTS
  CellsApart
  PartsOnBoard
PROPERTIES
  CleanSheetsTouch
  FramesHold
  PadsCarryNets
  LayoutFinished
  LayoutApart
