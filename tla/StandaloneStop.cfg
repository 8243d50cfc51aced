SPECIFICATION FairSpec
CONSTANTS
  FaultSet <- MCFlip
  Shows <- MCShows
  Campaigns <- MCSame
  CHUNKS = 1
  MaxTasks = 2
  MaxPress = 0
  Manual <- MCFlip
  MaxUses = 2
  MaxStops = 1
  MaxDrops = 0
INVARIANTS
  NeverWedged
PROPERTIES
  TasksEnd
CHECK_DEADLOCK FALSE
