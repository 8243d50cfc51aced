SPECIFICATION Spec
CONSTANTS
  FaultSet <- MCFaults
  Shows <- MCShows
  Campaigns <- MCCampaigns
  CHUNKS = 2
  MaxTasks = 2
  MaxPress = 0
  Manual <- MCStretch
  MaxUses = 2
  MaxStops = 0
  MaxDrops = 1
INVARIANTS
  RunsPicked
  CalmVerdictOwn
  CalmRunsAll
CHECK_DEADLOCK FALSE
