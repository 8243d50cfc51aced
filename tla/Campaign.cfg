SPECIFICATION FairSpec
CONSTANTS
  FaultSet <- MCFaults
  Shows <- MCShows
  MaxPress = 1
  MaxFaults = 3
INVARIANTS
  ScheduleByCoverage
  ArmedWhole
  EndsDisarmed
  VerdictOwn
PROPERTIES
  CampaignTerminates
CHECK_DEADLOCK FALSE
