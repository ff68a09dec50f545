CONSTANTS
  MaxNodes = 2
  MaxJobs = 1
  MinNodesAtJob = 1
  LateRegistration = TRUE
  TaskUnits <- MCTaskUnits
  SamplerMayFail = {}
  MayFail <- MCMayFail
SPECIFICATION FairSpec
PROPERTY JobTerminates
CHECK_DEADLOCK FALSE
