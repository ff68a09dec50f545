CONSTANTS
  MaxNodes = 2
  MaxJobs = 1
  MinNodesAtJob = 2
  LateRegistration = FALSE
  TaskUnits <- MCTaskUnitsEmpty
  SamplerMayFail = {}
  MayFail <- MCMayFail
SPECIFICATION Spec
PROPERTY DispatchRefined
