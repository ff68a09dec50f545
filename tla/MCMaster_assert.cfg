CONSTANTS
  MaxNodes = 2
  MaxJobs = 1
  MinNodesAtJob = 2
  LateRegistration = FALSE
  TaskUnits <- MCTaskUnits
  SamplerMayFail = {}
  MayFail <- MCMayFailAll
SPECIFICATION Spec
INVARIANT AllTasksStartedAtEnd
