CONSTANTS
  MaxNodes = 4
  MaxJobs = 2
  MinNodesAtJob = 2
  LateRegistration = FALSE
  TaskUnits <- MCTaskUnits
  SamplerMayFail <- MCSamplerMayFail
  MayFail <- MCMayFailAll
SPECIFICATION FairSpec
INVARIANT TypeOK
INVARIANT FailureNeverMasked
PROPERTY DispatchRefined
PROPERTY NoWorkAfterSamplerError
PROPERTY JobTerminates
PROPERTY WorkersAnswer
