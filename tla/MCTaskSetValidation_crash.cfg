CONSTANTS
  ExistingTables <- MCExisting
  OpRegistry <- MCOpRegistry
  KernelRegistry <- MCKernels
  NDEBUG = FALSE
  RequestSpace <- MCRequestsAll
SPECIFICATION Spec
INVARIANT NewJobNeverCrashes
