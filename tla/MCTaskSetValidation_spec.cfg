CONSTANTS
  ExistingTables <- MCExisting
  OpRegistry <- MCOpRegistry
  KernelRegistry <- MCKernels
  NDEBUG = TRUE
  RequestSpace <- MCRequestsSpec
SPECIFICATION Spec
INVARIANT TypeOK
INVARIANT ValidationMatchesSpec
