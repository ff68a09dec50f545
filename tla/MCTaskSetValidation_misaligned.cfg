CONSTANTS
  ExistingTables <- MCExisting
  OpRegistry <- MCOpRegistry
  KernelRegistry <- MCKernels
  NDEBUG = TRUE
  RequestSpace <- MCRequestsFour
SPECIFICATION Spec
INVARIANT ValidationMatchesSpec
