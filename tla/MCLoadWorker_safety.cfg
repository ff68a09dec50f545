CONSTANTS
  Threads = {t1, t2}
  EndRows <- MCEndRows
  Width <- MCWidth
  KeyframesOf <- MCKeyframesOf
  RowSize <- MCRowSize
  UnitSpace <- MCUnitSpace
SPECIFICATION Spec
\* The system stops once both threads have popped their sentinels.
CHECK_DEADLOCK FALSE
INVARIANT TypeOK
INVARIANT RequestedRowsDelivered
PROPERTY LoadTerminates
