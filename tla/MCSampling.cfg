CONSTANTS
  MaxItems = 3
  MaxItemRows = 2
  MaxFrames = 6
SPECIFICATION Spec
INVARIANT RowTypeOK
INVARIANT RowGrouping
INVARIANT VideoTypeOK
INVARIANT VideoCoverage
INVARIANT VideoRunsOrdered
