SPECIFICATION Spec
CONSTANTS
  None = None
  Ids = {j1, j2}
  Records = {prepared, writing}
  MaxCalls = 4
SYMMETRY Symmetry
INVARIANTS
  AcknowledgedLoads
PROPERTIES
  ImplementsRecordStore
CHECK_DEADLOCK FALSE
