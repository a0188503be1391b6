SPECIFICATION Spec
CONSTANTS
  None = None
  Ids = {j1, j2}
  MaxEvents = 2
INVARIANTS
  CrashConsistent
PROPERTIES
  ReadIsCurrent
  ImplementsDurableStore
