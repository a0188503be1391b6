SPECIFICATION Spec
CONSTANTS
  None = None
  Nobody = Nobody
  Ids = {i1, i2}
  Sessions = {s1, s2}
SYMMETRY Symmetry
INVARIANTS WriteAhead
PROPERTIES
  NoBlindReplay
  ConsentInForce
  NothingOverwritten
