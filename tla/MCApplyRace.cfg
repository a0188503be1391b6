SPECIFICATION Spec
CONSTANTS
  None = None
  Nobody = Nobody
  Fingerprint <- MCFingerprint
  Procs = {p1, p2}
  Operators = {}
  Targets = {t1}
  MaxAttempts = 2
  MaxGrowth = 1
  MaxDrift = 0
SYMMETRY Symmetry
INVARIANTS
  OneMutator
  MemoryTrailsDisk
  WriteAhead
  NoBlindReplay
