SPECIFICATION FairSpec
CONSTANTS
  None = None
  Nobody = Nobody
  Fingerprint <- MCFingerprint
  Procs = {p1}
  Operators = {o1}
  Targets = {t1}
  MaxAttempts = 1
  MaxGrowth = 1
  MaxDrift = 1
INVARIANTS
  TypeOK
  CompletedMeansVerified
PROPERTIES
  LockReleased
