SPECIFICATION MachineSpec
CONSTANTS
  None = None
  Fingerprint <- MCFingerprint
  JournalId = j1
  Plans = {p1, p2}
  Identities = {d1, d2}
  OwnPlan = p1
  Baseline = d1
  StepSequences <- MCStepSequences
  MaxHistory = 11
INVARIANTS
  StoreAccepts
  RestartOnlyBeforeMutation
CHECK_DEADLOCK FALSE
