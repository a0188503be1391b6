SPECIFICATION Spec
CONSTANTS
  None = None
  Ids = {mount, config}
  Mount = mount
  Config = config
  Ours = ours
  Rival = rival
  Notes = {n1, n2}
  MaxEdits = 2
SYMMETRY Symmetry
CHECK_DEADLOCK FALSE
INVARIANTS
  WriteAhead
  FstabWhole
  CompletedDurable
  AmbiguityRecorded
  EditsSurvive
