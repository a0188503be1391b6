SPECIFICATION Spec
CONSTANTS
  None = None
  Ids = {journal}
  Id = journal
  Old = old
  New = new
  Rival = rival
  Notes = {note}
  Part = part
  Extended = extended
  Sibling = sibling
  MaxMeddles = 2
CHECK_DEADLOCK FALSE
INVARIANTS
  WriteAhead
  SwapAlways
  SiblingSpared
  EditsSurvive
  CompletedTrue
  AmbiguityRecorded
