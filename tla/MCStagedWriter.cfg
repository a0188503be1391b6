SPECIFICATION WriterSpec
CONSTANTS
  Nil = Nil
  Length = 3
INVARIANTS
  OkMeansDurable
  NoWriterLeft
PROPERTIES
  CallReturns
CHECK_DEADLOCK FALSE
