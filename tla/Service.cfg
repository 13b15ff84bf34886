SPECIFICATION Spec
CONSTANTS
  NULL = NULL
  Component = {"home"}
  Principal = {"alice"}
  User = {u}
  Server = srv
  NewFrame = {}
  PlainText <- MCTokenTexts
  MaxFrames = 2
  MaxTexts = 2
  MaxMessages = 3
  MaxIdTexts = 2
  Operation <- MCOperations
  MaxAttested = 3
  MaxComposed = 3
  MaxCirculating = 3
CONSTRAINT Bounded
INVARIANTS
  HonestRejectedForCause
PROPERTIES
  ImplementsAccess
CHECK_DEADLOCK FALSE
