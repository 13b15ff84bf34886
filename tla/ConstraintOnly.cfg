SPECIFICATION Spec
CONSTANTS
  NULL = NULL
  Component = {"home", "log"}
  Principal = {"alice"}
  Holder = {h1, h2}
  NewFrame = {}
  PlainText <- MCConstraintTexts
  NewRequest <- MCRequests
  MaxFrames = 3
  MaxTexts = 2
  MaxAttested = 3
CONSTRAINT Bounded
INVARIANTS
  ReadersGoOn
CHECK_DEADLOCK FALSE
