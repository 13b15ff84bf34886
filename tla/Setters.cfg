SPECIFICATION SetterSpec
CONSTANTS
  NULL = NULL
  Component = {"home", "log"}
  Principal = {"alice"}
  Holder = {h1, h2}
  NewFrame <- MCOneFrame
  PlainText <- MCOddTexts
  NewRequest <- MCRequests
  MaxFrames = 2
  MaxTexts = 1
  MaxAttested = 3
CONSTRAINTS Bounded OneOdd
INVARIANTS
  VerifiedWasAttested
  ReadersGoOn
SYMMETRY HolderSymmetry
CHECK_DEADLOCK FALSE
