SPECIFICATION SetterSpec
CONSTANTS
  NULL = NULL
  Component = {"home", "log"}
  Principal = {"alice"}
  Holder = {h1}
  NewFrame <- MCOneFrame
  PlainText <- MCEmptyTexts
  NewRequest <- MCRequests
  MaxFrames = 3
  MaxTexts = 2
  MaxAttested = 3
CONSTRAINT Bounded
PROPERTIES
  ReadsWhatWasPrinted
CHECK_DEADLOCK FALSE
