SPECIFICATION Spec
CONSTANTS
  NULL = NULL
  Component = {"home", "log"}
  Principal = {"alice"}
  Holder = {h1, h2}
  NewFrame <- MCFrames
  PlainText <- MCPlainTexts
  NewRequest <- MCRequests
  MaxFrames = 3
  MaxTexts = 2
  MaxAttested = 3
CONSTRAINT Bounded
INVARIANTS
  TypeOK
  CleanTokenVerifies
  VerifiedWasAttested
  ReadersGoOn
  RequestIsLast
PROPERTIES
  ReadsWhatWasPrinted
  AddingKeepsVerdict
SYMMETRY HolderSymmetry
CHECK_DEADLOCK FALSE
