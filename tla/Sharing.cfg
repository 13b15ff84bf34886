SPECIFICATION Spec
CONSTANTS
  NULL = NULL
  Component = {"home"}
  Principal = {"alice"}
  Address = {a1, a2}
  Holder = {h1, h2}
  PieceText <- MCPieceTexts
  MaxFrames = 2
  MaxPieces = 1
  MaxAttested = 2
CONSTRAINT Bounded
INVARIANTS
  TypeOK
  VerifiedWasAttested
  VerifiesWhileUnedited
PROPERTIES
  NeverRepaired
  ValuesUnlessEdited
SYMMETRY Interchangeable
CHECK_DEADLOCK FALSE
