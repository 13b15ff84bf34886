SPECIFICATION Spec
CONSTANTS
  Char <- MCChar
  White = {"t"}
  Printed <- MCPrinted
  SizeBits = 16
INVARIANTS
  TypeOK
  PiecesRebuildContent
  CutAtFirstMark
  ReadsBack
  TagAlone
PROPERTIES
  ComesToPieces
CHECK_DEADLOCK FALSE
