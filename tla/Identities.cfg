SPECIFICATION Spec
CONSTANTS
  NULL = NULL
  Component = {"home"}
  Principal = {"alice"}
  Party = {p1}
  RequestTag <- MCTags
  MaxMessages = 3
  MaxIdTexts = 2
  MaxComposed = 4
CONSTRAINT Bounded
INVARIANTS
  TypeOK
  VerifiedWasComposed
  IssuedVerifies
CHECK_DEADLOCK FALSE
