SPECIFICATION Spec
CONSTANTS
  Half = 8
  CoordLen = 2
  C3Len = 1
  SequenceTag = 3
  IntegerTag = 2
  OctetTag = 4
  Points <- SomePoints
  Digests <- SomeDigests
  Bodies <- SomeBodies
  Curve <- CurvePoints
  Foreign <- ForeignFiles
  MaxConversions = 2
INVARIANTS
  TypeOK
  DeclaredIsLossless
  ConversionsUndo
  OnlyAuthenticPlaintext
  DetectTellsTheFamily
CHECK_DEADLOCK FALSE
