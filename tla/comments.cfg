SPECIFICATION InputSpec
CONSTANTS
  IntBits = 16
  Bytes <- SomeBytes
  Texts <- SomeTexts
  Controls <- SomeControls
  MaxLen = 5
  BlockSize = 3
INVARIANT SomeCommentHolds
CHECK_DEADLOCK FALSE
