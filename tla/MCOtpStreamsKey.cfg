SPECIFICATION MCSpec
CONSTANTS
  Texts <- MCTexts
  Keys <- MCKeys
  Chunk = 5
  Unreturned <- MCUnreturned
INVARIANT
  KeyWhole
CHECK_DEADLOCK FALSE
