SPECIFICATION MCSpec
CONSTANTS
  Texts <- MCTexts
  Keys <- MCKeys
  Chunk = 5
  Unreturned <- MCUnreturned
INVARIANTS
  RicoAnswerRight Prog4WrongOnlyIfSplit WaitOnlyAfterOverread
PROPERTY
  RicoAnswers
CHECK_DEADLOCK FALSE
