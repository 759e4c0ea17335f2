SPECIFICATION Spec
CONSTANTS
  WIDTH = 4
  RADIX = 4
  Code <- MCCode
  Digits <- MCDigits
  DigitValue <- MCDigitValue
  Tags <- MCTags
  AisTags <- MCAisTags
  FieldCount <- MCFieldCount
  Talkers <- MCTalkers
  TALKER_LENGTH = 1
  TAG_LENGTH = 1
  Texts <- MCTexts
  Blocks <- MCBlocks
INVARIANTS UndamagedReadBack DamageDetected AcceptedAgrees
CHECK_DEADLOCK FALSE
