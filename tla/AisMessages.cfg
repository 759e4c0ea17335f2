SPECIFICATION Spec
CONSTANTS
  Types <- AllTypes
  TextLengths = {0, 1, 2, 3, 4, 14, 156, 161}
  PayloadLengths = {0, 13, 112, 296, 736}
  Sources <- Names
  Messages <- AllMessages
  ShorterSizes <- Sizes
INVARIANTS TypeOK FieldsReadBack TailReadBack ShortenedNotMixed NeverReadsBehind
CHECK_DEADLOCK FALSE
