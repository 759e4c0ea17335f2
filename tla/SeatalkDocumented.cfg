SPECIFICATION SeatalkSpec
CONSTANTS
  Byte = {0}
  MAX_MESSAGE_SIZE = 32
  COLLISION_MODULUS = 3
  CallbackOutcome = {"true"}
  MaxIndex = 0
  Types <- Unread
  Values <- ValuesOf
  Foreign <- ForeignOf
  MaxSets = 2
  MaxRelays = 2
CONSTRAINT WithinBound
INVARIANT DocumentedReadBack
CHECK_DEADLOCK FALSE
