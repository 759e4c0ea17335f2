SPECIFICATION SeatalkSpec
CONSTANTS
  Byte = {0, 1, 3, 255}
  MAX_MESSAGE_SIZE = 32
  COLLISION_MODULUS = 3
  CallbackOutcome = {"true", "callback_error"}
  MaxIndex = 5
  Types <- AllTypes
  Values <- ValuesOf
  Foreign <- ForeignOf
  MaxSets = 2
  MaxRelays = 2
CONSTRAINT WithinBound
INVARIANTS TypeOK CountersAgree EmittedWellFormed MessagesTypeOK ReadBack PositionNear
PROPERTIES CollisionMeansTruncation ImplementsFraming
CHECK_DEADLOCK FALSE
