SPECIFICATION LineSpec
CONSTANTS
  Byte = {0, 1, 2, 3, 16, 255}
  MAX_MESSAGE_SIZE = 32
  COLLISION_MODULUS = 3
  CallbackOutcome = {"true"}
  Commands = {0, 1}
  Attributes = {0, 1}
  DataBytes = {1, 255}
  Loss = "characters"
  MaxLosses = 1
  MaxTty = 5
  JoinsLate = TRUE
INVARIANTS DrainedAgrees NothingForgotten
PROPERTIES ReturnsNextIntact IntactEventuallyReturned
