SPECIFICATION Spec
CONSTANTS
  BITS = 2
  WIDTH = 3
  MaxBits = 4
  MaxCapacity = 6
  Calls <- SoundCalls
INVARIANTS TypeOK TailZero
PROPERTY ImplementsString
CHECK_DEADLOCK FALSE
