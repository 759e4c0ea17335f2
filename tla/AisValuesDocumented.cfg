SPECIFICATION Spec
CONSTANTS
  Types <- Weathers
  Wanted <- WantedOf
  Foreign <- ForeignOf
  MaxSets = 1
  MaxRelays = 0
INVARIANTS DocumentedArrives
CHECK_DEADLOCK FALSE
