SPECIFICATION Spec
CONSTANTS
  Types <- AllTypes
  Wanted <- WantedOf
  Foreign <- ForeignOf
  MaxSets = 2
  MaxRelays = 3
INVARIANTS TypeOK SentArrives RelayedSame StationTold
CHECK_DEADLOCK FALSE
