SPECIFICATION Spec
CONSTANTS
    MaxEntries = 2
    MaxSets = 2
    Reach = 1
INVARIANTS TypeOK OwnLineReadBack PositionAgrees NothingDropped
\* after an exception of a constructor there is no object to go on with
CHECK_DEADLOCK FALSE
