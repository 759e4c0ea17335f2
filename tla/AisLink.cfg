SPECIFICATION LinkSpec
CONSTANTS
  receiver = receiver
  transponder = transponder
  second = second
  Talkers = {receiver, second, transponder}
  Identifier <- IdentifierOf
  Fragments <- LinkFragments
  MaxFragments <- MaxFragmentsOf
  MaxErrors = 0
  Lossy = TRUE
  Interleaved = TRUE
  JoinsLate = TRUE
CONSTRAINT WithinBound
INVARIANT OrderlyDumpedComplete
PROPERTIES IntactMessageDumped DumpedMissesUnreceivedOnly
CHECK_DEADLOCK FALSE
