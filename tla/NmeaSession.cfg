SPECIFICATION SessionSpec
CONSTANTS
  a = a
  b = b
  Printable = {a, b}
  MAX_LENGTH = 2
  CallbackOutcome = {"true", "callback_error"}
  Valid <- ValidSentences
  Strict = FALSE
  MaxLine = 5
INVARIANTS BufferIsLine NoDescriptorLeak
PROPERTIES SentenceIsLine KeepsAccepting
CHECK_DEADLOCK FALSE
