SPECIFICATION Spec
CONSTANTS
  Bytes <- MCBytes
  UriRelaxed = TRUE
  Intended = FALSE
  MaxCalls = 2
  MaxChunks = 1
INVARIANTS SameLanguage PositionsOfThisCall CallbackOrder
CHECK_DEADLOCK FALSE
