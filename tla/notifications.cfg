SPECIFICATION Spec
CONSTANTS
  Sites = {s1}
  Streams = {b1, b2}
  Events = 3
  Capacity = 2
  ShowLimit = 2
  None = None
INVARIANTS
  StreamsLoseOnlyOverflow
  HistoryKeepsFresh
PROPERTIES
  TakenIsWritten
