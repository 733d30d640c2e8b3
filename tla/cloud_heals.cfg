SPECIFICATION Spec
CONSTANTS
  People = {h1}
  Ticker = Ticker
  Monitor = Monitor
  Synchronizer = Synchronizer
  Emails = {e1}
  TokenLimit = 2
  RowLimit = 1
  Devices = {d1}
  Requests = 1
  None = None
PROPERTIES
  HealsAfterExpiry
  PassesEnd
INVARIANTS
  StepsGoOn
CHECK_DEADLOCK FALSE
