SPECIFICATION BusySpec
CONSTANTS
  People = {h1}
  Ticker = Ticker
  Monitor = Monitor
  Synchronizer = Synchronizer
  Emails = {e1}
  TokenLimit = 2
  RowLimit = 1
  Devices = {d1}
  Requests = 2
  None = None
INVARIANTS
  ConnectionIsOneOf
  NoTokenAfterLogout
CHECK_DEADLOCK FALSE
