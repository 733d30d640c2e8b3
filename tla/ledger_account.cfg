SPECIFICATION Spec
CONSTANTS
  big = big
  small = small
  first = first
  Spools = {big, small}
  NoSpool = NoSpool
  Prints = {first}
  Nameless = {}
  NoPrint = NoPrint
  DeviceTask = DeviceTask
  NoTask = NoTask
  Feeds = {"lan", "mqtt", "rest", "offline"}
  InitialWeight <- TwoSpools
  TaskWeight <- OneTask
  Guesses = {40, 80}
  Counts = {60}
  DeletableSpools = {big, small}
  Percents = {0, 100}
  MaxRuns = 1
  MaxJobs = 1
INVARIANTS
  TypeOK
  DraftHoldsNothing
  HoldWithinEstimate
PROPERTIES
  LedgerImplementsAccount
CHECK_DEADLOCK FALSE
