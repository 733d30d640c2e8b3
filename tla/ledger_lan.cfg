SPECIFICATION CoreSpec
CONSTANTS
  big = big
  small = small
  first = first
  Spools = {big}
  NoSpool = NoSpool
  Prints = {first}
  Nameless = {first}
  NoPrint = NoPrint
  DeviceTask = DeviceTask
  NoTask = NoTask
  Feeds = {"lan", "stale"}
  InitialWeight <- LargeSpool
  TaskWeight <- OneTask
  Guesses = {60}
  Counts = {}
  DeletableSpools = {big}
  Percents = {0, 50, 100}
  MaxRuns = 2
  MaxJobs = 2
INVARIANTS
  FailedReturnsUnprinted
  RefundIsShown
  OneOpenJobPerTask
PROPERTIES
  StopKeepsPrintedGrams
  ClosedJobStaysClosed
CHECK_DEADLOCK FALSE
