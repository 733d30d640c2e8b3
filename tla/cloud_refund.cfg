SPECIFICATION CoreSpec
CONSTANTS
  big = big
  small = small
  first = first
  Spools = {big, small}
  NoSpool = NoSpool
  Prints = {first}
  Nameless = {}
  NoPrint = NoPrint
  DeviceTask = DeviceTask
  NoTask = NoTask
  Feeds = {"mqtt"}
  InitialWeight <- TwoSpools
  TaskWeight <- OneTask
  Guesses = {60}
  Counts = {}
  DeletableSpools = {}
  Percents = {0, 50, 100}
  MaxRuns = 1
  MaxJobs = 1
INVARIANTS
  FailedReturnsUnprinted
CHECK_DEADLOCK FALSE
