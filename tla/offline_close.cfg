SPECIFICATION LuckySpec
CONSTANTS
  big = big
  small = small
  first = first
  Spools = {big}
  NoSpool = NoSpool
  Prints = {first}
  Nameless = {}
  NoPrint = NoPrint
  DeviceTask = DeviceTask
  NoTask = NoTask
  Feeds = {"mqtt", "offline"}
  InitialWeight <- LargeSpool
  TaskWeight <- OneTask
  Guesses = {60}
  Counts = {}
  DeletableSpools = {}
  Percents = {0, 100}
  MaxRuns = 1
  MaxJobs = 3
PROPERTIES
  EndedPrintLeavesNoJob
CHECK_DEADLOCK FALSE
