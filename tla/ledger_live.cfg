SPECIFICATION FairSpec
CONSTANTS
  big = big
  small = small
  first = first
  Spools = {big}
  NoSpool = NoSpool
  Prints = {first}
  Nameless = {}
  NoPrint = NoPrint
  DeviceTask = DeviceTask
  NoTask = NoTask
  Feeds = {"mqtt", "rest"}
  InitialWeight <- SmallSpool
  TaskWeight <- OneTask
  Guesses = {60}
  Counts = {20}
  DeletableSpools = {}
  Percents = {0, 100}
  MaxRuns = 1
  MaxJobs = 2
INVARIANTS
  CompletedJobCharged
  PollsGoOn
PROPERTIES
  EndedPrintIsClosed
  ShortJobIsToppedUp
CHECK_DEADLOCK FALSE
