SPECIFICATION Spec
CONSTANTS
  Pollers = {ticker}
  Prints = 2
  Percents = {0, 50, 100}
INVARIANTS
  LiveStaysLive
  OnlyEndedAreClosed
PROPERTIES
  EndIsReported
