SPECIFICATION Spec
CONSTANTS
  LowWeightGrams = 2
  Full = 2
  Changes = 2
  Lives = 1
INVARIANTS
  AlertsAreEarned
PROPERTIES
  StatusSettles
  ShortageIsAnnounced
