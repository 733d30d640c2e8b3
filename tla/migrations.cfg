SPECIFICATION Spec
CONSTANTS
  Processes = {old, new}
  Images = {{1, 3}, {1, 2, 3}}
  Wrapped = {1}
INVARIANTS
  RecordedIsApplied
  ServedSchemaIsComplete
PROPERTIES
  MigrationsImplementHistory
  EveryoneServes
CHECK_DEADLOCK FALSE
