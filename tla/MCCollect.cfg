SPECIFICATION FairSpec
CONSTANTS
  Tasks = {a, b}
  ShotLimits = {2, 4}
  MaxErrors = 2
  MaxSeconds = 2
  StartBatch = 1
  MaxBatch = 2
  MaxCalls = 2
  MaxFaults = 1
INVARIANTS
  CountedWereSampled
  LimitsRespected
PROPERTIES
  CallsEnd
CHECK_DEADLOCK FALSE
