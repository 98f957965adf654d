SPECIFICATION Spec
CONSTANTS
  a = a
  b = b
  c = c
  Runners = 2
  Points = {a, b, c}
  Specs <- MCSpecs
  Unplanned = {c}
  MaxRuns = 3
  MaxErrors = 2
  MaxKills = 1
PROPERTIES
  InterruptionPreserves
CHECK_DEADLOCK FALSE
