SPECIFICATION Spec
CONSTANTS
  NumQubits = 1
  RepeatFoldThreshold = 4
  Circuits <- MCMeasuredAgain
  Unrolled <- Flattened
INVARIANTS
  SamplesPossible
CHECK_DEADLOCK FALSE
