SPECIFICATION Spec
CONSTANTS
  NumQubits = 2
  RepeatFoldThreshold = 4
  Circuits <- MCCircuits
  Unrolled <- Flattened
INVARIANTS
  WellFormed
  SamplingExact
  FoldedExact
  FeedbacklessExact
  EffectsExact
  GaugeExact
  DemExact
CHECK_DEADLOCK FALSE
