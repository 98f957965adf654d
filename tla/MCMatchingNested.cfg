SPECIFICATION Spec
CONSTANTS
  UserGraphs <- Nested
  Syndromes <- All
  Rounds <- Twice
INVARIANTS
  MinimumWeight
