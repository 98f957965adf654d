SPECIFICATION Spec
CONSTANTS
  Words = 7
  Shots = 3
  Seed = 0
  RngStates <- MCRngStates
  Drawn <- MCDrawn
  Interrupted <- MCInterrupted
  Retain = TRUE
  MaxQueries = 3
  MaxNesting = 2
  MaxSaved = 1
INVARIANTS
  TypeOK
  ExactPrefix
  Aligned
  CheckpointsRestorable
  MeterBalanced
PROPERTIES
  Implements
