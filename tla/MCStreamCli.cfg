SPECIFICATION FairSpec
CONSTANTS
  Words = 7
  Shots = 3
  Seed = 0
  RngStates <- MCRngStates
  Drawn <- MCDrawn
  Interrupted <- MCInterrupted
  StopAfter <- MCStopAfter
  Every <- MCEvery
  Undiagnosable <- MCUndiagnosable
  Unexportable <- MCUnexportable
  MaxRuns <- MCMaxRuns
  MaxFaults = 2
INVARIANTS
  WriteAhead
  TerminalNeverDrawn
  HonestReport
PROPERTIES
  Implements
  Completes
CHECK_DEADLOCK FALSE
