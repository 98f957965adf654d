SPECIFICATION FairSpec
CONSTANTS
  Callers = {s, t}
  LastId = 2
  MaxCalls = 2
  MaxFrames = 3
INVARIANTS
  AnswerIsOwn
  NoOrphan
PROPERTIES
  CallsReturn
CHECK_DEADLOCK FALSE
