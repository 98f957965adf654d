SPECIFICATION Spec
CONSTANTS
  a = a
  b = b
  c = c
  Invocations = {a, b, c}
  LastIndex = 2
INVARIANTS
  AcknowledgedIsDurable
  OneWriter
PROPERTIES
  Implements
CHECK_DEADLOCK FALSE
