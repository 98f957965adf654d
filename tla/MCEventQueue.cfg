SPECIFICATION Spec
CONSTANTS
  Items = {a, b}
  Width = 3
  Horizon = 3
  MaxTime = 10
  MaxQueued = 3
INVARIANTS
  HeapOrdered
PROPERTIES
  Implements
