\* Three handles for a queue of two and one slot.
SPECIFICATION Spec
CONSTANTS
  h1 = h1
  h2 = h2
  h3 = h3
  Handles <- ThreeHandles
  Invalid = Invalid
  MaxConnections = 2
  MaxSessions = 1
  Timeout = 1
  ClockRange = 2
INVARIANTS
  TypeOK
  NoHandleTwice
  NothingLeaks
  SlotsAreOwned
SYMMETRY Symmetry
