\* Two connections under each of the three layers, one slot for suspended messages.
SPECIFICATION FairSpec
CONSTANTS
  MaxSockNum = 2
  CountRange = 4
  MaxConn = 1
  Remotes <- Apart
  PortsComeAgain = FALSE
  MaxLost = 1
  MaxFaults = 2
INVARIANTS
  CallbacksAreLive
  SlotsAreNeeded
PROPERTIES
  Implements
  AnsweredConnectionsEnd
  NoSocketStarves
