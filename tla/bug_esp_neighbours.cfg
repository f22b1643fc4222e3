\* Two clients of one network use the same port.
SPECIFICATION Spec
CONSTANTS
  MaxSockNum = 2
  CountRange = 4
  MaxConn = 1
  Remotes <- Neighbours
  PortsComeAgain = FALSE
  MaxLost = 1
  MaxFaults = 2
INVARIANTS
  StateOfOneConnection
