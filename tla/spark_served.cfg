\* Kept connections are served in turn, and expire by a clock that wraps.
SPECIFICATION FairSpec
CONSTANTS
  h1 = h1
  h2 = h2
  h3 = h3
  Handles <- TwoHandles
  Invalid = Invalid
  MaxConnections = 2
  MaxSessions = 1
  Timeout = 1
  ClockRange = 3
PROPERTIES
  QueuedDataIsServed
  ExpiresAfterTimeout
