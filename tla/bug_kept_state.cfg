\* The Spark session layer does not clear a resumed state after a kept reply.
SPECIFICATION Spec
CONSTANTS
  c1 = c1
  c2 = c2
  NoConn = NoConn
  NoNode = NoNode
  NoRequest = NoRequest
  Conns <- OneClient
  Storage <- OneClient
  Nodes <- MCNodes
  Root = "root"
  Kind <- MCKind
  Media <- MCMedia
  Size <- MCSize
  Entries <- MCEntries
  Absent = Absent
  Digits <- MCDigits
  IdRange = 4
  InitStore <- MCInitStore
  MayKeep = TRUE
  ExtendedNode = FALSE
  PostAsPutGet = TRUE
  ClearOnKeep = FALSE
  Cuts = "body"
  Requests <- TwoPuts
  MaxRequests = 2
INVARIANTS
  AnsweredIsClean
