\* The head of a request for an action, with its text in the next packet.
SPECIFICATION Spec
CONSTANTS
  c1 = c1
  c2 = c2
  NoConn = NoConn
  NoNode = NoNode
  NoRequest = NoRequest
  Conns <- OneClient
  Storage <- OneClient
  Nodes <- MCNodes
  Root = "root"
  Kind <- MCKind
  Media <- MCMedia
  Size <- MCSize
  Entries <- MCEntries
  Absent = Absent
  Digits <- MCDigits
  IdRange = 4
  InitStore <- MCInitStore
  MayKeep = TRUE
  ExtendedNode = FALSE
  PostAsPutGet = TRUE
  ClearOnKeep = TRUE
  Cuts = "body"
  Requests <- Calls
  MaxRequests = 1
INVARIANTS
  ActionsRunOnce
