\* One client, every way through the parser and the providers, in pairs of requests cut anywhere.
SPECIFICATION FairSpec
CONSTANTS
  c1 = c1
  c2 = c2
  NoConn = NoConn
  NoNode = NoNode
  NoRequest = NoRequest
  Conns <- OneClient
  Storage <- OneClient
  Nodes <- MCNodes
  Root = "root"
  Kind <- MCKind
  Media <- MCMedia
  Size <- MCSize
  Entries <- MCEntries
  Absent = Absent
  Digits <- MCDigits
  IdRange = 4
  InitStore <- MCInitStore
  MayKeep = TRUE
  ExtendedNode = FALSE
  PostAsPutGet = TRUE
  ClearOnKeep = TRUE
  Cuts = "any"
  Requests <- Rough
  MaxRequests = 2
INVARIANTS
  AnsweredIsClean
  OnlyUploadsSuspend
  ConnectionFieldIsTrue
PROPERTIES
  OnlyTargetChanges
  Answered
