\* Two clients with storage, messages cut between head and body.
SPECIFICATION Spec
CONSTANTS
  c1 = c1
  c2 = c2
  NoConn = NoConn
  NoNode = NoNode
  NoRequest = NoRequest
  Conns <- Clients
  Storage <- Clients
  Nodes <- MCNodes
  Root = "root"
  Kind <- MCKind
  Media <- MCMedia
  Size <- MCSize
  Entries <- MCEntries
  Absent = Absent
  Digits <- MCDigits
  IdRange = 4
  InitStore <- MCInitStore
  MayKeep = TRUE
  ExtendedNode = FALSE
  PostAsPutGet = TRUE
  ClearOnKeep = TRUE
  Cuts = "body"
  Requests <- Updates
  MaxRequests = 3
  NoAnswer = NoAnswer
  Refusal = Refusal
INVARIANTS
  ServesOwnRequest
  SavedMatchesRequest
  PutReadsBack
  StorageSuffices
  FunctionSeesWholeValues
PROPERTIES
  RequestsAreAtomic
