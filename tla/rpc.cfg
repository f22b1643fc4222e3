\* Two procedures, a name of no procedure, requests of up to five members.
SPECIFICATION Spec
CONSTANTS
  Procedures = {"add", "log"}
  Unregistered = {"sub"}
  Ids = {"17", "18"}
  UserErrors = {"server_error"}
  None = "none"
  Overflow = "error"
  MaxMembers = 5
INVARIANTS
  TypeOK
  RunsWhatWasNamed
  SuccessMeansDone
  EchoesTheId
CHECK_DEADLOCK FALSE
