---------------------------- MODULE HttpUpdates ----------------------------
(***************************************************************************)
(* HttpService as an implementation of AtomicStore.  The values are those  *)
(* that the application keeps behind functions: numeric::put and           *)
(* NodeIndexedVector's put call the setter after the whole number has been *)
(* read, get calls the getter once.                                        *)
(***************************************************************************)
EXTENDS HttpServiceProperties

CONSTANTS NoAnswer, Refusal

\* A place is a node with the number of an item; a value that is no vector is item 0.
Places ==
  UNION {{<<n, i>> : i \in IF Kind[n] = "func" THEN {0} ELSE 0..(Size[n] - 1)}
           : n \in {n \in Nodes : Kind[n] \in {"func", "items"}}}

Behind(values) ==
  [p \in Places |-> IF Kind[p[1]] = "func" THEN values[p[1]] ELSE values[p[1]][p[2]]]

AimsAtFunctions(r) == Lookup(r.target) # NoNode /\ Kind[Lookup(r.target)] \in {"func", "items"}

FunctionUploads == {r \in Requests : AimsAtFunctions(r) /\ r.method \in {"PUT", "POST"}}

\* With put-and-get a POST is answered as a GET would be.
FunctionReads ==
  {r \in Requests : AimsAtFunctions(r) /\ r.method \in {"GET"} \cup (IF PostAsPutGet THEN {"POST"} ELSE {})}

AimOf(r) ==
  LET n == Lookup(r.target) IN <<n, IF Kind[n] = "func" THEN 0 ELSE DeclaredIdentity(r)>>

\* A number in the media type of the node; no other upload may set anything.
WantedBy(r) ==
  LET n == Lookup(r.target) IN {v \in Range(Submitted(n, r)) : DeclaredType(r) = Media[n]}

-----------------------------------------------------------------------------
\* An upload has taken effect as soon as its target was processed without an error.
Applied(c) ==
  /\ c = serving /\ sent[c] \in FunctionUploads
  /\ \/ phase = "finish" /\ ~Failed(msg.resp)
     \/ phase = "return" /\ msg.result \in {"keep", "close"}

Told(c) ==
  IF replies[c] = NoReply THEN NoAnswer ELSE IF IsGood(replies[c]) THEN replies[c].body ELSE Refusal

Values  == Behind(store)
Effects == [c \in Conns |-> Applied(c)]
Answers == [c \in Conns |-> Told(c)]

Atomic == INSTANCE AtomicStore WITH
  Clients <- Conns,
  Uploads <- FunctionUploads,
  Reads   <- FunctionReads,
  Aim     <- [r \in FunctionUploads \cup FunctionReads |-> AimOf(r)],
  Wanted  <- [r \in FunctionUploads |-> WantedBy(r)],
  Initial <- Behind(InitStore),
  value   <- Values,
  asked   <- sent,
  taken   <- Effects,
  answer  <- Answers

\* Whatever the packets and whoever else is served in between, a request for a value
\* behind functions takes effect at once, once, and as its client is told: the number is
\* set when it is complete, with the item and the method saved from the first packet, and
\* nothing is set for a request that is refused.
\* (numeric::put, NodeIndexedVector, application::service, state_pdo)
RequestsAreAtomic == Atomic!Spec
=============================================================================
