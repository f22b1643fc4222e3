----------------------- MODULE HttpServiceProperties -----------------------
(***************************************************************************)
(* What HttpService is meant to guarantee.  The properties compare the     *)
(* server's state with the requests the clients sent, read by definitions  *)
(* of their own and not by the parser's.                                   *)
(***************************************************************************)
EXTENDS HttpService

-----------------------------------------------------------------------------
\* What the promises below ask of the clients and of the resource map.

\* The parser reads the head to its end as the client wrote it: no Content-Length
\* line ends with a lone LF, and Connection says one of the two words it knows.
RegularHead(r) ==
  \A i \in DOMAIN r.headers :
    /\ r.headers[i].name = "Content-Length" => ~r.headers[i].lf
    /\ r.headers[i].name = "Connection" => r.headers[i].val \in {"keep-alive", "close"}

RegularRequests == \A r \in Requests : RegularHead(r)

\* No entry has the name of a number, so that a number in a path counts items.
NumbersAreNoNames ==
  \A n \in Nodes : \A i \in DOMAIN Entries[n] :
    Entries[n][i].by = "name" => Entries[n][i].name \notin DOMAIN Digits

\* What a request asks for, read off the request and not off the parser.
FieldsNamed(r, name) == {i \in DOMAIN r.headers : r.headers[i].name = name}
LastField(r, name)    == r.headers[CHOOSE i \in FieldsNamed(r, name) : \A j \in FieldsNamed(r, name) : j <= i]
Declares(r, name) == FieldsNamed(r, name) # {}

DeclaredType(r) == IF Declares(r, "Content-Type") THEN LastField(r, "Content-Type").val ELSE "unknown"

DeclaredKeep(r) == Declares(r, "Connection") /\ LastField(r, "Connection").val = "keep-alive"

\* The payload the server should store: Content-Length characters or, without the
\* field, one line.
FirstLine(text) ==
  SubSeq(text, 1, (CHOOSE i \in 0..Len(text) :
                     /\ \A j \in 1..i : text[j] # "eol"
                     /\ i = Len(text) \/ text[i + 1] = "eol"))

Payload(r) ==
  IF Declares(r, "Content-Length") THEN SubSeq(r.body, 1, LastField(r, "Content-Length").len)
  ELSE FirstLine(r.body)

\* The item a path names is the one its last number counts, modulo the range of
\* identity_t; without a number it is the first.
DeclaredIdentity(r) ==
  LET numbers == {i \in DOMAIN r.target : r.target[i] \in DOMAIN Digits}
      last    == CHOOSE i \in numbers : \A j \in numbers : j <= i
  IN  IF numbers = {} THEN 0 ELSE Decimal(Digits[r.target[last]]) % IdRange

\* The reader of the target finds the end of the body in the body: as many characters as
\* announced, the end of a line, or a character that ends a number or a document.  With
\* put-and-get a POST is answered although its number has no end.
Complete(r) ==
  LET n      == Lookup(r.target)
      sized  == Declares(r, "Content-Length")
      all    == sized => LastField(r, "Content-Length").len <= Len(r.body)
      begins == {i \in DOMAIN r.body : r.body[i] # "eol"}
  IN  r.method \in {"PUT", "POST"} /\ n # NoNode =>
        CASE Kind[n] = "octets"             -> all
          [] Kind[n] \in {"text", "action"} -> all /\ (sized \/ \E i \in DOMAIN r.body : r.body[i] = "eol")
          [] Kind[n] = "json"               -> \E i \in DOMAIN r.body : r.body[i] \in {"x", "end"}
          [] Kind[n] \in {"num", "func", "array", "items"} ->
               \/ \E i \in begins : \E j \in i..Len(r.body) : r.body[j] \notin DOMAIN DigitOf
               \/ r.method = "POST" /\ PostAsPutGet /\ \E i \in begins : r.body[i] \in DOMAIN DigitOf
          [] OTHER                          -> TRUE

CompleteUploads == \A r \in Requests : Complete(r)

\* A number may be ended by the bracket of a document.
Unbracketed(text) == IF text # <<>> /\ text[Len(text)] = "end" THEN SubSeq(text, 1, Len(text) - 1) ELSE text

\* What GET would send after a body was stored as its client meant it.
Submitted(n, r) ==
  CASE Kind[n] = "json" ->
         LET members == Members(Unbracketed(Payload(r)))
         IN  [i \in DOMAIN members |-> DigitOf[members[i]]]
    [] Kind[n] \in {"num", "func", "array", "items"} ->
         LET line == Unbracketed(Payload(r))
         IN  IF Range(line) \subseteq DOMAIN DigitOf THEN <<Number(line)>> ELSE <<>>
    [] OTHER -> Payload(r)

\* A number as the reader of the target takes it: on the first line, which is the payload,
\* with no empty line before it and a bracket at the end of the line only.
PlainNumber(r) ==
  LET line == FirstLine(r.body)
  IN  /\ r.body # <<>> => r.body[1] # "eol"
      /\ Payload(r) = line
      /\ \A i \in DOMAIN line : line[i] = "end" => i = Len(line)

\* A document that is the payload up to its bracket, with no more members than the node has.
PlainDocument(n, r) ==
  \A k \in DOMAIN r.body : r.body[k] = "end" /\ (\A i \in 1..(k - 1) : r.body[i] # "end") =>
    /\ Payload(r) = SubSeq(r.body, 1, k)
    /\ Len(Members(SubSeq(r.body, 1, k - 1))) <= Size[n]

PlainUploads ==
  \A r \in Requests : LET n == Lookup(r.target) IN
    r.method \in {"PUT", "POST"} /\ n # NoNode =>
      /\ Kind[n] \in {"num", "func", "array", "items"} => PlainNumber(r)
      /\ Kind[n] = "json" => PlainDocument(n, r)

\* A node that stores what is put to it; a pointer to no variable does not.
Accepting(n) ==
  /\ Kind[n] \in {"text", "octets", "num", "func", "array", "items", "json"}
  /\ Kind[n] = "num" => store[n] # Absent

\* The head of the message being processed or saved is the head its client sent:
\* a resumed body goes to the resource, and with the framing, its own request named.
\* (httpmessage::save and restore, application::service)
HeadIs(m, r) ==
  /\ m.requ.method = r.method
  /\ m.target = Lookup(r.target)
  /\ m.target # NoNode => m.requ.identity = DeclaredIdentity(r)
  /\ m.requ.version = r.version
  /\ Has(m.requ, "content_length") <=> Declares(r, "Content-Length")
  /\ Declares(r, "Content-Length") => m.requ.clen = LastField(r, "Content-Length").len
  /\ m.requ.ctype = DeclaredType(r)
  /\ m.requ.keep <=> DeclaredKeep(r)

ServesOwnRequest ==
  phase = "body" => sent[serving] # NoRequest /\ HeadIs(msg, sent[serving])

\* A saved message belongs to a request its client is still waiting for, and is
\* the state of that request after its head (state_pdo, micurest.hpp:595).
SavedMatchesRequest ==
  \A c \in Conns : pdo[c].state # Empty =>
    /\ pdo[c].state = Body
    /\ sent[c] # NoRequest /\ replies[c] = NoReply
    /\ HeadIs(pdo[c], sent[c])

\* An answered connection has no saved message left that would swallow its next
\* request (pdo->clear() in application::service, pdo.clear() in session::receive).
AnsweredIsClean == \A c \in Conns : replies[c] # NoReply => pdo[c] = NoState

\* Only PUT and POST are ever suspended: a request without a body is answered by
\* the packet that completes its head (comment at micurest.hpp:595).
OnlyUploadsSuspend ==
  \A c \in Conns : pdo[c].state # Empty => pdo[c].requ.method \in {"PUT", "POST"}

\* A PUT that is answered with success has stored what its body said, whole, in
\* one packet or in two: GET would present exactly the submitted value.
PutReadsBack ==
  (phase = "return" /\ msg.result \in {"keep", "close"} /\ sent[serving].method = "PUT") =>
    LET r == sent[serving]
        n == Lookup(r.target)
    IN  Accepting(n) => \A body \in Contents(n, [identity |-> DeclaredIdentity(r)], store[n]) :
          IF Kind[n] = "json" THEN IsPrefix(Submitted(n, r), body) ELSE body = Submitted(n, r)

\* A value behind functions is only ever one that some request submitted to it:
\* numeric::put and NodeIndexedVector's put set it after the number was read to its end.
Sends(n, id, value) ==
  \E r \in Requests : Lookup(r.target) = n /\ DeclaredIdentity(r) = id /\ Submitted(n, r) = <<value>>

FunctionSeesWholeValues ==
  \A n \in Nodes :
    /\ Kind[n] = "func" => store[n] = InitStore[n] \/ \E id \in Identity : Sends(n, id, store[n])
    /\ Kind[n] = "items" => \A i \in DOMAIN store[n] :
                             store[n][i] = InitStore[n][i] \/ Sends(n, i, store[n][i])

\* For one request an action is called at most once: a message whose text is still on its
\* way is to be saved before its payload is processed (message::state_pdo, NodeAction).
ActionsRunOnce ==
  \A n \in Nodes : Kind[n] = "action" => Len(store[n]) - Len(InitStore[n]) <= count

\* The Connection field a client reads and what the session layer does with the
\* connection agree, although both are decided at different times (httpmessage::keep).
ConnectionFieldIsTrue ==
  \A c \in Conns : replies[c] # NoReply => (replies[c].keep <=> open[c])

\* With storage for its connection a request cut between head and body is never
\* turned away as a fragment that cannot be continued.
StorageSuffices ==
  \A c \in Storage : replies[c].status # Service_Unavailable

\* Data changes only on behalf of the request being served: a PUT or POST to that
\* node, in the node's own media type, and of a vector only the item the path named.
OnlyTargetChanges ==
  [][\A n \in Nodes : store'[n] # store[n] =>
       /\ serving # NoConn /\ sent[serving] # NoRequest
       /\ n = Lookup(sent[serving].target)
       /\ sent[serving].method \in {"PUT", "POST"}
       /\ DeclaredType(sent[serving]) = Media[n]
       /\ IsVector(n) => \A i \in DOMAIN store[n] :
            store'[n][i] # store[n][i] => i = DeclaredIdentity(sent[serving])]_vars

\* Every request is answered, however it was cut in packets (or its client leaves),
\* unless the server is to read the end of a line before it: what an earlier message left
\* on the connection makes an empty message of the packet, and the request is dropped with
\* it (httpmessage::read_method, application::service).
Heard(c) == sent[c] # NoRequest /\ wire[c] # <<>> /\ ~LineEnd(wire[c][1])

Answered == \A c \in Conns : Heard(c) ~> sent[c] = NoRequest

=============================================================================
