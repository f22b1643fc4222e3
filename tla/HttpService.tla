---------------------------- MODULE HttpService ----------------------------
(***************************************************************************)
(* application::service and httpmessage (micurest.cpp, micurest.hpp): one  *)
(* server thread parses the part of an HTTP message that has arrived on a  *)
(* connection, routes it to a resource node, and replies; when the message *)
(* ends before its body does, the message state is saved and the next      *)
(* packet of that connection is taken for the body.                        *)
(*                                                                         *)
(* A packet is a sequence of tokens.  The head of a message is one token   *)
(* per element (method, target, version, one per header field, blank       *)
(* line); the body is one token per character, because providers read it   *)
(* character by character.                                                 *)
(***************************************************************************)
EXTENDS Resources

CONSTANTS Conns,        \* client connections
          NoConn,       \* no connection is being served
          Storage,      \* the connections that were given a state_pdo
          MayKeep,      \* application(dir, keepalive)
          ExtendedNode, \* config::extended_node: nodes have methods post and del
          PostAsPutGet, \* config::handle_post_as_put_get
          ClearOnKeep,  \* the session layer clears the state_pdo after a kept reply
          Cuts,         \* where the network may cut: "none", "body" (between head
                        \* and body), "any" (also between two body characters)
          Requests,     \* the requests clients send
          NoRequest,
          MaxRequests,  \* bound on the requests of a behaviour
          InitStore     \* initial value of every node

\* What a client can send: any words, any fields, a body of any characters.
HeaderLine == [t : {"header"}, name : STRING, val : STRING, len : Nat, lf : BOOLEAN]

Request == [method : STRING, target : Seq(STRING), form : {"plain", "long", "malformed"},
            version : STRING, headers : Seq(HeaderLine), body : Seq(Char)]

ASSUME ServiceAssumption ==
  /\ NoConn \notin Conns
  /\ NoRequest \notin Requests
  /\ Requests \subseteq Request
  /\ Storage \subseteq Conns
  /\ MayKeep \in BOOLEAN
  /\ ExtendedNode \in BOOLEAN
  /\ PostAsPutGet \in BOOLEAN
  /\ ClearOnKeep \in BOOLEAN
  /\ Cuts \in {"none", "body", "any"}
  /\ MaxRequests \in Nat
  /\ DOMAIN InitStore = Nodes
  /\ \A n \in Nodes : Fits(n, InitStore[n])

VARIABLES store,    \* the application's data behind the nodes
          serving,  \* the connection whose packet is being processed
          phase,    \* where application::service stands
          input,    \* what is left of the packet
          msg,      \* the httpmessage on the stack
          reply,    \* what the message has written to the output stream
          pdo,      \* saved message state of each connection
          open,     \* connections the session layer has not closed
          sent,     \* the request each client waits for
          wire,     \* tokens sent by the client, not yet received
          replies,  \* what each client received since its last packet was taken
          count     \* requests sent so far

server == <<store, serving, phase, input, msg, reply, pdo>>
client == <<open, sent, wire, replies, count>>
vars   == <<server, client>>

Phase == {"idle", "parse", "body", "finish", "bad", "return"}

-----------------------------------------------------------------------------
\* A message as its client puts it on the wire.
MessageHead(r) == <<[t |-> "method", val |-> r.method],
             [t |-> "target", val |-> r.target, form |-> r.form],
             [t |-> "version", val |-> r.version]>>
           \o r.headers \o <<[t |-> "blank"]>>

Tokens(r) == MessageHead(r) \o [i \in DOMAIN r.body |-> [t |-> "char", val |-> r.body[i]]]

\* Lengths of the packets the network may cut from pending tokens.
PacketSizes(tokens) ==
  LET Blanks == {i \in DOMAIN tokens : tokens[i].t = "blank"}
      Inner  == {i \in DOMAIN tokens : \A j \in Blanks : j <= i}
  IN  {Len(tokens)} \cup (CASE Cuts = "none" -> {}
                            [] Cuts = "body" -> Blanks
                            [] Cuts = "any"  -> Inner)

\* A provider sees characters whatever the client meant them to be.
Chars(tokens) ==
  [i \in DOMAIN tokens |-> CASE tokens[i].t = "char" -> tokens[i].val
                             [] tokens[i].t \in {"method", "target"} -> "x"
                             [] OTHER -> "eol"]

NoReply == [status |-> Unknown, version |-> "UNKNOWN", ctype |-> "unknown",
            fields |-> {}, keep |-> FALSE, body |-> <<>>]

NewMessage == [state |-> Method, requ |-> NewRequest, resp |-> NewResponse,
               target |-> NoNode, own |-> FALSE, eof |-> FALSE, good |-> TRUE,
               result |-> "none"]

NoState == [state |-> Empty, requ |-> NewRequest, target |-> NoNode]

Saved_NoTarget(m)      == [state |-> m.state, requ |-> m.requ, target |-> NoNode]
Restored_NoRequest(s)  == [NewMessage EXCEPT !.state = s.state, !.target = s.target]

\* save and restore: the response is not saved, a restored message starts a new one.
Saved(m)    == [state |-> m.state, requ |-> m.requ, target |-> m.target]
Restored(s) == [NewMessage EXCEPT !.state = s.state, !.requ = s.requ, !.target = s.target]

Init ==
  /\ store = InitStore
  /\ serving = NoConn /\ phase = "idle" /\ input = <<>>
  /\ msg = NewMessage /\ reply = NoReply
  /\ pdo = [c \in Conns |-> NoState]
  /\ open = [c \in Conns |-> TRUE]
  /\ sent = [c \in Conns |-> NoRequest]
  /\ wire = [c \in Conns |-> <<>>]
  /\ replies = [c \in Conns |-> NoReply]
  /\ count = 0

-----------------------------------------------------------------------------
\* Clients.  A client that has no open connection makes a new one; it sends its
\* next request when it has been answered.
Send(c, r) ==
  /\ count < MaxRequests
  /\ sent[c] = NoRequest /\ serving # c
  /\ sent' = [sent EXCEPT ![c] = r]
  /\ wire' = [wire EXCEPT ![c] = @ \o Tokens(r)]
  /\ open' = [open EXCEPT ![c] = TRUE]
  /\ replies' = [replies EXCEPT ![c] = NoReply]
  /\ count' = count + 1
  /\ UNCHANGED server

\* The client goes away, or the session layer expires the connection.
Drop(c) ==
  /\ open[c] /\ serving # c
  /\ open' = [open EXCEPT ![c] = FALSE]
  /\ sent' = [sent EXCEPT ![c] = NoRequest]
  /\ wire' = [wire EXCEPT ![c] = <<>>]
  /\ replies' = [replies EXCEPT ![c] = NoReply]
  /\ pdo' = [pdo EXCEPT ![c] = NoState]
  /\ UNCHANGED <<store, serving, phase, input, msg, reply, count>>

\* A packet arrives: the session layer calls application::service, which
\* continues a saved message and from then on works without storage.
Receive(c) ==
  /\ serving = NoConn /\ open[c] /\ wire[c] # <<>>
  /\ \E n \in PacketSizes(wire[c]) :
       /\ input' = SubSeq(wire[c], 1, n)
       /\ wire' = [wire EXCEPT ![c] = SubSeq(@, n + 1, Len(@))]
  /\ serving' = c
  /\ IF pdo[c].state > Empty
     THEN /\ msg' = Restored(pdo[c])
          /\ phase' = "body"
     ELSE /\ msg' = [NewMessage EXCEPT !.own = c \in Storage]
          /\ phase' = "parse"
  /\ reply' = NoReply
  /\ replies' = [replies EXCEPT ![c] = NoReply]
  /\ UNCHANGED <<store, pdo, open, sent, count>>

-----------------------------------------------------------------------------
\* The parser.  Consume is a step that reads one token.
Consume(state, t) ==
  /\ phase = "parse" /\ msg.state = state
  /\ input # <<>> /\ input[1].t = t
  /\ input' = Tail(input)

Goto(p) == phase' = p

KeepRest == UNCHANGED <<store, serving, reply, pdo, client>>

\* A message that cannot be continued: state_t::bad.
Reject(m, st) == [m EXCEPT !.state = Bad, !.resp = SetError(@, st)]

ReadMethod ==
  /\ Consume(Method, "method")
  /\ IF input[1].val \in ReqMethod \ {"UNKNOWN"}
     THEN /\ msg' = [msg EXCEPT !.state = Target, !.requ.method = input[1].val]
          /\ Goto("parse")
     ELSE /\ msg' = Reject(msg, Not_Implemented)
          /\ Goto("bad")
  /\ KeepRest

\* The end of a line in place of a method: an empty message, to which the service
\* returns at once.  It keeps the connection, writes nothing, and with the packet
\* drops all that stands behind the line break.
LineEnd(token) == token.t = "blank" \/ (token.t = "char" /\ token.val = "eol")

NoMessage ==
  /\ phase = "parse" /\ msg.state = Method
  /\ input # <<>> /\ LineEnd(input[1])
  /\ msg' = [msg EXCEPT !.state = Empty, !.result = "empty"]
  /\ input' = Tail(input)
  /\ Goto("return") /\ KeepRest

\* Anything else in place of a method.
NoMethod ==
  /\ phase = "parse" /\ msg.state = Method
  /\ input # <<>> /\ input[1].t # "method" /\ ~LineEnd(input[1])
  /\ msg' = Reject(msg, Not_Implemented)
  /\ input' = Tail(input)
  /\ Goto("bad") /\ KeepRest

ReadTarget ==
  /\ Consume(Target, "target")
  /\ LET path == input[1].val
         node == Lookup(path)
         met  == [msg.requ EXCEPT !.identity = Found(path).identity]
         lost == {i \in DOMAIN path : Lookup(SubSeq(path, 1, i)) = NoNode}
     IN  \/ /\ input[1].form = "malformed"
            /\ msg' = Reject(msg, Bad_Request) /\ Goto("bad")
         \/ /\ input[1].form = "long"
            /\ msg' = [msg EXCEPT !.resp = SetError(@, URI_Too_Long)] /\ Goto("parse")
         \/ /\ input[1].form = "plain" /\ node # NoNode
            /\ msg' = [msg EXCEPT !.state = Version, !.requ = met, !.target = node] /\ Goto("parse")
         \/ /\ input[1].form = "plain" /\ node = NoNode
            /\ msg' = [msg EXCEPT !.state = IF lost = {Len(path)} THEN Version ELSE Target,
                                   !.requ = met, !.resp = SetError(@, Not_Found)]
            /\ Goto("parse")
  /\ KeepRest

\* read_version; in state target it meets the remainder of the path.
ReadVersion ==
  /\ phase = "parse" /\ msg.state \in {Target, Version}
  /\ input # <<>> /\ input[1].t = "version"
  /\ input' = Tail(input)
  /\ IF msg.state = Version /\ input[1].val \in ReqVersion \ {"UNKNOWN"}
     THEN /\ msg' = [msg EXCEPT !.state = Header, !.requ.version = input[1].val]
          /\ Goto("parse")
     ELSE /\ msg' = Reject(msg, Bad_Request)
          /\ Goto("bad")
  /\ KeepRest

ReadHeader ==
  /\ phase = "parse" /\ msg.state = Header
  /\ input # <<>> /\ input[1].t = "header"
  /\ LET damaged == EatsNextLine(input[1]) /\ Len(input) > 1
     IN  /\ msg' = HeaderEffect(msg, input[1])
         /\ input' = IF damaged THEN SubSeq(input, 3, Len(input)) ELSE Tail(input)
  /\ Goto("parse") /\ KeepRest

ReadBlank ==
  /\ Consume(Header, "blank")
  /\ msg' = [msg EXCEPT !.state = Body]
  /\ Goto("body") /\ KeepRest

\* After a lost blank line the body is read as header fields; a lone end of
\* line in it passes for the blank line.
ReadStray ==
  /\ phase = "parse" /\ msg.state = Header
  /\ input # <<>> /\ input[1].t = "char"
  /\ LET line == Taken(Chars(input), Len(input), {"eol"})
     IN  IF line = 0
         THEN /\ msg' = [msg EXCEPT !.state = Body]
              /\ input' = Tail(input) /\ Goto("body")
         ELSE /\ line < Len(input)
              /\ input' = SubSeq(input, line + 2, Len(input))
              /\ UNCHANGED msg /\ Goto("parse")
  /\ KeepRest

\* The packet ends inside the head: never resumed.  Inside a header line the end is
\* taken for a field that cannot be read.
EndOfInput ==
  /\ phase = "parse" /\ msg.state \in {Target, Version, Header}
  /\ \A i \in DOMAIN input : input[i].t = "char" /\ input[i].val # "eol"
  /\ msg' = Reject(msg, IF msg.state = Header /\ input # <<>> THEN Bad_Option ELSE Bad_Request)
  /\ input' = <<>>
  /\ Goto("bad") /\ KeepRest

-----------------------------------------------------------------------------
\* seal: the status line and the header fields a message writes; a reply without
\* content names neither the type nor the length of one.
Envelope(m, body) ==
  LET empty == m.resp.status = No_Content
  IN  [status  |-> m.resp.status,
       version |-> IF m.requ.version = "UNKNOWN" THEN "1.1" ELSE m.requ.version,
       ctype   |-> IF empty THEN "unknown" ELSE m.resp.ctype,
       fields  |-> IF empty THEN {} ELSE m.resp.fields,
       keep    |-> Keep(MayKeep, m.requ, m.resp),
       body    |-> body]

\* Before a target is processed: a directory is offered as html when the client
\* did not say what it accepts, and the node's type becomes the default.
Prepared ==
  LET guess == Kind[msg.target] = "dir" /\ ~Has(msg.requ, "accept")
  IN  [msg EXCEPT !.requ.accept = IF guess THEN @ \cup {"html"} ELSE @,
                  !.resp = FixContentType(@, Media[msg.target])]

\* node::put on the target.
AfterPut(m) == Put(m.target, m.requ, m.resp, store[m.target], Chars(input))

PutDone(m, o) == [m EXCEPT !.resp = o.resp, !.eof = o.eof, !.good = o.good]

\* node::get on the target, values holding the data.  A directory delegates to the
\* first entry of an accepted type.
GetReply(m, values) ==
  LET dir  == Kind[m.target] = "dir"
      node == IF ~dir THEN m.target
              ELSE IF Has(m.requ, "accept") THEN FindAccepted(m.target, m.requ.accept, m.requ.identity)
              ELSE NoNode
      typed == IF dir THEN SetContentType(m.resp, Media[node]) ELSE m.resp
  IN  IF node = NoNode
      THEN msg' = [m EXCEPT !.resp = SetError(@, Not_Found)] /\ reply' = reply
      ELSE IF ~Readable(node, m.requ, values[node])
      THEN msg' = [m EXCEPT !.resp = Unreadable(node, typed)] /\ reply' = reply
      ELSE LET done == [m EXCEPT !.resp = GetResponse(node, typed), !.state = Began]
           IN  msg' = done /\ \E body \in Contents(node, m.requ, values[node]) : reply' = Envelope(done, body)

Ready == phase = "body" /\ msg.target # NoNode /\ ~Failed(msg.resp)

Processed == phase' = "finish" /\ UNCHANGED <<serving, input, pdo, client>>

ProcessPut ==
  /\ Ready /\ msg.requ.method = "PUT"
  /\ LET o == AfterPut(Prepared)
     IN  /\ store' = [store EXCEPT ![msg.target] = o.value]
         /\ msg' = PutDone(Prepared, o)
  /\ UNCHANGED reply
  /\ Processed

\* node_base::process and node_extended::process differ in POST without put-and-get.
Posts == msg.requ.method = "POST" /\ (ExtendedNode \/ PostAsPutGet)

ProcessPost ==
  /\ Ready /\ Posts
  /\ \E o \in {AfterPut(Prepared)} : \E m \in {PutDone(Prepared, o)} :
         /\ store' = [store EXCEPT ![msg.target] = o.value]
         /\ IF PostAsPutGet /\ IsGood(m.resp) THEN GetReply(m, store') ELSE msg' = m /\ reply' = reply
  /\ Processed

ProcessGet ==
  /\ Ready /\ msg.requ.method = "GET"
  /\ GetReply(Prepared, store)
  /\ UNCHANGED store
  /\ Processed

ProcessOther ==
  /\ Ready /\ msg.requ.method \notin {"GET", "PUT"} /\ ~Posts
  /\ msg' = [Prepared EXCEPT !.resp = SetError(@, Method_Not_Allowed)]
  /\ UNCHANGED <<store, reply>>
  /\ Processed

\* The head was read to its end but had an error: the target is not asked.
SkipProcess ==
  /\ phase = "body" /\ msg.target # NoNode /\ Failed(msg.resp)
  /\ UNCHANGED <<store, msg, reply>>
  /\ Processed

NoTarget ==
  /\ phase = "body" /\ msg.target = NoNode
  /\ msg' = [msg EXCEPT !.resp = SetError(@, Not_Found)]
  /\ Goto("bad")
  /\ UNCHANGED <<input, store, serving, reply, pdo, client>>

-----------------------------------------------------------------------------
IsFragment_NoEof == msg.good /\ msg.state = Body

\* The input ended while the body was read: the end of the input is the only sign
\* that tells a fragment from a complete message.
IsFragment == msg.eof /\ msg.good /\ msg.state = Body

Return(m) == msg' = m /\ phase' = "return" /\ UNCHANGED <<store, serving, input, client>>

Pause ==
  /\ phase = "finish" /\ IsFragment /\ msg.own
  /\ pdo' = [pdo EXCEPT ![serving] = Saved(msg)]
  /\ Return([msg EXCEPT !.result = "fragment"])
  /\ UNCHANGED reply

ClearOwn == pdo' = IF msg.own THEN [pdo EXCEPT ![serving] = NoState] ELSE pdo

Fail_Always ==
  /\ phase = "finish"
  /\ LET m == IF IsFragment THEN [msg EXCEPT !.resp = SetError(@, Service_Unavailable)] ELSE msg
     IN  /\ Failed(m.resp)
         /\ reply' = IF m.state >= Began THEN reply ELSE Envelope(m, <<"message">>)
         /\ Return([m EXCEPT !.result = IF m.good THEN "bad" ELSE "error"])
  /\ ClearOwn

\* The reply to an error; a fragment that cannot be saved is one.
Fail ==
  /\ phase = "finish"
  /\ IsFragment => ~msg.own
  /\ LET m == IF IsFragment THEN [msg EXCEPT !.resp = SetError(@, Service_Unavailable)] ELSE msg
     IN  /\ Failed(m.resp)
         /\ reply' = IF m.state >= Began THEN reply ELSE Envelope(m, <<"message">>)
         /\ Return([m EXCEPT !.result = IF m.good THEN "bad" ELSE "error"])
  /\ ClearOwn

Succeed ==
  /\ phase = "finish" /\ ~IsFragment /\ ~Failed(msg.resp)
  /\ reply' = IF msg.state >= Sealed THEN reply ELSE Envelope(msg, <<>>)
  /\ Return([msg EXCEPT !.result = IF Keep(MayKeep, msg.requ, msg.resp) THEN "keep" ELSE "close"])
  /\ ClearOwn

BadMessage ==
  /\ phase = "bad"
  /\ reply' = Envelope([msg EXCEPT !.resp = SetContentType(@, "plain")], <<"message">>)
  /\ Return([msg EXCEPT !.result = "bad"])
  /\ UNCHANGED pdo

-----------------------------------------------------------------------------
\* The session layer, after application::service has returned.
Idle == serving' = NoConn /\ phase' = "idle" /\ input' = <<>> /\ msg' = NewMessage /\ reply' = NoReply

AwaitRest ==
  /\ phase = "return" /\ msg.result = "fragment"
  /\ Idle
  /\ UNCHANGED <<store, pdo, client>>

Deliver(keep) ==
  /\ replies' = [replies EXCEPT ![serving] = reply]
  /\ sent' = [sent EXCEPT ![serving] = NoRequest]
  /\ open' = [open EXCEPT ![serving] = keep]
  /\ wire' = [wire EXCEPT ![serving] = IF keep THEN @ ELSE <<>>]
  /\ Idle
  /\ UNCHANGED <<store, count>>

KeepOpen_NoClear ==
  /\ phase = "return" /\ msg.result = "keep"
  /\ Deliver(TRUE)
  /\ UNCHANGED pdo

KeepOpen ==
  /\ phase = "return" /\ msg.result = "keep"
  /\ pdo' = IF ClearOnKeep THEN [pdo EXCEPT ![serving] = NoState] ELSE pdo
  /\ Deliver(TRUE)

\* The service kept the connection without a reply: its client waits on.
Ignore ==
  /\ phase = "return" /\ msg.result = "empty"
  /\ pdo' = IF ClearOnKeep THEN [pdo EXCEPT ![serving] = NoState] ELSE pdo
  /\ Idle
  /\ UNCHANGED <<store, client>>

Close ==
  /\ phase = "return" /\ msg.result \in {"close", "bad", "error"}
  /\ pdo' = [pdo EXCEPT ![serving] = NoState]
  /\ Deliver(FALSE)

Parse   == ReadMethod \/ NoMessage \/ NoMethod \/ ReadTarget \/ ReadVersion \/ ReadHeader \/ ReadBlank
           \/ ReadStray \/ EndOfInput
Process == ProcessPut \/ ProcessPost \/ ProcessGet \/ ProcessOther \/ SkipProcess \/ NoTarget
Finish  == Pause \/ Fail \/ Succeed \/ BadMessage
Session == AwaitRest \/ KeepOpen \/ Ignore \/ Close

Service == Parse \/ Process \/ Finish \/ Session

\* The clients have sent what the bound allows and the server waits for packets: the
\* only state in which nothing may happen, so that TLC reports any other as a deadlock.
Quiescent == count = MaxRequests /\ serving = NoConn /\ UNCHANGED vars

Next ==
  \/ \E c \in Conns, r \in Requests : Send(c, r)
  \/ \E c \in Conns : Receive(c) \/ Drop(c)
  \/ Service
  \/ Quiescent

Spec == Init /\ [][Next]_vars

\* application::service is a loop without waiting; a packet that has arrived is
\* handed to it by the network stack however busy other connections are.
Fairness == WF_vars(Service) /\ \A c \in Conns : SF_vars(Receive(c))

FairSpec == Spec /\ Fairness
=============================================================================
