------------------------------ MODULE HttpHead ------------------------------
(***************************************************************************)
(* One message as application::service handles it character by character:  *)
(* the head is read from the stream of the session layer, a node's answer  *)
(* is put to it, and the session layer sends what is left.  HttpService    *)
(* has the same parser with one token per word and one connection's        *)
(* messages after another's; here is what the words are made of.           *)
(*                                                                         *)
(* One action reads one word: the method, one section of the target, the   *)
(* version, one header field, one media type of an Accept field.  What     *)
(* the node does with the message is not modelled here, its answer is one  *)
(* of Answers.                                                             *)
(***************************************************************************)
EXTENDS HttpWords

CONSTANTS MaxSection,   \* max_section_size
          EtagSize,     \* message::etag_size
          MayKeep,      \* application(dir, keepalive)
          Nodes,        \* the paths of the nodes
          NoNode,
          Directories,  \* the paths of those that are directories
          Answers,      \* what nodes reply, records [status, ctype, body]
          Inputs,       \* what clients send, and to which session layer: records
                        \* [port, size, text, late, up, behind, signed] with what
                        \* the text means
          MaxRefusals   \* bound on the sends of a message the network refuses

ASSUME HeadAssumption ==
  /\ MaxSection \in Nat \ {0} /\ EtagSize \in Nat \ {0} /\ MaxRefusals \in Nat
  /\ NoNode \notin Nodes
  /\ Directories \subseteq Nodes
  /\ \A a \in Answers : a.status \in Status /\ a.body \in Seq(STRING)
  /\ \A i \in Inputs : /\ i.port \in Ports /\ i.size \in Nat \ {0}
                      /\ i.text \in Seq(STRING) /\ i.late \in Seq(STRING)
                      /\ i.up \in Nat /\ i.behind \in Seq(STRING)
                      /\ i.signed \in BOOLEAN

VARIABLES given,    \* what the client sends
          pc,       \* httpmessage::state_t, or where service stands
          r,        \* the reader: streams, current character, request, response
          path,     \* the directory or node found so far
          body,     \* what the node has put
          result,   \* of application::service
          out,      \* what remains to be put
          reply,    \* all that is put
          refusals, \* sends the network has refused
          beat      \* of the processor: a step that changes nothing else is a step

vars == <<given, pc, r, path, body, result, out, reply, refusals, beat>>

\* message, with its streams: requ and resp are new, the etag is empty.
NewMessage(s) ==
  [s |-> s, curr |-> "", ok |-> TRUE, etag |-> <<>>, requ |-> NewRequest, resp |-> NewResponse]

Init ==
  \E i \in Inputs :
    /\ given = i
    /\ pc = "method" /\ path = <<>> /\ body = <<>> /\ result = "none"
    /\ out = <<>> /\ reply = <<>> /\ refusals = 0 /\ beat = 0
    /\ r = NewMessage(Open(i))

Goto(p) == pc' = p

Tick == pc # "sent" /\ beat' = 1 - beat

Reading == Tick /\ UNCHANGED <<given, body, out, reply, refusals>>

-----------------------------------------------------------------------------
MethodRead(m) ==
  \/ /\ m.empty
     /\ r' = m.r /\ result' = "keep" /\ Goto("sent")
  \/ /\ ~m.empty /\ m.method = "UNKNOWN"
     /\ r' = Failing(m.r, Not_Implemented) /\ Goto("bad") /\ UNCHANGED result
  \/ /\ m.method # "UNKNOWN"
     /\ r' = [m.r EXCEPT !.requ.method = m.method] /\ Goto("target") /\ UNCHANGED result

ReadMethod == pc = "method" /\ MethodRead(ReadMethodWord(r)) /\ Reading /\ UNCHANGED path

\* read_target(true): the first character of the target is a slash.
RootRead(c) ==
  IF c.chr = "/"
  THEN r' = c.r /\ path' = <<>> /\ Goto("section")
  ELSE r' = Failing(c.r, Bad_Request) /\ path' = NoNode /\ Goto("bad")

ReadRoot == pc = "target" /\ RootRead(ReadTargetChar(SkipSpaces(r))) /\ Reading /\ UNCHANGED result

\* node::find of the directory reached so far
Find(dir, section) == IF Append(dir, section) \in Nodes THEN Append(dir, section) ELSE NoNode

\* One section of the target.  After a failure the rest of the target is what
\* read_version finds.
SectionRead(c) ==
  LET next == IF c.section = <<>> THEN path ELSE Find(path, c.section)
      rest == IF c.last /\ c.next # "section" THEN c.next ELSE "version"
      Lost(status) == r' = Failing(c.r, status) /\ path' = NoNode
  IN  \/ /\ c.long
         /\ Lost(URI_Too_Long) /\ Goto("version")
      \/ /\ ~c.long /\ Failed(c.r.resp)
         /\ r' = c.r /\ path' = NoNode /\ Goto("bad")
      \/ /\ ~c.long /\ ~Failed(c.r.resp) /\ next = NoNode
         /\ Lost(Not_Found) /\ Goto(rest)
      \/ /\ ~c.long /\ ~Failed(c.r.resp) /\ next # NoNode
         /\ r' = c.r /\ path' = next /\ Goto(IF c.last THEN rest ELSE "section")

ReadSection ==
  pc = "section" /\ SectionRead(ReadSectionWord(r, MaxSection)) /\ Reading /\ UNCHANGED result

VersionRead(v) ==
  IF v.version = "UNKNOWN"
  THEN r' = Failing(SkipLine(v.r).r, Bad_Request) /\ Goto("bad")
  ELSE r' = [v.r EXCEPT !.requ.version = v.version] /\ Goto("header")

ReadVersion ==
  pc = "version" /\ VersionRead(ReadVersionWord(r)) /\ Reading /\ UNCHANGED <<path, result>>

-----------------------------------------------------------------------------
\* read_headers, one field per step.
Then(m, p) == [r |-> m, pc |-> p]

\* The line of a field that is not recognised, or has been read in part only.
Skipped(n) ==
  LET Skip(line) == IF line.hit = 1 THEN Then(line.r, "header") ELSE Then(Failing(line.r, Bad_Option), "bad")
  IN  Skip(SkipLine(n))

WithField(n, name) == [n EXCEPT !.requ.fields = @ \cup {name}]

BlankLine(n) ==
  LET AtEnd(end) == IF end.hit = 1 THEN Then(end.r, "body") ELSE Then(Failing(end.r, Bad_Request), "bad")
  IN  AtEnd(ExpectCrlf(n))

AcceptField(n) ==
  LET Name(m) == IF m.hit = 1 THEN Then(m.r, "accept") ELSE Skipped(m.r)
  IN  Name(Literal1(n, After(1, Field.accept), Colon))

ContentLength(n) ==
  LET Value(len) == IF len.ok
                    THEN Then(ConsumeCrlf(WithField([len.r EXCEPT !.requ.clen = len.val], "content_length")), "header")
                    ELSE Skipped(len.r)
  IN  Value(ReadLength(n))

ContentType(n) ==
  LET Value(media) ==
        IF media.type = "unknown" THEN Skipped([media.r EXCEPT !.requ.ctype = "unknown"])
        ELSE Then(ExpectCrlf(WithField([media.r EXCEPT !.requ.ctype = media.type], "content_type")).r, "header")
  IN  Value(ReadMediaType(n))

\* read_connection
ReadConnection(n) ==
  LET Value(word, keep) ==
        IF word.hit = 1
        THEN Then(ExpectCrlf(WithField([word.r EXCEPT !.requ.keep = keep], "connection")).r, "header")
        ELSE Skipped(Failing(word.r, Bad_Option))
      Option(v) == CASE Lower(v.curr) = "k" -> Value(Literal1_ic(v, After(1, Field.keep), Line), TRUE)
                     [] Lower(v.curr) = "c" -> Value(Literal1_ic(v, After(1, Field.close), Line), FALSE)
                     [] OTHER               -> Value(Met(v, 0), FALSE)
  IN  Option(SkipSpaces(n))

ContentField(n) ==
  LET Name(m) == CASE m.hit = 1 -> ContentLength(m.r)
                   [] m.hit = 2 -> ContentType(m.r)
                   [] m.hit = 3 -> ReadConnection(m.r)
                   [] OTHER     -> Skipped(m.r)
  IN  Name(Literal3(n, After(1, Field.content_length), After(1, Field.content_type), After(1, Field.connection), Colon))

\* read_condition
ConditionField(n) ==
  LET Value(etag) == IF etag.ok THEN Then(WithField(etag.r, "etag"), "header") ELSE Skipped(etag.r)
      Name(m) == IF m.hit = 0 THEN Skipped(Failing(m.r, Bad_Request)) ELSE Value(ReadEtag(m.r, EtagSize))
  IN  Name(Literals(n, After(1, Field.if_match), After(1, Field.if_none_match), Colon))

\* read_headers: the first character of a line tells what it is.
LineFrom(n) ==
  CASE ~n.ok                            -> Then(Failing(n, Bad_Request), "bad")
    [] n.ok /\ IsSpace(n.curr)          -> Then(Failing(n, Bad_Request), "bad")
    [] n.ok /\ n.curr \in {"\r", "\n"} -> BlankLine(n)
    [] n.ok /\ n.curr = "A"             -> AcceptField(n)
    [] n.ok /\ n.curr = "C"             -> ContentField(n)
    [] n.ok /\ n.curr = "I"             -> ConditionField(n)
    [] OTHER                            -> Skipped(n)

LineRead(f) == r' = f.r /\ Goto(f.pc)

ReadHeader ==
  pc = "header" /\ LineRead(LineFrom(GetChar(r))) /\ Reading /\ UNCHANGED <<path, result>>

\* read_accept: one media type per step, until the line ends.
Parameters(m)   == IF IsSpace(m.curr) THEN SkipSpaces(m) ELSE m
AfterType(m)    == Parameters(IF IsType(m.s, m.curr) THEN SkipType(m) ELSE m)
TypeRead(media) == AfterType(IF media.type = "unknown" THEN media.r
                             ELSE [media.r EXCEPT !.requ.accept = @ \cup {media.type}])

AcceptType ==
  /\ pc = "accept" /\ IsLinear(r.s, r.curr)
  /\ r' = TypeRead(ReadMediaType(r))
  /\ Reading /\ UNCHANGED <<pc, path, result>>

AcceptEnd ==
  /\ pc = "accept" /\ ~IsLinear(r.s, r.curr)
  /\ r' = WithField((IF r.curr \in {"\r", "\n"} THEN ExpectCrlf(r) ELSE SkipLine(r)).r, "accept")
  /\ Goto("header") /\ Reading /\ UNCHANGED <<path, result>>

-----------------------------------------------------------------------------
\* The reply.  http::status
Code ==
  [OK |-> 200, Created |-> 201, Accepted |-> 202, No_Content |-> 204, Not_Modified |-> 304,
   Bad_Request |-> 400, Unauthorized |-> 401, Forbidden |-> 403, Not_Found |-> 404,
   Method_Not_Allowed |-> 405, Not_Acceptable |-> 406, Conflict |-> 409, Length_Required |-> 411,
   Precondition_Failed |-> 412, Payload_Too_Large |-> 413, URI_Too_Long |-> 414,
   Unsupported_Media_Type |-> 415, Upgrade_Required |-> 426, Internal_Server_Error |-> 500,
   Not_Implemented |-> 501, Service_Unavailable |-> 503]

\* httpmessage::map::status
StatusCode ==
  [st \in Status |-> CASE st = Unknown -> Code.Internal_Server_Error [] OTHER -> Code[
     <<"OK", "Created", "No_Content", "Not_Modified", "No_Content", "OK", "Accepted", "No_Content",
       "Bad_Request", "Bad_Request", "Unauthorized", "Forbidden", "Not_Found", "Conflict",
       "Length_Required", "Payload_Too_Large", "URI_Too_Long", "Upgrade_Required",
       "Method_Not_Allowed", "Not_Acceptable", "Precondition_Failed", "Payload_Too_Large",
       "Unsupported_Media_Type", "Internal_Server_Error", "Not_Implemented",
       "Service_Unavailable">>[st]]]

\* literal::map::message
Phrase ==
  [st \in Status |-> CASE st = Unknown -> "Internal Server Error" [] OTHER ->
     <<"OK", "Created", "No Content", "Not Modified", "No Content", "OK", "Accepted", "No Content",
       "Bad Request", "Bad Request", "Unauthorized", "Forbidden", "Not Found", "Conflict",
       "Length Required", "Payload Too Large", "URI Too Long", "Upgrade Required",
       "Method Not_Allowed", "Not Acceptable", "Precondition Failed", "Payload Too Large",
       "Unsupported Content Format", "Internal Server Error", "Not Implemented",
       "Service Unavailable">>[st]]

\* A reply is put in pieces, each of which stands for one character of the output.
\* literal::content_type and content_subtype
ContentTypeText(type) ==
  IF type \in {"css", "csv", "html", "plain", "xml", "xsl"} THEN <<Media.text, Media[type]>>
  ELSE <<Media.application, IF type \in {"json", "json_rpc", "jsonrequest", "javascript"} THEN Media[type]
                            ELSE Media.octet_stream>>

FieldText(field, value) == <<field, value, "eol">>

\* write_status and write_headers, in their order.
StatusLine(requ, resp) ==
  <<HTTP.name, IF requ.version = "UNKNOWN" THEN HTTP.v11 ELSE requ.version, StatusCode[resp.status], Phrase[resp.status], "eol">>

HeaderLines(requ, resp) ==
  LET type   == IF resp.ctype = "unknown" THEN <<>> ELSE FieldText(Field.content_type, ContentTypeText(resp.ctype))
      length == FieldText(Field.content_length, "length")
      keep   == IF Keep(MayKeep, requ, resp) THEN Field.keep ELSE Field.close
  IN  (IF resp.status = No_Content THEN <<>>
       ELSE (IF "content_type" \in resp.fields THEN type ELSE <<>>)
            \o (IF "content_length" \in resp.fields THEN length ELSE <<>>))
      \o FieldText(Field.connection, keep)

\* seal(true)
WithStatus(resp) == IF resp.status = Unknown THEN [resp EXCEPT !.status = OK] ELSE resp

Envelope(requ, resp) ==
  StatusLine(requ, resp) \o HeaderLines(requ, resp)
    \o (IF resp.status = No_Content THEN <<>> ELSE <<"eol">>)

\* A message is sealed, and text is put after its head.
Reply(m, resp, text, outcome) ==
  LET sealed == WithStatus(resp)
  IN  /\ r' = [m EXCEPT !.resp = sealed]
      /\ out' = Envelope(m.requ, sealed) \o text
      /\ reply' = out' /\ result' = outcome
      /\ Goto("write") /\ Tick
      /\ UNCHANGED <<given, path, refusals>>

Message(resp) == <<Phrase[resp.status], "eol">>

\* The reply to a message that cannot be processed.
BadReply(m) == Reply(m, SetContentType(m.resp, "plain"), Message(m.resp), "bad") /\ UNCHANGED body

BadMessage == pc = "bad" /\ BadReply(r)

NoTarget == pc = "body" /\ path = NoNode /\ BadReply(Failing(r, Not_Found))

ErrorReply(m) ==
  LET outcome == IF InputGood(m.s) /\ OutputGood(m.s) THEN "bad" ELSE "error"
  IN  Reply(m, m.resp, Message(m.resp), outcome)

\* A directory is offered as html to who accepts nothing.
Accepting ==
  IF path \in Directories /\ ~Has(r.requ, "accept") THEN [r EXCEPT !.requ.accept = @ \cup {"html"}] ELSE r

Outcome(m) == IF Keep(MayKeep, m.requ, WithStatus(m.resp)) THEN "keep" ELSE "close"

\* The input ended before anything was put, by whatever node or failure: the message is
\* taken for a fragment.
IsFragment == InputEnded(r.s) /\ InputGood(r.s)

\* It is saved for the next packet, or refused if the session has no place for it.
Suspend(m) ==
  \/ /\ r' = m /\ result' = "fragment" /\ Goto("sent") /\ Tick
     /\ UNCHANGED <<given, path, out, reply, refusals>>
  \/ ErrorReply(Failing(m, Service_Unavailable))

\* What service does with a message for which nothing has been put.
NothingPut(m) ==
  /\ \/ IsFragment /\ Suspend(m)
     \/ ~IsFragment /\ Failed(m.resp)  /\ ErrorReply(m)
     \/ ~IsFragment /\ ~Failed(m.resp) /\ Reply(m, m.resp, <<>>, Outcome(m))
  /\ UNCHANGED body

HeadHadError == pc = "body" /\ path # NoNode /\ Failed(r.resp) /\ NothingPut(Accepting)

\* A node processes the message: with its answer it begins the body, or fails, or
\* only leaves a status.
Answered(a) ==
  LET m == [Accepting EXCEPT !.resp = FixContentType(@, a.ctype)]
  IN  IF a.status >= Bad_Request THEN Failing(m, a.status)
      ELSE [m EXCEPT !.resp = SetStatus(@, a.status)]

Process ==
  /\ pc = "body" /\ path # NoNode /\ ~Failed(r.resp)
  /\ \E a \in Answers :
       \/ /\ a.status < Bad_Request /\ a.body # <<>>
          /\ Reply(Answered(a), Answered(a).resp, a.body, Outcome(Answered(a)))
          /\ body' = a.body
       \/ /\ a.status >= Bad_Request \/ a.body = <<>>
          /\ NothingPut(Answered(a))

-----------------------------------------------------------------------------
\* The output.  The network takes what it is given, or refuses.
Sending(needed) ==
  Tick /\ \E taken \in BOOLEAN :
    /\ ~taken => needed /\ refusals < MaxRefusals
    /\ refusals' = refusals + (IF taken THEN 0 ELSE 1)
    /\ IF out # <<>>
       THEN r' = [r EXCEPT !.s = Put(@, Head(out), taken)]
       ELSE r' = [r EXCEPT !.s = Finish(@, result = "keep", taken)]

\* One put, and what the session layer does when service has returned.
PutNext ==
  /\ pc = "write" /\ out # <<>>
  /\ Sending(r.s.port # "esp" /\ r.s.put > Len(r.s.array))
  /\ out' = Tail(out)
  /\ UNCHANGED <<given, pc, path, body, result, reply>>

FinishReply ==
  /\ pc = "write" /\ out = <<>>
  /\ Sending(TRUE)
  /\ Goto("sent")
  /\ UNCHANGED <<given, path, body, result, out, reply>>

Read == ReadMethod \/ ReadRoot \/ ReadSection \/ ReadVersion

ReadHeaders == ReadHeader \/ AcceptType \/ AcceptEnd

Respond == BadMessage \/ NoTarget \/ HeadHadError \/ Process \/ PutNext \/ FinishReply

Ended == pc = "sent" /\ UNCHANGED vars

Next == Read \/ ReadHeaders \/ Respond \/ Ended

Spec == Init /\ [][Next]_vars

\* service is a loop of the server's thread, which goes on until it returns.
FairSpec == Spec /\ WF_beat(Tick)

-----------------------------------------------------------------------------
\* What a head means: its fields in order, as HttpService reads them.
FieldEffect(a, f) ==
  IF a.eaten THEN [a EXCEPT !.eaten = FALSE]
  ELSE [m |-> FoldLeft(HeaderEffect, a.m, f.means), eaten |-> \E i \in DOMAIN f.means : EatsNextLine(f.means[i])]

Meaning ==
  FoldLeft(FieldEffect,
           [m |-> [requ |-> [NewRequest EXCEPT !.method = given.method, !.version = given.version],
                   resp |-> IF given.path = NoNode THEN SetError(NewResponse, Not_Found) ELSE NewResponse],
            eaten |-> FALSE],
           given.fields)

\* A head that arrives whole, over a connection that does not break, is understood as it
\* was meant, in whatever pieces the session layer's buffer gives it to the parser, and
\* nothing else is taken for the end of a head; a packet that ends inside the head is
\* refused.  (While an array is filled from the network the end of the data may come
\* anywhere, also inside a word.)
HeadIsReadAsSent ==
  (SharesArray(r.s) => given.late = <<>>) /\ "ioerror" \notin r.s.err =>
    /\ pc = "body" => /\ given.late = <<>> /\ ~Meaning.eaten /\ ~given.refused
                      /\ [requ |-> r.requ, resp |-> r.resp] = Meaning.m
                      /\ path = given.path
    /\ pc = "bad"  => given.late # <<>> \/ Meaning.eaten \/ given.refused

\* What is sent is what service has put, all of it and in its order; of a reply longer
\* than the ESP8266's buffer as much as the buffer holds, and eof is raised; of a reply
\* after which the Arduino keeps the connection the rest is still in its buffer.
SentAsPut ==
  CASE r.s.port = "arduino" /\ result = "keep" -> r.s.sent \o Pending(r.s) = reply
    [] r.s.port = "esp" /\ "eof" \in r.s.oerr  -> r.s.sent = SubSeq(reply, 1, Len(r.s.array))
    [] OTHER                                    -> r.s.sent = reply

\* While the network takes what it is given, the client is sent what service has put.
\* The status code sent is that of an error exactly when the message has failed.
ReplyIsWhole ==
  /\ pc = "sent" /\ refusals = 0 => SentAsPut
  /\ reply # <<>> => (reply[3] >= 400 <=> Failed(r.resp))

\* read_accept, read_headers: every message comes to its end, wherever its head ends or
\* its connection breaks; only where char is unsigned, and an Accept field is all that is
\* left of the input, service never returns.
HeadEnds ==
  \/ <>(pc = "sent")
  \/ ~given.signed /\ <>[](pc = "accept" /\ ~r.ok)
=============================================================================
