------------------------ MODULE HttpService_proofs --------------------------
(***************************************************************************)
(* Proofs about HttpService: the storage of suspended messages, the        *)
(* Connection field, the item a path names, and that the message a server  *)
(* works on, or has saved, is the one the client of the connection waits   *)
(* for.  For every set of connections, every resource map, every set of    *)
(* requests and every way the network may cut them.                        *)
(***************************************************************************)
EXTENDS HttpServiceProperties, Recursion

-----------------------------------------------------------------------------
\* What the client of a connection sees while a packet of it is being processed,
\* and what it has when it has been answered.
Clean ==
  /\ DOMAIN pdo = Conns /\ DOMAIN replies = Conns
  /\ serving # NoConn => serving \in Conns /\ replies[serving] = NoReply
  /\ phase # "idle" => serving # NoConn
  /\ AnsweredIsClean

LEMMA CleanInit == Init => Clean
BY DEF Init, Clean, AnsweredIsClean

\* Every step of the service before it returns leaves replies alone, and touches the
\* saved state of the connection it serves only.
LEMMA CleanInside ==
  ASSUME Clean, UNCHANGED <<serving, replies>>, phase # "idle",
         UNCHANGED pdo \/ \E s : pdo' = [pdo EXCEPT ![serving] = s]
  PROVE  Clean'
BY DEF Clean, AnsweredIsClean

LEMMA CleanStep == ClearOnKeep /\ Clean /\ [Next]_vars => Clean'
<1> SUFFICES ASSUME ClearOnKeep, Clean, [Next]_vars
             PROVE  Clean'
  OBVIOUS
<1> USE DEF server, client
<1>1. ASSUME NEW c \in Conns, NEW r \in Requests, Send(c, r)
      PROVE  Clean'
  BY <1>1 DEF Send, Clean, AnsweredIsClean
<1>2. ASSUME NEW c \in Conns, Drop(c)
      PROVE  Clean'
  BY <1>2 DEF Drop, Clean, AnsweredIsClean
<1>3. ASSUME NEW c \in Conns, Receive(c)
      PROVE  Clean'
  BY <1>3, ServiceAssumption DEF Receive, Clean, AnsweredIsClean
<1>4. CASE Parse
  BY <1>4 DEF Parse, ReadMethod, NoMessage, NoMethod, ReadTarget, ReadVersion, ReadHeader, ReadBlank,
     ReadStray, EndOfInput, Consume, KeepRest, Goto, Clean, AnsweredIsClean
<1>5. CASE Process
  BY <1>5 DEF Process, ProcessPut, ProcessPost, ProcessGet, ProcessOther, SkipProcess, NoTarget,
     Processed, Ready, Goto, Clean, AnsweredIsClean
<1>6. CASE Finish
  BY <1>6, CleanInside DEF Finish, Pause, Fail, Succeed, BadMessage, Return, ClearOwn
<1>7. CASE AwaitRest
  BY <1>7 DEF AwaitRest, Idle, Clean, AnsweredIsClean
<1>8. CASE KeepOpen
  BY <1>8 DEF KeepOpen, Deliver, Idle, Clean, AnsweredIsClean
<1>11. CASE Ignore
  BY <1>11 DEF Ignore, Idle, Clean, AnsweredIsClean
<1>9. CASE Close
  BY <1>9 DEF Close, Deliver, Idle, Clean, AnsweredIsClean
<1>10. CASE UNCHANGED vars
  BY <1>10 DEF vars, Clean, AnsweredIsClean
<1> QED
  BY <1>1, <1>2, <1>3, <1>4, <1>5, <1>6, <1>7, <1>8, <1>9, <1>10, <1>11
  DEF Next, Service, Session, Quiescent

\* Provided the session layer clears the storage after a kept reply, an answered
\* connection has no saved message, whatever was sent and however it was cut.
THEOREM NothingSavedForAnswered == ASSUME ClearOnKeep PROVE Spec => []AnsweredIsClean
<1>1. Init => Clean
  BY CleanInit
<1>2. Clean /\ [Next]_vars => Clean'
  BY CleanStep
<1>3. Clean => AnsweredIsClean
  BY DEF Clean
<1> QED BY <1>1, <1>2, <1>3, PTL DEF Spec

-----------------------------------------------------------------------------
\* Records as the source builds them: the fields are there, and the status and the
\* state are members of their enumerations.
RequFields == {"method", "version", "fields", "identity", "accept", "ctype", "clen", "keep"}

GoodResp(resp) == DOMAIN resp = {"status", "ctype", "fields"} /\ resp.status \in Status

GoodMsg(m) ==
  /\ DOMAIN m = {"state", "requ", "resp", "target", "own", "eof", "good", "result"}
  /\ DOMAIN m.requ = RequFields
  /\ GoodResp(m.resp)
  /\ m.state \in State

StatusCodes == {OK, No_Content, Bad_Request, Bad_Option, Not_Found, Length_Required, URI_Too_Long,
                Method_Not_Allowed, Request_Entity_Too_Large, Unsupported_Content_Format,
                Internal_Server_Error, Not_Implemented, Service_Unavailable}

LEMMA CodesAreStatuses == StatusCodes \subseteq Status
BY DEF StatusCodes, Status, OK, No_Content, Bad_Request, Bad_Option, Not_Found, Length_Required,
   URI_Too_Long, Method_Not_Allowed, Request_Entity_Too_Large, Unsupported_Content_Format,
   Internal_Server_Error, Not_Implemented, Service_Unavailable

\* The operations of message keep a response well-formed; an error stays one.
LEMMA ResponseOperations ==
  ASSUME NEW resp, GoodResp(resp), NEW st \in Status, NEW type
  PROVE  /\ GoodResp(SetError(resp, st))
         /\ GoodResp(SetStatus(resp, st))
         /\ GoodResp(SetContentType(resp, type))
         /\ GoodResp(FixContentType(resp, type))
         /\ GoodResp(SetContentLength(resp))
         /\ SetContentType(resp, type).status = resp.status
         /\ FixContentType(resp, type).status = resp.status
         /\ st >= Bad_Request => Failed(SetError(resp, st))
<1>1. GoodResp(SetError(resp, st)) /\ (st >= Bad_Request => Failed(SetError(resp, st)))
  BY DEF GoodResp, SetError, Failed, Status, Bad_Request
<1>2. GoodResp(SetStatus(resp, st))
  BY DEF GoodResp, SetStatus
<1>3. GoodResp(SetContentType(resp, type)) /\ SetContentType(resp, type).status = resp.status
  BY DEF GoodResp, SetContentType
<1>4. GoodResp(FixContentType(resp, type)) /\ FixContentType(resp, type).status = resp.status
  BY <1>3 DEF FixContentType
<1>5. GoodResp(SetContentLength(resp))
  BY DEF GoodResp, SetContentLength
<1> QED BY <1>1, <1>2, <1>3, <1>4, <1>5

\* A failed message is never kept.
LEMMA FailedIsNotKept ==
  ASSUME NEW requ, NEW resp, GoodResp(resp), Failed(resp)
  PROVE  ~Keep(MayKeep, requ, resp)
BY DEF Keep, IsGood, Failed, GoodResp, Status, Bad_Request, OK

\* Whatever node is written, put leaves a well-formed response.
LEMMA PutResponse ==
  ASSUME NEW n, NEW requ, NEW resp, GoodResp(resp), NEW value, NEW in
  PROVE  GoodResp(Put(n, requ, resp, value, in).resp)
<1>1. \A st \in StatusCodes : GoodResp(SetError(resp, st)) /\ GoodResp(SetStatus(resp, st))
  BY ResponseOperations, CodesAreStatuses
<1>2. \A st \in StatusCodes : \A v : GoodResp(Refused(v, resp, st).resp)
  BY <1>1 DEF Refused, Outcome
<1>3. GoodResp(PutText(n, requ, resp, value, in).resp)
  BY <1>1, <1>2 DEF PutText, Outcome, StatusCodes
<1>4. GoodResp(PutOctets(n, requ, resp, value, in).resp)
  BY <1>1, <1>2 DEF PutOctets, Outcome, StatusCodes
<1>5. GoodResp(PutNumeric(n, requ, resp, value, in).resp)
  BY <1>1 DEF PutNumeric, Outcome, StatusCodes
<1>6. GoodResp(PutAction(n, requ, resp, value, in).resp)
  BY <1>1, <1>2 DEF PutAction, Outcome, StatusCodes
<1>7. GoodResp(PutItem(n, requ, resp, value, in).resp)
  BY <1>1, <1>2 DEF PutItem, Outcome, StatusCodes
<1>8. GoodResp(PutJson(n, requ, resp, value, in).resp)
  BY <1>1 DEF PutJson, Outcome, StatusCodes
<1> QED
  BY <1>2, <1>3, <1>4, <1>5, <1>6, <1>7, <1>8 DEF Put, StatusCodes

\* Whether get finds something to send or not, it leaves a well-formed response.
LEMMA GetResponseGood ==
  ASSUME NEW n, NEW resp, GoodResp(resp)
  PROVE  GoodResp(GetResponse(n, resp)) /\ GoodResp(Unreadable(n, resp))
<1>1. StatusCodes \subseteq Status /\ OK \in Status
  BY CodesAreStatuses DEF StatusCodes
<1>2. GoodResp(GetResponse(n, resp))
  BY <1>1, ResponseOperations DEF GetResponse
<1>3. GoodResp(Unreadable(n, resp))
  BY <1>1, ResponseOperations DEF Unreadable, StatusCodes
<1> QED BY <1>2, <1>3

-----------------------------------------------------------------------------
\* Where the service stands and what it has made of the message.  The second line of
\* defence behind the two evaluations of keep(): the reply, once begun, was sealed
\* with the request and the response the service still has when it returns.
Progress ==
  /\ GoodMsg(msg)
  /\ phase \in Phase
  /\ phase \in {"parse", "body"} => msg.state < Sealed /\ ~msg.eof
  /\ phase = "bad" => Failed(msg.resp)
  /\ phase = "finish" =>
       /\ msg.state < Sealed \/ (reply.keep <=> Keep(MayKeep, msg.requ, msg.resp))
       /\ msg.eof => msg.requ.method \in {"PUT", "POST"}
  /\ phase = "return" =>
       msg.result \in {"fragment", "empty"} \/ (reply.keep <=> msg.result = "keep")

\* Saved messages stand before their body and are uploads.
SavedUploads ==
  /\ DOMAIN pdo = Conns
  /\ \A c \in Conns : /\ pdo[c].state \in {Empty, Body}
                      /\ DOMAIN pdo[c].requ = RequFields
  /\ OnlyUploadsSuspend

\* What a client reads in the Connection field is what happens to its connection.
Honest ==
  /\ DOMAIN replies = Conns /\ DOMAIN open = Conns
  /\ phase # "idle" => serving \in Conns
  /\ ConnectionFieldIsTrue

LEMMA ProgressInit == Init => Progress /\ SavedUploads /\ Honest
BY DEF Init, Progress, SavedUploads, Honest, OnlyUploadsSuspend, ConnectionFieldIsTrue, GoodMsg,
   GoodResp, NewMessage, NewRequest, NewResponse, NoState, RequFields, Phase, State, Status,
   Empty, Method, Unknown

\* The parser: states before the body, no end of input noticed, errors recorded.
LEMMA ParseProgress == Progress /\ phase = "parse" /\ Parse => Progress'
<1> SUFFICES ASSUME Progress, phase = "parse", Parse
             PROVE  Progress'
  OBVIOUS
<1> DEFINE Early == {Bad, Method, Target, Version, Header, Body}
<1>1. Early \subseteq State /\ \A st \in Early : st < Sealed
  BY DEF State, Bad, Method, Target, Version, Header, Body, Sealed
<1>2. \A st \in StatusCodes : GoodResp(SetError(msg.resp, st))
  BY ResponseOperations, CodesAreStatuses DEF Progress, GoodMsg
<1>3. ASSUME NEW st \in {Not_Implemented, Bad_Request, Bad_Option}, msg' = Reject(msg, st), phase' = "bad"
      PROVE  Progress'
  <2>1. GoodResp(SetError(msg.resp, st)) /\ Failed(SetError(msg.resp, st))
    <3>1. st \in Status /\ st >= Bad_Request
      BY <1>3 DEF Status, Not_Implemented, Bad_Request, Bad_Option
    <3>2. GoodResp(msg.resp)
      BY DEF Progress, GoodMsg
    <3> QED BY <3>1, <3>2, ResponseOperations
  <2> QED BY <1>1, <1>3, <2>1 DEF Reject, Progress, GoodMsg, Phase
<1>4. ASSUME GoodMsg(msg'), msg'.state < Sealed, ~msg'.eof, phase' \in {"parse", "body"}
      PROVE  Progress'
  BY <1>4 DEF Progress, Phase
<1>5. GoodMsg(msg) /\ msg.state < Sealed /\ ~msg.eof
  BY DEF Progress
<1>6. CASE ReadMethod \/ NoMethod
  BY <1>1, <1>3, <1>4, <1>5, <1>6 DEF ReadMethod, NoMethod, Goto, GoodMsg, RequFields
<1>13. CASE NoMessage
  <2>1. Empty \in State
    BY DEF State, Empty
  <2> QED BY <1>5, <1>13, <2>1 DEF NoMessage, Goto, GoodMsg, Progress, Phase
<1>7. CASE ReadTarget
  BY <1>1, <1>2, <1>3, <1>4, <1>5, <1>7 DEF ReadTarget, Goto, GoodMsg, StatusCodes
<1>8. CASE ReadVersion
  BY <1>1, <1>3, <1>4, <1>5, <1>8 DEF ReadVersion, Goto, GoodMsg, RequFields
<1>9. CASE ReadHeader
  <2>1. PICK h : msg' = HeaderEffect(msg, h) /\ phase' = "parse"
    BY <1>9 DEF ReadHeader, Goto
  <2>2. GoodMsg(HeaderEffect(msg, h)) /\ HeaderEffect(msg, h).state = msg.state /\ HeaderEffect(msg, h).eof = msg.eof
    BY <1>2, <1>5 DEF HeaderEffect, GoodMsg, RequFields, StatusCodes
  <2> QED BY <2>1, <2>2, <1>4, <1>5
<1>10. CASE ReadBlank
  BY <1>1, <1>4, <1>5, <1>10 DEF ReadBlank, Goto, GoodMsg
<1>11. CASE ReadStray
  BY <1>1, <1>4, <1>5, <1>11 DEF ReadStray, Goto, GoodMsg
<1>12. CASE EndOfInput
  BY <1>3, <1>12 DEF EndOfInput, Goto
<1> QED BY <1>6, <1>7, <1>8, <1>9, <1>10, <1>11, <1>12, <1>13 DEF Parse

\* get begins a reply that says what keep() will say again.
LEMMA GetReplyProgress ==
  ASSUME NEW m, GoodMsg(m), m.state < Sealed, NEW values, GetReply(m, values)
  PROVE  /\ GoodMsg(msg') /\ msg'.requ = m.requ /\ msg'.eof = m.eof
         /\ msg'.state < Sealed \/ (reply'.keep <=> Keep(MayKeep, msg'.requ, msg'.resp))
<1>1. \A st \in StatusCodes : \A type :
         /\ GoodResp(SetError(m.resp, st))
         /\ GoodResp(SetContentType(m.resp, type))
  BY ResponseOperations, CodesAreStatuses DEF GoodMsg
<1>2. Began \in State /\ Not_Found \in StatusCodes
  BY DEF Began, State, StatusCodes
<1>3. ASSUME NEW resp, GoodResp(resp), msg' = [m EXCEPT !.resp = resp], reply' = reply
      PROVE  GoodMsg(msg') /\ msg'.requ = m.requ /\ msg'.eof = m.eof /\ msg'.state < Sealed
  BY <1>3 DEF GoodMsg
<1>4. ASSUME NEW resp, GoodResp(resp), msg' = [m EXCEPT !.resp = resp, !.state = Began],
             NEW body, reply' = Envelope(msg', body)
      PROVE  /\ GoodMsg(msg') /\ msg'.requ = m.requ /\ msg'.eof = m.eof
             /\ reply'.keep <=> Keep(MayKeep, msg'.requ, msg'.resp)
  BY <1>2, <1>4 DEF GoodMsg, Envelope
<1> DEFINE dir   == Kind[m.target] = "dir"
           node  == IF ~dir THEN m.target
                    ELSE IF Has(m.requ, "accept") THEN FindAccepted(m.target, m.requ.accept, m.requ.identity)
                    ELSE NoNode
           typed == IF dir THEN SetContentType(m.resp, Media[node]) ELSE m.resp
<1>5. GoodResp(typed) /\ GoodResp(SetError(m.resp, Not_Found)) /\ GoodResp(Unreadable(node, typed))
  BY <1>1, <1>2, GetResponseGood DEF GoodMsg
<1>6. \/ msg' = [m EXCEPT !.resp = SetError(m.resp, Not_Found)] /\ reply' = reply
      \/ msg' = [m EXCEPT !.resp = Unreadable(node, typed)] /\ reply' = reply
      \/ /\ msg' = [m EXCEPT !.resp = GetResponse(node, typed), !.state = Began]
         /\ \E body : reply' = Envelope(msg', body)
  BY DEF GetReply
<1> HIDE DEF dir, node, typed
<1> QED BY <1>3, <1>4, <1>5, <1>6, GetResponseGood

LEMMA PreparedGood ==
  ASSUME GoodMsg(msg)
  PROVE  /\ GoodMsg(Prepared) /\ Prepared.state = msg.state /\ Prepared.eof = msg.eof
         /\ Prepared.requ.method = msg.requ.method
<1>1. GoodResp(FixContentType(msg.resp, Media[msg.target]))
  BY ResponseOperations, CodesAreStatuses DEF GoodMsg, StatusCodes
<1> QED BY <1>1 DEF Prepared, GoodMsg, RequFields

LEMMA PutDoneGood ==
  ASSUME NEW m, GoodMsg(m)
  PROVE  LET done == PutDone(m, AfterPut(m))
         IN  GoodMsg(done) /\ done.state = m.state /\ done.requ = m.requ
<1>1. GoodResp(AfterPut(m).resp)
  BY PutResponse DEF AfterPut, GoodMsg
<1> QED BY <1>1 DEF PutDone, GoodMsg

\* Processing the target: the end of the input is noticed by put only.
LEMMA ProcessProgress == Progress /\ phase = "body" /\ Process => Progress'
<1> SUFFICES ASSUME Progress, phase = "body", Process
             PROVE  Progress'
  OBVIOUS
<1>1. GoodMsg(msg) /\ msg.state < Sealed /\ ~msg.eof
  BY DEF Progress
<1>2. /\ GoodMsg(Prepared) /\ Prepared.state < Sealed /\ ~Prepared.eof
      /\ Prepared.requ.method = msg.requ.method
  BY <1>1, PreparedGood
<1>3. ASSUME phase' = "finish", GoodMsg(msg'),
             msg'.state < Sealed \/ (reply'.keep <=> Keep(MayKeep, msg'.requ, msg'.resp)),
             msg'.eof => msg'.requ.method \in {"PUT", "POST"}
      PROVE  Progress'
  BY <1>3 DEF Progress, Phase
<1> DEFINE done == PutDone(Prepared, AfterPut(Prepared))
<1>4. GoodMsg(done) /\ done.state < Sealed /\ done.requ.method = msg.requ.method
  BY <1>2, PutDoneGood
<1>5. CASE ProcessPut
  <2>1. msg' = done /\ phase' = "finish" /\ msg.requ.method = "PUT"
    BY <1>5 DEF ProcessPut, Processed
  <2> HIDE DEF done
  <2> QED BY <2>1, <1>3, <1>4
<1>6. CASE ProcessPost
  <2>1. /\ phase' = "finish" /\ msg.requ.method = "POST"
        /\ GetReply(done, store') \/ msg' = done
    BY <1>6 DEF ProcessPost, Posts, Processed
  <2> HIDE DEF done
  <2>2. CASE msg' = done
    BY <2>1, <2>2, <1>3, <1>4
  <2>3. CASE GetReply(done, store')
    <3>1. /\ GoodMsg(msg') /\ msg'.requ = done.requ
          /\ msg'.state < Sealed \/ (reply'.keep <=> Keep(MayKeep, msg'.requ, msg'.resp))
      BY <2>3, <1>4, GetReplyProgress
    <3> QED BY <2>1, <3>1, <1>3, <1>4
  <2> QED BY <2>1, <2>2, <2>3
<1>7. CASE ProcessGet
  <2>1. GetReply(Prepared, store) /\ phase' = "finish"
    BY <1>7 DEF ProcessGet, Processed
  <2>2. /\ GoodMsg(msg') /\ ~msg'.eof
        /\ msg'.state < Sealed \/ (reply'.keep <=> Keep(MayKeep, msg'.requ, msg'.resp))
    BY <2>1, <1>2, GetReplyProgress
  <2> QED BY <2>1, <2>2, <1>3
<1>8. CASE ProcessOther
  <2>1. GoodResp(SetError(Prepared.resp, Method_Not_Allowed))
    BY <1>2, ResponseOperations, CodesAreStatuses DEF GoodMsg, StatusCodes
  <2>2. /\ phase' = "finish"
        /\ msg' = [Prepared EXCEPT !.resp = SetError(Prepared.resp, Method_Not_Allowed)]
    BY <1>8 DEF ProcessOther, Processed
  <2>3. GoodMsg(msg') /\ msg'.state < Sealed /\ ~msg'.eof
    BY <1>2, <2>1, <2>2 DEF GoodMsg
  <2> QED BY <2>2, <2>3, <1>3
<1>9. CASE SkipProcess
  BY <1>9, <1>1, <1>3 DEF SkipProcess, Processed
<1>10. CASE NoTarget
  <2>1. /\ GoodResp(SetError(msg.resp, Not_Found)) /\ Failed(SetError(msg.resp, Not_Found))
    <3>1. Not_Found \in Status /\ Not_Found >= Bad_Request
      BY DEF Status, Not_Found, Bad_Request
    <3> QED BY <3>1, <1>1, ResponseOperations DEF GoodMsg
  <2>2. phase' = "bad" /\ msg' = [msg EXCEPT !.resp = SetError(msg.resp, Not_Found)]
    BY <1>10 DEF NoTarget, Goto
  <2> QED BY <1>1, <2>1, <2>2 DEF Progress, GoodMsg, Phase
<1> QED BY <1>5, <1>6, <1>7, <1>8, <1>9, <1>10 DEF Process

\* The service returns: the second evaluation of keep() agrees with the reply.
LEMMA FinishProgress == Progress /\ Finish => Progress'
<1> SUFFICES ASSUME Progress, Finish
             PROVE  Progress'
  OBVIOUS
<1>1. ASSUME NEW m, NEW r, GoodMsg(m), Return([m EXCEPT !.result = r]),
             r = "fragment" \/ (reply'.keep <=> r = "keep")
      PROVE  Progress'
  BY <1>1 DEF Return, Progress, GoodMsg, Phase
<1>2. GoodMsg(msg)
  BY DEF Progress
<1>3. CASE Pause
  BY <1>1, <1>2, <1>3 DEF Pause
<1>4. CASE Fail
  <2> DEFINE m == IF IsFragment THEN [msg EXCEPT !.resp = SetError(@, Service_Unavailable)] ELSE msg
  <2>1. GoodMsg(m) /\ m.state = msg.state /\ m.requ = msg.requ
    <3>1. GoodResp(SetError(msg.resp, Service_Unavailable))
      BY <1>2, ResponseOperations, CodesAreStatuses DEF GoodMsg, StatusCodes
    <3> QED BY <1>2, <3>1 DEF GoodMsg
  <2>2. /\ Failed(m.resp)
        /\ reply' = IF m.state >= Began THEN reply ELSE Envelope(m, <<"message">>)
        /\ Return([m EXCEPT !.result = IF m.good THEN "bad" ELSE "error"])
    BY <1>4 DEF Fail
  <2>3. ~Keep(MayKeep, m.requ, m.resp)
    BY <2>1, <2>2, FailedIsNotKept DEF GoodMsg
  <2>4. m.state >= Began => m = msg /\ ~(msg.state < Sealed)
    BY <1>2, <2>1 DEF IsFragment, GoodMsg, State, Body, Began, Sealed
  <2>5. m.state >= Began => ~reply.keep
    BY <1>4, <2>3, <2>4 DEF Progress, Fail
  <2>6. ~(m.state >= Began) => ~reply'.keep
    BY <2>2, <2>3 DEF Envelope
  <2> HIDE DEF m
  <2> QED BY <1>1, <2>1, <2>2, <2>5, <2>6
<1>5. CASE Succeed
  <2>1. /\ reply' = IF msg.state >= Sealed THEN reply ELSE Envelope(msg, <<>>)
        /\ Return([msg EXCEPT !.result = IF Keep(MayKeep, msg.requ, msg.resp) THEN "keep" ELSE "close"])
    BY <1>5 DEF Succeed
  <2>2. reply'.keep <=> Keep(MayKeep, msg.requ, msg.resp)
    <3>1. CASE msg.state >= Sealed
      BY <1>2, <1>5, <2>1, <3>1 DEF Succeed, Progress, GoodMsg, State, Sealed
    <3>2. CASE ~(msg.state >= Sealed)
      BY <2>1, <3>2 DEF Envelope
    <3> QED BY <3>1, <3>2
  <2> QED BY <1>1, <1>2, <2>1, <2>2
<1>6. CASE BadMessage
  <2>1. Failed(msg.resp)
    BY <1>6 DEF BadMessage, Progress
  <2>2. GoodResp(SetContentType(msg.resp, "plain")) /\ Failed(SetContentType(msg.resp, "plain"))
    BY <1>2, <2>1, ResponseOperations, CodesAreStatuses DEF GoodMsg, Failed, StatusCodes
  <2>3. ~reply'.keep
    BY <1>2, <1>6, <2>2, FailedIsNotKept DEF BadMessage, Envelope, GoodMsg
  <2> QED BY <1>1, <1>2, <1>6, <2>3 DEF BadMessage
<1> QED BY <1>3, <1>4, <1>5, <1>6 DEF Finish

-----------------------------------------------------------------------------
\* In which phase each part of the service runs, and what it leaves alone.
LEMMA ServiceParts ==
  /\ Parse => phase = "parse" /\ UNCHANGED <<pdo, client, serving>> /\ phase' \in {"parse", "body", "bad", "return"}
  /\ Process => phase = "body" /\ UNCHANGED <<pdo, client, serving>> /\ phase' \in {"finish", "bad"}
  /\ Finish => phase \in {"finish", "bad"} /\ UNCHANGED <<client, serving>> /\ phase' = "return"
  /\ Session => phase = "return" /\ phase' = "idle" /\ msg' = NewMessage
<1>1. Parse => phase = "parse" /\ UNCHANGED <<pdo, client, serving>> /\ phase' \in {"parse", "body", "bad", "return"}
  BY DEF Parse, ReadMethod, NoMessage, NoMethod, ReadTarget, ReadVersion, ReadHeader, ReadBlank,
         ReadStray, EndOfInput, Consume, KeepRest, Goto
<1>2. Process => phase = "body" /\ UNCHANGED <<pdo, client, serving>> /\ phase' \in {"finish", "bad"}
  BY DEF Process, ProcessPut, ProcessPost, ProcessGet, ProcessOther, SkipProcess, NoTarget,
         Processed, Ready, Goto
<1>3. Finish => phase \in {"finish", "bad"} /\ UNCHANGED <<client, serving>> /\ phase' = "return"
  BY DEF Finish, Pause, Fail, Succeed, BadMessage, Return
<1>4. Session => phase = "return" /\ phase' = "idle" /\ msg' = NewMessage
  BY DEF Session, AwaitRest, KeepOpen, Ignore, Close, Deliver, Idle
<1> QED BY <1>1, <1>2, <1>3, <1>4

\* The parser returns an empty message only.
LEMMA ParseReturns ==
  ASSUME GoodMsg(msg), Parse
  PROVE  phase' = "return" => msg'.result = "empty"
<1>1. CASE NoMessage
  BY <1>1 DEF NoMessage, GoodMsg
<1>2. CASE ~NoMessage
  BY <1>2 DEF Parse, ReadMethod, NoMethod, ReadTarget, ReadVersion, ReadHeader, ReadBlank, ReadStray,
         EndOfInput, Goto
<1> QED BY <1>1, <1>2

LEMMA NewMessageGood == GoodMsg(NewMessage) /\ NewMessage.state < Sealed /\ ~NewMessage.eof
BY DEF NewMessage, NewRequest, NewResponse, GoodMsg, GoodResp, RequFields, State, Status, Method,
       Unknown, Sealed

LEMMA ProgressStep == Progress /\ SavedUploads /\ [Next]_vars => Progress'
<1> SUFFICES ASSUME Progress, SavedUploads, [Next]_vars
             PROVE  Progress'
  OBVIOUS
<1>1. ASSUME UNCHANGED <<msg, phase, reply>>
      PROVE  Progress'
  BY <1>1 DEF Progress
<1>2. ASSUME NEW c \in Conns, (\E r \in Requests : Send(c, r)) \/ Drop(c)
      PROVE  Progress'
  BY <1>2, <1>1 DEF Send, Drop, server
<1>3. ASSUME NEW c \in Conns, Receive(c)
      PROVE  Progress'
  <2>1. CASE pdo[c].state > Empty
    <3>1. pdo[c].state = Body /\ DOMAIN pdo[c].requ = RequFields
      BY <2>1 DEF SavedUploads, Empty, Body
    <3>2. msg' = Restored(pdo[c]) /\ phase' = "body"
      BY <1>3, <2>1 DEF Receive
    <3> QED BY <3>1, <3>2, NewMessageGood
            DEF Restored, Progress, GoodMsg, NewMessage, Body, State, Sealed, Phase
  <2>2. CASE ~(pdo[c].state > Empty)
    <3>1. msg' = [NewMessage EXCEPT !.own = c \in Storage] /\ phase' = "parse"
      BY <1>3, <2>2 DEF Receive
    <3> QED BY <3>1, NewMessageGood DEF Progress, GoodMsg, Phase
  <2> QED BY <2>1, <2>2
<1>4. CASE Parse
  BY <1>4, ParseProgress, ServiceParts
<1>5. CASE Process
  BY <1>5, ProcessProgress, ServiceParts
<1>6. CASE Finish
  BY <1>6, FinishProgress
<1>7. CASE Session
  BY <1>7, ServiceParts, NewMessageGood DEF Progress, Phase
<1>8. CASE UNCHANGED vars
  BY <1>8, <1>1 DEF vars, server
<1> QED BY <1>2, <1>3, <1>4, <1>5, <1>6, <1>7, <1>8 DEF Next, Service, Quiescent

LEMMA SavedUploadsStep == Progress /\ SavedUploads /\ [Next]_vars => SavedUploads'
<1> SUFFICES ASSUME Progress, SavedUploads, [Next]_vars
             PROVE  SavedUploads'
  OBVIOUS
<1>1. ASSUME UNCHANGED pdo
      PROVE  SavedUploads'
  BY <1>1 DEF SavedUploads, OnlyUploadsSuspend
<1>2. /\ NoState.state = Empty
      /\ DOMAIN NoState.requ = RequFields
  BY DEF NoState, NewRequest, RequFields
<1> DEFINE Fit(s) == /\ s.state \in {Empty, Body} /\ DOMAIN s.requ = RequFields
                     /\ s.state # Empty => s.requ.method \in {"PUT", "POST"}
<1>3. ASSUME DOMAIN pdo' = Conns, \A d \in Conns : pdo'[d] = pdo[d] \/ Fit(pdo'[d])
      PROVE  SavedUploads'
  BY <1>3 DEF SavedUploads, OnlyUploadsSuspend
<1>4. ASSUME NEW c, pdo' = [pdo EXCEPT ![c] = NoState]
      PROVE  SavedUploads'
  <2>1. DOMAIN pdo' = Conns /\ \A d \in Conns : pdo'[d] = pdo[d] \/ pdo'[d] = NoState
    BY <1>4 DEF SavedUploads
  <2> QED BY <1>2, <1>3, <2>1
<1>5. ASSUME NEW c \in Conns, (\E r \in Requests : Send(c, r)) \/ Receive(c)
      PROVE  SavedUploads'
  BY <1>5, <1>1 DEF Send, Receive, server
<1>6. ASSUME NEW c \in Conns, Drop(c)
      PROVE  SavedUploads'
  BY <1>4, <1>6 DEF Drop
<1>7. CASE Parse \/ Process
  BY <1>1, <1>7, ServiceParts
<1>8. CASE Pause
  <2>1. /\ pdo' = [pdo EXCEPT ![serving] = Saved(msg)]
        /\ msg.state = Body /\ msg.eof /\ phase = "finish"
    BY <1>8 DEF Pause, IsFragment
  <2>2. msg.requ.method \in {"PUT", "POST"} /\ DOMAIN msg.requ = RequFields
    BY <2>1 DEF Progress, GoodMsg
  <2>3. Fit(Saved(msg))
    BY <2>1, <2>2 DEF Saved
  <2>4. DOMAIN pdo' = Conns /\ \A d \in Conns : pdo'[d] = pdo[d] \/ pdo'[d] = Saved(msg)
    BY <2>1 DEF SavedUploads
  <2> QED BY <1>3, <2>3, <2>4
<1>9. CASE Fail \/ Succeed \/ BadMessage
  BY <1>1, <1>4, <1>9 DEF Fail, Succeed, BadMessage, ClearOwn
<1>10. CASE Session
  BY <1>1, <1>4, <1>10 DEF Session, AwaitRest, KeepOpen, Ignore, Close
<1>11. CASE UNCHANGED vars
  BY <1>1, <1>11 DEF vars, server
<1> QED BY <1>5, <1>6, <1>7, <1>8, <1>9, <1>10, <1>11 DEF Next, Service, Finish, Quiescent

LEMMA HonestStep == Progress /\ Honest /\ [Next]_vars => Honest'
<1> SUFFICES ASSUME Progress, Honest, [Next]_vars
             PROVE  Honest'
  OBVIOUS
<1>1. ASSUME UNCHANGED <<replies, open>>, phase' # "idle" => serving' \in Conns
      PROVE  Honest'
  BY <1>1 DEF Honest, ConnectionFieldIsTrue
<1>2. ASSUME NEW c \in Conns, NEW r \in Requests, Send(c, r)
      PROVE  Honest'
  BY <1>2 DEF Send, server, Honest, ConnectionFieldIsTrue
<1>3. ASSUME NEW c \in Conns, Drop(c)
      PROVE  Honest'
  BY <1>3 DEF Drop, Honest, ConnectionFieldIsTrue
<1>4. ASSUME NEW c \in Conns, Receive(c)
      PROVE  Honest'
  BY <1>4 DEF Receive, Honest, ConnectionFieldIsTrue
<1>5. CASE Parse \/ Process \/ Finish
  BY <1>5, <1>1, ServiceParts DEF client, Honest
<1>6. CASE AwaitRest \/ Ignore
  BY <1>6, <1>1 DEF AwaitRest, Ignore, Idle, client
<1>7. ASSUME NEW keep \in BOOLEAN, Deliver(keep), phase = "return", reply.keep <=> keep
      PROVE  Honest'
  BY <1>7 DEF Deliver, Idle, Honest, ConnectionFieldIsTrue
<1>8. CASE KeepOpen
  BY <1>7, <1>8 DEF KeepOpen, Progress
<1>9. CASE Close
  BY <1>7, <1>9 DEF Close, Progress
<1>10. CASE UNCHANGED vars
  BY <1>10, <1>1 DEF vars, server, client, Honest
<1> QED BY <1>2, <1>3, <1>4, <1>5, <1>6, <1>8, <1>9, <1>10 DEF Next, Service, Session, Quiescent

\* Only uploads are ever suspended, also when the parser has lost the end of the head:
\* a read is answered by the packet that completes it.
THEOREM OnlyUploadsAreSaved == Spec => []OnlyUploadsSuspend
<1>1. Init => Progress /\ SavedUploads
  BY ProgressInit
<1>2. Progress /\ SavedUploads /\ [Next]_vars => (Progress /\ SavedUploads)'
  BY ProgressStep, SavedUploadsStep
<1>3. SavedUploads => OnlyUploadsSuspend
  BY DEF SavedUploads
<1> QED BY <1>1, <1>2, <1>3, PTL DEF Spec

\* The Connection field says what happens to the connection, although keep() is
\* evaluated twice, with provider code between.
THEOREM ConnectionFieldTells == Spec => []ConnectionFieldIsTrue
<1>1. Init => Progress /\ SavedUploads /\ Honest
  BY ProgressInit
<1>2. Progress /\ SavedUploads /\ Honest /\ [Next]_vars => (Progress /\ SavedUploads /\ Honest)'
  BY ProgressStep, SavedUploadsStep, HonestStep
<1>3. Honest => ConnectionFieldIsTrue
  BY DEF Honest
<1> QED BY <1>1, <1>2, <1>3, PTL DEF Spec

-----------------------------------------------------------------------------
\* Remainders: x is a multiple of m and a rest, and the rest is x % m.
LEMMA Division ==
  ASSUME NEW m \in Nat \ {0}, NEW x \in Nat
  PROVE  \E q \in Nat : \E t \in 0..(m - 1) : x = m * q + t
<1> DEFINE Divided == {y \in Nat : \E q \in Nat : \E t \in 0..(m - 1) : y = m * q + t}
<1>1. 0 \in Divided
  <2>1. 0 = m * 0 + 0 /\ 0 \in 0..(m - 1)
    OBVIOUS
  <2> QED BY <2>1
<1>2. ASSUME NEW y \in 0..(x - 1), y \in Divided
      PROVE  y + 1 \in Divided
  <2>1. PICK q \in Nat, t \in 0..(m - 1) : y = m * q + t
    BY <1>2
  <2>2. CASE t + 1 <= m - 1
    <3>1. y + 1 = m * q + (t + 1) /\ t + 1 \in 0..(m - 1)
      BY <2>1, <2>2
    <3> QED BY <3>1
  <2>3. CASE ~(t + 1 <= m - 1)
    <3>1. y + 1 = m * q + m
      BY <2>1, <2>3
    <3>2. PICK p \in Nat, z \in 0..(m - 1) : p = q + 1 /\ z = 0
      OBVIOUS
    <3>3. y + 1 = m * p + z /\ y + 1 \in Nat
      BY <3>1, <3>2
    <3> QED BY <3>3
  <2> QED BY <2>2, <2>3
<1>3. x \in Divided
  <2> HIDE DEF Divided
  <2> QED BY <1>1, <1>2, Induction
<1> QED BY <1>3

LEMMA Remainder ==
  ASSUME NEW m \in Nat \ {0}, NEW q \in Nat, NEW t \in 0..(m - 1)
  PROVE  (m * q + t) % m = t
OBVIOUS

\* The digits of a number are read one by one.
LEMMA DecimalSteps ==
  ASSUME NEW digits \in Seq(Nat)
  PROVE  \E f \in [0..Len(digits) -> Nat] :
           /\ f[0] = 0 /\ \A k \in 1..Len(digits) : f[k] = 10 * f[k - 1] + digits[k]
           /\ Decimal(digits) = f[Len(digits)]
<1> DEFINE n == Len(digits)
           rule(f) == f = [k \in 0..n |-> IF k = 0 THEN 0 ELSE 10 * f[k - 1] + digits[k]]
           step == [a \in Nat \X (1..n) |-> 10 * a[1] + digits[a[2]]]
           value == CHOOSE f : rule(f)
<1>1. n \in Nat
  OBVIOUS
<1>2. step \in [Nat \X (1..n) -> Nat]
  <2> SUFFICES ASSUME NEW a \in Nat \X (1..n) PROVE 10 * a[1] + digits[a[2]] \in Nat
    OBVIOUS
  <2>1. PICK v \in Nat, k \in 1..n : a = <<v, k>>
    OBVIOUS
  <2>2. digits[k] \in Nat
    BY ElementOfSeq
  <2> QED BY <2>1, <2>2
<1> HIDE DEF n, step
<1>3. PICK f \in [0..n -> Nat] : f[0] = 0 /\ \A k \in 1..n : f[k] = step[<<f[k - 1], k>>]
  <2>1. \E f : Iterates(f, n, Nat, 0, step)
    BY <1>1, <1>2, Iteration
  <2> QED BY <2>1 DEF Iterates
<1>4. ASSUME NEW k \in 1..n PROVE f[k] = 10 * f[k - 1] + digits[k]
  <2>1. f[k - 1] \in Nat
    BY <1>1
  <2>2. step[<<f[k - 1], k>>] = 10 * f[k - 1] + digits[k]
    BY <2>1 DEF step
  <2> QED BY <2>2, <1>3
<1>5. rule(f)
  BY <1>1, <1>3, <1>4
<1>6. rule(value)
  <2> HIDE DEF rule
  <2> QED BY <1>5
<1>7. DOMAIN value = 0..n /\ value[0] = 0 /\ \A k \in 1..n : value[k] = 10 * value[k - 1] + digits[k]
  <2> HIDE DEF value
  <2> QED BY <1>1, <1>6
<1>8. \A k \in 0..n : value[k] \in Nat
  <2> DEFINE Natural == {k \in 0..n : value[k] \in Nat}
  <2>1. 0 \in Natural
    BY <1>1, <1>7
  <2>2. ASSUME NEW k \in 0..(n - 1), k \in Natural
        PROVE  k + 1 \in Natural
    <3>1. k + 1 \in 1..n /\ k + 1 - 1 = k
      BY <1>1
    <3>2. digits[k + 1] \in Nat
      BY <3>1, ElementOfSeq DEF n
    <3> HIDE DEF value
    <3>3. value[k + 1] = 10 * value[k] + digits[k + 1]
      BY <3>1, <1>7
    <3> QED BY <2>2, <3>1, <3>2, <3>3
  <2>3. \A k \in 0..n : k \in Natural
    <3> HIDE DEF Natural
    <3> QED BY <1>1, <2>1, <2>2, Induction
  <2> QED BY <2>3
<1>9. Decimal(digits) = value[n]
  BY DEF Decimal, n
<1>10. value \in [0..n -> Nat]
  <2>1. value = [k \in 0..n |-> value[k]]
    <3> HIDE DEF value
    <3> QED BY <1>6, <1>7
  <2> HIDE DEF value
  <2> QED BY <1>8, <2>1
<1> HIDE DEF value
<1> QED BY <1>7, <1>9, <1>10 DEF n
\* The digits of a path section, modulo the range of identity_t at each of them.
LEMMA ConvertedSteps ==
  ASSUME NEW name \in DOMAIN Digits
  PROVE  \E f \in [0..Len(Digits[name]) -> Identity] :
           /\ f[0] = 0 /\ \A k \in 1..Len(Digits[name]) : f[k] = (10 * f[k - 1] + Digits[name][k]) % IdRange
           /\ Converted(name) = f[Len(Digits[name])]
<1> DEFINE digits == Digits[name]
           n == Len(digits)
           rule(f) == f = [k \in 0..n |-> IF k = 0 THEN 0 ELSE (10 * f[k - 1] + digits[k]) % IdRange]
           step == [a \in Identity \X (1..n) |-> (10 * a[1] + digits[a[2]]) % IdRange]
           value == CHOOSE f : rule(f)
<1>1. digits \in Seq(0..9) /\ n \in Nat
  BY NodesAssumption
<1>2. IdRange \in Nat \ {0} /\ 0 \in Identity /\ \A v \in Identity : v \in Nat
  BY NodesAssumption DEF Identity
<1>3. ASSUME NEW k \in 1..n, NEW v \in Identity PROVE (10 * v + digits[k]) % IdRange \in Identity
  <2>1. digits[k] \in 0..9
    BY <1>1, ElementOfSeq
  <2>2. PICK x \in Nat : x = 10 * v + digits[k]
    BY <2>1, <1>2
  <2>3. x % IdRange \in 0..(IdRange - 1)
    BY <1>2
  <2> QED BY <2>2, <2>3 DEF Identity
<1>4. step \in [Identity \X (1..n) -> Identity]
  BY <1>3
<1>5. Converted(name) = value[n]
  BY DEF Converted
<1> HIDE DEF digits, n, step
<1>6. \E f : Iterates(f, n, Identity, 0, step)
  BY <1>1, <1>2, <1>4, Iteration
<1>7. PICK f \in [0..n -> Identity] : f[0] = 0 /\ \A k \in 1..n : f[k] = step[<<f[k - 1], k>>]
  BY <1>6 DEF Iterates
<1>8. ASSUME NEW k \in 1..n PROVE f[k] = (10 * f[k - 1] + digits[k]) % IdRange
  <2>1. f[k - 1] \in Identity
    BY <1>1
  <2>2. step[<<f[k - 1], k>>] = (10 * f[k - 1] + digits[k]) % IdRange
    BY <2>1 DEF step
  <2> QED BY <2>2, <1>7
<1>9. rule(f)
  BY <1>1, <1>7, <1>8
<1>10. rule(value)
  <2> HIDE DEF rule
  <2> QED BY <1>9
<1>11. /\ DOMAIN value = 0..n /\ value[0] = 0
       /\ \A k \in 1..n : value[k] = (10 * value[k - 1] + digits[k]) % IdRange
  <2> HIDE DEF value
  <2> QED BY <1>1, <1>10
<1>12. \A k \in 0..n : value[k] \in Identity
  <2> DEFINE Ids == {k \in 0..n : value[k] \in Identity}
  <2>1. 0 \in Ids
    BY <1>1, <1>2, <1>11
  <2>2. ASSUME NEW k \in 0..(n - 1), k \in Ids
        PROVE  k + 1 \in Ids
    <3>1. k + 1 \in 1..n /\ k + 1 - 1 = k /\ k + 1 \in 0..n
      BY <1>1
    <3> HIDE DEF value
    <3>2. value[k + 1] = (10 * value[k] + digits[k + 1]) % IdRange
      BY <3>1, <1>11
    <3> QED BY <2>2, <3>1, <3>2, <1>3
  <2>3. \A k \in 0..n : k \in Ids
    <3> HIDE DEF Ids
    <3> QED BY <1>1, <2>1, <2>2, Induction
  <2> QED BY <2>3
<1>13. value \in [0..n -> Identity]
  <2>1. value = [k \in 0..n |-> value[k]]
    <3> HIDE DEF value
    <3> QED BY <1>10, <1>11
  <2> HIDE DEF value
  <2> QED BY <1>12, <2>1
<1> HIDE DEF value
<1> QED BY <1>5, <1>11, <1>13 DEF n, digits

\* Taking the remainder at every digit or once at the end gives the same number.
LEMMA ConvertedIsDecimal ==
  ASSUME NEW name \in DOMAIN Digits
  PROVE  Converted(name) = Decimal(Digits[name]) % IdRange /\ Converted(name) \in Identity
<1> DEFINE digits == Digits[name]
           n == Len(digits)
           m == IdRange
<1>1. digits \in Seq(0..9) /\ digits \in Seq(Nat) /\ n \in Nat /\ m \in Nat \ {0}
  <2>1. digits \in Seq(0..9) /\ m \in Nat \ {0}
    BY NodesAssumption
  <2>2. 0..9 \subseteq Nat
    OBVIOUS
  <2> QED BY <2>1, <2>2, SeqMonotonic
<1>2. PICK f \in [0..n -> Nat] :
        /\ f[0] = 0 /\ \A k \in 1..n : f[k] = 10 * f[k - 1] + digits[k]
        /\ Decimal(digits) = f[n]
  BY <1>1, DecimalSteps
<1>3. PICK g \in [0..n -> Identity] :
        /\ g[0] = 0 /\ \A k \in 1..n : g[k] = (10 * g[k - 1] + digits[k]) % m
        /\ Converted(name) = g[n]
  BY ConvertedSteps
<1> HIDE DEF digits, n
<1> DEFINE Same == {k \in 0..n : \E q \in Nat : f[k] = m * q + g[k]}
<1>4. 0 \in Same
  <2>1. f[0] = m * 0 + g[0]
    BY <1>1, <1>2, <1>3
  <2>2. 0 \in 0..n /\ 0 \in Nat
    BY <1>1
  <2> QED BY <2>1, <2>2
<1>5. ASSUME NEW k \in 0..(n - 1), k \in Same
      PROVE  k + 1 \in Same
  <2>1. k + 1 \in 1..n /\ k + 1 - 1 = k /\ k + 1 \in 0..n
    BY <1>1
  <2>2. PICK q \in Nat : f[k] = m * q + g[k]
    BY <1>5
  <2>3. PICK d \in Nat : d = digits[k + 1]
    BY <1>1, <2>1, ElementOfSeq DEF n
  <2>4. f[k + 1] = 10 * f[k] + d /\ g[k + 1] = (10 * g[k] + d) % m
    BY <2>1, <2>3, <1>2, <1>3
  <2>5. PICK u \in Nat : u = g[k]
    BY <1>3, <1>1 DEF Identity
  <2>6. PICK p \in Nat, t \in 0..(m - 1) : 10 * u + d = m * p + t
    <3>1. PICK x \in Nat : x = 10 * u + d
      OBVIOUS
    <3> QED BY <3>1, <1>1, Division
  <2>7. g[k + 1] = t
    BY <2>4, <2>5, <2>6, <1>1, Remainder
  <2>8. f[k + 1] = 10 * (m * q + u) + d
    BY <2>2, <2>4, <2>5
  <2>9. 10 * (m * q + u) + d = m * (10 * q) + (10 * u + d)
    BY <1>1
  <2>10. m * (10 * q) + (m * p + t) = m * (10 * q + p) + t
    BY <1>1
  <2>11. PICK z \in Nat : z = 10 * q + p
    OBVIOUS
  <2>12. f[k + 1] = m * z + g[k + 1]
    BY <2>6, <2>7, <2>8, <2>9, <2>10, <2>11
  <2> QED BY <2>1, <2>12
<1>6. n \in Same
  <2> HIDE DEF Same
  <2>1. \A k \in 0..n : k \in Same
    BY <1>1, <1>4, <1>5, Induction
  <2> QED BY <2>1, <1>1
<1>7. PICK q \in Nat : f[n] = m * q + g[n]
  BY <1>6
<1>8. g[n] \in 0..(m - 1)
  BY <1>1, <1>3 DEF Identity
<1>9. f[n] % m = g[n]
  BY <1>1, <1>7, <1>8, Remainder
<1>10. g[n] \in Identity
  BY <1>8 DEF Identity
<1> QED BY <1>2, <1>3, <1>9, <1>10 DEF digits

-----------------------------------------------------------------------------
\* Where a path leads.
Place == [node : Nodes \cup {NoNode}, identity : Identity]

\* One section of the path: a directory entry is chosen, and a number becomes the
\* identity unless an entry has its name.
LEMMA EntryIsPlace ==
  ASSUME NEW n \in Nodes, NEW name, NEW id \in Identity
  PROVE  /\ FindEntry(n, name, id) \in Place
         /\ NumbersAreNoNames /\ FindEntry(n, name, id).node # NoNode =>
              FindEntry(n, name, id).identity = IF name \in DOMAIN Digits THEN Converted(name) ELSE id
<1> DEFINE hits == {i \in DOMAIN Entries[n] : Matches(Entries[n][i], name)}
           hit  == CHOOSE i \in hits : \A j \in hits : i <= j
           e    == Entries[n][hit]
           new  == Identified(e, name, id)
<1>1. FindEntry(n, name, id) = IF Kind[n] # "dir" \/ hits = {} THEN [node |-> NoNode, identity |-> id]
                               ELSE [node |-> e.node[new], identity |-> new]
  BY DEF FindEntry
<1>2. CASE Kind[n] # "dir" \/ hits = {}
  <2> HIDE DEF hits, e, new
  <2> QED BY <1>1, <1>2 DEF Place
<1>3. CASE ~(Kind[n] # "dir" \/ hits = {})
  <2>1. DOMAIN Entries[n] \subseteq Nat
    BY NodesAssumption
  <2>2. hits \subseteq Nat /\ hits # {}
    BY <1>3, <2>1
  <2>3. \E i \in hits : \A j \in hits : i <= j
    BY <2>2, LeastMember
  <2>4. hit \in hits
    <3> HIDE DEF hits
    <3> QED BY <2>3
  <2> HIDE DEF hit
  <2>5. hit \in DOMAIN Entries[n] /\ Matches(e, name)
    BY <2>4
  <2>6. e.node \in [Identity -> Nodes]
    BY <2>5, NodesAssumption
  <2>7. new \in Identity
    BY <2>5, ConvertedIsDecimal DEF Identified, Matches
  <2>8. NumbersAreNoNames => new = IF name \in DOMAIN Digits THEN Converted(name) ELSE id
    BY <2>5 DEF NumbersAreNoNames, Identified, Matches
  <2> HIDE DEF e, new, hits
  <2>9. FindEntry(n, name, id) = [node |-> e.node[new], identity |-> new]
    BY <1>1, <1>3
  <2> QED BY <2>6, <2>7, <2>8, <2>9 DEF Place
<1> QED BY <1>2, <1>3

\* The sections of a path are looked up one after the other.
LEMMA FoundSteps ==
  ASSUME NEW path \in Seq(STRING)
  PROVE  \E f \in [0..Len(path) -> Place] :
           /\ f[0] = [node |-> Root, identity |-> 0]
           /\ \A i \in 1..Len(path) :
                f[i] = IF f[i - 1].node = NoNode THEN f[i - 1]
                       ELSE FindEntry(f[i - 1].node, path[i], f[i - 1].identity)
           /\ Found(path) = f[Len(path)]
<1> DEFINE n == Len(path)
           start == [node |-> Root, identity |-> 0]
           next(place, name) == IF place.node = NoNode THEN place ELSE FindEntry(place.node, name, place.identity)
           rule(f) == f = [i \in 0..n |-> IF i = 0 THEN start ELSE next(f[i - 1], path[i])]
           step == [a \in Place \X (1..n) |-> next(a[1], path[a[2]])]
           at == CHOOSE f : rule(f)
<1>1. n \in Nat
  OBVIOUS
<1>2. start \in Place
  BY NodesAssumption DEF Place, Identity
<1>3. ASSUME NEW place \in Place, NEW name PROVE next(place, name) \in Place
  BY EntryIsPlace DEF Place
<1>4. Found(path) = at[n]
  <2>1. at = CHOOSE f : f = [i \in 0..Len(path) |->
               IF i = 0 THEN [node |-> Root, identity |-> 0]
               ELSE IF f[i - 1].node = NoNode THEN f[i - 1]
               ELSE FindEntry(f[i - 1].node, path[i], f[i - 1].identity)]
    OBVIOUS
  <2> HIDE DEF at
  <2> QED BY <2>1 DEF Found
<1> HIDE DEF n, start, next
<1>5. step \in [Place \X (1..n) -> Place]
  BY <1>3
<1> HIDE DEF step
<1>6. \E f : Iterates(f, n, Place, start, step)
  BY <1>1, <1>2, <1>5, Iteration
<1>7. PICK f \in [0..n -> Place] : f[0] = start /\ \A k \in 1..n : f[k] = step[<<f[k - 1], k>>]
  BY <1>6 DEF Iterates
<1>8. ASSUME NEW k \in 1..n PROVE f[k] = next(f[k - 1], path[k])
  <2>1. f[k - 1] \in Place
    BY <1>1
  <2>2. step[<<f[k - 1], k>>] = next(f[k - 1], path[k])
    BY <2>1 DEF step
  <2> QED BY <2>2, <1>7
<1>9. rule(f)
  BY <1>1, <1>7, <1>8
<1>10. rule(at)
  <2> HIDE DEF rule
  <2> QED BY <1>9
<1>11. DOMAIN at = 0..n /\ at[0] = start /\ \A i \in 1..n : at[i] = next(at[i - 1], path[i])
  <2> HIDE DEF at
  <2> QED BY <1>1, <1>10
<1>12. \A k \in 0..n : at[k] \in Place
  <2> DEFINE Places == {k \in 0..n : at[k] \in Place}
  <2>1. 0 \in Places
    BY <1>1, <1>2, <1>11
  <2>2. ASSUME NEW k \in 0..(n - 1), k \in Places
        PROVE  k + 1 \in Places
    <3>1. k + 1 \in 1..n /\ k + 1 - 1 = k /\ k + 1 \in 0..n
      BY <1>1
    <3> HIDE DEF at
    <3>2. at[k + 1] = next(at[k], path[k + 1])
      BY <3>1, <1>11
    <3> QED BY <2>2, <3>1, <3>2, <1>3
  <2>3. \A k \in 0..n : k \in Places
    <3> HIDE DEF Places
    <3> QED BY <1>1, <2>1, <2>2, Induction
  <2> QED BY <2>3
<1>13. at \in [0..n -> Place]
  <2>1. at = [k \in 0..n |-> at[k]]
    <3> HIDE DEF at
    <3> QED BY <1>10, <1>11
  <2> HIDE DEF at
  <2> QED BY <1>12, <2>1
<1> HIDE DEF at
<1> QED BY <1>4, <1>11, <1>13 DEF n, start, next

\* The item found is the one that the last number of the path counts.
LEMMA ItemFound ==
  ASSUME NEW r, r.target \in Seq(STRING)
  PROVE  /\ Found(r.target) \in Place
         /\ NumbersAreNoNames /\ Lookup(r.target) # NoNode => Found(r.target).identity = DeclaredIdentity(r)
<1> DEFINE path == r.target
           n == Len(path)
<1>1. n \in Nat /\ DOMAIN path = 1..n
  OBVIOUS
<1>2. PICK f \in [0..n -> Place] :
        /\ f[0] = [node |-> Root, identity |-> 0]
        /\ \A i \in 1..n : f[i] = IF f[i - 1].node = NoNode THEN f[i - 1]
                                  ELSE FindEntry(f[i - 1].node, path[i], f[i - 1].identity)
        /\ Found(path) = f[n]
  BY FoundSteps
<1> DEFINE LastNumber(k, l) == /\ l \in 1..k /\ path[l] \in DOMAIN Digits
                         /\ \A j \in (l + 1)..k : path[j] \notin DOMAIN Digits
           Item(k) == \/ f[k].identity = 0 /\ \A j \in 1..k : path[j] \notin DOMAIN Digits
                      \/ \E l \in 1..k : LastNumber(k, l) /\ f[k].identity = Converted(path[l])
           Right == {k \in 0..n : f[k].node # NoNode => Item(k)}
<1>3. 0 \in Right
  BY <1>1, <1>2
<1>4. ASSUME NumbersAreNoNames, NEW k \in 0..(n - 1), k \in Right
      PROVE  k + 1 \in Right
  <2>1. k + 1 \in 1..n /\ k + 1 - 1 = k /\ k + 1 \in 0..n
    BY <1>1
  <2> SUFFICES ASSUME f[k + 1].node # NoNode PROVE Item(k + 1)
    BY <2>1
  <2>2. f[k + 1] = IF f[k].node = NoNode THEN f[k] ELSE FindEntry(f[k].node, path[k + 1], f[k].identity)
    BY <2>1, <1>2
  <2>3. f[k].node # NoNode /\ f[k + 1] = FindEntry(f[k].node, path[k + 1], f[k].identity)
    BY <2>2
  <2>4. f[k].node \in Nodes /\ f[k].identity \in Identity
    <3>9. k \in 0..n
      BY <1>1
    <3>1. f[k] \in Place
      BY <3>9
    <3> QED BY <2>3, <3>1 DEF Place
  <2>5. f[k + 1].identity = IF path[k + 1] \in DOMAIN Digits THEN Converted(path[k + 1]) ELSE f[k].identity
    BY <1>4, <2>3, <2>4, EntryIsPlace
  <2>6. CASE path[k + 1] \in DOMAIN Digits
    <3>1. LastNumber(k + 1, k + 1)
      BY <2>1, <2>6
    <3> QED BY <3>1, <2>1, <2>5, <2>6
  <2>7. CASE path[k + 1] \notin DOMAIN Digits
    <3>1. \A j \in 1..(k + 1) : j \in 1..k \/ j = k + 1
      OBVIOUS
    <3>2. Item(k)
      BY <1>4, <2>3
    <3>3. CASE f[k].identity = 0 /\ \A j \in 1..k : path[j] \notin DOMAIN Digits
      BY <3>1, <3>3, <2>5, <2>7
    <3>4. ASSUME NEW l \in 1..k, LastNumber(k, l), f[k].identity = Converted(path[l])
          PROVE  Item(k + 1)
      <4>1. \A j \in (l + 1)..(k + 1) : j \in (l + 1)..k \/ j = k + 1
        OBVIOUS
      <4>2. LastNumber(k + 1, l) /\ l \in 1..(k + 1)
        BY <3>4, <4>1, <2>7
      <4> QED BY <4>2, <3>4, <2>5, <2>7
    <3> QED BY <3>2, <3>3, <3>4
  <2> QED BY <2>6, <2>7
<1>5. ASSUME NumbersAreNoNames PROVE n \in Right
  <2>1. ASSUME NEW k \in 0..(n - 1), k \in Right PROVE k + 1 \in Right
    BY <1>4, <1>5, <2>1
  <2> HIDE DEF Right
  <2>2. \A k \in 0..n : k \in Right
    BY <1>1, <1>3, <2>1, Induction
  <2> QED BY <2>2, <1>1
<1>6. ASSUME NumbersAreNoNames, f[n].node # NoNode
      PROVE  f[n].identity = DeclaredIdentity(r)
  <2> DEFINE numbers == {i \in DOMAIN path : path[i] \in DOMAIN Digits}
  <2>1. Item(n)
    BY <1>5, <1>6
  <2>2. CASE f[n].identity = 0 /\ \A j \in 1..n : path[j] \notin DOMAIN Digits
    <3>1. numbers = {}
      BY <1>1, <2>2
    <3> QED BY <2>2, <3>1 DEF DeclaredIdentity
  <2>3. ASSUME NEW l \in 1..n, LastNumber(n, l), f[n].identity = Converted(path[l])
        PROVE  f[n].identity = DeclaredIdentity(r)
    <3>1. l \in numbers
      BY <1>1, <2>3
    <3>2. ASSUME NEW j \in numbers PROVE j <= l
      BY <1>1, <2>3
    <3>3. ASSUME NEW i \in numbers, \A j \in numbers : j <= i PROVE i = l
      <4>1. l <= i /\ i <= l /\ i \in Int /\ l \in Int
        BY <3>1, <3>2, <3>3, <1>1
      <4> QED BY <4>1
    <3>4. (CHOOSE i \in numbers : \A j \in numbers : j <= i) = l
      <4> HIDE DEF numbers
      <4> QED BY <3>1, <3>2, <3>3
    <3>5. DeclaredIdentity(r) = Decimal(Digits[path[l]]) % IdRange
      BY <3>1, <3>4 DEF DeclaredIdentity
    <3>6. Converted(path[l]) = Decimal(Digits[path[l]]) % IdRange
      BY <2>3, ConvertedIsDecimal
    <3> QED BY <2>3, <3>5, <3>6
  <2> QED BY <2>1, <2>2, <2>3
<1>7. f[n] \in Place
  BY <1>1
<1> HIDE DEF n
<1> QED BY <1>2, <1>6, <1>7 DEF Lookup

-----------------------------------------------------------------------------
\* Tokens of a request.
Token == [t : {"method"}, val : STRING]
         \cup [t : {"target"}, val : Seq(STRING), form : {"plain", "long", "malformed"}]
         \cup [t : {"version"}, val : STRING]
         \cup HeaderLine
         \cup [t : {"blank"}]
         \cup [t : {"char"}, val : Char]

HeadLength(r)    == Len(r.headers) + 4
RequestLength(r) == HeadLength(r) + Len(r.body)

\* ab is a, of m items, followed by b, of n items.
Joined(S, a, m, b, n, ab) ==
  /\ ab \in Seq(S) /\ Len(ab) = m + n
  /\ \A i \in 1..m : ab[i] = a[i]
  /\ \A i \in 1..n : ab[m + i] = b[i]

LEMMA ConcatJoins ==
  ASSUME NEW S, NEW a \in Seq(S), NEW b \in Seq(S), NEW m \in Nat, NEW n \in Nat,
         Len(a) = m, Len(b) = n
  PROVE  Joined(S, a, m, b, n, a \o b)
<1>1. a \o b \in Seq(S)
  OBVIOUS
<1>2. Len(a \o b) = m + n
  OBVIOUS
<1>3. ASSUME NEW i \in 1..m PROVE (a \o b)[i] = a[i]
  <2>1. i \in 1..(Len(a) + Len(b)) /\ i <= Len(a)
    OBVIOUS
  <2> QED BY <2>1
<1>4. ASSUME NEW i \in 1..n PROVE (a \o b)[m + i] = b[i]
  <2>1. m + i \in 1..(Len(a) + Len(b)) /\ ~(m + i <= Len(a)) /\ m + i - Len(a) = i
    OBVIOUS
  <2> QED BY <2>1
<1> QED BY <1>1, <1>2, <1>3, <1>4 DEF Joined

\* Four sequences in a row, the first of three items and the third of one.
InARow(S, a, m, b, c, n, d, all) ==
  /\ all \in Seq(S) /\ Len(all) = m + 4 + n
  /\ \A i \in 1..3 : all[i] = a[i]
  /\ \A i \in 1..m : all[3 + i] = b[i]
  /\ all[m + 4] = c[1]
  /\ \A i \in 1..n : all[m + 4 + i] = d[i]

LEMMA ConcatFour ==
  ASSUME NEW S, NEW a \in Seq(S), NEW b \in Seq(S), NEW c \in Seq(S), NEW d \in Seq(S),
         NEW m \in Nat, NEW n \in Nat, Len(a) = 3, Len(b) = m, Len(c) = 1, Len(d) = n
  PROVE  InARow(S, a, m, b, c, n, d, a \o b \o c \o d)
<1> DEFINE ab  == a \o b
           abc == ab \o c
           all == abc \o d
<1>1. PICK p \in Nat, q \in Nat : p = 3 + m /\ q = p + 1
  OBVIOUS
<1>2. Joined(S, a, 3, b, m, ab)
  BY ConcatJoins
<1> HIDE DEF ab
<1>3. /\ ab \in Seq(S) /\ Len(ab) = p
      /\ \A i \in 1..3 : ab[i] = a[i]
      /\ \A i \in 1..m : ab[3 + i] = b[i]
  BY <1>1, <1>2 DEF Joined
<1>4. Joined(S, ab, p, c, 1, abc)
  BY <1>3, ConcatJoins
<1> HIDE DEF abc
<1>5. /\ abc \in Seq(S) /\ Len(abc) = q
      /\ \A i \in 1..p : abc[i] = ab[i]
      /\ \A i \in 1..1 : abc[p + i] = c[i]
  BY <1>1, <1>4 DEF Joined
<1>6. Joined(S, abc, q, d, n, all)
  BY <1>5, ConcatJoins
<1> HIDE DEF all
<1>7. /\ all \in Seq(S) /\ Len(all) = q + n
      /\ \A i \in 1..q : all[i] = abc[i]
      /\ \A i \in 1..n : all[q + i] = d[i]
  BY <1>6 DEF Joined
<1>8. ASSUME NEW i \in 1..3 PROVE all[i] = a[i]
  <2>1. i \in 1..p /\ i \in 1..q
    BY <1>1
  <2> QED BY <2>1, <1>3, <1>5, <1>7
<1>9. ASSUME NEW i \in 1..m PROVE all[3 + i] = b[i]
  <2>1. 3 + i \in 1..p /\ 3 + i \in 1..q
    BY <1>1
  <2> QED BY <2>1, <1>3, <1>5, <1>7
<1>10. all[m + 4] = c[1]
  <2>1. m + 4 = p + 1 /\ m + 4 \in 1..q /\ 1 \in 1..1
    BY <1>1
  <2> QED BY <2>1, <1>5, <1>7
<1>11. ASSUME NEW i \in 1..n PROVE all[m + 4 + i] = d[i]
  <2>1. m + 4 + i = q + i
    BY <1>1
  <2> QED BY <2>1, <1>7
<1>12. all \in Seq(S) /\ Len(all) = m + 4 + n
  <2>1. m + 4 + n = q + n
    BY <1>1
  <2> QED BY <2>1, <1>7
<1>13. InARow(S, a, m, b, c, n, d, all)
  BY <1>8, <1>9, <1>10, <1>11, <1>12 DEF InARow
<1> QED BY <1>13 DEF all, abc, ab

\* The tokens of a request, one by one.
Spells(tokens, r) ==
  /\ tokens \in Seq(Token) /\ Len(tokens) = RequestLength(r)
  /\ tokens[1] = [t |-> "method", val |-> r.method]
  /\ tokens[2] = [t |-> "target", val |-> r.target, form |-> r.form]
  /\ tokens[3] = [t |-> "version", val |-> r.version]
  /\ \A j \in 1..Len(r.headers) : tokens[3 + j] = r.headers[j]
  /\ tokens[HeadLength(r)] = [t |-> "blank"]
  /\ \A i \in 1..Len(r.body) : tokens[HeadLength(r) + i] = [t |-> "char", val |-> r.body[i]]

LEMMA RequestLengths ==
  ASSUME NEW r \in Request
  PROVE  /\ Len(r.headers) \in Nat /\ Len(r.body) \in Nat
         /\ HeadLength(r) \in Nat /\ RequestLength(r) \in Nat
         /\ HeadLength(r) = Len(r.headers) + 4 /\ RequestLength(r) = HeadLength(r) + Len(r.body)
         /\ HeadLength(r) <= RequestLength(r)
<1>1. Len(r.headers) \in Nat /\ Len(r.body) \in Nat
  BY DEF Request
<1>2. PICK m \in Nat, n \in Nat : m = Len(r.headers) /\ n = Len(r.body)
  BY <1>1
<1>3. HeadLength(r) = m + 4 /\ RequestLength(r) = HeadLength(r) + n
  BY <1>2 DEF HeadLength, RequestLength
<1>4. m + 4 \in Nat /\ m + 4 + n \in Nat /\ m + 4 <= m + 4 + n
  OBVIOUS
<1>5. RequestLength(r) = m + 4 + n
  BY <1>3
<1>6. HeadLength(r) \in Nat /\ RequestLength(r) \in Nat /\ HeadLength(r) <= RequestLength(r)
  BY <1>3, <1>4, <1>5
<1>7. HeadLength(r) = Len(r.headers) + 4 /\ RequestLength(r) = HeadLength(r) + Len(r.body)
  BY <1>2, <1>3
<1> QED BY <1>2, <1>6, <1>7

LEMMA TokensOfRequest == ASSUME NEW r \in Request PROVE Spells(Tokens(r), r)
<1> DEFINE line  == <<[t |-> "method", val |-> r.method],
                      [t |-> "target", val |-> r.target, form |-> r.form],
                      [t |-> "version", val |-> r.version]>>
           blank == <<[t |-> "blank"]>>
           chars == [i \in DOMAIN r.body |-> [t |-> "char", val |-> r.body[i]]]
           all   == line \o r.headers \o blank \o chars
<1>1. /\ r.headers \in Seq(HeaderLine)
      /\ r.body \in Seq(Char) /\ DOMAIN r.body = 1..Len(r.body)
      /\ r.method \in STRING /\ r.version \in STRING /\ r.target \in Seq(STRING)
      /\ r.form \in {"plain", "long", "malformed"}
  BY DEF Request
<1>2. PICK m \in Nat, n \in Nat : m = Len(r.headers) /\ n = Len(r.body)
  BY RequestLengths
<1>3. line \in Seq(Token) /\ Len(line) = 3
  BY <1>1 DEF Token
<1>4. r.headers \in Seq(Token)
  <2>1. HeaderLine \subseteq Token
    BY DEF Token
  <2> QED BY <1>1, <2>1, SeqMonotonic
<1>5. blank \in Seq(Token) /\ Len(blank) = 1
  BY DEF Token
<1>6. chars \in Seq(Token) /\ Len(chars) = n
  <2>1. \A i \in 1..Len(r.body) : [t |-> "char", val |-> r.body[i]] \in Token
    BY <1>1, ElementOfSeq DEF Token
  <2>2. chars \in [1..n -> Token]
    BY <1>1, <1>2, <2>1
  <2> HIDE DEF chars
  <2> QED BY <2>2
<1>7. /\ line[1] = [t |-> "method", val |-> r.method]
      /\ line[2] = [t |-> "target", val |-> r.target, form |-> r.form]
      /\ line[3] = [t |-> "version", val |-> r.version]
      /\ blank[1] = [t |-> "blank"]
      /\ \A i \in 1..n : chars[i] = [t |-> "char", val |-> r.body[i]]
  BY <1>1, <1>2
<1>8. Tokens(r) = all
  BY DEF Tokens, MessageHead
<1> HIDE DEF line, blank, chars
<1>9. /\ all \in Seq(Token) /\ Len(all) = m + 4 + n
      /\ \A i \in 1..3 : all[i] = line[i]
      /\ \A i \in 1..m : all[3 + i] = r.headers[i]
      /\ all[m + 4] = blank[1]
      /\ \A i \in 1..n : all[m + 4 + i] = chars[i]
  <2>1. InARow(Token, line, m, r.headers, blank, n, chars, all)
    BY <1>2, <1>3, <1>4, <1>5, <1>6, ConcatFour
  <2> HIDE DEF all
  <2> QED BY <2>1 DEF InARow
<1> HIDE DEF all
<1>10. Len(all) = RequestLength(r) /\ HeadLength(r) = m + 4
  BY <1>2, <1>9 DEF HeadLength, RequestLength
<1>11. all[1] = line[1] /\ all[2] = line[2] /\ all[3] = line[3]
  BY <1>9
<1> QED BY <1>2, <1>7, <1>8, <1>9, <1>10, <1>11 DEF Spells

\* What kind of token stands where.
LEMMA TokenKinds ==
  ASSUME NEW r \in Request, NEW i \in 1..RequestLength(r)
  PROVE  /\ Tokens(r)[i].t = "blank" <=> i = HeadLength(r)
         /\ Tokens(r)[i].t = "char" <=> i > HeadLength(r)
         /\ i > HeadLength(r) => /\ i - HeadLength(r) \in 1..Len(r.body)
                                 /\ Tokens(r)[i] = [t |-> "char", val |-> r.body[i - HeadLength(r)]]
         /\ i > 3 /\ i < HeadLength(r) => i - 3 \in 1..Len(r.headers) /\ Tokens(r)[i] = r.headers[i - 3]
<1>1. PICK m \in Nat, n \in Nat : /\ m = Len(r.headers) /\ n = Len(r.body)
                                  /\ HeadLength(r) = m + 4 /\ RequestLength(r) = m + 4 + n
  BY RequestLengths
<1>2. Spells(Tokens(r), r)
  BY TokensOfRequest
<1>3. /\ Tokens(r)[1].t = "method" /\ Tokens(r)[2].t = "target" /\ Tokens(r)[3].t = "version"
      /\ Tokens(r)[m + 4].t = "blank"
  BY <1>1, <1>2 DEF Spells
<1>4. \A j \in 1..m : Tokens(r)[3 + j] = r.headers[j] /\ r.headers[j].t = "header"
  <2>1. \A j \in 1..m : r.headers[j] \in HeaderLine
    BY <1>1, ElementOfSeq DEF Request
  <2>2. \A h \in HeaderLine : h.t = "header"
    BY DEF HeaderLine
  <2> QED BY <1>1, <1>2, <2>1, <2>2 DEF Spells
<1>5. \A j \in 1..n : Tokens(r)[m + 4 + j] = [t |-> "char", val |-> r.body[j]]
  BY <1>1, <1>2 DEF Spells
<1>6. CASE i \in 1..3
  <2>1. i = 1 \/ i = 2 \/ i = 3
    BY <1>6
  <2> QED BY <1>1, <1>3, <2>1
<1>7. CASE i \in 4..(m + 3)
  <2>1. i - 3 \in 1..m /\ 3 + (i - 3) = i /\ i # m + 4 /\ ~(i > m + 4)
    BY <1>7
  <2>2. Tokens(r)[i] = r.headers[i - 3] /\ Tokens(r)[i].t = "header"
    BY <1>4, <2>1
  <2> QED BY <1>1, <2>1, <2>2
<1>8. CASE i = m + 4
  BY <1>1, <1>3, <1>8
<1>9. CASE i \in (m + 5)..(m + 4 + n)
  <2>1. i - (m + 4) \in 1..n /\ m + 4 + (i - (m + 4)) = i /\ i # m + 4 /\ i > m + 4 /\ ~(i < m + 4)
    BY <1>9
  <2>2. Tokens(r)[i] = [t |-> "char", val |-> r.body[i - (m + 4)]]
    BY <1>5, <2>1
  <2> QED BY <1>1, <2>1, <2>2
<1>10. i \in 1..3 \/ i \in 4..(m + 3) \/ i = m + 4 \/ i \in (m + 5)..(m + 4 + n)
  <2>1. i \in 1..(m + 4 + n)
    BY <1>1
  <2> QED BY <2>1
<1> QED BY <1>6, <1>7, <1>8, <1>9, <1>10

-----------------------------------------------------------------------------
\* tokens are those of request r behind the k-th, up to the n-th.
IsPart(tokens, r, k, n) ==
  /\ k \in Nat /\ n \in Nat /\ k <= n /\ n <= RequestLength(r)
  /\ tokens \in Seq(Token) /\ Len(tokens) = n - k
  /\ \A i \in 1..(n - k) : tokens[i] = Tokens(r)[k + i]

LEMMA WholePart == ASSUME NEW r \in Request PROVE IsPart(Tokens(r), r, 0, RequestLength(r))
<1>1. PICK l \in Nat : l = RequestLength(r)
  BY RequestLengths
<1>2. Tokens(r) \in Seq(Token) /\ Len(Tokens(r)) = l
  BY <1>1, TokensOfRequest DEF Spells
<1>3. l - 0 = l /\ 0 <= l /\ \A i \in 1..l : 0 + i = i
  OBVIOUS
<1> QED BY <1>1, <1>2, <1>3 DEF IsPart

\* Reading the first token of a part.
LEMMA PartFirst ==
  ASSUME NEW tokens, NEW r \in Request, NEW k, NEW n, IsPart(tokens, r, k, n)
  PROVE  /\ tokens = <<>> <=> k = n
         /\ k # n => /\ tokens[1] = Tokens(r)[k + 1] /\ k + 1 \in 1..RequestLength(r)
                     /\ IsPart(Tail(tokens), r, k + 1, n)
<1>1. PICK l \in Nat : l = RequestLength(r)
  BY RequestLengths
<1>2. k \in Nat /\ n \in Nat /\ k <= n /\ n <= l /\ tokens \in Seq(Token) /\ Len(tokens) = n - k
  BY <1>1 DEF IsPart
<1>3. \A i \in 1..(n - k) : tokens[i] = Tokens(r)[k + i]
  BY DEF IsPart
<1>4. tokens = <<>> <=> k = n
  BY <1>2
<1>5. ASSUME k # n
      PROVE  /\ tokens[1] = Tokens(r)[k + 1] /\ k + 1 \in 1..l
             /\ IsPart(Tail(tokens), r, k + 1, n)
  <2>1. tokens # <<>> /\ 1 \in 1..(n - k) /\ k + 1 \in 1..l /\ k + 1 \in Nat /\ k + 1 <= n
    BY <1>2, <1>5
  <2>2. /\ Tail(tokens) \in Seq(Token) /\ Len(Tail(tokens)) = Len(tokens) - 1
        /\ \A i \in 1..(Len(tokens) - 1) : Tail(tokens)[i] = tokens[i + 1]
    BY <2>1, <1>2, HeadTailProperties
  <2>3. Len(tokens) - 1 = n - (k + 1)
    BY <1>2
  <2>4. ASSUME NEW i \in 1..(n - (k + 1)) PROVE Tail(tokens)[i] = Tokens(r)[k + 1 + i]
    <3>1. i + 1 \in 1..(n - k) /\ k + (i + 1) = k + 1 + i
      BY <1>2
    <3>2. Tail(tokens)[i] = tokens[i + 1]
      BY <2>2, <2>3
    <3> QED BY <3>1, <3>2, <1>3
  <2> QED BY <1>1, <1>2, <1>3, <2>1, <2>2, <2>3, <2>4 DEF IsPart
<1> QED BY <1>1, <1>4, <1>5

\* Cutting a part in two.
LEMMA PartCut ==
  ASSUME NEW tokens, NEW r \in Request, NEW k, NEW n, IsPart(tokens, r, k, n), NEW m \in 0..(n - k)
  PROVE  /\ IsPart(SubSeq(tokens, 1, m), r, k, k + m)
         /\ IsPart(SubSeq(tokens, m + 1, Len(tokens)), r, k + m, n)
<1>1. PICK l \in Nat : l = RequestLength(r)
  BY RequestLengths
<1>2. k \in Nat /\ n \in Nat /\ k <= n /\ n <= l /\ tokens \in Seq(Token) /\ Len(tokens) = n - k
  BY <1>1 DEF IsPart
<1>3. \A i \in 1..(n - k) : tokens[i] = Tokens(r)[k + i]
  BY DEF IsPart
<1>4. \A i \in 1..(n - k) : tokens[i] \in Token
  BY <1>2, ElementOfSeq
<1>5. IsPart(SubSeq(tokens, 1, m), r, k, k + m)
  <2>1. /\ SubSeq(tokens, 1, m) \in Seq(Token) /\ Len(SubSeq(tokens, 1, m)) = m
        /\ \A i \in 1..m : SubSeq(tokens, 1, m)[i] = tokens[i]
    <3>1. \A i \in 1..m : tokens[i] \in Token
      BY <1>2, <1>4
    <3> QED BY <3>1, SubSeqProperties
  <2>2. k + m \in Nat /\ k <= k + m /\ k + m <= l /\ k + m - k = m
    BY <1>2
  <2>3. \A i \in 1..m : SubSeq(tokens, 1, m)[i] = Tokens(r)[k + i]
    BY <1>2, <1>3, <2>1
  <2> QED BY <1>1, <1>2, <2>1, <2>2, <2>3 DEF IsPart
<1>6. IsPart(SubSeq(tokens, m + 1, n - k), r, k + m, n)
  <2> DEFINE rest == SubSeq(tokens, m + 1, n - k)
  <2>1. PICK a \in Nat, b \in Nat : a = m + 1 /\ b = n - k
    BY <1>2
  <2>2. \A i \in a..b : tokens[i] \in Token
    BY <1>2, <1>4, <2>1
  <2>3. /\ SubSeq(tokens, a, b) \in Seq(Token)
        /\ Len(SubSeq(tokens, a, b)) = IF a <= b THEN b - a + 1 ELSE 0
        /\ \A i \in 1..(b - a + 1) : SubSeq(tokens, a, b)[i] = tokens[a + i - 1]
    BY <2>1, <2>2, SubSeqProperties
  <2>4. rest = SubSeq(tokens, a, b)
    BY <2>1
  <2> HIDE DEF rest
  <2>5. b - a + 1 = n - (k + m) /\ (a <= b \/ n - (k + m) = 0)
    BY <1>2, <2>1
  <2>6. rest \in Seq(Token) /\ Len(rest) = n - (k + m)
    BY <2>3, <2>4, <2>5
  <2>7. ASSUME NEW i \in 1..(n - (k + m)) PROVE rest[i] = Tokens(r)[k + m + i]
    <3>1. a + i - 1 = m + i /\ m + i \in 1..(n - k) /\ k + (m + i) = k + m + i
      BY <1>2, <2>1
    <3>2. rest[i] = tokens[m + i]
      BY <2>3, <2>4, <2>5, <3>1
    <3> QED BY <3>1, <3>2, <1>3
  <2>8. k + m \in Nat /\ k + m <= n
    BY <1>2
  <2>9. IsPart(rest, r, k + m, n)
    BY <1>1, <1>2, <2>6, <2>7, <2>8 DEF IsPart
  <2> QED BY <2>9 DEF rest
<1> QED BY <1>2, <1>5, <1>6

-----------------------------------------------------------------------------
\* What may wait on a connection for the server: characters that a former message
\* has left, and behind them the tokens of the request sent since.
Leftover(tokens) == \A i \in DOMAIN tokens : tokens[i].t = "char"

Preceded(tokens, p, r) ==
  /\ p \in Nat /\ tokens \in Seq(Token) /\ Len(tokens) = p + RequestLength(r)
  /\ \A i \in 1..p : tokens[i].t = "char"
  /\ \A i \in 1..RequestLength(r) : tokens[p + i] = Tokens(r)[i]

Fresh(tokens, r) == \E p \in 0..Len(tokens) : Preceded(tokens, p, r)

LEMMA FreshRequest ==
  ASSUME NEW r \in Request, NEW tokens \in Seq(Token), Leftover(tokens)
  PROVE  Fresh(tokens \o Tokens(r), r)
<1>1. PICK p \in Nat, l \in Nat : p = Len(tokens) /\ l = RequestLength(r)
  BY RequestLengths
<1>2. Tokens(r) \in Seq(Token) /\ Len(Tokens(r)) = l
  BY <1>1, TokensOfRequest DEF Spells
<1>3. Joined(Token, tokens, p, Tokens(r), l, tokens \o Tokens(r))
  BY <1>1, <1>2, ConcatJoins
<1>4. \A i \in 1..p : tokens[i].t = "char"
  BY <1>1 DEF Leftover
<1>5. Preceded(tokens \o Tokens(r), p, r)
  <2> DEFINE all == tokens \o Tokens(r)
  <2> HIDE DEF all
  <2>1. Joined(Token, tokens, p, Tokens(r), l, all)
    BY <1>3 DEF all
  <2>2. Preceded(all, p, r)
    BY <2>1, <1>1, <1>4 DEF Joined, Preceded
  <2> QED BY <2>2 DEF all
<1>6. p \in 0..Len(tokens \o Tokens(r))
  <2>1. Len(tokens \o Tokens(r)) = p + l
    BY <1>3 DEF Joined
  <2> QED BY <2>1
<1> QED BY <1>5, <1>6 DEF Fresh

\* The sizes of the packets that the network may make of a part of a request.
LEMMA PartSizes ==
  ASSUME NEW tokens, NEW r \in Request, NEW k, NEW l, l = RequestLength(r),
         IsPart(tokens, r, k, l), tokens # <<>>, NEW m \in PacketSizes(tokens)
  PROVE  /\ m \in 1..(l - k)
         /\ k < HeadLength(r) => k + m >= HeadLength(r)
         /\ Cuts # "any" => k + m \in {HeadLength(r), l}
         /\ Cuts # "any" /\ k >= HeadLength(r) => k + m = l
<1>1. PICK h \in Nat : h = HeadLength(r) /\ l \in Nat /\ h <= l
  BY RequestLengths
<1>2. /\ k \in Nat /\ k < l /\ tokens \in Seq(Token) /\ Len(tokens) = l - k
      /\ DOMAIN tokens = 1..(l - k)
      /\ \A i \in 1..(l - k) : tokens[i] = Tokens(r)[k + i]
  BY <1>1 DEF IsPart
<1>3. ASSUME NEW i \in DOMAIN tokens PROVE tokens[i].t = "blank" <=> k + i = h
  <2>1. k + i \in 1..RequestLength(r)
    BY <1>1, <1>2
  <2>2. Tokens(r)[k + i].t = "blank" <=> k + i = HeadLength(r)
    BY <2>1, TokenKinds
  <2> QED BY <2>2, <1>1, <1>2
<1> DEFINE Blanks == {i \in DOMAIN tokens : tokens[i].t = "blank"}
           Inner  == {i \in DOMAIN tokens : \A j \in Blanks : j <= i}
<1>4. \/ m = Len(tokens)
      \/ Cuts = "body" /\ m \in Blanks
      \/ Cuts = "any" /\ m \in Inner
  BY ServiceAssumption DEF PacketSizes
<1>5. CASE m = Len(tokens)
  <2>1. m \in 1..(l - k) /\ k + m = l
    BY <1>1, <1>2, <1>5
  <2> QED BY <1>1, <2>1
<1>6. CASE Cuts = "body" /\ m \in Blanks
  <2>1. m \in 1..(l - k) /\ k + m = h
    BY <1>2, <1>3, <1>6
  <2>2. ~(k >= h)
    BY <2>1, <1>1, <1>2
  <2> QED BY <1>1, <2>1, <2>2
<1>7. CASE Cuts = "any" /\ m \in Inner
  <2>1. m \in 1..(l - k) /\ \A j \in Blanks : j <= m
    BY <1>2, <1>7
  <2>2. ASSUME k < h PROVE k + m >= h
    <3>1. h - k \in DOMAIN tokens /\ k + (h - k) = h
      BY <1>1, <1>2, <2>2
    <3>2. h - k \in Blanks
      BY <3>1, <1>3
    <3>3. h - k <= m
      BY <3>2, <2>1
    <3> QED BY <3>3, <1>1, <1>2, <2>1
  <2> QED BY <1>1, <1>7, <2>1, <2>2
<1> QED BY <1>4, <1>5, <1>6, <1>7

\* The rest of a wire that has only characters behind the m-th token.
LEMMA LeftoverRest ==
  ASSUME NEW tokens \in Seq(Token), NEW m \in Nat, NEW l \in Nat, l = Len(tokens),
         \A i \in (m + 1)..l : tokens[i] \in Token /\ tokens[i].t = "char"
  PROVE  Leftover(SubSeq(tokens, m + 1, l))
<1> DEFINE rest == SubSeq(tokens, m + 1, l)
<1>1. PICK a \in Nat : a = m + 1
  OBVIOUS
<1>2. /\ SubSeq(tokens, a, l) \in Seq(Token)
      /\ Len(SubSeq(tokens, a, l)) = IF a <= l THEN l - a + 1 ELSE 0
      /\ \A i \in 1..(l - a + 1) : SubSeq(tokens, a, l)[i] = tokens[a + i - 1]
  BY <1>1, SubSeqProperties
<1>3. rest = SubSeq(tokens, a, l)
  BY <1>1
<1> HIDE DEF rest
<1>4. ASSUME NEW i \in DOMAIN rest PROVE rest[i].t = "char"
  <2>1. i \in 1..(l - a + 1) /\ a + i - 1 \in (m + 1)..l
    BY <1>1, <1>2, <1>3, <1>4
  <2> QED BY <1>2, <1>3, <2>1
<1> QED BY <1>4 DEF Leftover, rest

\* The first packet of a request has its whole head; it may begin with what a former
\* message has left.
LEMMA FirstPacket ==
  ASSUME NEW tokens, NEW r \in Request, NEW l, l = RequestLength(r), Fresh(tokens, r),
         NEW m \in PacketSizes(tokens)
  PROVE  LET packet == SubSeq(tokens, 1, m)
             rest   == SubSeq(tokens, m + 1, Len(tokens))
         IN  \/ packet # <<>> /\ packet[1].t = "char" /\ Leftover(rest)
             \/ /\ m \in Nat /\ HeadLength(r) <= m /\ (Cuts # "any" => m \in {HeadLength(r), l})
                /\ IsPart(packet, r, 0, m) /\ IsPart(rest, r, m, l)
<1>1. PICK h \in Nat : h = HeadLength(r) /\ l \in Nat /\ h <= l /\ 0 < h
  <2>1. PICK n \in Nat : n = Len(r.headers) /\ HeadLength(r) = n + 4
    BY RequestLengths
  <2> QED BY <2>1, RequestLengths
<1>2. PICK p : Preceded(tokens, p, r)
  BY DEF Fresh
<1>3. CASE p = 0
  <2>1. IsPart(tokens, r, 0, l) /\ tokens # <<>>
    <3>1. tokens \in Seq(Token) /\ Len(tokens) = l
      BY <1>1, <1>2, <1>3 DEF Preceded
    <3>2. \A i \in 1..l : tokens[i] = Tokens(r)[0 + i]
      BY <1>1, <1>2, <1>3 DEF Preceded
    <3>3. l - 0 = l /\ 0 <= l
      BY <1>1
    <3>4. tokens # <<>>
      BY <1>1, <3>1
    <3> QED BY <1>1, <3>1, <3>2, <3>3, <3>4 DEF IsPart
  <2>2. m \in 1..(l - 0) /\ 0 + m >= HeadLength(r) /\ (Cuts # "any" => 0 + m \in {HeadLength(r), l})
    BY <1>1, <2>1, PartSizes
  <2>3. m \in 0..(l - 0) /\ 0 + m = m /\ m \in Nat
    BY <1>1, <2>2
  <2>4. IsPart(SubSeq(tokens, 1, m), r, 0, 0 + m) /\ IsPart(SubSeq(tokens, m + 1, Len(tokens)), r, 0 + m, l)
    BY <2>1, <2>3, PartCut
  <2> QED BY <1>1, <2>2, <2>3, <2>4
<1>4. CASE p # 0
  <2>1. p \in Nat /\ p > 0 /\ tokens \in Seq(Token) /\ Len(tokens) = p + l /\ tokens[1].t = "char"
    BY <1>1, <1>2, <1>4 DEF Preceded
  <2>2. m \in 1..(p + l)
    <3>1. m = Len(tokens) \/ m \in DOMAIN tokens
      BY ServiceAssumption DEF PacketSizes
    <3> QED BY <1>1, <2>1, <3>1
  <2>3. /\ Len(SubSeq(tokens, 1, m)) = m /\ SubSeq(tokens, 1, m) \in Seq(Token)
        /\ \A i \in 1..m : SubSeq(tokens, 1, m)[i] = tokens[i]
    <3>1. \A i \in 1..m : tokens[i] \in Token
      BY <1>1, <2>1, <2>2, ElementOfSeq
    <3> QED BY <2>2, <3>1, SubSeqProperties
  <2>4. SubSeq(tokens, 1, m) # <<>> /\ SubSeq(tokens, 1, m)[1].t = "char"
    BY <1>1, <2>1, <2>2, <2>3
  <2>5. ASSUME NEW i \in 1..l
        PROVE  /\ p + i \in DOMAIN tokens /\ tokens[p + i] = Tokens(r)[i]
               /\ tokens[p + i].t = "blank" <=> i = h
               /\ tokens[p + i].t = "char" <=> i > h
    <3>1. i \in 1..RequestLength(r) /\ p + i \in 1..(p + l) /\ p + i \in DOMAIN tokens
      BY <1>1, <2>1
    <3>2. tokens[p + i] = Tokens(r)[i]
      BY <1>2, <3>1 DEF Preceded
    <3>3. /\ Tokens(r)[i].t = "blank" <=> i = HeadLength(r)
          /\ Tokens(r)[i].t = "char" <=> i > HeadLength(r)
      BY <3>1, TokenKinds
    <3> QED BY <1>1, <3>1, <3>2, <3>3
  <2>6. m >= p + h
    <3>1. h \in 1..l /\ p + h \in DOMAIN tokens /\ tokens[p + h].t = "blank"
      BY <1>1, <2>5
    <3>2. ASSUME NEW i \in DOMAIN tokens, tokens[i].t = "blank" PROVE i = p + h
      <4>1. i \in 1..(p + l)
        BY <2>1, <3>2
      <4>2. CASE i \in 1..p
        BY <1>2, <3>2, <4>2 DEF Preceded
      <4>3. CASE i > p
        <5>1. i - p \in 1..l /\ p + (i - p) = i
          BY <1>1, <2>1, <4>1, <4>3
        <5> QED BY <1>1, <2>1, <2>5, <3>2, <4>1, <5>1
      <4> QED BY <1>1, <2>1, <4>1, <4>2, <4>3
    <3>3. \/ m = Len(tokens)
          \/ m \in DOMAIN tokens /\ tokens[m].t = "blank"
          \/ m \in DOMAIN tokens /\ \A j \in DOMAIN tokens : tokens[j].t = "blank" => j <= m
      BY ServiceAssumption DEF PacketSizes
    <3>4. CASE m = Len(tokens)
      BY <1>1, <2>1, <3>4
    <3>5. CASE m \in DOMAIN tokens /\ tokens[m].t = "blank"
      BY <1>1, <2>1, <2>2, <3>2, <3>5
    <3>6. CASE \A j \in DOMAIN tokens : tokens[j].t = "blank" => j <= m
      BY <1>1, <2>1, <2>2, <3>1, <3>6
    <3> QED BY <3>3, <3>4, <3>5, <3>6
  <2>7. ASSUME NEW i \in (m + 1)..(p + l) PROVE tokens[i] \in Token /\ tokens[i].t = "char"
    <3>1. i - p \in 1..l /\ p + (i - p) = i /\ i - p > h /\ i \in 1..(p + l)
      BY <1>1, <2>1, <2>2, <2>6
    <3> QED BY <1>1, <2>1, <2>5, <3>1, ElementOfSeq
  <2>8. Leftover(SubSeq(tokens, m + 1, Len(tokens)))
    BY <1>1, <2>1, <2>2, <2>7, LeftoverRest
  <2> QED BY <2>4, <2>8
<1> QED BY <1>3, <1>4

\* A packet of characters that a former message has left.
LEMMA LeftoverPacket ==
  ASSUME NEW tokens \in Seq(Token), tokens # <<>>, Leftover(tokens), NEW m \in PacketSizes(tokens)
  PROVE  /\ SubSeq(tokens, 1, m) # <<>> /\ SubSeq(tokens, 1, m)[1].t = "char"
         /\ Leftover(SubSeq(tokens, m + 1, Len(tokens)))
<1>1. PICK l \in Nat : l = Len(tokens) /\ l > 0 /\ DOMAIN tokens = 1..l
  OBVIOUS
<1>2. m \in 1..l
  <2>1. m = Len(tokens) \/ m \in DOMAIN tokens
    BY ServiceAssumption DEF PacketSizes
  <2> QED BY <1>1, <2>1
<1>3. /\ Len(SubSeq(tokens, 1, m)) = m /\ SubSeq(tokens, 1, m) \in Seq(Token)
      /\ \A i \in 1..m : SubSeq(tokens, 1, m)[i] = tokens[i]
  <2>1. \A i \in 1..m : tokens[i] \in Token
    BY <1>1, <1>2, ElementOfSeq
  <2> QED BY <1>2, <2>1, SubSeqProperties
<1>4. Leftover(SubSeq(tokens, m + 1, Len(tokens)))
  <2>1. \A i \in (m + 1)..l : i \in 1..l
    BY <1>2
  <2>2. \A i \in (m + 1)..l : tokens[i] \in Token /\ tokens[i].t = "char"
    BY <1>1, <2>1, ElementOfSeq DEF Leftover
  <2> QED BY <1>1, <1>2, <2>2, LeftoverRest
<1> QED BY <1>1, <1>2, <1>3, <1>4 DEF Leftover

-----------------------------------------------------------------------------
\* The head of a message after j of its header lines: every field has the value of
\* the latest line that names it, the i-th.
Latest(r, name, j, i) ==
  \/ i = 0 /\ \A l \in 1..j : r.headers[l].name # name
  \/ i \in 1..j /\ r.headers[i].name = name /\ \A l \in (i + 1)..j : r.headers[l].name # name

LengthRead(m, r, j) ==
  \E i \in 0..j : /\ Latest(r, "Content-Length", j, i)
                  /\ Has(m.requ, "content_length") <=> i # 0
                  /\ i # 0 => m.requ.clen = r.headers[i].len

TypeRead(m, r, j) ==
  \E i \in 0..j : /\ Latest(r, "Content-Type", j, i)
                  /\ i = 0 => m.requ.ctype = "unknown"
                  /\ i # 0 => m.requ.ctype = r.headers[i].val

KeepRead(m, r, j) ==
  \E i \in 0..j : /\ Latest(r, "Connection", j, i)
                  /\ m.requ.keep <=> i # 0 /\ r.headers[i].val = "keep-alive"

TargetRead(m, r) ==
  /\ m.requ.method = r.method
  /\ m.target = Lookup(r.target)
  /\ m.target # NoNode => m.requ.identity = DeclaredIdentity(r)

HeadRead(m, r, j) ==
  /\ TargetRead(m, r) /\ m.requ.version = r.version
  /\ LengthRead(m, r, j) /\ TypeRead(m, r, j) /\ KeepRead(m, r, j)

LEMMA LatestNext ==
  ASSUME NEW r, NEW name, NEW j \in Nat, NEW i \in 0..j, Latest(r, name, j, i)
  PROVE  /\ r.headers[j + 1].name = name => Latest(r, name, j + 1, j + 1)
         /\ r.headers[j + 1].name # name => Latest(r, name, j + 1, i)
<1>1. r.headers[j + 1].name = name => Latest(r, name, j + 1, j + 1)
  BY DEF Latest
<1>2. ASSUME r.headers[j + 1].name # name PROVE Latest(r, name, j + 1, i)
  <2>1. CASE i = 0 /\ \A l \in 1..j : r.headers[l].name # name
    <3>1. \A l \in 1..(j + 1) : l \in 1..j \/ l = j + 1
      OBVIOUS
    <3> QED BY <2>1, <3>1, <1>2 DEF Latest
  <2>2. CASE i \in 1..j /\ r.headers[i].name = name /\ \A l \in (i + 1)..j : r.headers[l].name # name
    <3>1. i \in 1..(j + 1) /\ \A l \in (i + 1)..(j + 1) : l \in (i + 1)..j \/ l = j + 1
      BY <2>2
    <3> QED BY <2>2, <3>1, <1>2 DEF Latest
  <2> QED BY <2>1, <2>2 DEF Latest
<1> QED BY <1>1, <1>2

\* The latest of all header lines is the one the client meant.
LEMMA LatestDeclared ==
  ASSUME NEW r \in Request, NEW name, NEW i \in 0..Len(r.headers), Latest(r, name, Len(r.headers), i)
  PROVE  (i # 0 <=> Declares(r, name)) /\ (i # 0 => LastField(r, name) = r.headers[i])
<1>1. PICK m \in Nat : m = Len(r.headers) /\ DOMAIN r.headers = 1..m
  BY DEF Request
<1>2. CASE i = 0 /\ \A l \in 1..m : r.headers[l].name # name
  <2>1. FieldsNamed(r, name) = {}
    BY <1>1, <1>2 DEF FieldsNamed
  <2> QED BY <1>2, <2>1 DEF Declares
<1>3. CASE i \in 1..m /\ r.headers[i].name = name /\ \A l \in (i + 1)..m : r.headers[l].name # name
  <2>1. i \in FieldsNamed(r, name) /\ i # 0
    BY <1>1, <1>3 DEF FieldsNamed
  <2>2. ASSUME NEW j \in FieldsNamed(r, name) PROVE j \in 1..m /\ j <= i
    <3>1. j \in 1..m /\ r.headers[j].name = name
      BY <1>1 DEF FieldsNamed
    <3>2. j \notin (i + 1)..m
      BY <1>3, <3>1
    <3> QED BY <1>3, <3>1, <3>2
  <2>3. ASSUME NEW k \in FieldsNamed(r, name), \A j \in FieldsNamed(r, name) : j <= k
        PROVE  k = i
    BY <1>3, <2>1, <2>2, <2>3
  <2>4. (CHOOSE k \in FieldsNamed(r, name) : \A j \in FieldsNamed(r, name) : j <= k) = i
    BY <2>1, <2>2, <2>3
  <2> QED BY <2>1, <2>4 DEF Declares, LastField
<1> QED BY <1>1, <1>2, <1>3 DEF Latest

\* When all header lines are read, the head is the one the client sent.
LEMMA HeadComplete ==
  ASSUME NEW r \in Request, NEW m, HeadRead(m, r, Len(r.headers))
  PROVE  HeadIs(m, r)
<1>1. PICK i \in 0..Len(r.headers) : /\ Latest(r, "Content-Length", Len(r.headers), i)
                                     /\ Has(m.requ, "content_length") <=> i # 0
                                     /\ i # 0 => m.requ.clen = r.headers[i].len
  BY DEF HeadRead, LengthRead
<1>2. /\ Has(m.requ, "content_length") <=> Declares(r, "Content-Length")
      /\ Declares(r, "Content-Length") => m.requ.clen = LastField(r, "Content-Length").len
  BY <1>1, LatestDeclared
<1>3. PICK k \in 0..Len(r.headers) : /\ Latest(r, "Content-Type", Len(r.headers), k)
                                     /\ k = 0 => m.requ.ctype = "unknown"
                                     /\ k # 0 => m.requ.ctype = r.headers[k].val
  BY DEF HeadRead, TypeRead
<1>4. m.requ.ctype = DeclaredType(r)
  BY <1>3, LatestDeclared DEF DeclaredType
<1>5. PICK l \in 0..Len(r.headers) : /\ Latest(r, "Connection", Len(r.headers), l)
                                     /\ m.requ.keep <=> l # 0 /\ r.headers[l].val = "keep-alive"
  BY DEF HeadRead, KeepRead
<1>6. m.requ.keep <=> DeclaredKeep(r)
  BY <1>5, LatestDeclared DEF DeclaredKeep
<1> QED BY <1>2, <1>4, <1>6 DEF HeadRead, TargetRead, HeadIs

\* Reading one header line.
LEMMA HeaderRead ==
  ASSUME NEW r \in Request, RegularHead(r), NEW m, GoodMsg(m),
         NEW j \in 0..(Len(r.headers) - 1), HeadRead(m, r, j)
  PROVE  LET n == HeaderEffect(m, r.headers[j + 1])
         IN  HeadRead(n, r, j + 1) /\ n.state = m.state /\ n.own = m.own
<1> DEFINE h == r.headers[j + 1]
           n == HeaderEffect(m, h)
<1>1. PICK l \in Nat : l = Len(r.headers) /\ DOMAIN r.headers = 1..l
  BY DEF Request
<1>2. j \in Nat /\ j + 1 \in DOMAIN r.headers /\ j + 1 \in 1..(j + 1) /\ j + 1 # 0
      /\ \A i \in 0..j : i \in 0..(j + 1) /\ i # j + 1
  BY <1>1
<1>3. h.name = "Connection" => h.val \in {"keep-alive", "close"}
  BY <1>2 DEF RegularHead
<1>4. /\ DOMAIN m = {"state", "requ", "resp", "target", "own", "eof", "good", "result"}
      /\ DOMAIN m.requ = RequFields
  BY DEF GoodMsg
<1> HIDE DEF h
<1>5. /\ n.state = m.state /\ n.own = m.own /\ n.target = m.target
      /\ n.requ.method = m.requ.method /\ n.requ.identity = m.requ.identity
      /\ n.requ.version = m.requ.version
  BY <1>4 DEF HeaderEffect, RequFields
<1>6. /\ h.name = "Content-Length" => Has(n.requ, "content_length") /\ n.requ.clen = h.len
      /\ h.name # "Content-Length" => /\ Has(n.requ, "content_length") <=> Has(m.requ, "content_length")
                                      /\ n.requ.clen = m.requ.clen
  BY <1>4 DEF HeaderEffect, RequFields, Has
<1>7. /\ h.name = "Content-Type" => n.requ.ctype = h.val
      /\ h.name # "Content-Type" => n.requ.ctype = m.requ.ctype
  BY <1>4 DEF HeaderEffect, RequFields
<1>8. /\ h.name = "Connection" => (n.requ.keep <=> h.val = "keep-alive")
      /\ h.name # "Connection" => n.requ.keep = m.requ.keep
  BY <1>3, <1>4 DEF HeaderEffect, RequFields
<1> HIDE DEF n
<1>9. LengthRead(n, r, j + 1)
  <2>1. PICK i \in 0..j : /\ Latest(r, "Content-Length", j, i)
                          /\ Has(m.requ, "content_length") <=> i # 0
                          /\ i # 0 => m.requ.clen = r.headers[i].len
    BY DEF HeadRead, LengthRead
  <2>2. /\ h.name = "Content-Length" => Latest(r, "Content-Length", j + 1, j + 1)
        /\ h.name # "Content-Length" => Latest(r, "Content-Length", j + 1, i)
    BY <1>2, <2>1, LatestNext DEF h
  <2>3. CASE h.name = "Content-Length"
    BY <1>2, <1>6, <2>2, <2>3 DEF LengthRead, h
  <2>4. CASE h.name # "Content-Length"
    BY <1>2, <1>6, <2>1, <2>2, <2>4 DEF LengthRead
  <2> QED BY <2>3, <2>4
<1>10. TypeRead(n, r, j + 1)
  <2>1. PICK i \in 0..j : /\ Latest(r, "Content-Type", j, i)
                          /\ i = 0 => m.requ.ctype = "unknown"
                          /\ i # 0 => m.requ.ctype = r.headers[i].val
    BY DEF HeadRead, TypeRead
  <2>2. /\ h.name = "Content-Type" => Latest(r, "Content-Type", j + 1, j + 1)
        /\ h.name # "Content-Type" => Latest(r, "Content-Type", j + 1, i)
    BY <1>2, <2>1, LatestNext DEF h
  <2>3. CASE h.name = "Content-Type"
    BY <1>2, <1>7, <2>2, <2>3 DEF TypeRead, h
  <2>4. CASE h.name # "Content-Type"
    BY <1>2, <1>7, <2>1, <2>2, <2>4 DEF TypeRead
  <2> QED BY <2>3, <2>4
<1>11. KeepRead(n, r, j + 1)
  <2>1. PICK i \in 0..j : /\ Latest(r, "Connection", j, i)
                          /\ m.requ.keep <=> i # 0 /\ r.headers[i].val = "keep-alive"
    BY DEF HeadRead, KeepRead
  <2>2. /\ h.name = "Connection" => Latest(r, "Connection", j + 1, j + 1)
        /\ h.name # "Connection" => Latest(r, "Connection", j + 1, i)
    BY <1>2, <2>1, LatestNext DEF h
  <2>3. CASE h.name = "Connection"
    BY <1>2, <1>8, <2>2, <2>3 DEF KeepRead, h
  <2>4. CASE h.name # "Connection"
    BY <1>2, <1>8, <2>1, <2>2, <2>4 DEF KeepRead
  <2> QED BY <2>3, <2>4
<1>12. HeadRead(n, r, j + 1)
  BY <1>5, <1>9, <1>10, <1>11 DEF HeadRead, TargetRead
<1> QED BY <1>5, <1>12 DEF n, h

-----------------------------------------------------------------------------
\* The inductive invariant.  Where the network may have cut a request:
Cut(r, n) ==
  /\ n \in HeadLength(r)..RequestLength(r)
  /\ Cuts # "any" => n \in {HeadLength(r), RequestLength(r)}

Positions(r) == 0..RequestLength(r)

\* Connection c waits for what its request has behind the n-th token.
Awaits(c, n) == Cut(sent[c], n) /\ IsPart(wire[c], sent[c], n, RequestLength(sent[c]))

\* A connection that is not being served: nothing was sent, or the head of what was sent
\* was dropped behind a line break; nothing of a request was read; or it was read up to a
\* cut and its message is saved.
Quiet(c) ==
  \/ sent[c] \in Requests \cup {NoRequest} /\ Leftover(wire[c]) /\ pdo[c].state = Empty
  \/ sent[c] \in Requests /\ Fresh(wire[c], sent[c]) /\ pdo[c].state = Empty
  \/ sent[c] \in Requests /\ pdo[c].state = Body /\ \E n \in Positions(sent[c]) : Awaits(c, n)

\* The parser has read k tokens of the head of r.
Stage(m, r, k) ==
  \/ m.state = Method /\ k = 0 /\ m.requ = NewRequest /\ m.target = NoNode
  \/ m.state = Target /\ k = 1 /\ m.requ = [NewRequest EXCEPT !.method = r.method] /\ m.target = NoNode
  \/ m.state = Target /\ k = 2                          \* the path was not found
  \/ m.state = Version /\ k = 2 /\ TargetRead(m, r)
     /\ m.requ.fields = {} /\ m.requ.ctype = "unknown" /\ ~m.requ.keep
  \/ m.state = Header /\ \E j \in 0..Len(r.headers) : k = j + 3 /\ HeadRead(m, r, j)

Parsing(c) ==
  \/ /\ sent[c] \in Requests \cup {NoRequest} /\ Leftover(wire[c])
     /\ msg.state = Method /\ input # <<>> /\ input[1].t = "char"
  \/ /\ sent[c] \in Requests
     /\ msg.own \/ c \notin Storage
     /\ \E n \in Positions(sent[c]), k \in Positions(sent[c]) :
          Awaits(c, n) /\ IsPart(input, sent[c], k, n) /\ Stage(msg, sent[c], k)

\* Between the packets of a body nothing else is lost: unless bodies are cut anywhere,
\* the body begins with the packet, and a message that cannot be saved has all of it.
Reading(c) ==
  /\ sent[c] \in Requests /\ msg.state = Body /\ HeadIs(msg, sent[c])
  /\ \E n \in Positions(sent[c]), k \in Positions(sent[c]) :
       /\ Awaits(c, n) /\ Cut(sent[c], k) /\ IsPart(input, sent[c], k, n)
       /\ Cuts # "any" => /\ k = HeadLength(sent[c])
                          /\ msg.own \/ c \notin Storage \/ n = RequestLength(sent[c])

Answering(c) ==
  /\ sent[c] \in Requests /\ HeadIs(msg, sent[c])
  /\ \E n \in Positions(sent[c]) : Awaits(c, n)

Returning(c) ==
  /\ msg.result \in {"fragment", "keep"} =>
       /\ sent[c] \in Requests
       /\ \E n \in Positions(sent[c]) : Awaits(c, n)
       /\ msg.result = "fragment" => pdo[c].state = Body
  /\ msg.result = "empty" => sent[c] \in Requests \cup {NoRequest} /\ Leftover(wire[c])

Served(c) ==
  CASE phase = "parse"  -> Parsing(c)
    [] phase = "body"   -> Reading(c)
    [] phase = "finish" -> Answering(c)
    [] phase = "return" -> Returning(c)
    [] phase = "bad"    -> TRUE

SavedIsSent ==
  \A c \in Conns : pdo[c].state # Empty => sent[c] \in Requests /\ HeadIs(pdo[c], sent[c])

Framing ==
  /\ DOMAIN wire = Conns /\ DOMAIN sent = Conns
  /\ \A c \in Conns : wire[c] \in Seq(Token)
  /\ phase = "idle" <=> serving = NoConn
  /\ \A c \in Conns : IF c = serving THEN Served(c) ELSE Quiet(c)
  /\ SavedIsSent

-----------------------------------------------------------------------------
\* A step that leaves what concerns a waiting connection alone leaves it waiting.
LEMMA QuietStays ==
  ASSUME NEW c, Quiet(c), sent'[c] = sent[c], wire'[c] = wire[c], pdo'[c] = pdo[c]
  PROVE  Quiet(c)'
BY DEF Quiet, Awaits

\* The head of a message is in its request and its target.
SameHead(m, n) ==
  /\ n.target = m.target
  /\ n.requ.method = m.requ.method /\ n.requ.version = m.requ.version
  /\ n.requ.identity = m.requ.identity /\ n.requ.fields = m.requ.fields
  /\ n.requ.clen = m.requ.clen /\ n.requ.ctype = m.requ.ctype /\ n.requ.keep = m.requ.keep

LEMMA SameHeadIs ==
  ASSUME NEW m, NEW n, NEW r, SameHead(m, n), HeadIs(m, r)
  PROVE  HeadIs(n, r)
BY DEF SameHead, HeadIs, Has

\* The service works on the message of one connection.
LEMMA FramingInside ==
  ASSUME Clean, Framing, phase # "idle", UNCHANGED <<serving, sent, wire>>, phase' # "idle",
         Served(serving)',
         \/ UNCHANGED pdo
         \/ pdo' = [pdo EXCEPT ![serving] = NoState]
         \/ /\ sent[serving] \in Requests /\ HeadIs(msg, sent[serving])
            /\ pdo' = [pdo EXCEPT ![serving] = Saved(msg)]
  PROVE  Framing'
<1>1. serving \in Conns /\ serving # NoConn /\ DOMAIN pdo = Conns
  BY DEF Clean
<1>2. NoState.state = Empty /\ \A r : HeadIs(msg, r) => HeadIs(Saved(msg), r)
  BY DEF NoState, Saved, HeadIs, Has
<1>3. ASSUME NEW c \in Conns, c # serving PROVE Quiet(c)'
  <2>1. Quiet(c) /\ pdo'[c] = pdo[c]
    BY <1>1, <1>3 DEF Framing
  <2> QED BY <2>1, QuietStays
<1>4. SavedIsSent'
  <2>1. ASSUME NEW c \in Conns, pdo'[c].state # Empty PROVE sent[c] \in Requests /\ HeadIs(pdo'[c], sent[c])
    BY <1>1, <1>2, <2>1 DEF Framing, SavedIsSent
  <2> QED BY <2>1 DEF SavedIsSent, HeadIs
<1> QED BY <1>1, <1>3, <1>4 DEF Framing

\* The states of the parser are told apart by their numbers.
LEMMA ParserStates ==
  /\ Method # Target /\ Method # Version /\ Method # Header /\ Target # Version /\ Target # Header
  /\ Version # Header /\ Body # Empty /\ Body > Empty /\ ~(Empty > Empty)
BY DEF Method, Target, Version, Header, Body, Empty

\* Reading the head of a message: no token of it is lost and none is read twice.
LEMMA ParseFraming ==
  RegularRequests /\ NumbersAreNoNames /\ Clean /\ Progress /\ Framing /\ phase = "parse" /\ Parse => Framing'
<1> SUFFICES ASSUME RegularRequests, NumbersAreNoNames, Clean, Progress, Framing, phase = "parse", Parse
             PROVE  Framing'
  OBVIOUS
<1>1. serving \in Conns /\ Parsing(serving) /\ GoodMsg(msg)
  BY DEF Clean, Framing, Served, Progress
<1>2. UNCHANGED <<serving, sent, wire, pdo>> /\ phase' \in {"parse", "body", "bad", "return"}
  BY ServiceParts DEF client
<1>3. Served(serving)' => Framing'
  BY <1>2, FramingInside
<1>4. phase' = "bad" => Served(serving)'
  BY DEF Served
<1> DEFINE c == serving
           r == sent[serving]
<1>5. CASE /\ sent[c] \in Requests \cup {NoRequest} /\ Leftover(wire[c])
           /\ msg.state = Method /\ input # <<>> /\ input[1].t = "char"
  <2>1. phase' = "bad" \/ NoMessage
    BY <1>5, ParserStates DEF Parse, ReadMethod, NoMethod, ReadTarget, ReadVersion, ReadHeader, ReadBlank,
       ReadStray, EndOfInput, Consume, Goto
  <2>2. CASE NoMessage
    <3>1. msg'.result = "empty" /\ phase' = "return"
      BY <1>1, <2>2 DEF NoMessage, Goto, GoodMsg
    <3>2. Leftover(wire[c])'
      BY <1>2, <1>5 DEF Leftover
    <3>3. Returning(c)'
      BY <1>2, <1>5, <3>1, <3>2 DEF Returning
    <3> QED BY <1>3, <3>1, <3>3 DEF Served
  <2> QED BY <2>1, <2>2, <1>3, <1>4
<1>6. ASSUME r \in Requests, msg.own \/ c \notin Storage,
             NEW n \in Positions(r), NEW k \in Positions(r),
             Awaits(c, n), IsPart(input, r, k, n), Stage(msg, r, k)
      PROVE  Framing'
  <2>1. r \in Request /\ RegularHead(r)
    BY <1>6, ServiceAssumption DEF RegularRequests
  <2>2. PICK h \in Nat, l \in Nat, m \in Nat :
          h = HeadLength(r) /\ l = RequestLength(r) /\ h <= l /\ m = Len(r.headers) /\ h = m + 4
    BY <2>1, RequestLengths
  <2>3. n \in Nat /\ k \in Nat /\ h <= n /\ n <= l /\ n \in h..l
    BY <1>6, <2>2 DEF Awaits, Cut, Positions
  <2>4. ASSUME k < h
        PROVE  /\ input # <<>> /\ input[1] = Tokens(r)[k + 1] /\ k + 1 \in 1..l
               /\ IsPart(Tail(input), r, k + 1, n) /\ k + 1 \in Positions(r)
    <3>1. k # n /\ k + 1 \in 0..l
      BY <2>2, <2>3, <2>4
    <3> QED BY <1>6, <2>1, <2>2, <3>1, PartFirst DEF Positions
  <2>5. Spells(Tokens(r), r)
    BY <2>1, TokensOfRequest
  <2>6. Stage(msg, r, k) => k < h
    <3>1. \A j \in 0..Len(r.headers) : j + 3 < h
      BY <2>2
    <3> QED BY <2>2, <3>1 DEF Stage
  <2>7. ASSUME phase' = "parse", msg'.own = msg.own, input' = Tail(input), Stage(msg', r, k + 1)
        PROVE  Served(c)'
    <3>1. IsPart(input', r, k + 1, n) /\ k + 1 \in Positions(r)
      BY <1>6, <2>4, <2>6, <2>7
    <3>2. Awaits(c, n)'
      BY <1>2, <1>6 DEF Awaits
    <3>3. Parsing(c)'
      BY <1>2, <1>6, <2>7, <3>1, <3>2 DEF Parsing
    <3> QED BY <2>7, <3>3 DEF Served
  <2>8. CASE ReadMethod
    <3>1. msg.state = Method /\ k = 0 /\ msg.requ = NewRequest /\ msg.target = NoNode
      BY <1>6, <2>8, ParserStates DEF ReadMethod, Consume, Stage
    <3>2. input[1].val = r.method
      BY <1>6, <2>4, <2>5, <2>6, <3>1 DEF Spells
    <3>3. CASE phase' = "parse"
      <4>1. msg' = [msg EXCEPT !.state = Target, !.requ.method = r.method] /\ input' = Tail(input)
        BY <2>8, <3>2, <3>3 DEF ReadMethod, Goto, Consume
      <4>2. msg'.state = Target /\ msg'.own = msg.own /\ msg'.target = NoNode
            /\ msg'.requ = [NewRequest EXCEPT !.method = r.method]
        BY <1>1, <3>1, <4>1 DEF GoodMsg
      <4>3. Stage(msg', r, k + 1)
        BY <3>1, <4>2 DEF Stage
      <4> QED BY <2>7, <3>3, <4>1, <4>2, <4>3, <1>3
    <3>4. CASE phase' # "parse"
      BY <2>8, <3>4, <1>3, <1>4 DEF ReadMethod, Goto
    <3> QED BY <3>3, <3>4
  <2>9. CASE NoMethod
    BY <2>9, <1>3, <1>4 DEF NoMethod, Goto
  <2>17. CASE NoMessage
    <3>1. k = 0
      BY <1>6, <2>17, ParserStates DEF NoMessage, Stage
    <3>2. input[1].t = "method"
      BY <2>4, <2>5, <2>6, <1>6, <3>1 DEF Spells
    <3> QED BY <2>17, <3>2 DEF NoMessage, LineEnd
  <2>10. CASE ReadTarget
    <3>1. k = 1 /\ msg.requ = [NewRequest EXCEPT !.method = r.method] /\ msg.target = NoNode
      <4>1. msg.state = Target /\ input[1].t = "target"
        BY <2>10 DEF ReadTarget, Consume
      <4>2. k # 2
        BY <1>6, <2>4, <2>5, <2>6, <4>1 DEF Spells
      <4> QED BY <1>6, <4>1, <4>2, ParserStates DEF Stage
    <3>2. input[1].val = r.target /\ input' = Tail(input)
      <4>1. input[1] = [t |-> "target", val |-> r.target, form |-> r.form]
        BY <1>6, <2>4, <2>5, <2>6, <3>1 DEF Spells
      <4> QED BY <4>1, <2>10 DEF ReadTarget, Consume
    <3> DEFINE met == [msg.requ EXCEPT !.identity = Found(r.target).identity]
    <3>3. /\ met.method = r.method /\ met.identity = Found(r.target).identity
          /\ met.fields = {} /\ met.ctype = "unknown" /\ ~met.keep
      BY <3>1 DEF NewRequest
    <3>4. CASE phase' = "parse"
      <4> DEFINE lost == {i \in DOMAIN r.target : Lookup(SubSeq(r.target, 1, i)) = NoNode}
                 st   == IF lost = {Len(r.target)} THEN Version ELSE Target
      <4>1. \/ msg' = [msg EXCEPT !.resp = SetError(@, URI_Too_Long)]
            \/ msg' = [msg EXCEPT !.state = Version, !.requ = met, !.target = Lookup(r.target)]
               /\ Lookup(r.target) # NoNode
            \/ msg' = [msg EXCEPT !.state = st, !.requ = met, !.resp = SetError(@, Not_Found)]
               /\ Lookup(r.target) = NoNode
        BY <2>10, <3>2, <3>4 DEF ReadTarget, Goto
      <4>2. msg.state = Target /\ st \in {Version, Target}
        BY <2>10 DEF ReadTarget, Consume
      <4> HIDE DEF st, met
      <4>3. msg'.own = msg.own
        BY <4>1, <1>1 DEF GoodMsg
      <4>4. r.target \in Seq(STRING)
        BY <2>1 DEF Request
      <4>5. Stage(msg', r, 2)
        <5>1. CASE msg' = [msg EXCEPT !.resp = SetError(@, URI_Too_Long)]
          BY <4>2, <5>1, <1>1 DEF GoodMsg, Stage
        <5>2. CASE msg' = [msg EXCEPT !.state = Version, !.requ = met, !.target = Lookup(r.target)]
                   /\ Lookup(r.target) # NoNode
          <6>1. msg'.state = Version /\ msg'.requ = met /\ msg'.target = Lookup(r.target)
            BY <5>2, <1>1 DEF GoodMsg
          <6>2. TargetRead(msg', r)
            BY <3>3, <4>4, <5>2, <6>1, ItemFound DEF TargetRead
          <6> QED BY <3>3, <6>1, <6>2 DEF Stage
        <5>3. CASE msg' = [msg EXCEPT !.state = st, !.requ = met, !.resp = SetError(@, Not_Found)]
                   /\ Lookup(r.target) = NoNode
          <6>1. msg'.state = st /\ msg'.requ = met /\ msg'.target = NoNode
            BY <5>3, <3>1, <1>1 DEF GoodMsg
          <6>2. TargetRead(msg', r)
            BY <3>3, <5>3, <6>1 DEF TargetRead
          <6> QED BY <3>3, <4>2, <6>1, <6>2 DEF Stage
        <5> QED BY <4>1, <5>1, <5>2, <5>3
      <4> QED BY <2>7, <3>1, <3>2, <3>4, <4>3, <4>5, <1>3
    <3>5. CASE phase' # "parse"
      BY <2>10, <3>5, <1>3, <1>4 DEF ReadTarget, Goto
    <3> QED BY <3>4, <3>5
  <2>11. CASE ReadVersion
    <3>1. CASE phase' = "parse"
      <4>1. msg.state = Version /\ msg' = [msg EXCEPT !.state = Header, !.requ.version = input[1].val]
            /\ input' = Tail(input)
        BY <2>11, <3>1 DEF ReadVersion, Goto
      <4>2. k = 2 /\ TargetRead(msg, r) /\ msg.requ.fields = {} /\ msg.requ.ctype = "unknown" /\ ~msg.requ.keep
        BY <1>6, <4>1, ParserStates DEF Stage
      <4>3. input[1].val = r.version
        BY <1>6, <2>4, <2>5, <2>6, <4>2 DEF Spells
      <4>4. /\ msg'.state = Header /\ msg'.own = msg.own /\ msg'.target = msg.target
            /\ msg'.requ = [msg.requ EXCEPT !.version = r.version]
        BY <4>1, <4>3, <1>1 DEF GoodMsg
      <4>5. HeadRead(msg', r, 0)
        <5>1. TargetRead(msg', r) /\ msg'.requ.version = r.version /\ msg'.requ.fields = {}
              /\ msg'.requ.ctype = "unknown" /\ ~msg'.requ.keep
          BY <4>2, <4>4, <1>1 DEF TargetRead, GoodMsg, RequFields
        <5>2. 0 \in 0..0 /\ \A name : Latest(r, name, 0, 0)
          BY DEF Latest
        <5>3. LengthRead(msg', r, 0) /\ TypeRead(msg', r, 0) /\ KeepRead(msg', r, 0)
          BY <5>1, <5>2 DEF LengthRead, TypeRead, KeepRead, Has
        <5> QED BY <5>1, <5>3 DEF HeadRead
      <4>6. Stage(msg', r, k + 1)
        <5>1. k + 1 = 0 + 3 /\ 0 \in 0..Len(r.headers)
          BY <2>2, <4>2
        <5> QED BY <4>4, <4>5, <5>1 DEF Stage
      <4> QED BY <2>7, <3>1, <4>1, <4>4, <4>6, <1>3
    <3>2. CASE phase' # "parse"
      BY <2>11, <3>2, <1>3, <1>4 DEF ReadVersion, Goto
    <3> QED BY <3>1, <3>2
  <2>12. ASSUME msg.state = Header
         PROVE  \E j \in 0..m : /\ k = j + 3 /\ HeadRead(msg, r, j)
                                /\ input[1].t # "char"
                                /\ input[1].t = "blank" => j = m
                                /\ input[1].t = "header" => j < m /\ input[1] = r.headers[j + 1]
    <3>1. PICK j \in 0..m : k = j + 3 /\ HeadRead(msg, r, j)
      BY <1>6, <2>2, <2>12, ParserStates DEF Stage
    <3>2. k + 1 \in 1..l /\ input[1] = Tokens(r)[k + 1]
      BY <1>6, <2>4, <2>6
    <3>3. PICK i \in 1..RequestLength(r) : i = k + 1
      BY <2>2, <3>2
    <3>4. /\ Tokens(r)[i].t = "blank" <=> i = h
          /\ Tokens(r)[i].t = "char" <=> i > h
          /\ i > 3 /\ i < h => Tokens(r)[i] = r.headers[i - 3]
      BY <2>1, <2>2, TokenKinds
    <3>5. ~(i > h) /\ (i = h <=> j = m) /\ i > 3 /\ i - 3 = j + 1 /\ (j # m => i < h /\ j < m)
      BY <2>2, <3>1, <3>3
    <3>6. input[1].t = "header" => j # m
      BY <3>2, <3>3, <3>4, <3>5
    <3> QED BY <3>1, <3>2, <3>3, <3>4, <3>5, <3>6

  <2>13. CASE ReadHeader
    <3>1. msg.state = Header /\ input[1].t = "header" /\ phase' = "parse" /\ msg' = HeaderEffect(msg, input[1])
      BY <2>13 DEF ReadHeader, Goto
    <3>2. PICK j \in 0..m : k = j + 3 /\ HeadRead(msg, r, j) /\ j < m /\ input[1] = r.headers[j + 1]
      BY <2>12, <3>1
    <3>3. j \in 0..(Len(r.headers) - 1) /\ j + 1 \in DOMAIN r.headers
      BY <2>1, <2>2, <3>2 DEF Request
    <3>4. HeadRead(msg', r, j + 1) /\ msg'.state = msg.state /\ msg'.own = msg.own
      BY <1>1, <2>1, <3>1, <3>2, <3>3, HeaderRead
    <3>5. input' = Tail(input)
      BY <2>1, <2>13, <3>2, <3>3 DEF ReadHeader, EatsNextLine, RegularHead
    <3>6. Stage(msg', r, k + 1)
      <4>1. j + 1 \in 0..Len(r.headers) /\ k + 1 = j + 1 + 3
        BY <2>2, <3>2
      <4> QED BY <3>1, <3>4, <4>1 DEF Stage
    <3> QED BY <2>7, <3>1, <3>4, <3>5, <3>6, <1>3
  <2>14. CASE ReadBlank
    <3>1. /\ msg.state = Header /\ input[1].t = "blank" /\ phase' = "body" /\ input' = Tail(input)
          /\ msg' = [msg EXCEPT !.state = Body]
      BY <2>14 DEF ReadBlank, Goto, Consume
    <3>2. PICK j \in 0..m : k = j + 3 /\ HeadRead(msg, r, j) /\ j = m
      BY <2>12, <3>1
    <3>3. HeadIs(msg, r)
      BY <2>1, <2>2, <3>2, HeadComplete
    <3>4. msg'.state = Body /\ msg'.own = msg.own /\ HeadIs(msg', r)
      BY <1>1, <3>1, <3>3 DEF GoodMsg, HeadIs, Has
    <3>5. k + 1 = h
      BY <2>2, <3>2
    <3>6. IsPart(input', r, h, n) /\ h \in Positions(r)
      BY <1>6, <2>4, <2>6, <3>1, <3>5
    <3>7. Cut(r, h)
      BY <2>2 DEF Cut
    <3>8. Awaits(c, n)'
      BY <1>2, <1>6 DEF Awaits
    <3>9. Reading(c)'
      BY <1>2, <1>6, <2>2, <3>4, <3>6, <3>7, <3>8 DEF Reading
    <3> QED BY <3>1, <3>9, <1>3 DEF Served
  <2>15. CASE ReadStray
    BY <2>12, <2>15 DEF ReadStray
  <2>16. CASE EndOfInput
    BY <2>16, <1>3, <1>4 DEF EndOfInput, Goto
  <2> QED BY <2>8, <2>9, <2>10, <2>11, <2>13, <2>14, <2>15, <2>16, <2>17 DEF Parse
<1> QED BY <1>1, <1>5, <1>6 DEF Parsing

\* The target is processed with the head as it is; what the client accepts may be
\* added to it.
LEMMA ProcessHead ==
  ASSUME GoodMsg(msg), Process
  PROVE  \/ phase' = "bad"
         \/ phase' = "finish" /\ SameHead(msg, msg')
<1> DEFINE done == PutDone(Prepared, AfterPut(Prepared))
<1>1. GoodMsg(Prepared) /\ SameHead(msg, Prepared)
  <2>1. GoodMsg(Prepared)
    BY PreparedGood
  <2>2. SameHead(msg, Prepared)
    BY DEF Prepared, SameHead, GoodMsg, RequFields
  <2> QED BY <2>1, <2>2
<1>2. GoodMsg(done) /\ SameHead(msg, done)
  <2>1. GoodMsg(done) /\ done.requ = Prepared.requ
    BY <1>1, PutDoneGood
  <2>2. done.target = Prepared.target
    BY <1>1 DEF PutDone, GoodMsg
  <2> HIDE DEF done
  <2> QED BY <1>1, <2>1, <2>2 DEF SameHead
<1>3. ASSUME NEW m, GoodMsg(m), SameHead(msg, m), NEW values, GetReply(m, values)
      PROVE  SameHead(msg, msg')
  <2>1. msg'.requ = m.requ /\ msg'.target = m.target
    BY <1>3 DEF GetReply, GoodMsg
  <2> QED BY <1>3, <2>1 DEF SameHead
<1>4. CASE ProcessPut
  <2>1. msg' = done /\ phase' = "finish"
    BY <1>4 DEF ProcessPut, Processed
  <2> HIDE DEF done
  <2> QED BY <2>1, <1>2
<1>5. CASE ProcessPost
  <2>1. phase' = "finish" /\ (GetReply(done, store') \/ msg' = done)
    BY <1>5 DEF ProcessPost, Processed
  <2> HIDE DEF done
  <2> QED BY <2>1, <1>2, <1>3
<1>6. CASE ProcessGet
  BY <1>1, <1>3, <1>6 DEF ProcessGet, Processed
<1>7. CASE ProcessOther
  <2>1. phase' = "finish" /\ msg'.requ = Prepared.requ /\ msg'.target = Prepared.target
    BY <1>1, <1>7 DEF ProcessOther, Processed, GoodMsg
  <2> QED BY <1>1, <2>1 DEF SameHead
<1>8. CASE SkipProcess
  BY <1>8 DEF SkipProcess, Processed, SameHead
<1>9. CASE NoTarget
  BY <1>9 DEF NoTarget, Goto
<1> QED BY <1>4, <1>5, <1>6, <1>7, <1>8, <1>9 DEF Process

LEMMA ProcessFraming == Clean /\ Progress /\ Framing /\ phase = "body" /\ Process => Framing'
<1> SUFFICES ASSUME Clean, Progress, Framing, phase = "body", Process
             PROVE  Framing'
  OBVIOUS
<1>1. serving \in Conns /\ Reading(serving) /\ GoodMsg(msg)
  BY DEF Clean, Framing, Served, Progress
<1>2. UNCHANGED <<serving, sent, wire, pdo>> /\ phase' \in {"finish", "bad"}
  BY ServiceParts DEF client
<1>3. Served(serving)' => Framing'
  BY <1>2, FramingInside
<1>4. CASE phase' = "bad"
  BY <1>3, <1>4 DEF Served
<1>5. CASE phase' = "finish"
  <2>1. SameHead(msg, msg')
    BY <1>1, <1>5, ProcessHead
  <2>2. sent[serving] \in Requests /\ HeadIs(msg', sent[serving])
    BY <1>1, <2>1, SameHeadIs DEF Reading
  <2>3. PICK n \in Positions(sent[serving]) : Awaits(serving, n)
    BY <1>1 DEF Reading
  <2>4. Awaits(serving, n)'
    BY <1>2, <2>3 DEF Awaits
  <2>5. Answering(serving)'
    BY <1>2, <2>2, <2>4 DEF Answering
  <2> QED BY <1>3, <1>5, <2>5 DEF Served
<1> QED BY <1>2, <1>4, <1>5

LEMMA FinishFraming == Clean /\ Progress /\ Framing /\ Finish => Framing'
<1> SUFFICES ASSUME Clean, Progress, Framing, Finish
             PROVE  Framing'
  OBVIOUS
<1>1. serving \in Conns /\ Served(serving) /\ GoodMsg(msg) /\ DOMAIN pdo = Conns
  BY ServiceParts DEF Clean, Framing, Progress
<1>2. UNCHANGED <<serving, sent, wire>> /\ phase' = "return" /\ phase # "idle"
  BY ServiceParts DEF client
<1>3. ASSUME Returning(serving)', UNCHANGED pdo \/ pdo' = [pdo EXCEPT ![serving] = NoState]
      PROVE  Framing'
  BY <1>2, <1>3, FramingInside DEF Served
<1>4. ASSUME phase = "finish"
      PROVE  /\ sent[serving] \in Requests /\ HeadIs(msg, sent[serving])
             /\ \E n \in Positions(sent[serving]) : Awaits(serving, n)'
  <2>1. Answering(serving)
    BY <1>1, <1>4 DEF Served
  <2> QED BY <1>2, <2>1 DEF Answering, Awaits
<1>5. CASE Pause
  <2>1. /\ pdo' = [pdo EXCEPT ![serving] = Saved(msg)] /\ msg' = [msg EXCEPT !.result = "fragment"]
        /\ phase = "finish" /\ msg.state = Body
    BY <1>5 DEF Pause, Return, IsFragment
  <2>2. pdo'[serving].state = Body
    BY <1>1, <2>1 DEF Saved
  <2>3. Returning(serving)'
    BY <1>2, <1>4, <2>1, <2>2 DEF Returning
  <2> QED BY <1>2, <1>4, <2>1, <2>3, FramingInside DEF Served
<1>6. CASE Fail
  <2> DEFINE m == IF IsFragment THEN [msg EXCEPT !.resp = SetError(@, Service_Unavailable)] ELSE msg
  <2>1. "result" \in DOMAIN m
    BY <1>1 DEF GoodMsg
  <2>2. msg' = [m EXCEPT !.result = IF m.good THEN "bad" ELSE "error"] /\ ClearOwn
    BY <1>6 DEF Fail, Return
  <2> HIDE DEF m
  <2>3. msg'.result \in {"bad", "error"}
    BY <2>1, <2>2
  <2> QED BY <1>3, <2>2, <2>3 DEF Returning, ClearOwn
<1>7. CASE Succeed
  <2>1. /\ msg'.result \in {"keep", "close"} /\ ClearOwn /\ phase = "finish"
    BY <1>1, <1>7 DEF Succeed, Return, GoodMsg
  <2>2. Returning(serving)'
    BY <1>2, <1>4, <2>1 DEF Returning
  <2> QED BY <1>3, <2>1, <2>2 DEF ClearOwn
<1>8. CASE BadMessage
  <2>1. msg'.result = "bad" /\ UNCHANGED pdo
    BY <1>1, <1>8 DEF BadMessage, Return, GoodMsg
  <2> QED BY <1>3, <2>1 DEF Returning
<1> QED BY <1>5, <1>6, <1>7, <1>8 DEF Finish

\* What is left behind the head of a request are characters.
LEMMA AwaitedIsLeftover ==
  ASSUME NEW c, sent[c] \in Requests, NEW n \in Positions(sent[c]), Awaits(c, n)
  PROVE  Leftover(wire[c])
<1> DEFINE r == sent[c]
<1>1. r \in Request
  BY ServiceAssumption
<1>2. PICK h \in Nat, l \in Nat : h = HeadLength(r) /\ l = RequestLength(r) /\ h <= l
  BY <1>1, RequestLengths
<1>3. n \in h..l /\ IsPart(wire[c], r, n, l)
  BY <1>2 DEF Awaits, Cut
<1>4. ASSUME NEW i \in DOMAIN wire[c] PROVE wire[c][i].t = "char"
  <2>1. i \in 1..(l - n)
    <3>1. wire[c] \in Seq(Token) /\ Len(wire[c]) = l - n
      BY <1>3 DEF IsPart
    <3> QED BY <1>4, <3>1
  <2>3. wire[c][i] = Tokens(r)[n + i]
    BY <1>3, <2>1 DEF IsPart
  <2>2. n + i \in 1..RequestLength(r) /\ n + i > HeadLength(r)
    BY <1>2, <1>3, <2>1
  <2> QED BY <1>1, <2>2, <2>3, TokenKinds
<1> QED BY <1>4 DEF Leftover

LEMMA SessionFraming == ClearOnKeep /\ Clean /\ Framing /\ Session => Framing'
<1> SUFFICES ASSUME ClearOnKeep, Clean, Framing, Session
             PROVE  Framing'
  OBVIOUS
<1>1. phase = "return" /\ serving \in Conns /\ Returning(serving) /\ DOMAIN pdo = Conns
  BY ServiceParts DEF Clean, Framing, Served
<1>2. phase' = "idle" /\ serving' = NoConn
  BY DEF Session, AwaitRest, KeepOpen, Ignore, Close, Deliver, Idle
<1>3. NoState.state = Empty
  BY DEF NoState
<1>4. CASE AwaitRest
  <2>1. UNCHANGED <<sent, wire, pdo>> /\ msg.result = "fragment"
    BY <1>4 DEF AwaitRest, client
  <2>2. Quiet(serving)
    BY <1>1, <2>1 DEF Returning, Quiet
  <2>3. \A c \in Conns : Quiet(c)'
    BY <2>1, <2>2, QuietStays DEF Framing
  <2>4. SavedIsSent'
    BY <2>1 DEF Framing, SavedIsSent, HeadIs
  <2> QED BY <1>2, <2>1, <2>3, <2>4, ServiceAssumption DEF Framing
<1>5. ASSUME NEW w \in Seq(Token), Leftover(w),
             wire' = [wire EXCEPT ![serving] = w],
             sent' = [sent EXCEPT ![serving] = NoRequest],
             pdo' = [pdo EXCEPT ![serving] = NoState]
      PROVE  Framing'
  <2>1. ASSUME NEW c \in Conns PROVE Quiet(c)'
    <3>1. CASE c = serving
      <4>1. sent'[c] = NoRequest /\ wire'[c] = w /\ pdo'[c] = NoState
        BY <1>1, <1>5, <3>1 DEF Framing
      <4> QED BY <1>3, <1>5, <4>1 DEF Quiet
    <3>2. CASE c # serving
      <4>1. Quiet(c) /\ sent'[c] = sent[c] /\ wire'[c] = wire[c] /\ pdo'[c] = pdo[c]
        BY <1>1, <1>5, <3>2 DEF Framing
      <4> QED BY <4>1, QuietStays
    <3> QED BY <3>1, <3>2
  <2>3. ASSUME NEW c \in Conns, pdo'[c].state # Empty PROVE sent'[c] \in Requests /\ HeadIs(pdo'[c], sent'[c])
    <3>1. c # serving /\ pdo'[c] = pdo[c] /\ sent'[c] = sent[c]
      BY <1>1, <1>3, <1>5, <2>3 DEF Framing
    <3> QED BY <2>3, <3>1 DEF Framing, SavedIsSent
  <2>4. SavedIsSent'
    BY <2>3 DEF SavedIsSent, HeadIs
  <2>5. DOMAIN wire' = Conns /\ DOMAIN sent' = Conns /\ \A c \in Conns : wire'[c] \in Seq(Token)
    BY <1>5 DEF Framing
  <2>6. \A c \in Conns : c # serving' /\ Quiet(c)'
    BY <1>2, <2>1, ServiceAssumption
  <2> QED BY <1>2, <2>4, <2>5, <2>6 DEF Framing
<1>6. CASE KeepOpen
  <2>1. PICK n \in Positions(sent[serving]) : sent[serving] \in Requests /\ Awaits(serving, n)
    BY <1>1, <1>6 DEF KeepOpen, Returning
  <2>2. Leftover(wire[serving])
    BY <2>1, AwaitedIsLeftover
  <2>3. wire' = [wire EXCEPT ![serving] = wire[serving]]
    BY <1>6 DEF KeepOpen, Deliver
  <2>4. wire[serving] \in Seq(Token)
    BY <1>1 DEF Framing
  <2> QED BY <1>5, <1>6, <2>2, <2>3, <2>4 DEF KeepOpen, Deliver
<1>7. CASE Close
  <2>1. <<>> \in Seq(Token) /\ Leftover(<<>>)
    BY DEF Leftover
  <2>2. wire' = [wire EXCEPT ![serving] = <<>>]
    BY <1>7 DEF Close, Deliver
  <2> QED BY <1>5, <1>7, <2>1, <2>2 DEF Close, Deliver
<1>8. CASE Ignore
  <2>1. UNCHANGED <<sent, wire>> /\ msg.result = "empty" /\ pdo' = [pdo EXCEPT ![serving] = NoState]
    BY <1>8 DEF Ignore, client
  <2>2. sent[serving] \in Requests \cup {NoRequest} /\ Leftover(wire[serving])
    BY <1>1, <2>1 DEF Returning
  <2>3. ASSUME NEW c \in Conns PROVE Quiet(c)'
    <3>1. CASE c = serving
      <4>1. sent'[c] = sent[c] /\ wire'[c] = wire[c] /\ pdo'[c] = NoState
        BY <1>1, <2>1, <3>1
      <4>2. Leftover(wire[c])'
        BY <2>2, <3>1, <4>1 DEF Leftover
      <4> QED BY <1>3, <2>2, <3>1, <4>1, <4>2 DEF Quiet
    <3>2. CASE c # serving
      <4>1. Quiet(c) /\ sent'[c] = sent[c] /\ wire'[c] = wire[c] /\ pdo'[c] = pdo[c]
        BY <1>1, <2>1, <3>2 DEF Framing
      <4> QED BY <4>1, QuietStays
    <3> QED BY <3>1, <3>2
  <2>4. ASSUME NEW c \in Conns, pdo'[c].state # Empty PROVE sent'[c] \in Requests /\ HeadIs(pdo'[c], sent'[c])
    <3>1. c # serving /\ pdo'[c] = pdo[c] /\ sent'[c] = sent[c]
      BY <1>1, <1>3, <2>1, <2>4
    <3> QED BY <2>4, <3>1 DEF Framing, SavedIsSent
  <2>5. SavedIsSent'
    BY <2>4 DEF SavedIsSent, HeadIs
  <2>6. \A c \in Conns : c # serving' /\ Quiet(c)'
    BY <1>2, <2>3, ServiceAssumption
  <2> QED BY <1>2, <2>1, <2>5, <2>6 DEF Framing
<1> QED BY <1>4, <1>6, <1>7, <1>8 DEF Session

LEMMA FramingInit == Init => Framing
<1> SUFFICES ASSUME Init PROVE Framing
  OBVIOUS
<1>1. <<>> \in Seq(Token) /\ Leftover(<<>>)
  BY DEF Leftover
<1>2. NoState.state = Empty
  BY DEF NoState
<1>3. ASSUME NEW c \in Conns PROVE c # serving /\ wire[c] = <<>> /\ pdo[c].state = Empty /\ sent[c] = NoRequest
  BY <1>2, ServiceAssumption DEF Init
<1>4. \A c \in Conns : c # serving /\ Quiet(c)
  BY <1>1, <1>3 DEF Quiet
<1>5. SavedIsSent
  BY <1>3 DEF SavedIsSent
<1>6. DOMAIN wire = Conns /\ DOMAIN sent = Conns /\ (phase = "idle" <=> serving = NoConn)
  BY DEF Init
<1> QED BY <1>1, <1>3, <1>4, <1>5, <1>6 DEF Framing

\* A client sends its request behind what a former message has left.
LEMMA SendFraming ==
  ASSUME Framing, NEW d \in Conns, NEW r \in Requests, Send(d, r)
  PROVE  Framing'
<1>1. /\ sent[d] = NoRequest /\ serving # d
      /\ sent' = [sent EXCEPT ![d] = r] /\ wire' = [wire EXCEPT ![d] = @ \o Tokens(r)]
      /\ UNCHANGED <<serving, phase, input, msg, pdo>>
  BY DEF Send, server
<1>2. r \in Request /\ NoRequest \notin Requests
  BY ServiceAssumption
<1>3. Tokens(r) \in Seq(Token)
  BY <1>2, TokensOfRequest DEF Spells
<1>4. wire[d] \in Seq(Token) /\ Leftover(wire[d]) /\ pdo[d].state = Empty
  BY <1>1, <1>2 DEF Framing, Quiet
<1>5. sent'[d] = r /\ wire'[d] = wire[d] \o Tokens(r) /\ wire'[d] \in Seq(Token)
  BY <1>1, <1>3, <1>4 DEF Framing
<1>6. Fresh(wire'[d], r)
  BY <1>2, <1>4, <1>5, FreshRequest
<1>7. Quiet(d)'
  BY <1>1, <1>4, <1>5, <1>6 DEF Quiet
<1>8. \A c \in Conns : c # d => sent'[c] = sent[c] /\ wire'[c] = wire[c] /\ pdo'[c] = pdo[c]
  BY <1>1 DEF Framing
<1>9. ASSUME NEW c \in Conns, c # serving PROVE Quiet(c)'
  <2>1. CASE c # d
    BY <1>8, <1>9, <2>1, QuietStays DEF Framing
  <2> QED BY <1>7, <2>1
<1>10. ASSUME serving \in Conns, Served(serving) PROVE Served(serving)'
  <2>1. sent'[serving] = sent[serving] /\ wire'[serving] = wire[serving]
    BY <1>1, <1>8, <1>10
  <2> QED BY <1>1, <1>10, <2>1 DEF Served, Parsing, Reading, Answering, Returning, Awaits
<1>11. SavedIsSent'
  <2>1. ASSUME NEW c \in Conns, pdo'[c].state # Empty PROVE sent'[c] \in Requests /\ HeadIs(pdo'[c], sent'[c])
    <3>1. c # d
      BY <1>1, <1>4, <2>1
    <3> QED BY <1>1, <1>8, <2>1, <3>1 DEF Framing, SavedIsSent
  <2> QED BY <2>1 DEF SavedIsSent, HeadIs
<1>12. DOMAIN wire' = Conns /\ DOMAIN sent' = Conns /\ \A c \in Conns : wire'[c] \in Seq(Token)
  BY <1>1, <1>5, <1>8 DEF Framing
<1> QED BY <1>1, <1>9, <1>10, <1>11, <1>12 DEF Framing

LEMMA DropFraming ==
  ASSUME Framing, Clean, NEW d \in Conns, Drop(d)
  PROVE  Framing'
<1>1. /\ serving # d /\ wire' = [wire EXCEPT ![d] = <<>>]
      /\ sent' = [sent EXCEPT ![d] = NoRequest] /\ pdo' = [pdo EXCEPT ![d] = NoState]
      /\ UNCHANGED <<serving, phase, input, msg>> /\ DOMAIN pdo = Conns
  BY DEF Drop, Clean
<1>2. <<>> \in Seq(Token) /\ Leftover(<<>>) /\ NoState.state = Empty
  BY DEF Leftover, NoState
<1>3. sent'[d] = NoRequest /\ wire'[d] = <<>> /\ pdo'[d] = NoState
  BY <1>1 DEF Framing
<1>4. Quiet(d)'
  BY <1>2, <1>3 DEF Quiet
<1>5. \A c \in Conns : c # d => sent'[c] = sent[c] /\ wire'[c] = wire[c] /\ pdo'[c] = pdo[c]
  BY <1>1 DEF Framing
<1>6. ASSUME NEW c \in Conns, c # serving PROVE Quiet(c)'
  <2>1. CASE c # d
    BY <1>5, <1>6, <2>1, QuietStays DEF Framing
  <2> QED BY <1>4, <2>1
<1>7. ASSUME serving \in Conns, Served(serving) PROVE Served(serving)'
  <2>1. sent'[serving] = sent[serving] /\ wire'[serving] = wire[serving] /\ pdo'[serving] = pdo[serving]
    BY <1>1, <1>5, <1>7
  <2> QED BY <1>1, <1>7, <2>1 DEF Served, Parsing, Reading, Answering, Returning, Awaits
<1>8. SavedIsSent'
  <2>1. ASSUME NEW c \in Conns, pdo'[c].state # Empty PROVE sent'[c] \in Requests /\ HeadIs(pdo'[c], sent'[c])
    <3>1. c # d
      BY <1>2, <1>3, <2>1
    <3> QED BY <1>5, <2>1, <3>1 DEF Framing, SavedIsSent
  <2> QED BY <2>1 DEF SavedIsSent, HeadIs
<1>9. DOMAIN wire' = Conns /\ DOMAIN sent' = Conns /\ \A c \in Conns : wire'[c] \in Seq(Token)
  BY <1>1, <1>2, <1>3, <1>5 DEF Framing
<1> QED BY <1>1, <1>6, <1>7, <1>8, <1>9 DEF Framing

\* A packet arrives: the first of a request has its head, a later one is the rest of
\* the body that the saved message waits for.
LEMMA ReceiveFraming ==
  ASSUME Framing, SavedUploads, NEW d \in Conns, Receive(d)
  PROVE  Framing'
<1>1. PICK m \in PacketSizes(wire[d]) : /\ input' = SubSeq(wire[d], 1, m)
                                        /\ wire' = [wire EXCEPT ![d] = SubSeq(@, m + 1, Len(@))]
  BY DEF Receive
<1>2. /\ serving = NoConn /\ wire[d] # <<>> /\ serving' = d /\ phase' \in {"parse", "body"}
      /\ UNCHANGED <<pdo, sent>>
  BY DEF Receive
<1>3. pdo[d].state > Empty => msg' = Restored(pdo[d]) /\ phase' = "body"
  BY DEF Receive
<1>4. ~(pdo[d].state > Empty) => msg' = [NewMessage EXCEPT !.own = d \in Storage] /\ phase' = "parse"
  BY DEF Receive
<1>5. d # NoConn /\ Quiet(d) /\ wire[d] \in Seq(Token) /\ \A c \in Conns : Quiet(c)
  BY <1>2, ServiceAssumption DEF Framing
<1>6. wire'[d] = SubSeq(wire[d], m + 1, Len(wire[d])) /\ \A c \in Conns : c # d => wire'[c] = wire[c]
  BY <1>1 DEF Framing
<1>7. wire'[d] \in Seq(Token)
  <2>1. PICK l \in Nat : l = Len(wire[d]) /\ DOMAIN wire[d] = 1..l
    BY <1>5
  <2>2. m \in Nat
    BY <1>5, <2>1, ServiceAssumption DEF PacketSizes
  <2>3. \A i \in (m + 1)..l : wire[d][i] \in Token
    <3>1. \A i \in (m + 1)..l : i \in 1..l
      BY <2>1, <2>2
    <3> QED BY <1>5, <2>1, <3>1, ElementOfSeq
  <2> QED BY <1>6, <2>1, <2>2, <2>3, SubSeqProperties
<1>8. ASSUME Served(d)' PROVE Framing'
  <2>1. ASSUME NEW c \in Conns, c # d PROVE Quiet(c)'
    BY <1>2, <1>5, <1>6, <2>1, QuietStays
  <2>2. Served(serving)'
    BY <1>2, <1>8
  <2>3. SavedIsSent'
    BY <1>2 DEF Framing, SavedIsSent, HeadIs
  <2>4. DOMAIN wire' = Conns /\ DOMAIN sent' = Conns /\ \A c \in Conns : wire'[c] \in Seq(Token)
    BY <1>1, <1>2, <1>6, <1>7 DEF Framing
  <2> QED BY <1>2, <1>5, <1>8, <2>1, <2>3, <2>4 DEF Framing
<1>9. ASSUME pdo[d].state = Empty PROVE /\ msg'.own = (d \in Storage) /\ phase' = "parse"
                                      /\ msg'.state = Method /\ \A r : Stage(msg', r, 0)
  <2>1. msg' = [NewMessage EXCEPT !.own = d \in Storage] /\ phase' = "parse"
    BY <1>4, <1>9, ParserStates
  <2>2. msg'.own = (d \in Storage) /\ msg'.state = Method /\ msg'.requ = NewRequest /\ msg'.target = NoNode
    BY <2>1 DEF NewMessage
  <2> QED BY <2>1, <2>2 DEF Stage
<1>10. ASSUME sent[d] \in Requests \cup {NoRequest}, pdo[d].state = Empty,
              input' # <<>>, input'[1].t = "char", Leftover(wire'[d])
       PROVE  Served(d)'
  <2>1. Leftover(wire[d])'
    BY <1>10 DEF Leftover
  <2> QED BY <1>2, <1>9, <1>10, <2>1 DEF Served, Parsing
<1>11. CASE sent[d] \in Requests \cup {NoRequest} /\ Leftover(wire[d]) /\ pdo[d].state = Empty
  <2>1. /\ SubSeq(wire[d], 1, m) # <<>> /\ SubSeq(wire[d], 1, m)[1].t = "char"
        /\ Leftover(SubSeq(wire[d], m + 1, Len(wire[d])))
    BY <1>1, <1>2, <1>5, <1>11, LeftoverPacket
  <2> QED BY <1>1, <1>6, <1>8, <1>10, <1>11, <2>1
<1>12. CASE sent[d] \in Requests /\ Fresh(wire[d], sent[d]) /\ pdo[d].state = Empty
  <2> DEFINE r == sent[d]
  <2>1. r \in Request
    BY <1>12, ServiceAssumption
  <2>2. PICK h \in Nat, l \in Nat : h = HeadLength(r) /\ l = RequestLength(r) /\ h <= l
    BY <2>1, RequestLengths
  <2>3. CASE input' # <<>> /\ input'[1].t = "char" /\ Leftover(wire'[d])
    BY <1>8, <1>10, <1>12, <2>3
  <2>4. CASE ~(input' # <<>> /\ input'[1].t = "char" /\ Leftover(wire'[d]))
    <3>1. /\ m \in Nat /\ h <= m /\ (Cuts # "any" => m \in {h, l})
          /\ IsPart(input', r, 0, m) /\ IsPart(wire'[d], r, m, l)
      <4>1. Fresh(wire[d], r) /\ l = RequestLength(r)
        BY <1>12, <2>2
      <4> DEFINE packet == SubSeq(wire[d], 1, m)
                 rest   == SubSeq(wire[d], m + 1, Len(wire[d]))
      <4>2. \/ packet # <<>> /\ packet[1].t = "char" /\ Leftover(rest)
            \/ /\ m \in Nat /\ HeadLength(r) <= m /\ (Cuts # "any" => m \in {HeadLength(r), l})
               /\ IsPart(packet, r, 0, m) /\ IsPart(rest, r, m, l)
        BY <2>1, <4>1, FirstPacket
      <4>3. packet = input' /\ rest = wire'[d]
        BY <1>1, <1>6
      <4> QED BY <2>2, <2>4, <4>2, <4>3
    <3>2. m <= l /\ m \in h..l /\ m \in 0..l /\ 0 \in 0..l
      <4>1. m <= l
        BY <2>2, <3>1 DEF IsPart
      <4> QED BY <2>2, <3>1, <4>1
    <3>3. Awaits(d, m)' /\ m \in Positions(r) /\ 0 \in Positions(r)
      BY <1>2, <2>2, <3>1, <3>2 DEF Awaits, Cut, Positions
    <3>4. Parsing(d)'
      BY <1>2, <1>9, <1>12, <3>1, <3>3 DEF Parsing
    <3> QED BY <1>8, <1>9, <1>12, <3>4 DEF Served
  <2> QED BY <2>3, <2>4
<1>13. ASSUME sent[d] \in Requests, pdo[d].state = Body,
              NEW n \in Positions(sent[d]), Awaits(d, n)
       PROVE  Framing'
  <2> DEFINE r == sent[d]
  <2>1. r \in Request
    BY <1>13, ServiceAssumption
  <2>2. PICK h \in Nat, l \in Nat : h = HeadLength(r) /\ l = RequestLength(r) /\ h <= l
    BY <2>1, RequestLengths
  <2>3. n \in h..l /\ n >= h /\ IsPart(wire[d], r, n, l) /\ Cut(r, n)
    BY <1>13, <2>2 DEF Awaits, Cut
  <2>4. m \in 1..(l - n) /\ (Cuts # "any" => n + m = l)
    BY <1>2, <2>1, <2>2, <2>3, PartSizes
  <2>5. m \in 0..(l - n) /\ n + m \in h..l /\ n + m \in 0..l /\ n # l /\ n \in 0..l
    BY <2>2, <2>3, <2>4
  <2>6. IsPart(input', r, n, n + m) /\ IsPart(wire'[d], r, n + m, l)
    BY <1>1, <1>6, <2>1, <2>3, <2>5, PartCut
  <2>7. Cut(r, n + m)
    BY <2>2, <2>4, <2>5 DEF Cut
  <2>8. Awaits(d, n + m)' /\ n + m \in Positions(r) /\ n \in Positions(r)
    BY <1>2, <2>2, <2>5, <2>6, <2>7 DEF Awaits, Positions
  <2>9. Cuts # "any" => n = h /\ n + m = l
    BY <2>2, <2>3, <2>4, <2>5 DEF Cut
  <2>10. msg' = Restored(pdo[d]) /\ phase' = "body"
    BY <1>3, <1>13, ParserStates
  <2>11. msg'.state = Body /\ msg'.requ = pdo[d].requ /\ msg'.target = pdo[d].target
    BY <1>13, <2>10 DEF Restored, NewMessage
  <2>12. HeadIs(pdo[d], r)
    BY <1>13, ParserStates DEF Framing, SavedIsSent
  <2>13. HeadIs(msg', r)
    BY <2>11, <2>12 DEF HeadIs, Has
  <2>14. Reading(d)'
    <3> DEFINE e == n + m
    <3>1. e \in Positions(r) /\ Awaits(d, e)' /\ IsPart(input', r, n, e) /\ (Cuts # "any" => n = h /\ e = l)
      BY <2>6, <2>8, <2>9
    <3> HIDE DEF e
    <3> QED BY <1>2, <1>13, <2>2, <2>3, <2>8, <2>11, <2>13, <3>1 DEF Reading
  <2> QED BY <1>8, <2>10, <2>14 DEF Served
<1> QED BY <1>5, <1>11, <1>12, <1>13 DEF Quiet

LEMMA FramingStep ==
  /\ ClearOnKeep /\ RegularRequests /\ NumbersAreNoNames
  /\ Clean /\ Progress /\ SavedUploads /\ Framing /\ [Next]_vars
  => Framing'
<1> SUFFICES ASSUME ClearOnKeep, RegularRequests, NumbersAreNoNames,
                    Clean, Progress, SavedUploads, Framing, [Next]_vars
             PROVE  Framing'
  OBVIOUS
<1>1. ASSUME NEW c \in Conns, (\E r \in Requests : Send(c, r)) \/ Receive(c) \/ Drop(c)
      PROVE  Framing'
  BY <1>1, SendFraming, ReceiveFraming, DropFraming
<1>2. CASE Service
  BY <1>2, ServiceParts, ParseFraming, ProcessFraming, FinishFraming, SessionFraming DEF Service
<1>3. CASE UNCHANGED vars
  <2>1. UNCHANGED <<serving, phase, input, msg, pdo, sent, wire>>
    BY <1>3 DEF vars, server, client
  <2>2. \A c \in Conns : Quiet(c) => Quiet(c)'
    BY <2>1 DEF Quiet, Awaits
  <2>3. Served(serving) => Served(serving)'
    BY <2>1 DEF Served, Parsing, Reading, Answering, Returning, Awaits
  <2>4. SavedIsSent'
    BY <2>1 DEF Framing, SavedIsSent, HeadIs
  <2> QED BY <2>1, <2>2, <2>3, <2>4 DEF Framing
<1> QED BY <1>1, <1>2, <1>3 DEF Next, Quiescent

-----------------------------------------------------------------------------
\* All that is needed of the service to know whose request it serves.
Serving == Clean /\ Progress /\ SavedUploads /\ Framing

LEMMA ServingInit == Init => Serving
BY CleanInit, ProgressInit, FramingInit DEF Serving

LEMMA ServingStep ==
  ClearOnKeep /\ RegularRequests /\ NumbersAreNoNames /\ Serving /\ [Next]_vars => Serving'
BY CleanStep, ProgressStep, SavedUploadsStep, FramingStep DEF Serving

\* The body that a provider gets to read, in the packet of the head or in a later one,
\* belongs to the head that its own client sent: the method, the item, the type and
\* the length are those the request declares.  (parse, save and restore)
THEOREM OwnRequestServed ==
  ASSUME ClearOnKeep, RegularRequests, NumbersAreNoNames
  PROVE  Spec => []ServesOwnRequest
<1>1. Init => Serving
  BY ServingInit
<1>2. Serving /\ [Next]_vars => Serving'
  BY ServingStep
<1>3. Serving => ServesOwnRequest
  <2>1. ASSUME Serving, phase = "body" PROVE sent[serving] # NoRequest /\ HeadIs(msg, sent[serving])
    <3>1. serving \in Conns
      BY <2>1 DEF Serving, Clean
    <3>2. Reading(serving)
      BY <2>1, <3>1 DEF Serving, Framing, Served
    <3> QED BY <3>2, ServiceAssumption DEF Reading
  <2> QED BY <2>1 DEF ServesOwnRequest
<1> QED BY <1>1, <1>2, <1>3, PTL DEF Spec

\* A saved message is the one whose answer its client still waits for, so that the
\* next packet is the rest of its body.  (state_pdo, micurest.hpp:595)
THEOREM SavedIsAwaited ==
  ASSUME ClearOnKeep, RegularRequests, NumbersAreNoNames
  PROVE  Spec => []SavedMatchesRequest
<1>1. Init => Serving
  BY ServingInit
<1>2. Serving /\ [Next]_vars => Serving'
  BY ServingStep
<1>3. Serving => SavedMatchesRequest
  <2>1. ASSUME Serving, NEW c \in Conns, pdo[c].state # Empty
        PROVE  /\ pdo[c].state = Body
               /\ sent[c] # NoRequest /\ replies[c] = NoReply /\ HeadIs(pdo[c], sent[c])
    <3>1. pdo[c].state = Body
      BY <2>1 DEF Serving, SavedUploads
    <3>2. sent[c] \in Requests /\ HeadIs(pdo[c], sent[c])
      BY <2>1 DEF Serving, Framing, SavedIsSent
    <3>3. replies[c] = NoReply
      <4>1. NoState.state = Empty
        BY DEF NoState
      <4> QED BY <2>1, <4>1 DEF Serving, Clean, AnsweredIsClean
    <3> QED BY <3>1, <3>2, <3>3, ServiceAssumption
  <2> QED BY <2>1 DEF SavedMatchesRequest
<1> QED BY <1>1, <1>2, <1>3, PTL DEF Spec

=============================================================================
