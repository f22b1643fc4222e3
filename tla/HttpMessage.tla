---------------------------- MODULE HttpMessage ----------------------------
(***************************************************************************)
(* The protocol independent half of a message: message, request and        *)
(* response of micurest.hpp.  Requests and responses are plain records     *)
(* ("PDO" in the source); every operator below maps a response record to   *)
(* the response record the member function of the same name leaves.        *)
(***************************************************************************)
EXTENDS Integers, Sequences, FiniteSets

\* status_t: the codes the service uses, with their position in the enumeration.
\* The code compares statuses with < and >=, so the order is part of the model.
Unknown                    == 0
OK                         == 1
No_Content                 == 8
Bad_Request                == 9
Bad_Option                 == 10
Not_Found                  == 13
Length_Required            == 15
URI_Too_Long               == 17
Method_Not_Allowed         == 19
Request_Entity_Too_Large   == 22
Unsupported_Content_Format == 23
Internal_Server_Error      == 24
Not_Implemented            == 25
Service_Unavailable        == 26

Status == 0..26

\* httpmessage::state_t, in its order: the service compares states too.
Bad     == -1
Empty   == 0
Method  == 1
Target  == 2
Version == 3
Header  == 4
Body    == 5
Sealed  == 8
Began   == 9
Done    == 10

State == -1..10

\* media::type.  "unknown" is its zero value, "any" what */* is read as.
MediaType == {"unknown", "any", "json", "octet_stream", "html", "plain"}

ReqMethod == {"UNKNOWN", "GET", "PUT", "POST", "DELETE"}

ReqVersion == {"UNKNOWN", "0.1", "1.0", "1.1"}

NewRequest == [method |-> "UNKNOWN", version |-> "UNKNOWN", fields |-> {}, identity |-> 0,
               accept |-> {}, ctype |-> "unknown", clen |-> 0, keep |-> FALSE]

NewResponse == [status |-> Unknown, ctype |-> "unknown", fields |-> {}]

-----------------------------------------------------------------------------
Has(requ, field) == field \in requ.fields

Failed(resp) == resp.status >= Bad_Request

IsGood(resp) == resp.status >= OK /\ resp.status < Bad_Request

SetContentType(resp, type) ==
  [resp EXCEPT !.ctype = type, !.fields = @ \cup {"content_type"}]

\* An error keeps the status of an earlier one unless it is a server error, and
\* always drops the header fields prepared so far.
SetError(resp, st) ==
  [status |-> IF ~Failed(resp) \/ st >= Internal_Server_Error THEN st ELSE resp.status,
   ctype  |-> "unknown",
   fields |-> {}]

\* A status never replaces an error, and a reply without content loses its fields.
SetStatus(resp, st) ==
  LET new == IF Failed(resp) THEN resp.status ELSE st
  IN  IF new \in {No_Content, Not_Found}
      THEN [status |-> new, ctype |-> "unknown", fields |-> {}]
      ELSE [resp EXCEPT !.status = new]

FixContentType(resp, type) ==
  IF resp.status <= OK /\ resp.ctype = "unknown" /\ type # "unknown"
  THEN SetContentType(resp, type)
  ELSE resp

SetContentLength(resp) == [resp EXCEPT !.fields = @ \cup {"content_length"}]

Keep_AnyStatus(maykeep, requ, resp) == maykeep /\ requ.keep

\* httpmessage::keep, read when the Connection field is written and again when
\* the service returns
Keep(maykeep, requ, resp) == maykeep /\ requ.keep /\ IsGood(resp)

-----------------------------------------------------------------------------
\* What one header line does to the message.  Errors found here do not stop the parser.
HeaderEffect(m, h) ==
  LET requ(r)   == [m EXCEPT !.requ = r]
      field(f)  == m.requ.fields \cup {f}
      failed(s) == [m EXCEPT !.resp = SetError(@, s)]
  IN  CASE h.name = "Accept" ->
             requ([m.requ EXCEPT !.accept = @ \cup ({h.val} \ {"unknown"}), !.fields = field("accept")])
        [] h.name = "Content-Length" ->
             requ([m.requ EXCEPT !.clen = h.len, !.fields = field("content_length")])
        [] h.name = "Content-Type" /\ h.val = "unknown" ->
             requ([m.requ EXCEPT !.ctype = h.val])
        [] h.name = "Content-Type" /\ h.val # "unknown" ->
             requ([m.requ EXCEPT !.ctype = h.val, !.fields = field("content_type")])
        [] h.name = "Connection" /\ h.val \in {"keep-alive", "close"} ->
             requ([m.requ EXCEPT !.keep = h.val = "keep-alive", !.fields = field("connection")])
        [] h.name = "Connection" /\ h.val \notin {"keep-alive", "close"} -> failed(Bad_Option)
        [] h.name = "If-Match" ->
             IF h.val = "long" THEN failed(Request_Entity_Too_Large)
             ELSE requ([m.requ EXCEPT !.fields = field("etag")])
        [] h.name = "If-Modified-Since" -> failed(Bad_Request)
        [] OTHER -> m

\* A Content-Length line that ends with a lone LF: reading the number consumed the
\* LF already, consume_crlf takes the first character of the next line.
EatsNextLine(h) == h.name = "Content-Length" /\ h.lf
=============================================================================
