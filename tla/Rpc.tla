-------------------------------- MODULE Rpc --------------------------------
(***************************************************************************)
(* One call of the JSON-RPC service (micurpc.hpp, micurpc.cpp): the body   *)
(* of a request is read member by member, in whatever order they come; the *)
(* procedure is constructed in the middle of that, when its parameters are *)
(* met; it is run, the reply is written, and the procedure is disposed of. *)
(*                                                                         *)
(* The lexer is abstracted to the error bits a member leaves in the stream *)
(* (JsonLexer and JsonReaders have it); the message to its response.       *)
(***************************************************************************)
EXTENDS HttpMessage

CONSTANTS Procedures,   \* names of the procedures of the service
          Unregistered, \* other names a request may use
          Ids,          \* texts of ids that fit their array
          UserErrors,   \* codes a procedure may set
          None,         \* no procedure; no name, no id
          Overflow,     \* config::overflow: what becomes of a number too large for its type
          MaxMembers    \* bound on the members of a request

\* error_code, besides those of the procedures
ErrorCode == {"no_errors", "parse_error", "invalid_request", "method_not_found",
              "invalid_params", "id_is_too_long", "method_is_too_long", "string_is_too_long"}
               \cup UserErrors

ASSUME RpcAssumption ==
  /\ None \notin Procedures \cup Unregistered \cup Ids \cup {"truncated", "params"}
  /\ Procedures \cap Unregistered = {}
  /\ "truncated" \notin Procedures \cup Ids /\ "params" \notin Procedures \cup Unregistered
  /\ UserErrors \cap {"no_errors", "parse_error", "method_not_found"} = {}
  /\ Overflow \in {"ignored", "error", "saturated"}
  /\ MaxMembers \in Nat

VARIABLES phase,    \* "start", "members", "handled", "replied", "silent"
          ctype,    \* the content type of the request is one of the three accepted
          version,  \* request::jsonrpc: "2.0" or anything else
          method,   \* request::method
          id,       \* request::id
          idtype,   \* request::idtype
          proc,     \* request::proc: the procedure constructed last
          errors,   \* the error bits of the stream
          code,     \* response::error.code
          resp,     \* the response of the message
          shown,    \* the member of the reply beside the id: "result" or "error"
          ran,      \* the procedures that were run
          alive,    \* how many were constructed and not disposed of
          members,  \* number of members read
          said      \* a history of the request: its names and "params" in their order (log),
                    \* the last id, how the parameters of proc were, whether it is complete

fields == <<version, method, id, idtype, proc, alive>>
ending == <<code, resp, shown, ran>>
vars   == <<phase, ctype, fields, errors, ending, members, said>>

IdType == {"bad", "null", "number", "string"}

Init ==
  /\ phase = "start" /\ ctype \in BOOLEAN
  /\ version = "empty" /\ method = None /\ id = None /\ idtype = "null"
  /\ proc = None /\ alive = 0
  /\ errors = {} /\ code = "no_errors" /\ resp = NewResponse /\ shown = "nothing"
  /\ ran = <<>> /\ members = 0
  /\ said = [log |-> <<>>, id |-> None, whole |-> FALSE, params |-> "none"]

-----------------------------------------------------------------------------
(* Members, read by collection<indexer>::read and request::json::read.  The *)
(* reading ends with the first "bad": no character is delivered after it.  *)

Readable == phase = "members" /\ "bad" \notin errors

Member(bits) ==
  /\ Readable /\ members < MaxMembers
  /\ members' = members + 1
  /\ errors' = errors \cup bits
  /\ UNCHANGED <<phase, ctype, ending>>

Begin ==
  /\ phase = "start" /\ ctype
  /\ phase' = "members"
  /\ UNCHANGED <<ctype, fields, errors, ending, members, said>>

\* A text that does not fit is cut to the array; a value that is not a string
\* empties it.
Jsonrpc(v, bits) ==
  /\ Member(bits)
  /\ version' = v
  /\ UNCHANGED <<method, id, idtype, proc, alive, said>>

VersionMember ==
  \/ Jsonrpc("2.0", {}) \/ Jsonrpc("1.0", {})
  \/ Jsonrpc("2.0", {"overrun"}) \/ Jsonrpc("empty", {"bad"})

MethodIs(m, bits) ==
  /\ Member(bits)
  /\ method' = m
  /\ said' = [said EXCEPT !.log = Append(@, m)]
  /\ UNCHANGED <<version, id, idtype, proc, alive>>

MethodMember ==
  \/ \E m \in Procedures \cup Unregistered \cup {None} : MethodIs(m, {})
  \/ MethodIs("truncated", {"overrun"}) \/ MethodIs(None, {"bad"})

\* bityped_property::read
Id(text, type, bits, value) ==
  /\ Member(bits)
  /\ id' = text /\ idtype' = type
  /\ said' = [said EXCEPT !.id = value]
  /\ UNCHANGED <<version, method, proc, alive>>

\* readnullid: whatever of these letters there is
NullId == Id(id, "null", {}, None)

\* readintid, for numbers that fit and for those that do not
IntId(i) == Id(i, "number", {}, i)
LongIntId == Id("truncated", "bad", {"overrun"}, "long")

\* readstringid: any error met before spoils the id as well.
StringIdType == IF errors \subseteq {"eof"} THEN "string" ELSE "bad"
StringId(i) == Id(i, StringIdType, {}, i)
LongStringId_Accepted == Id("truncated", "string", {"overrun"}, "long")
LongStringId == Id("truncated", "bad", {"overrun"}, "long")

\* A number with a fraction is read up to it, and the reading of the request ends there;
\* other values are refused, and leave the id of an earlier member.
FractionId == Id("truncated", "number", {"bad"}, "fraction")
OtherId == Id(id, idtype, {"bad"}, "other")

IdMember ==
  \/ NullId \/ LongIntId \/ LongStringId \/ FractionId \/ OtherId
  \/ \E i \in Ids : IntId(i) \/ StringId(i)

Found_First(m) == IF m = None \/ Procedures = {} THEN None ELSE CHOOSE p \in Procedures : TRUE
\* service::request::find
Found(m) == IF m \in Procedures THEN m ELSE None

\* request::json::params: without a procedure the parameters are skipped; otherwise one
\* is constructed in the space of the request, whatever was there, and reads them.
SkippedParams ==
  /\ Found(method) = None
  /\ \E bits \in {{}, {"bad"}} : Member(bits)
  /\ said' = [said EXCEPT !.log = Append(@, "params")]
  /\ UNCHANGED fields

Constructed(how) ==
  /\ Found(method) # None
  /\ proc' = Found(method)
  /\ alive' = alive + 1
  /\ said' = [said EXCEPT !.params = how, !.log = Append(@, "params")]
  /\ UNCHANGED <<version, method, id, idtype>>

Params(how, bits) == Constructed(how) /\ Member(bits)

\* reader<T>::read: a number too large is changed, as the configuration has it.
OverflowBits == IF Overflow = "error" THEN {"overflow"} ELSE {}

\* A number too large for its argument; an item or member too many; a string too long; a
\* value of another type, which ends the reading unless the parameters are an array; no
\* array and no object at all.
ParamsMember ==
  \/ SkippedParams
  \/ Params("good", {})
  \/ Params("changed", OverflowBits)
  \/ Params("wrong", {"mismatch"})
  \/ Params("wrong", {"overrun"})
  \/ Params("wrong", {"mismatch", "bad"})
  \/ Params("wrong", {"bad"})

\* A member of another name is skipped; a long name overruns its buffer, and a number is
\* only skipped when another member follows.
OtherMember ==
  /\ \E bits \in {{}, {"overrun"}, {"bad"}} : Member(bits)
  /\ UNCHANGED <<fields, said>>

Ended(bits) ==
  /\ phase' = "handled"
  /\ errors' = errors \cup bits
  /\ UNCHANGED <<ctype, ending, members>>

End ==
  /\ Readable /\ Ended({})
  /\ said' = [said EXCEPT !.whole = TRUE]
  /\ UNCHANGED fields

\* Something else than the object, or than what may follow a member: an opening brace
\* there ends the reading without an error.
Garbage ==
  /\ phase \in {"start", "members"} /\ ctype /\ "bad" \notin errors
  /\ \E bits \in {{"bad"}, IF phase = "start" THEN {"mismatch"} ELSE {}} : Ended(bits)
  /\ UNCHANGED <<fields, said>>

CutId(type, bits, value) ==
  /\ Readable /\ Ended(bits)
  /\ id' = "truncated" /\ idtype' = type
  /\ said' = [said EXCEPT !.id = value]
  /\ UNCHANGED <<version, method, proc, alive>>

\* The body ends before its closing brace: before a member, in its name or its value.  The
\* first part of a string passes for the id; readintid runs on to the end of its array;
\* parameters are read as far as they came.
Cut ==
  \/ /\ phase \in {"start", "members"} /\ ctype /\ "bad" \notin errors
     /\ \E bits \in {{"eof"}, {"eof", "bad"}} : Ended(bits)
     /\ UNCHANGED <<fields, said>>
  \/ CutId(StringIdType, {"eof", "bad"}, "part")
  \/ CutId("bad", {"eof", "overrun", "bad"}, "part")
  \/ /\ Readable /\ Constructed("cut")
     /\ \E bits \in {{}, {"mismatch"}, {"overrun"}} : Ended(bits \cup {"eof", "bad"})

FailedRead ==
  /\ phase = "members" /\ "bad" \in errors
  /\ Ended({}) /\ UNCHANGED <<fields, said>>

-----------------------------------------------------------------------------
(* What handle makes of it, and the reply.                                  *)

Broken == ~said.whole   \* json.read has failed

\* request::read: the code it leaves, and whether it lets the call go on
ReadCode_NoParse ==
  IF ~Broken /\ (version # "2.0" \/ method = None) THEN "invalid_request" ELSE "no_errors"
ReadCode ==
  IF Broken THEN "parse_error"
  ELSE IF version # "2.0" \/ method = None THEN "invalid_request"
  ELSE IF "overrun" \notin errors THEN "no_errors"
  ELSE IF idtype = "bad" THEN "id_is_too_long"
  ELSE IF proc = None THEN "method_is_too_long" ELSE "string_is_too_long"
ReadIdType == IF ReadCode = "id_is_too_long" THEN "null" ELSE idtype
GoesOn == Broken => errors # {"eof"}

BadParams == errors \cap {"overrun", "mismatch"} # {}

\* handle(istream&): whether the procedure is to run
MayRun == GoesOn /\ proc # None /\ ~BadParams
HandleCode == IF ~GoesOn THEN "parse_error"
              ELSE IF proc = None THEN "method_not_found"
              ELSE IF BadParams THEN "invalid_params" ELSE ReadCode

\* eof and isgood, after a call that does not run
IsFragment == "eof" \in errors /\ "bad" \notin errors

\* write: the response for a code
Written(r, c) ==
  CASE c = "no_errors" /\ ReadIdType = "null" -> SetStatus(r, No_Content)
    [] c = "no_errors" /\ ReadIdType # "null" -> SetContentType(SetStatus(r, OK), "json")
    [] c = "invalid_request"  -> SetContentType(SetError(r, Bad_Request), "json")
    [] c = "method_not_found" -> SetContentType(SetError(r, Not_Found), "json")
    [] OTHER -> SetContentType(SetError(r, Internal_Server_Error), "json")

\* response::json: a notification is answered without a body.
Shown(c) == IF c # "no_errors" THEN "error" ELSE IF ReadIdType = "null" THEN "nothing" ELSE "result"

Disposed_Always == 1
Disposed == IF proc = None THEN 0 ELSE 1

Reply(r, c) ==
  /\ code' = c
  /\ resp' = Written(r, c)
  /\ shown' = Shown(c)
  /\ idtype' = ReadIdType
  /\ alive' = alive - Disposed
  /\ phase' = "replied"
  /\ UNCHANGED <<ctype, version, method, id, proc, errors, members, said>>

\* The user's code leaves the error as it is, or sets one.
Run ==
  /\ phase = "handled" /\ MayRun
  /\ ran' = Append(ran, proc)
  /\ \E c \in {HandleCode} \cup UserErrors : Reply(resp, c)

Refuse ==
  /\ phase = "handled" /\ ~MayRun /\ ~IsFragment
  /\ ran' = ran
  /\ Reply(SetError(resp, IF HandleCode = "method_not_found" THEN Not_Found
                          ELSE Internal_Server_Error),
           HandleCode)

\* No reply, and the procedure stays.
Fragment ==
  /\ phase = "handled" /\ ~MayRun /\ IsFragment
  /\ phase' = "silent" /\ code' = HandleCode
  /\ UNCHANGED <<ctype, fields, errors, resp, shown, ran, members, said>>

\* A body of another content type is not read.
WrongType ==
  /\ phase = "start" /\ ~ctype
  /\ ran' = ran
  /\ Reply(SetError(resp, Bad_Request), "invalid_request")

\* rpc_node::get: procedures are not called with GET.
Get ==
  /\ phase = "start"
  /\ resp' = SetError(resp, Not_Implemented)
  /\ phase' = "replied"
  /\ UNCHANGED <<ctype, fields, errors, code, shown, ran, members, said>>

Next ==
  \/ Begin \/ VersionMember \/ MethodMember \/ IdMember \/ ParamsMember \/ OtherMember
  \/ End \/ Garbage \/ Cut \/ FailedRead
  \/ Run \/ Refuse \/ Fragment \/ WrongType \/ Get

Spec == Init /\ [][Next]_vars

-----------------------------------------------------------------------------
Response == [status : Status, ctype : MediaType, fields : SUBSET {"content_type"}]
Texts == Procedures \cup Unregistered \cup {None, "truncated"}

\* Every variable holds a value of its type, and no more procedures are left than were
\* constructed.
TypeOK ==
  /\ phase \in {"start", "members", "handled", "replied", "silent"}
  /\ ctype \in BOOLEAN
  /\ version \in {"empty", "1.0", "2.0"} /\ method \in Texts
  /\ id \in Ids \cup {None, "truncated"} /\ idtype \in IdType
  /\ proc \in Procedures \cup {None}
  /\ errors \subseteq {"mismatch", "overflow", "overrun", "bad", "eof"}
  /\ code \in ErrorCode
  /\ resp \in Response /\ shown \in {"nothing", "result", "error"}
  /\ ran \in {<<>>} \cup {<<p>> : p \in Procedures}
  /\ members \in 0..MaxMembers /\ alive \in 0..(MaxMembers + 1)
  /\ said \in [log : Seq(Texts \cup {"params"}), id : Ids \cup {None, "long", "fraction", "part", "other"},
               whole : BOOLEAN, params : {"none", "good", "changed", "wrong", "cut"}]

\* The n-th of the names and parameters are parameters, and the last name before them, the
\* i-th, is that of a procedure.
Calls(i, n) ==
  /\ i < n /\ said.log[i] \in Procedures /\ said.log[n] = "params"
  /\ \A j \in (i + 1)..(n - 1) : said.log[j] = "params"

\* service::request::find, json::params: what is run is the procedure named last before the
\* last parameters that had a procedure, whatever names come behind them, and before which
\* parameters a name was missing or unknown.
RunsWhatWasNamed ==
  ran # <<>> =>
    \E i, n \in DOMAIN said.log :
      /\ Calls(i, n) /\ ran = <<said.log[i]>>
      /\ \A k, m \in DOMAIN said.log : Calls(k, m) => m <= n

\* handle(message): a reply of success means that a whole request of version 2.0 was read
\* and its procedure was run, once, with parameters it declares.  A number among them may
\* have been changed to fit its type.
SuccessMeansDone ==
  phase = "replied" /\ IsGood(resp) =>
    /\ said.whole /\ version = "2.0" /\ said.params \in {"good", "changed"}
    /\ ran = <<proc>> /\ code = "no_errors" /\ shown # "error"

\* readstringid, readintid, write: a reply has the last id of its request, or null.  Another
\* text, the first part of that id or the id of an earlier member, is given only with an
\* error, to a request whose reading ended in its id.
EchoesTheId ==
  phase = "replied" /\ idtype \in {"number", "string"} =>
    \/ id = said.id /\ id \in Ids
    \/ said.id \in {"fraction", "part", "other"} /\ ~said.whole /\ ~IsGood(resp)
=============================================================================
