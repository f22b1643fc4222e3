---------------------------- MODULE Rpc_proofs ----------------------------
(***************************************************************************)
(* The JSON-RPC service, for every set of procedures, names, ids and codes *)
(* every treatment of overflow and requests of any number of members in    *)
(* any order: what is run, and what is answered.                           *)
(*                                                                         *)
(* The invariant carries what the request said along with what the service *)
(* kept of it: the two are compared when the reply is made.                *)
(***************************************************************************)
EXTENDS Rpc, TLAPS

Bits == {"mismatch", "overflow", "overrun", "bad", "eof"}
Saying == [log : Seq(Texts \cup {"params"}), id : Ids \cup {None, "long", "fraction", "part", "other"},
           whole : BOOLEAN, params : {"none", "good", "changed", "wrong", "cut"}]

\* Until the reply nothing has been run or answered, and the procedure that is kept has not
\* been disposed of; while the request is read, no member has made more than one.
Untouched ==
  /\ phase \in {"start", "members", "handled"} =>
       ran = <<>> /\ resp = NewResponse /\ (proc # None => alive >= 1)
  /\ phase \in {"start", "members"} => alive <= members

\* The i-th entry of the log is its last name.
LastName(i) ==
  /\ i \in DOMAIN said.log /\ said.log[i] # "params"
  /\ \A j \in (i + 1)..Len(said.log) : said.log[j] = "params"

\* The name kept is the last one of the request.
NameKept == /\ \A i : LastName(i) => method = said.log[i]
            /\ method \in Procedures => \E i : LastName(i)

\* The n-th entry of the log gives the parameters of p, and no later entry those of another call.
LastCall(p) ==
  \E i, n \in DOMAIN said.log :
    /\ Calls(i, n) /\ p = said.log[i]
    /\ \A k, m \in DOMAIN said.log : Calls(k, m) => m <= n

\* The procedure kept is the one called last.
CallKept == proc # None => LastCall(proc)

\* A procedure has parameters, and wrong ones have left a bit in the stream.
Noticed == /\ proc # None => said.params # "none"
           /\ said.params \in {"wrong", "cut"} => errors \cap {"mismatch", "overrun", "bad"} # {}

\* A request that was read to its end was readable to its end.
ReadWhole == said.whole => "bad" \notin errors /\ phase \notin {"start", "members"}

\* The id that will be answered is the last one of the request, unless the reading ended in it.
IdKept ==
  idtype \in {"number", "string"} =>
    \/ id = said.id /\ id \in Ids
    \/ said.id \in {"fraction", "part", "other"} /\ "bad" \in errors

\* What was run is the procedure that is kept, and success has been earned.
Outcome == (ran # <<>> => proc # None /\ ran = <<proc>>) /\ SuccessMeansDone

Kept == NameKept /\ CallKept
IInv == TypeOK /\ Untouched /\ Kept /\ Noticed /\ ReadWhole /\ IdKept /\ Outcome

-----------------------------------------------------------------------------
\* The response of a reply has the types of a response, and is one of success only when
\* the code is that of no error and no error was noted before.
LEMMA WrittenIsTyped ==
  ASSUME NEW r \in Response, NEW c
  PROVE  /\ Written(r, c) \in Response
         /\ IsGood(Written(r, c)) => c = "no_errors" /\ ~Failed(r)
<1>1. ASSUME NEW q \in Response
      PROVE  /\ SetContentType(q, "json") \in Response
             /\ SetContentType(q, "json").status = q.status
  BY DEF SetContentType, Response, MediaType
<1>2. ASSUME NEW st \in {Bad_Request, Not_Found, Internal_Server_Error}
      PROVE  /\ SetError(r, st) \in Response
             /\ ~IsGood(SetError(r, st))
  <2>1. st \in 0..26 /\ st >= 9 /\ r.status \in 0..26
    BY DEF Response, Status, Bad_Request, Not_Found, Internal_Server_Error
  <2>2. /\ SetError(r, st).status \in 0..26
        /\ SetError(r, st).status >= 9
    BY <2>1 DEF SetError, Failed, Bad_Request, Internal_Server_Error
  <2>3. SetError(r, st) \in Response
    BY <2>2 DEF SetError, Response, Status, MediaType
  <2> QED
    BY <2>2, <2>3 DEF IsGood, Bad_Request
<1>3. ASSUME NEW st \in {OK, No_Content}
      PROVE  /\ SetStatus(r, st) \in Response
             /\ IsGood(SetStatus(r, st)) => ~Failed(r)
  <2> DEFINE new == IF Failed(r) THEN r.status ELSE st
  <2>1. st \in Status /\ r.status \in Status /\ new \in Status
    BY DEF Response, Status, OK, No_Content
  <2>2. CASE new \in {No_Content, Not_Found}
    <3>1. SetStatus(r, st) = [status |-> new, ctype |-> "unknown", fields |-> {}]
      BY <2>2 DEF SetStatus
    <3> QED
      BY <2>1, <3>1 DEF IsGood, Failed, Response, MediaType, Status, OK, Bad_Request, No_Content
  <2>3. CASE new \notin {No_Content, Not_Found}
    <3>1. SetStatus(r, st) = [r EXCEPT !.status = new]
      BY <2>3 DEF SetStatus
    <3>2. SetStatus(r, st) \in Response /\ SetStatus(r, st).status = new
      BY <2>1, <3>1 DEF Response
    <3> QED
      BY <2>1, <3>2 DEF IsGood, Failed, Status, OK, Bad_Request, No_Content
  <2> QED
    BY <2>2, <2>3
<1>4. CASE c = "no_errors" /\ ReadIdType = "null"
  BY <1>4, <1>3 DEF Written
<1>5. CASE c = "no_errors" /\ ReadIdType # "null"
  <2>1. Written(r, c) = SetContentType(SetStatus(r, OK), "json")
    BY <1>5 DEF Written
  <2> QED
    BY <1>5, <2>1, <1>3, <1>1 DEF IsGood
<1>6. CASE c # "no_errors"
  <2>1. PICK st \in {Bad_Request, Not_Found, Internal_Server_Error} :
          Written(r, c) = SetContentType(SetError(r, st), "json")
    BY <1>6 DEF Written
  <2> QED
    BY <2>1, <1>2, <1>1 DEF IsGood
<1> QED
  BY <1>4, <1>5, <1>6

\* A new response is a response.
LEMMA NewIsTyped ==
  /\ NewResponse \in Response
  /\ ~Failed(NewResponse)
BY DEF Response, NewResponse, Failed, Status, MediaType, Unknown, Bad_Request

LEMMA InitHolds == Init => IInv
<1> SUFFICES ASSUME Init PROVE IInv
  OBVIOUS
<1>1. said.log = <<>> /\ DOMAIN said.log = {} /\ said \in Saying
  BY DEF Init, Saying
<1>2. TypeOK
  <2>1. ran \in {<<>>} \cup {<<p>> : p \in Procedures}
    BY DEF Init
  <2>2. members \in 0..MaxMembers /\ alive \in 0..(MaxMembers + 1)
    <3>1. members = 0 /\ alive = 0
      BY DEF Init
    <3>2. MaxMembers \in Nat
      BY RpcAssumption DEF RpcAssumption
    <3> QED
      BY <3>1, <3>2
  <2> QED
    BY <1>1, <2>1, <2>2, NewIsTyped DEF Init, TypeOK, Saying, Texts, IdType, ErrorCode
<1>3. Kept
  <2>1. method \notin Procedures /\ proc = None
    BY RpcAssumption DEF Init, RpcAssumption
  <2> QED
    BY <1>1, <2>1 DEF Kept, NameKept, LastName, CallKept
<1>4. Untouched /\ Noticed /\ ReadWhole /\ IdKept /\ Outcome
  BY DEF Init, Untouched, Noticed, ReadWhole, IdKept, Outcome, SuccessMeansDone
<1> QED
  BY <1>2, <1>3, <1>4 DEF IInv

-----------------------------------------------------------------------------
\* An entry is added to the log: the others stay.
LEMMA LogGrows ==
  ASSUME NEW log, NEW x \in Texts \cup {"params"}, log \in Seq(Texts \cup {"params"})
  PROVE  /\ Append(log, x) \in Seq(Texts \cup {"params"})
         /\ Len(Append(log, x)) = Len(log) + 1 /\ Len(log) \in Nat
         /\ Append(log, x)[Len(log) + 1] = x
         /\ DOMAIN log = 1..Len(log) /\ DOMAIN Append(log, x) = 1..(Len(log) + 1)
         /\ \A i \in 1..Len(log) : Append(log, x)[i] = log[i]
OBVIOUS

\* A name becomes the name kept; no call is made by it.
LEMMA NameSaid ==
  ASSUME IInv, NEW m \in Texts, method' = m, said'.log = Append(said.log, m), proc' = proc
  PROVE  Kept'
<1> DEFINE log == said.log
<1>1. log \in Seq(Texts \cup {"params"})
  BY DEF IInv, TypeOK
<1>2. m # "params"
  BY RpcAssumption DEF RpcAssumption, Texts
<1> PICK n : n = Len(log)
  OBVIOUS
<1>3. /\ said'.log \in Seq(Texts \cup {"params"})
      /\ n = Len(log) /\ Len(said'.log) = n + 1 /\ n \in Nat /\ said'.log[n + 1] = m
      /\ DOMAIN log = 1..n /\ DOMAIN said'.log = 1..(n + 1)
      /\ \A i \in 1..n : said'.log[i] = log[i]
  BY <1>1, LogGrows
<1> HIDE DEF log
<1>4. LastName(n + 1)'
  BY <1>2, <1>3 DEF LastName
<1>5. ASSUME NEW i, LastName(i)' PROVE i = n + 1
  <2> SUFFICES ASSUME i # n + 1 PROVE FALSE
    OBVIOUS
  <2>1. i \in 1..n /\ \A j \in (i + 1)..(n + 1) : said'.log[j] = "params"
    BY <1>3, <1>5 DEF LastName
  <2>2. n + 1 \in (i + 1)..(n + 1)
    BY <1>3, <2>1
  <2> QED
    BY <1>2, <1>3, <2>1, <2>2
<1>6. NameKept'
  BY <1>3, <1>4, <1>5 DEF NameKept
<1>7. ASSUME NEW i, NEW k \in 1..(n + 1) PROVE Calls(i, k)' => k \in 1..n
  BY <1>2, <1>3 DEF Calls
<1>8. ASSUME NEW i \in 1..n, NEW k \in 1..n PROVE Calls(i, k)' <=> Calls(i, k)
  <2>1. \A j \in (i + 1)..(k - 1) : j \in 1..n
    BY <1>3
  <2> QED
    BY <1>3, <2>1 DEF Calls, log
<1>9. CallKept'
  <2> SUFFICES ASSUME proc # None PROVE LastCall(proc)'
    BY DEF CallKept
  <2>1. PICK i \in 1..n, k \in 1..n :
          /\ Calls(i, k) /\ proc = log[i]
          /\ \A a, b \in 1..n : Calls(a, b) => b <= k
    BY <1>3 DEF IInv, Kept, CallKept, LastCall, log
  <2>2. ASSUME NEW a \in 1..(n + 1), NEW b \in 1..(n + 1), Calls(a, b)' PROVE b <= k
    <3>1. b \in 1..n
      BY <2>2, <1>7
    <3>2. a \in 1..n
      BY <2>2, <3>1, <1>3 DEF Calls
    <3> QED
      BY <2>1, <2>2, <3>1, <3>2, <1>8
  <2>3. Calls(i, k)' /\ i \in 1..(n + 1) /\ k \in 1..(n + 1) /\ proc' = said'.log[i]
    BY <2>1, <1>3, <1>8
  <2> QED
    BY <2>2, <2>3, <1>3 DEF LastCall
<1> QED
  BY <1>6, <1>9 DEF Kept

\* Parameters leave the name kept, and are those of a call exactly when it is a procedure's.
LEMMA ParamsSaid ==
  ASSUME IInv, method' = method, said'.log = Append(said.log, "params"),
         proc' = (IF Found(method) = None THEN proc ELSE Found(method))
  PROVE  Kept'
<1> DEFINE log == said.log
<1>1. log \in Seq(Texts \cup {"params"})
  BY DEF IInv, TypeOK
<1>2. "params" \notin Procedures /\ None \notin Procedures
  BY RpcAssumption DEF RpcAssumption
<1> PICK n : n = Len(log)
  OBVIOUS
<1>3. /\ n = Len(log) /\ Len(said'.log) = n + 1 /\ n \in Nat /\ said'.log[n + 1] = "params"
      /\ DOMAIN log = 1..n /\ DOMAIN said'.log = 1..(n + 1)
      /\ \A i \in 1..n : said'.log[i] = log[i]
  BY <1>1, LogGrows
<1> HIDE DEF log
<1>4. ASSUME NEW i PROVE LastName(i)' <=> LastName(i)
  <2>1. CASE i \in 1..n
    <3>1. \A j \in (i + 1)..n : j \in 1..n /\ j \in (i + 1)..(n + 1)
      BY <1>3, <2>1
    <3>2. \A j \in (i + 1)..(n + 1) : j \in (i + 1)..n \/ j = n + 1
      BY <1>3, <2>1
    <3>3. Len(said.log) = n /\ DOMAIN said.log = 1..n /\ \A j \in 1..n : said'.log[j] = said.log[j]
      BY <1>3 DEF log
    <3> QED
      BY <1>3, <2>1, <3>1, <3>2, <3>3 DEF LastName
  <2>2. CASE i \notin 1..n
    <3>1. ~LastName(i)
      BY <1>3, <2>2 DEF LastName, log
    <3>2. ~LastName(i)'
      BY <1>3, <2>2 DEF LastName
    <3> QED
      BY <3>1, <3>2
  <2> QED
    BY <2>1, <2>2
<1>5. ASSUME NEW i, LastName(i) PROVE said'.log[i] = said.log[i]
  BY <1>3, <1>5 DEF LastName, log
<1>6. NameKept'
  BY <1>4, <1>5 DEF NameKept, IInv, Kept
<1>7. ASSUME NEW i \in 1..n, NEW k \in 1..n PROVE Calls(i, k)' <=> Calls(i, k)
  <2>1. \A j \in (i + 1)..(k - 1) : j \in 1..n
    BY <1>3
  <2> QED
    BY <1>3, <2>1 DEF Calls, log
<1>8. ASSUME NEW i \in 1..(n + 1) PROVE Calls(i, n + 1)' <=> LastName(i) /\ said.log[i] \in Procedures
  <2>1. CASE i \in 1..n
    <3>1. Len(said.log) = n /\ DOMAIN said.log = 1..n /\ \A j \in 1..n : said'.log[j] = said.log[j]
      BY <1>3 DEF log
    <3>2. i < n + 1 /\ (n + 1) - 1 = n /\ \A j \in (i + 1)..n : j \in 1..n
      BY <1>3, <2>1
    <3> QED
      BY <1>2, <1>3, <2>1, <3>1, <3>2 DEF Calls, LastName
  <2>2. CASE i = n + 1
    BY <1>3, <2>2 DEF Calls, LastName, log
  <2> QED
    BY <2>1, <2>2, <1>3
<1>9. CallKept'
  <2>1. CASE Found(method) # None
    <3>1. method \in Procedures /\ proc' = method
      BY <2>1 DEF Found
    <3>2. PICK i : LastName(i)
      BY <3>1 DEF IInv, Kept, NameKept
    <3>3. method = said.log[i] /\ i \in 1..n
      BY <1>3, <3>2 DEF IInv, Kept, NameKept, LastName, log
    <3>4. Calls(i, n + 1)' /\ i \in 1..(n + 1) /\ n + 1 \in 1..(n + 1) /\ proc' = said'.log[i]
      BY <1>3, <1>5, <1>8, <3>1, <3>2, <3>3
    <3>5. \A k, m \in 1..(n + 1) : Calls(k, m)' => m <= n + 1
      BY <1>3
    <3> QED
      BY <1>3, <3>4, <3>5 DEF CallKept, LastCall
  <2>2. CASE Found(method) = None
    <3> SUFFICES ASSUME proc # None PROVE LastCall(proc)'
      BY <2>2 DEF CallKept
    <3>1. PICK i \in 1..n, k \in 1..n :
            /\ Calls(i, k) /\ proc = log[i]
            /\ \A a, b \in 1..n : Calls(a, b) => b <= k
      BY <1>3 DEF IInv, Kept, CallKept, LastCall, log
    <3>2. method \notin Procedures
      BY <1>2, <2>2 DEF Found
    <3>3. ASSUME NEW a \in 1..(n + 1) PROVE ~Calls(a, n + 1)'
      BY <1>8, <3>2 DEF IInv, Kept, NameKept
    <3>4. ASSUME NEW a \in 1..(n + 1), NEW b \in 1..(n + 1), Calls(a, b)' PROVE b <= k
      <4>1. b \in 1..n
        BY <3>3, <3>4, <1>3
      <4>2. a \in 1..n
        BY <3>4, <4>1, <1>3 DEF Calls
      <4> QED
        BY <3>1, <3>4, <4>1, <4>2, <1>7
    <3>5. Calls(i, k)' /\ i \in 1..(n + 1) /\ k \in 1..(n + 1) /\ proc' = said'.log[i]
      BY <2>2, <3>1, <1>3, <1>7
    <3> QED
      BY <2>2, <3>4, <3>5, <1>3 DEF LastCall
  <2> QED
    BY <2>1, <2>2
<1> QED
  BY <1>6, <1>9 DEF Kept

\* Whatever else a member is, names and calls stay as they are.
LEMMA OthersKeep ==
  ASSUME IInv, UNCHANGED <<method, proc>>, said'.log = said.log
  PROVE  Kept'
BY DEF IInv, Kept, NameKept, LastName, CallKept, LastCall, Calls

-----------------------------------------------------------------------------
\* Reading a member keeps the bounds and adds its bits; nothing of the reply changes.
LEMMA MemberReads ==
  ASSUME IInv, NEW bits \in SUBSET Bits, Member(bits)
  PROVE  /\ phase = "members" /\ "bad" \notin errors
         /\ phase' \in {"start", "members", "handled", "replied", "silent"} /\ ctype' \in BOOLEAN
         /\ errors' = errors \cup bits /\ errors' \subseteq Bits
         /\ members \in Nat /\ members' = members + 1 /\ members' \in 0..MaxMembers
         /\ code' \in ErrorCode
         /\ resp' \in Response /\ resp' = NewResponse
         /\ shown' \in {"nothing", "result", "error"}
         /\ ran' \in {<<>>} \cup {<<p>> : p \in Procedures}
         /\ alive \in Nat /\ alive <= members
         /\ ~said.whole
         /\ phase' = "members" /\ ran' = <<>> /\ Outcome'
<1>1. /\ phase = "members" /\ "bad" \notin errors /\ members < MaxMembers
      /\ phase' = phase /\ errors' = errors \cup bits /\ members' = members + 1
      /\ UNCHANGED <<ctype, code, resp, shown, ran>>
  BY DEF Member, Readable, ending
<1>2. ran = <<>> /\ resp = NewResponse /\ alive <= members /\ ~said.whole
  BY <1>1 DEF IInv, Untouched, ReadWhole
<1>3. Outcome'
  BY <1>1, <1>2 DEF Outcome, SuccessMeansDone
<1>4. MaxMembers \in Nat
  BY RpcAssumption DEF RpcAssumption
<1> QED
  BY <1>1, <1>2, <1>3, <1>4 DEF IInv, TypeOK, Bits

LEMMA MembersKeep ==
  ASSUME IInv, VersionMember \/ MethodMember \/ IdMember \/ ParamsMember \/ OtherMember
  PROVE  IInv'
<1>0. MaxMembers \in Nat
  BY RpcAssumption DEF RpcAssumption
<1> USE DEF IInv
<1>1. CASE VersionMember
  <2>1. PICK v \in {"empty", "1.0", "2.0"}, bits \in SUBSET Bits : Jsonrpc(v, bits)
    BY <1>1 DEF VersionMember, Bits
  <2>2. Member(bits) /\ version' = v /\ UNCHANGED <<method, id, idtype, proc, alive, said>>
    BY <2>1 DEF Jsonrpc
  <2>3. TypeOK'
    BY <2>2, MemberReads DEF TypeOK, Bits
  <2>4. Untouched'
    BY <2>2, MemberReads DEF Untouched
  <2> QED
    BY <2>2, <2>3, <2>4, MemberReads, OthersKeep DEF Noticed, ReadWhole, IdKept
<1>2. CASE MethodMember
  <2>1. PICK m \in Texts, bits \in SUBSET Bits : MethodIs(m, bits)
    BY <1>2 DEF MethodMember, Texts, Bits
  <2>2. /\ Member(bits) /\ method' = m /\ said' = [said EXCEPT !.log = Append(@, m)]
        /\ UNCHANGED <<version, id, idtype, proc, alive>>
    BY <2>1 DEF MethodIs
  <2>3. /\ said'.log = Append(said.log, m) /\ said'.id = said.id
        /\ said'.whole = said.whole /\ said'.params = said.params
        /\ said' \in Saying
    BY <2>2, LogGrows DEF TypeOK, Saying
  <2>4. TypeOK'
    BY <2>2, <2>3, MemberReads DEF TypeOK, Bits, Saying
  <2>5. Untouched'
    BY <2>2, MemberReads DEF Untouched
  <2>6. Kept'
    BY <2>2, <2>3, NameSaid
  <2> QED
    BY <2>2, <2>3, <2>4, <2>5, <2>6, MemberReads DEF Noticed, ReadWhole, IdKept
<1>3. CASE IdMember
  <2>1. PICK text \in Ids \cup {None, "truncated"}, type \in IdType, bits \in SUBSET Bits,
             value \in Ids \cup {None, "long", "fraction", "part", "other"} :
          /\ Id(text, type, bits, value)
          /\ \/ type \in {"null", "bad"}
             \/ "bad" \in bits /\ value \in {"fraction", "part", "other"}
             \/ text = value /\ text \in Ids
    <3>1. ASSUME NEW i \in Ids, IntId(i) \/ StringId(i)
          PROVE  Id(i, "number", {}, i) \/ Id(i, StringIdType, {}, i)
      BY <3>1 DEF IntId, StringId
    <3>2. StringIdType \in IdType /\ id \in Ids \cup {None, "truncated"} /\ idtype \in IdType
      BY DEF StringIdType, IdType, TypeOK
    <3>3. CASE \E i \in Ids : IntId(i) \/ StringId(i)
      BY <3>3, <3>1, <3>2 DEF IdType
    <3>4. CASE NullId
      BY <3>4, <3>2 DEF NullId, IdType
    <3>5. CASE LongIntId \/ LongStringId
      BY <3>5 DEF LongIntId, LongStringId, IdType, Bits
    <3>6. CASE FractionId
      BY <3>6 DEF FractionId, IdType, Bits
    <3>7. CASE OtherId
      BY <3>7, <3>2 DEF OtherId, Bits
    <3> QED
      BY <1>3, <3>3, <3>4, <3>5, <3>6, <3>7 DEF IdMember
  <2>2. /\ Member(bits) /\ id' = text /\ idtype' = type /\ said' = [said EXCEPT !.id = value]
        /\ UNCHANGED <<version, method, proc, alive>>
    BY <2>1 DEF Id
  <2>3. /\ said'.log = said.log /\ said'.id = value
        /\ said'.whole = said.whole /\ said'.params = said.params
        /\ said' \in Saying
    BY <2>2 DEF TypeOK, Saying
  <2>4. TypeOK'
    BY <2>2, <2>3, MemberReads DEF TypeOK, Bits, Saying
  <2>5. IdKept'
    BY <2>1, <2>2, <2>3, MemberReads DEF IdKept
  <2>6. Untouched'
    BY <2>2, MemberReads DEF Untouched
  <2> QED
    BY <2>2, <2>3, <2>4, <2>5, <2>6, MemberReads, OthersKeep DEF Noticed, ReadWhole
<1>4. CASE ParamsMember
  <2>1. CASE SkippedParams
    <3>1. PICK bits \in SUBSET Bits :
            /\ Member(bits) /\ UNCHANGED <<version, method, id, idtype, proc, alive>>
            /\ said' = [said EXCEPT !.log = Append(@, "params")] /\ Found(method) = None
      BY <2>1 DEF SkippedParams, fields, Bits
    <3>2. /\ said'.log = Append(said.log, "params") /\ said'.id = said.id
          /\ said'.whole = said.whole /\ said'.params = said.params
          /\ said' \in Saying
      BY <3>1, LogGrows DEF TypeOK, Saying
    <3>3. TypeOK'
      BY <3>1, <3>2, MemberReads DEF TypeOK, Bits, Saying
    <3>4. Untouched'
      BY <3>1, MemberReads DEF Untouched
    <3>5. Kept'
      BY <3>1, <3>2, ParamsSaid
    <3> QED
      BY <3>1, <3>2, <3>3, <3>4, <3>5, MemberReads DEF Noticed, ReadWhole, IdKept
  <2>2. CASE ~SkippedParams
    <3>1. PICK how \in {"good", "changed", "wrong"}, bits \in SUBSET Bits :
            /\ Constructed(how) /\ Member(bits)
            /\ how = "wrong" => bits \cap {"mismatch", "overrun", "bad"} # {}
      BY <1>4, <2>2 DEF ParamsMember, Params, OverflowBits, Bits
    <3>2. /\ proc' = method /\ method # None /\ method \in Procedures
          /\ proc' = Found(method) /\ Found(method) # None /\ alive' = alive + 1
          /\ said' = [said EXCEPT !.params = how, !.log = Append(@, "params")]
          /\ UNCHANGED <<version, method, id, idtype>>
      BY <3>1 DEF Constructed, Found
    <3>3. /\ said'.log = Append(said.log, "params") /\ said'.id = said.id
          /\ said'.whole = said.whole /\ said'.params = how
          /\ said' \in Saying
      BY <3>2, LogGrows DEF TypeOK, Saying
    <3>4. alive' \in 0..(MaxMembers + 1) /\ alive' >= 1 /\ alive' <= members'
      <4>1. alive \in Nat /\ alive <= members /\ members \in Nat
            /\ members' = members + 1 /\ members' \in 0..MaxMembers
        BY <3>1, MemberReads
      <4>2. alive' = alive + 1
        BY <3>2
      <4> QED
        BY <1>0, <4>1, <4>2
    <3>5. TypeOK'
      <4>1. /\ version' \in {"empty", "1.0", "2.0"} /\ method' \in Texts /\ proc' \in Procedures \cup {None}
            /\ id' \in Ids \cup {None, "truncated"} /\ idtype' \in IdType
        BY <3>2 DEF TypeOK
      <4>2. said' \in Saying /\ alive' \in 0..(MaxMembers + 1)
        BY <3>3, <3>4
      <4>3. /\ phase' = "members" /\ ctype' \in BOOLEAN /\ errors' \subseteq Bits /\ code' \in ErrorCode
            /\ resp' \in Response /\ shown' \in {"nothing", "result", "error"}
            /\ members' \in 0..MaxMembers /\ ran' \in {<<>>} \cup {<<p>> : p \in Procedures}
        BY <3>1, MemberReads
      <4> QED
        BY <4>1, <4>2, <4>3 DEF TypeOK, Bits, Saying
    <3>6. Noticed'
      BY <3>1, <3>2, <3>3, MemberReads DEF Noticed
    <3>7. Untouched'
      BY <3>1, <3>4, MemberReads DEF Untouched
    <3>8. Kept'
      BY <3>2, <3>3, ParamsSaid
    <3> QED
      BY <3>1, <3>2, <3>3, <3>5, <3>6, <3>7, <3>8, MemberReads DEF ReadWhole, IdKept
  <2> QED
    BY <2>1, <2>2
<1>5. CASE OtherMember
  <2>1. PICK bits \in SUBSET Bits :
          Member(bits) /\ UNCHANGED <<version, method, id, idtype, proc, alive, said>>
    BY <1>5 DEF OtherMember, fields, Bits
  <2>2. TypeOK'
    BY <2>1, MemberReads DEF TypeOK, Bits
  <2>3. Untouched'
    BY <2>1, MemberReads DEF Untouched
  <2> QED
    BY <2>1, <2>2, <2>3, MemberReads, OthersKeep DEF Noticed, ReadWhole, IdKept
<1> QED
  BY <1>1, <1>2, <1>3, <1>4, <1>5

-----------------------------------------------------------------------------
\* The reading ends: the reply has not been touched.
LEMMA EndingKeeps ==
  ASSUME IInv, NEW bits \in SUBSET Bits, Ended(bits), phase \in {"start", "members"}
  PROVE  /\ phase' = "handled" /\ errors' = errors \cup bits /\ errors' \subseteq Bits
         /\ ctype' \in BOOLEAN /\ code' \in ErrorCode
         /\ resp' \in Response /\ resp' = NewResponse
         /\ shown' \in {"nothing", "result", "error"} /\ members' \in 0..MaxMembers
         /\ ran' = <<>> /\ ran' \in {<<>>} \cup {<<p>> : p \in Procedures} /\ Outcome'
         /\ members \in Nat /\ members <= MaxMembers /\ alive \in Nat /\ alive <= members /\ ~said.whole
         /\ proc # None => alive >= 1
<1>1. /\ phase' = "handled" /\ errors' = errors \cup bits
      /\ UNCHANGED <<ctype, code, resp, shown, ran, members>>
  BY DEF Ended, ending
<1>2. ran = <<>> /\ resp = NewResponse /\ alive <= members /\ ~said.whole /\ (proc # None => alive >= 1)
  BY DEF IInv, Untouched, ReadWhole
<1>3. Outcome'
  BY <1>1, <1>2 DEF Outcome, SuccessMeansDone
<1>4. MaxMembers \in Nat
  BY RpcAssumption DEF RpcAssumption
<1>5. alive \in 0..(MaxMembers + 1) /\ members \in 0..MaxMembers
  BY DEF IInv, TypeOK
<1>6. alive \in Nat /\ members \in Nat /\ members <= MaxMembers
  BY <1>4, <1>5
<1>7. ctype \in BOOLEAN /\ code \in ErrorCode /\ shown \in {"nothing", "result", "error"} /\ errors \subseteq Bits
  BY DEF IInv, TypeOK, Bits
<1>8. NewResponse \in Response
  BY NewIsTyped
<1> QED
  BY <1>1, <1>2, <1>3, <1>5, <1>6, <1>7, <1>8

\* Reading begins, and ends: of a whole request, of a broken or of a cut one.
LEMMA ReadingKeeps ==
  ASSUME IInv, Begin \/ End \/ Garbage \/ Cut \/ FailedRead
  PROVE  IInv'
<1>0. MaxMembers \in Nat
  BY RpcAssumption DEF RpcAssumption
<1> USE DEF IInv
<1>1. CASE Begin
  <2>1. /\ phase = "start" /\ phase' = "members"
        /\ UNCHANGED <<ctype, version, method, id, idtype, proc, alive, errors, code, resp, shown,
                       ran, members, said>>
    BY <1>1 DEF Begin, fields, ending
  <2>2. TypeOK'
    BY <2>1 DEF TypeOK
  <2>3. Untouched' /\ Outcome'
    BY <2>1 DEF Untouched, Outcome, SuccessMeansDone
  <2> QED
    BY <2>1, <2>2, <2>3, OthersKeep DEF Noticed, ReadWhole, IdKept
<1>2. CASE End
  <2>1. /\ phase = "members" /\ "bad" \notin errors /\ Ended({}) /\ {} \in SUBSET Bits
        /\ said' = [said EXCEPT !.whole = TRUE]
        /\ UNCHANGED <<version, method, id, idtype, proc, alive>>
    BY <1>2 DEF End, Readable, fields
  <2>2. /\ said'.log = said.log /\ said'.id = said.id /\ said'.params = said.params
        /\ said' \in Saying
    BY <2>1 DEF TypeOK, Saying
  <2>3. TypeOK'
    BY <2>1, <2>2, EndingKeeps DEF TypeOK, Bits, Saying
  <2>4. Untouched'
    BY <2>1, EndingKeeps DEF Untouched
  <2> QED
    BY <2>1, <2>2, <2>3, <2>4, EndingKeeps, OthersKeep DEF Noticed, ReadWhole, IdKept
<1>3. ASSUME phase \in {"start", "members"},
             \E bits \in SUBSET Bits : Ended(bits) /\ UNCHANGED <<fields, said>>
      PROVE  IInv'
  <2>1. PICK bits \in SUBSET Bits :
          Ended(bits) /\ UNCHANGED <<version, method, id, idtype, proc, alive, said>>
    BY <1>3 DEF fields
  <2>2. TypeOK'
    BY <1>3, <2>1, EndingKeeps DEF TypeOK, Bits
  <2>3. Untouched'
    BY <1>3, <2>1, EndingKeeps DEF Untouched
  <2> QED
    BY <1>3, <2>1, <2>2, <2>3, EndingKeeps, OthersKeep DEF Noticed, ReadWhole, IdKept
<1>4. ASSUME NEW type \in IdType, NEW bits \in SUBSET Bits, "bad" \in bits, CutId(type, bits, "part")
      PROVE  IInv'
  <2>1. /\ phase = "members" /\ Ended(bits) /\ id' = "truncated" /\ idtype' = type
        /\ said' = [said EXCEPT !.id = "part"] /\ UNCHANGED <<version, method, proc, alive>>
    BY <1>4 DEF CutId, Readable
  <2>2. /\ said'.log = said.log /\ said'.id = "part" /\ said'.params = said.params
        /\ said'.whole = said.whole /\ said' \in Saying
    BY <2>1 DEF TypeOK, Saying
  <2>3. TypeOK'
    BY <2>1, <2>2, EndingKeeps DEF TypeOK, Bits, Saying
  <2>4. Untouched'
    BY <2>1, EndingKeeps DEF Untouched
  <2>5. IdKept'
    BY <1>4, <2>1, <2>2, EndingKeeps DEF IdKept
  <2> QED
    BY <2>1, <2>2, <2>3, <2>4, <2>5, EndingKeeps, OthersKeep DEF Noticed, ReadWhole
<1>5. ASSUME NEW bits \in SUBSET Bits, "bad" \in bits, Readable, Constructed("cut"), Ended(bits)
      PROVE  IInv'
  <2>1. /\ phase = "members" /\ proc' = method /\ method # None /\ method \in Procedures
        /\ proc' = Found(method) /\ Found(method) # None /\ alive' = alive + 1
        /\ said' = [said EXCEPT !.params = "cut", !.log = Append(@, "params")]
        /\ UNCHANGED <<version, method, id, idtype>>
    BY <1>5 DEF Constructed, Found, Readable
  <2>2. /\ said'.log = Append(said.log, "params") /\ said'.id = said.id
        /\ said'.whole = said.whole /\ said'.params = "cut"
        /\ said' \in Saying
    BY <2>1, LogGrows DEF TypeOK, Saying
  <2>3. alive' \in 0..(MaxMembers + 1) /\ alive' >= 1
    <3>1. alive \in Nat /\ alive <= members /\ members \in Nat /\ members <= MaxMembers
      BY <1>5, <2>1, EndingKeeps
    <3>2. alive' = alive + 1
      BY <2>1
    <3> QED
      BY <1>0, <3>1, <3>2
  <2>4. TypeOK'
    <3>1. /\ version' \in {"empty", "1.0", "2.0"} /\ method' \in Texts /\ proc' \in Procedures \cup {None}
          /\ id' \in Ids \cup {None, "truncated"} /\ idtype' \in IdType
      BY <2>1 DEF TypeOK
    <3>2. said' \in Saying /\ alive' \in 0..(MaxMembers + 1)
      BY <2>2, <2>3
    <3>3. /\ phase' = "handled" /\ ctype' \in BOOLEAN /\ errors' \subseteq Bits /\ code' \in ErrorCode
          /\ resp' \in Response /\ shown' \in {"nothing", "result", "error"}
          /\ members' \in 0..MaxMembers /\ ran' \in {<<>>} \cup {<<p>> : p \in Procedures}
      BY <1>5, <2>1, EndingKeeps
    <3> QED
      BY <3>1, <3>2, <3>3 DEF TypeOK, Bits, Saying
  <2>5. Untouched'
    BY <1>5, <2>1, <2>3, EndingKeeps DEF Untouched
  <2>6. Kept'
    BY <2>1, <2>2, ParamsSaid
  <2>7. Noticed'
    BY <1>5, <2>1, <2>2, EndingKeeps DEF Noticed
  <2> QED
    BY <1>5, <2>1, <2>2, <2>4, <2>5, <2>6, <2>7, EndingKeeps DEF ReadWhole, IdKept
<1>6. CASE Garbage
  <2>1. /\ phase \in {"start", "members"}
        /\ \E bits \in SUBSET Bits : Ended(bits) /\ UNCHANGED <<fields, said>>
    BY <1>6 DEF Garbage, Bits
  <2> QED
    BY <2>1, <1>3
<1>7. CASE Cut
  <2>1. CASE /\ phase \in {"start", "members"}
             /\ \E bits \in {{"eof"}, {"eof", "bad"}} : Ended(bits)
             /\ UNCHANGED <<fields, said>>
    <3>1. \E bits \in SUBSET Bits : Ended(bits) /\ UNCHANGED <<fields, said>>
      BY <2>1 DEF Bits
    <3> QED
      BY <2>1, <3>1, <1>3
  <2>2. CASE CutId(StringIdType, {"eof", "bad"}, "part")
    <3>1. StringIdType \in IdType /\ {"eof", "bad"} \in SUBSET Bits
      BY DEF StringIdType, IdType, Bits
    <3> QED
      BY <2>2, <3>1, <1>4
  <2>3. CASE CutId("bad", {"eof", "overrun", "bad"}, "part")
    <3>1. "bad" \in IdType /\ {"eof", "overrun", "bad"} \in SUBSET Bits
      BY DEF IdType, Bits
    <3> QED
      BY <2>3, <3>1, <1>4
  <2>4. CASE /\ Readable /\ Constructed("cut")
             /\ \E bits \in {{}, {"mismatch"}, {"overrun"}} : Ended(bits \cup {"eof", "bad"})
    <3>1. PICK bits \in SUBSET Bits : "bad" \in bits /\ Ended(bits)
      BY <2>4 DEF Bits
    <3> QED
      BY <2>4, <3>1, <1>5
  <2> QED
    BY <1>7, <2>1, <2>2, <2>3, <2>4 DEF Cut
<1>8. CASE FailedRead
  <2>1. phase = "members" /\ Ended({}) /\ UNCHANGED <<fields, said>> /\ {} \in SUBSET Bits
    BY <1>8 DEF FailedRead
  <2> QED
    BY <2>1, <1>3
<1> QED
  BY <1>1, <1>2, <1>6, <1>7, <1>8

-----------------------------------------------------------------------------
\* The codes handle leaves: success only of a whole request that is to run.
LEMMA CodesAreTold ==
  ASSUME IInv
  PROVE  /\ ReadCode \in ErrorCode /\ HandleCode \in ErrorCode
         /\ ReadIdType \in {"null", idtype}
         /\ MayRun => proc # None /\ errors \cap {"overrun", "mismatch"} = {}
         /\ HandleCode = "no_errors" => MayRun /\ said.whole /\ version = "2.0"
BY DEF IInv, ReadCode, ReadIdType, HandleCode, MayRun, GoesOn, BadParams, Broken, ErrorCode

\* A reply has the types of one, and leaves what was read as it is.
LEMMA ReplyIsTyped ==
  ASSUME IInv, NEW r \in Response, NEW c \in ErrorCode, Reply(r, c),
         phase \in {"start", "handled"},
         \/ ran' = <<>>
         \/ ran' = <<proc>> /\ proc # None
  PROVE  /\ TypeOK' /\ Untouched' /\ Kept' /\ Noticed' /\ ReadWhole' /\ IdKept'
         /\ phase' = "replied" /\ code' = c /\ resp' = Written(r, c) /\ shown' = Shown(c)
         /\ UNCHANGED <<version, proc, errors, said>>
<1> USE DEF IInv
<1>1. /\ code' = c /\ resp' = Written(r, c) /\ shown' = Shown(c) /\ idtype' = ReadIdType
      /\ alive' = alive - Disposed /\ phase' = "replied"
      /\ UNCHANGED <<ctype, version, method, id, proc, errors, members, said>>
  BY DEF Reply
<1>2. resp' \in Response
  BY <1>1, WrittenIsTyped
<1>3. alive' \in 0..(MaxMembers + 1)
  <2>1. MaxMembers \in Nat /\ alive \in 0..(MaxMembers + 1) /\ (proc # None => alive >= 1)
    BY RpcAssumption DEF RpcAssumption, TypeOK, Untouched
  <2> QED
    BY <1>1, <2>1 DEF Disposed
<1>4. shown' \in {"nothing", "result", "error"}
  BY <1>1 DEF Shown
<1>5. ran' \in {<<>>} \cup {<<p>> : p \in Procedures}
  BY DEF TypeOK
<1>6. idtype' \in IdType
  BY <1>1, CodesAreTold DEF TypeOK, IdType
<1>7. TypeOK'
  BY <1>1, <1>2, <1>3, <1>4, <1>5, <1>6 DEF TypeOK
<1>8. IdKept'
  BY <1>1, CodesAreTold DEF IdKept
<1>9. Kept'
  BY <1>1, OthersKeep
<1> QED
  BY <1>1, <1>7, <1>8, <1>9 DEF Untouched, Noticed, ReadWhole

LEMMA RepliesKeep ==
  ASSUME IInv, Run \/ Refuse \/ Fragment \/ WrongType \/ Get
  PROVE  IInv'
<1> USE DEF IInv
<1>1. CASE Run
  <2>1. PICK c \in {HandleCode} \cup UserErrors : Reply(resp, c)
    BY <1>1 DEF Run
  <2>2. phase = "handled" /\ MayRun /\ ran' = Append(ran, proc)
    BY <1>1 DEF Run
  <2>3. ran' = <<proc>> /\ resp = NewResponse /\ proc # None
    BY <2>2, CodesAreTold DEF Untouched
  <2>4. c \in ErrorCode /\ NewResponse \in Response
    BY CodesAreTold, NewIsTyped DEF ErrorCode
  <2>5. /\ TypeOK' /\ Untouched' /\ Kept' /\ Noticed' /\ ReadWhole' /\ IdKept'
        /\ phase' = "replied" /\ code' = c /\ resp' = Written(resp, c) /\ shown' = Shown(c)
        /\ UNCHANGED <<version, proc, errors, said>>
    BY <2>1, <2>2, <2>3, <2>4, ReplyIsTyped
  <2>6. SuccessMeansDone'
    <3> SUFFICES ASSUME IsGood(resp') PROVE SuccessMeansDone'
      BY DEF SuccessMeansDone
    <3>1. c = "no_errors"
      BY <2>4, <2>3, <2>5, WrittenIsTyped
    <3>2. HandleCode = "no_errors"
      BY <3>1, RpcAssumption DEF RpcAssumption
    <3>3. said.whole /\ version = "2.0"
      BY <3>2, CodesAreTold
    <3>4. shown' # "error"
      BY <2>5, <3>1 DEF Shown
    <3>5. said.params \in {"good", "changed"}
      <4>1. said.params \in {"none", "good", "changed", "wrong", "cut"}
        BY DEF TypeOK
      <4>2. errors \cap {"overrun", "mismatch"} = {} /\ "bad" \notin errors
        BY <2>2, <3>3, CodesAreTold DEF ReadWhole
      <4> QED
        BY <2>3, <4>1, <4>2 DEF Noticed
    <3> QED
      BY <2>3, <2>5, <3>1, <3>3, <3>4, <3>5 DEF SuccessMeansDone
  <2> QED
    BY <2>3, <2>5, <2>6 DEF Outcome
<1>2. CASE Refuse \/ WrongType
  <2>1. PICK st \in {Not_Found, Internal_Server_Error, Bad_Request}, c \in ErrorCode :
          Reply(SetError(resp, st), c)
    BY <1>2, CodesAreTold DEF Refuse, WrongType, ErrorCode
  <2>2. phase \in {"start", "handled"} /\ ran' = ran
    BY <1>2 DEF Refuse, WrongType
  <2>3. ran' = <<>> /\ resp = NewResponse
    BY <2>2 DEF Untouched
  <2>4. SetError(resp, st) \in Response /\ Failed(SetError(resp, st))
    <3>1. SetError(NewResponse, st) = [status |-> st, ctype |-> "unknown", fields |-> {}]
      BY NewIsTyped DEF SetError
    <3> QED
      BY <2>3, <3>1 DEF Response, Failed, Status, MediaType, Not_Found, Internal_Server_Error,
                        Bad_Request
  <2>5. /\ TypeOK' /\ Untouched' /\ Kept' /\ Noticed' /\ ReadWhole' /\ IdKept'
        /\ phase' = "replied" /\ resp' = Written(SetError(resp, st), c)
    <3> DEFINE r == SetError(resp, st)
    <3>1. r \in Response /\ Reply(r, c)
      BY <2>1, <2>4
    <3> HIDE DEF r
    <3>2. /\ TypeOK' /\ Untouched' /\ Kept' /\ Noticed' /\ ReadWhole' /\ IdKept'
          /\ phase' = "replied" /\ resp' = Written(r, c)
      BY <2>2, <2>3, <3>1, ReplyIsTyped
    <3> QED
      BY <3>2 DEF r
  <2>6. ~IsGood(resp')
    BY <2>4, <2>5, WrittenIsTyped
  <2> QED
    BY <2>3, <2>5, <2>6 DEF Outcome, SuccessMeansDone
<1>3. CASE Fragment
  <2>1. /\ phase = "handled" /\ phase' = "silent" /\ code' = HandleCode
        /\ UNCHANGED <<ctype, version, method, id, idtype, proc, alive, errors, resp, shown,
                       ran, members, said>>
    BY <1>3 DEF Fragment, fields
  <2>2. ran' = <<>>
    BY <2>1 DEF Untouched
  <2>3. TypeOK'
    BY <2>1, CodesAreTold DEF TypeOK
  <2>4. Outcome'
    BY <2>1, <2>2 DEF Outcome, SuccessMeansDone
  <2> QED
    BY <2>1, <2>3, <2>4, OthersKeep DEF Untouched, Noticed, ReadWhole, IdKept
<1>4. CASE Get
  <2>1. /\ phase = "start" /\ phase' = "replied" /\ resp' = SetError(resp, Not_Implemented)
        /\ UNCHANGED <<ctype, version, method, id, idtype, proc, alive, errors, code, shown,
                       ran, members, said>>
    BY <1>4 DEF Get, fields
  <2>2. ran' = <<>> /\ resp = NewResponse
    BY <2>1 DEF Untouched
  <2>3. resp' = [status |-> Not_Implemented, ctype |-> "unknown", fields |-> {}]
    BY <2>1, <2>2, NewIsTyped DEF SetError
  <2>4. resp' \in Response /\ ~IsGood(resp')
    BY <2>3 DEF Response, Status, MediaType, IsGood, Not_Implemented, Bad_Request
  <2>5. TypeOK'
    BY <2>1, <2>4 DEF TypeOK
  <2>6. Outcome'
    BY <2>1, <2>2, <2>4 DEF Outcome, SuccessMeansDone
  <2> QED
    BY <2>1, <2>5, <2>6, OthersKeep DEF Untouched, Noticed, ReadWhole, IdKept
<1> QED
  BY <1>1, <1>2, <1>3, <1>4

\* A step that changes nothing.
LEMMA StutteringKeeps == IInv /\ UNCHANGED vars => IInv'
<1> SUFFICES ASSUME IInv, UNCHANGED vars PROVE IInv'
  OBVIOUS
<1>1. UNCHANGED <<phase, ctype, version, method, id, idtype, proc, alive, errors, code, resp, shown,
                  ran, members, said>>
  BY DEF vars, fields, ending
<1>2. Kept'
  BY <1>1, OthersKeep
<1>3. TypeOK' /\ Untouched' /\ Noticed' /\ ReadWhole' /\ IdKept'
  BY <1>1 DEF IInv, TypeOK, Untouched, Noticed, ReadWhole, IdKept
<1>4. Outcome'
  BY <1>1 DEF IInv, Outcome, SuccessMeansDone
<1> QED
  BY <1>2, <1>3, <1>4 DEF IInv

LEMMA NextKeeps == IInv /\ [Next]_vars => IInv'
BY MembersKeep, ReadingKeeps, RepliesKeep, StutteringKeeps DEF Next

\* The invariant holds of every call.
LEMMA Invariant == Spec => []IInv
<1>1. Init => IInv
  BY InitHolds
<1>2. IInv /\ [Next]_vars => IInv'
  BY NextKeeps
<1> QED
  BY <1>1, <1>2, PTL DEF Spec

-----------------------------------------------------------------------------
\* Whatever members a request has, the variables keep their types and bounds.
THEOREM CallTypeCorrect == Spec => []TypeOK
<1>1. IInv => TypeOK
  BY DEF IInv
<1> QED
  BY <1>1, Invariant, PTL

\* service::request::find, json::params: what is run is the procedure named last before the
\* last parameters that had a procedure.
THEOREM NamedIsRun == Spec => []RunsWhatWasNamed
<1>1. IInv => RunsWhatWasNamed
  BY DEF IInv, Outcome, Kept, CallKept, LastCall, RunsWhatWasNamed
<1> QED
  BY <1>1, Invariant, PTL

\* handle(message): success is answered only when a whole request of version 2.0 was read
\* and its procedure run once, with parameters it declares, numbers too large for their
\* type having been changed.
THEOREM SuccessIsEarned == Spec => []SuccessMeansDone
<1>1. IInv => SuccessMeansDone
  BY DEF IInv, Outcome
<1> QED
  BY <1>1, Invariant, PTL

\* write: the id of a reply is the last one of the request; of a request whose reading ended
\* in its id it may be another text, and the reply is one of an error.
THEOREM IdIsEchoed == Spec => []EchoesTheId
<1>1. IInv => EchoesTheId
  BY DEF IInv, EchoesTheId, IdKept, ReadWhole, Outcome, SuccessMeansDone
<1> QED
  BY <1>1, Invariant, PTL
=============================================================================
