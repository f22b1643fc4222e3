----------------------------- MODULE Resources -----------------------------
(***************************************************************************)
(* The content providers of micurest.hpp: what GET and PUT on a resource   *)
(* node do to the value behind the node and to the response.               *)
(*                                                                         *)
(* A provider is one virtual object without state of its own; the value it *)
(* serves belongs to the application.  So a provider is a pure operator    *)
(* here: Put(n, requ, resp, value, in) is the outcome of node::put when    *)
(* the characters "in" are all that has arrived of the message body.       *)
(*                                                                         *)
(* Kinds of nodes (ResourceMap builds them): "text" FileText, "octets"     *)
(* FileBinary, "num" numeric through a reference or a pointer, "func"      *)
(* numeric through functions, "array" NodeIndexedVector by reference,      *)
(* "items" the same through functions, "bunch" without a setter, "json"    *)
(* NodeJSON and NodeJSONRpc, "const" NodeTextFuction, "provider"           *)
(* NodeProvider, "action" NodeAction, "dir" Dir and Root.                  *)
(***************************************************************************)
EXTENDS HttpMessage, SequencesExt

CONSTANTS Nodes,    \* the resource map
          NoNode,   \* nullptr
          Root,     \* the root directory
          Kind,     \* Kind[n]: the provider behind node n
          Media,    \* Media[n]: mediatype() of node n
          Size,     \* Size[n]: capacity of a text, octets or action node, items of a vector
          Entries,  \* Entries[n]: the entries of directory n, in order
          Absent,   \* what a pointer to no variable yields
          Digits,   \* Digits[name]: the digits of a path section that is a number
          IdRange   \* identity_t counts modulo IdRange, 2^32 in the source

Identity == 0..(IdRange - 1)

ASSUME NodesAssumption ==
  /\ NoNode \notin Nodes
  /\ Root \in Nodes
  /\ Kind \in [Nodes -> {"text", "octets", "num", "func", "array", "items", "bunch",
                         "json", "const", "provider", "action", "dir"}]
  /\ Kind[Root] = "dir"
  /\ Media \in [Nodes -> MediaType]
  /\ Size \in [Nodes -> Nat]
  /\ IdRange \in Nat \ {0}
  /\ Absent \notin Nat
  /\ \A n \in Nodes : /\ Entries[n] \in Seq(Range(Entries[n]))
                      /\ \A i \in DOMAIN Entries[n] : Entries[n][i].node \in [Identity -> Nodes]
  /\ \A name \in DOMAIN Digits : Digits[name] \in Seq(0..9)

\* A payload character: two digits, a printable character that is no part of
\* a number, the control character that ends a line, and a closing bracket.
DigitOf == [c \in {"1", "2"} |-> IF c = "1" THEN 1 ELSE 2]
Char    == DOMAIN DigitOf \cup {"x", "eol", "end"}
Nul     == "nul"

\* The shape of the variable behind a node, which the type of the variable fixes.
Fits(n, value) ==
  /\ Kind[n] = "text"   => DOMAIN value = 1..Size[n]
  /\ Kind[n] = "octets" => DOMAIN value = {"data", "len"} /\ DOMAIN value.data = 1..Size[n]
  /\ Kind[n] = "json"   => DOMAIN value = 1..Size[n]
  /\ Kind[n] \in {"array", "items", "bunch"} => DOMAIN value = 0..(Size[n] - 1)

-----------------------------------------------------------------------------
\* How many characters a loop bounded by limit reads before it meets a
\* character of stops (which it consumes) or the end of the received input.
Taken(in, limit, stops) ==
  CHOOSE k \in 0..Len(in) :
    /\ k <= limit
    /\ \A i \in 1..k : in[i] \notin stops
    /\ k = limit \/ k = Len(in) \/ in[k + 1] \in stops

HitsEnd(in, limit, k) == k < limit /\ k = Len(in)

Outcome(value, resp, eof, good) ==
  [value |-> value, resp |-> resp, eof |-> eof, good |-> good]

Refused(value, resp, st) == Outcome(value, SetError(resp, st), FALSE, TRUE)

Stored_Short(array, in, k) == [i \in DOMAIN array |-> IF i < k THEN in[i] ELSE array[i]]

Stored(array, in, k) == [i \in DOMAIN array |-> IF i <= k THEN in[i] ELSE array[i]]

\* details::text::put.  Without Content-Length one line is read.  Characters go
\* straight into the application's buffer, the terminator only on success.
PutText(n, requ, resp, value, in) ==
  LET sized == Has(requ, "content_length")
      limit == IF sized THEN requ.clen ELSE Size[n]
      k     == Taken(in, limit, IF sized THEN {} ELSE {"eol"})
      eof   == HitsEnd(in, limit, k)
      array == Stored(value, in, k)
  IN  IF sized /\ requ.clen >= Size[n]
      THEN Refused(value, resp, Request_Entity_Too_Large)
      ELSE IF k >= Size[n]
      THEN Outcome(array, SetError(resp, Request_Entity_Too_Large), eof, TRUE)
      ELSE IF eof
      THEN Outcome(array, SetError(resp, Bad_Request), eof, TRUE)
      ELSE Outcome([array EXCEPT ![k + 1] = Nul], SetStatus(resp, No_Content), eof, TRUE)

\* details::octets::put: the length is stored even when the data is incomplete.
PutOctets(n, requ, resp, value, in) ==
  LET k   == Taken(in, requ.clen, {})
      new == [data |-> Stored(value.data, in, k), len |-> k]
  IN  IF ~Has(requ, "content_length")
      THEN Refused(value, resp, Length_Required)
      ELSE IF requ.clen > Size[n]
      THEN Refused(value, resp, Request_Entity_Too_Large)
      ELSE IF k < requ.clen
      THEN Outcome(new, SetError(resp, Bad_Request), TRUE, TRUE)
      ELSE Outcome(new, SetStatus(resp, No_Content), FALSE, TRUE)

\* details::reader<T>::read on a stream of characters: white space is skipped,
\* a number ends at white space, at a bracket or at the end of the input, any other
\* character spoils the stream.
Decimal(digits) ==
  LET value[k \in 0..Len(digits)] == IF k = 0 THEN 0 ELSE 10 * value[k - 1] + digits[k]
  IN  value[Len(digits)]

Number(text) == Decimal([i \in DOMAIN text |-> DigitOf[text[i]]])

ReadNumber(in) ==
  LET s         == SubSeq(in, 1 + Taken(in, Len(in), Char \ {"eol"}), Len(in))
      d         == Taken(s, Len(s), Char \ DOMAIN DigitOf)
      delimited == d = Len(s) \/ (d > 0 /\ s[d + 1] \in {"eol", "end"})
  IN  [value |-> Number(SubSeq(s, 1, d)),
       ok    |-> d > 0 /\ delimited,
       eof   |-> d = Len(s),
       good  |-> delimited]

PutNumeric_Direct(n, requ, resp, value, in) ==
  LET r == ReadNumber(in)
  IN  Outcome(r.value,
              IF r.ok THEN SetStatus(resp, No_Content)
                      ELSE SetError(resp, Unsupported_Content_Format),
              r.eof, r.good)

\* details::numeric::put.  Through a reference the reader works on the
\* variable itself, through functions on a local that is set on success.  A pointer
\* to no variable is written with success, and without reading the body.
PutNumeric(n, requ, resp, value, in) ==
  LET r == ReadNumber(in)
  IN  IF Kind[n] = "num" /\ value = Absent
      THEN Outcome(value, SetStatus(resp, No_Content), FALSE, TRUE)
      ELSE Outcome(IF Kind[n] = "num" \/ r.ok THEN r.value ELSE value,
                   IF r.ok THEN SetStatus(resp, No_Content)
                           ELSE SetError(resp, Unsupported_Content_Format),
                   r.eof, r.good)

\* NodeIndexedVector: the item is the one whose number the path named.
IsVector(n) == Kind[n] \in {"array", "items", "bunch"}

HasItem(n, requ) == requ.identity < Size[n]

PutItem(n, requ, resp, value, in) ==
  LET r == ReadNumber(in)
  IN  IF ~HasItem(n, requ) THEN Refused(value, resp, Not_Found)
      ELSE IF Kind[n] = "bunch" THEN Refused(value, resp, Method_Not_Allowed)
      ELSE Outcome(IF Kind[n] = "array" \/ r.ok
                   THEN [value EXCEPT ![requ.identity] = r.value] ELSE value,
                   IF r.ok THEN SetStatus(resp, No_Content)
                           ELSE SetError(resp, Unsupported_Content_Format),
                   r.eof, r.good)

\* details::json::put: a document is abstracted to one digit per member and the bracket
\* that ends it.  Members are stored as they are read, unknown ones are skipped; nothing
\* behind the bracket is read.
Members(in) ==
  LET read[k \in 0..Len(in)] ==
        IF k = 0 THEN <<>>
        ELSE IF in[k] \in DOMAIN DigitOf THEN Append(read[k - 1], in[k]) ELSE read[k - 1]
  IN  read[Len(in)]

PutJson(n, requ, resp, value, in) ==
  LET k     == Taken(in, Len(in), {"x", "end"})
      read  == Members(SubSeq(in, 1, k))
      whole == k < Len(in) /\ in[k + 1] = "end"
  IN  Outcome([i \in DOMAIN value |-> IF i \in DOMAIN read THEN DigitOf[read[i]] ELSE value[i]],
              IF whole THEN SetStatus(resp, No_Content)
                       ELSE SetError(resp, Unsupported_Content_Format),
              k = Len(in), k = Len(in) \/ whole)

\* NodeAction's put: the value records the calls of the action, whose status is
\* taken to be No_Content.  The end of the input is not told from the end of a line.
PutAction(n, requ, resp, value, in) ==
  LET sized == Size[n] > 0 /\ Has(requ, "content_length")
      limit == IF sized THEN requ.clen ELSE Size[n]
      k     == Taken(in, limit, {"eol"})
      eof   == HitsEnd(in, limit, k)
  IN  IF sized /\ requ.clen >= Size[n]
      THEN Refused(value, resp, Request_Entity_Too_Large)
      ELSE IF k >= Size[n]
      THEN Outcome(value, SetError(resp, Request_Entity_Too_Large), eof, TRUE)
      ELSE Outcome(Append(value, SubSeq(in, 1, k)), SetStatus(resp, No_Content), eof, TRUE)

Put_AnyType(n, requ, resp, value, in) ==
  CASE Kind[n] = "text"            -> PutText(n, requ, resp, value, in)
    [] Kind[n] = "octets"          -> PutOctets(n, requ, resp, value, in)
    [] Kind[n] \in {"num", "func"} -> PutNumeric(n, requ, resp, value, in)
    [] IsVector(n)                 -> PutItem(n, requ, resp, value, in)
    [] Kind[n] = "json"            -> PutJson(n, requ, resp, value, in)
    [] OTHER                       -> Refused(value, resp, Method_Not_Allowed)

\* node::put of a node: every provider that takes data checks its type first.
Put(n, requ, resp, value, in) ==
  CASE Kind[n] \in {"const", "provider"} -> Refused(value, resp, Method_Not_Allowed)
    [] Kind[n] = "dir"                   -> Refused(value, resp, Not_Implemented)
    [] OTHER ->
         IF requ.ctype # Media[n]
         THEN Refused(value, resp, Unsupported_Content_Format)
         ELSE CASE Kind[n] = "text"            -> PutText(n, requ, resp, value, in)
                [] Kind[n] = "octets"          -> PutOctets(n, requ, resp, value, in)
                [] Kind[n] \in {"num", "func"} -> PutNumeric(n, requ, resp, value, in)
                [] IsVector(n)                 -> PutItem(n, requ, resp, value, in)
                [] Kind[n] = "json"            -> PutJson(n, requ, resp, value, in)
                [] OTHER                       -> PutAction(n, requ, resp, value, in)

-----------------------------------------------------------------------------
\* FileText's length(): strlen of the array.  When the array holds no
\* terminator the scan runs on into the memory behind it; Overrun bounds how far.
Overrun == 1

Lengths(array) ==
  LET nuls == {i \in DOMAIN array : array[i] = Nul}
  IN  IF nuls = {} THEN Cardinality(DOMAIN array)..(Cardinality(DOMAIN array) + Overrun)
      ELSE {i - 1 : i \in {j \in nuls : \A k \in nuls : j <= k}}

\* The bodies GET may send for a node, a sequence of one element for a number.
Contents(n, requ, value) ==
  CASE Kind[n] = "text"   -> {[i \in 1..len |-> IF i \in DOMAIN value THEN value[i] ELSE "x"]
                                : len \in Lengths(value)}
    [] Kind[n] = "octets" -> {SubSeq(value.data, 1, value.len)}
    [] Kind[n] \in {"num", "func"}               -> {<<value>>}
    [] IsVector(n)                               -> {<<value[requ.identity]>>}
    [] Kind[n] \in {"json", "const", "provider"} -> {value}

\* What get leaves in the response before the body is written.
GetResponse(n, resp) ==
  CASE Kind[n] \in {"text", "octets", "const"} ->
         SetContentLength(SetContentType(SetStatus(resp, OK), Media[n]))
    [] Kind[n] = "provider" -> SetStatus(SetContentType(resp, Media[n]), OK)
    [] IsVector(n)          -> SetContentType(SetStatus(resp, OK), Media[n])
    [] OTHER                -> SetStatus(resp, OK)

\* Whether get finds something to send, and the response when it does not.
Readable(n, requ, value) ==
  CASE IsVector(n)                  -> HasItem(n, requ)
    [] Kind[n] = "num"              -> value # Absent
    [] Kind[n] \in {"action", "dir"} -> FALSE
    [] OTHER                        -> TRUE

Unreadable(n, resp) ==
  CASE IsVector(n)     -> SetStatus(resp, Not_Found)
    [] Kind[n] = "num" -> SetError(resp, Method_Not_Allowed)
    [] OTHER           -> SetError(resp, Not_Implemented)

-----------------------------------------------------------------------------
\* details::convert: the number a path section spells; identity_t wraps around.
Converted(name) ==
  LET value[k \in 0..Len(Digits[name])] ==
        IF k = 0 THEN 0 ELSE (10 * value[k - 1] + Digits[name][k]) % IdRange
  IN  value[Len(Digits[name])]

\* entry::matches, and the identity that a match by number leaves in the request.
Matches(e, name) == IF e.by = "name" THEN e.name = name ELSE name \in DOMAIN Digits

Identified(e, name, id) == IF e.by = "name" THEN id ELSE Converted(name)

\* find(name, msg) of Dir and Root: the node and the identity; a file has no entries.
\* The node of a dynamic entry depends on the identity.
FindEntry(n, name, id) ==
  LET hits == {i \in DOMAIN Entries[n] : Matches(Entries[n][i], name)}
      e    == Entries[n][CHOOSE i \in hits : \A j \in hits : i <= j]
      new  == Identified(e, name, id)
  IN  IF Kind[n] # "dir" \/ hits = {} THEN [node |-> NoNode, identity |-> id]
      ELSE [node |-> e.node[new], identity |-> new]

\* find(msg) of Dir and Root: the first entry the client accepts.
FindAccepted(n, accept, id) ==
  LET hits == {i \in DOMAIN Entries[n] : Media[Entries[n][i].node[id]] \in accept}
  IN  IF hits = {} THEN NoNode
      ELSE Entries[n][CHOOSE i \in hits : \A j \in hits : i <= j].node[id]

Found(path) ==
  LET at[i \in 0..Len(path)] ==
        IF i = 0 THEN [node |-> Root, identity |-> 0]
        ELSE IF at[i - 1].node = NoNode THEN at[i - 1]
        ELSE FindEntry(at[i - 1].node, path[i], at[i - 1].identity)
  IN  at[Len(path)]

Lookup(path) == Found(path).node
=============================================================================
