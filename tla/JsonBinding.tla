---------------------------- MODULE JsonBinding ----------------------------
(***************************************************************************)
(* An application that binds its variables to JSON: it receives documents  *)
(* into them (cojson::details::value::read on a lexer), whole or cut off,  *)
(* sends them (write on a buffer), and reads what it has sent: from a      *)
(* zero-terminated copy, or from the buffer it was written to.             *)
(*                                                                         *)
(* A value in a document is [type, val, text]: a number, string, Boolean   *)
(* or null is spelled out in text; a list holds values and an object holds *)
(* members <<name, value>>.                                                *)
(***************************************************************************)
EXTENDS JsonWriters

CONSTANTS Bindings,   \* the root values of the application, by name
          Stores,     \* what its variables may hold before it receives
          Docs,       \* the documents that come whole: [members, space]
          CutDocs,    \* those that come cut off as well
          Sizes,      \* of the buffers it sends from
          Arrays      \* the addresses of its character arrays

\* Of an odd number of cells abuffer::get reads one beyond the last.
ASSUME SizesAssumption == \A size \in Sizes : size \in Nat /\ size % 2 = 0

VARIABLES root,    \* the binding in use
          store,   \* the variables
          did,     \* the last operation
          doc,     \* the document received
          before,  \* the variables before the last operation
          ok,      \* what the last operation returned
          err,     \* the error bits it left
          sent,    \* the text sent
          room     \* the size of the buffer it was written to

vars == <<root, store, did, doc, before, ok, err, sent, room>>

NoDoc == [members |-> <<>>, space |-> <<>>]

Joined(parts) ==
  IF parts = <<>> THEN <<>> ELSE FoldLeft(LAMBDA a, p : a \o <<",">> \o p, Head(parts), Tail(parts))

RECURSIVE TextOf(_, _)
MembersText(members, space) ==
  <<"{">> \o space
    \o Joined([i \in DOMAIN members |->
                 <<"\"">> \o members[i][1] \o <<"\"">> \o space \o <<":">> \o space
                   \o TextOf(members[i][2], space) \o space])
    \o <<"}">>
TextOf(v, space) ==
  CASE v.type = "list"   -> <<"[">> \o Joined([i \in DOMAIN v.val |-> TextOf(v.val[i], space)]) \o <<"]">>
    [] v.type = "object" -> MembersText(v.val, space)
    [] OTHER             -> v.text
DocText(d) == MembersText(d.members, d.space)

-----------------------------------------------------------------------------
Init ==
  /\ \E name \in DOMAIN Bindings : root = Bindings[name]
  /\ store \in Stores
  /\ before = store
  /\ did = "nothing"
  /\ doc = NoDoc
  /\ ok = TRUE
  /\ err = {}
  /\ sent = <<>>
  /\ room = 0

\* value::read of a text, with a lexer of its own, into variables that hold to
ReadText(text, to) ==
  \E r \in {ReadValue(root, Lexer(text), to)} : ok' = r.ok /\ err' = r.lx.err /\ store' = r.to

\* The first n characters of a document, all of them or not, are a zero-terminated text: a
\* buffer of no size (abuffer::get with size() == 0) yields them one by one.
Receive(d, n) ==
  /\ did = "nothing"
  /\ LET text == DocText(d) IN
       /\ n <= Len(text)
       /\ did' = IF n = Len(text) THEN "received" ELSE "cut"
       /\ ReadText(SubSeq(text, 1, n), store)
  /\ doc' = d
  /\ before' = store
  /\ UNCHANGED <<root, sent, room>>

Send(size) ==
  /\ did = "received"
  /\ \E o \in {WriteValue(Output(size), root, store)} : ok' = o.ok /\ sent' = o.text
  /\ did' = "sent"
  /\ doc' = NoDoc
  /\ err' = {}
  /\ before' = store
  /\ room' = size
  /\ UNCHANGED <<root, store>>

\* What was sent whole, terminated and put into a buffer of no size, is read into variables
\* that hold something else.
Reload(to) ==
  /\ did = "sent" /\ ok
  /\ ReadText(sent, to)
  /\ did' = "reloaded"
  /\ UNCHANGED <<root, doc, before, sent, room>>

\* abuffer::get of a buffer that has a size: it steps over a character, then takes one.
Yields(cells) == [i \in 1..(Len(cells) \div 2) |-> cells[2 * i]]

\* What was sent whole is read from the buffer it was written to, after a restart; the
\* cells not written are blank.
Reread(to) ==
  /\ did = "sent" /\ ok
  /\ ReadText(Yields(sent \o [i \in 1..(room - Len(sent)) |-> " "]), to)
  /\ did' = "reread"
  /\ UNCHANGED <<root, doc, before, sent, room>>

Next ==
  \/ \E d \in Docs \cup CutDocs :
       \E n \in (IF d \in CutDocs THEN 0 ELSE Len(DocText(d)))..Len(DocText(d)) : Receive(d, n)
  \/ \E size \in Sizes : Send(size)
  \/ \E to \in Stores : Reload(to)
  \/ \E to \in Stores : Reread(to)

Spec == Init /\ [][Next]_vars

-----------------------------------------------------------------------------
(* What a document means for the variables.                                *)

Bound(b, name) == b.members[First(b, name)].value

IsNumber(v) == v.type \in {"int", "double"}

\* Whether a binding takes a value as it is.
RECURSIVE Suits(_, _, _)
Suits(b, v, st) ==
  CASE b.kind = "scalar" ->
         b.x.has /\ CASE b.type = "double" -> IsNumber(v)
                      [] b.type = "chars"  -> v.type = "chars" /\ Len(v.val) < Len(st[b.x.at])
                      [] OTHER             -> v.type = b.type
    [] b.kind = "string" -> v.type = "chars" /\ Len(v.val) < b.size
    [] b.kind = "objectval" -> b.has /\ Suits(b.value, v, st)
    [] b.kind \in {"array", "objectlist", "pobjects"} ->
         v.type = "list" /\ Len(v.val) <= Len(b.items)
           /\ \A i \in DOMAIN v.val : Suits(b.items[i], v.val[i], st)
    [] b.kind \in {"vector", "pvector"} ->
         v.type = "list" /\ Len(v.val) <= Len(b.items)
           /\ \A i \in DOMAIN v.val :
                Suits([kind |-> "scalar", type |-> b.type, x |-> b.items[i]], v.val[i], st)
    [] Keyed(b) ->
         v.type = "object" /\ \A i \in DOMAIN v.val :
           Named(b, v.val[i][1]) # {} /\ Suits(Bound(b, v.val[i][1]), v.val[i][2], st)
    [] b.kind = "params" ->
         \/ Suits([b EXCEPT !.kind = "named"], v, st)
         \/ /\ v.type = "list" /\ Len(v.val) <= Len(b.members)
            /\ \A i \in DOMAIN v.val : Suits(b.members[i].value, v.val[i], st)
    [] OTHER -> FALSE

\* The variables after a binding has taken a value that suits it.
RECURSIVE Taken(_, _, _)
Taken(b, v, st) ==
  CASE b.kind = "scalar" ->
         [st EXCEPT ![b.x.at] =
            CASE b.type = "int"    -> Clamp(IntType, v.val)
              [] b.type = "double" -> IF v.type = "int" THEN Float(v.val, 0) ELSE v.val
              [] b.type = "chars"  -> [i \in DOMAIN @ |-> IF i <= Len(v.val) THEN v.val[i] ELSE NUL]
              [] OTHER             -> v.val]
    [] b.kind = "string" ->
         [st EXCEPT ![b.at] = [i \in DOMAIN @ |-> IF i <= Len(v.val) THEN v.val[i] ELSE NUL]]
    [] b.kind = "objectval" -> Taken(b.value, v, st)
    [] b.kind \in {"array", "objectlist", "pobjects"} ->
         FoldLeftDomain(LAMBDA to, i : Taken(b.items[i], v.val[i], to), st, v.val)
    [] b.kind \in {"vector", "pvector"} ->
         FoldLeftDomain(LAMBDA to, i :
           Taken([kind |-> "scalar", type |-> b.type, x |-> b.items[i]], v.val[i], to), st, v.val)
    [] Keyed(b) ->
         FoldLeft(LAMBDA to, m : Taken(Bound(b, m[1]), m[2], to), st, v.val)
    [] b.kind = "params" ->
         IF v.type = "object" THEN Taken([b EXCEPT !.kind = "named"], v, st)
         ELSE FoldLeftDomain(LAMBDA to, i : Taken(b.members[i].value, v.val[i], to), st, v.val)

\* What the application sees: the arrays up to their terminators.
Visible(st) == [at \in DOMAIN st |-> IF at \in Arrays THEN CString(st[at]) ELSE st[at]]

Suiting(m) == Named(root, m[1]) # {} /\ Suits(Bound(root, m[1]), m[2], before)
Unnamed(m) == Named(root, m[1]) = {}
\* Bound to one variable, or to a constant, that cannot take the value.
Mismatched(m) ==
  /\ Named(root, m[1]) # {} /\ ~Suiting(m)
  /\ Bound(root, m[1]).kind \in {"scalar", "string", "readonly", "strings"}
\* A bare number that ends the document is not skipped (cojson.cpp:275).
Skippable(m, i) == Len(m[1]) < NameSize /\ (IsNumber(m[2]) => i < Len(doc.members))

Constant(v) == v.kind = "string" /\ v.size = 0
Settable(b) ==
  b.kind = "clas" => \A k \in DOMAIN b.members :
    LET v == b.members[k].value IN v.kind \notin {"readonly", "params"} /\ (v.kind = "scalar" => v.x.has)

Meant == FoldLeft(LAMBDA to, m : IF Suiting(m) THEN Taken(Bound(root, m[1]), m[2], to) ELSE to,
                  before, doc.members)
-----------------------------------------------------------------------------
\* reader<char_t*>: whatever is received, whole or cut off, of whatever type or length,
\* every array keeps its size and a terminator in its cells.
StringsTerminated ==
  \A at \in Arrays : Len(store[at]) = Len(before[at]) /\ \E i \in DOMAIN store[at] : store[at][i] = NUL

\* collection, the readers, lexer::skip: a document of members that suit, among members of
\* unknown names, is read without an error and sets the variables it names, the last of
\* several members of a name winning, and no others.
ReadsAsMeant ==
  did = "received"
    /\ (\A i \in DOMAIN doc.members :
          LET m == doc.members[i] IN Suiting(m) \/ (Unnamed(m) /\ Skippable(m, i)))
    => ok /\ err = {} /\ Visible(store) = Visible(Meant)

\* object::read, lexer::skip (mismatch_is::skipped): members whose values do not fit are
\* skipped; the document is read, and the variables of the others are set as meant.
SkipsMismatches ==
  did = "received" /\ root.kind = "object"
    /\ (\A i \in DOMAIN doc.members :
          LET m == doc.members[i] IN
            Suiting(m) \/ ((Unnamed(m) \/ Mismatched(m)) /\ Skippable(m, i)))
    => /\ ok /\ "bad" \notin err
       /\ \A at \in DOMAIN store :
            (\A i \in DOMAIN doc.members : Mismatched(doc.members[i]) => <<Head(at)>> # doc.members[i][1])
              => Visible(store)[at] = Visible(Meant)[at]

\* A document that ends before its closing bracket is never taken for a whole one.
TruncatedRefused == did = "cut" => ~ok

\* writer<T>, object::write, array::write: the text sent is the beginning of the whole text,
\* and success is reported exactly when it is the whole text.
ReportsWhatIsSent ==
  did = "sent" =>
    \E whole \in {WriteValue(Output(10000), root, store).text} :
      sent = SubSeq(whole, 1, Len(sent)) /\ (ok <=> sent = whole)

=============================================================================
