---------------------------- MODULE JsonReaders ----------------------------
(***************************************************************************)
(* The readers of cojson (cojson.hpp, cojson.cpp): the scalar readers, the *)
(* loop that reads arrays and objects, and the values, members and         *)
(* properties an application binds to its variables.                       *)
(*                                                                         *)
(* The variables are a function from addresses (sequences of names and     *)
(* indices) to contents.  An integer or a Boolean is itself, a floating    *)
(* point number is a record [m, e] for m * 10^e, a character array is the  *)
(* sequence of its cells.  A binding is a record with a field "kind".      *)
(***************************************************************************)
EXTENDS JsonLexer, Tenfold, FiniteSets

CONSTANTS NullIsError,   \* configured: null_is::error
          Overflow,      \* configured: overflow_is
          IntType        \* the integral type of the variables, [low, high]

ASSUME ReaderAssumption ==
  NullIsError \in BOOLEAN /\ Overflow \in OverflowIs /\ IsIntegral(IntType)

Done(ok, lx, to) == [ok |-> ok, lx |-> lx, to |-> to]
\* What a step over some text says, the destination being to.
With(o, to) == Done(o.ok, o.lx, to)

-----------------------------------------------------------------------------
(* Scalars: to is the value of the destination afterwards.                 *)

\* reader<T> for integers
RECURSIVE IntFrom(_, _, _)
IntDigit(s, t, sign) ==
  IF t.ok THEN IntFrom(s.lx, t.val, sign) ELSE With(SkipOver(Fail(s.lx, "overflow"), NumberType), t.val)
IntAt(s, val, sign) ==
  CASE s.ct = Unknown   -> Done(FALSE, Fail(s.lx, "bad"), val)
    [] s.ct = {"delim"} -> Done(TRUE, IF IsWs(s.chr) THEN s.lx ELSE Back(s.lx, s.chr), val)
    [] s.ct = AtEof     -> Done(TRUE, s.lx, val)
    [] s.ct = {"digit"} ->
         IntDigit(s, Tenfold(IntType, Overflow, val, (IF sign < 0 THEN -1 ELSE 1) * Nibble(s.chr)),
                  IF sign = 0 THEN 1 ELSE sign)
    [] s.ct = {"sign"} /\ s.chr = "-" /\ IntType.low < 0 /\ sign = 0 -> IntFrom(s.lx, val, -1)
    [] s.ct = {"sign"} /\ (s.chr = "+" \/ sign # 0) -> Done(FALSE, Fail(s.lx, "bad"), val)
    [] OTHER -> Done(FALSE, Fail(s.lx, "mismatch"), val)
IntFrom(lx, val, sign) == IntAt(GetOf(lx, NumericType), val, sign)

ReadIntFrom(v) == IF Valid(v.ct) THEN IntFrom(v.lx, 0, 0) ELSE Done(FALSE, v.lx, 0)
ReadInt(lx) == ReadIntFrom(Value(lx, NumericType))

ReadBoolFrom(v, was) == Done(Valid(v.ct), v.lx, IF Valid(v.ct) THEN v.ct = {"boolean", "value"} ELSE was)
ReadBool(lx, was) == ReadBoolFrom(Value(lx, {"boolean"}), was)

\* maker<T>: m significand and fraction digits, shift the number of the latter,
\* exp the exponent; sexp is 2 between the letter and the first digit after it.
Maker == [m |-> 0, shift |-> 0, exp |-> 0, sign |-> 0, sexp |-> 0, frac |-> FALSE]

RECURSIVE Float(_, _)
Float(m, e) == IF m = 0 THEN [m |-> 0, e |-> 0]
               ELSE IF Quotient(m) * 10 = m THEN Float(Quotient(m), e + 1) ELSE [m |-> m, e |-> e]

MakerDigit(k, d) ==
  IF k.sexp # 0 THEN [k EXCEPT !.exp = 10 * @ + d, !.sexp = IF @ = 2 THEN 1 ELSE @]
  ELSE IF k.frac THEN [k EXCEPT !.m = 10 * @ + d, !.shift = @ + 1]
  ELSE [k EXCEPT !.m = 10 * @ + d, !.sign = IF @ = 0 THEN 1 ELSE @]

\* The step for a sign, a decimal point or an exponent letter, if it is accepted.
MakerAccepts(k, c) ==
  CASE c = "-" -> IF k.sexp = 0 THEN k.sign = 0 ELSE k.sexp = 2
    [] c = "+" -> k.sexp = 2
    [] c = "." -> ~k.frac
    [] OTHER   -> k.sexp = 0 /\ k.sign # 0
MakerMark(k, c) ==
  CASE c = "-" -> IF k.sexp = 0 THEN [k EXCEPT !.sign = -1] ELSE [k EXCEPT !.sexp = -1]
    [] c = "+" -> [k EXCEPT !.sexp = 1]
    [] c = "." -> [k EXCEPT !.frac = TRUE]
    [] OTHER   -> [k EXCEPT !.sexp = 2]

MakerValue(k) == Float(k.m, -k.shift)
MakerDone(k)  == Float(IF k.sign < 0 THEN -k.m ELSE k.m, k.exp * k.sexp - k.shift)

\* reader<double>.  A mark that is not accepted ends the number where it stands; the
\* end of the stream is put back as if it were a character.
RECURSIVE DoubleFrom(_, _)
DoubleAt(s, k) ==
  IF s.ct \in {AtEof, {"delim"}}
  THEN Done(k.sexp # 2,
            IF IsWs(s.chr) THEN s.lx ELSE Back(s.lx, s.chr),
            IF k.sexp # 2 THEN MakerDone(k) ELSE MakerValue(k))
  ELSE IF s.ct = {"digit"} THEN DoubleFrom(s.lx, MakerDigit(k, Nibble(s.chr)))
  ELSE IF ~Valid(s.ct) THEN Done(FALSE, Fail(s.lx, "bad"), MakerValue(k))
  ELSE IF MakerAccepts(k, s.chr) THEN DoubleFrom(s.lx, MakerMark(k, s.chr))
  ELSE With(SkipOver(s.lx, NumberType), MakerValue(k))
DoubleFrom(lx, k) == DoubleAt(GetOf(lx, NumericType), k)

ReadDoubleFrom(v) ==
  IF Valid(v.ct) THEN DoubleFrom(v.lx, Maker) ELSE Done(FALSE, v.lx, MakerValue(Maker))
ReadDouble(lx) == ReadDoubleFrom(Value(lx, NumericType))

-----------------------------------------------------------------------------
\* What a character array holds up to its terminator.
CString(cells) ==
  LET ends == {i \in DOMAIN cells : cells[i] = NUL} IN
    IF ends = {} THEN cells
    ELSE SubSeq(cells, 1, (CHOOSE i \in ends : \A j \in ends : i <= j) - 1)

\* in.string(*dst): the cell keeps its content when no character was delivered.
Store(cells, i, s) == IF s.chr = NoChar THEN cells ELSE [cells EXCEPT ![i] = s.chr]

Overfull_NoEnd(cells, i) == cells                \* the terminator is forgotten
\* The array is full: its last cell ends the string.
Overfull(cells, i) == [cells EXCEPT ![i - 1] = NUL]

\* reader<char_t*>: fills the array from cell i on.
RECURSIVE CharsFrom(_, _, _)
CharsAt(s, to, i) ==
  IF s.ct = {"string"} THEN CharsFrom(s.lx, to, i + 1)
  ELSE IF s.ct = AtEof THEN Done(TRUE, s.lx, [to EXCEPT ![i] = NUL])
  ELSE IF to[i] # NUL THEN Done(FALSE, Fail(s.lx, "bad"), [to EXCEPT ![i] = NUL])
  ELSE Done(TRUE, s.lx, to)
CharsAfter(s, cells, i) == CharsAt(s, Store(cells, i, s), i)
CharsFrom(lx, cells, i) ==
  IF i > Len(cells) THEN With(SkipString(Fail(lx, "overrun"), FALSE), Overfull(cells, i))
  ELSE CharsAfter(StringChar(lx, i = 1), cells, i)

ReadChars(lx, cells) ==
  IF cells = <<>>     \* no destination
  THEN With(SkipString(Fail(lx, "noobject"), TRUE), cells)
  ELSE CharsFrom(lx, cells, 1)

\* lexer::member: the name of the next member, cut to the size of the buffer.
MemberColon(name, s) ==
  IF ~Valid(s.ct) THEN Done(FALSE, Bad(s).lx, <<>>)
  ELSE IF s.chr # ":" THEN Done(FALSE, Fail(s.lx, "bad"), <<>>)
  ELSE Done(TRUE, s.lx, CString(name))
MemberAfter(r) == IF r.ok THEN MemberColon(r.to, SkipWs(r.lx)) ELSE Done(FALSE, Fail(r.lx, "bad"), <<>>)
MemberFrom(ws) ==
  IF ~Valid(ws.ct) \/ ws.chr # "\"" THEN Done(FALSE, Bad(ws).lx, <<>>)
  ELSE MemberAfter(ReadChars(Back(ws.lx, ws.chr), [i \in 1..NameSize |-> NUL]))
Member(lx) == MemberFrom(SkipWs(lx))

\* read(T&) for a type of reader
ReadScalar(type, lx, was) ==
  CASE type = "int"    -> ReadInt(lx)
    [] type = "bool"   -> ReadBool(lx, was)
    [] type = "double" -> ReadDouble(lx)
    [] type = "chars"  -> ReadChars(lx, was)

-----------------------------------------------------------------------------
(* Accessors: where a scalar is (at), whether the reader gets a reference   *)
(* to it, whether a value can be set, and whether it is there at all.      *)

Pointer(at)        == [at |-> at, canlref |-> TRUE,  canset |-> TRUE, has |-> TRUE]
Reference(at)      == Pointer(at)
Function(at, has)  == [Pointer(at) EXCEPT !.has = has]
Field(at)          == Pointer(at)
Methods(at)        == [Pointer(at) EXCEPT !.canlref = FALSE]
Functions(at)      == Methods(at)
\* accessor::vector and accessor::array: an accessor for every item.
Items(at, n)       == [i \in 1..n |-> Pointer(Append(at, i))]

\* value::null, accessor's null, clas::null, property::null
Nullable(b) == CASE b.kind \in {"object", "array", "vector", "objectlist"} -> ~NullIsError
                 [] b.kind = "clas" -> NullIsError
                 [] OTHER           -> FALSE

Keyed(b)  == b.kind \in {"object", "clas", "named"}
Start(b)  == IF Keyed(b) THEN {"object", "null"} ELSE {"array", "null"}
Finish(b) == IF Keyed(b) THEN "}" ELSE "]"
Middle(b) == IF Keyed(b) THEN {"object"} ELSE {"array"}

NoObject(lx) == Fail(lx, "noobject")

\* The item is not read but skipped.
Skipping(lx, to) == With(SkipValue(lx, FALSE), to)

\* scalar<X>::read and propertyx<X>::read
Assigned(r, x, st) == With(r, IF x.has /\ (x.canlref \/ r.ok) THEN [st EXCEPT ![x.at] = r.to] ELSE st)
ReadAccessed(type, x, lx, st) == Assigned(ReadScalar(type, lx, IF x.has THEN st[x.at] ELSE 0), x, st)

\* string::read.  size 0 is a constant string; null empties either kind.
StringRead(r, b, st) == With(r, IF b.size = 0 THEN st ELSE [st EXCEPT ![b.at] = r.to])
ReadStringFrom(v, b, st) ==
  IF ~Valid(v.ct) THEN Skipping(v.lx, st)
  ELSE IF v.ct = {"null"} THEN Done(TRUE, v.lx, [st EXCEPT ![b.at][1] = NUL])
  ELSE StringRead(ReadChars(v.lx, IF b.size = 0 THEN <<>> ELSE st[b.at]), b, st)
ReadString(b, lx, st) == ReadStringFrom(Value(lx, {"string", "null"}), b, st)

Unfinished_EofIsEnd(lx, st) == Done("eof" \in lx.err, lx, st)
\* Neither an item nor the end of the collection follows.
Unfinished(lx, st) == Done(FALSE, Fail(lx, "bad"), st)

RECURSIVE ReadValue(_, _, _), ReadItem(_, _, _, _), ReadItems(_, _, _, _)

\* collection<I>::read
CollectionInside(s, b, st) ==
  IF ~Valid(s.ct) THEN Done(FALSE, s.lx, st)
  ELSE IF s.chr = Finish(b) THEN Done(TRUE, s.lx, st)
  ELSE ReadItems(b, Back(s.lx, s.chr), st, 1)
CollectionFrom(v, b, st) ==
  IF ~Valid(v.ct) THEN Done(FALSE, v.lx, st)
  ELSE IF v.ct # {"null"} THEN CollectionInside(SkipWs(GetOf(v.lx, Middle(b)).lx), b, st)
  ELSE Done(Nullable(b), IF Nullable(b) THEN v.lx ELSE Fail(v.lx, "mismatch"), st)
ReadCollection(b, lx, st) == CollectionFrom(Value(lx, Start(b)), b, st)

\* Its loop, from an item on: the name of a member, the item, what follows it.
ItemsNext(s, b, to, i) ==
  IF ~HasBits(s.ct, Middle(b)) THEN Unfinished(s.lx, to)
  ELSE IF s.chr = Finish(b) THEN Done(TRUE, s.lx, to)
  ELSE IF s.chr = "," THEN ReadItems(b, s.lx, to, i + 1)
  ELSE Done(FALSE, s.lx, to)
ItemsAfter(r, b, i) == IF r.ok THEN ItemsNext(SkipWs(r.lx), b, r.to, i) ELSE r
Passed(r, b) == IF r.ok THEN r ELSE With(SkipValue(r.lx, ~Keyed(b)), r.to)
ItemsFrom(name, b, st, i) ==
  IF name.ok THEN ItemsAfter(Passed(ReadItem(b, name.lx, st, name.to), b), b, i) ELSE With(name, st)
ReadItems(b, lx, st, i) == ItemsFrom(IF Keyed(b) THEN Member(lx) ELSE Done(TRUE, lx, i), b, st, i)

\* r, or else what skipping the rest of the item says.
OrSkip(r) == IF r.ok THEN r ELSE Skipping(r.lx, r.to)

Overrun(lx, st) == Done(FALSE, Fail(lx, "overrun"), st)

Named(b, name) == {k \in DOMAIN b.members : b.members[k].name = name}

(* The read of one item by each kind of collection; i is its index or name. *)

\* object::read and clas::read, which does not look at what the property returns; nor do
\* the parameters of a procedure, which must have the names they are given.
First(b, name) == CHOOSE k \in Named(b, name) : \A j \in Named(b, name) : k <= j
MemberRead(r, b) == IF b.kind \in {"clas", "named"} THEN [r EXCEPT !.ok = TRUE] ELSE r
ReadMember(b, lx, st, name) ==
  IF Named(b, name) = {} THEN Done(FALSE, IF b.kind = "named" THEN Fail(lx, "mismatch") ELSE lx, st)
  ELSE MemberRead(ReadValue(b.members[First(b, name)].value, lx, st), b)

\* vector::read, by way of a temporary, PropertyVector and PropertyStrings, in place
ScalarItemRead(r, b, st, at) == With(r, IF r.ok \/ b.kind = "pvector" THEN [st EXCEPT ![at] = r.to] ELSE st)
ReadScalarItem(b, lx, st, i) ==
  ScalarItemRead(ReadScalar(b.type, lx, st[b.items[i].at]), b, st, b.items[i].at)

\* array::read, PropertyArrayOfObjects, and params::read of one item of an array
ReadElement(b, lx, st, i) ==
  ReadValue(IF b.kind = "listed" THEN b.members[i].value ELSE b.items[i], lx, st)

\* An item after the last one.
Beyond(b, i) == IF b.kind = "listed" THEN i > Len(b.members)
                ELSE b.kind \in {"array", "objectlist", "vector"} /\ i > Len(b.items)

\* The factories' loops (pvector, pobjects) say of the last item that it is the end, and
\* the latter does not look at what the object returns.
ItemRead(r, b) == IF b.kind = "pobjects" THEN [r EXCEPT !.ok = TRUE] ELSE OrSkip(r)
ItemEnds(r, b, i) == IF b.kind \in {"pvector", "pobjects"} THEN [r EXCEPT !.ok = @ /\ i < Len(b.items)] ELSE r
ReadItem(b, lx, st, i) ==
  CASE Keyed(b) -> ReadMember(b, lx, st, i)
    [] ~Keyed(b) /\ Beyond(b, i) ->
         IF b.kind = "listed" THEN Done(FALSE, Fail(lx, "mismatch"), st) ELSE Overrun(lx, st)
    [] OTHER -> ItemEnds(ItemRead(IF b.kind \in {"vector", "pvector"} THEN ReadScalarItem(b, lx, st, i)
                                  ELSE ReadElement(b, lx, st, i), b), b, i)

\* params::read: parameters by name, or in their order
ParamsFrom(ws, b, st) ==
  IF Valid(ws.ct) /\ ws.chr \in {"{", "["}
  THEN ReadValue([b EXCEPT !.kind = IF ws.chr = "{" THEN "named" ELSE "listed"], Back(ws.lx, ws.chr), st)
  ELSE Done(FALSE, Fail(IF Valid(ws.ct) THEN Back(ws.lx, ws.chr) ELSE ws.lx, "bad"), st)
ReadParams(b, lx, st) == ParamsFrom(SkipWs(lx), b, st)

\* scalar::read, propertyx::read and objectval::read: what cannot be set is skipped.
Unset(b) == CASE b.kind = "scalar"    -> ~(b.x.canset \/ (b.x.canlref /\ b.x.has))
              [] b.kind = "objectval" -> ~b.has
              [] OTHER                -> FALSE

\* read of every kind of value and property
ReadValue(b, lx, st) ==
  CASE Unset(b) -> Skipping(NoObject(lx), st)
    [] ~Unset(b) /\ b.kind = "scalar"    -> ReadAccessed(b.type, b.x, lx, st)
    [] ~Unset(b) /\ b.kind = "objectval" -> ReadValue(b.value, lx, st)
    [] b.kind = "string"   -> ReadString(b, lx, st)
    [] b.kind \in {"readonly", "strings"} -> Done(FALSE, NoObject(lx), st)
    [] b.kind = "params"   -> ReadParams(b, lx, st)
    [] OTHER -> ReadCollection(b, lx, st)
=============================================================================
