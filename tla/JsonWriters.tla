---------------------------- MODULE JsonWriters ----------------------------
(***************************************************************************)
(* The writers of cojson (cojson.hpp, cojson.cpp) over an output stream of *)
(* a limited size, and the way a value written is read.  An output stream  *)
(* is a record: text what it holds, cap how much it can hold, ok what the  *)
(* last call on it returned.                                               *)
(* Strings a value refers to without owning them (kind "readonly") are     *)
(* part of the binding, NoText standing for the null pointer.              *)
(***************************************************************************)
EXTENDS JsonReaders

NoText == <<"nullptr">>

Output(cap) == [text |-> <<>>, cap |-> cap, ok |-> TRUE]

\* abuffer::put
Put_Unreported(o, c) == IF Len(o.text) < o.cap THEN [o EXCEPT !.text = Append(@, c)] ELSE o
Put(o, c) == IF Len(o.text) < o.cap THEN [o EXCEPT !.text = Append(@, c), !.ok = TRUE]
             ELSE [o EXCEPT !.ok = FALSE]
AndPut(o, c) == IF o.ok THEN Put(o, c) ELSE o

\* ostream::puts
Puts(o, s) == FoldLeft(AndPut, [o EXCEPT !.ok = TRUE], s)
AndPuts(o, s) == IF o.ok THEN Puts(o, s) ELSE o

-----------------------------------------------------------------------------
\* write_number: the divider runs down from the highest power of ten.
RECURSIVE Numeral(_)
Numeral(n) == (IF n > 9 THEN Numeral(n \div 10) ELSE <<>>) \o <<DecimalDigits[(n % 10) + 1]>>

WriteInt(o, n) == Puts(o, IF n < 0 THEN <<"-">> \o Numeral(-n) ELSE Numeral(n))

WriteBool(o, v) == Puts(o, IF v THEN TrueL ELSE FalseL)
WriteNull(o) == Puts(o, NullL)

\* literal::replace_common, literal::is_control, literal::is_escaped
Common == [BS |-> "b"] @@ ("\n" :> "n") @@ ("\r" :> "r") @@ ("\t" :> "t")
Escaped == {"\"", "\\"}

\* ashex(char16_t): the loop ends before the last digit.
HexCode(c) ==
  LET digit(n) == (DecimalDigits \o HighHex)[n + 1]
      v == CharCode[c]
  IN  <<digit(v \div 4096), digit((v \div 256) % 16), digit((v \div 16) % 16)>>

\* What one character of a string is written as.
AsWritten(c) == CASE c \in DOMAIN Common -> <<"\\", Common[c]>>
                  [] c \in Controls \ DOMAIN Common -> <<"\\", "u">> \o HexCode(c)
                  [] c \in Escaped -> <<"\\", c>>
                  [] OTHER -> <<c>>

WriteChars(o, cells) ==
  AndPut(FoldLeft(LAMBDA r, c : AndPuts(r, AsWritten(c)), Put(o, "\""), CString(cells)), "\"")

-----------------------------------------------------------------------------
(* floating::serialize with a precision of 6 and 32 bit parts.  The number  *)
(* is exact here: the rounding of binary fractions is abstracted.          *)

Tens == [n \in 0..9 |-> 10 ^ n]
Precision == 6
MaxPrecision == 8     \* digits10 - 1

\* floating::fraction(precision) of num / 10^k
Fraction(num, k, precision) ==
  LET p == precision - 1 IN
    Tens[MaxPrecision - p] * IF p >= k THEN num * Tens[p - k]
                             ELSE (2 * num + Tens[k - p]) \div (2 * Tens[k - p])

\* floating::ieee754: the notation, and the parts of the number it consists of.
Notated(m, e) ==
  LET digits == Len(Numeral(m))
      exp == digits - 1 + e
      lead == Tens[digits - 1]
      below == IF e < 0 THEN Tens[-e] ELSE 1
      As(notation, mantissa, fract) == [notation |-> notation, exp |-> exp, fract |-> fract,
                                        mantissa |-> mantissa + fract \div Tens[MaxPrecision]]
  IN  CASE exp = Precision -> As("integral", (IF e < 0 THEN (2 * m + below) \div (2 * below) ELSE m * Tens[e]), 0)
        [] exp > Precision \/ exp < -4 ->
             LET s == As("scientific", m \div lead, Fraction(m % lead, digits - 1, Precision)) IN
               [s EXCEPT !.fract = @ % Tens[MaxPrecision]]
        [] exp \in -4..-1 -> As("zeroed", 0, Fraction(m, digits - 1, Precision))
        [] OTHER -> As("fixed", IF e < 0 THEN m \div below ELSE m * Tens[e],
                       Fraction(m % below, IF e < 0 THEN -e ELSE 0, Precision - exp))

\* The loop over the digits of the fraction; was: a digit other than 0 was met.
RECURSIVE FractionDigits(_, _, _, _)
FractionDigits(fract, divider, precision, was) ==
  LET digit == (fract \div divider) % 10
      now == was \/ digit # 0
  IN  IF precision <= 0 \/ fract = 0 \/ divider = 0 THEN <<>>
      ELSE (IF digit # 0 \/ precision > 1 THEN <<DecimalDigits[digit + 1]>> ELSE <<>>)
             \o FractionDigits(fract - digit * divider, divider \div 10,
                               IF now THEN precision - 1 ELSE precision, now)

\* floating::serialize
DoubleText(v) ==
  LET n == Notated(IF v.m < 0 THEN -v.m ELSE v.m, v.e)
      zeroed == n.notation = "zeroed"
      whole == IF zeroed THEN <<"0">> ELSE Numeral(n.mantissa)
      left  == IF zeroed THEN Precision ELSE Precision - Len(whole)
      zeros == IF zeroed THEN [i \in 1..(-n.exp - 1) |-> "0"] ELSE <<>>
  IN  IF v.m = 0 THEN <<"0">>
      ELSE (IF v.m < 0 THEN <<"-">> ELSE <<>>) \o whole
             \o (IF n.fract = 0 THEN <<>>
                 ELSE <<".">> \o zeros
                        \o FractionDigits(n.fract, Tens[IF zeroed THEN 8 ELSE 7], left, FALSE))
             \o (IF n.notation # "scientific" THEN <<>>
                 ELSE <<"e">> \o (IF n.exp < 0 THEN <<"-">> ELSE <<>>)
                        \o Numeral(IF n.exp < 0 THEN -n.exp ELSE n.exp))

\* Whether the stream took the characters is not looked at.
WriteDouble(o, v) == [Puts(o, DoubleText(v)) EXCEPT !.ok = TRUE]

\* writer<T>::write
WriteScalar(o, type, v) ==
  CASE type = "int"    -> WriteInt(o, v)
    [] type = "bool"   -> WriteBool(o, v)
    [] type = "double" -> WriteDouble(o, v)
    [] type = "chars"  -> WriteChars(o, v)

-----------------------------------------------------------------------------
RECURSIVE WriteValue(_, _, _), WriteMembers(_, _, _, _), WriteItems(_, _, _, _)

\* object::write, clas::write: the first failure ends it.
WriteMembers(o, b, st, i) ==
  LET begun == Put(o, IF i = 1 THEN "{" ELSE ",")
      named == IF begun.ok THEN AndPut(WriteChars(begun, b.members[i].name), ":") ELSE begun
      w == IF named.ok THEN WriteValue(named, b.members[i].value, st) ELSE named
  IN  IF i > Len(b.members) THEN Put(o, "}")
      ELSE IF w.ok THEN WriteMembers(w, b, st, i + 1) ELSE w

(* The write of one item: only an object of an objectlist can end the list. *)

\* array, PropertyArrayOfObjects
WriteElement(o, b, st, i) == [WriteValue(o, b.items[i], st) EXCEPT !.ok = TRUE]
\* vector
WriteScalarItem(o, b, st, i) == [WriteScalar(o, b.type, st[b.items[i].at]) EXCEPT !.ok = TRUE]
\* objectlist
WriteObjectItem(o, b, st, i) == WriteValue(o, b.items[i], st)

WriteItem(o, b, st, i) ==
  CASE b.kind \in {"array", "pobjects"} -> WriteElement(o, b, st, i)
    [] b.kind \in {"vector", "pvector"} -> WriteScalarItem(o, b, st, i)
    [] b.kind = "objectlist" -> WriteObjectItem(o, b, st, i)

\* array::write: the closing bracket is put even after a failure.
WriteItems(o, b, st, i) ==
  LET begun == Put(o, IF i = 1 THEN "[" ELSE ",")
      w == WriteItem(begun, b, st, i)
  IN  IF ~begun.ok THEN Put(begun, "]")
      ELSE IF w.ok /\ i < Len(b.items) THEN WriteItems(w, b, st, i + 1)
      ELSE Put(w, "]")

\* strings, cstrings: a read-only vector
WriteTexts(o, texts) ==
  LET begun == Put(o, "[")
      first == IF texts = <<>> \/ ~begun.ok THEN begun ELSE WriteChars(begun, Head(texts))
      Next(r, t) == LET d == AndPut(r, ",") IN IF d.ok THEN WriteChars(d, t) ELSE d
  IN  Put(FoldLeft(Next, first, IF texts = <<>> THEN <<>> ELSE Tail(texts)), "]")

\* scalar::write, propertyx::write
WriteAccessed(o, type, x, st) == IF x.has THEN WriteScalar(o, type, st[x.at]) ELSE WriteNull(o)

\* string::write
WriteString(o, b, st) == WriteChars(o, st[b.at])

\* objectval::write
WriteObject(o, b, st) == IF b.has THEN WriteValue(o, b.value, st) ELSE WriteNull(o)

\* The write of a string that is only referred to.
WriteReadonly(o, b) == IF b.text = NoText THEN WriteNull(o) ELSE WriteChars(o, b.text)

\* write of every kind of value and property
WriteValue(o, b, st) ==
  CASE b.kind = "scalar"   -> WriteAccessed(o, b.type, b.x, st)
    [] b.kind = "string"   -> WriteString(o, b, st)
    [] b.kind = "readonly" -> WriteReadonly(o, b)
    [] b.kind = "strings"  -> WriteTexts(o, b.texts)
    [] b.kind = "objectval" -> WriteObject(o, b, st)
    [] b.kind = "params"    -> WriteNull(o)
    [] Keyed(b) -> WriteMembers(o, b, st, 1)
    [] OTHER -> WriteItems(o, b, st, 1)
=============================================================================
