----------------------------- MODULE JsonLexer -----------------------------
(***************************************************************************)
(* The lexer of cojson (lexer in cojson.hpp and cojson.cpp) over an input  *)
(* stream that holds the whole text.  A lexer is a record:                 *)
(*   rest  what the stream has not delivered yet                           *)
(*   hold  the character that was put back, or NUL                         *)
(*   err   the error bits of the stream                                    *)
(* A function that delivers a character returns a scan [lx, chr, ct]: the  *)
(* lexer afterwards, the character and its ctype, a set of traits.         *)
(***************************************************************************)
EXTENDS Integers, Sequences, SequencesExt

CONSTANTS MismatchIsError,  \* configured: mismatch_is::error
          NameSize,         \* configured: temporary_size, with the terminator
          MaxDepth          \* bits of the stack in lexer::skip

ASSUME LexerAssumption ==
  MismatchIsError \in BOOLEAN /\ NameSize \in Nat \ {0} /\ MaxDepth \in Nat

NUL == ""
Eos == "eos_c"
NoChar == "unset"

Letters(text) == [i \in 1..Len(text) |-> SubSeq(text, i, i)]
CharList(text) == {SubSeq(text, i, i) : i \in 1..Len(text)}

DecimalDigits == Letters("0123456789")
HighHex  == Letters("ABCDEF")
\* Control characters other than white space; BS has a short escape, BEL has none.
Controls == {"BS", "BEL"}

WhiteSpace == {"\t", "\n", "\r", " "}

\* lexer::char_typify
CharClass ==
  [whitespace |-> "\t\n\r ",     special  |-> "btnfru\"\\",  value   |-> "tfn-{[\"0123456789",
   boolean    |-> "truefals",   null     |-> "nul",         digit   |-> "0123456789",
   sign       |-> "-+",         decimal  |-> ".",           exponent |-> "eE",
   delim      |-> "}],\t\n\r ",  array    |-> "[,]",         object  |-> "{,}",
   hex        |-> "abcdef",     heX      |-> "ABCDEF"]

\* The table char_typify fills; a character outside it is a plain one.
Typed(class) ==
  [c \in Controls \cup UNION {CharList(class[k]) : k \in DOMAIN class} |->
     {k \in DOMAIN class : c \in CharList(class[k])}
       \cup (IF c \in Controls \cup {"\t", "\n", "\r"} THEN {} ELSE {"string"})]
CharTypes == Typed(CharClass)

TypeIn(table, c) == IF c \in DOMAIN table THEN table[c] ELSE {"string"}
ChartypeOf(c) == TypeIn(CharTypes, c)

NumberType  == {"digit", "sign", "decimal", "exponent"}
NumericType == NumberType \cup {"delim"}
AtEof == {"eof"}
AtErr == {"err"}
Unknown == {}

\* eos2eof
EosToEof(c) == IF c = Eos THEN AtEof ELSE AtErr

\* isvalid, andmask, hasbits
Valid(ct) == ct \notin {Unknown, AtEof, AtErr}
AndMask(ct, mask) == IF Valid(ct) THEN ct \cap mask ELSE ct
HasBits(ct, mask) == Valid(ct) /\ ct \cap mask # {}

IsWs(c) == c \in WhiteSpace

Lexer(text) == [rest |-> text, hold |-> NUL, err |-> {}]
Scan(lx, chr, ct) == [lx |-> lx, chr |-> chr, ct |-> ct]
Fail(lx, e) == [lx EXCEPT !.err = @ \cup {e}]
Back(lx, c) == [lx EXCEPT !.hold = c]

\* lexer::readable
Readable(lx) ==
  lx.err \cap ({"ioerror", "bad"} \cup IF MismatchIsError THEN {"mismatch"} ELSE {}) = {}

-----------------------------------------------------------------------------
Deliver(lx, c) == Scan(lx, c, ChartypeOf(c))

\* lexer::get.  At the end of the stream the stream itself reports eof.
Get(lx) ==
  IF ~Readable(lx) THEN Scan(lx, NoChar, AtErr)
  ELSE IF lx.hold = NUL /\ lx.rest = <<>> THEN Scan(Fail(lx, "eof"), Eos, AtEof)
  ELSE Deliver(IF lx.hold # NUL THEN [lx EXCEPT !.hold = NUL] ELSE [lx EXCEPT !.rest = Tail(@)],
               IF lx.hold # NUL THEN lx.hold ELSE Head(lx.rest))

GetOf(lx, mask) == [Get(lx) EXCEPT !.ct = AndMask(@, mask)]

\* bad(): an error; bad(chr): an error, unless the stream has ended.
Bad(s) == IF s.chr = Eos THEN [s EXCEPT !.ct = AtEof]
          ELSE [s EXCEPT !.lx = Fail(@, "bad"), !.ct = Unknown]

Mismatch(lx) == Scan(Fail(lx, "mismatch"), NoChar, Unknown)

\* From here on an operator named At, From or After takes the scan (or the result) that
\* the operator it belongs to has just read, and says what becomes of it.

\* skip(dst, mask): the first character that is not of the class.
RECURSIVE SkipClass(_, _)
SkipClassAt(s, mask) == IF HasBits(s.ct, mask) THEN SkipClass(s.lx, mask) ELSE s
SkipClass(lx, mask) == SkipClassAt(Get(lx), mask)

SkipWs(lx) == SkipClass(lx, {"whitespace"})

\* skip(mask): as above, the character is put back.
SkipOverAt(s) == [ok |-> s.ct # AtErr, lx |-> IF Valid(s.ct) THEN Back(s.lx, s.chr) ELSE s.lx]
SkipOver(lx, mask) == SkipOverAt(SkipClass(lx, mask))

\* skip_bom is not needed by the readers: texts here have no byte order mark.

-----------------------------------------------------------------------------
\* literal: the rest of a word, then a delimiter (put back) or the end.
RECURSIVE Literal(_, _)
LiteralAt(s, str) ==
  CASE str = <<>> /\ HasBits(s.ct, {"delim"}) -> [ok |-> TRUE, lx |-> Back(s.lx, s.chr)]
    [] str = <<>> /\ s.ct = AtEof -> [ok |-> TRUE, lx |-> s.lx]
    [] str # <<>> /\ Valid(s.ct) /\ s.chr = Head(str) -> Literal(s.lx, Tail(str))
    [] OTHER -> [ok |-> FALSE, lx |-> Fail(s.lx, "bad")]
Literal(lx, str) == LiteralAt(Get(lx), str)

TrueL  == <<"t", "r", "u", "e">>
FalseL == <<"f", "a", "l", "s", "e">>
NullL  == <<"n", "u", "l", "l">>

\* The literal that begins with a character, and what it is read as.
WordOf(chr) == CASE chr = "t" -> TrueL [] chr = "f" -> FalseL [] chr = "n" -> NullL
WordType(chr) ==
  CASE chr = "t" -> {"boolean", "value"} [] chr = "f" -> {"boolean"} [] chr = "n" -> {"null"}

\* value: looks at the first character of a value; literals are read, the first
\* character of anything else is left to be read again.
ValueWord(chr, l) == IF l.ok THEN Scan(l.lx, chr, WordType(chr)) ELSE Mismatch(l.lx)
ValueOther(chr, at, traits) == IF traits # {} THEN Scan(at, chr, traits) ELSE Mismatch(at)
ValueAt(s, at, expected) ==
  CASE ~Valid(s.ct) -> s
    [] Valid(s.ct) /\ "value" \notin s.ct -> Scan(Fail(at, "bad"), s.chr, Unknown)
    [] s.chr \in {"n", "t", "f"} ->
         IF WordType(s.chr) \cap expected # {} THEN ValueWord(s.chr, Literal(at, WordOf(s.chr)))
         ELSE Mismatch(at)
    [] OTHER -> ValueOther(s.chr, at, (IF s.chr = "\"" THEN {"string"} ELSE s.ct \ {"string"}) \cap expected)
ValueFrom(s, expected) == ValueAt(s, Back(s.lx, s.chr), expected)
Value(lx, expected) == ValueFrom(SkipWs(lx), expected)

-----------------------------------------------------------------------------
\* Characters with a code that matters here.
CharCode == [BEL |-> 7, BS |-> 8] @@ ("\t" :> 9) @@ ("\n" :> 10) @@ ("\r" :> 13) @@ (NUL :> 0)
              @@ ("A" :> 65) @@ ("a" :> 97)
CharOf(n) == IF \E c \in DOMAIN CharCode : CharCode[c] = n
             THEN CHOOSE c \in DOMAIN CharCode : CharCode[c] = n ELSE "other"

\* The place of the digit among both spellings of the hexadecimal digits.
HexPlace(c) == CHOOSE i \in 0..21 : Letters("0123456789abcdefABCDEF")[i + 1] = c
Nibble(c) == 10 * (HexPlace(c) \div 16) + (HexPlace(c) % 16)

\* unhex: four digits, of which an eight bit character keeps the last two.
RECURSIVE UnhexFrom(_, _, _)
UnhexAt(s, n, v) ==
  IF ~Valid(s.ct) THEN Scan(Fail(s.lx, "bad"), CharOf(v), Unknown)
  ELSE IF s.ct \cap {"digit", "hex", "heX"} = {} THEN Scan(Fail(s.lx, "bad"), s.chr, Unknown)
  ELSE UnhexFrom(s.lx, n - 1, (16 * v + Nibble(s.chr)) % 256)
UnhexFrom(lx, n, v) == IF n = 0 THEN Scan(lx, CharOf(v), {"string"}) ELSE UnhexAt(Get(lx), n, v)

Unhex(lx) == UnhexFrom(lx, 4, 0)

Replacement_Swapped == [b |-> "BS", n |-> "\r", r |-> "\n", t |-> "\n", f |-> "other"]
Replacement == [b |-> "BS", n |-> "\n", r |-> "\r", t |-> "\t", f |-> "other"]

\* unescape: what a backslash stands for.
UnescapeAt(s) ==
  CASE ~Valid(s.ct)                 -> s
    [] s.chr \in {"\"", "\\"}        -> [s EXCEPT !.ct = {"string"}]
    [] s.chr \in DOMAIN Replacement -> Scan(s.lx, Replacement[s.chr], {"string"})
    [] OTHER                        -> Unhex(s.lx)
Unescape(lx) == UnescapeAt(GetOf(lx, {"special"}))

\* string: the next character of a string; NUL with delim is its end.
StringAt(s) ==
  CASE ~Valid(s.ct)  -> Bad(s)
    [] s.chr = "\""  -> Scan(s.lx, NUL, {"delim"})
    [] s.chr = "\\"  -> Unescape(s.lx)
    [] OTHER         -> [s EXCEPT !.ct = {"string"}]
StringFrom(ws, first) ==
  IF first /\ ~Valid(ws.ct) THEN [ws EXCEPT !.ct = EosToEof(ws.chr)]
  ELSE IF first /\ ws.chr # "\"" THEN Bad(ws)
  ELSE StringAt(Get(ws.lx))
StringChar(lx, first) == StringFrom(IF first THEN SkipWs(lx) ELSE Scan(lx, NoChar, Unknown), first)

RECURSIVE SkipStringChars(_, _)
SkipStringAfter(s) == IF s.ct = {"string"} THEN SkipStringChars(s.lx, FALSE)
                      ELSE [ok |-> s.chr = NUL, lx |-> s.lx]
SkipStringChars(lx, first) == SkipStringAfter(StringChar(lx, first))

SkipString(lx, first) ==
  IF MismatchIsError THEN [ok |-> FALSE, lx |-> lx] ELSE SkipStringChars(lx, first)

SkipColon(ws) == [ok |-> Valid(ws.ct) /\ ws.chr = ":", lx |-> ws.lx]
SkipMemberAfter(str) == IF str.ok THEN SkipColon(SkipWs(str.lx)) ELSE str
SkipMember(lx, first) == SkipMemberAfter(SkipString(lx, first))

-----------------------------------------------------------------------------
\* bstack: the brackets open while a value is skipped, the innermost first.
Push_Array(stack, sym) == <<"array">> \o stack    \* the kind of bracket is lost
Push(stack, sym) == <<sym>> \o stack
TopIs(stack, sym) == stack # <<>> /\ Head(stack) = sym

\* lexer::skip(list): skips a value, or with list the rest of an array up to its
\* closing bracket, which is put back.
RECURSIVE SkipFrom(_, _, _)

Good(lx)  == [ok |-> TRUE, lx |-> lx]
Abort(lx) == [ok |-> FALSE, lx |-> Fail(lx, "bad")]

\* r: what was read of the value, stack the brackets then open.
SkipOn(r, stack, list) ==
  IF ~r.ok THEN Abort(r.lx) ELSE IF stack = <<>> THEN r ELSE SkipFrom(r.lx, stack, list)

SkipClosing(s, sym, stack, list) ==
  IF ~TopIs(stack, sym) THEN Abort(s.lx)
  ELSE IF Len(stack) > 1 THEN SkipFrom(s.lx, Tail(stack), list)
  ELSE Good(IF list THEN Back(s.lx, s.chr) ELSE s.lx)

\* A piece other than a closing bracket: what it says, and the brackets open after it.
\* next is what follows an opening bracket.
Piece(r, stack) == [r |-> r, stack |-> stack]
Opened(s, next, stack) ==
  CASE ~Valid(next.ct) -> Piece(Abort(next.lx), stack)
    [] next.chr = (IF s.chr = "[" THEN "]" ELSE "}") -> Piece(Good(next.lx), stack)
    [] OTHER -> IF Len(stack) = MaxDepth THEN Piece(Abort(next.lx), stack)
                ELSE IF s.chr = "[" THEN Piece(Good(Back(next.lx, next.chr)), Push(stack, "array"))
                ELSE Piece(SkipMember(next.lx, next.chr # "\""), Push(stack, "object"))
PieceAt(s, stack) ==
  CASE s.chr \in {"[", "{"} -> Opened(s, SkipWs(s.lx), stack)
    [] s.chr = "," /\ TopIs(stack, "object") -> Piece(SkipMember(s.lx, TRUE), stack)
    [] s.chr = "," /\ TopIs(stack, "array")  -> Piece(Good(s.lx), stack)
    [] s.chr = "\"" -> Piece(SkipString(s.lx, FALSE), stack)
    [] s.chr \in {"t", "f", "n"} -> Piece(Literal(s.lx, Tail(WordOf(s.chr))), stack)
    [] OTHER -> Piece(Abort(s.lx), stack)
SkipPiece(piece, list) == SkipOn(piece.r, piece.stack, list)

SkipAt(s, stack, list) ==
  CASE ~Valid(s.ct) -> IF s.chr = Eos \/ stack = <<>>
                       THEN [ok |-> stack = <<>>, lx |-> s.lx] ELSE Abort(s.lx)
    [] Valid(s.ct) /\ IsWs(s.chr) -> SkipFrom(s.lx, stack, list)    \* after a number
    [] s.chr \in {"]", "}"} -> SkipClosing(s, IF s.chr = "]" THEN "array" ELSE "object", stack, list)
    [] s.chr = "," /\ stack = <<>> -> Good(Back(s.lx, s.chr))
    [] OTHER -> SkipPiece(PieceAt(s, stack), list)
SkipNumber(ws) == IF HasBits(ws.ct, {"digit", "sign"}) THEN SkipClass(ws.lx, NumberType) ELSE ws
SkipFrom(lx, stack, list) == SkipAt(SkipNumber(SkipWs(lx)), stack, list)

SkipValue(lx, list) ==
  IF MismatchIsError THEN [ok |-> FALSE, lx |-> lx]
  ELSE SkipFrom(lx, IF list THEN <<"array">> ELSE <<>>, list)
=============================================================================
