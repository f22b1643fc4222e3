----------------------------- MODULE HttpWords -----------------------------
(***************************************************************************)
(* How httpmessage recognises words (micurest.cpp, literals of             *)
(* http_01.hpp).  A reader is a record: the streams s, the last character  *)
(* curr, ok (the last get succeeded), the request and the response.  An    *)
(* operator that recognises a word returns the reader afterwards and which *)
(* of the alternatives it has met, 0 for none.                             *)
(*                                                                         *)
(* A word that is not recognised has cost as many characters as were read  *)
(* to find out, which may be more than the word has.                       *)
(***************************************************************************)
EXTENDS Streams, HttpMessage, SequencesExt

Letters(word) == [i \in 1..Len(word) |-> SubSeq(word, i, i)]

GetChar_KeepsLast(r) ==
  LET Into(g) == [r EXCEPT !.s = g.s, !.curr = IF g.ok THEN g.chr ELSE @, !.ok = g.ok] IN Into(Get(r.s))

GetChar(r) ==
  LET Into(g) == [r EXCEPT !.s = g.s, !.curr = g.chr, !.ok = g.ok] IN Into(Get(r.s))

Failing(r, status) == [r EXCEPT !.resp = SetError(@, status)]

\* A loop of n rounds; those after its end change nothing.
Repeat(Round(_), m, n) ==
  LET after[k \in 0..n] == IF k = 0 THEN m ELSE Round(after[k - 1]) IN after[n]

\* The next character is got while the current one is one of chars, or none of them.
Pass(n, chars, within) ==
  LET Round(m) == IF m.ok /\ (m.curr \in chars) = within THEN GetChar(m) ELSE m
  IN  Repeat(Round, n, Left(n.s) + 1)

\* skip_ws, skip_type
SkipSpaces(r) == Pass(GetChar(r), Spaces, TRUE)
SkipType(r)   == Pass(GetChar(r), TypeEnds(r.s), FALSE)

Met(r, n) == [r |-> r, hit |-> n]
MetIf(m, n) == [m EXCEPT !.hit = IF @ = 0 THEN 0 ELSE n]

\* expect_crlf: the current character ends the line.
LF(n) == Met(n, IF n.ok /\ n.curr = "\n" THEN 1 ELSE 0)
ExpectCrlf(r) ==
  IF r.curr = "\n" THEN Met(r, 1) ELSE IF r.curr = "\r" THEN LF(GetChar(r)) ELSE Met(r, 0)

\* skip_line
SkipLine(r) == ExpectCrlf(Pass(GetChar(r), Controls(r.s), FALSE))

ConsumeCrlf(r) == LET Ending(n) == IF n.ok THEN ExpectCrlf(n).r ELSE n IN Ending(GetChar(r))

\* The delimiters of words, sets of characters.
Colon == {":"}
Slash == {"/"}
Blank == {" "}
Line  == {"\n"}
CSLF  == {",", ";", "\n"}

\* isdlmcrlf, after a get: CRLF passes for LF.
Delimited(r, dlm) ==
  IF ~r.ok THEN Met(r, 0)
  ELSE IF r.curr \in dlm THEN Met(r, 1)
  ELSE IF "\n" \in dlm /\ r.curr = "\r" THEN ExpectCrlf(r)
  ELSE Met(r, 0)

UpperCase == Letters("ABCDEFGHIJKLMNOPQRSTUVWXYZ")
LowerCase == Letters("abcdefghijklmnopqrstuvwxyz")

Lower(c) == IF \E i \in 1..26 : UpperCase[i] = c
            THEN LowerCase[CHOOSE i \in 1..26 : UpperCase[i] = c] ELSE c

Same(c, e, anycase) == IF anycase THEN Lower(c) = Lower(e) ELSE c = e

\* As much of a literal as is there, and the first character that does not fit.
Matched(r, lit, anycase) ==
  LET Compare(m, n) == IF n.ok /\ Same(n.curr, lit[m.done + 1], anycase)
                       THEN [r |-> n, done |-> m.done + 1, fits |-> TRUE]
                       ELSE [r |-> n, done |-> m.done, fits |-> FALSE]
      Round(m)      == IF m.fits /\ m.done < Len(lit) THEN Compare(m, GetChar(m.r)) ELSE m
  IN  Repeat(Round, [r |-> r, done |-> 0, fits |-> TRUE], Left(r.s) + 1)

Whole(m, lit, dlm) ==
  IF m.done = Len(lit) THEN Delimited(GetChar(m.r), dlm) ELSE Met(m.r, 0)

Literal1(r, lit, dlm)    == Whole(Matched(r, lit, FALSE), lit, dlm)
Literal1_ic(r, lit, dlm) == Whole(Matched(r, lit, TRUE), lit, dlm)

\* The first character of what is left of a literal, which ends with a null.
First(lit) == IF lit = <<>> THEN "" ELSE Head(lit)
Rest(lit)  == IF lit = <<>> THEN <<>> ELSE Tail(lit)

\* What is left after the first n characters.
Beyond(n, lit) == SubSeq(lit, n + 1, Len(lit))

\* One more character decides between two literals, also after one that fits neither.
Decide(n, lit1, lit2, dlm) ==
  IF n.ok /\ n.curr = First(lit1) THEN MetIf(Literal1(n, Rest(lit1), dlm), 1)
  ELSE IF n.ok /\ n.curr = First(lit2) THEN MetIf(Literal1(n, Rest(lit2), dlm), 2)
  ELSE Met(n, 0)

Literals(r, lit1, lit2, dlm) ==
  LET Fork(m) == Decide(GetChar(m.r), Beyond(m.done, lit1), Beyond(m.done, lit2), dlm)
  IN  Fork(Matched(r, LongestCommonPrefix({lit1, lit2}), FALSE))

\* The character that ends what the three have in common is not compared with the
\* first two.
Decide3(n, lit1, lit2, lit3, dlm) ==
  LET Ended(end) == IF end.hit = 1 THEN MetIf(end, 3) ELSE Literals(end.r, Rest(lit1), Rest(lit2), dlm)
  IN  CASE ~n.ok -> Met(n, 0)
        [] n.ok /\ lit3 = <<>> -> Ended(Delimited(n, dlm))
        [] n.ok /\ lit3 # <<>> -> IF n.curr = Head(lit3) THEN MetIf(Literal1(n, Tail(lit3), dlm), 3)
                                  ELSE Literals(n, Rest(lit1), Rest(lit2), dlm)

Literal3(r, lit1, lit2, lit3, dlm) ==
  LET Fork(m) == Decide3(GetChar(m.r), Beyond(m.done, lit1), Beyond(m.done, lit2), Beyond(m.done, lit3), dlm)
  IN  Fork(Matched(r, LongestCommonPrefix({lit1, lit2, lit3}), FALSE))

\* The words of the protocol: its name and versions, the fields of interest and the
\* values of Connection, the media types.
HTTP == [name |-> "HTTP", v01 |-> "0.1", v10 |-> "1.0", v11 |-> "1.1"]

Field == [accept |-> "Accept", connection |-> "Connection", keep |-> "keep-alive", close |-> "close",
          content_type |-> "Content-Type", content_length |-> "Content-Length",
          if_match |-> "If-Match", if_none_match |-> "If-None-Match"]

Media == [any |-> "*", application |-> "application", text |-> "text",
          json |-> "json", json_rpc |-> "json-rpc", jsonrequest |-> "jsonrequest",
          javascript |-> "javascript", octet_stream |-> "octet-stream",
          css |-> "css", csv |-> "csv", html |-> "html", plain |-> "plain", xml |-> "xml", xsl |-> "xsl"]

\* The rest of a word whose first n characters are known.
After(n, word) == Beyond(n, Letters(word))

-----------------------------------------------------------------------------
\* read_method: the method, or "" and the state that follows instead.
Methods == [G |-> <<"GET">>, P |-> <<"POST", "PUT">>, D |-> <<"DELETE">>]

MethodFrom(n) ==
  LET Word(m) == [r      |-> m.r,
                  method |-> IF m.hit = 0 THEN "UNKNOWN" ELSE Methods[n.curr][m.hit],
                  empty  |-> ~n.ok \/ n.curr \in {"\r", "\n"}]
  IN  Word(CASE n.ok /\ n.curr = "P" -> Literals(n, After(1, "POST"), After(1, "PUT"), Blank)
             [] n.ok /\ n.curr = "G" -> Literal1(n, After(1, "GET"), Blank)
             [] n.ok /\ n.curr = "D" -> Literal1(n, After(1, "DELETE"), Blank)
             [] OTHER                -> Met(n, 0))

ReadMethodWord(r) == MethodFrom(GetChar(r))

\* read_version, up to the line's end.
VersionFrom(n) ==
  CASE n.ok /\ n.curr = "0" -> MetIf(Literal1(n, After(1, HTTP.v01), Line), 3)
    [] n.ok /\ n.curr = "1" -> Literals(n, After(1, HTTP.v10), After(1, HTTP.v11), Line)
    [] OTHER                -> Met(n, 0)

ReadVersionWord(r) ==
  LET Word(m)       == [r |-> m.r, version |-> IF m.hit = 0 THEN "UNKNOWN" ELSE <<HTTP.v10, HTTP.v11, HTTP.v01>>[m.hit]]
      Numbered(http) == IF http.hit = 0 THEN http ELSE VersionFrom(GetChar(http.r))
  IN  Word(Numbered(Literal1(r, Letters(HTTP.name), Slash)))

Typed(m, types) == [r |-> m.r, type |-> IF m.hit = 0 THEN "unknown" ELSE types[m.hit]]
Untyped(r) == [r |-> r, type |-> "unknown"]

\* read_mediatypetext, read_mediatypeappj, read_mediatypeapp.  For javascript the
\* result of literal1, true, is returned as the media type, which is that of any.
ReadTextType(n) ==
  CASE ~n.ok        -> Untyped(n)
    [] n.curr = Media.any -> [r |-> n, type |-> "anytext"]
    [] n.curr = "c" -> Typed(Literals(n, After(1, Media.css), After(1, Media.csv), CSLF), <<"css", "csv">>)
    [] n.curr = "h" -> Typed(Literal1(n, After(1, Media.html), CSLF), <<"html">>)
    [] n.curr = "p" -> Typed(Literal1(n, After(1, Media.plain), CSLF), <<"plain">>)
    [] n.curr = "x" -> Typed(Literals(n, After(1, Media.xml), After(1, Media.xsl), CSLF), <<"xml", "xsl">>)
    [] OTHER        -> Untyped(n)

ReadAppjType(n) ==
  CASE n.ok /\ n.curr = "a" -> Typed(Literal1(n, After(2, Media.javascript), CSLF), <<"any">>)
    [] n.ok /\ n.curr = "s" ->
         Typed(Literal3(n, After(2, Media.jsonrequest), After(2, Media.json_rpc), After(2, Media.json), CSLF),
               <<"jsonrequest", "json_rpc", "json">>)
    [] OTHER -> Untyped(n)

ReadAppType(n) ==
  CASE ~n.ok        -> Untyped(n)
    [] n.curr = Media.any -> [r |-> n, type |-> "anyapp"]
    [] n.curr = "j" -> ReadAppjType(GetChar(n))
    [] n.curr = "o" -> Typed(Literal1(n, After(1, Media.octet_stream), CSLF), <<"octet_stream">>)
    [] OTHER        -> Untyped(n)

\* read_mediatype
MediaTypeFrom(n) ==
  LET Text(top) == IF top.hit = 0 THEN Untyped(SkipType(top.r)) ELSE ReadTextType(GetChar(top.r))
      App(top)  == IF top.hit = 0 THEN Untyped(SkipType(top.r)) ELSE ReadAppType(GetChar(top.r))
  IN  CASE n.curr = Media.any -> [r |-> SkipType(n), type |-> "any"]
        [] n.curr = "t" -> Text(Literal1(n, After(1, Media.text), Slash))
        [] n.curr = "a" -> App(Literal1(n, After(1, Media.application), Slash))
        [] OTHER        -> Untyped(SkipType(n))

ReadMediaType(r) == MediaTypeFrom(SkipSpaces(r))

-----------------------------------------------------------------------------
Nul == "nul"

\* is_hex: the value of a hexadecimal digit, -1 for any other character.
HexDigits == Letters("0123456789ABCDEF")
LowDigits == Letters("0123456789abcdef")
HexValue(c) == IF \E i \in 1..16 : c \in {HexDigits[i], LowDigits[i]}
               THEN (CHOOSE i \in 1..16 : c \in {HexDigits[i], LowDigits[i]}) - 1 ELSE -1

\* The character of a code, by name for those that matter in a target.
Character(code) ==
  CASE code = 0         -> Nul
    [] code = 32        -> " "
    [] code = 37        -> "%"
    [] code = 47        -> "/"
    [] code \in 48..57  -> HexDigits[code - 47]
    [] code \in 65..90  -> UpperCase[code - 64]
    [] code \in 97..122 -> LowerCase[code - 96]
    [] OTHER            -> Junk

Decoded(r, chr, next)  == [r |-> r, chr |-> chr, next |-> next]
Undecodable(r) == Decoded(Failing(r, Bad_Request), Nul, "section")

\* pct_decode
LowDigit(hi, lo) ==
  IF ~lo.ok \/ HexValue(lo.curr) < 0 THEN Undecodable(lo)
  ELSE Decoded(lo, Character(16 * HexValue(hi) + HexValue(lo.curr)), "section")

HighDigit(hi) ==
  CASE ~hi.ok                -> Undecodable(hi)
    [] hi.ok /\ hi.curr = "%" -> Decoded(hi, "%", "section")
    [] hi.ok /\ hi.curr # "%" -> IF HexValue(hi.curr) < 0 THEN Undecodable(hi)
                                 ELSE LowDigit(hi.curr, GetChar(hi))

\* read_target after its get, whose failure it does not look at: a character of the
\* target, Nul where it ends, and the state that follows.
ReadTargetChar(r) ==
  LET Ended(end) == IF end.hit = 1 THEN Decoded(end.r, Nul, "header") ELSE Undecodable(end.r)
  IN  CASE IsSpace(r.curr)           -> Decoded(r, Nul, "version")
        [] r.curr \in {"\r", "\n"} -> Ended(ExpectCrlf(r))
        [] r.curr = "%"              -> HighDigit(GetChar(r))
        [] OTHER                     -> Decoded(r, r.curr, "section")

\* The loop of read_target_and_find up to the next slash or the end of the target; a
\* section is too long while neither has been found.
ReadSectionWord(r, size) ==
  LET Extend(m, c) == IF c.chr \in {"/", Nul}
                      THEN [m EXCEPT !.r = c.r, !.next = c.next, !.long = FALSE, !.last = c.chr = Nul]
                      ELSE [m EXCEPT !.r = c.r, !.section = Append(@, c.chr)]
      Round(m)     == IF m.long THEN Extend(m, ReadTargetChar(GetChar(m.r))) ELSE m
  IN  Repeat(Round, [r |-> r, section |-> <<>>, next |-> "section", long |-> TRUE, last |-> FALSE], size)

IsDigit(c) == HexValue(c) \in 0..9
IsDelim(c) == c \in {"}", "]", ",", "\t", "\n", "\r", " "}

Number(r, ok, val) == [r |-> r, ok |-> ok, val |-> val]
BadNumber(r, val)  == Number([r EXCEPT !.s = Raise(@, "bad")], FALSE, val)

\* reader<size_t>::read: the character after the digits is taken too.
Digits(n) ==
  LET Round(m) == IF m.r.ok /\ IsDigit(m.r.curr)
                  THEN [r |-> GetChar(m.r), val |-> 10 * m.val + HexValue(m.r.curr)] ELSE m
  IN  Repeat(Round, [r |-> n, val |-> 0], Left(n.s) + 1)

\* A number ends at a delimiter and at the end of the input, not at a failing receive.
NumberFrom(m) ==
  CASE m.r.ok  -> IF IsDelim(m.r.curr) THEN Number(m.r, TRUE, m.val) ELSE BadNumber(m.r, m.val)
    [] ~m.r.ok -> Number(m.r, m.r.curr = Eos, m.val)

\* lexer::get of a stream that has failed reads nothing (lexer::readable).
FirstOfLexer(r) == IF InputGood(r.s) THEN GetChar(r) ELSE [r EXCEPT !.ok = FALSE]

\* read_length: a lexer has a current character of its own.  JsonReaders has what
\* becomes of the values that are no numbers; here they are malformed.
ReadLength(r) ==
  LET Begin(n) == CASE ~n.ok -> Number(n, FALSE, 0)
                    [] n.ok /\ IsDigit(n.curr)  -> NumberFrom(Digits(n))
                    [] n.ok /\ ~IsDigit(n.curr) -> BadNumber(n, 0)
  IN  [Begin(Pass(FirstOfLexer(r), {" ", "\t", "\r", "\n"}, TRUE)) EXCEPT !.r.curr = r.curr, !.r.ok = r.ok]

\* The loop of read_etag, which begins with the current character.
EtagChars(n, etag, size) ==
  LET More(m, next) == [r |-> next, etag |-> Append(m.etag, m.r.curr), ok |-> next.ok]
      Round(m)      == IF m.ok /\ m.r.curr \notin {" ", "\r", "\n"} /\ Len(m.etag) + 1 < size
                       THEN More(m, GetChar(m.r)) ELSE m
  IN  Repeat(Round, [r |-> n, etag |-> etag, ok |-> TRUE], size)

EtagFrom(m) ==
  LET Ended(end) == [r |-> [end.r EXCEPT !.etag = Append(m.etag, Nul)], ok |-> end.hit = 1]
      Refused(n) == [r |-> n, ok |-> FALSE]
      AtEnd(end) == IF end.hit = 1 THEN Ended(end) ELSE Refused(Failing(end.r, Bad_Request))
  IN  CASE ~m.ok                               -> Refused(m.r)
        [] m.ok /\ m.r.curr = " "            -> Ended(SkipLine(m.r))
        [] m.ok /\ m.r.curr \in {"\r", "\n"} -> AtEnd(ExpectCrlf(m.r))
        [] OTHER -> Refused(Failing(m.r, Request_Entity_Too_Large))

\* read_etag: the first character is stored twice.
ReadEtag(r, size) ==
  LET From(n) == EtagFrom(EtagChars(n, <<IF n.curr \in Controls(n.s) THEN Nul ELSE n.curr>>, size))
  IN  From(SkipSpaces(r))
=============================================================================
