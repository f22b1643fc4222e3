--------------------------- MODULE MCHttpService ---------------------------
(***************************************************************************)
(* Instances of HttpService for TLC: a resource map with one node of each  *)
(* kind and sets of requests.                                              *)
(***************************************************************************)
EXTENDS HttpServiceProperties, ResourceMap

CONSTANTS c1, c2

At(id, n) == EntryGenericResource(id, n)

\* /list/<number> is an item, /any/<number> a node of its own for each number.
MCMap ==
  [root   |-> TopDir(<<At("text", "text"), At("octets", "octets"), At("num", "num"), At("gone", "gone"),
                       At("func", "func"), At("page", "page"), At("act", "action"), At("obj", "obj"),
                       At("list", "list"), At("table", "table"), At("any", "any"), At("dir", "dir")>>),
   dir    |-> Dir(<<At("gen", "gen")>>),
   list   |-> Dir(<<EntryIndexedResource("items")>>),
   table  |-> Dir(<<EntryIndexedResource("cells")>>),
   any    |-> Dir(<<At("page", "page"), EntryDynamicResource([i \in Identity |-> IF i = 0 THEN "text" ELSE "rows"])>>),
   text   |-> FileText(3),
   octets |-> FileBinary(3),
   num    |-> FileVariable,
   gone   |-> FileAccessor(Function),
   func   |-> FileFunctions,
   obj    |-> NodeJSON(2),
   items  |-> NodeIndexedVector(Vector(2), "json"),
   cells  |-> NodeIndexedVector(Array(2), "json"),
   rows   |-> NodeIndexedVector(Bunch(3), "json"),
   page   |-> FileConstString("html"),
   gen    |-> NodeProvider("json"),
   action |-> NodeAction(3)]

MCNodes   == DOMAIN MCMap
MCKind    == [n \in MCNodes |-> MCMap[n].kind]
MCMedia   == [n \in MCNodes |-> MCMap[n].media]
MCSize    == [n \in MCNodes |-> MCMap[n].size]
MCEntries == [n \in MCNodes |-> MCMap[n].entries]

\* 5 is another name for 1, as 2^32 + 1 is in the source.
MCDigits == [name \in {"0", "1", "5", "03"} |->
  CASE name = "0" -> <<0>> [] name = "1" -> <<1>> [] name = "5" -> <<5>> [] name = "03" -> <<0, 3>>]

MCInitStore == [n \in MCNodes |->
  CASE n = "text"   -> [i \in 1..3 |-> Nul]
    [] n = "octets" -> [data |-> [i \in 1..3 |-> "x"], len |-> 0]
    [] n = "action" -> <<>>
    [] n = "gone"   -> Absent
    [] n = "obj"    -> <<0, 0>>
    [] n \in {"items", "cells", "rows"} -> [i \in 0..(MCMap[n].size - 1) |-> 0]
    [] n \in {"page", "gen"} -> <<"x">>
    [] OTHER        -> 0]

-----------------------------------------------------------------------------
Field(name, val) == [t |-> "header", name |-> name, val |-> val, len |-> 0, lf |-> FALSE]
Accept(type)     == Field("Accept", type)
Type(type)       == Field("Content-Type", type)
KeepAlive        == Field("Connection", "keep-alive")
Length(n)        == [Field("Content-Length", "") EXCEPT !.len = n]

Ask(method, target, headers, body) ==
  [method |-> method, target |-> target, form |-> "plain", version |-> "1.1",
   headers |-> headers, body |-> body]

GetText   == Ask("GET", <<"text">>, <<KeepAlive>>, <<>>)

PutSized  == Ask("PUT", <<"text">>, <<Type("plain"), Length(2), KeepAlive>>, <<"1", "x">>)
PutLine   == Ask("PUT", <<"text">>, <<KeepAlive, Type("plain")>>, <<"2", "eol">>)
PutOctet  == Ask("PUT", <<"octets">>, <<Type("octet_stream"), Length(2)>>, <<"eol", "1">>)
PutNum    == Ask("PUT", <<"num">>, <<Type("json"), KeepAlive>>, <<"1", "2", "eol">>)
PutFunc   == Ask("PUT", <<"func">>, <<Type("json"), KeepAlive>>, <<"1", "2", "eol">>)
SpoilFunc == Ask("PUT", <<"func">>, <<Type("json")>>, <<"1", "x", "eol">>)
PostFunc  == Ask("POST", <<"func">>, <<Type("json"), KeepAlive>>, <<"2", "eol">>)
PostBare  == Ask("POST", <<"func">>, <<Type("json"), KeepAlive>>, <<"2">>)
PostText  == Ask("POST", <<"text">>, <<Length(1), Type("plain"), KeepAlive>>, <<"2">>)
PutPage   == Ask("PUT", <<"page">>, <<Type("html"), Length(1)>>, <<"1">>)
PutWrong  == Ask("PUT", <<"text">>, <<Type("json"), KeepAlive>>, <<"1", "eol">>)
PutSecond    == Ask("PUT", <<"list", "5">>, <<Type("json"), KeepAlive>>, <<"2", "eol">>)
SpoilFirst  == Ask("PUT", <<"list", "0">>, <<Type("json")>>, <<"1", "x", "eol">>)
PutCell    == Ask("PUT", <<"table", "1">>, <<Type("json"), KeepAlive>>, <<"1", "end">>)
PutObject  == Ask("PUT", <<"obj">>, <<KeepAlive, Type("json")>>, <<"2", "1", "end">>)
BreakObject == Ask("PUT", <<"obj">>, <<Type("json")>>, <<"1", "x">>)
CallAction == Ask("PUT", <<"act">>, <<Type("plain"), KeepAlive>>, <<"x", "eol">>)

\* The requests whose bodies arrive in one packet or in two.
Uploads == {GetText, PutSized, PutLine, PutOctet, PutFunc, PostBare, PostText,
            PutSecond, PutCell, PutObject}

\* Requests that take each way through the parser and the providers.
Errors ==
  {Ask("HEAD", <<"text">>, <<>>, <<>>),
   Ask("DELETE", <<"text">>, <<>>, <<>>),
   Ask("GET", <<"none">>, <<>>, <<>>),
   Ask("GET", <<"none", "text">>, <<KeepAlive>>, <<>>),
   Ask("GET", <<"text", "none">>, <<>>, <<>>),
   Ask("GET", <<"text">>, <<Field("Connection", "upgrade"), Accept("any")>>, <<>>),
   Ask("GET", <<"text">>, <<KeepAlive, Field("If-Modified-Since", "")>>, <<>>),
   Ask("GET", <<"text">>, <<KeepAlive, Field("If-Match", "long"), Field("If-Match", "short")>>, <<>>),
   [Ask("GET", <<"text">>, <<>>, <<>>) EXCEPT !.form = "malformed"],
   [Ask("GET", <<"text">>, <<>>, <<>>) EXCEPT !.form = "long"],
   [Ask("GET", <<"text">>, <<>>, <<>>) EXCEPT !.version = "2.0"],
   Ask("GET", <<"act">>, <<>>, <<>>),
   Ask("GET", <<"text">>, <<KeepAlive, Length(1)>>, <<"1">>),    \* a body that nobody reads
   Ask("GET", <<>>, <<Accept("html"), KeepAlive>>, <<>>),
   Ask("GET", <<>>, <<>>, <<>>),
   Ask("GET", <<"dir">>, <<Accept("plain")>>, <<>>),
   Ask("GET", <<"dir", "gen">>, <<KeepAlive, Field("Host", "")>>, <<>>),
   Ask("PUT", <<"dir">>, <<Type("json")>>, <<"1">>),
   Ask("PUT", <<"octets">>, <<Type("octet_stream")>>, <<"1">>),
   Ask("PUT", <<"octets">>, <<Type("octet_stream"), Length(4)>>, <<"1", "1", "1", "1">>),
   Ask("PUT", <<"text">>, <<Type("plain"), Length(3)>>, <<"1", "1", "1">>),
   Ask("PUT", <<"text">>, <<Type("unknown"), KeepAlive, Field("Connection", "close")>>, <<"1", "eol">>),
   Ask("GET", <<"list", "03">>, <<KeepAlive>>, <<>>),
   Ask("PUT", <<"list", "03">>, <<Type("json"), KeepAlive>>, <<"1", "eol">>),
   Ask("GET", <<"list", "1">>, <<KeepAlive>>, <<>>),
   Ask("GET", <<"list", "one">>, <<>>, <<>>),
   Ask("PUT", <<"any", "1">>, <<Type("json"), KeepAlive>>, <<"1", "eol">>),
   Ask("GET", <<"any", "1">>, <<>>, <<>>),
   Ask("GET", <<"any">>, <<Accept("plain")>>, <<>>),
   Ask("GET", <<"gone">>, <<>>, <<>>),
   Ask("POST", <<"gone">>, <<Type("json")>>, <<"1", "eol">>),
   Ask("GET", <<"obj">>, <<KeepAlive>>, <<>>),
   PutSecond, SpoilFirst, PutCell, PutObject, BreakObject,
   PutOctet, PutLine, PutWrong, PutPage, PutNum, SpoilFunc, PostFunc, CallAction}

\* A Content-Length line ended by a lone LF.
LoneLF == {[PutSized EXCEPT !.headers = <<Type("plain"), [Length(2) EXCEPT !.lf = TRUE], KeepAlive>>],
           [PutSized EXCEPT !.headers = <<KeepAlive, Type("plain"), [Length(2) EXCEPT !.lf = TRUE]>>]}
\* Whole and broken requests, also ones whose head the parser loses in the body.
Mixed == {GetText, PutSized, PutFunc, PostFunc, Ask("GET", <<"act">>, <<>>, <<>>)} \cup LoneLF
         \cup {[PutSized EXCEPT !.body = <<"eol", "1", "2">>,
                                !.headers = <<Type("plain"), [Length(2) EXCEPT !.lf = TRUE]>>],
               [PutSized EXCEPT !.body = <<"1", "eol", "2">>,
                                !.headers = <<Type("plain"), [Length(3) EXCEPT !.lf = TRUE]>>]}

\* Every way, whole, cut anywhere, and with heads that are read on into the body.
Rough == Errors \cup Mixed

Calls   == {CallAction}
TwoPuts == {PutSized, PutNum, GetText}

\* What the promises ask of the resource map.
ASSUME MapIsAsAsked == NumbersAreNoNames

Clients == {c1, c2}
OneClient == {c1}
=============================================================================
