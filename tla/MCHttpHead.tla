----------------------------- MODULE MCHttpHead -----------------------------
EXTENDS HttpHead

CRLF == <<"\r", "\n">>

F(text, means) == [text |-> text, means |-> means]

Accepts(type) == [name |-> "Accept", val |-> type]
Says(field, val) == [name |-> field, val |-> val]
Length(n, ending) == [name |-> "Content-Length", len |-> n, lf |-> ending = "lf"]

\* Fields as clients write them, with what they mean to the server.
MCFields ==
  {F("Host: micu", <<>>),
   F("Cookie: a=b", <<>>),
   F("Content-Encoding: br", <<>>),
   F("Accept-Encoding: gzip", <<>>),
   F("Accept: text/html, application/json;q=0.9, */*", <<Accepts("html"), Accepts("json"), Accepts("any")>>),
   F("Accept:image/png,text/css", <<Accepts("unknown"), Accepts("css")>>),
   F("Accept: application/json-rpc,text/*", <<Accepts("json_rpc"), Accepts("anytext")>>),
   F("Content-Type: application/octet-stream", <<Says("Content-Type", "octet_stream")>>),
   F("Content-Type: application/json;charset=utf-8", <<Says("Content-Type", "json")>>),
   F("Content-Type: multipart/form-data; boundary=x", <<Says("Content-Type", "unknown")>>),
   F("Content-Length: 12", <<Length(12, "crlf")>>),
   F("Connection: Keep-Alive", <<Says("Connection", "keep-alive")>>),
   F("Connection:close", <<Says("Connection", "close")>>),
   F("Connection: Upgrade", <<Says("Connection", "upgrade")>>),
   F("If-Match: v1", <<Says("If-Match", "short")>>),
   F("If-None-Match: abcdefgh", <<Says("If-Match", "long")>>),
   F("If-Modified-Since: 0", <<Says("If-Modified-Since", "0")>>)}

\* The line of a length may end with a lone LF.
LoneLF == {"Content-Length: 12"}

Line1(f, ending) == Letters(f.text) \o (IF ending = "lf" THEN <<"\n">> ELSE CRLF)

Ending(f, ending) ==
  IF f.text \in LoneLF THEN [f EXCEPT !.means = <<Length(12, ending)>>] ELSE f

Lines(fields, ending) ==
  FlattenSeq([i \in DOMAIN fields |-> Line1(fields[i], IF fields[i].text \in LoneLF THEN ending ELSE "crlf")])

Call(text, method, target, version) ==
  [text |-> text, method |-> method, path |-> target, version |-> version, refused |-> FALSE]

Refused(text) == [text |-> text, method |-> "GET", path |-> NoNode, version |-> "1.1", refused |-> TRUE]

d == Letters("d")
rr == Letters("r")
xy == Letters("x y")

MCNodes == {<<rr>>, <<d>>, <<d, xy>>}
MCDirectories == {<<d>>}

Upload == Call("PUT /d/x%20y HTTP/1.0", "PUT", <<d, xy>>, "1.0")

Calls ==
  {Upload,
   Call("GET /r HTTP/1.1", "GET", <<rr>>, "1.1"),
   Call("POST /d/ HTTP/1.1", "POST", <<d>>, "1.1"),
   Call("DELETE //n HTTP/0.1", "DELETE", NoNode, "0.1"),
   Call("GET /d", "GET", <<d>>, "UNKNOWN")}

\* What must not pass for a request.
NoCalls == {Refused(text) : text \in
  {"", "HEAD /r HTTP/1.1", "GET r HTTP/1.1", "GET /r HTTP/2.0", "GET /%4g HTTP/1.1", "GET /n/r HTTP/1.1",
   "GET /ninechars HTTP/1.1", "GET /r HTTP/1.1\r\n folded: line", "GET /%00 HTTP/1.1"}}

\* What arrives at a session layer; cut of its characters are late.
Client(q, fields, ending, cut, port, size) ==
  LET all == Letters(q.text) \o CRLF \o Lines(fields, ending) \o CRLF
      n   == IF cut < Len(all) THEN Len(all) - cut ELSE 0
  IN  [port |-> port, size |-> size,
       text |-> SubSeq(all, 1, n), late |-> SubSeq(all, n + 1, Len(all)),
       up |-> Len(all), behind |-> <<>>, signed |-> TRUE,
       refused |-> q.refused, method |-> q.method, version |-> q.version, path |-> q.path,
       fields |-> [i \in DOMAIN fields |-> Ending(fields[i], ending)]]

Sizes == {4, 64}
Endings == {"crlf", "lf"}

One == {Client(q, <<f>>, e, 0, p, n) : q \in Calls, f \in MCFields, e \in Endings, p \in Ports, n \in Sizes}

Two == {Client(Upload, <<f, g>>, e, 0, p, 4) :
          f \in MCFields, g \in MCFields, e \in Endings, p \in Ports}

Cut == {Client(Upload, <<f>>, "crlf", cut, p, 4) :
          f \in MCFields, cut \in {1, 2, 3, 5, 8, 13, 21, 34, 55}, p \in Ports}

\* The connection breaks after so many receives.
Broken == {[Client(Upload, <<f>>, "crlf", 0, p, 16) EXCEPT !.up = up, !.behind = behind] :
             f \in MCFields, p \in {"spark", "arduino"}, up \in 0..4,
             behind \in {<<>>, Letters("A: b\nx"), Letters("\r\n")}}

No == {Client(q, <<>>, "crlf", 0, p, n) : q \in NoCalls, p \in Ports, n \in Sizes}

\* Compilers differ in their char.
Unsigned == {[i EXCEPT !.signed = FALSE] : i \in No \cup One \cup Cut \cup Broken}

MCInputs == No \cup One \cup Two \cup Cut \cup Broken \cup Unsigned

MCAnswers ==
  {[status |-> OK, ctype |-> "html", body |-> <<"b1", "b2", "b3">>],
   [status |-> No_Content, ctype |-> "plain", body |-> <<>>],
   [status |-> Unsupported_Content_Format, ctype |-> "json", body |-> <<>>]}
=============================================================================
