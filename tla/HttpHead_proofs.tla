-------------------------- MODULE HttpHead_proofs --------------------------
(***************************************************************************)
(* Proof that the client is sent what service has put, for every input,    *)
(* every answer and every size of the buffers, as long as the network has  *)
(* refused nothing; and that the status code sent is that of an error      *)
(* exactly when the message has failed, whatever the network does.         *)
(*                                                                         *)
(* The words of a head are read by loops, whose result is known here only  *)
(* as far as the reply depends on it: the output is untouched and the      *)
(* status is one of the statuses.                                          *)
(***************************************************************************)
EXTENDS HttpHead, Recursion

\* The current characters of a reader, which has none at first, and the error bits.
Chars == STRING \cup {"", "\n", Eos, Err, Junk}
Bits  == {"eof", "bad", "ioerror"}

\* Streams of which nothing has been put to the output.
Unsent ==
  [port : Ports, array : Seq(Chars) \ {<<>>}, get : Nat, end : Nat, put : {1},
   wire : Seq(Chars), late : Seq(Chars), up : Int, behind : Seq(Chars),
   signed : BOOLEAN, sent : {<<>>}, err : SUBSET Bits, oerr : {{}}]

\* Readers that differ from m in what reading changes: not in the request.
Readers(m) ==
  [s : Unsent, curr : Chars, ok : BOOLEAN, etag : {m.etag}, requ : {m.requ},
   resp : [status : Status, ctype : {m.resp.ctype, "unknown"}, fields : {m.resp.fields, {}}]]

IsReader(m) == m \in Readers(m)

-----------------------------------------------------------------------------
\* What the output holds, beside the characters the input has left in the array.
Pieces == Chars \cup {reply[i] : i \in DOMAIN reply}

Outputs(P) ==
  [port : Ports, array : Seq(P) \ {<<>>}, get : Nat, end : Nat, put : Nat \ {0},
   wire : Seq(Chars), late : Seq(Chars), up : Int, behind : Seq(Chars),
   signed : BOOLEAN, sent : Seq(P), err : SUBSET Bits, oerr : SUBSET Bits]

\* What has been sent, what the array holds and what is still to be put make up the reply;
\* the ESP8266 sends nothing before the end, and has had room.
InPieces(s) ==
  s.sent \o Pending(s) \o out = reply /\ (s.port = "esp" => s.sent = <<>> /\ "eof" \notin s.oerr)

\* The ESP8266's buffer is full of the beginning of the reply.
CutShort(s) ==
  /\ s.port = "esp" /\ "eof" \in s.oerr /\ s.sent = <<>> /\ s.put = Len(s.array) + 1
  /\ Pending(s) = SubSeq(reply, 1, Len(s.array))

Writing ==
  /\ reply \in Seq(Pieces) /\ reply # <<>> /\ out \in Seq(Pieces)
  /\ r.s \in Outputs(Pieces) /\ r.s.put <= Len(r.s.array) + 1
  /\ refusals = 0 => InPieces(r.s) \/ CutShort(r.s)

StatusIsSent == reply # <<>> => r.resp.status \in Status \ {Unknown} /\ reply[3] = StatusCode[r.resp.status]

Delivered == refusals = 0 => SentAsPut

HeadInv ==
  /\ refusals \in Nat /\ {"s", "resp"} \subseteq DOMAIN r
  /\ pc \notin {"write", "sent"} => IsReader(r) /\ reply = <<>> /\ out = <<>>
  /\ pc = "write" => Writing
  /\ pc = "sent" => Delivered
  /\ StatusIsSent

-----------------------------------------------------------------------------
\* What reading changes in the streams leaves them unsent.
LEMMA ChangedUnsent ==
  ASSUME NEW s \in Unsent
  PROVE  /\ \A a \in Seq(Chars) \ {<<>>} : [s EXCEPT !.array = a] \in Unsent
         /\ \A n \in Nat : [s EXCEPT !.get = n] \in Unsent
         /\ \A n \in Nat : [s EXCEPT !.end = n] \in Unsent
         /\ \A w \in Seq(Chars) : [s EXCEPT !.wire = w] \in Unsent
         /\ \A w \in Seq(Chars) : [s EXCEPT !.late = w] \in Unsent
         /\ \A u \in Int : [s EXCEPT !.up = u] \in Unsent
         /\ \A b \in SUBSET Bits : [s EXCEPT !.err = b] \in Unsent
<1> DEFINE A == Seq(Chars) \ {<<>>}
           W == Seq(Chars)
           E == SUBSET Bits
           N == Nat
           I == Int
           P == Ports
           One == {1}
           Nothing == {<<>>}
           None == {{}}
<1>1. Unsent = [port : P, array : A, get : N, end : N, put : One, wire : W, late : W,
                up : I, behind : W, signed : BOOLEAN, sent : Nothing, err : E, oerr : None]
  BY DEF Unsent
<1> SUFFICES /\ \A a \in A : [s EXCEPT !.array = a] \in Unsent
             /\ \A n \in N : [s EXCEPT !.get = n] \in Unsent
             /\ \A n \in N : [s EXCEPT !.end = n] \in Unsent
             /\ \A w \in W : [s EXCEPT !.wire = w] \in Unsent
             /\ \A w \in W : [s EXCEPT !.late = w] \in Unsent
             /\ \A u \in I : [s EXCEPT !.up = u] \in Unsent
             /\ \A b \in E : [s EXCEPT !.err = b] \in Unsent
  OBVIOUS
<1> HIDE DEF A, W, E, N, I, P, One, Nothing, None
<1>2. \A a \in A : [s EXCEPT !.array = a] \in Unsent
  BY <1>1
<1>3. \A n \in N : [s EXCEPT !.get = n] \in Unsent
  BY <1>1
<1>4. \A n \in N : [s EXCEPT !.end = n] \in Unsent
  BY <1>1
<1>5. \A w \in W : [s EXCEPT !.wire = w] \in Unsent
  BY <1>1
<1>6. \A w \in W : [s EXCEPT !.late = w] \in Unsent
  BY <1>1
<1>7. \A u \in I : [s EXCEPT !.up = u] \in Unsent
  BY <1>1
<1>8. \A b \in E : [s EXCEPT !.err = b] \in Unsent
  BY <1>1
<1> QED BY <1>2, <1>3, <1>4, <1>5, <1>6, <1>7, <1>8

\* The fields of streams of which nothing has been put.
LEMMA UnsentFields ==
  ASSUME NEW s \in Unsent
  PROVE  /\ s.port \in Ports /\ s.get \in Nat /\ s.end \in Nat /\ s.put = 1
         /\ s.array \in Seq(Chars) \ {<<>>} /\ s.wire \in Seq(Chars) /\ s.late \in Seq(Chars)
         /\ s.up \in Int /\ s.behind \in Seq(Chars) /\ s.signed \in BOOLEAN
         /\ s.sent = <<>> /\ s.oerr = {} /\ s.err \in SUBSET Bits
BY DEF Unsent

\* A get takes a character, or nothing, and leaves the output alone.
LEMMA ReceiveUnsent ==
  ASSUME NEW s \in Unsent
  PROVE  Receive(s) \in Unsent
<1> DEFINE n == Least(Len(s.array), Len(s.wire))
           a == [i \in DOMAIN s.array |-> IF i <= n THEN s.wire[i] ELSE s.array[i]]
           w == SubSeq(s.wire, n + 1, Len(s.wire))
<1>1. s.array \in Seq(Chars) /\ s.array # <<>> /\ s.wire \in Seq(Chars)
  BY DEF Unsent
<1>2. n \in Nat /\ n <= Len(s.wire) /\ n <= Len(s.array)
  BY <1>1 DEF Least
<1>3. a \in Seq(Chars) /\ a # <<>>
  <2>1. DOMAIN s.array = 1..Len(s.array) /\ Len(s.array) \in Nat /\ Len(s.array) # 0
    BY <1>1
  <2>2. ASSUME NEW i \in DOMAIN s.array
        PROVE  (IF i <= n THEN s.wire[i] ELSE s.array[i]) \in Chars
    BY <1>1, <1>2, <2>1, ElementOfSeq
  <2>3. a \in [1..Len(s.array) -> Chars]
    BY <2>1, <2>2
  <2>4. a \in Seq(Chars) /\ Len(a) = Len(s.array)
    BY <2>1, <2>3
  <2> HIDE DEF a
  <2> QED BY <2>1, <2>4
<1>4. w \in Seq(Chars)
  BY <1>1, <1>2
<1>5. Receive(s) = [s EXCEPT !.array = a, !.end = n + 1, !.wire = w, !.up = s.up - 1]
  BY DEF Receive
<1> HIDE DEF a, w, n
<1>6. a \in Seq(Chars) \ {<<>>} /\ n + 1 \in Nat /\ s.up - 1 \in Int
  BY <1>2, <1>3, UnsentFields
<1>7. [s EXCEPT !.array = a, !.end = n + 1, !.wire = w, !.up = s.up - 1] \in Unsent
  <2>1. PICK s1 \in Unsent : s1 = [s EXCEPT !.array = a]
    BY <1>6, ChangedUnsent
  <2>2. PICK s2 \in Unsent : s2 = [s1 EXCEPT !.end = n + 1]
    BY <1>6, ChangedUnsent
  <2>3. PICK s3 \in Unsent : s3 = [s2 EXCEPT !.wire = w]
    BY <1>4, ChangedUnsent
  <2>4. [s3 EXCEPT !.up = s.up - 1] \in Unsent
    BY <1>6, ChangedUnsent
  <2>5. [s EXCEPT !.array = a, !.end = n + 1, !.wire = w, !.up = s.up - 1] = [s3 EXCEPT !.up = s.up - 1]
    BY <2>1, <2>2, <2>3
  <2> QED BY <2>4, <2>5
<1> QED BY <1>5, <1>7

\* What Get returns.
Gotten == [s : Unsent, ok : BOOLEAN, chr : Chars]

\* A get that finds nothing raises eof in the input.
LEMMA EndUnsent ==
  ASSUME NEW s \in Unsent
  PROVE  End(s) \in Gotten
<1>1. Raise(s, "eof") \in Unsent
  <2>1. s.err \cup {"eof"} \in SUBSET Bits
    BY UnsentFields DEF Bits
  <2> QED BY <2>1, ChangedUnsent DEF Raise
<1>2. Eos \in Chars
  BY DEF Chars
<1> QED BY <1>1, <1>2 DEF Gotten, End

\* A character is taken from the array, or from what is behind it.
LEMMA TakenUnsent ==
  ASSUME NEW s \in Unsent
  PROVE  Taken(s) \in Gotten
<1>1. [s EXCEPT !.get = @ + 1] \in Unsent
  <2>1. s.get + 1 \in Nat
    BY UnsentFields
  <2> QED BY <2>1, ChangedUnsent
<1>2. Place(s) \in Chars
  <2>1. s.array \in Seq(Chars) /\ s.behind \in Seq(Chars)
    BY UnsentFields
  <2>2. PICK memory : memory = s.array \o s.behind
    OBVIOUS
  <2>3. memory \in Seq(Chars)
    BY <2>1, <2>2, ConcatProperties
  <2>4. \A i \in DOMAIN memory : memory[i] \in Chars
    BY <2>3, ElementOfSeq
  <2>5. "\n" \in Chars
    BY DEF Chars
  <2> QED BY <2>2, <2>4, <2>5 DEF Place
<1> QED BY <1>1, <1>2 DEF Taken, Got, Gotten

\* A get from a shared array, which may be filled again first.
LEMMA BufferGetUnsent ==
  ASSUME NEW s \in Unsent
  PROVE  BufferGet(s) \in Gotten
<1>1. [s |-> Raise(s, "ioerror"), ok |-> FALSE, chr |-> Err] \in Gotten
  <2>1. Raise(s, "ioerror") \in Unsent
    <3>1. s.err \cup {"ioerror"} \in SUBSET Bits
      BY UnsentFields DEF Bits
    <3> QED BY <3>1, ChangedUnsent DEF Raise
  <2>2. Err \in Chars
    BY DEF Chars
  <2> QED BY <2>1, <2>2 DEF Gotten
<1>2. [End(s) EXCEPT !.s = Late(@)] \in Gotten
  <2>1. ASSUME NEW t \in Unsent PROVE Late(t) \in Unsent
    <3>1. t.late \in Seq(Chars) /\ <<>> \in Seq(Chars)
      BY UnsentFields
    <3>2. PICK t1 \in Unsent : t1 = [t EXCEPT !.wire = t.late]
      BY <3>1, ChangedUnsent
    <3>3. [t1 EXCEPT !.late = <<>>] \in Unsent
      BY <3>1, ChangedUnsent
    <3>4. Late(t) = [t1 EXCEPT !.late = <<>>]
      BY <3>2 DEF Late
    <3> QED BY <3>3, <3>4
  <2>2. ASSUME NEW g \in Gotten, NEW t \in Unsent
        PROVE  [g EXCEPT !.s = t] \in Gotten /\ g.s \in Unsent
    BY DEF Gotten
  <2>3. End(s) \in Gotten
    BY EndUnsent
  <2>4. End(s).s \in Unsent
    BY <2>2, <2>3
  <2> QED BY <2>1, <2>2, <2>3, <2>4
<1>3. Taken(s) \in Gotten
  BY TakenUnsent
<1>4. Taken(Refill(s)) \in Gotten
  <2>1. Receive(s) \in Unsent
    BY ReceiveUnsent
  <2>2. ASSUME NEW t \in Unsent PROVE [t EXCEPT !.get = 1] \in Unsent
    BY ChangedUnsent
  <2> QED BY <2>1, <2>2, TakenUnsent DEF Refill, Fill
<1>5. CASE ~AllTaken(s)
  BY <1>3, <1>5 DEF BufferGet
<1>6. CASE AllTaken(s) /\ ReceiveFails(s)
  BY <1>1, <1>6 DEF BufferGet
<1>7. CASE AllTaken(s) /\ ~ReceiveFails(s) /\ s.wire = <<>>
  BY <1>2, <1>7 DEF BufferGet
<1>8. CASE AllTaken(s) /\ ~ReceiveFails(s) /\ s.wire # <<>>
  BY <1>4, <1>8 DEF BufferGet
<1> QED BY <1>5, <1>6, <1>7, <1>8

\* A get of any session layer.
LEMMA GetUnsent ==
  ASSUME NEW s \in Unsent
  PROVE  Get(s) \in Gotten
<1>1. PacketGet(s) \in Gotten
  <2>1. CASE s.wire = <<>>
    BY <2>1, EndUnsent DEF PacketGet
  <2>2. CASE s.wire # <<>>
    <3>1. s.wire \in Seq(Chars)
      BY UnsentFields
    <3>2. Tail(s.wire) \in Seq(Chars) /\ Head(s.wire) \in Chars
      <4> DEFINE w == s.wire
                 T == Chars
      <4>1. w \in Seq(T) /\ w # <<>>
        BY <3>1, <2>2
      <4> HIDE DEF w, T
      <4>2. Tail(w) \in Seq(T) /\ Head(w) \in T
        BY <4>1
      <4> QED BY <4>2 DEF w, T
    <3>3. [s EXCEPT !.wire = Tail(@)] \in Unsent
      BY <3>2, ChangedUnsent
    <3> QED BY <2>2, <3>2, <3>3 DEF PacketGet, Got, Gotten
  <2> QED BY <2>1, <2>2
<1> QED BY <1>1, BufferGetUnsent DEF Get

\* get_char leaves a reader of the same request.
LEMMA GetReader ==
  ASSUME NEW m, NEW n \in Readers(m)
  PROVE  GetChar(n) \in Readers(m)
<1>1. n.s \in Unsent
  BY DEF Readers
<1>2. Get(n.s) \in Gotten
  BY <1>1, GetUnsent
<1>3. GetChar(n) = [n EXCEPT !.s = Get(n.s).s, !.curr = Get(n.s).chr, !.ok = Get(n.s).ok]
  BY DEF GetChar
<1> QED BY <1>2, <1>3 DEF Readers, Gotten

\* An error leaves one of the statuses.
LEMMA FailingReader ==
  ASSUME NEW m, NEW n \in Readers(m), NEW st \in Status
  PROVE  Failing(n, st) \in Readers(m)
<1>1. n.resp.status \in Status
  BY DEF Readers
<1>2. SetError(n.resp, st) \in [status : Status, ctype : {m.resp.ctype, "unknown"}, fields : {m.resp.fields, {}}]
  BY <1>1 DEF SetError
<1> QED BY <1>2 DEF Failing, Readers

\* What is left to read bounds every loop.
LEMMA LeftIsNat ==
  ASSUME NEW m, NEW n \in Readers(m)
  PROVE  Left(n.s) \in Nat
<1>1. /\ n.s.wire \in Seq(Chars) /\ n.s.get \in Nat /\ n.s.end \in Nat
      /\ n.s.array \in Seq(Chars) /\ n.s.behind \in Seq(Chars)
  BY DEF Readers, Unsent
<1>2. Len(n.s.wire) \in Nat /\ Len(n.s.array) + Len(n.s.behind) \in Nat
  <2>1. \A q \in Seq(Chars) : Len(q) \in Nat
    BY LenProperties
  <2>2. PICK a \in Nat : a = Len(n.s.array)
    BY <1>1, <2>1, Zenon
  <2>3. PICK b \in Nat : b = Len(n.s.behind)
    BY <1>1, <2>1, Zenon
  <2>4. Len(n.s.wire) \in Nat
    BY <1>1, <2>1, Zenon
  <2>5. a + b \in Nat
    OBVIOUS
  <2> QED BY <2>2, <2>3, <2>4, <2>5, Zenon
<1>3. PICK x \in Nat : x = IF n.s.get < n.s.end THEN n.s.end - n.s.get ELSE 0
  BY <1>1
<1>4. PICK y \in Nat : y = IF "ioerror" \in n.s.err THEN Len(n.s.array) + Len(n.s.behind) ELSE 0
  <2>1. PICK z \in Nat : z = Len(n.s.array) + Len(n.s.behind)
    BY <1>2
  <2>2. 0 \in Nat
    OBVIOUS
  <2>3. CASE "ioerror" \in n.s.err
    BY <2>1, <2>3, Zenon
  <2>4. CASE "ioerror" \notin n.s.err
    BY <2>2, <2>4, Zenon
  <2> QED BY <2>3, <2>4, Zenon
<1>5. Left(n.s) = Len(n.s.wire) + x + y
  BY <1>3, <1>4, Zenon DEF Left
<1> QED BY <1>2, <1>5

-----------------------------------------------------------------------------
\* The loops.  A loop over the reader's current character reads on.
LEMMA PassReader ==
  ASSUME NEW m, NEW n \in Readers(m), NEW chars, NEW within
  PROVE  Pass(n, chars, within) \in Readers(m)
<1> DEFINE Round(x) == IF x.ok /\ (x.curr \in chars) = within THEN GetChar(x) ELSE x
           V == Readers(m)
           c == Left(n.s) + 1
           rule(f) == f = [k \in 0..c |-> IF k = 0 THEN n ELSE Round(f[k - 1])]
           after == CHOOSE f : rule(f)
           step == [x \in V |-> Round(x)]
<1>1. c \in Nat
  BY LeftIsNat
<1>2. \A x \in V : Round(x) \in V
  BY GetReader
<1>3. Pass(n, chars, within) = after[c]
  BY DEF Pass, Repeat
<1>4. n \in V
  OBVIOUS
<1> HIDE DEF Round, V, c
<1>5. rule(after)
  <2>1. step \in [V -> V]
    BY <1>2
  <2>2. PICK f : Loops(f, c, V, n, step)
    <3> HIDE DEF step
    <3> QED BY <1>1, <1>4, <2>1, Rounds
  <2>3. f \in [0..c -> V] /\ f[0] = n
    BY <2>2 DEF Loops
  <2>4. ASSUME NEW k \in 1..c PROVE f[k] = Round(f[k - 1])
    <3>1. f[k - 1] \in V
      BY <1>1, <2>3
    <3>2. f[k] = step[f[k - 1]]
      BY <2>2 DEF Loops
    <3> QED BY <3>1, <3>2
  <2>5. rule(f)
    <3> HIDE DEF step
    <3> QED BY <1>1, <2>3, <2>4
  <2> HIDE DEF rule
  <2> QED BY <2>5
<1>6. after[c] \in V
  <2>1. after[0] \in V /\ \A k \in 1..c : after[k] = Round(after[k - 1])
    <3> HIDE DEF after
    <3> QED BY <1>1, <1>5, <1>4
  <2> HIDE DEF after
  <2>2. ASSUME NEW k \in 1..c, after[k - 1] \in V PROVE after[k] \in V
    BY <1>2, <2>1, <2>2
  <2> QED BY <1>1, <2>1, <2>2, Kept
<1> QED BY <1>3, <1>6 DEF V

\* What a literal has matched.
Matches(m) == [r : Readers(m), done : Nat, fits : BOOLEAN]

\* A literal is compared character by character.
LEMMA MatchedReader ==
  ASSUME NEW m, NEW n \in Readers(m), NEW lit, NEW anycase
  PROVE  Matched(n, lit, anycase) \in Matches(m)
<1> DEFINE Compare(x, g) == IF g.ok /\ Same(g.curr, lit[x.done + 1], anycase)
                            THEN [r |-> g, done |-> x.done + 1, fits |-> TRUE]
                            ELSE [r |-> g, done |-> x.done, fits |-> FALSE]
           Round(x) == IF x.fits /\ x.done < Len(lit) THEN Compare(x, GetChar(x.r)) ELSE x
           V == Matches(m)
           c == Left(n.s) + 1
           start == [r |-> n, done |-> 0, fits |-> TRUE]
           rule(f) == f = [k \in 0..c |-> IF k = 0 THEN start ELSE Round(f[k - 1])]
           after == CHOOSE f : rule(f)
           step == [x \in V |-> Round(x)]
<1>1. c \in Nat
  BY LeftIsNat
<1>2. \A x \in V : Round(x) \in V
  <2> SUFFICES ASSUME NEW x \in V, x.fits /\ x.done < Len(lit) PROVE Compare(x, GetChar(x.r)) \in V
    OBVIOUS
  <2>1. x.r \in Readers(m) /\ x.done \in Nat
    BY DEF Matches
  <2>2. PICK g \in Readers(m) : g = GetChar(x.r)
    BY <2>1, GetReader
  <2>3. Compare(x, g) \in V
    BY <2>1 DEF Matches
  <2> QED BY <2>2, <2>3
<1>3. Matched(n, lit, anycase) = after[c]
  BY DEF Matched, Repeat
<1>4. start \in V
  BY DEF Matches
<1> HIDE DEF Round, V, c, start
<1>5. rule(after)
  <2>1. step \in [V -> V]
    BY <1>2
  <2>2. PICK f : Loops(f, c, V, start, step)
    <3> HIDE DEF step
    <3> QED BY <1>1, <1>4, <2>1, Rounds
  <2>3. f \in [0..c -> V] /\ f[0] = start
    BY <2>2 DEF Loops
  <2>4. ASSUME NEW k \in 1..c PROVE f[k] = Round(f[k - 1])
    <3>1. f[k - 1] \in V
      BY <1>1, <2>3
    <3>2. f[k] = step[f[k - 1]]
      BY <2>2 DEF Loops
    <3> QED BY <3>1, <3>2
  <2>5. rule(f)
    <3> HIDE DEF step
    <3> QED BY <1>1, <2>3, <2>4
  <2> HIDE DEF rule
  <2> QED BY <2>5
<1>6. after[c] \in V
  <2>1. after[0] \in V /\ \A k \in 1..c : after[k] = Round(after[k - 1])
    <3> HIDE DEF after
    <3> QED BY <1>1, <1>5, <1>4
  <2> HIDE DEF after
  <2>2. ASSUME NEW k \in 1..c, after[k - 1] \in V PROVE after[k] \in V
    BY <1>2, <2>1, <2>2
  <2> QED BY <1>1, <2>1, <2>2, Kept
<1> QED BY <1>3, <1>6 DEF V

-----------------------------------------------------------------------------
\* Words.  What recognising one returns.
Found(m) == [r : Readers(m), hit : Nat]

\* An expectation that is met, or not.
LEMMA MetFound ==
  ASSUME NEW m, NEW n \in Readers(m), NEW k \in Nat
  PROVE  Met(n, k) \in Found(m)
BY DEF Met, Found

\* An expectation that depends on what has been read.
LEMMA MetIfFound ==
  ASSUME NEW m, NEW x \in Found(m), NEW k \in Nat
  PROVE  MetIf(x, k) \in Found(m)
BY DEF MetIf, Found

\* What an expectation returns has read on.
LEMMA FoundReader ==
  ASSUME NEW m, NEW x \in Found(m)
  PROVE  x.r \in Readers(m)
BY DEF Found

\* expect_crlf reads the end of a line.
LEMMA ExpectCrlfFound ==
  ASSUME NEW m, NEW n \in Readers(m)
  PROVE  ExpectCrlf(n) \in Found(m)
<1>1. \A g \in Readers(m) : LF(g) \in Found(m)
  BY MetFound DEF LF
<1> QED BY <1>1, GetReader, MetFound DEF ExpectCrlf

\* skip_ws, skip_type and skip_line read on.
LEMMA SkipReader ==
  ASSUME NEW m, NEW n \in Readers(m)
  PROVE  /\ SkipSpaces(n) \in Readers(m) /\ SkipType(n) \in Readers(m)
         /\ SkipLine(n) \in Found(m) /\ ConsumeCrlf(n) \in Readers(m)
<1>1. GetChar(n) \in Readers(m)
  BY GetReader
<1>2. \A chars, within : Pass(GetChar(n), chars, within) \in Readers(m)
  BY <1>1, PassReader
<1>3. SkipLine(n) \in Found(m)
  BY <1>2, ExpectCrlfFound DEF SkipLine
<1>4. ConsumeCrlf(n) \in Readers(m)
  BY <1>1, ExpectCrlfFound, FoundReader DEF ConsumeCrlf
<1> QED BY <1>2, <1>3, <1>4 DEF SkipSpaces, SkipType

\* A literal with its delimiter.
LEMMA DelimitedFound ==
  ASSUME NEW m, NEW n \in Readers(m), NEW dlm
  PROVE  Delimited(n, dlm) \in Found(m)
BY MetFound, ExpectCrlfFound DEF Delimited

\* A literal, and the choice between two or three of them.
LEMMA LiteralFound ==
  ASSUME NEW m, NEW n \in Readers(m), NEW lit, NEW dlm
  PROVE  Literal1(n, lit, dlm) \in Found(m) /\ Literal1_ic(n, lit, dlm) \in Found(m)
<1>1. ASSUME NEW x \in Matches(m) PROVE Whole(x, lit, dlm) \in Found(m)
  <2>1. x.r \in Readers(m)
    BY DEF Matches
  <2> QED BY <2>1, GetReader, DelimitedFound, MetFound DEF Whole
<1> QED BY <1>1, MatchedReader DEF Literal1, Literal1_ic

\* The literals of two fields that begin alike.
LEMMA LiteralsFound ==
  ASSUME NEW m, NEW n \in Readers(m), NEW lit1, NEW lit2, NEW dlm
  PROVE  Literals(n, lit1, lit2, dlm) \in Found(m)
<1>1. ASSUME NEW g \in Readers(m), NEW l1, NEW l2 PROVE Decide(g, l1, l2, dlm) \in Found(m)
  <2>1. \A l : Literal1(g, l, dlm) \in Found(m)
    BY LiteralFound
  <2> QED BY <2>1, MetIfFound, MetFound DEF Decide
<1>2. PICK x \in Matches(m) : x = Matched(n, LongestCommonPrefix({lit1, lit2}), FALSE)
  BY MatchedReader
<1>3. GetChar(x.r) \in Readers(m)
  BY GetReader DEF Matches
<1>4. Decide(GetChar(x.r), Beyond(x.done, lit1), Beyond(x.done, lit2), dlm) \in Found(m)
  BY <1>1, <1>3
<1> QED BY <1>2, <1>4 DEF Literals

\* The literals of three fields that begin alike.
LEMMA Literal3Found ==
  ASSUME NEW m, NEW n \in Readers(m), NEW lit1, NEW lit2, NEW lit3, NEW dlm
  PROVE  Literal3(n, lit1, lit2, lit3, dlm) \in Found(m)
<1>1. ASSUME NEW g \in Readers(m), NEW l1, NEW l2, NEW l3
      PROVE  Decide3(g, l1, l2, l3, dlm) \in Found(m)
  <2>1. PICK x \in Found(m) : x = Delimited(g, dlm)
    BY DelimitedFound
  <2>2. x.r \in Readers(m) /\ MetIf(x, 3) \in Found(m)
    BY FoundReader, MetIfFound
  <2>3. \A h \in Readers(m) : Literals(h, Rest(l1), Rest(l2), dlm) \in Found(m)
    BY LiteralsFound
  <2>4. Met(g, 0) \in Found(m) /\ MetIf(Literal1(g, Tail(l3), dlm), 3) \in Found(m)
    BY LiteralFound, MetIfFound, MetFound
  <2>5. CASE ~g.ok
    BY <2>4, <2>5 DEF Decide3
  <2>6. CASE g.ok /\ l3 = <<>>
    <3>1. Decide3(g, l1, l2, l3, dlm)
          = IF x.hit = 1 THEN MetIf(x, 3) ELSE Literals(x.r, Rest(l1), Rest(l2), dlm)
      BY <2>1, <2>6 DEF Decide3
    <3> QED BY <3>1, <2>2, <2>3
  <2>7. CASE g.ok /\ l3 # <<>>
    BY <2>3, <2>4, <2>7 DEF Decide3
  <2> QED BY <2>5, <2>6, <2>7
<1>2. PICK x \in Matches(m) : x = Matched(n, LongestCommonPrefix({lit1, lit2, lit3}), FALSE)
  BY MatchedReader
<1>3. GetChar(x.r) \in Readers(m)
  BY GetReader DEF Matches
<1>4. Decide3(GetChar(x.r), Beyond(x.done, lit1), Beyond(x.done, lit2), Beyond(x.done, lit3), dlm) \in Found(m)
  BY <1>1, <1>3
<1> QED BY <1>2, <1>4 DEF Literal3

\* read_method and read_version
LEMMA MethodReader ==
  ASSUME NEW m, NEW n \in Readers(m)
  PROVE  ReadMethodWord(n).r \in Readers(m)
<1>1. ASSUME NEW g \in Readers(m) PROVE MethodFrom(g).r \in Readers(m)
  <2> DEFINE word == CASE g.ok /\ g.curr = "P" -> Literals(g, After(1, "POST"), After(1, "PUT"), Blank)
                       [] g.ok /\ g.curr = "G" -> Literal1(g, After(1, "GET"), Blank)
                       [] g.ok /\ g.curr = "D" -> Literal1(g, After(1, "DELETE"), Blank)
                       [] OTHER                -> Met(g, 0)
  <2>1. Literals(g, After(1, "POST"), After(1, "PUT"), Blank) \in Found(m)
    BY LiteralsFound
  <2>2. Literal1(g, After(1, "GET"), Blank) \in Found(m) /\ Literal1(g, After(1, "DELETE"), Blank) \in Found(m)
    BY LiteralFound
  <2>3. word \in Found(m)
    BY <2>1, <2>2, MetFound
  <2>4. MethodFrom(g).r = word.r
    BY DEF MethodFrom
  <2> HIDE DEF word
  <2> QED BY <2>3, <2>4, FoundReader
<1> QED BY <1>1, GetReader DEF ReadMethodWord

\* read_version reads the version word.
LEMMA VersionReader ==
  ASSUME NEW m, NEW n \in Readers(m)
  PROVE  ReadVersionWord(n).r \in Readers(m)
<1>1. ASSUME NEW g \in Readers(m) PROVE VersionFrom(g) \in Found(m)
  <2>1. Literal1(g, After(1, HTTP.v01), Line) \in Found(m)
    BY LiteralFound
  <2>2. Literals(g, After(1, HTTP.v10), After(1, HTTP.v11), Line) \in Found(m)
    BY LiteralsFound
  <2> QED BY <2>1, <2>2, MetIfFound, MetFound DEF VersionFrom
<1>2. PICK http \in Found(m) : http = Literal1(n, Letters(HTTP.name), Slash)
  BY LiteralFound
<1>3. http.r \in Readers(m) /\ VersionFrom(GetChar(http.r)) \in Found(m)
  BY <1>1, GetReader, FoundReader
<1>4. ReadVersionWord(n).r = (IF http.hit = 0 THEN http ELSE VersionFrom(GetChar(http.r))).r
  BY <1>2 DEF ReadVersionWord
<1> QED BY <1>3, <1>4, FoundReader
\* A media type
LEMMA TypedReader ==
  ASSUME NEW m, NEW x \in Found(m), NEW types
  PROVE  Typed(x, types).r \in Readers(m)
BY FoundReader DEF Typed

\* A subtype of text is read.
LEMMA TextTypeReader ==
  ASSUME NEW m, NEW n \in Readers(m)
  PROVE  ReadTextType(n).r \in Readers(m)
<1>1. \A types : /\ Typed(Literals(n, After(1, Media.css), After(1, Media.csv), CSLF), types).r \in Readers(m)
                 /\ Typed(Literals(n, After(1, Media.xml), After(1, Media.xsl), CSLF), types).r \in Readers(m)
  BY LiteralsFound, TypedReader
<1>2. \A types : /\ Typed(Literal1(n, After(1, Media.html), CSLF), types).r \in Readers(m)
                 /\ Typed(Literal1(n, After(1, Media.plain), CSLF), types).r \in Readers(m)
  BY LiteralFound, TypedReader
<1>3. Untyped(n).r \in Readers(m) /\ [r |-> n, type |-> "anytext"].r \in Readers(m)
  BY DEF Untyped
<1> QED BY <1>1, <1>2, <1>3 DEF ReadTextType

\* A subtype of application is read.
LEMMA AppTypeReader ==
  ASSUME NEW m, NEW n \in Readers(m)
  PROVE  ReadAppType(n).r \in Readers(m)
<1>1. ASSUME NEW g \in Readers(m) PROVE ReadAppjType(g).r \in Readers(m)
  <2>1. \A types : Typed(Literal1(g, After(2, Media.javascript), CSLF), types).r \in Readers(m)
    BY LiteralFound, TypedReader
  <2>2. \A types : Typed(Literal3(g, After(2, Media.jsonrequest), After(2, Media.json_rpc), After(2, Media.json), CSLF),
                         types).r \in Readers(m)
    BY Literal3Found, TypedReader
  <2>3. Untyped(g).r \in Readers(m)
    BY DEF Untyped
  <2> QED BY <2>1, <2>2, <2>3 DEF ReadAppjType
<1>2. \A types : Typed(Literal1(n, After(1, Media.octet_stream), CSLF), types).r \in Readers(m)
  BY LiteralFound, TypedReader
<1>3. ReadAppjType(GetChar(n)).r \in Readers(m)
  BY <1>1, GetReader
<1>4. Untyped(n).r \in Readers(m) /\ [r |-> n, type |-> "anyapp"].r \in Readers(m)
  BY DEF Untyped
<1> QED BY <1>2, <1>3, <1>4 DEF ReadAppType

\* read_media_type reads a media type, or only its beginning.
LEMMA MediaTypeReader ==
  ASSUME NEW m, NEW n \in Readers(m)
  PROVE  ReadMediaType(n).r \in Readers(m)
<1>1. PICK g \in Readers(m) : g = SkipSpaces(n)
  BY SkipReader
<1>2. \A h \in Readers(m) : Untyped(SkipType(h)).r \in Readers(m)
  BY SkipReader DEF Untyped
<1>3. PICK text \in Found(m) : text = Literal1(g, After(1, Media.text), Slash)
  BY LiteralFound
<1>4. PICK app \in Found(m) : app = Literal1(g, After(1, Media.application), Slash)
  BY LiteralFound
<1>5. /\ ReadTextType(GetChar(text.r)).r \in Readers(m) /\ Untyped(SkipType(text.r)).r \in Readers(m)
      /\ ReadAppType(GetChar(app.r)).r \in Readers(m) /\ Untyped(SkipType(app.r)).r \in Readers(m)
  BY <1>2, FoundReader, GetReader, TextTypeReader, AppTypeReader
<1>6. [r |-> SkipType(g), type |-> "any"].r \in Readers(m)
  BY SkipReader
<1>7. MediaTypeFrom(g).r \in Readers(m)
  <2>1. CASE g.curr = Media.any
    <3>1. Media.any # "t" /\ Media.any # "a"
      BY DEF Media
    <3> QED BY <2>1, <3>1, <1>6 DEF MediaTypeFrom
  <2>2. CASE g.curr # Media.any /\ g.curr = "t" /\ g.curr # "a"
    BY <2>2, <1>3, <1>5 DEF MediaTypeFrom
  <2>3. CASE g.curr # Media.any /\ g.curr # "t" /\ g.curr = "a"
    BY <2>3, <1>4, <1>5 DEF MediaTypeFrom
  <2>4. CASE g.curr # Media.any /\ g.curr # "t" /\ g.curr # "a"
    BY <2>4, <1>2 DEF MediaTypeFrom
  <2> QED BY <2>1, <2>2, <2>3, <2>4
<1> QED BY <1>1, <1>7 DEF ReadMediaType

-----------------------------------------------------------------------------
\* The target.  The characters it decodes to, and what reading one returns.
Codes == Chars \cup {Nul, "%"} \cup {Character(k) : k \in Int}

DecodedChars(m) == [r : Readers(m), chr : Codes, next : {"section", "header", "version"}]

\* A hexadecimal digit has a value.
LEMMA HexValueIsInt ==
  ASSUME NEW c
  PROVE  HexValue(c) \in Int
<1>1. CASE \E i \in 1..16 : c \in {HexDigits[i], LowDigits[i]}
  <2>1. PICK j \in 1..16 : j = CHOOSE i \in 1..16 : c \in {HexDigits[i], LowDigits[i]}
    BY <1>1
  <2>2. HexValue(c) = j - 1
    BY <1>1, <2>1 DEF HexValue
  <2> QED BY <2>2
<1>2. CASE ~\E i \in 1..16 : c \in {HexDigits[i], LowDigits[i]}
  BY <1>2 DEF HexValue
<1> QED BY <1>1, <1>2

\* A character of the target, which may be escaped.
LEMMA TargetCharReader ==
  ASSUME NEW m, NEW n \in Readers(m)
  PROVE  ReadTargetChar(n) \in DecodedChars(m)
<1>1. ASSUME NEW g \in Readers(m)
      PROVE  /\ \A c \in Codes : Decoded(g, c, "section") \in DecodedChars(m)
             /\ Decoded(g, Nul, "header") \in DecodedChars(m) /\ Decoded(g, Nul, "version") \in DecodedChars(m)
  BY DEF Decoded, DecodedChars, Codes
<1>2. ASSUME NEW g \in Readers(m) PROVE Undecodable(g) \in DecodedChars(m)
  <2>1. Failing(g, Bad_Request) \in Readers(m)
    BY FailingReader DEF Bad_Request, Status
  <2> QED BY <2>1, <1>1 DEF Undecodable, Codes
<1>3. ASSUME NEW hi \in Readers(m) PROVE HighDigit(hi) \in DecodedChars(m)
  <2>1. PICK lo \in Readers(m) : lo = GetChar(hi)
    BY GetReader
  <2>2. Character(16 * HexValue(hi.curr) + HexValue(lo.curr)) \in Codes
    <3>1. 16 * HexValue(hi.curr) + HexValue(lo.curr) \in Int
      BY HexValueIsInt
    <3> QED BY <3>1 DEF Codes
  <2>3. LowDigit(hi.curr, lo) \in DecodedChars(m)
    BY <2>2, <1>1, <1>2 DEF LowDigit
  <2>4. "%" \in Codes
    BY DEF Codes
  <2> QED BY <2>1, <2>3, <2>4, <1>1, <1>2 DEF HighDigit
<1>4. PICK end \in Found(m) : end = ExpectCrlf(n)
  BY ExpectCrlfFound
<1>5. Decoded(end.r, Nul, "header") \in DecodedChars(m) /\ Undecodable(end.r) \in DecodedChars(m)
  BY <1>1, <1>2, FoundReader
<1>6. HighDigit(GetChar(n)) \in DecodedChars(m)
  BY <1>3, GetReader
<1>7. Decoded(n, n.curr, "section") \in DecodedChars(m)
  <2>1. n.curr \in Codes
    BY DEF Readers, Codes
  <2> QED BY <2>1, <1>1
<1> QED BY <1>1, <1>4, <1>5, <1>6, <1>7 DEF ReadTargetChar

\* A section of the target.
Sections(m) ==
  [r : Readers(m), section : Seq(Codes), next : {"section", "header", "version"}, long : BOOLEAN, last : BOOLEAN]

\* A section of the target: what ends it is one of the states that follow.
LEMMA SectionReader ==
  ASSUME NEW m, NEW n \in Readers(m), NEW size \in Nat
  PROVE  ReadSectionWord(n, size) \in Sections(m)
<1> DEFINE Extend(x, c) == IF c.chr \in {"/", Nul}
                           THEN [x EXCEPT !.r = c.r, !.next = c.next, !.long = FALSE, !.last = c.chr = Nul]
                           ELSE [x EXCEPT !.r = c.r, !.section = Append(@, c.chr)]
           Round(x) == IF x.long THEN Extend(x, ReadTargetChar(GetChar(x.r))) ELSE x
           V == Sections(m)
           c == size
           start == [r |-> n, section |-> <<>>, next |-> "section", long |-> TRUE, last |-> FALSE]
           rule(f) == f = [k \in 0..c |-> IF k = 0 THEN start ELSE Round(f[k - 1])]
           after == CHOOSE f : rule(f)
           step == [x \in V |-> Round(x)]
<1>1. c \in Nat
  OBVIOUS
<1>2. \A x \in V : Round(x) \in V
  <2> SUFFICES ASSUME NEW x \in V, x.long PROVE Extend(x, ReadTargetChar(GetChar(x.r))) \in V
    OBVIOUS
  <2>1. x.r \in Readers(m) /\ x.section \in Seq(Codes)
    BY DEF Sections
  <2>2. PICK d \in DecodedChars(m) : d = ReadTargetChar(GetChar(x.r))
    BY <2>1, GetReader, TargetCharReader
  <2>3. d.r \in Readers(m) /\ d.chr \in Codes /\ d.next \in {"section", "header", "version"}
    BY DEF DecodedChars
  <2>4. Append(x.section, d.chr) \in Seq(Codes)
    BY <2>1, <2>3
  <2>5. Extend(x, d) \in V
    BY <2>3, <2>4 DEF Sections
  <2> QED BY <2>2, <2>5
<1>3. ReadSectionWord(n, size) = after[c]
  BY DEF ReadSectionWord, Repeat
<1>4. start \in V
  BY DEF Sections
<1> HIDE DEF Round, V, c, start
<1>5. rule(after)
  <2>1. step \in [V -> V]
    BY <1>2
  <2>2. PICK f : Loops(f, c, V, start, step)
    <3> HIDE DEF step
    <3> QED BY <1>1, <1>4, <2>1, Rounds
  <2>3. f \in [0..c -> V] /\ f[0] = start
    BY <2>2 DEF Loops
  <2>4. ASSUME NEW k \in 1..c PROVE f[k] = Round(f[k - 1])
    <3>1. f[k - 1] \in V
      BY <1>1, <2>3
    <3>2. f[k] = step[f[k - 1]]
      BY <2>2 DEF Loops
    <3> QED BY <3>1, <3>2
  <2>5. rule(f)
    <3> HIDE DEF step
    <3> QED BY <1>1, <2>3, <2>4
  <2> HIDE DEF rule
  <2> QED BY <2>5
<1>6. after[c] \in V
  <2>1. after[0] \in V /\ \A k \in 1..c : after[k] = Round(after[k - 1])
    <3> HIDE DEF after
    <3> QED BY <1>1, <1>5, <1>4
  <2> HIDE DEF after
  <2>2. ASSUME NEW k \in 1..c, after[k - 1] \in V PROVE after[k] \in V
    BY <1>2, <2>1, <2>2
  <2> QED BY <1>1, <2>1, <2>2, Kept
<1> QED BY <1>3, <1>6 DEF V

-----------------------------------------------------------------------------
\* The length of the body, as read_length returns it.
Numbers(m) == [r : Readers(m), ok : BOOLEAN, val : Int]

\* The digits of a length are read one by one.
LEMMA DigitsReader ==
  ASSUME NEW m, NEW n \in Readers(m)
  PROVE  Digits(n) \in [r : Readers(m), val : Int]
<1> DEFINE Round(x) == IF x.r.ok /\ IsDigit(x.r.curr)
                       THEN [r |-> GetChar(x.r), val |-> 10 * x.val + HexValue(x.r.curr)] ELSE x
           V == [r : Readers(m), val : Int]
           c == Left(n.s) + 1
           start == [r |-> n, val |-> 0]
           rule(f) == f = [k \in 0..c |-> IF k = 0 THEN start ELSE Round(f[k - 1])]
           after == CHOOSE f : rule(f)
           step == [x \in V |-> Round(x)]
<1>1. c \in Nat
  BY LeftIsNat
<1>2. \A x \in V : Round(x) \in V
  <2> SUFFICES ASSUME NEW x \in V, x.r.ok /\ IsDigit(x.r.curr)
               PROVE  [r |-> GetChar(x.r), val |-> 10 * x.val + HexValue(x.r.curr)] \in V
    OBVIOUS
  <2>1. GetChar(x.r) \in Readers(m)
    BY GetReader
  <2>2. 10 * x.val + HexValue(x.r.curr) \in Int
    BY HexValueIsInt
  <2> QED BY <2>1, <2>2
<1>3. Digits(n) = after[c]
  BY DEF Digits, Repeat
<1>4. start \in V
  OBVIOUS
<1> HIDE DEF Round, V, c, start
<1>5. rule(after)
  <2>1. step \in [V -> V]
    BY <1>2
  <2>2. PICK f : Loops(f, c, V, start, step)
    <3> HIDE DEF step
    <3> QED BY <1>1, <1>4, <2>1, Rounds
  <2>3. f \in [0..c -> V] /\ f[0] = start
    BY <2>2 DEF Loops
  <2>4. ASSUME NEW k \in 1..c PROVE f[k] = Round(f[k - 1])
    <3>1. f[k - 1] \in V
      BY <1>1, <2>3
    <3>2. f[k] = step[f[k - 1]]
      BY <2>2 DEF Loops
    <3> QED BY <3>1, <3>2
  <2>5. rule(f)
    <3> HIDE DEF step
    <3> QED BY <1>1, <2>3, <2>4
  <2> HIDE DEF rule
  <2> QED BY <2>5
<1>6. after[c] \in V
  <2>1. after[0] \in V /\ \A k \in 1..c : after[k] = Round(after[k - 1])
    <3> HIDE DEF after
    <3> QED BY <1>1, <1>5, <1>4
  <2> HIDE DEF after
  <2>2. ASSUME NEW k \in 1..c, after[k - 1] \in V PROVE after[k] \in V
    BY <1>2, <2>1, <2>2
  <2> QED BY <1>1, <2>1, <2>2, Kept
<1> QED BY <1>3, <1>6 DEF V

\* A Content-Length is read.
LEMMA LengthReader ==
  ASSUME NEW m, NEW n \in Readers(m)
  PROVE  ReadLength(n).r \in Readers(m)
<1>1. ASSUME NEW g \in Readers(m), NEW v \in Int, NEW b \in BOOLEAN
      PROVE  Number(g, b, v) \in Numbers(m) /\ BadNumber(g, v) \in Numbers(m)
  <2>1. Raise(g.s, "bad") \in Unsent
    <3>1. g.s \in Unsent
      BY DEF Readers
    <3>2. g.s.err \cup {"bad"} \in SUBSET Bits
      BY <3>1, UnsentFields DEF Bits
    <3> QED BY <3>1, <3>2, ChangedUnsent DEF Raise
  <2>2. [g EXCEPT !.s = Raise(@, "bad")] \in Readers(m)
    BY <2>1 DEF Readers
  <2> QED BY <2>2 DEF Number, BadNumber, Numbers
<1>2. PICK g \in Readers(m) : g = Pass(FirstOfLexer(n), {" ", "\t", "\r", "\n"}, TRUE)
  <2>1. GetChar(n) \in Readers(m) /\ [n EXCEPT !.ok = FALSE] \in Readers(m)
    BY GetReader DEF Readers
  <2> QED BY <2>1, PassReader DEF FirstOfLexer
<1>3. PICK d \in [r : Readers(m), val : Int] : d = Digits(g)
  BY DigitsReader
<1>4. NumberFrom(d) \in Numbers(m)
  <2>1. TRUE \in BOOLEAN /\ (d.r.curr = Eos) \in BOOLEAN
    OBVIOUS
  <2>2. /\ Number(d.r, TRUE, d.val) \in Numbers(m) /\ Number(d.r, d.r.curr = Eos, d.val) \in Numbers(m)
        /\ BadNumber(d.r, d.val) \in Numbers(m)
    BY <1>1, <2>1
  <2>3. CASE d.r.ok
    BY <2>2, <2>3 DEF NumberFrom
  <2>4. CASE ~d.r.ok
    BY <2>2, <2>4 DEF NumberFrom
  <2> QED BY <2>3, <2>4
<1>5. BadNumber(g, 0) \in Numbers(m)
  <2>1. 0 \in Int
    OBVIOUS
  <2> QED BY <1>1, <2>1
<1>6. PICK x \in Numbers(m) :
        x = CASE ~g.ok -> Number(g, FALSE, 0)
              [] g.ok /\ IsDigit(g.curr)  -> NumberFrom(d)
              [] g.ok /\ ~IsDigit(g.curr) -> BadNumber(g, 0)
  <2>1. Number(g, FALSE, 0) \in Numbers(m)
    BY DEF Number, Numbers
  <2>2. CASE ~g.ok
    BY <2>1, <2>2
  <2>3. CASE g.ok /\ IsDigit(g.curr)
    BY <1>4, <2>3
  <2>4. CASE g.ok /\ ~IsDigit(g.curr)
    BY <1>5, <2>4
  <2> QED BY <2>2, <2>3, <2>4
<1>7. ReadLength(n) = [x EXCEPT !.r.curr = n.curr, !.r.ok = n.ok]
  BY <1>2, <1>3, <1>6 DEF ReadLength
<1>8. n.curr \in Chars /\ n.ok \in BOOLEAN
  BY DEF Readers
<1>9. [x EXCEPT !.r.curr = n.curr, !.r.ok = n.ok].r = [x.r EXCEPT !.curr = n.curr, !.ok = n.ok]
  BY DEF Numbers
<1>10. x.r \in Readers(m)
  BY DEF Numbers
<1>11. [x.r EXCEPT !.curr = n.curr, !.ok = n.ok] \in Readers(m)
  BY <1>8, <1>10 DEF Readers
<1> QED BY <1>7, <1>9, <1>11

\* A reader's request and etag may be anything.
LEMMA ChangedReader ==
  ASSUME NEW m, NEW n \in Readers(m)
  PROVE  IsReader(n) /\ (\A e : IsReader([n EXCEPT !.etag = e])) /\ (\A q : IsReader([n EXCEPT !.requ = q]))
<1>1. n.resp.status \in Status /\ n.resp = [status |-> n.resp.status, ctype |-> n.resp.ctype, fields |-> n.resp.fields]
  BY DEF Readers
<1>2. n.resp \in [status : Status, ctype : {n.resp.ctype, "unknown"}, fields : {n.resp.fields, {}}]
  BY <1>1
<1>3. /\ n.s \in Unsent /\ n.curr \in Chars /\ n.ok \in BOOLEAN
      /\ n = [s |-> n.s, curr |-> n.curr, ok |-> n.ok, etag |-> n.etag, requ |-> n.requ, resp |-> n.resp]
  BY DEF Readers
<1>4. IsReader(n)
  BY <1>2, <1>3 DEF IsReader, Readers
<1>5. ASSUME NEW e PROVE IsReader([n EXCEPT !.etag = e])
  <2>1. [n EXCEPT !.etag = e] = [s |-> n.s, curr |-> n.curr, ok |-> n.ok, etag |-> e, requ |-> n.requ, resp |-> n.resp]
    BY <1>3
  <2> QED BY <1>2, <1>3, <2>1 DEF IsReader, Readers
<1>6. ASSUME NEW q PROVE IsReader([n EXCEPT !.requ = q])
  <2>1. [n EXCEPT !.requ = q] = [s |-> n.s, curr |-> n.curr, ok |-> n.ok, etag |-> n.etag, requ |-> q, resp |-> n.resp]
    BY <1>3
  <2> QED BY <1>2, <1>3, <2>1 DEF IsReader, Readers
<1> QED BY <1>4, <1>5, <1>6

\* The loop of read_etag, and what follows it.
EtagReaders(m) == [r : Readers(m), etag : Seq(Codes), ok : BOOLEAN]

\* The characters of an entity tag are read one by one.
LEMMA EtagCharsReader ==
  ASSUME NEW m, NEW n \in Readers(m), NEW etag \in Seq(Codes), NEW size \in Nat
  PROVE  EtagChars(n, etag, size) \in EtagReaders(m)
<1> DEFINE More(x, next) == [r |-> next, etag |-> Append(x.etag, x.r.curr), ok |-> next.ok]
           Round(x) == IF x.ok /\ x.r.curr \notin {" ", "\r", "\n"} /\ Len(x.etag) + 1 < size
                       THEN More(x, GetChar(x.r)) ELSE x
           V == EtagReaders(m)
           c == size
           start == [r |-> n, etag |-> etag, ok |-> TRUE]
           rule(f) == f = [k \in 0..c |-> IF k = 0 THEN start ELSE Round(f[k - 1])]
           after == CHOOSE f : rule(f)
           step == [x \in V |-> Round(x)]
<1>1. c \in Nat
  OBVIOUS
<1>2. \A x \in V : Round(x) \in V
  <2> SUFFICES ASSUME NEW x \in V PROVE More(x, GetChar(x.r)) \in V
    OBVIOUS
  <2>1. x.r \in Readers(m) /\ x.etag \in Seq(Codes)
    BY DEF EtagReaders
  <2>2. PICK g \in Readers(m) : g = GetChar(x.r)
    BY <2>1, GetReader
  <2>3. x.r.curr \in Codes /\ g.ok \in BOOLEAN
    BY <2>1 DEF Readers, Codes
  <2>4. Append(x.etag, x.r.curr) \in Seq(Codes)
    BY <2>1, <2>3
  <2>5. More(x, g) \in V
    BY <2>3, <2>4 DEF EtagReaders
  <2> QED BY <2>2, <2>5
<1>3. EtagChars(n, etag, size) = after[c]
  BY DEF EtagChars, Repeat
<1>4. start \in V
  BY DEF EtagReaders
<1> HIDE DEF Round, V, c, start
<1>5. rule(after)
  <2>1. step \in [V -> V]
    BY <1>2
  <2>2. PICK f : Loops(f, c, V, start, step)
    <3> HIDE DEF step
    <3> QED BY <1>1, <1>4, <2>1, Rounds
  <2>3. f \in [0..c -> V] /\ f[0] = start
    BY <2>2 DEF Loops
  <2>4. ASSUME NEW k \in 1..c PROVE f[k] = Round(f[k - 1])
    <3>1. f[k - 1] \in V
      BY <1>1, <2>3
    <3>2. f[k] = step[f[k - 1]]
      BY <2>2 DEF Loops
    <3> QED BY <3>1, <3>2
  <2>5. rule(f)
    <3> HIDE DEF step
    <3> QED BY <1>1, <2>3, <2>4
  <2> HIDE DEF rule
  <2> QED BY <2>5
<1>6. after[c] \in V
  <2>1. after[0] \in V /\ \A k \in 1..c : after[k] = Round(after[k - 1])
    <3> HIDE DEF after
    <3> QED BY <1>1, <1>5, <1>4
  <2> HIDE DEF after
  <2>2. ASSUME NEW k \in 1..c, after[k - 1] \in V PROVE after[k] \in V
    BY <1>2, <2>1, <2>2
  <2> QED BY <1>1, <2>1, <2>2, Kept
<1> QED BY <1>3, <1>6 DEF V

\* An entity tag is read.
LEMMA EtagReader ==
  ASSUME NEW m, NEW n \in Readers(m), NEW size \in Nat
  PROVE  IsReader(ReadEtag(n, size).r)
<1>1. ASSUME NEW x \in EtagReaders(m) PROVE IsReader(EtagFrom(x).r)
  <2>1. x.r \in Readers(m)
    BY DEF EtagReaders
  <2>2. PICK line \in Found(m) : line = SkipLine(x.r)
    BY <2>1, SkipReader
  <2>3. PICK end \in Found(m) : end = ExpectCrlf(x.r)
    BY <2>1, ExpectCrlfFound
  <2>4. line.r \in Readers(m) /\ end.r \in Readers(m)
    BY FoundReader
  <2>5. Failing(end.r, Bad_Request) \in Readers(m) /\ Failing(x.r, Request_Entity_Too_Large) \in Readers(m)
    BY <2>1, <2>4, FailingReader DEF Bad_Request, Request_Entity_Too_Large, Status
  <2>6. \A e : IsReader([line.r EXCEPT !.etag = e]) /\ IsReader([end.r EXCEPT !.etag = e])
    BY <2>4, ChangedReader
  <2>7. IsReader(x.r) /\ IsReader(Failing(end.r, Bad_Request)) /\ IsReader(Failing(x.r, Request_Entity_Too_Large))
    BY <2>1, <2>5, ChangedReader
  <2>8. CASE ~x.ok
    BY <2>7, <2>8 DEF EtagFrom
  <2>9. CASE x.ok /\ x.r.curr = " "
    <3>1. EtagFrom(x).r = [line.r EXCEPT !.etag = Append(x.etag, Nul)]
      BY <2>2, <2>9 DEF EtagFrom
    <3> QED BY <3>1, <2>6
  <2>10. CASE x.ok /\ x.r.curr \in {"\r", "\n"}
    <3>1. EtagFrom(x).r = IF end.hit = 1 THEN [end.r EXCEPT !.etag = Append(x.etag, Nul)]
                          ELSE Failing(end.r, Bad_Request)
      BY <2>3, <2>10 DEF EtagFrom
    <3> QED BY <3>1, <2>6, <2>7
  <2>11. CASE x.ok /\ x.r.curr \notin {" ", "\r", "\n"}
    BY <2>7, <2>11 DEF EtagFrom
  <2> QED BY <2>8, <2>9, <2>10, <2>11
<1>2. PICK g \in Readers(m) : g = SkipSpaces(n)
  BY SkipReader
<1>3. <<IF g.curr \in Controls(g.s) THEN Nul ELSE g.curr>> \in Seq(Codes)
  <2>1. g.curr \in Codes /\ Nul \in Codes
    BY DEF Readers, Codes
  <2> QED BY <2>1
<1>4. EtagChars(g, <<IF g.curr \in Controls(g.s) THEN Nul ELSE g.curr>>, size) \in EtagReaders(m)
  BY <1>3, EtagCharsReader
<1> QED BY <1>1, <1>2, <1>4 DEF ReadEtag

-----------------------------------------------------------------------------
\* What reading a header field returns: a reader, and a state that is not of the reply.
IsLine(f) == IsReader(f.r) /\ f.pc \in {"header", "accept", "body", "bad"}

\* A reader that has read a word, or failed, is a reader.
LEMMA ReadersAreReaders ==
  ASSUME NEW m
  PROVE  /\ \A n \in Readers(m) : IsReader(n)
         /\ \A x \in Found(m) : IsReader(x.r)
         /\ \A n \in Readers(m), st \in Status : IsReader(Failing(n, st))
         /\ \A n \in Readers(m) : \A name : IsReader(WithField(n, name))
<1>1. \A n \in Readers(m) : \A name : IsReader(WithField(n, name))
  <2> SUFFICES ASSUME NEW n \in Readers(m), NEW name PROVE IsReader(WithField(n, name))
    OBVIOUS
  <2>1. WithField(n, name) = [n EXCEPT !.requ = [n.requ EXCEPT !.fields = @ \cup {name}]]
    BY DEF WithField, Readers
  <2> QED BY <2>1, ChangedReader
<1> QED BY <1>1, ChangedReader, FoundReader, FailingReader

\* The errors of the parser are statuses.
LEMMA StatusCodes ==
  {Bad_Request, Bad_Option, Not_Found, URI_Too_Long, Request_Entity_Too_Large, Not_Implemented} \subseteq Status
BY DEF Bad_Request, Bad_Option, Not_Found, URI_Too_Long, Request_Entity_Too_Large, Not_Implemented, Status

\* A field whose reader goes on to such a state.
LEMMA ThenLine ==
  ASSUME NEW n, IsReader(n)
  PROVE  \A p \in {"header", "accept", "body", "bad"} : IsLine(Then(n, p))
BY DEF IsLine, Then

\* The line of a field that is not recognised.
LEMMA SkippedLine ==
  ASSUME NEW n, IsReader(n)
  PROVE  IsLine(Skipped(n))
<1>1. PICK x \in Found(n) : x = SkipLine(n)
  BY SkipReader DEF IsReader
<1>2. IsReader(x.r) /\ IsReader(Failing(x.r, Bad_Option))
  BY FoundReader, ReadersAreReaders, StatusCodes
<1>3. IsLine(Then(x.r, "header")) /\ IsLine(Then(Failing(x.r, Bad_Option), "bad"))
  BY <1>2, ThenLine
<1> QED BY <1>1, <1>3 DEF Skipped

\* The blank line after the fields.
LEMMA BlankLineIsLine ==
  ASSUME NEW n, IsReader(n)
  PROVE  IsLine(BlankLine(n))
<1>1. PICK x \in Found(n) : x = ExpectCrlf(n)
  BY ExpectCrlfFound DEF IsReader
<1>2. IsReader(x.r) /\ IsReader(Failing(x.r, Bad_Request))
  BY FoundReader, ReadersAreReaders, StatusCodes
<1>3. IsLine(Then(x.r, "body")) /\ IsLine(Then(Failing(x.r, Bad_Request), "bad"))
  BY <1>2, ThenLine
<1> QED BY <1>1, <1>3 DEF BlankLine

\* The name of an Accept field.
LEMMA AcceptFieldIsLine ==
  ASSUME NEW n, IsReader(n)
  PROVE  IsLine(AcceptField(n))
<1>1. PICK x \in Found(n) : x = Literal1(n, After(1, Field.accept), Colon)
  BY LiteralFound DEF IsReader
<1>2. IsReader(x.r)
  BY ReadersAreReaders
<1> QED BY <1>1, <1>2, ThenLine, SkippedLine DEF AcceptField

\* A Content-Length field.
LEMMA ContentLengthIsLine ==
  ASSUME NEW n, IsReader(n)
  PROVE  IsLine(ContentLength(n))
<1> DEFINE len == ReadLength(n)
           given1 == [len.r EXCEPT !.requ.clen = len.val]
<1>1. len.r \in Readers(n)
  BY LengthReader DEF IsReader
<1> HIDE DEF len
<1>2. IsReader(given1)
  <2>1. given1 = [len.r EXCEPT !.requ = [len.r.requ EXCEPT !.clen = len.val]]
    BY <1>1 DEF Readers
  <2> HIDE DEF given1
  <2> QED BY <1>1, <2>1, ChangedReader
<1>3. IsReader(ConsumeCrlf(WithField(given1, "content_length")))
  <2> HIDE DEF given1
  <2>1. IsReader(WithField(given1, "content_length"))
    BY <1>2, ReadersAreReaders DEF IsReader
  <2>2. PICK g : g = WithField(given1, "content_length")
    OBVIOUS
  <2>3. ConsumeCrlf(g) \in Readers(g)
    BY <2>1, <2>2, SkipReader DEF IsReader
  <2> QED BY <2>2, <2>3, ReadersAreReaders
<1>4. IsLine(Then(ConsumeCrlf(WithField(given1, "content_length")), "header"))
  BY <1>3, ThenLine
<1>5. IsLine(Skipped(len.r))
  BY <1>1, ReadersAreReaders, SkippedLine
<1> QED BY <1>4, <1>5 DEF ContentLength, len

\* A Content-Type field.
LEMMA ContentTypeIsLine ==
  ASSUME NEW n, IsReader(n)
  PROVE  IsLine(ContentType(n))
<1> DEFINE media == ReadMediaType(n)
           typed(t) == [media.r EXCEPT !.requ.ctype = t]
<1>1. media.r \in Readers(n)
  BY MediaTypeReader DEF IsReader
<1>2. ContentType(n) = IF media.type = "unknown" THEN Skipped(typed("unknown"))
                       ELSE Then(ExpectCrlf(WithField(typed(media.type), "content_type")).r, "header")
  BY DEF ContentType
<1> HIDE DEF media
<1>3. ASSUME NEW t PROVE IsReader(typed(t))
  <2>1. typed(t) = [media.r EXCEPT !.requ = [media.r.requ EXCEPT !.ctype = t]]
    BY <1>1 DEF Readers
  <2> HIDE DEF typed
  <2> QED BY <1>1, <2>1, ChangedReader
<1> HIDE DEF typed
<1>4. IsLine(Skipped(typed("unknown")))
  BY <1>3, SkippedLine
<1>5. IsLine(Then(ExpectCrlf(WithField(typed(media.type), "content_type")).r, "header"))
  <2>1. PICK g : g = WithField(typed(media.type), "content_type")
    OBVIOUS
  <2>2. IsReader(g)
    BY <1>3, <2>1, ReadersAreReaders DEF IsReader
  <2>3. ExpectCrlf(g) \in Found(g)
    BY <2>2, ExpectCrlfFound DEF IsReader
  <2>4. IsReader(ExpectCrlf(g).r)
    BY <2>3, ReadersAreReaders
  <2> QED BY <2>1, <2>4, ThenLine
<1> QED BY <1>2, <1>4, <1>5

\* A Connection field.
LEMMA ConnectionIsLine ==
  ASSUME NEW n, IsReader(n)
  PROVE  IsLine(ReadConnection(n))
<1> DEFINE value(word, keep) ==
             IF word.hit = 1
             THEN Then(ExpectCrlf(WithField([word.r EXCEPT !.requ.keep = keep], "connection")).r, "header")
             ELSE Skipped(Failing(word.r, Bad_Option))
<1>1. ASSUME NEW word \in Found(n), NEW keep PROVE IsLine(value(word, keep))
  <2>1. word.r \in Readers(n)
    BY FoundReader
  <2>2. [word.r EXCEPT !.requ.keep = keep] = [word.r EXCEPT !.requ = [word.r.requ EXCEPT !.keep = keep]]
    BY <2>1 DEF Readers
  <2>3. PICK h : h = [word.r EXCEPT !.requ.keep = keep]
    OBVIOUS
  <2>4. IsReader(h)
    BY <2>1, <2>2, <2>3, ChangedReader
  <2>5. PICK g : g = WithField(h, "connection")
    OBVIOUS
  <2>6. IsReader(g)
    BY <2>4, <2>5, ReadersAreReaders DEF IsReader
  <2>7. ExpectCrlf(g) \in Found(g)
    BY <2>6, ExpectCrlfFound DEF IsReader
  <2>8. IsReader(ExpectCrlf(g).r)
    BY <2>7, ReadersAreReaders
  <2>9. IsLine(Then(ExpectCrlf(g).r, "header"))
    BY <2>8, ThenLine
  <2>10. IsReader(Failing(word.r, Bad_Option))
    BY <2>1, ReadersAreReaders, StatusCodes
  <2>11. IsLine(Skipped(Failing(word.r, Bad_Option)))
    BY <2>10, SkippedLine
  <2> QED BY <2>3, <2>5, <2>9, <2>11
<1>2. PICK v \in Readers(n) : v = SkipSpaces(n)
  BY SkipReader DEF IsReader
<1>3. /\ Literal1_ic(v, After(1, Field.keep), Line) \in Found(n)
      /\ Literal1_ic(v, After(1, Field.close), Line) \in Found(n)
      /\ Met(v, 0) \in Found(n)
  BY LiteralFound, MetFound
<1>4. ReadConnection(n) = CASE Lower(v.curr) = "k" -> value(Literal1_ic(v, After(1, Field.keep), Line), TRUE)
                            [] Lower(v.curr) = "c" -> value(Literal1_ic(v, After(1, Field.close), Line), FALSE)
                            [] OTHER               -> value(Met(v, 0), FALSE)
  BY <1>2 DEF ReadConnection
<1> HIDE DEF value
<1>5. /\ IsLine(value(Literal1_ic(v, After(1, Field.keep), Line), TRUE))
      /\ IsLine(value(Literal1_ic(v, After(1, Field.close), Line), FALSE))
      /\ IsLine(value(Met(v, 0), FALSE))
  BY <1>1, <1>3
<1> QED BY <1>4, <1>5

\* A field whose name begins with C.
LEMMA ContentFieldIsLine ==
  ASSUME NEW n, IsReader(n)
  PROVE  IsLine(ContentField(n))
<1>1. PICK x \in Found(n) :
        x = Literal3(n, After(1, Field.content_length), After(1, Field.content_type), After(1, Field.connection), Colon)
  BY Literal3Found DEF IsReader
<1>2. IsReader(x.r)
  BY ReadersAreReaders
<1>3. /\ IsLine(ContentLength(x.r)) /\ IsLine(ContentType(x.r))
      /\ IsLine(ReadConnection(x.r)) /\ IsLine(Skipped(x.r))
  BY <1>2, ContentLengthIsLine, ContentTypeIsLine, ConnectionIsLine, SkippedLine
<1>4. ContentField(n) = CASE x.hit = 1 -> ContentLength(x.r)
                          [] x.hit = 2 -> ContentType(x.r)
                          [] x.hit = 3 -> ReadConnection(x.r)
                          [] OTHER     -> Skipped(x.r)
  BY <1>1 DEF ContentField
<1> QED BY <1>3, <1>4

\* A field whose name begins with I.
LEMMA ConditionFieldIsLine ==
  ASSUME NEW n, IsReader(n)
  PROVE  IsLine(ConditionField(n))
<1>1. PICK x \in Found(n) : x = Literals(n, After(1, Field.if_match), After(1, Field.if_none_match), Colon)
  BY LiteralsFound DEF IsReader
<1>2. IsReader(x.r) /\ IsReader(Failing(x.r, Bad_Request))
  BY FoundReader, ReadersAreReaders, StatusCodes
<1>3. IsReader(ReadEtag(x.r, EtagSize).r)
  BY <1>2, EtagReader, HeadAssumption DEF IsReader
<1>4. IsReader(WithField(ReadEtag(x.r, EtagSize).r, "etag"))
  BY <1>3, ReadersAreReaders DEF IsReader
<1>5. /\ IsLine(Then(WithField(ReadEtag(x.r, EtagSize).r, "etag"), "header"))
      /\ IsLine(Skipped(ReadEtag(x.r, EtagSize).r)) /\ IsLine(Skipped(Failing(x.r, Bad_Request)))
  BY <1>2, <1>3, <1>4, ThenLine, SkippedLine
<1> QED BY <1>1, <1>5 DEF ConditionField

\* Any line of the head.
LEMMA LineIsLine ==
  ASSUME NEW n, IsReader(n)
  PROVE  IsLine(LineFrom(n))
<1>1. IsReader(Failing(n, Bad_Request))
  BY ReadersAreReaders, StatusCodes DEF IsReader
<1>2. IsLine(Then(Failing(n, Bad_Request), "bad"))
  BY <1>1, ThenLine
<1> QED BY <1>2, BlankLineIsLine, AcceptFieldIsLine, ContentFieldIsLine, ConditionFieldIsLine, SkippedLine
        DEF LineFrom

\* One media type of an Accept field.
LEMMA TypeReader ==
  ASSUME NEW n, IsReader(n)
  PROVE  IsReader(TypeRead(ReadMediaType(n)))
<1> DEFINE media == ReadMediaType(n)
           noted == [media.r EXCEPT !.requ.accept = @ \cup {media.type}]
<1>1. media.r \in Readers(n)
  BY MediaTypeReader DEF IsReader
<1>2. TypeRead(media) = AfterType(IF media.type = "unknown" THEN media.r ELSE noted)
  BY DEF TypeRead
<1> HIDE DEF media
<1>3. IsReader(noted)
  <2>1. noted = [media.r EXCEPT !.requ = [media.r.requ EXCEPT !.accept = @ \cup {media.type}]]
    BY <1>1 DEF Readers
  <2> HIDE DEF noted
  <2> QED BY <1>1, <2>1, ChangedReader
<1>4. IsReader(media.r)
  BY <1>1, ReadersAreReaders
<1>5. ASSUME NEW g, IsReader(g) PROVE IsReader(AfterType(g))
  <2>1. ASSUME NEW h, IsReader(h) PROVE IsReader(SkipSpaces(h)) /\ IsReader(SkipType(h))
    BY <2>1, SkipReader, ReadersAreReaders DEF IsReader
  <2>2. IsReader(IF IsType(g.s, g.curr) THEN SkipType(g) ELSE g)
    BY <1>5, <2>1
  <2> QED BY <2>1, <2>2 DEF AfterType, Parameters
<1> HIDE DEF noted
<1> QED BY <1>2, <1>3, <1>4, <1>5 DEF media

-----------------------------------------------------------------------------
\* The output.  What putting and sending change in the streams.
LEMMA OutputFields ==
  ASSUME NEW P, NEW s \in Outputs(P)
  PROVE  /\ s.port \in Ports /\ s.array \in Seq(P) /\ s.array # <<>> /\ s.put \in Nat \ {0}
         /\ s.sent \in Seq(P) /\ s.oerr \in SUBSET Bits /\ s.err \in SUBSET Bits
BY DEF Outputs

\* The streams t are s with these fields instead.
Becomes(s, t, array, put, sent, oerr) ==
  /\ t.port = s.port /\ t.array = array /\ t.put = put /\ t.sent = sent
  /\ t.oerr = oerr /\ t.err = s.err

\* Putting and sending change some fields of the streams and leave the others.
LEMMA ChangedOutput ==
  ASSUME NEW P, NEW s \in Outputs(P)
  PROVE  /\ \A a \in Seq(P) \ {<<>>}, p \in Nat \ {0} :
              [s EXCEPT !.array = a, !.put = p] \in Outputs(P)
              /\ Becomes(s, [s EXCEPT !.array = a, !.put = p], a, p, s.sent, s.oerr)
         /\ \A x \in Seq(P) :
              [s EXCEPT !.sent = x] \in Outputs(P)
              /\ Becomes(s, [s EXCEPT !.sent = x], s.array, s.put, x, s.oerr)
         /\ \A p \in Nat \ {0} :
              [s EXCEPT !.put = p] \in Outputs(P)
              /\ Becomes(s, [s EXCEPT !.put = p], s.array, p, s.sent, s.oerr)
         /\ \A b \in SUBSET Bits :
              [s EXCEPT !.oerr = b] \in Outputs(P)
              /\ Becomes(s, [s EXCEPT !.oerr = b], s.array, s.put, s.sent, b)
<1> DEFINE A == Seq(P) \ {<<>>}
           S == Seq(P)
           W == Seq(Chars)
           E == SUBSET Bits
           N == Nat
           I == Int
           O == Nat \ {0}
           Q == Ports
<1>1. Outputs(P) = [port : Q, array : A, get : N, end : N, put : O, wire : W, late : W,
                    up : I, behind : W, signed : BOOLEAN, sent : S, err : E, oerr : E]
  BY DEF Outputs
<1> SUFFICES /\ \A a \in A, p \in O : [s EXCEPT !.array = a, !.put = p] \in Outputs(P)
                  /\ Becomes(s, [s EXCEPT !.array = a, !.put = p], a, p, s.sent, s.oerr)
             /\ \A x \in S : [s EXCEPT !.sent = x] \in Outputs(P)
                  /\ Becomes(s, [s EXCEPT !.sent = x], s.array, s.put, x, s.oerr)
             /\ \A p \in O : [s EXCEPT !.put = p] \in Outputs(P)
                  /\ Becomes(s, [s EXCEPT !.put = p], s.array, p, s.sent, s.oerr)
             /\ \A b \in E : [s EXCEPT !.oerr = b] \in Outputs(P)
                  /\ Becomes(s, [s EXCEPT !.oerr = b], s.array, s.put, s.sent, b)
  OBVIOUS
<1> HIDE DEF A, S, W, E, N, I, O, Q
<1>2. ASSUME NEW a \in A, NEW p \in O
      PROVE  /\ [s EXCEPT !.array = a, !.put = p] \in Outputs(P)
             /\ Becomes(s, [s EXCEPT !.array = a, !.put = p], a, p, s.sent, s.oerr)
  <2>1. [s EXCEPT !.array = a, !.put = p] \in Outputs(P)
    <3>1. \A t \in Outputs(P) : [t EXCEPT !.array = a] \in Outputs(P)
      BY <1>1
    <3>2. \A t \in Outputs(P) : [t EXCEPT !.put = p] \in Outputs(P)
      BY <1>1
    <3>3. [s EXCEPT !.array = a, !.put = p] = [[s EXCEPT !.array = a] EXCEPT !.put = p]
      OBVIOUS
    <3> QED BY <3>1, <3>2, <3>3
  <2>2. Becomes(s, [s EXCEPT !.array = a, !.put = p], a, p, s.sent, s.oerr)
    BY <1>1 DEF Becomes
  <2> QED BY <2>1, <2>2
<1>3. \A x \in S : [s EXCEPT !.sent = x] \in Outputs(P)
        /\ Becomes(s, [s EXCEPT !.sent = x], s.array, s.put, x, s.oerr)
  BY <1>1 DEF Becomes
<1>5. \A p \in O : [s EXCEPT !.put = p] \in Outputs(P)
        /\ Becomes(s, [s EXCEPT !.put = p], s.array, p, s.sent, s.oerr)
  BY <1>1 DEF Becomes
<1>6. \A b \in E : [s EXCEPT !.oerr = b] \in Outputs(P)
        /\ Becomes(s, [s EXCEPT !.oerr = b], s.array, s.put, s.sent, b)
  BY <1>1 DEF Becomes
<1> QED BY <1>2, <1>3, <1>5, <1>6

\* What is pending can be put back together with what follows it.
LEMMA PendingOutput ==
  ASSUME NEW P, NEW s \in Outputs(P), s.put <= Len(s.array) + 1
  PROVE  Pending(s) \in Seq(P) /\ Len(Pending(s)) = s.put - 1 /\ (s.put = 1 => Pending(s) = <<>>)
<1>1. s.array \in Seq(P) /\ s.put \in Nat \ {0} /\ Len(s.array) \in Nat
  BY OutputFields
<1>2. \A i \in 1..(s.put - 1) : s.array[i] \in P
  BY <1>1, ElementOfSeq
<1>3. SubSeq(s.array, 1, s.put - 1) \in Seq(P)
      /\ Len(SubSeq(s.array, 1, s.put - 1)) = IF 1 <= s.put - 1 THEN s.put - 1 - 1 + 1 ELSE 0
  BY <1>1, <1>2, SubSeqProperties
<1>4. s.put = 1 => SubSeq(s.array, 1, s.put - 1) = <<>>
  BY <1>1, SubSeqEmpty
<1> QED BY <1>1, <1>3, <1>4 DEF Pending

\* Store puts a character behind those pending.
LEMMA StoreOutput ==
  ASSUME NEW P, NEW s \in Outputs(P), s.put <= Len(s.array), NEW chr \in P
  PROVE  /\ Store(s, chr) \in Outputs(P)
         /\ Becomes(s, Store(s, chr), Store(s, chr).array, s.put + 1, s.sent, s.oerr)
         /\ Len(Store(s, chr).array) = Len(s.array)
         /\ Pending(Store(s, chr)) = Pending(s) \o <<chr>>
<1> DEFINE a == [s.array EXCEPT ![s.put] = chr]
<1>1. s.array \in Seq(P) /\ s.array # <<>> /\ s.put \in Nat \ {0} /\ Len(s.array) \in Nat
  BY OutputFields
<1>2. a \in Seq(P) /\ Len(a) = Len(s.array) /\ a[s.put] = chr /\ \A i \in 1..(s.put - 1) : a[i] = s.array[i]
  <2>1. s.array \in [1..Len(s.array) -> P] /\ DOMAIN s.array = 1..Len(s.array)
    BY <1>1, LenProperties
  <2>2. a \in [1..Len(s.array) -> P]
    BY <2>1
  <2>3. a \in Seq(P) /\ Len(a) = Len(s.array)
    BY <1>1, <2>2, IsASeq, LenProperties
  <2> QED BY <1>1, <2>1, <2>3
<1>3. a # <<>>
  BY <1>1, <1>2, EmptySeq
<1>4. Store(s, chr) = [s EXCEPT !.array = a, !.put = s.put + 1]
  BY DEF Store
<1> HIDE DEF a
<1>5. s.put + 1 \in Nat \ {0} /\ a \in Seq(P) \ {<<>>}
  BY <1>1, <1>2, <1>3
<1>6. /\ Store(s, chr) \in Outputs(P)
      /\ Becomes(s, Store(s, chr), a, s.put + 1, s.sent, s.oerr)
  <2>1. /\ [s EXCEPT !.array = a, !.put = s.put + 1] \in Outputs(P)
        /\ Becomes(s, [s EXCEPT !.array = a, !.put = s.put + 1], a, s.put + 1, s.sent, s.oerr)
    BY <1>5, ChangedOutput
  <2> QED BY <1>4, <2>1
<1>7. Pending(Store(s, chr)) = SubSeq(a, 1, s.put)
  BY <1>1, <1>6 DEF Pending, Becomes
<1>8. SubSeq(a, 1, s.put) = SubSeq(a, 1, s.put - 1) \o <<a[s.put]>>
  <2>1. 1 \in 1..Len(a) /\ s.put \in 1..Len(a)
    BY <1>1, <1>2
  <2> QED BY <1>2, <2>1, SubSeqRecursiveSecond
<1>9. SubSeq(a, 1, s.put - 1) = SubSeq(s.array, 1, s.put - 1)
  <2>1. SubSeq(a, 1, s.put - 1) = [i \in 1..(s.put - 1) |-> a[i]]
    BY <1>1, <1>2
  <2>2. SubSeq(s.array, 1, s.put - 1) = [i \in 1..(s.put - 1) |-> s.array[i]]
    BY <1>1
  <2> QED BY <2>1, <2>2, <1>2
<1> QED BY <1>2, <1>6, <1>7, <1>8, <1>9 DEF Pending, Becomes

\* A flush empties the array; what was pending is sent if the network takes it.
LEMMA FlushOutput ==
  ASSUME NEW P, NEW s \in Outputs(P), s.put <= Len(s.array) + 1, NEW taken \in BOOLEAN
  PROVE  /\ Flush(s, taken) \in Outputs(P)
         /\ Becomes(s, Flush(s, taken), s.array, 1, Flush(s, taken).sent, s.oerr)
         /\ taken => Flush(s, taken).sent = s.sent \o Pending(s)
<1>1. s.put \in Nat \ {0} /\ s.sent \in Seq(P)
  BY OutputFields
<1>2. Pending(s) \in Seq(P) /\ (s.put = 1 => Pending(s) = <<>>)
  BY PendingOutput
<1>3. ASSUME NEW t \in Outputs(P)
      PROVE  [t EXCEPT !.put = 1] \in Outputs(P) /\ Becomes(t, [t EXCEPT !.put = 1], t.array, 1, t.sent, t.oerr)
  <2>1. 1 \in Nat \ {0}
    OBVIOUS
  <2> QED BY <2>1, ChangedOutput
<1>4. CASE s.put = 1
  <2>1. s.sent \o <<>> = s.sent
    BY <1>1, ConcatEmptySeq
  <2> QED BY <1>2, <1>4, <2>1 DEF Flush, Becomes
<1>5. CASE s.put # 1 /\ taken
  <2> DEFINE t == [s EXCEPT !.sent = s.sent \o Pending(s)]
  <2>1. s.sent \o Pending(s) \in Seq(P)
    BY <1>1, <1>2, ConcatProperties
  <2>2. t \in Outputs(P) /\ Becomes(s, t, s.array, s.put, s.sent \o Pending(s), s.oerr)
    BY <2>1, ChangedOutput
  <2>3. Flush(s, taken) = [t EXCEPT !.put = 1]
    BY <1>5 DEF Flush, Send
  <2> HIDE DEF t
  <2>4. [t EXCEPT !.put = 1] \in Outputs(P) /\ Becomes(t, [t EXCEPT !.put = 1], t.array, 1, t.sent, t.oerr)
    BY <1>3, <2>2
  <2> QED BY <1>5, <2>2, <2>3, <2>4 DEF Becomes
<1>6. CASE s.put # 1 /\ ~taken
  <2>1. Flush(s, taken) = [s EXCEPT !.put = 1]
    BY <1>6 DEF Flush, Send
  <2>2. [s EXCEPT !.put = 1] \in Outputs(P) /\ Becomes(s, [s EXCEPT !.put = 1], s.array, 1, s.sent, s.oerr)
    BY <1>3
  <2> QED BY <1>6, <2>1, <2>2 DEF Becomes
<1> QED BY <1>4, <1>5, <1>6

\* What a put does: the character goes behind those that are on their way, or the network
\* does not take them, or the ESP8266 has no room, which is raised.
PutDone(s, t, chr, taken) ==
  /\ t.port = s.port /\ t.put <= Len(t.array) + 1 /\ Len(t.array) = Len(s.array)
  /\ s.port = "esp" => t.sent = s.sent
  /\ s.port = "esp" /\ s.put <= Len(s.array) => t.oerr = s.oerr
  /\ s.port = "esp" /\ s.put > Len(s.array) =>
       "eof" \in t.oerr /\ t.put = s.put /\ Pending(t) = Pending(s)
  /\ \/ t.sent \o Pending(t) = (s.sent \o Pending(s)) \o <<chr>>
     \/ ~taken
     \/ s.port = "esp" /\ s.put > Len(s.array)

\* A character is put behind what has been put before.
LEMMA PutBehind ==
  ASSUME NEW P, NEW x \in Seq(P), NEW y \in Seq(P), NEW chr \in P
  PROVE  (x \o y) \o <<chr>> = x \o (y \o <<chr>>)
<1> DEFINE z == <<chr>>
<1>1. z \in Seq(P)
  OBVIOUS
<1> HIDE DEF z
<1>2. (x \o y) \o z = x \o (y \o z)
  BY <1>1, ConcatAssociative
<1> QED BY <1>2 DEF z

\* There is room for the character.
LEMMA StoreDone ==
  ASSUME NEW P, NEW s \in Outputs(P), s.put <= Len(s.array), NEW chr \in P, NEW taken \in BOOLEAN
  PROVE  Store(s, chr) \in Outputs(P) /\ PutDone(s, Store(s, chr), chr, taken)
<1> DEFINE t == Store(s, chr)
<1>1. /\ s.array \in Seq(P) /\ s.put \in Nat \ {0} /\ Len(s.array) \in Nat /\ s.sent \in Seq(P)
  BY OutputFields
<1>2. /\ t \in Outputs(P) /\ Len(t.array) = Len(s.array) /\ Pending(t) = Pending(s) \o <<chr>>
      /\ Becomes(s, t, t.array, s.put + 1, s.sent, s.oerr)
  BY StoreOutput
<1> HIDE DEF t
<1>3. t.sent \o Pending(t) = (s.sent \o Pending(s)) \o <<chr>>
  <2>1. Pending(s) \in Seq(P)
    BY <1>1, PendingOutput
  <2>2. \A x, y \in Seq(P) : (x \o y) \o <<chr>> = x \o (y \o <<chr>>)
    BY PutBehind
  <2>3. (s.sent \o Pending(s)) \o <<chr>> = s.sent \o (Pending(s) \o <<chr>>)
    BY <1>1, <2>1, <2>2
  <2> QED BY <1>2, <2>3 DEF Becomes
<1>4. /\ t.port = s.port /\ t.put <= Len(t.array) + 1 /\ Len(t.array) = Len(s.array)
      /\ t.sent = s.sent /\ t.oerr = s.oerr
  BY <1>1, <1>2 DEF Becomes
<1>5. ~(s.put > Len(s.array))
  BY <1>1
<1>6. PutDone(s, t, chr, taken)
  BY <1>3, <1>4, <1>5 DEF PutDone
<1> QED BY <1>2, <1>6 DEF t

\* The buffer of the Particle and of the Arduino, and lwIP's.
LEMMA BufferPutDone ==
  ASSUME NEW P, NEW s \in Outputs(P), s.put <= Len(s.array) + 1, NEW chr \in P, NEW taken \in BOOLEAN,
         s.port # "esp"
  PROVE  /\ BufferPut(s, chr, taken) \in Outputs(P) /\ PutDone(s, BufferPut(s, chr, taken), chr, taken)
         /\ s.port = "lwip" =>
              LwipPut(s, chr, taken) \in Outputs(P) /\ PutDone(s, LwipPut(s, chr, taken), chr, taken)
<1>1. /\ s.array \in Seq(P) /\ s.array # <<>> /\ s.put \in Nat \ {0} /\ Len(s.array) \in Nat \ {0}
      /\ s.sent \in Seq(P) /\ s.oerr \in SUBSET Bits
  BY OutputFields, EmptySeq
<1>2. CASE s.put <= Len(s.array)
  <2>1. BufferPut(s, chr, taken) = Store(s, chr) /\ LwipPut(s, chr, taken) = Store(s, chr)
    <3>1. ~(s.put > Len(s.array))
      BY <1>1, <1>2
    <3> QED BY <3>1 DEF BufferPut, LwipPut
  <2> QED BY <1>2, <2>1, StoreDone
<1>3. CASE s.put > Len(s.array) /\ taken
  <2> DEFINE f == Flush(s, TRUE)
             t == Store(f, chr)
  <2>1. BufferPut(s, chr, taken) = t /\ LwipPut(s, chr, taken) = t
    BY <1>3 DEF BufferPut, LwipPut
  <2>2. f \in Outputs(P) /\ Becomes(s, f, s.array, 1, s.sent \o Pending(s), s.oerr)
    BY FlushOutput DEF Becomes
  <2> HIDE DEF f
  <2>3. f.put <= Len(f.array) /\ f.put <= Len(f.array) + 1 /\ f.put = 1
    BY <1>1, <2>2 DEF Becomes
  <2>4. t \in Outputs(P) /\ PutDone(f, t, chr, taken)
    BY <2>2, <2>3, StoreDone
  <2>5. Becomes(f, t, t.array, f.put + 1, f.sent, f.oerr) /\ Pending(t) = Pending(f) \o <<chr>>
    BY <2>2, <2>3, StoreOutput
  <2>6. f.sent \o Pending(f) = s.sent \o Pending(s)
    <3>1. Pending(f) = <<>> /\ f.sent \in Seq(P)
      BY <2>2, <2>3, PendingOutput, OutputFields
    <3> QED BY <2>2, <3>1, ConcatEmptySeq DEF Becomes
  <2>7. t.sent \o Pending(t) = (f.sent \o Pending(f)) \o <<chr>>
    <3>1. Pending(f) \in Seq(P) /\ f.sent \in Seq(P)
      BY <2>2, <2>3, PendingOutput, OutputFields
    <3>2. \A x, y \in Seq(P) : (x \o y) \o <<chr>> = x \o (y \o <<chr>>)
      BY PutBehind
    <3>3. (f.sent \o Pending(f)) \o <<chr>> = f.sent \o (Pending(f) \o <<chr>>)
      BY <3>1, <3>2
    <3> QED BY <2>5, <3>3 DEF Becomes
  <2> HIDE DEF t
  <2>8. PutDone(s, t, chr, taken)
    BY <2>2, <2>4, <2>5, <2>6, <2>7 DEF PutDone, Becomes
  <2> QED BY <2>1, <2>4, <2>8
<1>4. CASE s.put > Len(s.array) /\ ~taken
  <2>1. BufferPut(s, chr, taken) = Flush(s, FALSE)
    BY <1>4 DEF BufferPut
  <2>2. /\ Flush(s, FALSE) \in Outputs(P)
        /\ Becomes(s, Flush(s, FALSE), s.array, 1, Flush(s, FALSE).sent, s.oerr)
    <3>1. FALSE \in BOOLEAN
      OBVIOUS
    <3> QED BY <3>1, FlushOutput
  <2>3. PutDone(s, Flush(s, FALSE), chr, taken)
    <3> DEFINE t == Flush(s, FALSE)
    <3>1. t.port = s.port /\ t.put = 1 /\ t.array = s.array
      BY <2>2 DEF Becomes
    <3> HIDE DEF t
    <3>2. t.put <= Len(t.array) + 1
      BY <1>1, <3>1
    <3>3. PutDone(s, t, chr, taken)
      BY <1>4, <3>1, <3>2 DEF PutDone
    <3> QED BY <3>3 DEF t
  <2>4. ASSUME s.port = "lwip"
        PROVE  LwipPut(s, chr, taken) \in Outputs(P) /\ PutDone(s, LwipPut(s, chr, taken), chr, taken)
    <3> DEFINE t == [s EXCEPT !.oerr = s.oerr \cup {"ioerror"}]
    <3>1. LwipPut(s, chr, taken) = t
      BY <1>4, <2>4 DEF LwipPut, RaiseOut, SharesArray
    <3>2. s.oerr \cup {"ioerror"} \in SUBSET Bits
      BY <1>1 DEF Bits
    <3>3. t \in Outputs(P) /\ Becomes(s, t, s.array, s.put, s.sent, s.oerr \cup {"ioerror"})
      BY <3>2, ChangedOutput
    <3> HIDE DEF t
    <3>4. PutDone(s, t, chr, taken)
      BY <1>4, <2>4, <3>3 DEF PutDone, Becomes
    <3> QED BY <3>1, <3>3, <3>4
  <2> QED BY <2>1, <2>2, <2>3, <2>4
<1> QED BY <1>1, <1>2, <1>3, <1>4

\* A put of any session layer.
LEMMA PutOutput ==
  ASSUME NEW P, NEW s \in Outputs(P), s.put <= Len(s.array) + 1, NEW chr \in P, NEW taken \in BOOLEAN
  PROVE  Put(s, chr, taken) \in Outputs(P) /\ PutDone(s, Put(s, chr, taken), chr, taken)
<1>1. s.port \in {"spark", "arduino", "lwip", "esp"} /\ s.put \in Nat \ {0} /\ Len(s.array) \in Nat
      /\ s.oerr \in SUBSET Bits
  BY OutputFields DEF Ports
<1>2. CASE s.port \in {"spark", "arduino"}
  <2>1. Put(s, chr, taken) = BufferPut(s, chr, taken)
    BY <1>2 DEF Put, SharesArray
  <2> QED BY <1>2, <2>1, BufferPutDone
<1>3. CASE s.port = "lwip"
  <2>1. Put(s, chr, taken) = LwipPut(s, chr, taken)
    BY <1>3 DEF Put, SharesArray
  <2> QED BY <1>3, <2>1, BufferPutDone
<1>4. CASE s.port = "esp"
  <2>1. Put(s, chr, taken) = EspPut(s, chr)
    BY <1>4 DEF Put, SharesArray
  <2>2. CASE s.put <= Len(s.array)
    <3>1. EspPut(s, chr) = Store(s, chr)
      BY <1>1, <2>2 DEF EspPut
    <3> QED BY <2>1, <2>2, <3>1, StoreDone
  <2>3. CASE s.put > Len(s.array)
    <3> DEFINE t == [s EXCEPT !.oerr = s.oerr \cup {"eof"}]
    <3>1. EspPut(s, chr) = t
      BY <1>4, <2>3 DEF EspPut, RaiseOut, SharesArray
    <3>2. s.oerr \cup {"eof"} \in SUBSET Bits
      BY <1>1 DEF Bits
    <3>3. t \in Outputs(P) /\ Becomes(s, t, s.array, s.put, s.sent, s.oerr \cup {"eof"})
      BY <3>2, ChangedOutput
    <3> HIDE DEF t
    <3>4. Pending(t) = Pending(s)
      BY <3>3 DEF Pending, Becomes
    <3>5. t.put <= Len(t.array) + 1 /\ ~(s.put <= Len(s.array))
      BY <1>1, <2>3, <3>3 DEF Becomes
    <3>6. PutDone(s, t, chr, taken)
      BY <1>4, <2>3, <3>3, <3>4, <3>5 DEF PutDone, Becomes
    <3> QED BY <2>1, <3>1, <3>3, <3>6
  <2> QED BY <1>1, <2>2, <2>3
<1> QED BY <1>1, <1>2, <1>3, <1>4

-----------------------------------------------------------------------------
\* The initial states, and the steps that read.
LEMMA OpenUnsent ==
  ASSUME NEW i \in Inputs
  PROVE  Open(i) \in Unsent
<1> DEFINE a == [n \in 1..i.size |-> Junk]
           s == [port |-> i.port, array |-> a, get |-> 1, end |-> 1, put |-> 1,
                 wire |-> i.text, late |-> i.late, up |-> i.up, behind |-> i.behind, signed |-> i.signed,
                 sent |-> <<>>, err |-> {}, oerr |-> {}]
<1>1. /\ i.port \in Ports /\ i.size \in Nat \ {0} /\ i.up \in Nat /\ i.signed \in BOOLEAN
      /\ i.text \in Seq(STRING) /\ i.late \in Seq(STRING) /\ i.behind \in Seq(STRING)
  BY HeadAssumption
<1>2. a \in Seq(Chars) /\ a # <<>>
  <2>1. PICK size \in Nat \ {0} : size = i.size
    BY <1>1
  <2>2. a \in [1..size -> Chars]
    BY <2>1 DEF Chars
  <2>3. a \in Seq(Chars) /\ Len(a) = size
    <3> HIDE DEF a
    <3> QED BY <2>1, <2>2
  <2> QED BY <2>1, <2>3, EmptySeq
<1>3. i.text \in Seq(Chars) /\ i.late \in Seq(Chars) /\ i.behind \in Seq(Chars)
  <2>1. STRING \subseteq Chars
    BY DEF Chars
  <2>2. ASSUME NEW q \in Seq(STRING) PROVE q \in Seq(Chars)
    <3>1. q \in [1..Len(q) -> STRING] /\ Len(q) \in Nat
      BY LenProperties
    <3>2. q \in [1..Len(q) -> Chars]
      BY <2>1, <3>1
    <3> QED BY <3>1, <3>2, IsASeq
  <2> QED BY <1>1, <2>2
<1>4. Open(i) = IF i.port = "spark" THEN [Fill(s) EXCEPT !.up = i.up] ELSE s
  BY DEF Open
<1> HIDE DEF a
<1>5. s \in Unsent
  BY <1>1, <1>2, <1>3 DEF Unsent
<1> HIDE DEF s
<1>6. [Fill(s) EXCEPT !.up = i.up] \in Unsent
  <2>1. Fill(s) \in Unsent
    <3>1. Receive(s) \in Unsent
      BY <1>5, ReceiveUnsent
    <3> QED BY <3>1, ChangedUnsent DEF Fill
  <2>2. \A t \in Unsent : [t EXCEPT !.up = i.up] \in Unsent
    BY <1>1, ChangedUnsent
  <2> QED BY <2>1, <2>2
<1> QED BY <1>4, <1>5, <1>6

\* A reader's fields.
LEMMA ReaderFields ==
  ASSUME NEW m, IsReader(m)
  PROVE  /\ {"s", "resp"} \subseteq DOMAIN m /\ m.s \in Unsent /\ m.resp.status \in Status
         /\ m.resp = [status |-> m.resp.status, ctype |-> m.resp.ctype, fields |-> m.resp.fields]
BY DEF IsReader, Readers

\* The invariant holds when a message begins.
LEMMA HeadBegins ==
  Init => HeadInv
<1> SUFFICES ASSUME Init PROVE HeadInv
  OBVIOUS
<1>1. PICK i \in Inputs : r = NewMessage(Open(i))
  BY DEF Init
<1>2. PICK s \in Unsent : r = NewMessage(s)
  BY <1>1, OpenUnsent, HeadAssumption
<1>3. IsReader(r)
  <2>1. /\ r = [s |-> s, curr |-> "", ok |-> TRUE, etag |-> <<>>, requ |-> NewRequest, resp |-> NewResponse]
        /\ r.etag = <<>> /\ r.requ = NewRequest /\ r.resp = NewResponse
    BY <1>2 DEF NewMessage
  <2>2. "" \in Chars
    BY DEF Chars
  <2>3. NewResponse \in [status : Status, ctype : {NewResponse.ctype, "unknown"}, fields : {NewResponse.fields, {}}]
    BY DEF NewResponse, Status, Unknown
  <2> HIDE DEF Unsent, Chars, NewRequest, NewResponse
  <2>4. r \in Readers(r)
    BY <2>1, <2>2, <2>3 DEF Readers
  <2> QED BY <2>4 DEF IsReader
<1>4. pc = "method" /\ reply = <<>> /\ out = <<>> /\ refusals = 0
  BY DEF Init
<1>5. {"s", "resp"} \subseteq DOMAIN r
  BY <1>3, ReaderFields
<1>6. pc \notin {"write", "sent"} /\ refusals \in Nat
  BY <1>4
<1> QED BY <1>3, <1>4, <1>5, <1>6 DEF HeadInv, StatusIsSent

\* Nothing has been sent, and nothing has been put.
LEMMA NothingSent ==
  ASSUME IsReader(r'), reply' = <<>>
  PROVE  Delivered'
<1>1. PICK s \in Unsent : s = r'.s
  BY ReaderFields
<1>2. s.sent = <<>> /\ s.put = 1 /\ s.oerr = {} /\ s.array \in Seq(Chars)
  BY UnsentFields
<1>3. Pending(s) = <<>>
  BY <1>2, SubSeqEmpty DEF Pending
<1>4. s.sent \o Pending(s) = <<>>
  BY <1>2, <1>3, ConcatEmptySeq
<1>5. "eof" \notin s.oerr
  BY <1>2
<1> QED BY <1>1, <1>2, <1>4, <1>5 DEF Delivered, SentAsPut

\* A step that reads, and leaves a reader, keeps the invariant.
LEMMA ReadingStep ==
  ASSUME HeadInv, Reading, pc \notin {"write", "sent"}, IsReader(r'), pc' # "write"
  PROVE  HeadInv'
<1>1. reply' = <<>> /\ out' = <<>> /\ refusals' \in Nat
  BY DEF HeadInv, Reading
<1>2. Delivered' /\ {"s", "resp"} \subseteq DOMAIN r'
  BY <1>1, NothingSent, ReaderFields
<1> QED BY <1>1, <1>2 DEF HeadInv, StatusIsSent

\* The method.
LEMMA ReadMethodStep ==
  ASSUME HeadInv, ReadMethod
  PROVE  HeadInv'
<1>1. PICK w : w = ReadMethodWord(r)
  OBVIOUS
<1>2. MethodRead(w) /\ Reading /\ pc = "method" /\ IsReader(r)
  BY <1>1 DEF ReadMethod, HeadInv
<1>3. w.r \in Readers(r)
  BY <1>1, <1>2, MethodReader DEF IsReader
<1>4. IsReader(w.r) /\ IsReader(Failing(w.r, Not_Implemented))
  BY <1>3, ReadersAreReaders, StatusCodes
<1>5. IsReader([w.r EXCEPT !.requ.method = w.method])
  <2>1. [w.r EXCEPT !.requ.method = w.method] = [w.r EXCEPT !.requ = [w.r.requ EXCEPT !.method = w.method]]
    BY <1>3 DEF Readers
  <2> QED BY <1>3, <2>1, ChangedReader
<1>6. IsReader(r') /\ pc' # "write"
  BY <1>2, <1>4, <1>5 DEF MethodRead, Goto
<1> QED BY <1>2, <1>6, ReadingStep

\* The slash the target begins with.
LEMMA ReadRootStep ==
  ASSUME HeadInv, ReadRoot
  PROVE  HeadInv'
<1>1. PICK c : c = ReadTargetChar(SkipSpaces(r))
  OBVIOUS
<1>2. RootRead(c) /\ Reading /\ pc = "target" /\ IsReader(r)
  BY <1>1 DEF ReadRoot, HeadInv
<1>3. c.r \in Readers(r)
  BY <1>1, <1>2, SkipReader, TargetCharReader DEF IsReader, DecodedChars
<1>4. IsReader(c.r) /\ IsReader(Failing(c.r, Bad_Request))
  BY <1>3, ReadersAreReaders, StatusCodes
<1>5. IsReader(r') /\ pc' # "write"
  BY <1>2, <1>4 DEF RootRead, Goto
<1> QED BY <1>2, <1>5, ReadingStep

\* A section of the target.
LEMMA ReadSectionStep ==
  ASSUME HeadInv, ReadSection
  PROVE  HeadInv'
<1>1. PICK c : c = ReadSectionWord(r, MaxSection)
  OBVIOUS
<1>2. SectionRead(c) /\ Reading /\ pc = "section" /\ IsReader(r)
  BY <1>1 DEF ReadSection, HeadInv
<1>3. c.r \in Readers(r) /\ c.next \in {"section", "header", "version"}
  <2>1. c \in Sections(r)
    BY <1>1, <1>2, SectionReader, HeadAssumption DEF IsReader
  <2> QED BY <2>1 DEF Sections
<1>4. IsReader(c.r) /\ IsReader(Failing(c.r, URI_Too_Long)) /\ IsReader(Failing(c.r, Not_Found))
  BY <1>3, ReadersAreReaders, StatusCodes
<1>5. IsReader(r') /\ pc' # "write"
  BY <1>2, <1>3, <1>4 DEF SectionRead, Goto
<1> QED BY <1>2, <1>5, ReadingStep

\* The version.
LEMMA ReadVersionStep ==
  ASSUME HeadInv, ReadVersion
  PROVE  HeadInv'
<1>1. PICK v : v = ReadVersionWord(r)
  OBVIOUS
<1>2. VersionRead(v) /\ Reading /\ pc = "version" /\ IsReader(r)
  BY <1>1 DEF ReadVersion, HeadInv
<1>3. v.r \in Readers(r)
  BY <1>1, <1>2, VersionReader DEF IsReader
<1>4. IsReader(Failing(SkipLine(v.r).r, Bad_Request))
  <2>1. SkipLine(v.r).r \in Readers(r)
    BY <1>3, SkipReader, FoundReader
  <2> QED BY <2>1, ReadersAreReaders, StatusCodes
<1>5. IsReader([v.r EXCEPT !.requ.version = v.version])
  <2>1. [v.r EXCEPT !.requ.version = v.version] = [v.r EXCEPT !.requ = [v.r.requ EXCEPT !.version = v.version]]
    BY <1>3 DEF Readers
  <2> QED BY <1>3, <2>1, ChangedReader
<1>6. IsReader(r') /\ pc' # "write"
  BY <1>2, <1>4, <1>5 DEF VersionRead, Goto
<1> QED BY <1>2, <1>6, ReadingStep

\* The header fields.
LEMMA ReadHeadersStep ==
  ASSUME HeadInv, ReadHeaders
  PROVE  HeadInv'
<1>1. CASE ReadHeader
  <2>1. PICK f : f = LineFrom(GetChar(r))
    OBVIOUS
  <2>2. LineRead(f) /\ Reading /\ pc = "header" /\ IsReader(r)
    BY <1>1, <2>1 DEF ReadHeader, HeadInv
  <2>3. IsReader(GetChar(r))
    BY <2>2, GetReader, ReadersAreReaders DEF IsReader
  <2>4. IsLine(f)
    BY <2>1, <2>3, LineIsLine
  <2>5. IsReader(r') /\ pc' # "write"
    BY <2>2, <2>4 DEF LineRead, IsLine, Goto
  <2> QED BY <2>2, <2>5, ReadingStep
<1>2. CASE AcceptType
  <2>1. r' = TypeRead(ReadMediaType(r)) /\ Reading /\ pc = "accept" /\ pc' = pc /\ IsReader(r)
    BY <1>2 DEF AcceptType, HeadInv
  <2>2. IsReader(r')
    BY <2>1, TypeReader
  <2> QED BY <2>1, <2>2, ReadingStep
<1>3. CASE AcceptEnd
  <2>1. PICK x : x = IF r.curr \in {"\r", "\n"} THEN ExpectCrlf(r) ELSE SkipLine(r)
    OBVIOUS
  <2>2. r' = WithField(x.r, "accept") /\ Reading /\ pc = "accept" /\ pc' = "header" /\ IsReader(r)
    BY <1>3, <2>1 DEF AcceptEnd, HeadInv, Goto
  <2>3. x.r \in Readers(r)
    BY <2>1, <2>2, ExpectCrlfFound, SkipReader, FoundReader DEF IsReader
  <2>4. IsReader(r')
    BY <2>2, <2>3, ReadersAreReaders
  <2> QED BY <2>2, <2>4, ReadingStep
<1> QED BY <1>1, <1>2, <1>3 DEF ReadHeaders

-----------------------------------------------------------------------------
\* The reply.  A text is a sequence, whatever its pieces are.
IsText(x) == \E T : x \in Seq(T)

\* Texts one after another are a text, which begins as the first one does.
LEMMA TextAfterText ==
  ASSUME NEW x, NEW y, IsText(x), IsText(y)
  PROVE  /\ IsText(x \o y) /\ Len(x \o y) = Len(x) + Len(y) /\ Len(x) \in Nat /\ Len(y) \in Nat
         /\ \A i \in 1..Len(x) : (x \o y)[i] = x[i]
<1>1. PICK T : x \in Seq(T)
  BY DEF IsText
<1>2. PICK U : y \in Seq(U)
  BY DEF IsText
<1> DEFINE V == T \cup U
<1>3. x \in Seq(V) /\ y \in Seq(V)
  BY <1>1, <1>2, SeqMonotonic
<1> HIDE DEF V
<1>4. x \o y \in Seq(V) /\ Len(x \o y) = Len(x) + Len(y)
  BY <1>3, ConcatProperties
<1>5. Len(x) \in Nat /\ Len(y) \in Nat
  BY <1>3, LenProperties
<1>6. \A i \in 1..Len(x) : (x \o y)[i] = x[i]
  BY <1>3, <1>5, ConcatProperties
<1> QED BY <1>4, <1>5, <1>6 DEF IsText

\* The lines of a reply's head are texts.
LEMMA LinesAreTexts ==
  ASSUME NEW requ, NEW resp
  PROVE  /\ IsText(StatusLine(requ, resp)) /\ Len(StatusLine(requ, resp)) = 5
         /\ StatusLine(requ, resp)[3] = StatusCode[resp.status]
         /\ IsText(HeaderLines(requ, resp)) /\ IsText(<<>>) /\ IsText(<<"eol">>)
<1>1. IsText(<<>>)
  <2>1. <<>> \in Seq({})
    OBVIOUS
  <2> QED BY <2>1 DEF IsText
<1>2. \A a : IsText(<<a>>)
  <2>1. \A a : <<a>> \in Seq({a})
    OBVIOUS
  <2> QED BY <2>1 DEF IsText
<1>3. \A a, b, c : IsText(<<a, b, c>>)
  <2>1. \A a, b, c : <<a, b, c>> \in Seq({a, b, c})
    OBVIOUS
  <2> QED BY <2>1 DEF IsText
<1>4. \A a, b, c, d, e : IsText(<<a, b, c, d, e>>)
  <2>1. \A a, b, c, d, e : <<a, b, c, d, e>> \in Seq({a, b, c, d, e})
    OBVIOUS
  <2> QED BY <2>1 DEF IsText
<1>5. \A field, value : IsText(FieldText(field, value))
  BY <1>3 DEF FieldText
<1>6. /\ IsText(StatusLine(requ, resp)) /\ Len(StatusLine(requ, resp)) = 5
      /\ StatusLine(requ, resp)[3] = StatusCode[resp.status]
  <2>1. PICK a, b, c, d, e : StatusLine(requ, resp) = <<a, b, c, d, e>> /\ c = StatusCode[resp.status]
    BY DEF StatusLine
  <2> QED BY <1>4, <2>1
<1>7. IsText(HeaderLines(requ, resp))
  <2>1. PICK type, length, last :
          /\ HeaderLines(requ, resp) =
               (IF resp.status = No_Content THEN <<>>
                ELSE (IF "content_type" \in resp.fields THEN type ELSE <<>>)
                     \o (IF "content_length" \in resp.fields THEN length ELSE <<>>)) \o last
          /\ IsText(type) /\ IsText(length) /\ IsText(last)
    <3> DEFINE type == IF resp.ctype = "unknown" THEN <<>> ELSE FieldText(Field.content_type, ContentTypeText(resp.ctype))
               length == FieldText(Field.content_length, "length")
               keep == IF Keep(MayKeep, requ, resp) THEN Field.keep ELSE Field.close
               last == FieldText(Field.connection, keep)
    <3>1. IsText(type) /\ IsText(length) /\ IsText(last)
      <4> HIDE DEF keep
      <4> QED BY <1>1, <1>5
    <3>2. HeaderLines(requ, resp) =
            (IF resp.status = No_Content THEN <<>>
             ELSE (IF "content_type" \in resp.fields THEN type ELSE <<>>)
                  \o (IF "content_length" \in resp.fields THEN length ELSE <<>>)) \o last
      BY DEF HeaderLines
    <3> HIDE DEF type, length, last
    <3> QED BY <3>1, <3>2
  <2>2. PICK x, y : /\ x = IF "content_type" \in resp.fields THEN type ELSE <<>>
                    /\ y = IF "content_length" \in resp.fields THEN length ELSE <<>>
    OBVIOUS
  <2>3. IsText(x) /\ IsText(y)
    BY <1>1, <2>1, <2>2
  <2>4. PICK z : z = IF resp.status = No_Content THEN <<>> ELSE x \o y
    OBVIOUS
  <2>5. IsText(z)
    BY <1>1, <2>3, <2>4, TextAfterText
  <2>6. HeaderLines(requ, resp) = z \o last
    BY <2>1, <2>2, <2>4
  <2> QED BY <2>1, <2>5, <2>6, TextAfterText
<1> QED BY <1>1, <1>2, <1>6, <1>7

\* The head of a reply, and what is put after it: the third piece is the status code.
LEMMA EnvelopeIsText ==
  ASSUME NEW requ, NEW resp, NEW text, IsText(text)
  PROVE  /\ IsText(Envelope(requ, resp) \o text) /\ Envelope(requ, resp) \o text # <<>>
         /\ (Envelope(requ, resp) \o text)[3] = StatusCode[resp.status]
<1>1. PICK a, b, c : /\ Envelope(requ, resp) = (a \o b) \o c
                     /\ IsText(a) /\ IsText(b) /\ IsText(c) /\ Len(a) = 5
                     /\ a[3] = StatusCode[resp.status]
  <2> DEFINE a == StatusLine(requ, resp)
             b == HeaderLines(requ, resp)
             c == IF resp.status = No_Content THEN <<>> ELSE <<"eol">>
  <2>1. IsText(a) /\ IsText(b) /\ IsText(c) /\ Len(a) = 5 /\ a[3] = StatusCode[resp.status]
    BY LinesAreTexts
  <2>2. Envelope(requ, resp) = (a \o b) \o c
    BY DEF Envelope
  <2> HIDE DEF a, b, c
  <2> QED BY <2>1, <2>2
<1>2. PICK d : d = a \o b
  OBVIOUS
<1>3. IsText(d) /\ Len(d) = 5 + Len(b) /\ Len(b) \in Nat /\ d[3] = StatusCode[resp.status]
  <2>1. /\ IsText(d) /\ Len(d) = Len(a) + Len(b) /\ Len(b) \in Nat
        /\ \A i \in 1..Len(a) : d[i] = a[i]
    BY <1>1, <1>2, TextAfterText
  <2>2. 3 \in 1..Len(a)
    BY <1>1
  <2> QED BY <1>1, <2>1, <2>2
<1>4. PICK e : e = d \o c
  OBVIOUS
<1>5. IsText(e) /\ Len(e) = Len(d) + Len(c) /\ Len(c) \in Nat /\ e[3] = StatusCode[resp.status]
  <2>1. 3 \in 1..Len(d)
    BY <1>3
  <2> QED BY <1>1, <1>3, <1>4, <2>1, TextAfterText
<1>6. PICK g : g = e \o text
  OBVIOUS
<1>7. IsText(g) /\ Len(g) = Len(e) + Len(text) /\ Len(text) \in Nat /\ g[3] = StatusCode[resp.status]
  <2>1. 3 \in 1..Len(e)
    BY <1>3, <1>5
  <2> QED BY <1>5, <1>6, <2>1, TextAfterText
<1>8. g # <<>>
  <2>1. Len(g) # 0
    BY <1>3, <1>5, <1>7
  <2>2. Len(<<>>) = 0
    OBVIOUS
  <2> QED BY <2>1, <2>2
<1>9. Envelope(requ, resp) \o text = g
  BY <1>1, <1>2, <1>4, <1>6
<1> QED BY <1>7, <1>8, <1>9

\* Streams of which nothing has been put are an output.
LEMMA UnsentOutput ==
  ASSUME NEW P, Chars \subseteq P, NEW s \in Unsent
  PROVE  s \in Outputs(P)
<1>1. /\ s.array \in Seq(Chars) \ {<<>>} /\ s.put = 1 /\ s.sent = <<>> /\ s.oerr = {} /\ s.err \in SUBSET Bits
      /\ s.port \in Ports /\ s.get \in Nat /\ s.end \in Nat /\ s.wire \in Seq(Chars) /\ s.late \in Seq(Chars)
      /\ s.up \in Int /\ s.behind \in Seq(Chars) /\ s.signed \in BOOLEAN
  BY UnsentFields
<1>2. s.array \in Seq(P)
  BY <1>1, SeqMonotonic
<1>3. s = [port |-> s.port, array |-> s.array, get |-> s.get, end |-> s.end, put |-> s.put, wire |-> s.wire,
           late |-> s.late, up |-> s.up, behind |-> s.behind, signed |-> s.signed,
           sent |-> s.sent, err |-> s.err, oerr |-> s.oerr]
  BY DEF Unsent
<1>4. s.array \in Seq(P) \ {<<>>} /\ s.put \in Nat \ {0} /\ s.sent \in Seq(P) /\ s.oerr \in SUBSET Bits
  BY <1>1, <1>2
<1> DEFINE A == Seq(P) \ {<<>>}
           S == Seq(P)
           W == Seq(Chars)
           E == SUBSET Bits
           O == Nat \ {0}
           Q == Ports
<1>5. Outputs(P) = [port : Q, array : A, get : Nat, end : Nat, put : O, wire : W, late : W,
                    up : Int, behind : W, signed : BOOLEAN, sent : S, err : E, oerr : E]
  BY DEF Outputs
<1>6. s.port \in Q /\ s.array \in A /\ s.put \in O /\ s.wire \in W /\ s.late \in W /\ s.behind \in W
      /\ s.sent \in S /\ s.err \in E /\ s.oerr \in E
  BY <1>1, <1>4
<1> HIDE DEF A, S, W, E, O, Q
<1> QED BY <1>1, <1>3, <1>5, <1>6

\* A response: what the node or the parser leaves.
IsResponse(resp) ==
  resp.status \in Status /\ resp = [status |-> resp.status, ctype |-> resp.ctype, fields |-> resp.fields]

\* A reply is put as a whole, and its status is known.
LEMMA ReplyStep ==
  ASSUME HeadInv, NEW m, IsReader(m), NEW resp, IsResponse(resp), NEW text, IsText(text), NEW outcome,
         Reply(m, resp, text, outcome)
  PROVE  HeadInv'
<1> DEFINE sealed == WithStatus(resp)
           x == Envelope(m.requ, sealed) \o text
<1>1. sealed.status \in Status \ {Unknown}
  BY DEF IsResponse, WithStatus, Status, Unknown, OK
<1>2. /\ r' = [m EXCEPT !.resp = sealed] /\ out' = x /\ reply' = x /\ pc' = "write"
      /\ refusals' = refusals
  BY DEF Reply, Goto
<1>3. IsText(x) /\ x # <<>> /\ x[3] = StatusCode[sealed.status]
  BY EnvelopeIsText
<1> HIDE DEF sealed, x
<1>4. m.s \in Unsent /\ {"s", "resp"} \subseteq DOMAIN m
  BY ReaderFields
<1>5. r'.s = m.s /\ r'.resp = sealed /\ {"s", "resp"} \subseteq DOMAIN r'
  BY <1>2, <1>4
<1>6. x \in Seq(Pieces')
  <2>1. PICK T : x \in Seq(T)
    BY <1>3 DEF IsText
  <2>2. \A i \in 1..Len(x) : x[i] \in Pieces'
    <3>1. DOMAIN x = 1..Len(x)
      BY <2>1, LenProperties
    <3> QED BY <1>2, <3>1 DEF Pieces
  <2>3. x \in [1..Len(x) -> Pieces'] /\ Len(x) \in Nat
    BY <2>1, <2>2, LenProperties
  <2> QED BY <2>3, IsASeq
<1>7. m.s \in Outputs(Pieces')
  <2>1. Chars \subseteq Pieces'
    BY DEF Pieces
  <2> QED BY <1>4, <2>1, UnsentOutput
<1>8. m.s.put <= Len(m.s.array) + 1 /\ m.s.sent = <<>> /\ Pending(m.s) = <<>>
  <2>1. m.s.put = 1 /\ m.s.sent = <<>> /\ Len(m.s.array) \in Nat
    BY <1>4, UnsentFields
  <2>2. m.s.put <= Len(m.s.array) + 1
    BY <2>1
  <2> QED BY <1>7, <2>1, <2>2, PendingOutput
<1>9. (m.s.sent \o Pending(m.s)) \o x = x
  <2> DEFINE P == Pieces'
  <2>1. x \in Seq(P)
    BY <1>6
  <2> HIDE DEF P
  <2>2. <<>> \o x = x /\ <<>> \o <<>> = <<>>
    BY <2>1, ConcatEmptySeq
  <2> QED BY <1>8, <2>2
<1>10. Writing'
  <2>1. reply' \in Seq(Pieces') /\ reply' # <<>> /\ out' \in Seq(Pieces')
    BY <1>2, <1>3, <1>6
  <2>2. r'.s \in Outputs(Pieces') /\ r'.s.put <= Len(r'.s.array) + 1 /\ r'.s.sent = <<>>
    BY <1>5, <1>7, <1>8
  <2>3. "eof" \notin r'.s.oerr
    BY <1>4, <1>5, UnsentFields
  <2>4. InPieces(r.s)'
    BY <1>2, <1>5, <1>8, <1>9, <2>3 DEF InPieces
  <2> QED BY <2>1, <2>2, <2>4 DEF Writing
<1>11. StatusIsSent'
  BY <1>1, <1>2, <1>3, <1>5 DEF StatusIsSent
<1>12. refusals' \in Nat
  BY <1>2 DEF HeadInv
<1> QED BY <1>2, <1>5, <1>10, <1>11, <1>12 DEF HeadInv

\* The responses of error replies and of answers.
LEMMA ResponseChanged ==
  ASSUME NEW resp, IsResponse(resp)
  PROVE  /\ \A st \in Status : IsResponse(SetError(resp, st)) /\ IsResponse(SetStatus(resp, st))
         /\ \A type : IsResponse(SetContentType(resp, type)) /\ IsResponse(FixContentType(resp, type))
<1> USE DEF IsResponse
<1>1. ASSUME NEW st \in Status PROVE IsResponse(SetError(resp, st))
  BY DEF SetError
<1>2. ASSUME NEW st \in Status PROVE IsResponse(SetStatus(resp, st))
  <2>1. PICK new \in Status : new = IF Failed(resp) THEN resp.status ELSE st
    OBVIOUS
  <2>2. [resp EXCEPT !.status = new] = [status |-> new, ctype |-> resp.ctype, fields |-> resp.fields]
    OBVIOUS
  <2> QED BY <2>1, <2>2 DEF SetStatus
<1>3. ASSUME NEW type PROVE IsResponse(SetContentType(resp, type))
  <2>1. PICK f : f = resp.fields \cup {"content_type"}
    OBVIOUS
  <2>2. PICK x : x = [resp EXCEPT !.ctype = type]
    OBVIOUS
  <2>3. x = [status |-> resp.status, ctype |-> type, fields |-> resp.fields]
    BY <2>2
  <2>4. [x EXCEPT !.fields = f] = [status |-> resp.status, ctype |-> type, fields |-> f]
    BY <2>3
  <2>5. SetContentType(resp, type) = [x EXCEPT !.fields = f]
    BY <2>1, <2>2 DEF SetContentType
  <2> QED BY <2>4, <2>5
<1>4. ASSUME NEW type PROVE IsResponse(FixContentType(resp, type))
  BY <1>3 DEF FixContentType
<1> QED BY <1>1, <1>2, <1>3, <1>4

\* What is put for an error, and what a node puts, are texts.
LEMMA MessageIsText ==
  /\ \A resp : IsText(Message(resp))
  /\ \A a \in Answers : IsText(a.body)
<1>1. \A a, b : <<a, b>> \in Seq({a, b})
  OBVIOUS
<1>2. \A resp : IsText(Message(resp))
  <2> SUFFICES ASSUME NEW resp PROVE IsText(Message(resp))
    OBVIOUS
  <2>1. Message(resp) \in Seq({Phrase[resp.status], "eol"})
    BY <1>1 DEF Message
  <2> QED BY <2>1 DEF IsText
<1> QED BY <1>2, HeadAssumption DEF IsText

\* An error reply is put as a whole.
LEMMA ErrorReplyStep ==
  ASSUME HeadInv, NEW m, IsReader(m), ErrorReply(m)
  PROVE  HeadInv'
<1>1. PICK outcome : Reply(m, m.resp, Message(m.resp), outcome)
  BY DEF ErrorReply
<1>2. IsResponse(m.resp) /\ IsText(Message(m.resp))
  BY ReaderFields, MessageIsText DEF IsResponse
<1> QED BY <1>1, <1>2, ReplyStep

\* A message for which nothing has been put is saved, refused, failed or answered.
LEMMA NothingPutStep ==
  ASSUME HeadInv, reply = <<>>, out = <<>>, NEW m, IsReader(m), NothingPut(m)
  PROVE  HeadInv'
<1>1. CASE /\ r' = m /\ result' = "fragment" /\ Goto("sent") /\ Tick
           /\ UNCHANGED <<given, path, out, reply, refusals>>
  <2>1. IsReader(r') /\ reply' = <<>> /\ pc' = "sent"
    BY <1>1 DEF Goto
  <2>2. Delivered' /\ {"s", "resp"} \subseteq DOMAIN r'
    BY <2>1, NothingSent, ReaderFields
  <2> QED BY <1>1, <2>1, <2>2 DEF HeadInv, StatusIsSent
<1>2. CASE ErrorReply(Failing(m, Service_Unavailable))
  <2>1. Service_Unavailable \in Status
    BY DEF Service_Unavailable, Status
  <2>2. IsReader(Failing(m, Service_Unavailable))
    BY <2>1, ReadersAreReaders DEF IsReader
  <2> QED BY <1>2, <2>2, ErrorReplyStep
<1>3. CASE ErrorReply(m)
  BY <1>3, ErrorReplyStep
<1>4. CASE Reply(m, m.resp, <<>>, Outcome(m))
  <2>1. IsResponse(m.resp) /\ IsText(<<>>)
    BY ReaderFields, LinesAreTexts DEF IsResponse
  <2> QED BY <1>4, <2>1, ReplyStep
<1> QED BY <1>1, <1>2, <1>3, <1>4 DEF NothingPut, Suspend

\* A directory's default leaves a reader.
LEMMA AcceptingReader ==
  ASSUME IsReader(r)
  PROVE  IsReader(Accepting)
<1>1. [r EXCEPT !.requ.accept = @ \cup {"html"}] = [r EXCEPT !.requ = [r.requ EXCEPT !.accept = @ \cup {"html"}]]
  BY DEF IsReader, Readers
<1>2. IsReader([r EXCEPT !.requ.accept = @ \cup {"html"}])
  BY <1>1, ChangedReader DEF IsReader
<1> QED BY <1>2 DEF Accepting

\* The replies to a message that is not processed.
LEMMA ErrorReplySteps ==
  ASSUME HeadInv, BadMessage \/ NoTarget \/ HeadHadError
  PROVE  HeadInv'
<1>1. ASSUME NEW m, IsReader(m), BadReply(m) PROVE HeadInv'
  <2>1. Reply(m, SetContentType(m.resp, "plain"), Message(m.resp), "bad")
    BY <1>1 DEF BadReply
  <2>2. IsResponse(m.resp)
    BY <1>1, ReaderFields DEF IsResponse
  <2>3. IsResponse(SetContentType(m.resp, "plain")) /\ IsText(Message(m.resp))
    BY <2>2, ResponseChanged, MessageIsText
  <2> QED BY <1>1, <2>1, <2>3, ReplyStep
<1>2. CASE BadMessage
  <2>1. IsReader(r) /\ BadReply(r)
    BY <1>2 DEF BadMessage, HeadInv
  <2> QED BY <2>1, <1>1
<1>3. CASE NoTarget
  <2>1. IsReader(r) /\ BadReply(Failing(r, Not_Found))
    BY <1>3 DEF NoTarget, HeadInv
  <2>2. IsReader(Failing(r, Not_Found))
    BY <2>1, ReadersAreReaders, StatusCodes DEF IsReader
  <2> QED BY <2>1, <2>2, <1>1
<1>4. CASE HeadHadError
  <2>1. IsReader(r) /\ reply = <<>> /\ out = <<>> /\ NothingPut(Accepting)
    BY <1>4 DEF HeadHadError, HeadInv
  <2> QED BY <2>1, AcceptingReader, NothingPutStep
<1> QED BY <1>2, <1>3, <1>4

\* A node's answer leaves a reader.
LEMMA AnsweredReader ==
  ASSUME IsReader(r), NEW a \in Answers
  PROVE  IsReader(Answered(a))
<1>1. PICK g : g = Accepting
  OBVIOUS
<1>2. IsReader(g)
  BY <1>1, AcceptingReader
<1>3. IsResponse(g.resp)
  BY <1>2, ReaderFields DEF IsResponse
<1>4. ASSUME NEW n, IsReader(n), NEW resp, IsResponse(resp)
      PROVE  IsReader([n EXCEPT !.resp = resp]) /\ [n EXCEPT !.resp = resp].resp = resp
  <2>1. /\ n.s \in Unsent /\ n.curr \in Chars /\ n.ok \in BOOLEAN
        /\ n = [s |-> n.s, curr |-> n.curr, ok |-> n.ok, etag |-> n.etag, requ |-> n.requ, resp |-> n.resp]
    BY <1>4 DEF IsReader, Readers
  <2>2. PICK h : h = [n EXCEPT !.resp = resp]
    OBVIOUS
  <2>3. h = [s |-> n.s, curr |-> n.curr, ok |-> n.ok, etag |-> n.etag, requ |-> n.requ, resp |-> resp]
    BY <2>1, <2>2
  <2>4. resp \in [status : Status, ctype : {resp.ctype, "unknown"}, fields : {resp.fields, {}}]
    BY <1>4 DEF IsResponse
  <2>5. h \in Readers(h)
    BY <2>1, <2>3, <2>4 DEF Readers
  <2> QED BY <2>2, <2>3, <2>5 DEF IsReader
<1>5. PICK m : m = [g EXCEPT !.resp = FixContentType(g.resp, a.ctype)]
  OBVIOUS
<1>6. IsReader(m) /\ m.resp = FixContentType(g.resp, a.ctype) /\ IsResponse(m.resp)
  BY <1>2, <1>3, <1>4, <1>5, ResponseChanged
<1>7. a.status \in Status
  BY HeadAssumption
<1>8. IsReader(Failing(m, a.status))
  BY <1>6, <1>7, ReadersAreReaders DEF IsReader
<1>9. IsReader([m EXCEPT !.resp = SetStatus(m.resp, a.status)])
  <2>1. IsResponse(SetStatus(m.resp, a.status))
    BY <1>6, <1>7, ResponseChanged
  <2> QED BY <1>4, <1>6, <2>1
<1>10. Answered(a) = IF a.status >= Bad_Request THEN Failing(m, a.status)
                     ELSE [m EXCEPT !.resp = SetStatus(m.resp, a.status)]
  BY <1>1, <1>5 DEF Answered
<1> QED BY <1>8, <1>9, <1>10

\* A node processes the message: it puts its answer, or nothing.
LEMMA ProcessStep ==
  ASSUME HeadInv, Process
  PROVE  HeadInv'
<1>1. IsReader(r) /\ reply = <<>> /\ out = <<>>
  BY DEF Process, HeadInv
<1>2. PICK a \in Answers :
        \/ Reply(Answered(a), Answered(a).resp, a.body, Outcome(Answered(a)))
        \/ NothingPut(Answered(a))
  BY DEF Process
<1>3. IsReader(Answered(a))
  BY <1>1, AnsweredReader
<1>4. CASE Reply(Answered(a), Answered(a).resp, a.body, Outcome(Answered(a)))
  <2>1. IsResponse(Answered(a).resp) /\ IsText(a.body)
    BY <1>3, ReaderFields, MessageIsText DEF IsResponse
  <2> QED BY <1>3, <1>4, <2>1, ReplyStep
<1>5. CASE NothingPut(Answered(a))
  BY <1>1, <1>3, <1>5, NothingPutStep
<1> QED BY <1>2, <1>4, <1>5

-----------------------------------------------------------------------------
\* A piece is put.
LEMMA PutStep ==
  ASSUME HeadInv, PutNext
  PROVE  HeadInv'
<1> DEFINE P == Pieces
           s == r.s
           chr == Head(out)
           rest == Tail(out)
<1>1. PICK taken \in BOOLEAN : /\ refusals' = refusals + (IF taken THEN 0 ELSE 1)
                               /\ r' = [r EXCEPT !.s = Put(s, chr, taken)]
  BY DEF PutNext, Sending
<1>2. /\ pc = "write" /\ pc' = "write" /\ reply' = reply /\ out' = rest /\ out # <<>> /\ result' = result
  BY DEF PutNext
<1>3. Writing /\ refusals \in Nat /\ {"s", "resp"} \subseteq DOMAIN r
  BY <1>2 DEF HeadInv
<1>4. reply \in Seq(P) /\ out \in Seq(P) /\ s \in Outputs(P) /\ s.put <= Len(s.array) + 1
  BY <1>3 DEF Writing
<1>5. Pieces' = P
  BY <1>2 DEF Pieces
<1> DEFINE t == Put(s, chr, taken)
<1>6. r'.s = t /\ r'.resp = r.resp /\ {"s", "resp"} \subseteq DOMAIN r'
  BY <1>1, <1>3
<1> HIDE DEF P
<1>7. chr \in P /\ rest \in Seq(P) /\ out = <<chr>> \o rest
  BY <1>2, <1>4
<1>8. t \in Outputs(P) /\ PutDone(s, t, chr, taken)
  BY <1>4, <1>7, PutOutput
<1>9. s.sent \in Seq(P) /\ Pending(s) \in Seq(P) /\ refusals' \in Nat
  BY <1>1, <1>3, <1>4, OutputFields, PendingOutput
<1> HIDE DEF t, chr, rest, s
<1>10. t.put <= Len(t.array) + 1
  BY <1>8 DEF PutDone
<1>11. ASSUME refusals' = 0
       PROVE  \/ /\ t.sent \o Pending(t) \o rest = reply
                 /\ t.port = "esp" => t.sent = <<>> /\ "eof" \notin t.oerr
              \/ /\ t.port = "esp" /\ "eof" \in t.oerr /\ t.sent = <<>> /\ t.put = Len(t.array) + 1
                 /\ Pending(t) = SubSeq(reply, 1, Len(t.array))
  <2>1. taken /\ refusals = 0
    BY <1>1, <1>3, <1>11
  <2>2. CASE /\ s.sent \o Pending(s) \o out = reply
             /\ s.port = "esp" => s.sent = <<>> /\ "eof" \notin s.oerr
    <3>1. CASE ~(s.port = "esp" /\ s.put > Len(s.array))
      <4>1. t.sent \o Pending(t) = (s.sent \o Pending(s)) \o <<chr>>
        BY <2>1, <3>1, <1>8 DEF PutDone
      <4> DEFINE x == s.sent \o Pending(s)
                 y == <<chr>>
      <4>2. x \in Seq(P) /\ y \in Seq(P)
        BY <1>7, <1>9, ConcatProperties
      <4>3. x \o out = reply /\ t.sent \o Pending(t) = x \o y /\ out = y \o rest
        BY <2>2, <4>1, <1>7
      <4> HIDE DEF x, y
      <4>4. (x \o y) \o rest = x \o (y \o rest)
        BY <4>2, <1>7, ConcatAssociative
      <4>5. t.sent \o Pending(t) \o rest = reply
        BY <4>3, <4>4
      <4>6. s.put \in Nat /\ Len(s.array) \in Nat
        BY <1>4, OutputFields DEF s
      <4>7. t.port = "esp" => t.sent = s.sent /\ t.oerr = s.oerr
        BY <3>1, <4>6, <1>8 DEF PutDone
      <4> QED BY <2>2, <4>5, <4>7, <1>8 DEF PutDone
    <3>2. CASE s.port = "esp" /\ s.put > Len(s.array)
      <4>1. /\ t.port = "esp" /\ "eof" \in t.oerr /\ t.sent = <<>> /\ t.put = s.put /\ Pending(t) = Pending(s)
            /\ Len(t.array) = Len(s.array)
        BY <2>2, <3>2, <1>8 DEF PutDone
      <4>2. s.put = Len(s.array) + 1 /\ Len(Pending(s)) = Len(s.array) /\ s.put \in Nat /\ Len(s.array) \in Nat
        <5>1. s.put \in Nat /\ Len(s.array) \in Nat /\ s.put <= Len(s.array) + 1
          BY <1>4, OutputFields DEF s
        <5>2. Len(Pending(s)) = s.put - 1
          BY <1>4, PendingOutput DEF s
        <5> QED BY <3>2, <5>1, <5>2
      <4>3. Pending(s) = SubSeq(reply, 1, Len(Pending(s)))
        <5> DEFINE x == Pending(s)
        <5>1. x \in Seq(P)
          BY <1>9
        <5> HIDE DEF x
        <5>2. <<>> \o x = x
          BY <5>1, ConcatEmptySeq
        <5>3. x \o out = reply
          BY <2>2, <3>2, <5>2 DEF x
        <5>4. SubSeq(reply, 1, Len(x)) = x
          BY <5>1, <5>3, <1>4, SubSeqOfConcat1, SubSeqFull
        <5> QED BY <5>4 DEF x
      <4> QED BY <4>1, <4>2, <4>3
    <3> QED BY <3>1, <3>2
  <2>3. CASE CutShort(s)
    <3>1. s.put > Len(s.array)
      <4>1. s.put \in Nat /\ Len(s.array) \in Nat
        BY <1>4, OutputFields DEF s
      <4> QED BY <4>1, <2>3 DEF CutShort
    <3> QED BY <2>3, <3>1, <1>8 DEF PutDone, CutShort
  <2> QED BY <1>3, <2>1, <2>2, <2>3 DEF Writing, InPieces, s
<1>12. Writing'
  <2>1. /\ reply' \in Seq(Pieces') /\ reply' # <<>> /\ out' \in Seq(Pieces')
        /\ r'.s \in Outputs(Pieces')
    BY <1>2, <1>3, <1>4, <1>5, <1>6, <1>7, <1>8 DEF Writing
  <2> QED BY <1>2, <1>6, <1>10, <1>11, <2>1 DEF Writing, InPieces, CutShort
<1>13. StatusIsSent'
  BY <1>2, <1>6 DEF StatusIsSent, HeadInv
<1> QED BY <1>2, <1>6, <1>9, <1>12, <1>13 DEF HeadInv

\* The rest is sent.
LEMMA FinishStep ==
  ASSUME HeadInv, FinishReply
  PROVE  HeadInv'
<1> DEFINE P == Pieces
           s == r.s
<1>1. PICK taken \in BOOLEAN : /\ refusals' = refusals + (IF taken THEN 0 ELSE 1)
                               /\ r' = [r EXCEPT !.s = Finish(s, result = "keep", taken)]
  BY DEF FinishReply, Sending
<1>2. pc = "write" /\ pc' = "sent" /\ reply' = reply /\ out = <<>> /\ out' = out /\ result' = result
  BY DEF FinishReply, Goto
<1>3. Writing /\ refusals \in Nat /\ {"s", "resp"} \subseteq DOMAIN r
  BY <1>2 DEF HeadInv
<1>4. reply \in Seq(P) /\ s \in Outputs(P) /\ s.put <= Len(s.array) + 1
  BY <1>3 DEF Writing
<1> DEFINE f == Finish(s, result = "keep", taken)
           t == Flush(s, taken)
<1>5. r'.s = f /\ r'.resp = r.resp /\ {"s", "resp"} \subseteq DOMAIN r'
  BY <1>1, <1>3
<1> HIDE DEF P
<1>6. t.port = s.port /\ t.oerr = s.oerr /\ t.array = s.array /\ (taken => t.sent = s.sent \o Pending(s))
  BY <1>4, FlushOutput DEF Becomes
<1>7. s.sent \in Seq(P) /\ Pending(s) \in Seq(P) /\ refusals' \in Nat
  BY <1>1, <1>3, <1>4, OutputFields, PendingOutput
<1>8. f.port = s.port /\ f.oerr = s.oerr /\ f = IF s.port = "arduino" /\ result = "keep" THEN s ELSE t
  BY <1>6 DEF Finish
<1> HIDE DEF t, f, s
<1>9. ASSUME refusals' = 0
      PROVE  CASE f.port = "arduino" /\ result = "keep" -> f.sent \o Pending(f) = reply
               [] f.port = "esp" /\ "eof" \in f.oerr    -> f.sent = SubSeq(reply, 1, Len(f.array))
               [] OTHER                                  -> f.sent = reply
  <2>1. taken /\ refusals = 0
    BY <1>1, <1>3, <1>9
  <2>2. CASE (s.sent \o Pending(s)) \o <<>> = reply /\ (s.port = "esp" => "eof" \notin s.oerr)
    <3> DEFINE x == s.sent \o Pending(s)
    <3>1. x \in Seq(P) /\ x \o <<>> = reply
      BY <1>7, <2>2, ConcatProperties
    <3>2. x = reply
      <4> HIDE DEF x
      <4> QED BY <3>1, ConcatEmptySeq
    <3>3. CASE s.port = "arduino" /\ result = "keep"
      BY <3>2, <3>3, <1>8
    <3>4. CASE ~(s.port = "arduino" /\ result = "keep")
      <4>1. f.sent = reply /\ f.port = s.port /\ f.oerr = s.oerr
        BY <2>1, <3>2, <3>4, <1>6, <1>8
      <4> QED BY <2>2, <3>4, <4>1
    <3> QED BY <3>3, <3>4
  <2>3. CASE CutShort(s)
    <3>1. f = t /\ s.port = "esp" /\ "eof" \in s.oerr
      BY <2>3, <1>8 DEF CutShort
    <3>2. <<>> \o Pending(s) = Pending(s)
      BY <1>7, ConcatEmptySeq
    <3>3. f.sent = SubSeq(reply, 1, Len(f.array))
      BY <2>1, <2>3, <3>1, <3>2, <1>6 DEF CutShort
    <3> QED BY <3>1, <3>3, <1>8
  <2> QED BY <1>2, <1>3, <2>1, <2>2, <2>3 DEF Writing, InPieces, s
<1>12. Delivered'
  BY <1>2, <1>5, <1>9 DEF Delivered, SentAsPut
<1>13. StatusIsSent'
  BY <1>2, <1>5 DEF StatusIsSent, HeadInv
<1> QED BY <1>2, <1>5, <1>7, <1>12, <1>13 DEF HeadInv

-----------------------------------------------------------------------------
\* Every step keeps the invariant.
LEMMA HeadContinues ==
  HeadInv /\ [Next]_vars => HeadInv'
<1> SUFFICES ASSUME HeadInv, [Next]_vars PROVE HeadInv'
  OBVIOUS
<1>1. CASE Read
  BY <1>1, ReadMethodStep, ReadRootStep, ReadSectionStep, ReadVersionStep DEF Read
<1>2. CASE ReadHeaders
  BY <1>2, ReadHeadersStep
<1>3. CASE Respond
  BY <1>3, ErrorReplySteps, ProcessStep, PutStep, FinishStep DEF Respond
<1>4. CASE UNCHANGED vars
  <2>1. pc' = pc /\ r' = r /\ out' = out /\ reply' = reply /\ refusals' = refusals /\ result' = result
    BY <1>4 DEF vars
  <2>2. /\ IsReader(r)' <=> IsReader(r)
        /\ Writing' <=> Writing
        /\ Delivered' <=> Delivered
        /\ StatusIsSent' <=> StatusIsSent
    BY <2>1 DEF IsReader, Writing, Pieces, InPieces, CutShort, Delivered, SentAsPut, StatusIsSent
  <2> QED BY <2>1, <2>2 DEF HeadInv
<1> QED BY <1>1, <1>2, <1>3, <1>4 DEF Next, Ended

\* The codes of the statuses tell errors from the others.
LEMMA CodesOfErrors ==
  \A st \in Status \ {Unknown} : StatusCode[st] >= 400 <=> st >= Bad_Request
<1> SUFFICES ASSUME NEW st \in 1..26 PROVE StatusCode[st] >= 400 <=> st >= 9
  BY DEF Status, Unknown, Bad_Request
<1>1. st \in Status /\ st # Unknown
  BY DEF Status, Unknown
<1>2. \/ st = 1 \/ st = 2 \/ st = 3 \/ st = 4 \/ st = 5 \/ st = 6 \/ st = 7 \/ st = 8 \/ st = 9 \/ st = 10
      \/ st = 11 \/ st = 12 \/ st = 13 \/ st = 14 \/ st = 15 \/ st = 16 \/ st = 17 \/ st = 18 \/ st = 19
      \/ st = 20 \/ st = 21 \/ st = 22 \/ st = 23 \/ st = 24 \/ st = 25 \/ st = 26
  OBVIOUS
<1> QED BY <1>1, <1>2, SMTT(60) DEF StatusCode, Code

\* Whatever is sent to the server, and however it answers, the invariant holds.
THEOREM HeadInvariant ==
  Spec => []HeadInv
BY HeadBegins, HeadContinues, PTL DEF Spec

\* While the network refuses nothing, the client is sent what service has put: whole and in
\* its order, but for what the ESP8266's buffer has no room for, when eof is raised, and
\* what stays in the Arduino's buffer when the connection is kept.  Refused or not, the
\* status code is that of an error exactly when the message has failed.
THEOREM ReplyIsSentWhole ==
  Spec => []ReplyIsWhole
<1>1. HeadInv => ReplyIsWhole
  <2>1. ASSUME HeadInv, reply # <<>> PROVE reply[3] >= 400 <=> Failed(r.resp)
    BY <2>1, CodesOfErrors DEF HeadInv, StatusIsSent, Failed
  <2> QED BY <2>1 DEF HeadInv, ReplyIsWhole, Delivered
<1> QED BY <1>1, HeadInvariant, PTL
=============================================================================
