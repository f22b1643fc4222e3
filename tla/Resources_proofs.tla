-------------------------- MODULE Resources_proofs --------------------------
(***************************************************************************)
(* Proofs about the data behind the nodes: what the content providers read *)
(* of the bodies, that an upload changes its own item and no other, that   *)
(* the values fit where they are stored and read back as they were put,    *)
(* and that HttpService implements AtomicStore for the values behind       *)
(* functions.                                                              *)
(***************************************************************************)
EXTENDS HttpUpdates, HttpService_proofs

-----------------------------------------------------------------------------
\* What a provider reads of the body.
Stops(in, limit, stops, k) ==
  /\ k \in 0..Len(in) /\ k <= limit
  /\ \A i \in 1..k : in[i] \notin stops
  /\ k = limit \/ k = Len(in) \/ in[k + 1] \in stops

\* The loop ends in one place, which depends on what is in front of it only.
LEMMA StopsOnce ==
  ASSUME NEW S, NEW in \in Seq(S), NEW limit \in Nat, NEW stops,
         NEW k, NEW l, Stops(in, limit, stops, k), Stops(in, limit, stops, l)
  PROVE  k = l
<1>1. PICK n \in Nat : n = Len(in)
  OBVIOUS
<1>2. k \in 0..n /\ l \in 0..n /\ k <= limit /\ l <= limit
  BY <1>1 DEF Stops
<1>3. ASSUME k < l PROVE FALSE
  <2>1. k + 1 \in 1..l /\ k # limit /\ k # n
    BY <1>2, <1>3
  <2> QED BY <1>1, <2>1 DEF Stops
<1>4. ASSUME l < k PROVE FALSE
  <2>1. l + 1 \in 1..k /\ l # limit /\ l # n
    BY <1>2, <1>4
  <2> QED BY <1>1, <2>1 DEF Stops
<1> QED BY <1>2, <1>3, <1>4

LEMMA TakenStops ==
  ASSUME NEW S, NEW in \in Seq(S), NEW limit \in Nat, NEW stops
  PROVE  Stops(in, limit, stops, Taken(in, limit, stops))
<1>1. PICK n \in Nat : n = Len(in)
  OBVIOUS
<1> DEFINE Ends == {k \in 0..n : k = limit \/ k = n \/ in[k + 1] \in stops}
<1>2. Ends \subseteq Nat /\ n \in Ends
  OBVIOUS
<1>3. PICK k \in Ends : \A j \in Ends : k <= j
  BY <1>2, LeastMember
<1>4. k \in 0..n
  OBVIOUS
<1>5. k <= limit
  <2>1. limit <= n => limit \in Ends
    OBVIOUS
  <2> QED BY <1>3, <1>4, <2>1
<1>6. ASSUME NEW i \in 1..k, in[i] \in stops PROVE FALSE
  <2>1. i - 1 \in 0..n /\ (i - 1) + 1 = i /\ i - 1 < k
    BY <1>4
  <2>2. i - 1 \in Ends
    BY <1>6, <2>1
  <2>3. k <= i - 1
    BY <1>3, <2>2
  <2> QED BY <1>4, <2>1, <2>3
<1>7. Stops(in, limit, stops, k)
  BY <1>1, <1>4, <1>5, <1>6 DEF Stops
<1> QED BY <1>7 DEF Taken, Stops

LEMMA NumberIsNat == ASSUME NEW text \in Seq(DOMAIN DigitOf) PROVE Number(text) \in Nat
<1> DEFINE digits == [i \in DOMAIN text |-> DigitOf[text[i]]]
<1>1. PICK n \in Nat : n = Len(text) /\ DOMAIN text = 1..n
  OBVIOUS
<1>2. \A i \in 1..n : text[i] \in DOMAIN DigitOf
  BY <1>1, ElementOfSeq
<1>3. \A c \in DOMAIN DigitOf : DigitOf[c] \in Nat
  BY DEF DigitOf
<1>4. digits = [i \in 1..n |-> DigitOf[text[i]]] /\ digits \in Seq(Nat)
  BY <1>1, <1>2, <1>3
<1> HIDE DEF digits
<1>5. Len(digits) \in Nat
  BY <1>4
<1>6. PICK f \in [0..Len(digits) -> Nat] : Decimal(digits) = f[Len(digits)]
  BY <1>4, DecimalSteps
<1>7. Decimal(digits) \in Nat
  BY <1>5, <1>6
<1> QED BY <1>7 DEF Number, digits

\* Reading a number: t ends of lines, d digits, and what ends it.
NumberRead(in, t, d) ==
  LET m == Len(in)
  IN  /\ t \in 0..m /\ d \in 0..(m - t)
      /\ \A i \in 1..t : in[i] = "eol"
      /\ t = m \/ in[t + 1] # "eol"
      /\ \A i \in 1..d : in[t + i] \in DOMAIN DigitOf
      /\ d = m - t \/ in[t + d + 1] \notin DOMAIN DigitOf

LEMMA NumberIsRead ==
  ASSUME NEW in \in Seq(Char)
  PROVE  \E t \in Nat, d \in Nat :
           /\ NumberRead(in, t, d)
           /\ SubSeq(in, t + 1, t + d) \in Seq(DOMAIN DigitOf)
           /\ ReadNumber(in).eof <=> d = Len(in) - t
           /\ ReadNumber(in).ok <=> d > 0 /\ (d = Len(in) - t \/ in[t + d + 1] \in {"eol", "end"})
           /\ ReadNumber(in).value = Number(SubSeq(in, t + 1, t + d))
<1>1. PICK m \in Nat : m = Len(in) /\ DOMAIN in = 1..m
  OBVIOUS
<1>2. PICK t : t = Taken(in, Len(in), Char \ {"eol"}) /\ Stops(in, Len(in), Char \ {"eol"}, t)
  BY <1>1, TakenStops
<1>3. t \in 0..m /\ (\A i \in 1..t : in[i] = "eol") /\ (t = m \/ in[t + 1] # "eol")
  <2>1. \A i \in 1..m : in[i] \in Char
    BY <1>1, ElementOfSeq
  <2>2. t \in 0..m /\ (\A i \in 1..t : in[i] \notin Char \ {"eol"}) /\ (t = m \/ in[t + 1] \in Char \ {"eol"})
    BY <1>1, <1>2 DEF Stops
  <2>3. \A i \in 1..t : i \in 1..m
    BY <2>2
  <2> QED BY <2>1, <2>2, <2>3
<1> DEFINE s == SubSeq(in, 1 + t, Len(in))
<1>4. s \in Seq(Char) /\ Len(s) = m - t /\ \A i \in 1..(m - t) : s[i] = in[t + i]
  <2>1. \A i \in (1 + t)..m : in[i] \in Char
    <3>1. \A i \in (1 + t)..m : i \in 1..m
      BY <1>3
    <3> QED BY <1>1, <3>1, ElementOfSeq
  <2>2. /\ SubSeq(in, 1 + t, m) \in Seq(Char)
        /\ Len(SubSeq(in, 1 + t, m)) = IF 1 + t <= m THEN m - (1 + t) + 1 ELSE 0
        /\ \A i \in 1..(m - (1 + t) + 1) : SubSeq(in, 1 + t, m)[i] = in[(1 + t) + i - 1]
    BY <1>1, <1>3, <2>1, SubSeqProperties
  <2>3. m - (1 + t) + 1 = m - t /\ (~(1 + t <= m) => m - t = 0) /\ \A i \in 1..(m - t) : (1 + t) + i - 1 = t + i
    BY <1>3
  <2> QED BY <1>1, <2>2, <2>3
<1> HIDE DEF s
<1>5. PICK d : d = Taken(s, Len(s), Char \ DOMAIN DigitOf) /\ Stops(s, Len(s), Char \ DOMAIN DigitOf, d)
  BY <1>3, <1>4, TakenStops
<1>6. /\ d \in 0..(m - t) /\ \A i \in 1..d : s[i] \in DOMAIN DigitOf
      /\ d = m - t \/ s[d + 1] \notin DOMAIN DigitOf
  <2>1. /\ d \in 0..(m - t) /\ \A i \in 1..d : s[i] \notin Char \ DOMAIN DigitOf
        /\ d = m - t \/ s[d + 1] \in Char \ DOMAIN DigitOf
    BY <1>4, <1>5 DEF Stops
  <2>2. \A i \in 1..d : s[i] \in Char
    <3>1. \A i \in 1..d : i \in 1..(m - t)
      BY <1>3, <2>1
    <3> QED BY <1>4, <3>1, ElementOfSeq
  <2> QED BY <2>1, <2>2
<1>7. t \in Nat /\ d \in Nat /\ (\A i \in 1..d : i \in 1..(m - t)) /\ (d # m - t => d + 1 \in 1..(m - t))
      /\ t + (d + 1) = t + d + 1
  BY <1>3, <1>6
<1>8. (\A i \in 1..d : s[i] = in[t + i]) /\ (d # m - t => s[d + 1] = in[t + d + 1])
  BY <1>4, <1>7
<1>9. NumberRead(in, t, d)
  BY <1>1, <1>3, <1>6, <1>8 DEF NumberRead
<1>10. SubSeq(s, 1, d) = SubSeq(in, t + 1, t + d) /\ SubSeq(in, t + 1, t + d) \in Seq(DOMAIN DigitOf)
  <2>1. \A i \in 1..d : s[i] \in DOMAIN DigitOf
    BY <1>6
  <2>2. \A i \in (t + 1)..(t + d) : in[i] \in DOMAIN DigitOf
    <3>1. \A i \in (t + 1)..(t + d) : i - t \in 1..d /\ t + (i - t) = i
      BY <1>7
    <3> QED BY <1>6, <1>8, <3>1
  <2>3. /\ SubSeq(s, 1, d) \in Seq(DOMAIN DigitOf) /\ Len(SubSeq(s, 1, d)) = d
        /\ \A i \in 1..d : SubSeq(s, 1, d)[i] = s[i]
    <3>1. /\ SubSeq(s, 1, d) \in Seq(DOMAIN DigitOf) /\ Len(SubSeq(s, 1, d)) = IF 1 <= d THEN d - 1 + 1 ELSE 0
          /\ \A i \in 1..(d - 1 + 1) : SubSeq(s, 1, d)[i] = s[1 + i - 1]
      BY <1>7, <2>1, SubSeqProperties
    <3>2. d - 1 + 1 = d /\ (~(1 <= d) => d = 0) /\ \A i \in 1..d : 1 + i - 1 = i
      BY <1>7
    <3> QED BY <3>1, <3>2
  <2>4. /\ SubSeq(in, t + 1, t + d) \in Seq(DOMAIN DigitOf) /\ Len(SubSeq(in, t + 1, t + d)) = d
        /\ \A i \in 1..d : SubSeq(in, t + 1, t + d)[i] = in[t + i]
    <3>1. /\ SubSeq(in, t + 1, t + d) \in Seq(DOMAIN DigitOf)
          /\ Len(SubSeq(in, t + 1, t + d)) = IF t + 1 <= t + d THEN (t + d) - (t + 1) + 1 ELSE 0
          /\ \A i \in 1..((t + d) - (t + 1) + 1) : SubSeq(in, t + 1, t + d)[i] = in[(t + 1) + i - 1]
      BY <1>7, <2>2, SubSeqProperties
    <3>2. (t + d) - (t + 1) + 1 = d /\ (~(t + 1 <= t + d) => d = 0) /\ \A i \in 1..d : (t + 1) + i - 1 = t + i
      BY <1>7
    <3> QED BY <3>1, <3>2
  <2> QED BY <1>8, <2>3, <2>4, SeqEqual
<1>11. /\ ReadNumber(in).eof <=> d = m - t
       /\ ReadNumber(in).ok <=> d > 0 /\ (d = m - t \/ (d > 0 /\ s[d + 1] \in {"eol", "end"}))
       /\ ReadNumber(in).value = Number(SubSeq(s, 1, d))
  BY <1>2, <1>4, <1>5 DEF ReadNumber, s
<1> QED BY <1>1, <1>7, <1>8, <1>9, <1>10, <1>11

\* The members of a document are read one by one.
LEMMA MembersAreDigits == ASSUME NEW in \in Seq(Char) PROVE Members(in) \in Seq(DOMAIN DigitOf)
<1> DEFINE n == Len(in)
           D == DOMAIN DigitOf
           rule(f) == f = [k \in 0..n |-> IF k = 0 THEN <<>>
                                          ELSE IF in[k] \in D THEN Append(f[k - 1], in[k]) ELSE f[k - 1]]
           step == [a \in Seq(D) \X (1..n) |-> IF in[a[2]] \in D THEN Append(a[1], in[a[2]]) ELSE a[1]]
           value == CHOOSE f : rule(f)
<1>1. n \in Nat
  OBVIOUS
<1> HIDE DEF D, n
<1>2. step \in [Seq(D) \X (1..n) -> Seq(D)]
  <2> SUFFICES ASSUME NEW a \in Seq(D) \X (1..n)
               PROVE  (IF in[a[2]] \in D THEN Append(a[1], in[a[2]]) ELSE a[1]) \in Seq(D)
    OBVIOUS
  <2>1. PICK v \in Seq(D), k \in 1..n : a = <<v, k>>
    OBVIOUS
  <2>2. in[k] \in D => Append(v, in[k]) \in Seq(D)
    OBVIOUS
  <2> QED BY <2>1, <2>2
<1> HIDE DEF step
<1>3. PICK f \in [0..n -> Seq(D)] : f[0] = <<>> /\ \A k \in 1..n : f[k] = step[<<f[k - 1], k>>]
  <2>1. <<>> \in Seq(D)
    OBVIOUS
  <2>2. \E f : Iterates(f, n, Seq(D), <<>>, step)
    BY <1>1, <1>2, <2>1, Iteration
  <2> QED BY <2>2 DEF Iterates
<1>4. ASSUME NEW k \in 1..n PROVE f[k] = IF in[k] \in D THEN Append(f[k - 1], in[k]) ELSE f[k - 1]
  <2>1. f[k - 1] \in Seq(D)
    BY <1>1
  <2>2. step[<<f[k - 1], k>>] = IF in[k] \in D THEN Append(f[k - 1], in[k]) ELSE f[k - 1]
    BY <2>1 DEF step
  <2> QED BY <2>2, <1>3
<1>5. rule(f)
  <2> DEFINE then(k) == IF in[k] \in D THEN Append(f[k - 1], in[k]) ELSE f[k - 1]
  <2>1. \A k \in 0..n : f[k] = IF k = 0 THEN <<>> ELSE then(k)
    <3>1. \A k \in 1..n : f[k] = then(k)
      BY <1>4
    <3>2. \A k \in 0..n : k = 0 \/ k \in 1..n
      BY <1>1
    <3> HIDE DEF then
    <3> QED BY <1>3, <3>1, <3>2
  <2>2. f = [k \in 0..n |-> f[k]]
    BY <1>3
  <2> HIDE DEF then
  <2>3. f = [k \in 0..n |-> IF k = 0 THEN <<>> ELSE then(k)]
    BY <2>1, <2>2, Zenon
  <2> QED BY <2>3 DEF then
<1>6. rule(value)
  <2> HIDE DEF rule
  <2> QED BY <1>5
<1>7. /\ value[0] = <<>>
      /\ \A k \in 1..n : value[k] = IF in[k] \in D THEN Append(value[k - 1], in[k]) ELSE value[k - 1]
  <2> DEFINE then(k) == IF in[k] \in D THEN Append(value[k - 1], in[k]) ELSE value[k - 1]
  <2>1. value = [k \in 0..n |-> IF k = 0 THEN <<>> ELSE then(k)]
    BY <1>6
  <2> HIDE DEF value
  <2>2. \A k \in 1..n : value[k] = then(k)
    <3> HIDE DEF then
    <3> QED BY <1>1, <2>1
  <2>3. value[0] = <<>>
    <3> HIDE DEF then
    <3> QED BY <1>1, <2>1
  <2> QED BY <2>2, <2>3
<1>8. \A k \in 0..n : value[k] \in Seq(D)
  <2> DEFINE Digital == {k \in 0..n : value[k] \in Seq(D)}
  <2> HIDE DEF value
  <2>1. 0 \in Digital
    <3>1. <<>> \in Seq(D) /\ 0 \in 0..n
      BY <1>1
    <3> QED BY <1>7, <3>1, Zenon
  <2>2. ASSUME NEW k \in 0..(n - 1), k \in Digital
        PROVE  k + 1 \in Digital
    <3>1. k + 1 \in 1..n /\ k + 1 - 1 = k /\ value[k] \in Seq(D)
      BY <1>1, <2>2
    <3>2. value[k + 1] = IF in[k + 1] \in D THEN Append(value[k], in[k + 1]) ELSE value[k]
      BY <3>1, <1>7
    <3>3. value[k + 1] \in Seq(D)
      BY <3>1, <3>2
    <3> QED BY <3>1, <3>3
  <2>3. \A k \in 0..n : k \in Digital
    <3> HIDE DEF Digital
    <3> QED BY <1>1, <2>1, <2>2, Induction
  <2> QED BY <2>3
<1>9. Members(in) = value[n]
  BY DEF Members, n, D
<1> HIDE DEF value
<1> QED BY <1>1, <1>8, <1>9 DEF D

\* The first part of a text.
LEMMA Prefix ==
  ASSUME NEW S, NEW text \in Seq(S), NEW k \in 0..Len(text)
  PROVE  /\ SubSeq(text, 1, k) \in Seq(S) /\ Len(SubSeq(text, 1, k)) = k
         /\ \A i \in 1..k : SubSeq(text, 1, k)[i] = text[i]
<1>1. PICK n \in Nat : n = Len(text) /\ k \in Nat /\ k <= n
  OBVIOUS
<1>2. \A i \in 1..k : text[i] \in S
  <2>1. \A i \in 1..k : i \in 1..n
    BY <1>1
  <2> QED BY <1>1, <2>1, ElementOfSeq
<1>3. /\ SubSeq(text, 1, k) \in Seq(S) /\ Len(SubSeq(text, 1, k)) = IF 1 <= k THEN k - 1 + 1 ELSE 0
      /\ \A i \in 1..(k - 1 + 1) : SubSeq(text, 1, k)[i] = text[1 + i - 1]
  BY <1>1, <1>2, SubSeqProperties
<1>4. k - 1 + 1 = k /\ (~(1 <= k) => k = 0) /\ \A i \in 1..k : 1 + i - 1 = i
  BY <1>1
<1> QED BY <1>3, <1>4

LEMMA PrefixOfPrefix ==
  ASSUME NEW S, NEW text \in Seq(S), NEW k \in 0..Len(text), NEW d \in 0..k
  PROVE  SubSeq(SubSeq(text, 1, k), 1, d) = SubSeq(text, 1, d)
<1> DEFINE line == SubSeq(text, 1, k)
<1>1. line \in Seq(S) /\ Len(line) = k /\ \A i \in 1..k : line[i] = text[i]
  BY Prefix
<1>2. d \in 0..Len(line) /\ d \in 0..Len(text) /\ \A i \in 1..d : i \in 1..k
  BY <1>1
<1> HIDE DEF line
<1>3. /\ SubSeq(line, 1, d) \in Seq(S) /\ Len(SubSeq(line, 1, d)) = d
      /\ \A i \in 1..d : SubSeq(line, 1, d)[i] = line[i]
  BY <1>1, <1>2, Prefix
<1>4. /\ SubSeq(text, 1, d) \in Seq(S) /\ Len(SubSeq(text, 1, d)) = d
      /\ \A i \in 1..d : SubSeq(text, 1, d)[i] = text[i]
  BY <1>2, Prefix
<1>5. SubSeq(line, 1, d) = SubSeq(text, 1, d)
  BY <1>1, <1>2, <1>3, <1>4, SeqEqual
<1> QED BY <1>5 DEF line

\* The line the payload is, when its length is not declared.
LEMMA FirstLineIs ==
  ASSUME NEW text \in Seq(Char), NEW k, Stops(text, Len(text), {"eol"}, k)
  PROVE  FirstLine(text) = SubSeq(text, 1, k)
<1> DEFINE Ends(i) == i \in 0..Len(text) /\ (\A j \in 1..i : text[j] # "eol") /\ (i = Len(text) \/ text[i + 1] = "eol")
<1>1. Len(text) \in Nat
  OBVIOUS
<1>2. Ends(k)
  BY <1>1 DEF Stops
<1>3. ASSUME NEW i, Ends(i) PROVE i = k
  <2>1. Stops(text, Len(text), {"eol"}, i)
    BY <1>1, <1>3 DEF Stops
  <2> QED BY <1>1, <2>1, StopsOnce
<1> DEFINE l == CHOOSE i \in 0..Len(text) : (\A j \in 1..i : text[j] # "eol") /\ (i = Len(text) \/ text[i + 1] = "eol")
<1>4. Ends(l)
  BY <1>2
<1>5. l = k
  BY <1>3, <1>4
<1>6. FirstLine(text) = SubSeq(text, 1, l)
  BY DEF FirstLine
<1> HIDE DEF l
<1> QED BY <1>5, <1>6

\* A number is stored as its client meant it.
LEMMA NumberAsSubmitted ==
  ASSUME NEW r \in Request, PlainNumber(r), NEW n, Kind[n] \in {"num", "func", "array", "items"},
         ReadNumber(r.body).ok
  PROVE  Submitted(n, r) = <<ReadNumber(r.body).value>>
<1> DEFINE in   == r.body
           line == FirstLine(in)
<1>1. PICK m \in Nat : m = Len(in) /\ in \in Seq(Char) /\ DOMAIN in = 1..m
  BY DEF Request
<1>2. PICK t \in Nat, d \in Nat :
         /\ NumberRead(in, t, d)
         /\ SubSeq(in, t + 1, t + d) \in Seq(DOMAIN DigitOf)
         /\ ReadNumber(in).ok <=> d > 0 /\ (d = Len(in) - t \/ in[t + d + 1] \in {"eol", "end"})
         /\ ReadNumber(in).value = Number(SubSeq(in, t + 1, t + d))
  BY <1>1, NumberIsRead
<1>3. t = 0
  <2>1. t <= m /\ \A i \in 1..t : in[i] = "eol"
    BY <1>1, <1>2 DEF NumberRead
  <2>2. ASSUME t > 0 PROVE FALSE
    <3>1. in[1] = "eol" /\ in # <<>>
      BY <1>1, <2>1, <2>2
    <3> QED BY <3>1 DEF PlainNumber
  <2> QED BY <2>2
<1>4. /\ d > 0 /\ d <= m /\ \A i \in 1..d : in[i] \in DOMAIN DigitOf
      /\ d = m \/ in[d + 1] \in {"eol", "end"}
      /\ t + 1 = 1 /\ t + d = d
  <2>1. /\ d \in 0..(m - t) /\ \A i \in 1..d : in[t + i] \in DOMAIN DigitOf
        /\ d > 0 /\ (d = m - t \/ in[t + d + 1] \in {"eol", "end"})
    BY <1>1, <1>2 DEF NumberRead
  <2>2. m - t = m /\ t + d + 1 = d + 1 /\ t + 1 = 1 /\ t + d = d /\ \A i \in 1..d : t + i = i
    BY <1>3
  <2> QED BY <2>1, <2>2
<1> DEFINE digits == SubSeq(in, 1, d)
<1>5. digits \in Seq(DOMAIN DigitOf) /\ ReadNumber(in).value = Number(digits)
  BY <1>2, <1>4
<1>6. \A c \in DOMAIN DigitOf : c # "eol" /\ c # "end"
  BY DEF DigitOf
<1>7. PICK e : Stops(in, Len(in), {"eol"}, e)
  BY <1>1, TakenStops
<1>8. /\ e \in 0..m /\ \A i \in 1..e : in[i] # "eol"
      /\ e = m \/ in[e + 1] = "eol"
  BY <1>1, <1>7 DEF Stops
<1>9. line = SubSeq(in, 1, e)
  BY <1>1, <1>7, FirstLineIs
<1> HIDE DEF line
<1>10. /\ line \in Seq(Char) /\ Len(line) = e /\ DOMAIN line = 1..e
       /\ \A i \in 1..e : line[i] = in[i]
  BY <1>1, <1>8, <1>9, Prefix
<1>11. d <= e
  <2>1. ASSUME e < d PROVE FALSE
    <3>1. e + 1 \in 1..d /\ e # m
      BY <1>4, <1>8, <2>1
    <3> QED BY <1>4, <1>6, <1>8, <3>1
  <2> QED BY <1>8, <2>1
<1>12. SubSeq(line, 1, d) = digits
  BY <1>1, <1>8, <1>9, <1>11, PrefixOfPrefix
<1>13. Unbracketed(line) = digits
  <2>1. CASE d = e
    <3>1. line[Len(line)] # "end"
      BY <1>4, <1>6, <1>10, <2>1
    <3>2. line = SubSeq(line, 1, d)
      BY <1>9, <1>12, <2>1
    <3> QED BY <1>12, <3>1, <3>2 DEF Unbracketed
  <2>2. CASE d < e
    <3>1. d # m /\ d + 1 \in 1..e
      BY <1>8, <2>2
    <3>2. in[d + 1] = "end"
      BY <1>4, <1>8, <3>1
    <3>3. line[d + 1] = "end" /\ d + 1 = Len(line)
      BY <1>10, <3>1, <3>2 DEF PlainNumber, line
    <3>4. line # <<>> /\ Len(line) - 1 = d
      BY <1>10, <3>1, <3>3
    <3> QED BY <1>12, <3>3, <3>4 DEF Unbracketed
  <2> QED BY <1>8, <1>11, <2>1, <2>2
<1>14. Payload(r) = line
  BY DEF PlainNumber, line
<1>15. Range(digits) \subseteq DOMAIN DigitOf
  BY <1>5 DEF Range
<1> HIDE DEF digits
<1>16. Submitted(n, r) = <<Number(digits)>>
  BY <1>13, <1>14, <1>15 DEF Submitted
<1> QED BY <1>5, <1>16

-----------------------------------------------------------------------------
\* The data behind the nodes.  A put leaves the variable its shape, and touches it only
\* when the request has the type of the node; of a vector, the item of the request only.
LEMMA PutKeepsShape ==
  ASSUME NEW n, NEW requ, NEW resp, NEW value, NEW in, Fits(n, value)
  PROVE  Fits(n, Put(n, requ, resp, value, in).value)
<1> DEFINE new == Put(n, requ, resp, value, in).value
<1>1. Fits(n, Refused(value, resp, Not_Found).value) /\ \A st : Refused(value, resp, st).value = value
  BY DEF Refused, Outcome
<1>2. CASE Kind[n] = "text"
  <2>1. \A k : DOMAIN Stored(value, in, k) = DOMAIN value
    BY DEF Stored
  <2>2. PutText(n, requ, resp, value, in).value = value \/ DOMAIN PutText(n, requ, resp, value, in).value = DOMAIN value
    BY <1>1, <2>1 DEF PutText, Outcome
  <2>3. new = value \/ new = PutText(n, requ, resp, value, in).value
    BY <1>1, <1>2 DEF Put, IsVector
  <2> QED BY <1>2, <2>2, <2>3 DEF Fits
<1>3. CASE Kind[n] = "octets"
  <2>1. \A k : LET o == [data |-> Stored(value.data, in, k), len |-> k]
               IN  DOMAIN o = {"data", "len"} /\ DOMAIN o.data = DOMAIN value.data
    BY DEF Stored
  <2>2. \/ PutOctets(n, requ, resp, value, in).value = value
        \/ /\ DOMAIN PutOctets(n, requ, resp, value, in).value = {"data", "len"}
           /\ DOMAIN PutOctets(n, requ, resp, value, in).value.data = DOMAIN value.data
    BY <1>1, <2>1 DEF PutOctets, Outcome
  <2>3. new = value \/ new = PutOctets(n, requ, resp, value, in).value
    BY <1>1, <1>3 DEF Put, IsVector
  <2> QED BY <1>3, <2>2, <2>3 DEF Fits
<1>4. CASE IsVector(n)
  <2>1. PutItem(n, requ, resp, value, in).value = value \/ DOMAIN PutItem(n, requ, resp, value, in).value = DOMAIN value
    BY <1>1 DEF PutItem, Outcome
  <2>2. new = value \/ new = PutItem(n, requ, resp, value, in).value
    BY <1>1, <1>4 DEF Put, IsVector
  <2> QED BY <1>4, <2>1, <2>2 DEF Fits, IsVector
<1>5. CASE Kind[n] = "json"
  <2>1. DOMAIN PutJson(n, requ, resp, value, in).value = DOMAIN value
    BY DEF PutJson, Outcome
  <2>2. new = value \/ new = PutJson(n, requ, resp, value, in).value
    BY <1>1, <1>5 DEF Put, IsVector
  <2> QED BY <1>5, <2>1, <2>2 DEF Fits
<1>6. CASE Kind[n] \notin {"text", "octets", "json"} /\ ~IsVector(n)
  BY <1>6 DEF Fits, IsVector
<1> QED BY <1>2, <1>3, <1>4, <1>5, <1>6

LEMMA PutTouches ==
  ASSUME NEW n, NEW requ, NEW resp, NEW value, NEW in,
         Put(n, requ, resp, value, in).value # value
  PROVE  /\ requ.ctype = Media[n]
         /\ IsVector(n) => \A i \in DOMAIN value :
              Put(n, requ, resp, value, in).value[i] # value[i] => i = requ.identity
<1>1. \A st : Refused(value, resp, st).value = value
  BY DEF Refused, Outcome
<1>2. requ.ctype = Media[n]
  BY <1>1 DEF Put
<1>3. ASSUME IsVector(n), NEW i \in DOMAIN value, i # requ.identity
      PROVE  Put(n, requ, resp, value, in).value[i] = value[i]
  <2>1. Put(n, requ, resp, value, in).value = PutItem(n, requ, resp, value, in).value
    BY <1>2, <1>3 DEF Put, IsVector
  <2>2. PutItem(n, requ, resp, value, in).value[i] = value[i]
    BY <1>1, <1>3 DEF PutItem, Outcome
  <2> QED BY <2>1, <2>2
<1> QED BY <1>2, <1>3

Shaped == DOMAIN store = Nodes /\ \A n \in Nodes : Fits(n, store[n])

\* Only processing a PUT or a POST writes, and then to the target.
Writing ==
  /\ phase = "body" /\ msg.target # NoNode /\ msg.requ.method \in {"PUT", "POST"}
  /\ store' = [store EXCEPT ![msg.target] = AfterPut(Prepared).value]

LEMMA WhoWrites == [Next]_vars => UNCHANGED store \/ Writing
<1> SUFFICES ASSUME [Next]_vars PROVE UNCHANGED store \/ Writing
  OBVIOUS
<1>1. ASSUME NEW c \in Conns, (\E r \in Requests : Send(c, r)) \/ Receive(c) \/ Drop(c)
      PROVE  UNCHANGED store
  BY <1>1 DEF Send, Receive, Drop, server
<1>2. Parse => UNCHANGED store
  BY DEF Parse, ReadMethod, NoMessage, NoMethod, ReadTarget, ReadVersion, ReadHeader, ReadBlank, ReadStray,
         EndOfInput, Consume, KeepRest
<1>3. Process => UNCHANGED store \/ Writing
  BY DEF Process, ProcessPut, ProcessPost, ProcessGet, ProcessOther, SkipProcess, NoTarget, Ready, Posts, Writing
<1>4. Finish \/ Session => UNCHANGED store
  BY DEF Finish, Pause, Fail, Succeed, BadMessage, Return, Session, AwaitRest, KeepOpen, Ignore, Close, Deliver
<1>5. UNCHANGED vars => UNCHANGED store
  BY DEF vars, server
<1> QED BY <1>1, <1>2, <1>3, <1>4, <1>5 DEF Next, Service, Quiescent

LEMMA ShapedInit == Init => Shaped
BY ServiceAssumption DEF Init, Shaped

LEMMA ShapedStep == Shaped /\ [Next]_vars => Shaped'
<1> SUFFICES ASSUME Shaped, [Next]_vars PROVE Shaped'
  OBVIOUS
<1>1. CASE UNCHANGED store
  BY <1>1 DEF Shaped
<1>2. CASE Writing
  <2> DEFINE new == AfterPut(Prepared).value
  <2>1. DOMAIN store' = Nodes /\ \A n \in Nodes : store'[n] = IF n = msg.target THEN new ELSE store[n]
    BY <1>2 DEF Writing, Shaped
  <2>2. Prepared.target = msg.target \/ msg.target \notin Nodes
    BY DEF Prepared
  <2>3. ASSUME NEW n \in Nodes, n = msg.target PROVE Fits(n, new)
    BY <2>2, <2>3, PutKeepsShape DEF AfterPut, Shaped
  <2> HIDE DEF new
  <2> QED BY <2>1, <2>3 DEF Shaped
<1> QED BY <1>1, <1>2, WhoWrites

\* A step that changes data does so for the request being served: an upload to that
\* node, in its media type, and of a vector only the item that the path names, also
\* when the head came in an earlier packet.  (node_base::process, NodeIndexedVector)
THEOREM DataBelongsToTarget ==
  ASSUME ClearOnKeep, RegularRequests, NumbersAreNoNames
  PROVE  Spec => OnlyTargetChanges
<1> DEFINE Touches(n) == store'[n] # store[n] =>
             /\ serving # NoConn /\ sent[serving] # NoRequest
             /\ n = Lookup(sent[serving].target)
             /\ sent[serving].method \in {"PUT", "POST"}
             /\ DeclaredType(sent[serving]) = Media[n]
             /\ IsVector(n) => \A i \in DOMAIN store[n] :
                  store'[n][i] # store[n][i] => i = DeclaredIdentity(sent[serving])
<1>1. Init => Serving /\ Shaped
  BY ServingInit, ShapedInit
<1>2. Serving /\ Shaped /\ [Next]_vars => (Serving /\ Shaped)'
  BY ServingStep, ShapedStep
<1>3. Serving /\ Shaped /\ [Next]_vars => [\A n \in Nodes : Touches(n)]_vars
  <2> SUFFICES ASSUME Serving, Shaped, [Next]_vars, NEW n \in Nodes, store'[n] # store[n]
               PROVE  Touches(n)
    OBVIOUS
  <2> DEFINE new == AfterPut(Prepared).value
  <2>1. Writing
    BY WhoWrites
  <2>2. serving \in Conns /\ serving # NoConn /\ Reading(serving) /\ GoodMsg(msg)
    BY <2>1 DEF Writing, Serving, Clean, Framing, Served, Progress
  <2>3. HeadIs(msg, sent[serving]) /\ sent[serving] # NoRequest
    BY <2>2, ServiceAssumption DEF Reading
  <2>4. n = msg.target /\ store'[n] = new
    BY <2>1 DEF Writing, Shaped
  <2>5. /\ Prepared.target = msg.target /\ Prepared.requ.ctype = msg.requ.ctype
        /\ Prepared.requ.identity = msg.requ.identity
    BY <2>2 DEF Prepared, GoodMsg, RequFields
  <2>6. new = Put(n, Prepared.requ, Prepared.resp, store[n], Chars(input)).value
    BY <2>4, <2>5 DEF AfterPut
  <2>7. /\ Prepared.requ.ctype = Media[n]
        /\ IsVector(n) => \A i \in DOMAIN store[n] : new[i] # store[n][i] => i = Prepared.requ.identity
    BY <2>4, <2>6, PutTouches
  <2> HIDE DEF new
  <2>8. /\ n = Lookup(sent[serving].target) /\ sent[serving].method \in {"PUT", "POST"}
        /\ DeclaredType(sent[serving]) = Media[n]
        /\ Prepared.requ.identity = DeclaredIdentity(sent[serving])
    BY <2>1, <2>3, <2>4, <2>5, <2>7 DEF Writing, HeadIs
  <2> QED BY <2>2, <2>3, <2>4, <2>7, <2>8
<1> QED BY <1>1, <1>2, <1>3, PTL DEF Spec, OnlyTargetChanges

-----------------------------------------------------------------------------
\* What a provider gets to read: the characters of the body that have arrived.
LEMMA BodyRead ==
  ASSUME NEW r \in Request, NEW tokens, NEW n, IsPart(tokens, r, HeadLength(r), n)
  PROVE  /\ Chars(tokens) \in Seq(Char) /\ Len(Chars(tokens)) = n - HeadLength(r)
         /\ n - HeadLength(r) \in 0..Len(r.body)
         /\ \A i \in 1..(n - HeadLength(r)) : Chars(tokens)[i] = r.body[i]
         /\ n = RequestLength(r) => Chars(tokens) = r.body
<1>1. PICK h \in Nat, l \in Nat, b \in Nat : /\ h = HeadLength(r) /\ b = Len(r.body)
                                           /\ l = RequestLength(r) /\ l = h + b
  BY RequestLengths
<1>2. h <= n /\ n <= l /\ n \in Nat /\ tokens \in Seq(Token) /\ Len(tokens) = n - h
  BY <1>1 DEF IsPart
<1>3. PICK k \in Nat : k = n - h /\ k <= b /\ DOMAIN tokens = 1..k
  BY <1>1, <1>2
<1>4. ASSUME NEW i \in 1..k PROVE tokens[i] = [t |-> "char", val |-> r.body[i]]
  <2>1. h + i \in 1..RequestLength(r) /\ h + i > HeadLength(r) /\ (h + i) - HeadLength(r) = i
    BY <1>1, <1>3
  <2>2. Tokens(r)[h + i] = [t |-> "char", val |-> r.body[(h + i) - HeadLength(r)]]
    BY <2>1, TokenKinds
  <2>3. tokens[i] = Tokens(r)[h + i]
    BY <1>1, <1>3 DEF IsPart
  <2> QED BY <2>1, <2>2, <2>3
<1>5. Chars(tokens) = [i \in 1..k |-> r.body[i]]
  <2>1. ASSUME NEW i \in 1..k PROVE tokens[i].t = "char" /\ tokens[i].val = r.body[i]
    <3>1. tokens[i] = [t |-> "char", val |-> r.body[i]]
      BY <1>4
    <3> QED BY <3>1
  <2> QED BY <1>3, <2>1 DEF Chars
<1>6. r.body \in Seq(Char) /\ r.body = [i \in 1..b |-> r.body[i]]
  BY <1>1 DEF Request
<1>7. \A i \in 1..k : r.body[i] \in Char
  <2>1. \A i \in 1..k : i \in 1..b
    BY <1>1, <1>3
  <2> QED BY <1>1, <1>6, <2>1, ElementOfSeq
<1>8. Chars(tokens) \in Seq(Char) /\ Len(Chars(tokens)) = k
  BY <1>5, <1>7
<1>9. n = l => k = b
  BY <1>1, <1>3
<1> QED BY <1>1, <1>3, <1>5, <1>6, <1>8, <1>9

LEMMA LastFieldIs ==
  ASSUME NEW r \in Request, NEW name, Declares(r, name)
  PROVE  LastField(r, name) \in HeaderLine
<1>1. PICK n \in Nat : n = Len(r.headers) /\ DOMAIN r.headers = 1..n /\ r.headers \in Seq(HeaderLine)
  BY DEF Request
<1>2. FieldsNamed(r, name) \subseteq 1..n /\ FieldsNamed(r, name) # {}
  BY <1>1 DEF FieldsNamed, Declares
<1>3. FieldsNamed(r, name) \subseteq 0..n
  BY <1>2
<1>4. \E i \in FieldsNamed(r, name) : \A j \in FieldsNamed(r, name) : j <= i
  BY <1>2, <1>3, GreatestMember
<1> DEFINE k == CHOOSE i \in FieldsNamed(r, name) : \A j \in FieldsNamed(r, name) : j <= i
<1>5. k \in FieldsNamed(r, name)
  BY <1>4
<1>6. k \in 1..n
  BY <1>2, <1>5
<1> QED BY <1>1, <1>6, ElementOfSeq DEF LastField

\* A whole body is not taken for a fragment: the end of the input is met only where a
\* number of a POST has no other end, which is answered by get.
LEMMA WholeBodyEnds ==
  ASSUME NEW r \in Request, Complete(r), r.method \in {"PUT", "POST"},
         NEW m, HeadIs(m, r), m.target \in Nodes, m.target # NoNode, NEW resp, NEW value,
         Put(m.target, m.requ, resp, value, r.body).eof
  PROVE  LET o == Put(m.target, m.requ, resp, value, r.body)
         IN  /\ r.method = "POST" /\ PostAsPutGet
             /\ o.resp = SetStatus(resp, No_Content)
             /\ Kind[m.target] \in {"num", "func", "array", "items"}
             /\ Kind[m.target] = "num" => o.value # Absent
             /\ IsVector(m.target) => HasItem(m.target, m.requ)
<1> DEFINE n     == m.target
           requ  == m.requ
           sized == Declares(r, "Content-Length")
<1>1. PICK b \in Nat : b = Len(r.body) /\ r.body \in Seq(Char) /\ DOMAIN r.body = 1..b
  BY DEF Request
<1>2. n = Lookup(r.target) /\ (Has(requ, "content_length") <=> sized)
  BY DEF HeadIs
<1>3. sized => requ.clen \in Nat /\ requ.clen = LastField(r, "Content-Length").len
  <2>1. sized => LastField(r, "Content-Length") \in HeaderLine
    BY LastFieldIs
  <2> QED BY <2>1 DEF HeadIs, HeaderLine
<1>4. \A st : ~Refused(value, resp, st).eof
  BY DEF Refused, Outcome
<1>5. Size[n] \in Nat
  BY NodesAssumption
<1>6. ASSUME NEW limit \in Nat, NEW stops, HitsEnd(r.body, limit, Taken(r.body, limit, stops))
      PROVE  b < limit /\ \A i \in 1..b : r.body[i] \notin stops
  <2>1. Stops(r.body, limit, stops, Taken(r.body, limit, stops))
    BY <1>1, TakenStops
  <2> QED BY <1>1, <1>6, <2>1 DEF Stops, HitsEnd
<1>7. CASE Kind[n] = "octets"
  <2>1. sized => requ.clen <= b
    BY <1>1, <1>2, <1>3, <1>7 DEF Complete
  <2>2. PutOctets(n, requ, resp, value, r.body).eof
    BY <1>4, <1>7 DEF Put, IsVector
  <2>3. sized /\ Taken(r.body, requ.clen, {}) < requ.clen
    BY <1>2, <1>4, <2>2 DEF PutOctets, Outcome
  <2>4. Stops(r.body, requ.clen, {}, Taken(r.body, requ.clen, {}))
    BY <1>1, <1>3, <2>3, TakenStops
  <2>5. FALSE
    BY <1>1, <1>3, <2>1, <2>3, <2>4 DEF Stops
  <2> QED BY <2>5
<1>8. CASE Kind[n] = "text"
  <2> DEFINE limit == IF sized THEN requ.clen ELSE Size[n]
             stops == IF sized THEN {} ELSE {"eol"}
  <2>1. PutText(n, requ, resp, value, r.body).eof
    BY <1>4, <1>8 DEF Put, IsVector
  <2>2. HitsEnd(r.body, limit, Taken(r.body, limit, stops))
    BY <1>2, <1>4, <2>1 DEF PutText, Outcome
  <2>3. limit \in Nat
    BY <1>3, <1>5
  <2>4. b < limit /\ \A i \in 1..b : r.body[i] \notin stops
    BY <1>6, <2>2, <2>3
  <2>5. IF sized THEN requ.clen <= b ELSE \E i \in 1..b : r.body[i] = "eol"
    BY <1>1, <1>2, <1>3, <1>8 DEF Complete
  <2>6. FALSE
    BY <1>1, <2>3, <2>4, <2>5
  <2> QED BY <2>6
<1>9. CASE Kind[n] = "action"
  <2> DEFINE counted == Size[n] > 0 /\ sized
             limit   == IF counted THEN requ.clen ELSE Size[n]
  <2>1. PutAction(n, requ, resp, value, r.body).eof
    BY <1>4, <1>9 DEF Put, IsVector
  <2>2. HitsEnd(r.body, limit, Taken(r.body, limit, {"eol"}))
    BY <1>2, <1>4, <2>1 DEF PutAction, Outcome
  <2>3. limit \in Nat
    BY <1>3, <1>5
  <2>4. b < limit /\ \A i \in 1..b : r.body[i] # "eol"
    BY <1>6, <2>2, <2>3
  <2>5. IF sized THEN requ.clen <= b ELSE \E i \in 1..b : r.body[i] = "eol"
    BY <1>1, <1>2, <1>3, <1>9 DEF Complete
  <2>6. FALSE
    BY <1>1, <1>5, <2>3, <2>4, <2>5
  <2> QED BY <2>6
<1>10. CASE Kind[n] = "json"
  <2>1. PutJson(n, requ, resp, value, r.body).eof
    BY <1>4, <1>10 DEF Put, IsVector
  <2>2. Taken(r.body, Len(r.body), {"x", "end"}) = Len(r.body)
    BY <2>1 DEF PutJson, Outcome
  <2>3. Stops(r.body, Len(r.body), {"x", "end"}, Taken(r.body, Len(r.body), {"x", "end"}))
    BY <1>1, TakenStops
  <2>4. \A i \in 1..b : r.body[i] \notin {"x", "end"}
    BY <1>1, <2>2, <2>3 DEF Stops
  <2>5. \E i \in 1..b : r.body[i] \in {"x", "end"}
    BY <1>1, <1>2, <1>10 DEF Complete
  <2> QED BY <2>4, <2>5
<1>11. CASE Kind[n] \in {"num", "func", "array", "items"}
  <2> DEFINE begins == {i \in 1..b : r.body[i] # "eol"}
  <2>1. PICK t \in Nat, d \in Nat :
           /\ NumberRead(r.body, t, d)
           /\ SubSeq(r.body, t + 1, t + d) \in Seq(DOMAIN DigitOf)
           /\ ReadNumber(r.body).eof <=> d = Len(r.body) - t
           /\ ReadNumber(r.body).ok <=> d > 0 /\ (d = Len(r.body) - t \/ r.body[t + d + 1] \in {"eol", "end"})
           /\ ReadNumber(r.body).value = Number(SubSeq(r.body, t + 1, t + d))
    BY <1>1, NumberIsRead
  <2>2. /\ t <= b /\ d <= b - t /\ \A i \in 1..t : r.body[i] = "eol"
        /\ \A i \in 1..d : r.body[t + i] \in DOMAIN DigitOf
    BY <1>1, <2>1 DEF NumberRead
  <2>3. ReadNumber(r.body).eof
    BY <1>4, <1>11 DEF Put, IsVector, PutNumeric, PutItem, Outcome
  <2>4. d = b - t
    BY <1>1, <2>1, <2>3
  <2>5. ASSUME NEW i \in begins, NEW j \in i..b PROVE r.body[j] \in DOMAIN DigitOf
    <3>1. i \in 1..b /\ i \notin 1..t /\ j \in Nat
      BY <2>2
    <3>2. j - t \in 1..d /\ t + (j - t) = j
      BY <2>2, <2>4, <3>1
    <3> QED BY <2>2, <3>2
  <2>6. r.method = "POST" /\ PostAsPutGet /\ \E i \in begins : r.body[i] \in DOMAIN DigitOf
    BY <1>1, <1>2, <1>11, <2>5 DEF Complete
  <2>7. ReadNumber(r.body).ok
    <3>1. PICK i \in begins : TRUE
      BY <2>6
    <3>2. i \in 1..b /\ i \notin 1..t
      BY <2>2, <3>1
    <3>3. d > 0
      BY <2>2, <2>4, <3>2
    <3> QED BY <1>1, <2>1, <2>4, <3>3
  <2>8. ReadNumber(r.body).value \in Nat /\ Absent \notin Nat
    BY <2>1, NumberIsNat, NodesAssumption
  <2>9. CASE Kind[n] \in {"num", "func"}
    <3> DEFINE o == PutNumeric(n, requ, resp, value, r.body)
    <3>1. Put(n, requ, resp, value, r.body) = o
      BY <1>4, <2>9 DEF Put, IsVector
    <3>2. o.eof => ~(Kind[n] = "num" /\ value = Absent)
      BY DEF PutNumeric, Outcome
    <3>3. o.resp = SetStatus(resp, No_Content) /\ o.value = ReadNumber(r.body).value
      BY <2>7, <3>1, <3>2 DEF PutNumeric, Outcome
    <3>4. ~IsVector(n)
      BY <2>9 DEF IsVector
    <3> QED BY <2>6, <2>8, <2>9, <3>1, <3>3, <3>4
  <2>10. CASE Kind[n] \in {"array", "items"}
    <3> DEFINE o == PutItem(n, requ, resp, value, r.body)
    <3>1. Put(n, requ, resp, value, r.body) = o
      BY <1>4, <2>10 DEF Put, IsVector
    <3>2. HasItem(n, requ)
      BY <1>4, <3>1 DEF PutItem
    <3>3. o.resp = SetStatus(resp, No_Content)
      BY <2>7, <2>10, <3>2 DEF PutItem, Outcome
    <3> QED BY <2>6, <2>10, <3>1, <3>2, <3>3
  <2> QED BY <1>11, <2>9, <2>10
<1>12. CASE Kind[n] \in {"bunch", "const", "provider", "dir"}
  <2>1. ~Put(n, requ, resp, value, r.body).eof
    BY <1>4, <1>12 DEF Put, PutItem, IsVector
  <2> QED BY <2>1
<1> QED BY <1>7, <1>8, <1>9, <1>10, <1>11, <1>12, NodesAssumption

-----------------------------------------------------------------------------
\* Where a connection has storage, nothing on the way of a request to its answer turns
\* it away: an unfinished message can be saved, all others are finished.
Spared(resp) == GoodResp(resp) /\ resp.status # Service_Unavailable

OtherCodes == StatusCodes \ {Service_Unavailable}

Ample ==
  /\ \A c \in Storage : replies[c].status # Service_Unavailable
  /\ serving \in Storage =>
       /\ reply.status # Service_Unavailable
       /\ phase # "return" => Spared(msg.resp)
       /\ phase = "finish" => msg.own \/ ~IsFragment

LEMMA OtherCodesAre ==
  {OK, No_Content, Bad_Request, Bad_Option, Not_Found, Length_Required, URI_Too_Long, Method_Not_Allowed,
   Request_Entity_Too_Large, Unsupported_Content_Format, Not_Implemented} \subseteq OtherCodes
BY DEF OtherCodes, StatusCodes, OK, No_Content, Bad_Request, Bad_Option, Not_Found, Length_Required,
   URI_Too_Long, Method_Not_Allowed, Request_Entity_Too_Large, Unsupported_Content_Format,
   Internal_Server_Error, Not_Implemented, Service_Unavailable

LEMMA OperationsSpare ==
  ASSUME NEW resp, Spared(resp), NEW st \in OtherCodes, NEW type
  PROVE  /\ Spared(SetError(resp, st)) /\ Spared(SetStatus(resp, st))
         /\ Spared(SetContentType(resp, type)) /\ Spared(FixContentType(resp, type))
         /\ Spared(SetContentLength(resp))
<1>1. st \in Status /\ st # Service_Unavailable /\ GoodResp(resp) /\ resp.status # Service_Unavailable
  BY CodesAreStatuses DEF OtherCodes, Spared
<1>2. SetError(resp, st).status # Service_Unavailable
  BY <1>1 DEF SetError
<1>3. SetStatus(resp, st).status # Service_Unavailable
  BY <1>1 DEF SetStatus, GoodResp
<1>4. SetContentLength(resp).status = resp.status
  BY <1>1 DEF SetContentLength, GoodResp
<1> QED BY <1>1, <1>2, <1>3, <1>4, ResponseOperations DEF Spared

LEMMA PutSpares ==
  ASSUME NEW n, NEW requ, NEW resp, Spared(resp), NEW value, NEW in
  PROVE  Spared(Put(n, requ, resp, value, in).resp)
<1>1. \A st \in OtherCodes : Spared(SetError(resp, st)) /\ Spared(SetStatus(resp, st))
  BY OperationsSpare
<1>2. \A st \in OtherCodes : \A v : Spared(Refused(v, resp, st).resp)
  BY <1>1 DEF Refused, Outcome
<1>3. Spared(PutText(n, requ, resp, value, in).resp)
  BY <1>1, <1>2, OtherCodesAre DEF PutText, Outcome
<1>4. Spared(PutOctets(n, requ, resp, value, in).resp)
  BY <1>1, <1>2, OtherCodesAre DEF PutOctets, Outcome
<1>5. Spared(PutNumeric(n, requ, resp, value, in).resp)
  BY <1>1, OtherCodesAre DEF PutNumeric, Outcome
<1>6. Spared(PutAction(n, requ, resp, value, in).resp)
  BY <1>1, <1>2, OtherCodesAre DEF PutAction, Outcome
<1>7. Spared(PutItem(n, requ, resp, value, in).resp)
  BY <1>1, <1>2, OtherCodesAre DEF PutItem, Outcome
<1>8. Spared(PutJson(n, requ, resp, value, in).resp)
  BY <1>1, OtherCodesAre DEF PutJson, Outcome
<1> QED BY <1>2, <1>3, <1>4, <1>5, <1>6, <1>7, <1>8, OtherCodesAre DEF Put

LEMMA GetSpares ==
  ASSUME NEW m, GoodMsg(m), Spared(m.resp), reply.status # Service_Unavailable,
         NEW values, GetReply(m, values)
  PROVE  Spared(msg'.resp) /\ reply'.status # Service_Unavailable /\ msg'.own = m.own
<1> DEFINE dir   == Kind[m.target] = "dir"
           node  == IF ~dir THEN m.target
                    ELSE IF Has(m.requ, "accept") THEN FindAccepted(m.target, m.requ.accept, m.requ.identity)
                    ELSE NoNode
           typed == IF dir THEN SetContentType(m.resp, Media[node]) ELSE m.resp
<1>1. OK \in OtherCodes /\ Not_Found \in OtherCodes /\ Method_Not_Allowed \in OtherCodes /\ Not_Implemented \in OtherCodes
  BY OtherCodesAre
<1>2. Spared(typed) /\ Spared(SetError(m.resp, Not_Found))
  BY <1>1, OperationsSpare
<1> HIDE DEF dir, node, typed
<1>3. Spared(Unreadable(node, typed))
  BY <1>1, <1>2, OperationsSpare DEF Unreadable
<1>4. Spared(GetResponse(node, typed))
  <2>1. Spared(SetStatus(typed, OK)) /\ \A type : Spared(SetContentType(SetStatus(typed, OK), type))
    BY <1>1, <1>2, OperationsSpare
  <2>2. \A type : Spared(SetContentLength(SetContentType(SetStatus(typed, OK), type)))
    BY <1>1, <2>1, OperationsSpare
  <2>3. \A type : Spared(SetStatus(SetContentType(typed, type), OK))
    BY <1>1, <1>2, OperationsSpare
  <2> QED BY <2>1, <2>2, <2>3 DEF GetResponse
<1>5. \/ msg' = [m EXCEPT !.resp = SetError(m.resp, Not_Found)] /\ reply' = reply
      \/ msg' = [m EXCEPT !.resp = Unreadable(node, typed)] /\ reply' = reply
      \/ /\ msg' = [m EXCEPT !.resp = GetResponse(node, typed), !.state = Began]
         /\ \E body : reply' = Envelope(msg', body)
  BY DEF GetReply, dir, node, typed
<1>6. ASSUME NEW resp, Spared(resp), msg' = [m EXCEPT !.resp = resp], reply' = reply
      PROVE  Spared(msg'.resp) /\ reply'.status # Service_Unavailable /\ msg'.own = m.own
  BY <1>6 DEF GoodMsg
<1>7. ASSUME msg' = [m EXCEPT !.resp = GetResponse(node, typed), !.state = Began],
             NEW body, reply' = Envelope(msg', body)
      PROVE  Spared(msg'.resp) /\ reply'.status # Service_Unavailable /\ msg'.own = m.own
  <2>1. msg'.resp = GetResponse(node, typed) /\ msg'.own = m.own
    BY <1>7 DEF GoodMsg
  <2>2. reply'.status = msg'.resp.status
    BY <1>7 DEF Envelope
  <2> QED BY <1>4, <2>1, <2>2 DEF Spared
<1> QED BY <1>2, <1>3, <1>5, <1>6, <1>7

\* The parser records errors of the client only.
LEMMA ParseSpares ==
  ASSUME GoodMsg(msg), Spared(msg.resp), Parse
  PROVE  Spared(msg'.resp) /\ reply' = reply
<1>1. \A st \in OtherCodes : Spared(SetError(msg.resp, st))
  BY OperationsSpare
<1>2. reply' = reply
  BY DEF Parse, ReadMethod, NoMessage, NoMethod, ReadTarget, ReadVersion, ReadHeader, ReadBlank, ReadStray, EndOfInput, KeepRest
<1> SUFFICES Spared(msg'.resp)
  BY <1>2
<1>3. \A h : HeaderEffect(msg, h).resp = msg.resp \/ \E st \in OtherCodes : HeaderEffect(msg, h).resp = SetError(msg.resp, st)
  BY OtherCodesAre DEF HeaderEffect, GoodMsg
<1>4. \A st : Reject(msg, st).resp = SetError(msg.resp, st)
  BY DEF Reject, GoodMsg
<1> DEFINE Mild == {Not_Implemented, Bad_Request, Bad_Option, URI_Too_Long, Not_Found}
<1>5. ASSUME msg'.resp = msg.resp \/ \E st \in Mild : msg'.resp = SetError(msg.resp, st)
      PROVE  Spared(msg'.resp)
  BY <1>1, <1>5, OtherCodesAre
<1>6. Not_Implemented \in Mild /\ Bad_Request \in Mild /\ Bad_Option \in Mild /\ URI_Too_Long \in Mild /\ Not_Found \in Mild
  OBVIOUS
<1>7. DOMAIN msg = {"state", "requ", "resp", "target", "own", "eof", "good", "result"}
  BY DEF GoodMsg
<1> HIDE DEF Mild
<1>8. CASE ReadMethod
  BY <1>4, <1>5, <1>6, <1>7, <1>8 DEF ReadMethod
<1>9. CASE NoMethod
  BY <1>4, <1>5, <1>6, <1>9 DEF NoMethod
<1>15. CASE NoMessage
  BY <1>5, <1>7, <1>15 DEF NoMessage
<1>10. CASE ReadVersion
  BY <1>4, <1>5, <1>6, <1>7, <1>10 DEF ReadVersion
<1>11. CASE EndOfInput
  BY <1>4, <1>5, <1>6, <1>11 DEF EndOfInput
<1>12. CASE ReadBlank \/ ReadStray
  BY <1>5, <1>7, <1>12 DEF ReadBlank, ReadStray
<1>13. CASE ReadTarget
  BY <1>4, <1>5, <1>6, <1>7, <1>13 DEF ReadTarget
<1>14. CASE ReadHeader
  <2>1. msg' = HeaderEffect(msg, input[1])
    BY <1>14 DEF ReadHeader
  <2>2. msg'.resp = msg.resp \/ \E st \in OtherCodes : msg'.resp = SetError(msg.resp, st)
    BY <1>3, <2>1
  <2> QED BY <1>1, <2>2
<1> QED BY <1>8, <1>9, <1>10, <1>11, <1>12, <1>13, <1>14, <1>15 DEF Parse

\* With storage, what is processed is saved when it is a fragment, and is none when it
\* cannot be saved.
LEMMA ProcessAmple ==
  ASSUME Cuts # "any", CompleteUploads, Serving, Shaped, Ample, phase = "body", Process
  PROVE  Ample'
<1>1. /\ serving \in Conns /\ Reading(serving) /\ GoodMsg(msg) /\ msg.state < Sealed /\ ~msg.eof
  BY DEF Serving, Clean, Framing, Served, Progress
<1>2. UNCHANGED <<serving, replies>> /\ phase' \in {"finish", "bad"}
  BY ServiceParts DEF client
<1>3. CASE serving \notin Storage
  BY <1>2, <1>3 DEF Ample
<1>4. CASE serving \in Storage
  <2> DEFINE r == sent[serving]
             done == PutDone(Prepared, AfterPut(Prepared))
  <2> SUFFICES /\ reply'.status # Service_Unavailable /\ Spared(msg'.resp)
               /\ phase' = "finish" => msg'.own \/ ~IsFragment'
    BY <1>2 DEF Ample
  <2>1. reply.status # Service_Unavailable /\ Spared(msg.resp)
    BY <1>4 DEF Ample
  <2>2. /\ GoodMsg(Prepared) /\ Prepared.state = msg.state /\ Prepared.eof = msg.eof
    BY <1>1, PreparedGood
  <2>3. /\ Prepared.resp = FixContentType(msg.resp, Media[msg.target]) /\ Prepared.own = msg.own
        /\ Prepared.target = msg.target /\ SameHead(msg, Prepared)
    BY <1>1 DEF Prepared, SameHead, GoodMsg, RequFields
  <2>4. Spared(Prepared.resp) /\ (Failed(Prepared.resp) <=> Failed(msg.resp))
    <3>1. OK \in OtherCodes /\ OK \in Status
      BY OtherCodesAre, CodesAreStatuses DEF OtherCodes
    <3> QED BY <1>1, <2>1, <2>3, <3>1, OperationsSpare, ResponseOperations DEF Failed, GoodMsg
  <2>5. /\ GoodMsg(done) /\ done.state = msg.state /\ done.requ = Prepared.requ
    BY <2>2, PutDoneGood
  <2>6. /\ done.resp = AfterPut(Prepared).resp /\ done.own = msg.own /\ done.target = msg.target
        /\ done.eof = AfterPut(Prepared).eof
    BY <2>2, <2>3 DEF PutDone, GoodMsg
  <2>7. Spared(done.resp)
    BY <2>4, <2>6, PutSpares DEF AfterPut
  <2>8. r \in Requests /\ r \in Request /\ Complete(r) /\ HeadIs(msg, r) /\ HeadIs(Prepared, r)
    BY <1>1, <2>3, SameHeadIs, ServiceAssumption DEF Reading, CompleteUploads
  <2>9. msg.own \/ Chars(input) = r.body
    <3>1. PICK n \in Positions(r), k \in Positions(r) :
             /\ IsPart(input, r, k, n) /\ k = HeadLength(r)
             /\ msg.own \/ n = RequestLength(r)
      BY <1>1, <1>4 DEF Reading
    <3> QED BY <2>8, <3>1, BodyRead
  <2>10. ASSUME msg.target # NoNode, msg.requ.method \in {"PUT", "POST"}, ~msg.own, AfterPut(Prepared).eof
         PROVE  /\ r.method = "POST" /\ PostAsPutGet /\ msg.target \in Nodes
                /\ done.resp = SetStatus(Prepared.resp, No_Content)
                /\ Kind[msg.target] \in {"num", "func", "array", "items"}
                /\ Kind[msg.target] = "num" => AfterPut(Prepared).value # Absent
                /\ IsVector(msg.target) => HasItem(msg.target, done.requ)
    <3>1. r.method \in {"PUT", "POST"}
      BY <2>8, <2>10 DEF HeadIs
    <3>2. msg.target \in Nodes
      <4>1. msg.target = Found(r.target).node
        BY <2>8 DEF HeadIs, Lookup
      <4>2. Found(r.target) \in Place
        BY <2>8, ItemFound DEF Request
      <4> QED BY <2>10, <4>1, <4>2 DEF Place
    <3>3. AfterPut(Prepared) = Put(msg.target, Prepared.requ, Prepared.resp, store[msg.target], r.body)
      BY <2>3, <2>9, <2>10 DEF AfterPut
    <3> QED BY <2>3, <2>5, <2>6, <2>8, <2>10, <3>1, <3>2, <3>3, WholeBodyEnds
  <2>11. msg.own = TRUE \/ msg.own = FALSE \/ msg.own \notin BOOLEAN
    OBVIOUS
  <2>12. CASE ProcessPut
    <3>1. msg' = done /\ reply' = reply /\ msg.target # NoNode /\ msg.requ.method = "PUT"
      BY <2>12 DEF ProcessPut, Ready
    <3>2. ASSUME ~msg.own PROVE ~done.eof
      <4>1. r.method = "PUT"
        BY <2>8, <3>1 DEF HeadIs
      <4> QED BY <2>6, <2>10, <3>1, <3>2, <4>1
    <3> QED BY <2>1, <2>6, <2>7, <3>1, <3>2 DEF IsFragment
  <2>13. CASE ProcessPost
    <3>1. /\ msg.target # NoNode /\ msg.requ.method = "POST" /\ ~Failed(msg.resp)
          /\ store' = [store EXCEPT ![msg.target] = AfterPut(Prepared).value]
          /\ IF PostAsPutGet /\ IsGood(done.resp) THEN GetReply(done, store') ELSE msg' = done /\ reply' = reply
      BY <2>13 DEF ProcessPost, Posts, Ready
    <3>2. Spared(msg'.resp) /\ reply'.status # Service_Unavailable /\ msg'.own = msg.own
      BY <2>1, <2>5, <2>6, <2>7, <3>1, GetSpares
    <3>3. ASSUME ~msg.own, done.eof PROVE msg'.state = Began
      <4>1. /\ PostAsPutGet /\ msg.target \in Nodes
            /\ done.resp = SetStatus(Prepared.resp, No_Content)
            /\ Kind[msg.target] \in {"num", "func", "array", "items"}
            /\ Kind[msg.target] = "num" => AfterPut(Prepared).value # Absent
            /\ IsVector(msg.target) => HasItem(msg.target, done.requ)
        BY <2>6, <2>10, <3>1, <3>3
      <4>2. IsGood(done.resp)
        BY <2>4, <3>1, <4>1 DEF SetStatus, IsGood, OK, No_Content, Bad_Request
      <4>3. GetReply(done, store') /\ Kind[done.target] # "dir"
        BY <2>6, <3>1, <4>1, <4>2
      <4>4. store'[done.target] = AfterPut(Prepared).value
        BY <2>6, <3>1, <4>1 DEF Shaped
      <4>5. Readable(done.target, done.requ, store'[done.target])
        BY <2>6, <4>1, <4>4 DEF Readable, IsVector
      <4>6. done.target # NoNode
        BY <2>6, <3>1
      <4> HIDE DEF done
      <4>7. PICK resp : msg' = [done EXCEPT !.resp = resp, !.state = Began]
        BY <4>3, <4>5, <4>6 DEF GetReply
      <4> QED BY <2>5, <4>7 DEF GoodMsg
    <3>4. msg'.eof = done.eof
      BY <1>1, <2>5, <3>1, GetReplyProgress
    <3>5. Began # Body
      BY DEF Began, Body
    <3> QED BY <3>2, <3>3, <3>4, <3>5 DEF IsFragment
  <2>14. CASE ProcessGet
    <3>1. GetReply(Prepared, store)
      BY <2>14 DEF ProcessGet
    <3>2. Spared(msg'.resp) /\ reply'.status # Service_Unavailable
      BY <2>1, <2>2, <2>4, <3>1, GetSpares
    <3>3. msg'.eof = Prepared.eof
      BY <1>1, <2>2, <3>1, GetReplyProgress
    <3> QED BY <1>1, <2>2, <3>2, <3>3 DEF IsFragment
  <2>15. CASE ProcessOther
    <3>1. msg' = [Prepared EXCEPT !.resp = SetError(Prepared.resp, Method_Not_Allowed)] /\ reply' = reply
      BY <2>15 DEF ProcessOther
    <3>2. Spared(SetError(Prepared.resp, Method_Not_Allowed))
      BY <2>4, OperationsSpare, OtherCodesAre
    <3>3. msg'.resp = SetError(Prepared.resp, Method_Not_Allowed) /\ msg'.eof = msg.eof
      BY <2>2, <3>1 DEF GoodMsg
    <3> QED BY <1>1, <2>1, <3>1, <3>2, <3>3 DEF IsFragment
  <2>16. CASE SkipProcess
    BY <1>1, <2>1, <2>16 DEF SkipProcess, IsFragment
  <2>17. CASE NoTarget
    <3>1. msg' = [msg EXCEPT !.resp = SetError(@, Not_Found)] /\ reply' = reply /\ phase' = "bad"
      BY <2>17 DEF NoTarget, Goto
    <3>2. Spared(SetError(msg.resp, Not_Found))
      BY <2>1, OperationsSpare, OtherCodesAre
    <3> QED BY <1>1, <2>1, <3>1, <3>2 DEF GoodMsg
  <2> QED BY <2>12, <2>13, <2>14, <2>15, <2>16, <2>17 DEF Process
<1> QED BY <1>3, <1>4

LEMMA FinishAmple == Serving /\ Ample /\ Finish => Ample'
<1> SUFFICES ASSUME Serving, Ample, Finish PROVE Ample'
  OBVIOUS
<1>1. GoodMsg(msg) /\ UNCHANGED <<serving, replies>> /\ phase' = "return" /\ phase # "return"
  BY ServiceParts DEF Serving, Progress, client
<1>2. (serving \in Storage => reply'.status # Service_Unavailable) => Ample'
  BY <1>1 DEF Ample
<1>3. ASSUME serving \in Storage PROVE reply'.status # Service_Unavailable
  <2>1. reply.status # Service_Unavailable /\ Spared(msg.resp)
    BY <1>1, <1>3 DEF Ample
  <2>2. \A body : Envelope(msg, body).status # Service_Unavailable
    BY <2>1 DEF Envelope, Spared
  <2>3. CASE Pause
    BY <2>1, <2>3 DEF Pause
  <2>4. CASE Fail
    <3>1. ~IsFragment
      BY <1>3, <2>4 DEF Fail, Ample
    <3> QED BY <2>1, <2>2, <2>4, <3>1 DEF Fail
  <2>5. CASE Succeed
    BY <2>1, <2>2, <2>5 DEF Succeed
  <2>6. CASE BadMessage
    <3>1. reply' = Envelope([msg EXCEPT !.resp = SetContentType(@, "plain")], <<"message">>)
      BY <2>6 DEF BadMessage
    <3>2. reply'.status = SetContentType(msg.resp, "plain").status
      BY <1>1, <3>1 DEF Envelope, GoodMsg
    <3>3. Spared(SetContentType(msg.resp, "plain"))
      BY <2>1, OperationsSpare, OtherCodesAre
    <3> QED BY <3>2, <3>3 DEF Spared
  <2> QED BY <2>3, <2>4, <2>5, <2>6 DEF Finish
<1> QED BY <1>2, <1>3

LEMMA AmpleInit == Init => Ample
<1> SUFFICES ASSUME Init PROVE Ample
  OBVIOUS
<1>1. NoReply.status # Service_Unavailable /\ serving \notin Storage
  BY ServiceAssumption DEF Init, NoReply, Unknown, Service_Unavailable
<1>2. \A c \in Storage : replies[c] = NoReply
  BY ServiceAssumption DEF Init
<1> QED BY <1>1, <1>2 DEF Ample

LEMMA AmpleStep ==
  ASSUME Cuts # "any", CompleteUploads, Serving, Shaped, Ample, [Next]_vars
  PROVE  Ample'
<1>1. DOMAIN replies = Conns /\ GoodMsg(msg) /\ Storage \subseteq Conns /\ NoConn \notin Storage
  BY ServiceAssumption DEF Serving, Clean, Progress
<1>2. NoReply.status # Service_Unavailable /\ Spared(NewMessage.resp)
  BY NewMessageGood DEF NoReply, Unknown, Service_Unavailable, Spared, NewMessage, NewResponse, GoodMsg
<1>3. ASSUME NEW c \in Conns, (\E r \in Requests : Send(c, r)) \/ Drop(c)
      PROVE  Ample'
  <2>1. replies' = [replies EXCEPT ![c] = NoReply] /\ UNCHANGED <<serving, phase, msg, reply>>
    BY <1>3 DEF Send, Drop, server
  <2>2. \A d \in Storage : replies'[d].status # Service_Unavailable
    BY <1>1, <1>2, <2>1 DEF Ample
  <2> QED BY <2>1, <2>2 DEF Ample, IsFragment
<1>4. ASSUME NEW c \in Conns, Receive(c)
      PROVE  Ample'
  <2>1. /\ replies' = [replies EXCEPT ![c] = NoReply] /\ reply' = NoReply /\ phase' \in {"parse", "body"}
        /\ msg' = Restored(pdo[c]) \/ msg' = [NewMessage EXCEPT !.own = c \in Storage]
    BY <1>4 DEF Receive
  <2>2. \A d \in Storage : replies'[d].status # Service_Unavailable
    BY <1>1, <1>2, <2>1 DEF Ample
  <2>3. msg'.resp = NewMessage.resp
    BY <2>1 DEF Restored, NewMessage
  <2> QED BY <1>2, <2>1, <2>2, <2>3 DEF Ample
<1>5. CASE Parse
  <2>1. UNCHANGED <<serving, replies>> /\ phase' # "finish" /\ phase = "parse"
    BY <1>5, ServiceParts DEF client
  <2>2. serving \in Storage => Spared(msg'.resp) /\ reply' = reply
    BY <1>1, <1>5, <2>1, ParseSpares DEF Ample
  <2> QED BY <2>1, <2>2 DEF Ample
<1>6. CASE Process
  BY <1>6, ProcessAmple, ServiceParts
<1>7. CASE Finish
  BY <1>7, FinishAmple
<1>8. CASE Session
  <2>1. phase = "return" /\ serving' = NoConn
    BY <1>8 DEF Session, AwaitRest, KeepOpen, Ignore, Close, Deliver, Idle
  <2>2. replies' = replies \/ replies' = [replies EXCEPT ![serving] = reply]
    BY <1>8 DEF Session, AwaitRest, KeepOpen, Ignore, Close, Deliver, client
  <2>3. \A d \in Storage : replies'[d].status # Service_Unavailable
    BY <1>1, <2>2 DEF Ample
  <2> QED BY <1>1, <2>1, <2>3 DEF Ample
<1>9. CASE UNCHANGED vars
  BY <1>9 DEF vars, server, client, Ample, IsFragment
<1> QED BY <1>3, <1>4, <1>5, <1>6, <1>7, <1>8, <1>9 DEF Next, Service, Quiescent

\* A connection with storage is never told that the service is unavailable, however its
\* requests are cut between head and body: what ends early is saved, and a body that has
\* arrived whole ends before the input does.  (application::service, state_pdo)
THEOREM StorageIsEnough ==
  ASSUME ClearOnKeep, RegularRequests, NumbersAreNoNames, CompleteUploads, Cuts # "any"
  PROVE  Spec => []StorageSuffices
<1>1. Init => Serving /\ Shaped /\ Ample
  BY ServingInit, ShapedInit, AmpleInit
<1>2. Serving /\ Shaped /\ Ample /\ [Next]_vars => (Serving /\ Shaped /\ Ample)'
  BY ServingStep, ShapedStep, AmpleStep
<1>3. Ample => StorageSuffices
  BY DEF Ample, StorageSuffices
<1> QED BY <1>1, <1>2, <1>3, PTL DEF Spec

-----------------------------------------------------------------------------
\* Unless bodies are cut, a provider reads all of a body or nothing yet.
LEMMA BodyOrNothing ==
  ASSUME Cuts # "any", NEW c, Reading(c)
  PROVE  /\ sent[c] \in Requests /\ sent[c] \in Request
         /\ Chars(input) = sent[c].body \/ Chars(input) = <<>>
<1> DEFINE r == sent[c]
<1>1. r \in Requests /\ r \in Request
  BY ServiceAssumption DEF Reading
<1>2. PICK n \in Positions(r) : Cut(r, n) /\ IsPart(input, r, HeadLength(r), n)
  BY DEF Reading, Awaits
<1>3. n = HeadLength(r) \/ n = RequestLength(r)
  BY <1>2 DEF Cut
<1>4. PICK h \in Nat : h = HeadLength(r)
  BY <1>1, RequestLengths
<1>5. Chars(input) \in Seq(Char) /\ Len(Chars(input)) = n - h /\ (n = RequestLength(r) => Chars(input) = r.body)
  BY <1>1, <1>2, <1>4, BodyRead
<1> QED BY <1>1, <1>3, <1>4, <1>5

LEMMA NothingIsNoNumber == ~ReadNumber(<<>>).ok
<1>1. <<>> \in Seq(Char) /\ Len(<<>>) = 0
  OBVIOUS
<1>2. PICK t \in Nat, d \in Nat : NumberRead(<<>>, t, d) /\ (ReadNumber(<<>>).ok => d > 0)
  BY <1>1, NumberIsRead
<1>3. t \in 0..0 /\ d \in 0..(0 - t)
  BY <1>1, <1>2 DEF NumberRead
<1> QED BY <1>2, <1>3

\* A value behind functions is set to a number that was read to its end.
LEMMA PutSets ==
  ASSUME NEW n, Kind[n] \in {"func", "items"}, NEW requ, NEW resp, NEW value, NEW in,
         NEW new, new = Put(n, requ, resp, value, in).value
  PROVE  \/ new = value
         \/ /\ ReadNumber(in).ok
            /\ Kind[n] = "func" => new = ReadNumber(in).value
            /\ Kind[n] = "items" => new = [value EXCEPT ![requ.identity] = ReadNumber(in).value]
<1>1. \A st : Refused(value, resp, st).value = value
  BY DEF Refused, Outcome
<1>2. CASE Kind[n] = "func"
  <2>1. new = value \/ new = PutNumeric(n, requ, resp, value, in).value
    BY <1>1, <1>2 DEF Put, IsVector
  <2>2. PutNumeric(n, requ, resp, value, in).value = IF ReadNumber(in).ok THEN ReadNumber(in).value ELSE value
    BY <1>2 DEF PutNumeric, Outcome
  <2> QED BY <1>2, <2>1, <2>2
<1>3. CASE Kind[n] = "items"
  <2>1. new = value \/ new = PutItem(n, requ, resp, value, in).value
    BY <1>1, <1>3 DEF Put, IsVector
  <2>2. \/ PutItem(n, requ, resp, value, in).value = value
        \/ /\ ReadNumber(in).ok
           /\ PutItem(n, requ, resp, value, in).value = [value EXCEPT ![requ.identity] = ReadNumber(in).value]
    BY <1>1, <1>3 DEF PutItem, Outcome
  <2> QED BY <1>3, <2>1, <2>2
<1> QED BY <1>2, <1>3

SeenWhole(n, value) ==
  /\ Kind[n] = "func" => value = InitStore[n] \/ \E id \in Identity : Sends(n, id, value)
  /\ Kind[n] = "items" => \A i \in DOMAIN value : value[i] = InitStore[n][i] \/ Sends(n, i, value[i])

LEMMA SeenWholeStep ==
  ASSUME Cuts # "any", NumbersAreNoNames, PlainUploads, Serving, Shaped, [Next]_vars,
         NEW n \in Nodes, SeenWhole(n, store[n])
  PROVE  SeenWhole(n, store'[n])
<1>1. CASE store'[n] = store[n]
  BY <1>1
<1>2. CASE Writing /\ store'[n] # store[n]
  <2> DEFINE r   == sent[serving]
             in  == Chars(input)
             new == AfterPut(Prepared).value
  <2>1. serving \in Conns /\ Reading(serving) /\ GoodMsg(msg)
    BY <1>2 DEF Writing, Serving, Clean, Framing, Served, Progress
  <2>2. HeadIs(msg, r) /\ r \in Requests /\ r \in Request /\ (in = r.body \/ in = <<>>)
    BY <2>1, BodyOrNothing DEF Reading
  <2>3. n = msg.target /\ store'[n] = new /\ n # NoNode
    BY <1>2, NodesAssumption DEF Writing, Shaped
  <2>4. Prepared.target = msg.target /\ Prepared.requ.identity = msg.requ.identity
    BY <2>1 DEF Prepared, GoodMsg, RequFields
  <2>5. new = Put(n, Prepared.requ, Prepared.resp, store[n], in).value
    BY <2>3, <2>4 DEF AfterPut
  <2>6. /\ Lookup(r.target) = n /\ DeclaredIdentity(r) = Prepared.requ.identity
        /\ r.method \in {"PUT", "POST"}
    BY <1>2, <2>2, <2>3, <2>4 DEF Writing, HeadIs
  <2>7. CASE Kind[n] \in {"func", "items"}
    <3>1. /\ ReadNumber(in).ok
          /\ Kind[n] = "func" => new = ReadNumber(in).value
          /\ Kind[n] = "items" => new = [store[n] EXCEPT ![Prepared.requ.identity] = ReadNumber(in).value]
      <4> HIDE DEF in
      <4>1. new # store[n]
        BY <1>2, <2>3
      <4> QED BY <2>5, <2>7, <4>1, PutSets
    <3>2. in = r.body
      BY <2>2, <3>1, NothingIsNoNumber
    <3>3. PlainNumber(r)
      BY <2>2, <2>3, <2>6, <2>7 DEF PlainUploads
    <3>4. Submitted(n, r) = <<ReadNumber(in).value>>
      BY <2>2, <2>7, <3>1, <3>2, <3>3, NumberAsSubmitted
    <3> HIDE DEF in, new, r
    <3>5. Sends(n, DeclaredIdentity(r), ReadNumber(in).value)
      BY <2>2, <2>6, <3>4 DEF Sends
    <3>6. DeclaredIdentity(r) \in Identity
      <4>1. Found(r.target) \in Place /\ r.target \in Seq(STRING)
        BY <2>2, ItemFound DEF Request
      <4>2. Found(r.target).identity = DeclaredIdentity(r)
        BY <2>3, <2>6, <4>1, ItemFound
      <4> QED BY <4>1, <4>2 DEF Place
    <3>7. CASE Kind[n] = "func"
      BY <2>3, <3>1, <3>5, <3>6, <3>7 DEF SeenWhole
    <3>8. CASE Kind[n] = "items"
      <4>1. store'[n] = [store[n] EXCEPT ![DeclaredIdentity(r)] = ReadNumber(in).value]
        BY <2>3, <2>6, <3>1, <3>8
      <4>2. \A i \in DOMAIN store[n] : store[n][i] = InitStore[n][i] \/ Sends(n, i, store[n][i])
        BY <3>8 DEF SeenWhole
      <4>3. ASSUME NEW i \in DOMAIN store'[n]
            PROVE  store'[n][i] = InitStore[n][i] \/ Sends(n, i, store'[n][i])
        <5>1. i \in DOMAIN store[n]
          BY <4>1
        <5>2. store'[n][i] = IF i = DeclaredIdentity(r) THEN ReadNumber(in).value ELSE store[n][i]
          BY <4>1, <5>1
        <5> QED BY <3>5, <4>2, <5>1, <5>2
      <4> QED BY <3>8, <4>3 DEF SeenWhole
    <3> QED BY <2>7, <3>7, <3>8
  <2> QED BY <2>7 DEF SeenWhole
<1> QED BY <1>1, <1>2, WhoWrites

\* What lies behind functions is at any time a number that some client sent whole to
\* that place, or what was there at first: no prefix of a number, and no number that
\* another character spoils, reaches the application.  (numeric::put, NodeIndexedVector)
THEOREM FunctionsSeeWholeNumbers ==
  ASSUME ClearOnKeep, RegularRequests, NumbersAreNoNames, PlainUploads, Cuts # "any"
  PROVE  Spec => []FunctionSeesWholeValues
<1> DEFINE Whole == \A n \in Nodes : SeenWhole(n, store[n])
<1>1. Init => Serving /\ Shaped /\ Whole
  <2>1. Init => Whole
    BY DEF Init, SeenWhole
  <2> QED BY <2>1, ServingInit, ShapedInit
<1>2. Serving /\ Shaped /\ Whole /\ [Next]_vars => (Serving /\ Shaped /\ Whole)'
  <2> SUFFICES ASSUME Serving, Shaped, Whole, [Next]_vars PROVE (Serving /\ Shaped /\ Whole)'
    OBVIOUS
  <2>1. Serving' /\ Shaped'
    BY ServingStep, ShapedStep
  <2>2. \A n \in Nodes : SeenWhole(n, store'[n])
    BY SeenWholeStep
  <2>3. Whole'
    BY <2>2
  <2> QED BY <2>1, <2>3
<1>3. Whole => FunctionSeesWholeValues
  BY DEF SeenWhole, FunctionSeesWholeValues
<1> QED BY <1>1, <1>2, <1>3, PTL DEF Spec

-----------------------------------------------------------------------------
\* What a put stores of a body, kind by kind.
LEMMA Beginning ==
  ASSUME NEW s, NEW k \in Nat
  PROVE  SubSeq(s, 1, k) = [i \in 1..k |-> s[i]]
<1> DEFINE S == {s[i] : i \in 1..k}
           f == [i \in 1..k |-> s[i]]
<1>1. \A i \in 1..k : s[i] \in S
  OBVIOUS
<1>2. f \in [1..k -> S]
  BY <1>1
<1>3. \A i \in 1..k : f[i] = s[i]
  OBVIOUS
<1> HIDE DEF f, S
<1>4. f \in Seq(S) /\ Len(f) = k
  BY <1>2
<1>5. /\ SubSeq(s, 1, k) \in Seq(S) /\ Len(SubSeq(s, 1, k)) = IF 1 <= k THEN k - 1 + 1 ELSE 0
      /\ \A i \in 1..(k - 1 + 1) : SubSeq(s, 1, k)[i] = s[1 + i - 1]
  BY <1>1, SubSeqProperties
<1>6. k - 1 + 1 = k /\ (~(1 <= k) => k = 0) /\ \A i \in 1..k : 1 + i - 1 = i
  OBVIOUS
<1>7. SubSeq(s, 1, k) = f
  BY <1>3, <1>4, <1>5, <1>6, SeqEqual
<1> QED BY <1>7 DEF f

LEMMA SameBeginning ==
  ASSUME NEW s, NEW t, NEW k \in Nat, \A i \in 1..k : s[i] = t[i]
  PROVE  SubSeq(s, 1, k) = SubSeq(t, 1, k)
<1>1. [i \in 1..k |-> s[i]] = [i \in 1..k |-> t[i]]
  OBVIOUS
<1> QED BY <1>1, Beginning

\* The fields of a request that say what is to be stored where.
Asks(requ, r) ==
  /\ Has(requ, "content_length") <=> Declares(r, "Content-Length")
  /\ Declares(r, "Content-Length") => /\ requ.clen = LastField(r, "Content-Length").len
                                      /\ requ.clen \in Nat
  /\ requ.identity = DeclaredIdentity(r)

\* What has arrived of a body, which is all of it or nothing.
Arrived(in, r) ==
  /\ in \in Seq(Char) /\ r.body \in Seq(Char) /\ Len(in) <= Len(r.body)
  /\ \A i \in 1..Len(in) : in[i] = r.body[i]
  /\ in # <<>> => in = r.body

LEMMA BodyArrived ==
  ASSUME NEW r \in Request, NEW in, in = r.body \/ in = <<>>
  PROVE  Arrived(in, r)
<1>1. r.body \in Seq(Char) /\ Len(r.body) \in Nat
  BY DEF Request
<1>2. CASE in = r.body
  BY <1>1, <1>2 DEF Arrived
<1>3. CASE in = <<>>
  <2>1. in \in Seq(Char) /\ Len(in) = 0
    BY <1>3
  <2> QED BY <1>1, <1>3, <2>1 DEF Arrived
<1> QED BY <1>2, <1>3

LEMMA ContentsAre ==
  ASSUME NEW n, NEW requ, NEW value
  PROVE  /\ Kind[n] = "text" => Contents(n, requ, value) =
              {[i \in 1..len |-> IF i \in DOMAIN value THEN value[i] ELSE "x"] : len \in Lengths(value)}
         /\ Kind[n] = "octets" => Contents(n, requ, value) = {SubSeq(value.data, 1, value.len)}
         /\ Kind[n] \in {"num", "func"} => Contents(n, requ, value) = {<<value>>}
         /\ IsVector(n) => Contents(n, requ, value) = {<<value[requ.identity]>>}
         /\ Kind[n] = "json" => Contents(n, requ, value) = {value}
<1>1. CASE Kind[n] = "text"
  BY <1>1, Zenon DEF Contents, IsVector
<1>2. CASE Kind[n] = "octets"
  BY <1>2 DEF Contents, IsVector
<1>3. CASE Kind[n] \in {"num", "func"}
  BY <1>3 DEF Contents, IsVector
<1>4. CASE IsVector(n)
  BY <1>4 DEF Contents, IsVector
<1>5. CASE Kind[n] = "json"
  BY <1>5 DEF Contents, IsVector
<1> QED BY <1>1, <1>2, <1>3, <1>4, <1>5

ReadsBack(n, r, value) ==
  \A body \in Contents(n, [identity |-> DeclaredIdentity(r)], value) :
    IF Kind[n] = "json" THEN IsPrefix(Submitted(n, r), body) ELSE body = Submitted(n, r)

LEMMA ErrorsFail ==
  ASSUME NEW resp, GoodResp(resp)
  PROVE  /\ \A st \in {Bad_Request, Length_Required, Request_Entity_Too_Large, Unsupported_Content_Format,
                       Not_Found, Method_Not_Allowed, Not_Implemented} : Failed(SetError(resp, st))
         /\ \A value, st : st \in {Bad_Request, Length_Required, Request_Entity_Too_Large, Not_Found,
                                   Unsupported_Content_Format, Method_Not_Allowed, Not_Implemented} =>
                             Failed(Refused(value, resp, st).resp)
<1>1. \A st \in {Bad_Request, Length_Required, Request_Entity_Too_Large, Unsupported_Content_Format,
                 Not_Found, Method_Not_Allowed, Not_Implemented} : Failed(SetError(resp, st))
  <2>1. \A st \in {Bad_Request, Length_Required, Request_Entity_Too_Large, Unsupported_Content_Format,
                   Not_Found, Method_Not_Allowed, Not_Implemented} : st \in Status /\ st >= Bad_Request
    BY DEF Bad_Request, Length_Required, Request_Entity_Too_Large, Unsupported_Content_Format,
           Not_Found, Method_Not_Allowed, Not_Implemented, Status
  <2> QED BY <2>1, ResponseOperations
<1> QED BY <1>1 DEF Refused, Outcome

\* A text that was read to its end is followed by its terminator, and has none inside.
LEMMA TextStored ==
  ASSUME NEW n, Kind[n] = "text", Size[n] \in Nat, NEW r, NEW requ, Asks(requ, r),
         NEW in, Arrived(in, r), NEW value, Fits(n, value), NEW resp, GoodResp(resp),
         ~Failed(PutText(n, requ, resp, value, in).resp)
  PROVE  ReadsBack(n, r, PutText(n, requ, resp, value, in).value)
<1> DEFINE sized == Declares(r, "Content-Length")
           limit == IF sized THEN requ.clen ELSE Size[n]
           stops == IF sized THEN {} ELSE {"eol"}
           k     == Taken(in, limit, stops)
           array == [Stored(value, in, k) EXCEPT ![k + 1] = Nul]
<1>1. /\ in \in Seq(Char) /\ r.body \in Seq(Char) /\ Len(in) \in Nat /\ Len(r.body) \in Nat
      /\ Len(in) <= Len(r.body) /\ \A i \in 1..Len(in) : in[i] = r.body[i]
  BY DEF Arrived
<1>2. limit \in Nat /\ (Has(requ, "content_length") <=> sized)
  BY DEF Asks
<1>3. Stops(in, limit, stops, k)
  BY <1>1, <1>2, TakenStops
<1>4. /\ ~(sized /\ requ.clen >= Size[n])
      /\ ~(k >= Size[n]) /\ ~HitsEnd(in, limit, k)
      /\ PutText(n, requ, resp, value, in).value = array
  <2> HIDE DEF k
  <2> DEFINE o == PutText(n, requ, resp, value, in)
  <2>1. o = IF sized /\ requ.clen >= Size[n]
            THEN Refused(value, resp, Request_Entity_Too_Large)
            ELSE IF k >= Size[n]
            THEN Outcome(Stored(value, in, k), SetError(resp, Request_Entity_Too_Large), HitsEnd(in, limit, k), TRUE)
            ELSE IF HitsEnd(in, limit, k)
            THEN Outcome(Stored(value, in, k), SetError(resp, Bad_Request), HitsEnd(in, limit, k), TRUE)
            ELSE Outcome(array, SetStatus(resp, No_Content), HitsEnd(in, limit, k), TRUE)
    BY <1>2 DEF PutText, k
  <2>2. \A v, e, g, st : Outcome(v, SetError(resp, st), e, g).resp = SetError(resp, st)
    BY DEF Outcome
  <2>3. Failed(SetError(resp, Request_Entity_Too_Large)) /\ Failed(SetError(resp, Bad_Request))
        /\ Failed(Refused(value, resp, Request_Entity_Too_Large).resp)
    BY ErrorsFail
  <2>4. \A v, p, e, g : Outcome(v, p, e, g).value = v
    BY DEF Outcome
  <2>5. ~Failed(o.resp)
    OBVIOUS
  <2> HIDE DEF o, array
  <2>6. ~(sized /\ requ.clen >= Size[n])
    BY <2>1, <2>3, <2>5
  <2>7. ~(k >= Size[n])
    BY <2>1, <2>2, <2>3, <2>5, <2>6
  <2>8. ~HitsEnd(in, limit, k)
    BY <2>1, <2>2, <2>3, <2>5, <2>6, <2>7
  <2>9. o.value = array
    BY <2>1, <2>4, <2>6, <2>7, <2>8
  <2> QED BY <2>6, <2>7, <2>8, <2>9 DEF o
<1> HIDE DEF k
<1>5. /\ k \in Nat /\ k <= Len(in) /\ k <= limit /\ k < Size[n]
      /\ \A i \in 1..k : in[i] \notin stops
      /\ k = limit \/ (k # Len(in) /\ in[k + 1] \in stops)
  BY <1>1, <1>2, <1>3, <1>4 DEF Stops, HitsEnd
<1>6. Payload(r) = SubSeq(r.body, 1, k)
  <2>1. CASE sized
    <3>1. k = requ.clen
      BY <1>5, <2>1
    <3> QED BY <2>1, <3>1 DEF Payload, Asks
  <2>2. CASE ~sized
    <3>1. k # Len(in) /\ in[k + 1] = "eol" /\ \A i \in 1..k : in[i] # "eol"
      BY <1>5, <2>2
    <3>2. in = r.body
      BY <1>1, <1>5, <3>1 DEF Arrived
    <3>3. Stops(r.body, Len(r.body), {"eol"}, k)
      BY <1>1, <1>5, <3>1, <3>2 DEF Stops
    <3> QED BY <1>1, <2>2, <3>3, FirstLineIs DEF Payload
  <2> QED BY <2>1, <2>2
<1>7. /\ DOMAIN array = 1..Size[n] /\ array[k + 1] = Nul /\ k + 1 \in 1..Size[n]
      /\ \A i \in 1..k : i \in 1..Size[n] /\ array[i] = in[i]
  <2>1. DOMAIN value = 1..Size[n]
    BY DEF Fits
  <2>2. \A i \in 1..Size[n] : Stored(value, in, k)[i] = IF i <= k THEN in[i] ELSE value[i]
    BY <2>1 DEF Stored
  <2>3. DOMAIN Stored(value, in, k) = 1..Size[n]
    BY <2>1 DEF Stored
  <2>4. k + 1 \in 1..Size[n] /\ \A i \in 1..k : i \in 1..Size[n] /\ i # k + 1 /\ i <= k
    BY <1>5
  <2> QED BY <2>2, <2>3, <2>4
<1> HIDE DEF array
<1>8. \A i \in 1..k : array[i] # Nul
  <2>1. \A i \in 1..k : i \in 1..Len(in)
    BY <1>1, <1>5
  <2>2. \A i \in 1..k : in[i] \in Char
    BY <1>1, <2>1, ElementOfSeq
  <2>3. Nul \notin Char
    BY DEF Nul, Char, DigitOf
  <2> QED BY <1>7, <2>2, <2>3
<1>9. Lengths(array) = {k}
  <2> DEFINE nuls  == {i \in DOMAIN array : array[i] = Nul}
             least == {j \in nuls : \A i \in nuls : j <= i}
  <2>1. k + 1 \in nuls
    BY <1>7
  <2>2. \A i \in nuls : i \in Nat /\ k + 1 <= i
    <3>1. \A i \in 1..Size[n] : i \in 1..k \/ k + 1 <= i
      BY <1>5
    <3> QED BY <1>7, <1>8, <3>1
  <2>3. least = {k + 1}
    <3> HIDE DEF nuls
    <3>1. k + 1 \in least
      BY <2>1, <2>2
    <3>2. \A j \in least : j = k + 1
      BY <1>5, <2>1, <2>2
    <3> HIDE DEF least
    <3> QED BY <3>1, <3>2
  <2>4. Lengths(array) = {i - 1 : i \in least}
    BY <2>1 DEF Lengths
  <2> HIDE DEF least
  <2> QED BY <1>5, <2>3, <2>4
<1>10. \A body \in Contents(n, [identity |-> DeclaredIdentity(r)], array) : body = Submitted(n, r)
  <2>1. Contents(n, [identity |-> DeclaredIdentity(r)], array)
          = {[i \in 1..len |-> IF i \in DOMAIN array THEN array[i] ELSE "x"] : len \in {k}}
    BY <1>9, ContentsAre
  <2>2. [i \in 1..k |-> IF i \in DOMAIN array THEN array[i] ELSE "x"] = [i \in 1..k |-> r.body[i]]
    <3>1. \A i \in 1..k : i \in 1..Len(in)
      BY <1>1, <1>5
    <3> QED BY <1>1, <1>7, <3>1
  <2>3. Submitted(n, r) = SubSeq(r.body, 1, k)
    BY <1>6 DEF Submitted
  <2> QED BY <1>5, <2>1, <2>2, <2>3, Beginning
<1> QED BY <1>4, <1>10 DEF ReadsBack

\* Octets are as many as were announced.
LEMMA OctetsStored ==
  ASSUME NEW n, Kind[n] = "octets", Size[n] \in Nat, NEW r, NEW requ, Asks(requ, r),
         NEW in, Arrived(in, r), NEW value, Fits(n, value), NEW resp, GoodResp(resp),
         ~Failed(PutOctets(n, requ, resp, value, in).resp)
  PROVE  ReadsBack(n, r, PutOctets(n, requ, resp, value, in).value)
<1> DEFINE o == PutOctets(n, requ, resp, value, in)
           k == Taken(in, requ.clen, {})
           new == [data |-> Stored(value.data, in, k), len |-> k]
<1>1. /\ in \in Seq(Char) /\ Len(in) \in Nat /\ \A i \in 1..Len(in) : in[i] = r.body[i]
  BY DEF Arrived
<1>2. Failed(SetError(resp, Bad_Request)) /\ Failed(Refused(value, resp, Length_Required).resp)
      /\ Failed(Refused(value, resp, Request_Entity_Too_Large).resp)
  BY ErrorsFail
<1>3. Declares(r, "Content-Length") /\ requ.clen \in Nat /\ requ.clen <= Size[n]
      /\ ~(k < requ.clen) /\ o.value = new
  BY <1>2 DEF PutOctets, Outcome, Asks
<1>4. Stops(in, requ.clen, {}, k)
  BY <1>1, <1>3, TakenStops
<1> HIDE DEF k
<1>5. k = requ.clen /\ k \in Nat /\ k <= Len(in) /\ k <= Size[n]
  BY <1>1, <1>3, <1>4 DEF Stops
<1>6. \A i \in 1..k : new.data[i] = r.body[i]
  <2>1. DOMAIN value.data = 1..Size[n] /\ \A i \in 1..k : i \in 1..Size[n] /\ i <= k /\ i \in 1..Len(in)
    BY <1>1, <1>5 DEF Fits
  <2>2. \A i \in 1..k : Stored(value.data, in, k)[i] = in[i]
    BY <2>1 DEF Stored
  <2> QED BY <1>1, <2>1, <2>2
<1>7. Contents(n, [identity |-> DeclaredIdentity(r)], new) = {SubSeq(new.data, 1, k)}
  BY ContentsAre
<1>8. Submitted(n, r) = SubSeq(r.body, 1, k)
  BY <1>3, <1>5 DEF Submitted, Payload, Asks
<1> HIDE DEF new
<1>9. SubSeq(new.data, 1, k) = SubSeq(r.body, 1, k)
  BY <1>5, <1>6, SameBeginning
<1> QED BY <1>3, <1>7, <1>8, <1>9 DEF ReadsBack

\* A number that was read to its end is the one its client meant.
LEMMA NumberArrived ==
  ASSUME NEW n, Kind[n] \in {"num", "func", "array", "items"}, NEW r \in Request, PlainNumber(r),
         NEW in, Arrived(in, r), ReadNumber(in).ok
  PROVE  Submitted(n, r) = <<ReadNumber(in).value>>
<1>1. in = r.body
  BY NothingIsNoNumber DEF Arrived
<1> QED BY <1>1, NumberAsSubmitted

LEMMA NumberStored ==
  ASSUME NEW n, Kind[n] \in {"num", "func"}, NEW r \in Request, PlainNumber(r), NEW requ,
         NEW in, Arrived(in, r), NEW value, NEW resp, GoodResp(resp), NEW o,
         o = PutNumeric(n, requ, resp, value, in), ~Failed(o.resp),
         Kind[n] = "num" => o.value # Absent
  PROVE  ReadsBack(n, r, o.value)
<1>1. Failed(SetError(resp, Unsupported_Content_Format))
  BY ErrorsFail
<1>2. ReadNumber(in).ok /\ o.value = ReadNumber(in).value
  BY <1>1 DEF PutNumeric, Outcome
<1>3. Submitted(n, r) = <<o.value>>
  BY <1>2, NumberArrived
<1>4. Contents(n, [identity |-> DeclaredIdentity(r)], o.value) = {<<o.value>>}
  BY ContentsAre
<1> QED BY <1>3, <1>4 DEF ReadsBack

LEMMA ItemStored ==
  ASSUME NEW n, IsVector(n), Size[n] \in Nat, NEW r \in Request, Kind[n] \in {"array", "items"} => PlainNumber(r),
         NEW requ, Asks(requ, r), DeclaredIdentity(r) \in Nat,
         NEW in, Arrived(in, r), NEW value, Fits(n, value), NEW resp, GoodResp(resp), NEW o,
         o = PutItem(n, requ, resp, value, in), ~Failed(o.resp)
  PROVE  ReadsBack(n, r, o.value)
<1> DEFINE id == DeclaredIdentity(r)
<1>1. /\ Failed(SetError(resp, Unsupported_Content_Format))
      /\ Failed(Refused(value, resp, Not_Found).resp)
      /\ Failed(Refused(value, resp, Method_Not_Allowed).resp)
  BY ErrorsFail
<1>2. HasItem(n, requ) /\ Kind[n] # "bunch"
  BY <1>1 DEF PutItem
<1>3. Kind[n] \in {"array", "items"}
  BY <1>2 DEF IsVector
<1>4. ReadNumber(in).ok /\ o.value = [value EXCEPT ![id] = ReadNumber(in).value]
  BY <1>1, <1>2 DEF PutItem, Outcome, Asks
<1>5. id \in DOMAIN value
  <2>1. DOMAIN value = 0..(Size[n] - 1)
    BY <1>3 DEF Fits
  <2>2. id < Size[n]
    BY <1>2 DEF HasItem, Asks
  <2> QED BY <2>1, <2>2
<1> HIDE DEF id
<1>6. o.value[id] = ReadNumber(in).value
  BY <1>4, <1>5
<1>7. Submitted(n, r) = <<ReadNumber(in).value>>
  BY <1>3, <1>4, NumberArrived
<1>8. Contents(n, [identity |-> id], o.value) = {<<o.value[id]>>}
  BY ContentsAre
<1>9. ASSUME NEW body \in Contents(n, [identity |-> id], o.value)
      PROVE  IF Kind[n] = "json" THEN IsPrefix(Submitted(n, r), body) ELSE body = Submitted(n, r)
  BY <1>3, <1>6, <1>7, <1>8, <1>9
<1> QED BY <1>9 DEF ReadsBack, id

\* The members of a document are stored in their order, as many as there are.
LEMMA DocumentStored ==
  ASSUME NEW n, Kind[n] = "json", Size[n] \in Nat, NEW r \in Request, PlainDocument(n, r),
         NEW requ, NEW in, Arrived(in, r), NEW value, Fits(n, value), NEW resp, GoodResp(resp), NEW o,
         o = PutJson(n, requ, resp, value, in), ~Failed(o.resp)
  PROVE  ReadsBack(n, r, o.value)
<1> DEFINE k    == Taken(in, Len(in), {"x", "end"})
           read == Members(SubSeq(in, 1, k))
           told == [i \in DOMAIN read |-> DigitOf[read[i]]]
           new  == [i \in DOMAIN value |-> IF i \in DOMAIN read THEN DigitOf[read[i]] ELSE value[i]]
<1>1. in \in Seq(Char) /\ Len(in) \in Nat
  BY DEF Arrived
<1>2. Failed(SetError(resp, Unsupported_Content_Format))
  BY ErrorsFail
<1>3. k < Len(in) /\ in[k + 1] = "end" /\ o.value = new
  BY <1>2 DEF PutJson, Outcome
<1>4. Stops(in, Len(in), {"x", "end"}, k)
  BY <1>1, TakenStops
<1> HIDE DEF k
<1>5. k \in Nat /\ k + 1 \in 1..Len(in) /\ \A i \in 1..k : in[i] # "end"
  BY <1>1, <1>3, <1>4 DEF Stops
<1>6. in = r.body
  BY <1>1, <1>5 DEF Arrived
<1>7. Payload(r) = SubSeq(in, 1, k + 1) /\ Len(read) <= Size[n]
  <2>1. PICK j \in DOMAIN r.body : j = k + 1
    BY <1>1, <1>5, <1>6
  <2>2. r.body[j] = "end" /\ j - 1 = k
    BY <1>3, <1>5, <1>6, <2>1
  <2>3. \A i \in 1..(j - 1) : r.body[i] # "end"
    BY <1>5, <1>6, <2>2
  <2> HIDE DEF read
  <2>4. Payload(r) = SubSeq(r.body, 1, j) /\ Len(Members(SubSeq(r.body, 1, j - 1))) <= Size[n]
    BY <2>2, <2>3 DEF PlainDocument
  <2>5. Len(Members(SubSeq(in, 1, k))) <= Size[n]
    BY <1>6, <2>2, <2>4
  <2> QED BY <1>6, <2>1, <2>4, <2>5 DEF read
<1>8. Unbracketed(Payload(r)) = SubSeq(in, 1, k)
  <2> DEFINE text == SubSeq(in, 1, k + 1)
  <2>1. text \in Seq(Char) /\ Len(text) = k + 1 /\ \A i \in 1..(k + 1) : text[i] = in[i]
    BY <1>1, <1>5, Prefix
  <2>2. SubSeq(text, 1, k) = SubSeq(in, 1, k)
    <3>1. k + 1 \in 0..Len(in) /\ k \in 0..(k + 1)
      BY <1>1, <1>5
    <3> QED BY <1>1, <3>1, PrefixOfPrefix
  <2> HIDE DEF text
  <2>3. text # <<>> /\ text[Len(text)] = "end" /\ Len(text) - 1 = k
    BY <1>3, <1>5, <2>1
  <2>4. Unbracketed(text) = SubSeq(in, 1, k)
    BY <2>2, <2>3 DEF Unbracketed
  <2> QED BY <1>7, <2>4 DEF text
<1>9. Submitted(n, r) = told
  BY <1>8 DEF Submitted
<1>10. PICK m \in Nat : read \in Seq(DOMAIN DigitOf) /\ Len(read) = m /\ DOMAIN read = 1..m /\ m <= Size[n]
  <2>1. SubSeq(in, 1, k) \in Seq(Char)
    <3>1. k \in 0..Len(in)
      BY <1>1, <1>5
    <3> QED BY <1>1, <3>1, Prefix
  <2>2. read \in Seq(DOMAIN DigitOf)
    BY <2>1, MembersAreDigits
  <2> HIDE DEF read
  <2> QED BY <1>7, <2>2
<1> HIDE DEF read
<1>11. IsPrefix(told, new)
  <2>1. DOMAIN value = 1..Size[n]
    BY DEF Fits
  <2>2. told \in Seq(Nat) /\ Len(told) = m
    <3>1. \A i \in 1..m : DigitOf[read[i]] \in Nat
      <4>1. \A i \in 1..m : read[i] \in DOMAIN DigitOf
        BY <1>10, ElementOfSeq
      <4> QED BY <4>1 DEF DigitOf
    <3>2. told = [i \in 1..m |-> DigitOf[read[i]]]
      BY <1>10
    <3> HIDE DEF told
    <3>3. told \in [1..m -> Nat]
      BY <3>1, <3>2
    <3> QED BY <3>3
  <2>3. Len(new) = Size[n]
    <3>1. DOMAIN new = 1..Size[n]
      BY <2>1
    <3> DEFINE S == {new[i] : i \in 1..Size[n]}
    <3>2. \A i \in 1..Size[n] : new[i] \in S
      OBVIOUS
    <3>3. new = [i \in 1..Size[n] |-> new[i]]
      BY <2>1
    <3> HIDE DEF new, S
    <3>4. new \in [1..Size[n] -> S]
      BY <3>2, <3>3
    <3> QED BY <3>4
  <2>4. \A i \in 1..m : told[i] = new[i]
    <3>1. \A i \in 1..m : i \in DOMAIN value /\ i \in DOMAIN read
      BY <1>10, <2>1
    <3> QED BY <3>1
  <2> HIDE DEF told, new
  <2>5. SubSeq(told, 1, m) = SubSeq(new, 1, m)
    BY <2>4, SameBeginning
  <2> QED BY <1>10, <2>2, <2>3, <2>5 DEF IsPrefix
<1>12. Contents(n, [identity |-> DeclaredIdentity(r)], new) = {new}
  BY ContentsAre
<1> HIDE DEF told, new
<1> QED BY <1>3, <1>9, <1>11, <1>12 DEF ReadsBack

\* Whatever the kind of the node, a put that succeeds has stored what was submitted.
LEMMA PutStores ==
  ASSUME NEW n \in Nodes, NEW r \in Request,
         Kind[n] \in {"num", "func", "array", "items"} => PlainNumber(r), Kind[n] = "json" => PlainDocument(n, r),
         NEW requ, Asks(requ, r), DeclaredIdentity(r) \in Nat,
         NEW in, Arrived(in, r), NEW value, Fits(n, value), NEW resp, GoodResp(resp), NEW o,
         o = Put(n, requ, resp, value, in), ~Failed(o.resp),
         Kind[n] \in {"text", "octets", "num", "func", "array", "items", "json"},
         Kind[n] = "num" => o.value # Absent
  PROVE  ReadsBack(n, r, o.value)
<1>1. Size[n] \in Nat
  BY NodesAssumption
<1>2. requ.ctype = Media[n]
  BY ErrorsFail DEF Put
<1>3. CASE Kind[n] = "text"
  <2>1. o = PutText(n, requ, resp, value, in)
    BY <1>2, <1>3 DEF Put, IsVector
  <2> QED BY <1>1, <1>3, <2>1, TextStored
<1>4. CASE Kind[n] = "octets"
  <2>1. o = PutOctets(n, requ, resp, value, in)
    BY <1>2, <1>4 DEF Put, IsVector
  <2> QED BY <1>1, <1>4, <2>1, OctetsStored
<1>5. CASE Kind[n] \in {"num", "func"}
  <2>1. o = PutNumeric(n, requ, resp, value, in)
    BY <1>2, <1>5 DEF Put, IsVector
  <2> QED BY <1>5, <2>1, NumberStored
<1>6. CASE Kind[n] \in {"array", "items"}
  <2>1. o = PutItem(n, requ, resp, value, in) /\ IsVector(n)
    BY <1>2, <1>6 DEF Put, IsVector
  <2> QED BY <1>1, <1>6, <2>1, ItemStored
<1>7. CASE Kind[n] = "json"
  <2>1. o = PutJson(n, requ, resp, value, in)
    BY <1>2, <1>7 DEF Put, IsVector
  <2> QED BY <1>1, <1>7, <2>1, DocumentStored
<1> QED BY <1>3, <1>4, <1>5, <1>6, <1>7

\* Once put has succeeded, and until the answer is delivered, the target holds the value.
Storing ==
  /\ phase = "finish" => ~Failed(msg.resp)
  /\ phase = "return" => msg.result \in {"keep", "close"}
  /\ phase \in {"finish", "return"} /\ sent[serving].method = "PUT"

HeldBy(n, r, value) ==
  /\ n \in Nodes
  /\ Kind[n] \in {"text", "octets", "num", "func", "array", "items", "json"} /\ (Kind[n] = "num" => value # Absent)
       => ReadsBack(n, r, value)

PutHeld == Storing => HeldBy(Lookup(sent[serving].target), sent[serving], store[Lookup(sent[serving].target)])

LEMMA ProcessHeld ==
  ASSUME Cuts # "any", NumbersAreNoNames, PlainUploads, Serving, Shaped, phase = "body", Process, Storing'
  PROVE  PutHeld'
<1> DEFINE r  == sent[serving]
           n  == msg.target
           o  == AfterPut(Prepared)
           in == Chars(input)
<1>1. serving \in Conns /\ Reading(serving) /\ GoodMsg(msg)
  BY DEF Serving, Clean, Framing, Served, Progress
<1>2. UNCHANGED <<serving, sent>> /\ phase' \in {"finish", "bad"}
  BY ServiceParts DEF client
<1>3. phase' = "finish" /\ ~Failed(msg'.resp) /\ r.method = "PUT"
  BY <1>2 DEF Storing
<1>4. HeadIs(msg, r) /\ r \in Requests /\ r \in Request /\ (in = r.body \/ in = <<>>)
  BY <1>1, BodyOrNothing DEF Reading
<1>5. msg.requ.method = "PUT"
  BY <1>3, <1>4 DEF HeadIs
<1>6. ProcessPut
  BY <1>3, <1>5 DEF Process, ProcessPost, Posts, ProcessGet, ProcessOther, SkipProcess, NoTarget, Goto
<1>7. n # NoNode /\ msg' = PutDone(Prepared, o) /\ store' = [store EXCEPT ![n] = o.value]
  BY <1>6 DEF ProcessPut, Ready
<1>8. n = Lookup(r.target) /\ n \in Nodes /\ DeclaredIdentity(r) \in Nat
  <2>1. n = Lookup(r.target)
    BY <1>4 DEF HeadIs
  <2>2. Found(r.target) \in Place /\ r.target \in Seq(STRING)
    BY <1>4, ItemFound DEF Request
  <2>3. Found(r.target).identity = DeclaredIdentity(r)
    BY <1>7, <2>1, <2>2, ItemFound
  <2>4. Found(r.target).node \in Nodes \cup {NoNode} /\ Found(r.target).identity \in Identity
    BY <2>2 DEF Place
  <2>5. \A i \in Identity : i \in Nat
    BY NodesAssumption DEF Identity
  <2> QED BY <1>7, <2>1, <2>3, <2>4, <2>5 DEF Lookup
<1>9. /\ GoodMsg(Prepared) /\ Prepared.target = n /\ SameHead(msg, Prepared) /\ GoodResp(Prepared.resp)
  <2>1. GoodMsg(Prepared)
    BY <1>1, PreparedGood
  <2>2. Prepared.target = n /\ SameHead(msg, Prepared)
    BY <1>1 DEF Prepared, SameHead, GoodMsg, RequFields
  <2> QED BY <2>1, <2>2 DEF GoodMsg
<1>10. Asks(Prepared.requ, r)
  <2>1. HeadIs(Prepared, r)
    BY <1>4, <1>9, SameHeadIs
  <2>2. Declares(r, "Content-Length") => LastField(r, "Content-Length").len \in Nat
    BY <1>4, LastFieldIs DEF HeaderLine
  <2> QED BY <1>7, <1>9, <2>1, <2>2 DEF HeadIs, Asks
<1>11. o = Put(n, Prepared.requ, Prepared.resp, store[n], in)
  BY <1>9 DEF AfterPut
<1>12. ~Failed(o.resp)
  <2>1. msg'.resp = o.resp
    BY <1>7, <1>9 DEF PutDone, GoodMsg
  <2> QED BY <1>3, <2>1
<1>13. store'[n] = o.value /\ Fits(n, store[n])
  BY <1>7, <1>8 DEF Shaped
<1>14. Arrived(in, r)
  BY <1>4, BodyArrived
<1>15. /\ Kind[n] \in {"num", "func", "array", "items"} => PlainNumber(r)
       /\ Kind[n] = "json" => PlainDocument(n, r)
  BY <1>3, <1>4, <1>7, <1>8 DEF PlainUploads
<1> HIDE DEF o, in, n, r
<1>16. HeldBy(n, r, store'[n])
  <2> SUFFICES ASSUME Kind[n] \in {"text", "octets", "num", "func", "array", "items", "json"},
                      Kind[n] = "num" => o.value # Absent
               PROVE  ReadsBack(n, r, o.value)
    BY <1>8, <1>13 DEF HeldBy
  <2> QED BY <1>4, <1>8, <1>9, <1>10, <1>11, <1>12, <1>13, <1>14, <1>15, PutStores
<1> QED BY <1>2, <1>8, <1>16 DEF PutHeld, r

LEMMA FinishResults ==
  ASSUME GoodMsg(msg), Pause \/ Fail \/ BadMessage
  PROVE  msg'.result \in {"fragment", "bad", "error"}
<1>1. CASE Pause
  BY <1>1 DEF Pause, Return, GoodMsg
<1>2. CASE Fail
  <2> DEFINE failed == IF IsFragment THEN [msg EXCEPT !.resp = SetError(@, Service_Unavailable)] ELSE msg
  <2>1. msg' = [failed EXCEPT !.result = IF failed.good THEN "bad" ELSE "error"]
    BY <1>2 DEF Fail, Return
  <2>2. "result" \in DOMAIN failed
    BY DEF GoodMsg
  <2> HIDE DEF failed
  <2> QED BY <2>1, <2>2
<1>3. CASE BadMessage
  BY <1>3 DEF BadMessage, Return, GoodMsg
<1> QED BY <1>1, <1>2, <1>3

LEMMA HeldStep ==
  ASSUME Cuts # "any", NumbersAreNoNames, PlainUploads, Serving, Shaped, PutHeld, [Next]_vars
  PROVE  PutHeld'
<1>1. GoodMsg(msg) /\ DOMAIN sent = Conns /\ (phase = "idle" <=> serving = NoConn)
  BY DEF Serving, Progress, Framing
<1>2. ASSUME NEW c \in Conns, (\E r \in Requests : Send(c, r)) \/ Drop(c)
      PROVE  PutHeld'
  <2>1. /\ UNCHANGED <<serving, phase, msg, store>> /\ serving # c
        /\ \E v : sent' = [sent EXCEPT ![c] = v]
    BY <1>2 DEF Send, Drop, server
  <2>2. sent'[serving] = sent[serving]
    BY <2>1
  <2>3. Storing' <=> Storing
    BY <2>1, <2>2 DEF Storing
  <2> QED BY <2>1, <2>2, <2>3 DEF PutHeld
<1>3. ASSUME NEW c \in Conns, Receive(c)
      PROVE  PutHeld'
  BY <1>3 DEF Receive, PutHeld, Storing
<1>4. CASE Parse
  <2>1. phase' # "finish" /\ (phase' = "return" => msg'.result = "empty")
    BY <1>1, <1>4, ServiceParts, ParseReturns
  <2> QED BY <2>1 DEF PutHeld, Storing
<1>5. CASE Process
  <2>1. phase = "body"
    BY <1>5, ServiceParts
  <2>2. CASE Storing'
    BY <1>5, <2>1, <2>2, ProcessHeld
  <2>3. CASE ~Storing'
    BY <2>3 DEF PutHeld
  <2> QED BY <2>2, <2>3
<1>6. CASE Finish
  <2>1. UNCHANGED <<serving, sent, store>> /\ phase' = "return"
    BY <1>6 DEF Finish, Pause, Fail, Succeed, BadMessage, Return, client
  <2>2. ASSUME Storing' PROVE Storing
    <3>1. msg'.result \in {"keep", "close"} /\ sent[serving].method = "PUT"
      BY <2>1, <2>2 DEF Storing
    <3>2. Succeed
      <4>1. Pause \/ Fail \/ BadMessage => msg'.result \in {"fragment", "bad", "error"}
        BY <1>1, FinishResults
      <4> QED BY <1>6, <3>1, <4>1 DEF Finish
    <3> QED BY <3>1, <3>2 DEF Succeed, Storing
  <2> QED BY <2>1, <2>2 DEF PutHeld
<1>7. CASE Session
  <2>1. phase' = "idle"
    BY <1>7 DEF Session, AwaitRest, KeepOpen, Ignore, Close, Deliver, Idle
  <2> QED BY <2>1 DEF PutHeld, Storing
<1>8. CASE UNCHANGED vars
  BY <1>8 DEF vars, server, client, PutHeld, Storing
<1> QED BY <1>2, <1>3, <1>4, <1>5, <1>6, <1>7, <1>8 DEF Next, Service, Quiescent

\* A PUT that is answered with success has stored what its client sent, the whole and
\* nothing else: until the answer is on its way, GET would present exactly that value.
\* (text::put, octets::put, numeric::put, json::put, application::service)
THEOREM PutIsReadBack ==
  ASSUME ClearOnKeep, RegularRequests, NumbersAreNoNames, PlainUploads, Cuts # "any"
  PROVE  Spec => []PutReadsBack
<1>1. Init => Serving /\ Shaped /\ PutHeld
  <2>1. Init => PutHeld
    BY DEF Init, PutHeld, Storing
  <2> QED BY <2>1, ServingInit, ShapedInit
<1>2. Serving /\ Shaped /\ PutHeld /\ [Next]_vars => (Serving /\ Shaped /\ PutHeld)'
  BY ServingStep, ShapedStep, HeldStep
<1>3. PutHeld => PutReadsBack
  <2> SUFFICES ASSUME PutHeld, phase = "return", msg.result \in {"keep", "close"}, sent[serving].method = "PUT",
                      NEW r, r = sent[serving], NEW n, n = Lookup(r.target), Accepting(n)
               PROVE  ReadsBack(n, r, store[n])
    BY DEF PutReadsBack, ReadsBack
  <2> QED BY DEF PutHeld, Storing, HeldBy, Accepting
<1> QED BY <1>1, <1>2, <1>3, PTL DEF Spec

-----------------------------------------------------------------------------
\* The only values of an upload that reach the functions are numbers that were read to
\* their end, in the media type of the node; otherwise put fails and sets nothing.
LEMMA PutAtOnce ==
  ASSUME NEW n, Kind[n] \in {"func", "items"}, NEW requ, NEW resp, GoodResp(resp), ~Failed(resp),
         NEW value, NEW in, NEW o, o = Put(n, requ, resp, value, in)
  PROVE  \/ o.value = value /\ Failed(o.resp)
         \/ /\ ReadNumber(in).ok /\ requ.ctype = Media[n]
            /\ o.resp = SetStatus(resp, No_Content)
            /\ Kind[n] = "func" => o.value = ReadNumber(in).value
            /\ Kind[n] = "items" => /\ HasItem(n, requ)
                                    /\ o.value = [value EXCEPT ![requ.identity] = ReadNumber(in).value]
<1>1. /\ Failed(SetError(resp, Unsupported_Content_Format))
      /\ \A st \in {Unsupported_Content_Format, Not_Found} :
           Refused(value, resp, st).value = value /\ Failed(Refused(value, resp, st).resp)
  <2>1. \A st : Refused(value, resp, st).value = value
    BY DEF Refused, Outcome
  <2> QED BY <2>1, ErrorsFail
<1>2. CASE requ.ctype # Media[n]
  <2>1. o = Refused(value, resp, Unsupported_Content_Format)
    BY <1>2 DEF Put
  <2> QED BY <1>1, <2>1
<1>3. CASE Kind[n] = "func" /\ requ.ctype = Media[n]
  <2>1. o = PutNumeric(n, requ, resp, value, in)
    BY <1>3 DEF Put, IsVector
  <2> QED BY <1>1, <1>3, <2>1 DEF PutNumeric, Outcome
<1>4. CASE Kind[n] = "items" /\ requ.ctype = Media[n]
  <2>1. o = PutItem(n, requ, resp, value, in)
    BY <1>4 DEF Put, IsVector
  <2> QED BY <1>1, <1>4, <2>1 DEF PutItem, Outcome
<1> QED BY <1>2, <1>3, <1>4

\* A status that is no error is not lost on a message without one.
LEMMA StatusSet ==
  ASSUME NEW resp, GoodResp(resp), ~Failed(resp), NEW st \in {OK, No_Content}
  PROVE  /\ GoodResp(SetStatus(resp, st)) /\ SetStatus(resp, st).status = st
         /\ IsGood(SetStatus(resp, st)) /\ ~Failed(SetStatus(resp, st))
<1>1. st \in Status /\ st >= OK /\ st < Bad_Request
  BY DEF Status, OK, No_Content, Bad_Request
<1>2. GoodResp(SetStatus(resp, st))
  BY <1>1, ResponseOperations
<1>3. SetStatus(resp, st).status = st
  BY DEF SetStatus, GoodResp
<1> QED BY <1>1, <1>2, <1>3 DEF IsGood, Failed, Status, Bad_Request

\* What get sends it sends without an error.
LEMMA BegunIsGood ==
  ASSUME NEW m, GoodMsg(m), ~Failed(m.resp), m.state < Sealed, NEW values, GetReply(m, values)
  PROVE  msg'.state < Sealed \/ ~Failed(msg'.resp)
<1>1. ASSUME NEW node, NEW resp, GoodResp(resp), ~Failed(resp)
      PROVE  ~Failed(GetResponse(node, resp))
  <2>1. \A type : /\ GoodResp(SetContentType(resp, type)) /\ SetContentType(resp, type).status = resp.status
                  /\ ~Failed(SetContentType(resp, type))
    BY <1>1, CodesAreStatuses, ResponseOperations DEF Failed, StatusCodes
  <2>2. OK \in {OK, No_Content} /\ OK \in Status
    BY DEF OK, Status
  <2>3. ~Failed(SetStatus(resp, OK)) /\ GoodResp(SetStatus(resp, OK))
    BY <1>1, <2>2, StatusSet
  <2>4. \A type : /\ ~Failed(SetStatus(SetContentType(resp, type), OK))
                  /\ ~Failed(SetContentType(SetStatus(resp, OK), type))
    BY <1>1, <2>1, <2>2, <2>3, StatusSet, ResponseOperations DEF Failed
  <2>5. \A type : ~Failed(SetContentLength(SetContentType(SetStatus(resp, OK), type)))
    BY <2>4 DEF SetContentLength, Failed
  <2> QED BY <2>3, <2>4, <2>5 DEF GetResponse
<1> DEFINE dir  == Kind[m.target] = "dir"
           node == IF ~dir THEN m.target
                   ELSE IF Has(m.requ, "accept") THEN FindAccepted(m.target, m.requ.accept, m.requ.identity)
                   ELSE NoNode
           typed == IF dir THEN SetContentType(m.resp, Media[node]) ELSE m.resp
<1>2. GoodResp(m.resp)
  BY DEF GoodMsg
<1>3. GoodResp(typed) /\ ~Failed(typed)
  BY <1>2, CodesAreStatuses, ResponseOperations DEF Failed, StatusCodes
<1>4. \/ \E resp : msg' = [m EXCEPT !.resp = resp]
      \/ msg' = [m EXCEPT !.resp = GetResponse(node, typed), !.state = Began]
  BY DEF GetReply
<1> HIDE DEF node, typed
<1>5. CASE \E resp : msg' = [m EXCEPT !.resp = resp]
  <2>1. msg'.state = m.state
    BY <1>5 DEF GoodMsg
  <2> QED BY <2>1
<1>6. CASE msg' = [m EXCEPT !.resp = GetResponse(node, typed), !.state = Began]
  <2>1. msg'.resp = GetResponse(node, typed)
    BY <1>6 DEF GoodMsg
  <2> QED BY <1>1, <1>3, <2>1
<1> QED BY <1>4, <1>5, <1>6

\* The value that a request asks for, or none because the vector ends before it.
LEMMA GetShows ==
  ASSUME NEW m, GoodMsg(m), ~Failed(m.resp), m.target # NoNode, Kind[m.target] \in {"func", "items"},
         NEW values, GetReply(m, values)
  PROVE  \/ /\ Failed(msg'.resp) /\ msg'.state = m.state
            /\ Kind[m.target] = "items" /\ ~HasItem(m.target, m.requ)
         \/ /\ Kind[m.target] = "items" => HasItem(m.target, m.requ)
            /\ msg'.state = Began /\ IsGood(msg'.resp) /\ IsGood(reply')
            /\ reply'.body = <<IF Kind[m.target] = "func" THEN values[m.target]
                                ELSE values[m.target][m.requ.identity]>>
<1> DEFINE n    == m.target
           v    == values[n]
           done == [m EXCEPT !.resp = GetResponse(n, m.resp), !.state = Began]
<1>1. IF ~Readable(n, m.requ, v) THEN msg' = [m EXCEPT !.resp = Unreadable(n, m.resp)]
      ELSE msg' = done /\ \E body \in Contents(n, m.requ, v) : reply' = Envelope(done, body)
  BY DEF GetReply
<1>2. GoodResp(m.resp) /\ OK \in {OK, No_Content} /\ OK \in Status
  BY DEF GoodMsg, OK, Status
<1>3. CASE ~Readable(n, m.requ, v)
  <2>1. Kind[n] = "items" /\ ~HasItem(n, m.requ) /\ Unreadable(n, m.resp) = SetStatus(m.resp, Not_Found)
    BY <1>3 DEF Readable, Unreadable, IsVector
  <2>2. msg'.resp = SetStatus(m.resp, Not_Found) /\ msg'.state = m.state
    BY <1>1, <1>3, <2>1 DEF GoodMsg
  <2>3. Failed(SetStatus(m.resp, Not_Found))
    BY <1>2 DEF SetStatus, Failed, GoodResp, Not_Found, Bad_Request
  <2> QED BY <2>1, <2>2, <2>3
<1>4. CASE Readable(n, m.requ, v)
  <2>1. SetStatus(m.resp, OK).status = OK /\ GoodResp(SetStatus(m.resp, OK))
    BY <1>2, StatusSet
  <2>2. GetResponse(n, m.resp).status = OK
    <3>1. CASE Kind[n] = "func"
      BY <2>1, <3>1 DEF GetResponse, IsVector
    <3>2. CASE Kind[n] = "items"
      <4>1. GetResponse(n, m.resp) = SetContentType(SetStatus(m.resp, OK), Media[n])
        BY <3>2 DEF GetResponse, IsVector
      <4> QED BY <1>2, <2>1, <4>1, ResponseOperations
    <3> QED BY <3>1, <3>2
  <2>3. done.resp = GetResponse(n, m.resp) /\ done.state = Began
    BY DEF GoodMsg
  <2> HIDE DEF done
  <2>4. PICK body \in Contents(n, m.requ, v) : msg' = done /\ reply' = Envelope(done, body)
    BY <1>1, <1>4
  <2>5. reply'.status = OK /\ reply'.body = body
    BY <2>2, <2>3, <2>4 DEF Envelope
  <2>6. body = <<IF Kind[n] = "func" THEN v ELSE v[m.requ.identity]>>
    BY <2>4, ContentsAre DEF IsVector
  <2>7. IsGood(msg'.resp) /\ IsGood(reply')
    BY <2>2, <2>3, <2>4, <2>5 DEF IsGood, OK, Bad_Request
  <2>8. Kind[n] = "items" => HasItem(n, m.requ)
    BY <1>4 DEF Readable, IsVector
  <2> QED BY <2>3, <2>4, <2>5, <2>6, <2>7, <2>8
<1> QED BY <1>3, <1>4

-----------------------------------------------------------------------------
\* The invariant.  From the moment the target was processed without an error, an upload
\* is no fragment and has a good answer, and a read shows the value that is still there;
\* what has failed is never answered as if it had not.
Shown(r, out, values) == IsGood(out) /\ AimOf(r) \in Places /\ out.body = <<Behind(values)[AimOf(r)]>>

Granted(r) ==
  /\ r \in FunctionReads => msg.state >= Sealed /\ Shown(r, reply, store)
  /\ r \in FunctionUploads => ~IsFragment /\ IsGood(msg.resp) /\ (msg.state >= Sealed => IsGood(reply))

Earned(r) ==
  /\ r \in FunctionReads => Shown(r, reply, store)
  /\ r \in FunctionUploads => IsGood(reply)

Promised ==
  /\ phase = "finish" => IF Failed(msg.resp) THEN msg.state < Sealed ELSE Granted(sent[serving])
  /\ phase = "return" => /\ msg.result \in {"keep", "close"} => sent[serving] \in Requests /\ Earned(sent[serving])
                         /\ msg.result \in {"bad", "error"} => ~IsGood(reply)

-----------------------------------------------------------------------------
\* Places, and what happens to them when a node gets another value.
LEMMA PlacesAre ==
  ASSUME NEW n \in Nodes, NEW i \in Nat
  PROVE  <<n, i>> \in Places <=> \/ Kind[n] = "func" /\ i = 0
                                 \/ Kind[n] = "items" /\ i < Size[n]
<1>1. Size[n] \in Nat
  BY NodesAssumption
<1>2. i \in 0..(Size[n] - 1) <=> i < Size[n]
  BY <1>1
<1>3. <<n, i>> \in Places <=>
        Kind[n] \in {"func", "items"} /\ i \in IF Kind[n] = "func" THEN {0} ELSE 0..(Size[n] - 1)
  BY DEF Places
<1> QED BY <1>2, <1>3

LEMMA PlaceIs ==
  ASSUME NEW p \in Places
  PROVE  /\ p = <<p[1], p[2]>> /\ p[1] \in Nodes /\ p[2] \in Nat
         /\ Kind[p[1]] \in {"func", "items"} /\ (Kind[p[1]] = "func" => p[2] = 0)
         /\ Kind[p[1]] = "items" => p[2] \in 0..(Size[p[1]] - 1)
<1>1. PICK n \in Nodes : /\ Kind[n] \in {"func", "items"}
                         /\ \E i \in IF Kind[n] = "func" THEN {0} ELSE 0..(Size[n] - 1) : p = <<n, i>>
  BY DEF Places
<1>2. PICK i \in IF Kind[n] = "func" THEN {0} ELSE 0..(Size[n] - 1) : p = <<n, i>>
  BY <1>1
<1>3. Size[n] \in Nat
  BY NodesAssumption
<1>4. \A j \in 0..(Size[n] - 1) : j \in Nat
  BY <1>3
<1> QED BY <1>1, <1>2, <1>4

\* Function new is function old but for its value at one point.
Sets(new, old, at, v) == new = [old EXCEPT ![at] = v]

LEMMA BehindAt ==
  ASSUME NEW old, NEW new, NEW n \in Nodes, NEW value, DOMAIN old = Nodes, Sets(new, old, n, value)
  PROVE  /\ Kind[n] \notin {"func", "items"} => Behind(new) = Behind(old)
         /\ value = old[n] => Behind(new) = Behind(old)
         /\ Kind[n] = "func" => Sets(Behind(new), Behind(old), <<n, 0>>, value)
         /\ \A i \in Nat : \A v : Kind[n] = "items" /\ Fits(n, old[n]) /\ Sets(value, old[n], i, v)
              => Sets(Behind(new), Behind(old), <<n, i>>, v)
<1>1. \A p \in Places : p[1] \in Nodes /\ new[p[1]] = IF p[1] = n THEN value ELSE old[p[1]]
  BY PlaceIs DEF Sets
<1>2. Kind[n] \notin {"func", "items"} => Behind(new) = Behind(old)
  <2> SUFFICES ASSUME Kind[n] \notin {"func", "items"} PROVE Behind(new) = Behind(old)
    OBVIOUS
  <2>1. \A p \in Places : p[1] # n
    BY PlaceIs
  <2>2. \A p \in Places : new[p[1]] = old[p[1]]
    BY <1>1, <2>1
  <2> QED BY <2>2 DEF Behind
<1>3. value = old[n] => Behind(new) = Behind(old)
  <2> SUFFICES ASSUME value = old[n] PROVE Behind(new) = Behind(old)
    OBVIOUS
  <2>1. \A p \in Places : new[p[1]] = old[p[1]]
    BY <1>1
  <2> QED BY <2>1 DEF Behind
<1>4. Kind[n] = "func" => Sets(Behind(new), Behind(old), <<n, 0>>, value)
  <2> SUFFICES ASSUME Kind[n] = "func" PROVE Sets(Behind(new), Behind(old), <<n, 0>>, value)
    OBVIOUS
  <2>1. ASSUME NEW p \in Places
        PROVE  Behind(new)[p] = IF p = <<n, 0>> THEN value ELSE Behind(old)[p]
    <3>1. p = <<n, 0>> <=> p[1] = n
      BY PlaceIs
    <3>2. new[p[1]] = IF p[1] = n THEN value ELSE old[p[1]]
      BY <1>1
    <3>3. CASE p[1] = n
      BY <3>1, <3>2, <3>3 DEF Behind
    <3>4. CASE p[1] # n
      BY <3>1, <3>2, <3>4 DEF Behind
    <3> QED BY <3>3, <3>4
  <2>2. DOMAIN Behind(new) = Places /\ DOMAIN Behind(old) = Places
    BY DEF Behind
  <2>3. Behind(new) = [p \in Places |-> Behind(new)[p]]
    BY DEF Behind
  <2>4. [Behind(old) EXCEPT ![<<n, 0>>] = value]
          = [p \in Places |-> IF p = <<n, 0>> THEN value ELSE Behind(old)[p]]
    BY <2>2
  <2> QED BY <2>1, <2>3, <2>4 DEF Sets
<1>5. ASSUME Kind[n] = "items", Fits(n, old[n]), NEW i \in Nat, NEW v, Sets(value, old[n], i, v)
      PROVE  Sets(Behind(new), Behind(old), <<n, i>>, v)
  <2>1. ASSUME NEW p \in Places
        PROVE  Behind(new)[p] = IF p = <<n, i>> THEN v ELSE Behind(old)[p]
    <3>1. p = <<p[1], p[2]>> /\ (Kind[p[1]] = "items" => p[2] \in 0..(Size[p[1]] - 1))
      BY PlaceIs
    <3>2. new[p[1]] = IF p[1] = n THEN value ELSE old[p[1]]
      BY <1>1
    <3>3. CASE p[1] = n
      <4>1. p[2] \in DOMAIN old[n]
        BY <1>5, <3>1, <3>3 DEF Fits
      <4>2. value[p[2]] = IF p[2] = i THEN v ELSE old[n][p[2]]
        BY <1>5, <4>1 DEF Sets
      <4>3. p = <<n, i>> <=> p[2] = i
        BY <3>1, <3>3
      <4>4. Behind(new)[p] = value[p[2]] /\ Behind(old)[p] = old[n][p[2]]
        BY <1>5, <3>2, <3>3 DEF Behind
      <4> QED BY <4>2, <4>3, <4>4
    <3>4. CASE p[1] # n
      <4>1. p # <<n, i>>
        BY <3>4
      <4> QED BY <3>2, <3>4, <4>1 DEF Behind
    <3> QED BY <3>3, <3>4
  <2>2. DOMAIN Behind(old) = Places
    BY DEF Behind
  <2>3. Behind(new) = [p \in Places |-> Behind(new)[p]]
    BY DEF Behind
  <2>4. [Behind(old) EXCEPT ![<<n, i>>] = v]
          = [p \in Places |-> IF p = <<n, i>> THEN v ELSE Behind(old)[p]]
    BY <2>2
  <2> QED BY <2>1, <2>3, <2>4 DEF Sets
<1> QED BY <1>2, <1>3, <1>4, <1>5

-----------------------------------------------------------------------------
\* What the message asks for when its target is processed is what its client asked for.
LEMMA AimOfMessage ==
  ASSUME NumbersAreNoNames, NEW c \in Conns, Reading(c), NEW r, r = sent[c]
  PROVE  /\ r \in Requests /\ r \in Request /\ r.method = msg.requ.method
         /\ msg.target = Lookup(r.target) /\ msg.requ.ctype = DeclaredType(r)
         /\ msg.target # NoNode =>
              /\ msg.target \in Nodes
              /\ DeclaredIdentity(r) = msg.requ.identity /\ msg.requ.identity \in Nat
<1>1. HeadIs(msg, r) /\ r \in Requests /\ r \in Request
  BY ServiceAssumption DEF Reading
<1>2. Found(r.target) \in Place /\ r.target \in Seq(STRING)
  BY <1>1, ItemFound DEF Request
<1>3. ASSUME msg.target # NoNode
      PROVE  /\ msg.target \in Nodes
             /\ DeclaredIdentity(r) = msg.requ.identity /\ msg.requ.identity \in Nat
  <2>1. Found(r.target).node = msg.target /\ msg.requ.identity = DeclaredIdentity(r)
    BY <1>1, <1>3 DEF HeadIs, Lookup
  <2>2. Found(r.target).identity = DeclaredIdentity(r)
    BY <1>2, <1>3, <2>1, ItemFound DEF Lookup
  <2>3. Found(r.target).node \in Nodes \cup {NoNode} /\ Found(r.target).identity \in Identity
    BY <1>2 DEF Place
  <2>4. \A i \in Identity : i \in Nat
    BY NodesAssumption DEF Identity
  <2> QED BY <1>3, <2>1, <2>2, <2>3, <2>4
<1> QED BY <1>1, <1>3 DEF HeadIs

\* An upload to a value behind functions fails and sets nothing, or sets what its client
\* sent; then it is no fragment, unless get follows.
LEMMA UploadAtOnce ==
  ASSUME Cuts # "any", NumbersAreNoNames, CompleteUploads, PlainUploads, Serving, Shaped, Ready,
         NEW r, r = sent[serving], r \in FunctionUploads,
         NEW n, n = msg.target, NEW o, o = AfterPut(Prepared), NEW done, done = PutDone(Prepared, o)
  PROVE  /\ GoodMsg(done) /\ done.state = msg.state /\ done.target = n /\ done.requ.identity = msg.requ.identity
         /\ \/ o.value = store[n] /\ Failed(done.resp)
            \/ /\ IsGood(done.resp) /\ ~Failed(done.resp) /\ AimOf(r) \in Places
               /\ done.eof => r.method = "POST" /\ PostAsPutGet
               /\ \E v \in WantedBy(r) :
                    /\ Kind[n] = "func" => o.value = v
                    /\ Kind[n] = "items" => Sets(o.value, store[n], msg.requ.identity, v)
<1> DEFINE in == Chars(input)
<1>1. phase = "body" /\ n # NoNode /\ ~Failed(msg.resp)
  BY DEF Ready
<1>2. serving \in Conns /\ Reading(serving) /\ GoodMsg(msg)
  BY <1>1 DEF Serving, Clean, Framing, Served, Progress
<1>3. /\ r \in Requests /\ r \in Request /\ r.method = msg.requ.method /\ n = Lookup(r.target)
      /\ msg.requ.ctype = DeclaredType(r) /\ n \in Nodes
      /\ DeclaredIdentity(r) = msg.requ.identity /\ msg.requ.identity \in Nat
  BY <1>1, <1>2, AimOfMessage
<1>4. Kind[n] \in {"func", "items"} /\ r.method \in {"PUT", "POST"}
  BY <1>3 DEF FunctionUploads, AimsAtFunctions
<1>5. /\ GoodMsg(Prepared) /\ Prepared.state = msg.state /\ SameHead(msg, Prepared) /\ Prepared.target = n
      /\ Prepared.requ.ctype = msg.requ.ctype /\ Prepared.requ.identity = msg.requ.identity
      /\ Prepared.resp = FixContentType(msg.resp, Media[n])
  <2>1. GoodMsg(Prepared) /\ Prepared.state = msg.state
    BY <1>2, PreparedGood
  <2> QED BY <1>2, <2>1 DEF Prepared, SameHead, GoodMsg, RequFields
<1>6. GoodResp(Prepared.resp) /\ ~Failed(Prepared.resp)
  <2>1. GoodResp(msg.resp) /\ OK \in Status
    BY <1>2 DEF GoodMsg, OK, Status
  <2> QED BY <1>1, <1>5, <2>1, ResponseOperations DEF Failed
<1>7. GoodMsg(done) /\ done.state = msg.state /\ done.requ = Prepared.requ
  BY <1>5, PutDoneGood
<1>8. done.resp = o.resp /\ done.eof = o.eof /\ done.target = n
  BY <1>5 DEF PutDone, GoodMsg
<1>9. o = Put(n, Prepared.requ, Prepared.resp, store[n], in)
  BY <1>5 DEF AfterPut
<1>10. CASE o.value = store[n] /\ Failed(o.resp)
  BY <1>5, <1>7, <1>8, <1>10
<1>11. CASE /\ ReadNumber(in).ok /\ Prepared.requ.ctype = Media[n]
            /\ o.resp = SetStatus(Prepared.resp, No_Content)
            /\ Kind[n] = "func" => o.value = ReadNumber(in).value
            /\ Kind[n] = "items" =>
                 /\ HasItem(n, Prepared.requ)
                 /\ o.value = [store[n] EXCEPT ![Prepared.requ.identity] = ReadNumber(in).value]
  <2>1. IsGood(done.resp) /\ ~Failed(done.resp)
    BY <1>6, <1>8, <1>11, StatusSet
  <2>2. in = r.body
    BY <1>2, <1>11, BodyOrNothing, NothingIsNoNumber
  <2>3. PlainNumber(r) /\ Complete(r)
    BY <1>1, <1>3, <1>4 DEF PlainUploads, CompleteUploads
  <2>4. Submitted(n, r) = <<ReadNumber(in).value>>
    BY <1>3, <1>4, <1>11, <2>2, <2>3, NumberAsSubmitted
  <2>5. ReadNumber(in).value \in WantedBy(r)
    <3> HIDE DEF in
    <3>1. ReadNumber(in).value \in Range(Submitted(n, r))
      BY <2>4 DEF Range
    <3> QED BY <1>3, <1>5, <1>11, <3>1 DEF WantedBy
  <2>6. AimOf(r) \in Places
    <3>1. Kind[n] = "func" => AimOf(r) = <<n, 0>>
      BY <1>3 DEF AimOf
    <3>2. Kind[n] = "items" => AimOf(r) = <<n, msg.requ.identity>> /\ msg.requ.identity < Size[n]
      BY <1>3, <1>5, <1>11 DEF AimOf, HasItem
    <3> QED BY <1>3, <1>4, <3>1, <3>2, PlacesAre
  <2>7. done.eof => r.method = "POST" /\ PostAsPutGet
    <3>1. HeadIs(Prepared, r)
      BY <1>2, <1>5, SameHeadIs DEF Reading
    <3> HIDE DEF in
    <3>2. o = Put(n, Prepared.requ, Prepared.resp, store[n], r.body)
      BY <1>9, <2>2
    <3> QED BY <1>1, <1>3, <1>4, <1>5, <1>8, <2>3, <3>1, <3>2, WholeBodyEnds
  <2> HIDE DEF in
  <2>8. /\ Kind[n] = "func" => o.value = ReadNumber(in).value
        /\ Kind[n] = "items" => Sets(o.value, store[n], msg.requ.identity, ReadNumber(in).value)
    BY <1>5, <1>11 DEF Sets
  <2> QED BY <1>5, <1>7, <1>8, <2>1, <2>5, <2>6, <2>7, <2>8
<1> HIDE DEF in
<1>12. \/ o.value = store[n] /\ Failed(o.resp)
       \/ /\ ReadNumber(in).ok /\ Prepared.requ.ctype = Media[n]
          /\ o.resp = SetStatus(Prepared.resp, No_Content)
          /\ Kind[n] = "func" => o.value = ReadNumber(in).value
          /\ Kind[n] = "items" =>
               /\ HasItem(n, Prepared.requ)
               /\ o.value = [store[n] EXCEPT ![Prepared.requ.identity] = ReadNumber(in).value]
  BY <1>4, <1>6, <1>9, PutAtOnce
<1> QED BY <1>10, <1>11, <1>12

\* What a place of a request holds.
LEMMA BehindAim ==
  ASSUME NEW r, AimOf(r) \in Places, NEW n, n = Lookup(r.target), Kind[n] \in {"func", "items"}, NEW values
  PROVE  Behind(values)[AimOf(r)] = IF Kind[n] = "func" THEN values[n] ELSE values[n][DeclaredIdentity(r)]
<1>1. AimOf(r)[1] = n /\ (Kind[n] = "items" => AimOf(r)[2] = DeclaredIdentity(r))
  BY DEF AimOf
<1>2. Behind(values)[AimOf(r)] = IF Kind[AimOf(r)[1]] = "func" THEN values[AimOf(r)[1]]
                                ELSE values[AimOf(r)[1]][AimOf(r)[2]]
  BY DEF Behind
<1> QED BY <1>1, <1>2

\* The message that is processed; its target is asked once its head was read.
LEMMA MessageProcessed ==
  ASSUME NumbersAreNoNames, Serving, phase = "body", NEW r, r = sent[serving]
  PROVE  /\ serving \in Conns /\ Reading(serving) /\ GoodMsg(msg) /\ msg.state < Sealed
         /\ r \in Requests /\ r.method = msg.requ.method /\ msg.target = Lookup(r.target)
         /\ msg.target # NoNode => /\ msg.target \in Nodes /\ DeclaredIdentity(r) = msg.requ.identity
                                   /\ msg.requ.identity \in Nat
         /\ GoodMsg(Prepared) /\ Prepared.state = msg.state /\ Prepared.target = msg.target
         /\ Prepared.requ.identity = msg.requ.identity
         /\ ~Failed(msg.resp) => ~Failed(Prepared.resp)
<1>1. serving \in Conns /\ Reading(serving) /\ GoodMsg(msg) /\ msg.state < Sealed
  BY DEF Serving, Clean, Framing, Served, Progress
<1>2. /\ r \in Requests /\ r.method = msg.requ.method /\ msg.target = Lookup(r.target)
      /\ msg.target # NoNode => /\ msg.target \in Nodes /\ DeclaredIdentity(r) = msg.requ.identity
                                /\ msg.requ.identity \in Nat
  BY <1>1, AimOfMessage
<1>3. GoodMsg(Prepared) /\ Prepared.state = msg.state
  BY <1>1, PreparedGood
<1>4. /\ Prepared.target = msg.target /\ Prepared.requ.identity = msg.requ.identity
      /\ Prepared.resp = FixContentType(msg.resp, Media[msg.target])
  BY <1>1 DEF Prepared, GoodMsg, RequFields
<1>5. FixContentType(msg.resp, Media[msg.target]).status = msg.resp.status
  <2>1. GoodResp(msg.resp) /\ OK \in Status
    BY <1>1 DEF GoodMsg, OK, Status
  <2> QED BY <2>1, ResponseOperations
<1> QED BY <1>1, <1>2, <1>3, <1>4, <1>5 DEF Failed

\* A reply that has been begun is no error.
LEMMA FailuresAreUnsealed ==
  ASSUME NumbersAreNoNames, Serving, phase = "body", Process
  PROVE  phase' = "finish" => msg'.state < Sealed \/ ~Failed(msg'.resp)
<1> DEFINE done == PutDone(Prepared, AfterPut(Prepared))
<1>1. GoodMsg(msg) /\ msg.state < Sealed /\ GoodMsg(Prepared) /\ Prepared.state = msg.state
  BY MessageProcessed
<1>2. GoodMsg(done) /\ done.state = msg.state
  BY <1>1, PutDoneGood
<1> HIDE DEF done
<1>3. CASE ProcessPut
  BY <1>1, <1>2, <1>3 DEF ProcessPut, done
<1>4. CASE ProcessPost
  <2>1. msg' = done \/ (IsGood(done.resp) /\ GetReply(done, store'))
    BY <1>4 DEF ProcessPost, done
  <2>2. CASE msg' = done
    BY <1>1, <1>2, <2>2
  <2>3. CASE IsGood(done.resp) /\ GetReply(done, store')
    <3>1. ~Failed(done.resp) /\ done.state < Sealed
      BY <1>1, <1>2, <2>3 DEF IsGood, Failed, GoodMsg, GoodResp, Status, Bad_Request
    <3> QED BY <1>2, <2>3, <3>1, BegunIsGood
  <2> QED BY <2>1, <2>2, <2>3
<1>5. CASE ProcessGet
  <2>1. ~Failed(Prepared.resp) /\ GetReply(Prepared, store)
    BY <1>5, MessageProcessed DEF ProcessGet, Ready
  <2>2. Prepared.state < Sealed
    BY <1>1
  <2> QED BY <1>1, <2>1, <2>2, BegunIsGood
<1>6. CASE ProcessOther
  <2>1. msg'.state = Prepared.state
    BY <1>1, <1>6 DEF ProcessOther, GoodMsg
  <2> QED BY <1>1, <2>1
<1>7. CASE SkipProcess
  BY <1>1, <1>7 DEF SkipProcess
<1>8. CASE NoTarget
  BY <1>8 DEF NoTarget, Goto
<1> QED BY <1>3, <1>4, <1>5, <1>6, <1>7, <1>8 DEF Process

\* Only uploads to them change the values behind functions.
LEMMA OthersLeaveBehind ==
  ASSUME NumbersAreNoNames, Serving, Shaped, phase = "body", Process,
         sent[serving] \notin FunctionUploads
  PROVE  Behind(store') = Behind(store)
<1> DEFINE r == sent[serving]
           new == AfterPut(Prepared).value
<1>1. CASE Writing
  <2>1. /\ r \in Requests /\ r.method = msg.requ.method /\ msg.target = Lookup(r.target) /\ msg.target \in Nodes
    BY <1>1, MessageProcessed DEF Writing
  <2>2. Kind[msg.target] \notin {"func", "items"}
    <3>1. msg.target # NoNode
      BY <1>1 DEF Writing
    <3> QED BY <1>1, <2>1, <3>1 DEF Writing, FunctionUploads, AimsAtFunctions
  <2>3. Sets(store', store, msg.target, new) /\ DOMAIN store = Nodes
    BY <1>1 DEF Writing, Shaped, Sets
  <2> HIDE DEF new
  <2> QED BY <2>1, <2>2, <2>3, BehindAt
<1>2. CASE UNCHANGED store
  BY <1>2
<1>3. [Next]_vars
  BY DEF Next, Service
<1> QED BY <1>1, <1>2, <1>3, WhoWrites

\* What get shows of a value behind functions is what the place of the request holds.
LEMMA ReadShows ==
  ASSUME NEW r, NEW n, n = Lookup(r.target), Kind[n] \in {"func", "items"}, n \in Nodes,
         NEW m, GoodMsg(m), ~Failed(m.resp), m.target = n, n # NoNode,
         m.requ.identity = DeclaredIdentity(r), DeclaredIdentity(r) \in Nat, m.state < Sealed,
         NEW values, GetReply(m, values)
  PROVE  \/ /\ Failed(msg'.resp) /\ msg'.state = m.state
            /\ Kind[n] = "items" /\ DeclaredIdentity(r) >= Size[n]
         \/ /\ msg'.state = Began /\ IsGood(msg'.resp) /\ ~Failed(msg'.resp)
            /\ Shown(r, reply', values)
<1>1. \/ /\ Failed(msg'.resp) /\ msg'.state = m.state
         /\ Kind[n] = "items" /\ ~HasItem(n, m.requ)
      \/ /\ Kind[n] = "items" => HasItem(n, m.requ)
         /\ msg'.state = Began /\ IsGood(msg'.resp) /\ IsGood(reply')
         /\ reply'.body = <<IF Kind[n] = "func" THEN values[n] ELSE values[n][m.requ.identity]>>
  BY GetShows
<1>2. Size[n] \in Nat
  BY NodesAssumption
<1>3. CASE /\ Failed(msg'.resp) /\ msg'.state = m.state
           /\ Kind[n] = "items" /\ ~HasItem(n, m.requ)
  <2>1. DeclaredIdentity(r) >= Size[n]
    BY <1>2, <1>3 DEF HasItem
  <2> QED BY <1>3, <2>1
<1>4. CASE /\ Kind[n] = "items" => HasItem(n, m.requ)
           /\ msg'.state = Began /\ IsGood(msg'.resp) /\ IsGood(reply')
           /\ reply'.body = <<IF Kind[n] = "func" THEN values[n] ELSE values[n][m.requ.identity]>>
  <2>1. AimOf(r) \in Places
    <3>1. Kind[n] = "func" => AimOf(r) = <<n, 0>>
      BY DEF AimOf
    <3>2. Kind[n] = "items" => AimOf(r) = <<n, DeclaredIdentity(r)>> /\ DeclaredIdentity(r) < Size[n]
      BY <1>4 DEF AimOf, HasItem
    <3> QED BY <3>1, <3>2, PlacesAre
  <2>2. Behind(values)[AimOf(r)] = IF Kind[n] = "func" THEN values[n] ELSE values[n][DeclaredIdentity(r)]
    BY <2>1, BehindAim
  <2>3. ~Failed(msg'.resp)
    <3>1. GoodMsg(msg')
      BY GetReplyProgress
    <3> QED BY <1>4, <3>1 DEF IsGood, Failed, GoodMsg, GoodResp, Status, Bad_Request
  <2> QED BY <1>4, <2>1, <2>2, <2>3 DEF Shown
<1> QED BY <1>1, <1>3, <1>4

\* A GET that is answered without an error shows the value of its place.
LEMMA ProcessRead ==
  ASSUME NumbersAreNoNames, Serving, phase = "body", Process,
         NEW r, r = sent[serving], r \in FunctionReads, r \notin FunctionUploads
  PROVE  phase' = "bad" \/ Failed(msg'.resp) \/ Granted(r)'
<1> DEFINE n == msg.target
<1>1. /\ r.method = "GET" /\ n = Lookup(r.target) /\ Kind[n] \in {"func", "items"}
      /\ r.method = msg.requ.method /\ n # NoNode
  <2>1. r.method = msg.requ.method /\ n = Lookup(r.target)
    BY MessageProcessed
  <2> QED BY <2>1 DEF FunctionReads, FunctionUploads, AimsAtFunctions
<1>2. /\ n \in Nodes /\ DeclaredIdentity(r) = msg.requ.identity /\ msg.requ.identity \in Nat
      /\ GoodMsg(Prepared) /\ Prepared.target = n /\ Prepared.requ.identity = msg.requ.identity
      /\ ~Failed(msg.resp) => ~Failed(Prepared.resp)
      /\ Prepared.state < Sealed
  BY <1>1, MessageProcessed
<1>3. ProcessGet \/ SkipProcess \/ NoTarget
  BY <1>1 DEF Process, ProcessPut, ProcessPost, Posts, ProcessOther
<1>4. CASE ProcessGet
  <2>1. ~Failed(Prepared.resp) /\ GetReply(Prepared, store) /\ UNCHANGED store
    BY <1>2, <1>4 DEF ProcessGet, Ready
  <2>2. Failed(msg'.resp) \/ (msg'.state = Began /\ Shown(r, reply', store))
    BY <1>1, <1>2, <2>1, ReadShows
  <2>3. Shown(r, reply', store) => Shown(r, reply, store)'
    BY <2>1 DEF Shown, Places, AimOf
  <2>4. Began >= Sealed
    BY DEF Began, Sealed
  <2> QED BY <2>2, <2>3, <2>4 DEF Granted
<1>5. CASE SkipProcess
  BY <1>5 DEF SkipProcess
<1>6. CASE NoTarget
  BY <1>6 DEF NoTarget, Goto
<1> QED BY <1>3, <1>4, <1>5, <1>6

\* An upload that fails has set nothing; one that does not has set its place, once, to a
\* value that its client sent, and the answer is decided.
Decided(r) ==
  /\ phase' = "finish" /\ ~Failed(msg'.resp) /\ AimOf(r) \in Places
  /\ \E v \in WantedBy(r) : Sets(Behind(store'), Behind(store), AimOf(r), v)

LEMMA ProcessUpload ==
  ASSUME Cuts # "any", NumbersAreNoNames, CompleteUploads, PlainUploads, Serving, Shaped,
         phase = "body", Process, NEW r, r = sent[serving], r \in FunctionUploads
  PROVE  \/ Behind(store') = Behind(store) /\ (phase' = "bad" \/ Failed(msg'.resp))
         \/ Decided(r) /\ Granted(r)'
<1>0. PICK n, o, done, id :
        n = msg.target /\ o = AfterPut(Prepared) /\ done = PutDone(Prepared, o) /\ id = msg.requ.identity
  OBVIOUS
<1>1. /\ r.method \in {"PUT", "POST"} /\ n = Lookup(r.target) /\ Kind[n] \in {"func", "items"}
      /\ r.method = msg.requ.method /\ n # NoNode /\ n \in Nodes
      /\ DeclaredIdentity(r) = id /\ id \in Nat /\ msg.state < Sealed
      /\ Size[n] \in Nat
  <2>1. r.method = msg.requ.method /\ n = Lookup(r.target) /\ msg.state < Sealed
    BY <1>0, MessageProcessed
  <2>2. r.method \in {"PUT", "POST"} /\ Kind[n] \in {"func", "items"} /\ n # NoNode
    BY <2>1 DEF FunctionUploads, AimsAtFunctions
  <2> QED BY <1>0, <2>1, <2>2, MessageProcessed, NodesAssumption
<1>2. DOMAIN store = Nodes /\ Fits(n, store[n])
  BY <1>1 DEF Shaped
<1>3. CASE UNCHANGED store /\ (phase' = "bad" \/ Failed(msg'.resp))
  BY <1>3
<1>4. CASE ProcessPut \/ ProcessPost
  <2>1. Ready /\ store' = [store EXCEPT ![n] = o.value]
    BY <1>0, <1>4 DEF ProcessPut, ProcessPost
  <2>2. /\ GoodMsg(done) /\ done.state = msg.state /\ done.target = n /\ done.requ.identity = id
        /\ \/ o.value = store[n] /\ Failed(done.resp)
           \/ /\ IsGood(done.resp) /\ ~Failed(done.resp) /\ AimOf(r) \in Places
              /\ done.eof => r.method = "POST" /\ PostAsPutGet
              /\ \E v \in WantedBy(r) :
                   /\ Kind[n] = "func" => o.value = v
                   /\ Kind[n] = "items" => Sets(o.value, store[n], id, v)
    <3>1. /\ GoodMsg(done) /\ done.state = msg.state /\ done.target = n /\ done.requ.identity = msg.requ.identity
          /\ \/ o.value = store[n] /\ Failed(done.resp)
             \/ /\ IsGood(done.resp) /\ ~Failed(done.resp) /\ AimOf(r) \in Places
                /\ done.eof => r.method = "POST" /\ PostAsPutGet
                /\ \E v \in WantedBy(r) :
                     /\ Kind[n] = "func" => o.value = v
                     /\ Kind[n] = "items" => Sets(o.value, store[n], msg.requ.identity, v)
      <4>1. Ready /\ n = msg.target /\ o = AfterPut(Prepared) /\ done = PutDone(Prepared, o)
        BY <1>0, <2>1
      <4> QED BY <4>1, UploadAtOnce
    <3> QED BY <1>0, <3>1
  <2>6. n \in Nodes /\ DOMAIN store = Nodes /\ Sets(store', store, n, o.value)
    BY <1>1, <1>2, <2>1 DEF Sets
  <2>7. /\ o.value = store[n] => Behind(store') = Behind(store)
        /\ Kind[n] = "func" => Sets(Behind(store'), Behind(store), <<n, 0>>, o.value)
        /\ \A i \in Nat : \A v : Kind[n] = "items" /\ Fits(n, store[n]) /\ Sets(o.value, store[n], i, v)
             => Sets(Behind(store'), Behind(store), <<n, i>>, v)
    BY <2>6, BehindAt
  <2>3. phase' = "finish" /\ \/ msg' = done /\ ~(r.method = "POST" /\ PostAsPutGet /\ IsGood(done.resp))
                             \/ /\ r.method = "POST" /\ PostAsPutGet /\ IsGood(done.resp)
                                /\ GetReply(done, store')
    <3>1. CASE ProcessPut
      BY <1>0, <1>1, <3>1 DEF ProcessPut, Processed
    <3>2. CASE ProcessPost
      BY <1>0, <1>1, <3>2 DEF ProcessPost, Processed, Posts
    <3> QED BY <1>4, <3>1, <3>2
  <2>4. CASE o.value = store[n] /\ Failed(done.resp)
    <3>1. Behind(store') = Behind(store)
      BY <2>4, <2>7
    <3>2. msg' = done
      <4>1. ~IsGood(done.resp)
        BY <2>2, <2>4 DEF IsGood, Failed, GoodMsg, GoodResp, Status, Bad_Request
      <4> QED BY <2>3, <4>1
    <3> QED BY <2>4, <3>1, <3>2
  <2>5. ASSUME IsGood(done.resp), ~Failed(done.resp), AimOf(r) \in Places,
               done.eof => r.method = "POST" /\ PostAsPutGet,
               NEW v \in WantedBy(r),
               Kind[n] = "func" => o.value = v,
               Kind[n] = "items" => Sets(o.value, store[n], id, v)
        PROVE  Decided(r) /\ Granted(r)'
    <3>1. AimOf(r) = <<n, IF Kind[n] = "func" THEN 0 ELSE id>>
      BY <1>1 DEF AimOf
    <3>2. Sets(Behind(store'), Behind(store), AimOf(r), v)
      BY <1>1, <1>2, <2>5, <2>7, <3>1
    <3>3. CASE msg' = done /\ ~(r.method = "POST" /\ PostAsPutGet /\ IsGood(done.resp))
      <4>1. ~(r.method = "POST" /\ PostAsPutGet)
        BY <2>5, <3>3
      <4>2. ~done.eof /\ r \notin FunctionReads /\ done.state < Sealed
        BY <1>1, <2>2, <2>5, <4>1 DEF FunctionReads
      <4>3. Granted(r)'
        BY <2>2, <2>5, <3>3, <4>2 DEF Granted, IsFragment, GoodMsg, State, Sealed
      <4> QED BY <2>3, <2>5, <3>2, <3>3, <4>3 DEF Decided
    <3>4. CASE r.method = "POST" /\ PostAsPutGet /\ GetReply(done, store')
      <4>1. Kind[n] = "items" => id < Size[n]
        BY <1>1, <2>5, <3>1, PlacesAre
      <4>2. msg'.state = Began /\ IsGood(msg'.resp) /\ ~Failed(msg'.resp) /\ Shown(r, reply', store')
        <5>1. done.state < Sealed
          BY <1>1, <2>2
        <5> QED BY <1>1, <2>2, <2>5, <3>4, <4>1, <5>1, ReadShows
      <4>3. Shown(r, reply', store') => Shown(r, reply, store)' /\ IsGood(reply)'
        BY DEF Shown, Places, AimOf, IsGood
      <4>4. Began >= Sealed /\ Began # Body
        BY DEF Began, Sealed, Body
      <4>5. Granted(r)'
        BY <4>2, <4>3, <4>4 DEF Granted, IsFragment, IsGood
      <4> QED BY <2>3, <2>5, <3>2, <4>2, <4>5 DEF Decided
    <3> QED BY <2>3, <3>3, <3>4
  <2> QED BY <2>2, <2>4, <2>5
<1>5. CASE ProcessGet
  BY <1>1, <1>5 DEF ProcessGet
<1>6. CASE ProcessOther
  <2>1. GoodMsg(Prepared) /\ ~Failed(Prepared.resp)
    BY <1>6, MessageProcessed DEF ProcessOther, Ready
  <2>2. msg'.resp = SetError(Prepared.resp, Method_Not_Allowed)
    BY <1>6, <2>1 DEF ProcessOther, GoodMsg
  <2>3. Failed(msg'.resp)
    BY <2>1, <2>2, ErrorsFail DEF GoodMsg
  <2> QED BY <1>3, <1>6, <2>3 DEF ProcessOther
<1>7. CASE SkipProcess
  BY <1>3, <1>7 DEF SkipProcess
<1>8. CASE NoTarget
  BY <1>3, <1>8 DEF NoTarget, Goto
<1> QED BY <1>4, <1>5, <1>6, <1>7, <1>8 DEF Process

-----------------------------------------------------------------------------
\* What is promised when the target was processed is kept when the service returns.
LEMMA FinishKeeps ==
  ASSUME Serving, Promised, Finish, NEW r, r = sent[serving]
  PROVE  /\ msg'.result \in {"keep", "close"} =>
              phase = "finish" /\ ~Failed(msg.resp) /\ r \in Requests /\ Earned(r)'
         /\ msg'.result \in {"bad", "error"} => ~IsGood(reply')
         /\ r \in FunctionUploads /\ phase = "finish" /\ ~Failed(msg.resp) => msg'.result \in {"keep", "close"}
<1>1. GoodMsg(msg) /\ GoodResp(msg.resp)
  BY DEF Serving, Progress, GoodMsg
<1>2. \A resp : GoodResp(resp) /\ Failed(resp) => ~IsGood(resp)
  BY DEF GoodResp, Failed, IsGood, Status, Bad_Request
<1>3. \A m, body : /\ Envelope(m, body).status = m.resp.status
                   /\ IsGood(Envelope(m, body)) <=> IsGood(m.resp)
  BY DEF Envelope, IsGood
<1>4. phase = "finish" /\ ~Failed(msg.resp) => Granted(r)
  BY DEF Promised
<1>5. CASE Pause
  <2>1. msg'.result = "fragment" /\ IsFragment
    BY <1>1, <1>5 DEF Pause, Return, GoodMsg
  <2> QED BY <1>4, <2>1 DEF Granted
<1>6. CASE Fail
  <2> DEFINE m == IF IsFragment THEN [msg EXCEPT !.resp = SetError(@, Service_Unavailable)] ELSE msg
  <2>1. /\ phase = "finish" /\ Failed(m.resp)
        /\ reply' = IF m.state >= Began THEN reply ELSE Envelope(m, <<"message">>)
        /\ msg' = [m EXCEPT !.result = IF m.good THEN "bad" ELSE "error"]
    BY <1>6 DEF Fail, Return
  <2>2. GoodMsg(m) /\ m.state = msg.state
    <3>1. GoodResp(SetError(msg.resp, Service_Unavailable))
      BY <1>1, ResponseOperations, CodesAreStatuses DEF StatusCodes
    <3> QED BY <1>1, <3>1 DEF GoodMsg
  <2>3. ~(m.state >= Began)
    <3>1. CASE IsFragment
      BY <2>2, <3>1 DEF IsFragment, Body, Began
    <3>2. CASE ~IsFragment
      <4>1. Failed(msg.resp)
        BY <2>1, <3>2
      <4> QED BY <1>1, <2>1, <2>2, <4>1 DEF Promised, GoodMsg, State, Sealed, Began
    <3> QED BY <3>1, <3>2
  <2>4. ~IsFragment => m = msg
    OBVIOUS
  <2> HIDE DEF m
  <2>5. msg'.result \in {"bad", "error"}
    BY <2>1, <2>2 DEF GoodMsg
  <2>6. ~IsGood(reply')
    <3>1. reply' = Envelope(m, <<"message">>) /\ ~IsGood(m.resp)
      BY <1>2, <2>1, <2>2, <2>3 DEF GoodMsg
    <3> QED BY <1>3, <3>1
  <2>7. ~(r \in FunctionUploads /\ ~Failed(msg.resp))
    <3> SUFFICES ASSUME r \in FunctionUploads, ~Failed(msg.resp) PROVE FALSE
      OBVIOUS
    <3>1. ~IsFragment
      BY <1>4, <2>1 DEF Granted
    <3> QED BY <2>1, <2>4, <3>1
  <2> QED BY <2>1, <2>5, <2>6, <2>7
<1>7. CASE Succeed
  <2>1. /\ phase = "finish" /\ ~Failed(msg.resp) /\ Granted(r)
        /\ reply' = IF msg.state >= Sealed THEN reply ELSE Envelope(msg, <<>>)
        /\ msg'.result \in {"keep", "close"} /\ UNCHANGED store
    BY <1>1, <1>4, <1>7 DEF Succeed, Return, GoodMsg
  <2>2. r \in Requests
    <3>1. serving \in Conns
      BY <2>1 DEF Serving, Clean
    <3> QED BY <2>1, <3>1 DEF Serving, Framing, Served, Answering
  <2>3. ASSUME r \in FunctionReads PROVE Shown(r, reply, store)'
    <3>1. Shown(r, reply, store) /\ reply' = reply
      BY <2>1, <2>3 DEF Granted
    <3> QED BY <2>1, <3>1 DEF Shown, Places, AimOf
  <2>4. ASSUME r \in FunctionUploads PROVE IsGood(reply')
    BY <1>3, <2>1, <2>4 DEF Granted
  <2> QED BY <2>1, <2>2, <2>3, <2>4 DEF Earned
<1>8. CASE BadMessage
  <2>1. /\ phase = "bad" /\ msg' = [msg EXCEPT !.result = "bad"]
        /\ reply' = Envelope([msg EXCEPT !.resp = SetContentType(@, "plain")], <<"message">>)
    BY <1>8 DEF BadMessage, Return
  <2>2. Failed(msg.resp) /\ msg'.result = "bad"
    BY <1>1, <2>1 DEF Serving, Progress, GoodMsg
  <2>3. reply'.status = SetContentType(msg.resp, "plain").status
    BY <1>1, <1>3, <2>1 DEF GoodMsg
  <2>4. SetContentType(msg.resp, "plain").status = msg.resp.status
    BY <1>1, ResponseOperations DEF GoodMsg, Status
  <2> QED BY <1>1, <1>2, <2>1, <2>2, <2>3, <2>4 DEF IsGood
<1> QED BY <1>5, <1>6, <1>7, <1>8 DEF Finish

LEMMA ProcessPromised ==
  ASSUME Cuts # "any", NumbersAreNoNames, CompleteUploads, PlainUploads, Serving, Shaped,
         phase = "body", Process
  PROVE  Promised'
<1>1. PICK r : r = sent[serving]
  OBVIOUS
<1>2. UNCHANGED <<serving, sent>> /\ phase' \in {"finish", "bad"}
  BY ServiceParts DEF client
<1>3. ASSUME phase' = "finish", ~Failed(msg'.resp)
      PROVE  Granted(r)'
  <2>1. CASE r \in FunctionUploads
    BY <1>1, <1>3, <2>1, ProcessUpload
  <2>2. CASE r \in FunctionReads /\ r \notin FunctionUploads
    BY <1>1, <1>3, <2>2, ProcessRead
  <2>3. CASE r \notin FunctionReads /\ r \notin FunctionUploads
    BY <2>3 DEF Granted
  <2> QED BY <2>1, <2>2, <2>3
<1>4. Granted(r)' => Granted(sent[serving])'
  BY <1>1, <1>2 DEF Granted
<1>5. phase' = "finish" => msg'.state < Sealed \/ ~Failed(msg'.resp)
  BY FailuresAreUnsealed
<1> QED BY <1>2, <1>3, <1>4, <1>5 DEF Promised

LEMMA PromisedInit == Init => Promised
BY DEF Init, Promised

LEMMA PromisedStep ==
  ASSUME Cuts # "any", NumbersAreNoNames, CompleteUploads, PlainUploads, Serving, Shaped, Promised, [Next]_vars
  PROVE  Promised'
<1>1. PICK r : r = sent[serving]
  OBVIOUS
<1>2. UNCHANGED <<store, phase, msg, reply>> /\ sent'[serving'] = sent[serving] => Promised'
  BY DEF Promised, Granted, Earned, IsFragment
<1>3. ASSUME NEW c \in Conns, (\E q \in Requests : Send(c, q)) \/ Drop(c)
      PROVE  Promised'
  <2>1. /\ UNCHANGED <<store, serving, phase, msg, reply>> /\ serving # c
        /\ \E v : sent' = [sent EXCEPT ![c] = v]
    BY <1>3 DEF Send, Drop, server
  <2>2. sent'[serving'] = sent[serving]
    BY <2>1
  <2> QED BY <1>2, <2>1, <2>2
<1>4. ASSUME NEW c \in Conns, Receive(c)
      PROVE  Promised'
  BY <1>4 DEF Receive, Promised
<1>5. CASE Parse
  <2>1. phase' # "finish" /\ (phase' = "return" => msg'.result = "empty")
    BY <1>5, ServiceParts, ParseReturns DEF Serving, Progress
  <2> QED BY <2>1 DEF Promised
<1>6. CASE Process
  BY <1>6, ServiceParts, ProcessPromised
<1>7. CASE Finish
  <2>1. UNCHANGED <<serving, sent>> /\ phase' = "return"
    BY <1>7, ServiceParts DEF client
  <2>2. /\ msg'.result \in {"keep", "close"} => r \in Requests /\ Earned(r)'
        /\ msg'.result \in {"bad", "error"} => ~IsGood(reply')
    BY <1>1, <1>7, FinishKeeps
  <2>3. Earned(r)' => Earned(sent[serving])'
    BY <1>1, <2>1 DEF Earned
  <2> QED BY <1>1, <2>1, <2>2, <2>3 DEF Promised, IsGood
<1>8. CASE Session
  <2>1. phase' = "idle"
    BY <1>8, ServiceParts
  <2> QED BY <2>1 DEF Promised
<1>9. CASE UNCHANGED vars
  BY <1>2, <1>9 DEF vars, server, client
<1> QED BY <1>3, <1>4, <1>5, <1>6, <1>7, <1>8, <1>9 DEF Next, Service, Quiescent

-----------------------------------------------------------------------------
\* The steps of the service as steps of the store.  Only the request being served can
\* have taken effect, and only after its target was processed.
LEMMA EffectsStay ==
  ASSUME \A c \in Conns : Applied(c)' <=> Applied(c)
  PROVE  Effects' = Effects
<1>1. \A c \in Conns : Applied(c)' = Applied(c)
  <2>1. \A c \in Conns : Applied(c) \in BOOLEAN /\ Applied(c)' \in BOOLEAN
    BY Zenon DEF Applied
  <2> QED BY <2>1
<1> QED BY <1>1 DEF Effects

LEMMA EffectsChange ==
  ASSUME NEW c \in Conns, NEW b \in BOOLEAN, Applied(c)' <=> b,
         \A d \in Conns : d # c => (Applied(d)' <=> Applied(d))
  PROVE  Effects' = [Effects EXCEPT ![c] = b]
<1>1. \A d \in Conns : Applied(d)' = IF d = c THEN b ELSE Applied(d)
  <2>1. \A d \in Conns : Applied(d) \in BOOLEAN /\ Applied(d)' \in BOOLEAN
    BY Zenon DEF Applied
  <2> QED BY <2>1
<1> QED BY <1>1 DEF Effects

LEMMA AnswersChange ==
  ASSUME DOMAIN replies = Conns, NEW c \in Conns, NEW out, replies' = [replies EXCEPT ![c] = out]
  PROVE  Answers' = [Answers EXCEPT ![c] =
                       IF out = NoReply THEN NoAnswer ELSE IF IsGood(out) THEN out.body ELSE Refusal]
<1>1. \A d \in Conns : replies'[d] = IF d = c THEN out ELSE replies[d]
  OBVIOUS
<1>2. \A d \in Conns : Told(d)' = IF d = c
        THEN IF out = NoReply THEN NoAnswer ELSE IF IsGood(out) THEN out.body ELSE Refusal
        ELSE Told(d)
  BY <1>1 DEF Told, NoReply, IsGood
<1> QED BY <1>2 DEF Answers

\* A step that is not to be seen.
LEMMA Unseen ==
  ASSUME Values' = Values, UNCHANGED <<sent, replies>>, \A c \in Conns : Applied(c)' <=> Applied(c)
  PROVE  UNCHANGED Atomic!vars
<1>1. Answers' = Answers
  BY DEF Answers, Told
<1> QED BY <1>1, EffectsStay DEF Atomic!vars

LEMMA ClientSteps ==
  ASSUME Serving, NEW c \in Conns, (\E r \in Requests : Send(c, r)) \/ Receive(c) \/ Drop(c)
  PROVE  Atomic!Next
<1>1. DOMAIN replies = Conns /\ DOMAIN sent = Conns /\ NoConn \notin Conns /\ (phase = "idle" <=> serving = NoConn)
  BY ServiceAssumption DEF Serving, Clean, Framing
<1>2. ASSUME replies' = [replies EXCEPT ![c] = NoReply]
      PROVE  Answers' = [Answers EXCEPT ![c] = NoAnswer]
  BY <1>1, <1>2, AnswersChange
<1>3. ASSUME NEW r \in Requests, Send(c, r)
      PROVE  Atomic!Next
  <2>1. /\ sent[c] = NoRequest /\ serving # c
        /\ sent' = [sent EXCEPT ![c] = r] /\ replies' = [replies EXCEPT ![c] = NoReply]
        /\ UNCHANGED <<store, serving, phase, msg>>
    BY <1>3 DEF Send, server
  <2>2. \A d \in Conns : d # c => sent'[d] = sent[d]
    BY <1>1, <2>1
  <2>3. \A d \in Conns : Applied(d)' <=> Applied(d)
    BY <2>1, <2>2 DEF Applied
  <2>4. Values' = Values /\ Effects' = Effects
    BY <2>1, <2>3, EffectsStay DEF Values
  <2>5. Atomic!Ask(c, r)
    BY <1>2, <2>1, <2>4 DEF Atomic!Ask, Atomic!Tell
  <2> QED BY <2>5 DEF Atomic!Next
<1>4. CASE Receive(c)
  <2>1. /\ serving = NoConn /\ phase' \in {"parse", "body"}
        /\ replies' = [replies EXCEPT ![c] = NoReply] /\ UNCHANGED <<store, sent>>
    BY <1>4 DEF Receive
  <2>2. \A d \in Conns : ~Applied(d) /\ ~Applied(d)'
    BY <1>1, <2>1 DEF Applied
  <2>3. Values' = Values /\ Effects' = Effects
    BY <2>1, <2>2, EffectsStay DEF Values
  <2>4. Atomic!Forget(c)
    BY <1>2, <2>1, <2>3 DEF Atomic!Forget, Atomic!Tell
  <2> QED BY <2>4 DEF Atomic!Next
<1>5. CASE Drop(c)
  <2>1. /\ serving # c
        /\ sent' = [sent EXCEPT ![c] = NoRequest] /\ replies' = [replies EXCEPT ![c] = NoReply]
        /\ UNCHANGED <<store, serving, phase, msg>>
    BY <1>5 DEF Drop
  <2>2. \A d \in Conns : d # c => sent'[d] = sent[d]
    BY <1>1, <2>1
  <2>3. ~Applied(c)' /\ \A d \in Conns : d # c => (Applied(d)' <=> Applied(d))
    BY <2>1, <2>2 DEF Applied
  <2>4. Effects' = [Effects EXCEPT ![c] = FALSE]
    BY <2>3, EffectsChange
  <2>5. Values' = Values
    BY <2>1 DEF Values
  <2>6. Atomic!Leave(c)
    BY <1>2, <2>1, <2>4, <2>5 DEF Atomic!Leave, Atomic!Settle, Atomic!Tell
  <2> QED BY <2>6 DEF Atomic!Next
<1> QED BY <1>3, <1>4, <1>5

LEMMA ProcessTakes ==
  ASSUME Cuts # "any", NumbersAreNoNames, CompleteUploads, PlainUploads, Serving, Shaped,
         phase = "body", Process
  PROVE  Atomic!Next \/ UNCHANGED Atomic!vars
<1>1. PICK r, c : r = sent[serving] /\ c = serving
  OBVIOUS
<1>2. UNCHANGED <<serving, sent, replies>> /\ phase' \in {"finish", "bad"} /\ c \in Conns
  BY <1>1, ServiceParts DEF client, Serving, Clean
<1>3. \A d \in Conns : ~Applied(d) /\ (d # c => ~Applied(d)')
  BY <1>1, <1>2 DEF Applied
<1>4. Applied(c)' <=> r \in FunctionUploads /\ phase' = "finish" /\ ~Failed(msg'.resp)
  BY <1>1, <1>2 DEF Applied, Failed, FunctionUploads, AimsAtFunctions
<1>5. CASE Behind(store') = Behind(store) /\ ~Applied(c)'
  <2>1. Values' = Values
    BY <1>5 DEF Values, Behind, Places
  <2> QED BY <1>2, <1>3, <1>5, <2>1, Unseen
<1>6. CASE r \in FunctionUploads /\ Decided(r)
  <2>1. /\ AimOf(r) \in Places
        /\ \E v \in WantedBy(r) : Values' = [Values EXCEPT ![AimOf(r)] = v]
    BY <1>6 DEF Decided, Sets, Values, Behind, Places
  <2>2. Applied(c)'
    BY <1>4, <1>6 DEF Decided
  <2>3. Effects' = [Effects EXCEPT ![c] = TRUE] /\ Effects[c] = FALSE
    <3>1. Effects[c] = FALSE
      BY <1>2, <1>3 DEF Effects, Applied
    <3> QED BY <1>2, <1>3, <2>2, <3>1, EffectsChange
  <2>4. Answers' = Answers
    BY <1>2 DEF Answers, Told
  <2>5. Atomic!Take(c)
    BY <1>1, <1>2, <1>6, <2>1, <2>3, <2>4 DEF Atomic!Take
  <2> QED BY <1>2, <2>5 DEF Atomic!Next
<1>7. CASE r \in FunctionUploads /\ Behind(store') = Behind(store) /\ (phase' = "bad" \/ Failed(msg'.resp))
  BY <1>4, <1>5, <1>7
<1>8. CASE r \notin FunctionUploads
  <2>1. Behind(store') = Behind(store)
    BY <1>1, <1>8, OthersLeaveBehind
  <2> QED BY <1>4, <1>5, <1>8, <2>1
<1> QED BY <1>1, <1>6, <1>7, <1>8, ProcessUpload

LEMMA FinishUnseen == ASSUME Serving, Promised, Finish PROVE UNCHANGED Atomic!vars
<1>1. PICK r, c : r = sent[serving] /\ c = serving
  OBVIOUS
<1>2. /\ UNCHANGED <<serving, sent, replies, store>> /\ phase' = "return" /\ phase # "return"
      /\ phase = "finish" \/ phase = "bad"
  <2>1. UNCHANGED store
    BY DEF Finish, Pause, Fail, Succeed, BadMessage, Return
  <2> QED BY <2>1, ServiceParts DEF client
<1>3. Applied(c) <=> c = serving /\ r \in FunctionUploads /\ phase = "finish" /\ ~Failed(msg.resp)
  BY <1>1, <1>2 DEF Applied
<1>4. Applied(c)' <=> c = serving /\ r \in FunctionUploads /\ msg'.result \in {"keep", "close"}
  BY <1>1, <1>2 DEF Applied, FunctionUploads, AimsAtFunctions
<1>5. Applied(c) <=> Applied(c)'
  BY <1>1, <1>3, <1>4, FinishKeeps
<1>6. \A d \in Conns : Applied(d)' <=> Applied(d)
  <2>1. \A d \in Conns : d # c => ~Applied(d) /\ ~Applied(d)'
    BY <1>1, <1>2 DEF Applied
  <2> QED BY <1>5, <2>1
<1>7. Values' = Values
  BY <1>2 DEF Values
<1> QED BY <1>2, <1>6, <1>7, Unseen

LEMMA SessionSettles ==
  ASSUME Serving, Promised, Session
  PROVE  Atomic!Next \/ UNCHANGED Atomic!vars
<1>1. PICK r, c : r = sent[serving] /\ c = serving
  OBVIOUS
<1>2. /\ phase = "return" /\ phase' = "idle" /\ serving' = NoConn /\ c \in Conns /\ NoConn \notin Conns
      /\ DOMAIN replies = Conns /\ DOMAIN sent = Conns
  <2>1. serving' = NoConn
    BY DEF Session, AwaitRest, KeepOpen, Ignore, Close, Deliver, Idle
  <2> QED BY <1>1, <2>1, ServiceParts, ServiceAssumption DEF Serving, Clean, Framing
<1>3. \A d \in Conns : ~Applied(d)' /\ (d # c => ~Applied(d))
  BY <1>1, <1>2 DEF Applied
<1>4. Applied(c) <=> r \in FunctionUploads /\ msg.result \in {"keep", "close"}
  BY <1>1, <1>2 DEF Applied
<1>5. UNCHANGED store
  BY DEF Session, AwaitRest, KeepOpen, Ignore, Close, Deliver
<1>6. Values' = Values
  BY <1>5 DEF Values
<1>7. CASE AwaitRest \/ Ignore
  <2>1. msg.result \in {"fragment", "empty"} /\ UNCHANGED <<sent, replies>>
    BY <1>7 DEF AwaitRest, Ignore, client
  <2>2. ~Applied(c)
    BY <1>4, <2>1
  <2> QED BY <1>3, <1>6, <2>1, <2>2, Unseen
<1>8. CASE KeepOpen \/ Close
  <2>1. /\ msg.result \in {"keep", "close", "bad", "error"}
        /\ replies' = [replies EXCEPT ![c] = reply] /\ sent' = [sent EXCEPT ![c] = NoRequest]
    BY <1>1, <1>8 DEF KeepOpen, Close, Deliver
  <2>2. Effects' = [Effects EXCEPT ![c] = FALSE]
    <3>1. ~Applied(c)' /\ \A d \in Conns : d # c => (Applied(d)' <=> Applied(d))
      BY <1>2, <1>3
    <3> QED BY <1>2, <3>1, EffectsChange
  <2>3. Atomic!Settle(c)
    BY <1>6, <2>1, <2>2 DEF Atomic!Settle
  <2>4. PICK told : told = IF reply = NoReply THEN NoAnswer ELSE IF IsGood(reply) THEN reply.body ELSE Refusal
    OBVIOUS
  <2>5. Answers' = [Answers EXCEPT ![c] = told] /\ Answers'[c] = told
    <3>1. Answers' = [Answers EXCEPT ![c] = told]
      BY <1>2, <2>1, <2>4, AnswersChange
    <3>2. DOMAIN Answers = Conns
      BY DEF Answers
    <3> QED BY <1>2, <3>1, <3>2
  <2>6. CASE reply = NoReply
    <3>1. Atomic!Leave(c)
      BY <2>3, <2>4, <2>5, <2>6 DEF Atomic!Leave, Atomic!Tell
    <3> QED BY <1>2, <3>1 DEF Atomic!Next
  <2>7. CASE reply # NoReply /\ ~IsGood(reply)
    <3>1. ~Applied(c)
      BY <1>1, <1>2, <1>4, <2>7 DEF Promised, Earned
    <3>2. ~Effects[c]
      BY <1>2, <3>1 DEF Effects
    <3>3. Atomic!Refuse(c)
      BY <2>3, <2>4, <2>5, <2>7, <3>2 DEF Atomic!Refuse, Atomic!Tell
    <3> QED BY <1>2, <3>3 DEF Atomic!Next
  <2>8. CASE reply # NoReply /\ IsGood(reply)
    <3>1. r \in Requests /\ Earned(r) /\ msg.result \in {"keep", "close"}
      BY <1>1, <1>2, <2>1, <2>8 DEF Promised
    <3>2. r # NoRequest /\ told = reply.body
      BY <2>4, <2>8, <3>1, ServiceAssumption
    <3>3. r \in FunctionUploads => Effects[c]
      BY <1>2, <1>4, <3>1 DEF Effects
    <3>4. r \in FunctionReads => AimOf(r) \in Places /\ told = <<Values[AimOf(r)]>>
      BY <3>1, <3>2 DEF Earned, Shown, Values
    <3>5. Atomic!Grant(c)
      BY <1>1, <2>3, <2>5, <3>2, <3>3, <3>4 DEF Atomic!Grant, Atomic!Tell
    <3> QED BY <1>2, <3>5 DEF Atomic!Next
  <2> QED BY <2>6, <2>7, <2>8
<1> QED BY <1>7, <1>8 DEF Session

LEMMA StepIsAtomic ==
  ASSUME Cuts # "any", NumbersAreNoNames, CompleteUploads, PlainUploads, Serving, Shaped, Promised, [Next]_vars
  PROVE  Atomic!Next \/ UNCHANGED Atomic!vars
<1>1. CASE Parse
  <2>1. /\ UNCHANGED <<serving, sent, replies>> /\ phase = "parse"
        /\ phase' # "finish" /\ (phase' = "return" => msg'.result = "empty")
    BY <1>1, ServiceParts, ParseReturns DEF client, Serving, Progress
  <2>2. UNCHANGED store
    BY <1>1 DEF Parse, ReadMethod, NoMessage, NoMethod, ReadTarget, ReadVersion, ReadHeader, ReadBlank, ReadStray,
         EndOfInput, Consume, KeepRest
  <2>3. Values' = Values /\ \A d \in Conns : Applied(d)' <=> Applied(d)
    BY <2>1, <2>2 DEF Values, Applied
  <2> QED BY <2>1, <2>3, Unseen
<1>2. CASE Process
  BY <1>2, ServiceParts, ProcessTakes
<1>3. CASE Finish
  BY <1>3, FinishUnseen
<1>4. CASE Session
  BY <1>4, SessionSettles
<1>5. CASE UNCHANGED vars
  <2>1. UNCHANGED <<sent, replies, serving, phase, msg, store>>
    BY <1>5 DEF vars, server, client
  <2>2. Values' = Values /\ \A d \in Conns : Applied(d)' <=> Applied(d)
    BY <2>1 DEF Values, Applied
  <2> QED BY <2>1, <2>2, Unseen
<1>6. ASSUME NEW c \in Conns, (\E r \in Requests : Send(c, r)) \/ Receive(c) \/ Drop(c)
      PROVE  Atomic!Next
  BY <1>6, ClientSteps
<1> QED BY <1>1, <1>2, <1>3, <1>4, <1>5, <1>6 DEF Next, Service, Quiescent

LEMMA AtomicInit == ASSUME Init PROVE Atomic!Init
<1>1. Values = Behind(InitStore) /\ sent = [c \in Conns |-> NoRequest]
  BY DEF Init, Values
<1>2. \A c \in Conns : Applied(c) = FALSE
  BY ServiceAssumption DEF Init, Applied
<1>3. \A c \in Conns : Told(c) = NoAnswer
  BY DEF Init, Told
<1> QED BY <1>1, <1>2, <1>3 DEF Atomic!Init, Effects, Answers

\* For any number of clients and any requests that are complete: however they are cut
\* between head and body, and whoever is served in between, what is read from and set
\* behind functions is as if each request were handled at one moment between its being
\* sent and its being answered, and each client is told what became of its own.
\* (httpmessage::save and restore, application::service, numeric::put)
THEOREM UpdatesAreAtomic ==
  ASSUME ClearOnKeep, RegularRequests, NumbersAreNoNames, CompleteUploads, PlainUploads, Cuts # "any"
  PROVE  Spec => RequestsAreAtomic
<1>1. Init => Serving /\ Shaped /\ Promised
  BY ServingInit, ShapedInit, PromisedInit
<1>2. Serving /\ Shaped /\ Promised /\ [Next]_vars => (Serving /\ Shaped /\ Promised)'
  BY ServingStep, ShapedStep, PromisedStep
<1>3. Init => Atomic!Init
  BY AtomicInit
<1>4. Serving /\ Shaped /\ Promised /\ [Next]_vars => [Atomic!Next]_Atomic!vars
  BY StepIsAtomic
<1> QED BY <1>1, <1>2, <1>3, <1>4, PTL DEF Spec, RequestsAreAtomic, Atomic!Spec
=============================================================================
