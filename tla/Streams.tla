------------------------------ MODULE Streams ------------------------------
(***************************************************************************)
(* The streams a message is read from and written to, one pair for each    *)
(* session layer: session::buffer of the Particle and the Arduino server,  *)
(* ibuffer and obuffer of lwIP and of the ESP8266.  The former two use one *)
(* array for what has been received and for what is to be sent.            *)
(*                                                                         *)
(* A pair of streams is a record:                                          *)
(*   port   the session layer                                              *)
(*   array  the buffer                                                     *)
(*   get, end, put   next place to read, end of the data read, next place  *)
(*          to write; places are numbered from 1                           *)
(*   wire   what the network holds for the connection                      *)
(*   late   what arrives when a read has found nothing                     *)
(*   up     how many receives succeed before the connection breaks         *)
(*   behind what memory holds behind the array, up to a line end           *)
(*   signed whether the compiler's char is                                 *)
(*   sent   what has been handed to the network                            *)
(*   err    the error bits of the input; of both where they are one object *)
(*   oerr   the error bits of an output that is an object of its own       *)
(***************************************************************************)
EXTENDS Integers, Sequences

Ports == {"spark", "arduino", "lwip", "esp"}

\* The codes delivered with eof and with an I/O error, and what an array holds
\* before anything is put in it.
Eos  == "eos_c"
Err  == "err_c"
Junk == "junk"

SharesArray(s) == s.port \in {"spark", "arduino"}

\* iostate::error, of the input and of the output.
Raise(s, e)    == [s EXCEPT !.err = @ \cup {e}]
RaiseOut(s, e) == IF SharesArray(s) THEN Raise(s, e) ELSE [s EXCEPT !.oerr = @ \cup {e}]

\* iostate::isgood of the input and of the output, iostate::eof
NotFailed(bits) == bits \cap {"ioerror", "bad"} = {}
InputGood(s)    == NotFailed(s.err)
OutputGood(s)   == NotFailed(IF SharesArray(s) THEN s.err ELSE s.oerr)
InputEnded(s)   == "eof" \in s.err

Got(s, chr) == [s |-> s, ok |-> TRUE, chr |-> chr]
End(s)      == [s |-> Raise(s, "eof"), ok |-> FALSE, chr |-> Eos]

Least(a, b) == IF a < b THEN a ELSE b

\* session::receive: socket_receive or recv into the array.
Receive(s) ==
  LET n == Least(Len(s.array), Len(s.wire))
  IN  [s EXCEPT !.array = [i \in DOMAIN @ |-> IF i <= n THEN s.wire[i] ELSE @[i]],
                !.end = n + 1,
                !.wire = SubSeq(@, n + 1, Len(@)),
                !.up = @ - 1]

\* sync: what was received is read from the beginning of the array.
Fill(s) == [Receive(s) EXCEPT !.get = 1]

\* More data arrives after a read that found none.
Late(s) == [s EXCEPT !.wire = s.late, !.late = <<>>]

\* What the next place holds, which may be one behind the array.
Place(s) ==
  LET memory == s.array \o s.behind
  IN  IF s.get \in DOMAIN memory THEN memory[s.get] ELSE "\n"

Taken(s) == Got([s EXCEPT !.get = @ + 1], Place(s))

Refill_KeepsPlace(s) == [Fill(s) EXCEPT !.get = s.get]

Refill(s) == Fill(s)

\* All that was received has been read; the Particle does not ask for more, and reads on,
\* when a receive has failed.
AllTaken(s) == s.get >= s.end /\ ~(s.port = "spark" /\ "ioerror" \in s.err)

\* The Arduino asks what there is before it receives, the Particle receives.
ReceiveFails(s) == s.up = 0 /\ (s.port = "arduino" => s.wire # <<>>)

\* get of session::buffer, on the Particle and on the Arduino.
BufferGet(s) ==
  CASE ~AllTaken(s) -> Taken(s)
    [] AllTaken(s) /\ ReceiveFails(s) -> [s |-> Raise(s, "ioerror"), ok |-> FALSE, chr |-> Err]
    [] AllTaken(s) /\ ~ReceiveFails(s) /\ s.wire = <<>> -> [End(s) EXCEPT !.s = Late(@)]
    [] AllTaken(s) /\ ~ReceiveFails(s) /\ s.wire # <<>> -> Taken(Refill(s))

\* ibuffer::get: the packet is there whole, in a chain of pbufs or in one piece.
PacketGet(s) ==
  IF s.wire = <<>> THEN End(s) ELSE Got([s EXCEPT !.wire = Tail(@)], Head(s.wire))

Get(s) == IF SharesArray(s) THEN BufferGet(s) ELSE PacketGet(s)

\* So many characters at most can be read before a get fails, or a line ends behind the
\* array.
Left(s) == Len(s.wire) + (IF s.get < s.end THEN s.end - s.get ELSE 0)
             + (IF "ioerror" \in s.err THEN Len(s.array) + Len(s.behind) ELSE 0)

-----------------------------------------------------------------------------
Pending(s) == SubSeq(s.array, 1, s.put - 1)

\* session::send, with the network taking the data or not.  No error bit is set.
Send(s, taken) == IF taken THEN [s EXCEPT !.sent = @ \o Pending(s)] ELSE s

\* session::buffer::flush: the buffer is empty in both cases.
Flush(s, taken) == IF s.put = 1 THEN s ELSE [Send(s, taken) EXCEPT !.put = 1]

Store(s, chr) == [s EXCEPT !.array = [@ EXCEPT ![s.put] = chr], !.put = @ + 1]

\* session::buffer::put
BufferPut(s, chr, taken) ==
  LET full == s.put > Len(s.array)
  IN  IF full /\ ~taken THEN Flush(s, FALSE)
      ELSE Store(IF full THEN Flush(s, TRUE) ELSE s, chr)

\* lwIP's obuffer::put keeps what tcp_write does not take.
LwipPut(s, chr, taken) ==
  LET full == s.put > Len(s.array)
  IN  IF full /\ ~taken THEN RaiseOut(s, "ioerror")
      ELSE Store(IF full THEN Flush(s, TRUE) ELSE s, chr)

\* The ESP8266's obuffer::put: the reply must fit.
EspPut(s, chr) == IF s.put > Len(s.array) THEN RaiseOut(s, "eof") ELSE Store(s, chr)

Put_KeepsFull(s, chr, taken) ==
  CASE SharesArray(s) -> BufferPut(s, chr, taken)
    [] s.port = "lwip" -> IF s.put > Len(s.array)
                                          THEN Store([s EXCEPT !.put = 1], chr)
                                          ELSE Store(s, chr)
    [] s.port = "esp"  -> EspPut(s, chr)

\* put, while the network takes data or not.
Put(s, chr, taken) ==
  CASE SharesArray(s) -> BufferPut(s, chr, taken)
    [] s.port = "lwip" -> LwipPut(s, chr, taken)
    [] s.port = "esp"  -> EspPut(s, chr)

\* What the session does with the rest of the output: keep() or close() of the
\* Particle, close() of the Arduino, whose keep() leaves it; send() of the others.
Finish(s, kept, taken) == IF s.port = "arduino" /\ kept THEN s ELSE Flush(s, taken)

\* The streams of a message: the Particle's accept has filled the buffer already.
Open(i) ==
  LET s == [port |-> i.port, array |-> [n \in 1..i.size |-> Junk], get |-> 1, end |-> 1, put |-> 1,
            wire |-> i.text, late |-> i.late, up |-> i.up, behind |-> i.behind,
            signed |-> i.signed, sent |-> <<>>, err |-> {}, oerr |-> {}]
  IN  IF i.port = "spark" THEN [Fill(s) EXCEPT !.up = i.up] ELSE s

-----------------------------------------------------------------------------
\* Classes of characters, which the code compares as numbers: an eos_c of an unsigned
\* char is greater than any other.
Spaces == {" ", "\t"}
Controls(s) == {"\r", "\n"} \cup (IF s.signed THEN {Eos, Err} ELSE {})
TypeEnds(s) == Controls(s) \cup {",", "\t"}

IsSpace(c)  == c \in Spaces
IsLinear(s, c) == c \notin Controls(s)
IsType(s, c)   == c \notin TypeEnds(s)
=============================================================================
