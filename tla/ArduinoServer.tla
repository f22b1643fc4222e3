--------------------------- MODULE ArduinoServer ---------------------------
(***************************************************************************)
(* The session layer for the W5100 of Arduino (network_arduino.cpp).  The  *)
(* main loop calls run, which looks at the sockets of the chip in turn,    *)
(* serves the first one with data and puts the others in order.  The chip  *)
(* works on meanwhile: connections and data come, peers leave.             *)
(*                                                                         *)
(* There is no storage for suspended messages: a message must have arrived *)
(* whole when it is served.                                                *)
(***************************************************************************)
EXTENDS Integers, Packets

CONSTANTS MaxSockNum,  \* MAX_SOCK_NUM, the sockets of the chip
          CountRange,  \* the counter of the round robin counts modulo this
          MaxFaults    \* bound on sockets that fail to listen

VARIABLES status,   \* socketStatus of each socket
          rx,       \* the packets in its receive buffer
          wire,     \* what its client still has to send of its request
          next,     \* the counter of the round robin
          accepted, \* the socket selected for service
          pc,       \* where server::run stands
          turn,     \* sockets visited by the call: how many, and the last one
          faults    \* failures so far

chip   == <<status, rx, wire>>
server == <<next, accepted, pc, turn>>
vars   == <<chip, server, faults>>

Handles   == 0..(MaxSockNum - 1)
BadHandle == -1

\* A socket is ending after a disconnect.
Status == {"closed", "listen", "established", "close_wait", "ending"}

Connected(h) == status[h] \in {"established", "close_wait"}
Readable(h)  == Connected(h) /\ rx[h] # <<>>

Init ==
  /\ status = [h \in Handles |-> "closed"]
  /\ rx = [h \in Handles |-> <<>>]
  /\ wire = [h \in Handles |-> <<>>]
  /\ next = 0 /\ accepted = BadHandle /\ pc = "run"
  /\ turn = [i |-> 0, handle |-> 0]
  /\ faults = 0

-----------------------------------------------------------------------------
\* server::listen of one socket, which is closed: it fails, or the socket listens.
ListenOn(h) ==
  \/ status' = [status EXCEPT ![h] = "listen"] /\ UNCHANGED faults
  \/ faults < MaxFaults /\ faults' = faults + 1 /\ UNCHANGED status

Disconnected(h) == status' = [status EXCEPT ![h] = "ending"] /\ UNCHANGED faults

\* What both loops of accept do with a socket that has nothing to read.
PutInOrder(h) ==
  \/ status[h] = "closed" /\ ListenOn(h)
  \/ status[h] = "close_wait" /\ Disconnected(h)
  \/ status[h] \notin {"closed", "close_wait"} /\ UNCHANGED <<status, faults>>

\* server::run calls accept.
Run ==
  /\ pc = "run"
  /\ pc' = "select" /\ accepted' = BadHandle /\ turn' = [i |-> 0, handle |-> 0]
  /\ UNCHANGED <<chip, next, faults>>

InTurn_FromFirst == turn.i

InTurn == next % MaxSockNum

\* The first loop of accept, round robin over the calls, up to a socket with data.
Select ==
  /\ pc = "select" /\ turn.i < MaxSockNum /\ accepted = BadHandle
  /\ next' = (next + 1) % CountRange
  /\ turn' = [i |-> turn.i + 1, handle |-> InTurn]
  /\ IF Readable(InTurn)
     THEN accepted' = InTurn /\ UNCHANGED <<status, faults>>
     ELSE PutInOrder(InTurn) /\ UNCHANGED accepted
  /\ UNCHANGED <<pc, rx, wire>>

\* The second loop, over the sockets that are left.
PutRestInOrder ==
  /\ pc = "select" /\ turn.i < MaxSockNum /\ accepted # BadHandle
  /\ LET h == (turn.handle + 1) % MaxSockNum
     IN  /\ turn' = [i |-> turn.i + 1, handle |-> h]
         /\ IF Readable(h) THEN UNCHANGED <<status, faults>> ELSE PutInOrder(h)
  /\ UNCHANGED <<next, accepted, pc, rx, wire>>

EndAccept ==
  /\ pc = "select" /\ turn.i = MaxSockNum
  /\ pc' = IF accepted = BadHandle THEN "run" ELSE "serve"
  /\ UNCHANGED <<chip, next, accepted, turn, faults>>

-----------------------------------------------------------------------------
\* The packets of the first message, as far as they have arrived.
Message(q) == CASE q = <<>> -> 0 [] q = <<"head", "rest">> -> 2 [] OTHER -> 1

\* session::keep does nothing.  What the session's buffer has read ahead is lost with it,
\* and so is the end of the reply, which only close() flushes.
Keep ==
  LET q == rx[accepted]
  IN  /\ q # <<"head">>
      /\ \E n \in Message(q)..Len(q) : rx' = [rx EXCEPT ![accepted] = SubSeq(q, n + 1, Len(q))]
      /\ UNCHANGED <<status, wire>>

\* session::close sends the reply, drops what has been received and disconnects.  A
\* socket that the peer has reset meanwhile stays closed.
Close ==
  LET q == rx[accepted]
  IN  /\ q \notin {<<>>, <<"stray">>}
      /\ rx' = [rx EXCEPT ![accepted] = <<>>]
      /\ wire' = [wire EXCEPT ![accepted] = <<>>]
      /\ status' = IF Connected(accepted) THEN [status EXCEPT ![accepted] = "ending"] ELSE status

\* application::service<session>
Serve ==
  /\ pc = "serve"
  /\ Keep \/ Close
  /\ pc' = "run"
  /\ UNCHANGED <<next, accepted, turn, faults>>

-----------------------------------------------------------------------------
\* The application's own calls, between two calls of run.
Listen ==
  /\ pc = "run" /\ \E h \in Handles : status[h] = "closed"
  /\ status' = [h \in Handles |-> IF status[h] = "closed" THEN "listen" ELSE status[h]]
  /\ UNCHANGED <<rx, wire, server, faults>>

Stop ==
  /\ pc = "run"
  /\ pc' = "stop" /\ turn' = [turn EXCEPT !.i = 0]
  /\ UNCHANGED <<chip, next, accepted, faults>>

StopSocket ==
  /\ pc = "stop"
  /\ status' = [status EXCEPT ![turn.i] = "closed"]
  /\ rx' = [rx EXCEPT ![turn.i] = <<>>] /\ wire' = [wire EXCEPT ![turn.i] = <<>>]
  /\ IF turn.i + 1 < MaxSockNum
     THEN turn' = [turn EXCEPT !.i = @ + 1] /\ UNCHANGED pc
     ELSE pc' = "run" /\ UNCHANGED turn
  /\ UNCHANGED <<next, accepted, faults>>

-----------------------------------------------------------------------------
\* The chip and the clients.  A client sends a request when its last one was read.
Connect(h) ==
  /\ status[h] = "listen"
  /\ status' = [status EXCEPT ![h] = "established"]
  /\ UNCHANGED <<rx, wire, server, faults>>

Request(h) ==
  /\ status[h] = "established" /\ wire[h] = <<>> /\ rx[h] = <<>>
  /\ \E request \in Requests : wire' = [wire EXCEPT ![h] = request]
  /\ UNCHANGED <<status, rx, server, faults>>

Arrive(h) ==
  /\ status[h] = "established" /\ wire[h] # <<>>
  /\ rx' = [rx EXCEPT ![h] = Append(@, Head(wire[h]))]
  /\ wire' = [wire EXCEPT ![h] = Tail(@)]
  /\ UNCHANGED <<status, server, faults>>

PeerCloses(h) ==
  /\ status[h] = "established"
  /\ status' = [status EXCEPT ![h] = "close_wait"]
  /\ wire' = [wire EXCEPT ![h] = <<>>]
  /\ UNCHANGED <<rx, server, faults>>

Closed(h) ==
  /\ status' = [status EXCEPT ![h] = "closed"]
  /\ rx' = [rx EXCEPT ![h] = <<>>] /\ wire' = [wire EXCEPT ![h] = <<>>]
  /\ UNCHANGED <<server, faults>>

Reset(h) == Connected(h) /\ Closed(h)
Ended(h) == status[h] = "ending" /\ Closed(h)

Server  == Run \/ Select \/ PutRestInOrder \/ EndAccept \/ Serve \/ StopSocket
Outside == \E h \in Handles : Connect(h) \/ Request(h) \/ Arrive(h) \/ PeerCloses(h) \/ Reset(h) \/ Ended(h)

Next == Server \/ Listen \/ Stop \/ Outside

Spec == Init /\ [][Next]_vars

-----------------------------------------------------------------------------
\* Every variable holds a value of its type.
TypeOK ==
  /\ status \in [Handles -> Status]
  /\ rx \in [Handles -> Unsent \cup {<<"head">>}]
  /\ wire \in [Handles -> Unsent]
  /\ next \in 0..(CountRange - 1)
  /\ accepted \in Handles \cup {BadHandle}
  /\ pc \in {"run", "select", "serve", "stop"} /\ (pc = "serve" => accepted # BadHandle)
  /\ turn \in [i : 0..MaxSockNum, handle : Handles]
  /\ faults \in Nat

\* A socket with data is selected, however busy the others are, unless its connection
\* ends; and a closed socket listens again, although only one call in turn visits it.
NoSocketStarves ==
  \A h \in Handles :
     /\ Readable(h) ~> (accepted = h \/ ~Connected(h))
     /\ (status[h] = "closed") ~> (status[h] # "closed")

\* The phase of a connection, for Connections: nothing is ever suspended.
Phase(h) == CASE status[h] \in {"closed", "listen"} -> "none"
              [] Connected(h) -> "idle"
              [] OTHER -> "ending"
=============================================================================
