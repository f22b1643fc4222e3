---------------------------- MODULE SparkServer ----------------------------
(***************************************************************************)
(* The session layer for Particle devices (network_spark_socket.cpp):      *)
(* server::run is called from the main loop.  It polls the sockets of kept *)
(* connections in a timed queue, accepts new ones, and serves at most one  *)
(* connection per call, with a saved HTTP state from a small array of      *)
(* slots.  Sockets, the network and the clock are shared with the outside  *)
(* and change between any two calls into the socket library.               *)
(*                                                                         *)
(* application::service is abstracted to its results; HttpService has the  *)
(* details.                                                                *)
(***************************************************************************)
EXTENDS Integers, Sequences, FiniteSets

CONSTANTS Handles,         \* the socket library's handles, used again after a close
          Invalid,         \* socket_handle_invalid()
          MaxConnections,  \* capacity of the queue
          MaxSessions,     \* number of slots
          Timeout,         \* inactivity_timeout, in ticks
          ClockRange       \* system_tick_t counts modulo this

ASSUME SparkAssumption ==
  /\ Invalid \notin Handles
  /\ MaxConnections \in Nat \ {0}
  /\ MaxSessions \in Nat
  /\ Timeout \in Nat \ {0}
  /\ ClockRange \in Nat \ {0}

VARIABLES ready,     \* network_ready(nif)
          listening, \* the listening socket is valid
          sock,      \* state of each handle in the socket library
          data,      \* handles with received data
          queue,     \* timedqueue: kept connections with the time they were queued
          slots,     \* states: the session_state array
          now,       \* HAL_Timer_Get_Milli_Seconds()
          pc,        \* where server::run stands
          scan,      \* the loop of timedqueue::validate: index and its time
          result,    \* handle selected for service
          idle       \* ticks a connection has been queued, up to Timeout

server  == <<listening, queue, slots, pc, scan, result>>
outside == <<ready, sock, data, now, idle>>
vars    == <<server, outside>>

Slots == 1..MaxSessions
Clock == 0..(ClockRange - 1)
Item  == [handle : Handles, time : Clock]

\* A handle is free, a connection in the backlog of the listening socket, an
\* accepted connection, or an accepted connection whose peer has gone.
SocketState == {"free", "pending", "active", "inactive"}

FreeSlot == [handle |-> Invalid, saved |-> FALSE]

Queued == {queue[i].handle : i \in DOMAIN queue}

Init ==
  /\ ready \in BOOLEAN /\ listening = FALSE
  /\ sock = [h \in Handles |-> "free"] /\ data = {}
  /\ queue = <<>>
  /\ slots = [s \in Slots |-> FreeSlot]
  /\ now \in Clock
  /\ pc = "run" /\ scan = [i |-> 1, time |-> now] /\ result = Invalid
  /\ idle = [h \in Handles |-> 0]

-----------------------------------------------------------------------------
Push_Front(h) == <<[handle |-> h, time |-> now]>> \o queue

\* timedqueue.  push is called with room in the queue only, it refuses otherwise.
Push(h) == Append(queue, [handle |-> h, time |-> now])

Without(q, i) == [j \in 1..(Len(q) - 1) |-> IF j < i THEN q[j] ELSE q[j + 1]]

Expired_Early(from, time) == time + 1 >= (from + Timeout) % ClockRange

\* expired(from, now, timeout), in the unsigned arithmetic of system_tick_t.
Expired(from, time) == time >= (from + Timeout) % ClockRange

Released(h) == [s \in Slots |-> IF slots[s].handle = h THEN FreeSlot ELSE slots[s]]

\* socket_close: the handle may be given to another connection from now on.
SocketClosed(hs) ==
  /\ sock' = [h \in Handles |-> IF h \in hs THEN "free" ELSE sock[h]]
  /\ data' = data \ hs

CloseHandle_KeepState(h) == SocketClosed({h}) /\ UNCHANGED slots

\* server::close, for a handle that is not in the queue.
CloseHandle(h) == SocketClosed({h}) /\ slots' = Released(h)

-----------------------------------------------------------------------------
\* stop leaves the slots alone, listen clears them.
Stop ==
  /\ pc = "run" /\ listening
  /\ SocketClosed(Queued \cup {h \in Handles : sock[h] = "pending"})
  /\ queue' = <<>> /\ listening' = FALSE
  /\ UNCHANGED <<ready, slots, now, pc, scan, result, idle>>

\* The application's own calls, between two calls of run.
StartListening ==
  /\ pc = "run" /\ ready /\ ~listening
  /\ listening' = TRUE
  /\ slots' = [s \in Slots |-> FreeSlot]
  /\ UNCHANGED <<queue, outside>>

AppListen == StartListening /\ UNCHANGED <<pc, scan, result>>

\* server::accept, the network and socket checks.
StartScan == pc' = "scan" /\ scan' = [i |-> 1, time |-> now] /\ result' = Invalid

GoOffline == ~ready /\ Stop

Listen == StartListening /\ StartScan

Run ==
  /\ pc = "run" /\ ready /\ listening
  /\ StartScan
  /\ UNCHANGED <<listening, queue, slots, outside>>

-----------------------------------------------------------------------------
\* One turn of timedqueue::validate: the callback keeps or removes one item.
Visiting == pc = "scan" /\ scan.i <= Len(queue)
Visited  == queue[scan.i].handle

KeepItem ==
  /\ scan' = [scan EXCEPT !.i = @ + 1]
  /\ UNCHANGED <<listening, queue, slots, pc, result, outside>>

\* The first connection with data is selected, its peers behind it are kept.
SkipPending ==
  /\ Visiting /\ sock[Visited] # "inactive" /\ result # Invalid
  /\ KeepItem

KeepIdle ==
  /\ Visiting /\ sock[Visited] # "inactive" /\ result = Invalid
  /\ Visited \notin data /\ ~Expired(queue[scan.i].time, scan.time)
  /\ KeepItem

Select_KeepsItem ==
  /\ Visiting /\ sock[Visited] # "inactive" /\ result = Invalid
  /\ Visited \in data
  /\ data' = data \ {Visited}
  /\ result' = Visited
  /\ UNCHANGED <<listening, queue, slots, pc, scan, ready, sock, now, idle>>

Select ==
  /\ Visiting /\ sock[Visited] # "inactive" /\ result = Invalid
  /\ Visited \in data
  /\ data' = data \ {Visited}
  /\ result' = Visited
  /\ queue' = Without(queue, scan.i)
  /\ UNCHANGED <<listening, slots, pc, scan, ready, sock, now, idle>>

CloseItem ==
  /\ CloseHandle(Visited)
  /\ queue' = Without(queue, scan.i)
  /\ UNCHANGED <<listening, pc, scan, result, ready, now, idle>>

CloseInactive == Visiting /\ sock[Visited] = "inactive" /\ CloseItem

Expire ==
  /\ Visiting /\ sock[Visited] # "inactive" /\ result = Invalid
  /\ Visited \notin data /\ Expired(queue[scan.i].time, scan.time)
  /\ CloseItem

\* socket_receive may fail on a connection that was active a moment ago.
ReceiveFails ==
  /\ Visiting /\ sock[Visited] # "inactive" /\ result = Invalid
  /\ CloseItem

EndScan ==
  /\ pc = "scan" /\ scan.i > Len(queue)
  /\ pc' = IF result = Invalid THEN "accept" ELSE "find"
  /\ UNCHANGED <<listening, queue, slots, scan, result, outside>>

-----------------------------------------------------------------------------
\* The loop that accepts until a connection has data, or none is left.
Pending == {h \in Handles : sock[h] = "pending"}

AcceptNone ==
  /\ pc = "accept" /\ Pending = {}
  /\ pc' = "run"
  /\ UNCHANGED <<listening, queue, slots, scan, result, outside>>

\* A negative result of socket_receive is taken for a size, and not for 0.
AcceptToServe(h) ==
  /\ pc = "accept" /\ h \in Pending
  /\ \E s \in {"active", "inactive"} :
       /\ h \in data \/ s = "inactive"
       /\ sock' = [sock EXCEPT ![h] = s]
  /\ data' = data \ {h}
  /\ result' = h /\ pc' = "find"
  /\ UNCHANGED <<listening, queue, slots, scan, ready, now, idle>>

AcceptIdle(h) ==
  /\ pc = "accept" /\ h \in Pending /\ h \notin data
  /\ Len(queue) < MaxConnections
  /\ sock' = [sock EXCEPT ![h] = "active"]
  /\ queue' = Push(h)
  /\ idle' = [idle EXCEPT ![h] = 0]
  /\ UNCHANGED <<listening, slots, pc, scan, result, ready, data, now>>

AcceptFull(h) ==
  /\ pc = "accept" /\ h \in Pending /\ h \notin data
  /\ Len(queue) >= MaxConnections
  /\ SocketClosed({h})
  /\ pc' = "run"
  /\ UNCHANGED <<listening, queue, slots, scan, result, ready, now, idle>>

-----------------------------------------------------------------------------
\* find_session: the slot of the handle, else the first free one, else none.
FindSession ==
  /\ pc = "find"
  /\ LET own  == {s \in Slots : slots[s].handle = result}
         free == {s \in Slots : slots[s].handle = Invalid}
     IN  IF own = {} /\ free # {}
         THEN \E s \in free : /\ \A t \in free : s <= t
                              /\ slots' = [slots EXCEPT ![s].handle = result]
         ELSE slots' = slots
  /\ pc' = "serve"
  /\ UNCHANGED <<listening, queue, scan, result, outside>>

\* application::service has run and may have received more.  It saves a fragment in
\* the slot it was given, unless it came to resume one; a state that was resumed is
\* left as it is.
Serving(saves) ==
  /\ pc = "serve"
  /\ pc' = "run" /\ result' = Invalid
  /\ saves => \E s \in Slots : slots[s].handle = result /\ ~slots[s].saved

SavedSlots(saves) ==
  IF saves THEN [s \in Slots |-> IF slots[s].handle = result
                                 THEN [slots[s] EXCEPT !.saved = TRUE] ELSE slots[s]]
  ELSE slots

Keep_Unbounded(saves) ==
  /\ Serving(saves)
  /\ queue' = Push(result)
  /\ slots' = SavedSlots(saves)
  /\ idle' = [idle EXCEPT ![result] = 0]
  /\ data' \in {data, data \ {result}}
  /\ UNCHANGED <<listening, scan, ready, sock, now>>

\* session::keep, for a kept reply and for a fragment.
Keep(saves) ==
  /\ Serving(saves)
  /\ Len(queue) < MaxConnections
  /\ queue' = Push(result)
  /\ slots' = SavedSlots(saves)
  /\ idle' = [idle EXCEPT ![result] = 0]
  /\ data' \in {data, data \ {result}}
  /\ UNCHANGED <<listening, scan, ready, sock, now>>

KeepFull_Forgets(saves) ==
  /\ Serving(saves)
  /\ Len(queue) >= MaxConnections
  /\ UNCHANGED <<listening, queue, slots, scan, outside>>

\* The queue is full: what was to be kept is closed.
KeepFull(saves) ==
  /\ Serving(saves)
  /\ Len(queue) >= MaxConnections
  /\ CloseHandle(result)
  /\ UNCHANGED <<listening, queue, scan, ready, now, idle>>

Close ==
  /\ Serving(FALSE)
  /\ CloseHandle(result)
  /\ UNCHANGED <<listening, queue, scan, ready, now, idle>>

-----------------------------------------------------------------------------
\* The outside.
Connect(h) ==
  /\ listening /\ sock[h] = "free"
  /\ sock' = [sock EXCEPT ![h] = "pending"]
  /\ UNCHANGED <<server, ready, data, now, idle>>

Deliver(h) ==
  /\ sock[h] \in {"pending", "active"} /\ h \notin data
  /\ data' = data \cup {h}
  /\ UNCHANGED <<server, ready, sock, now, idle>>

Disconnect(h) ==
  /\ sock[h] = "active"
  /\ sock' = [sock EXCEPT ![h] = "inactive"]
  /\ UNCHANGED <<server, ready, data, now, idle>>

Tick ==
  /\ now' = (now + 1) % ClockRange
  /\ idle' = [h \in Handles |-> IF h \in Queued /\ idle[h] < Timeout THEN idle[h] + 1 ELSE idle[h]]
  /\ UNCHANGED <<server, ready, sock, data>>

NetworkChange ==
  /\ ready' = ~ready
  /\ UNCHANGED <<server, sock, data, now, idle>>

Scan    == SkipPending \/ KeepIdle \/ Select \/ CloseInactive \/ Expire \/ ReceiveFails \/ EndScan
Accept  == AcceptNone \/ \E h \in Handles : AcceptToServe(h) \/ AcceptIdle(h) \/ AcceptFull(h)
Serve   == FindSession \/ (\E saves \in BOOLEAN : Keep(saves) \/ KeepFull(saves)) \/ Close
Server  == GoOffline \/ Listen \/ Run \/ Scan \/ Accept \/ Serve
Application == Stop \/ AppListen
Outside == (\E h \in Handles : Connect(h) \/ Deliver(h) \/ Disconnect(h)) \/ Tick \/ NetworkChange

Next == Server \/ Application \/ Outside

Spec == Init /\ [][Next]_vars

\* The main loop calls run for ever.
FairSpec == Spec /\ WF_vars(Server)

-----------------------------------------------------------------------------
\* Every variable holds a value of its type in the source.
TypeOK ==
  /\ ready \in BOOLEAN /\ listening \in BOOLEAN
  /\ sock \in [Handles -> SocketState]
  /\ data \subseteq Handles
  /\ queue \in Seq(Item) /\ Len(queue) <= MaxConnections
  /\ slots \in [Slots -> [handle : Handles \cup {Invalid}, saved : BOOLEAN]]
  /\ now \in Clock
  /\ pc \in {"run", "scan", "accept", "find", "serve"}
  /\ scan \in [i : Nat \ {0}, time : Clock]
  /\ result \in Handles \cup {Invalid}
  /\ idle \in [Handles -> 0..Timeout]

\* The connections the server has accepted and not closed.
Accepted == {h \in Handles : sock[h] \in {"active", "inactive"}}

\* A connection is in one place: no handle is queued twice, none is served while it
\* is queued, although the callback of validate edits the queue it is called from.
NoHandleTwice ==
  /\ \A i, j \in DOMAIN queue : i # j => queue[i].handle # queue[j].handle
  /\ result \notin Queued

\* No socket is lost and none is used after it was closed: whatever way a
\* connection took, the server holds exactly the handles of open connections.
NothingLeaks == Accepted = Queued \cup ({result} \ {Invalid})

\* A slot belongs to a connection that is still open, and to one only: a handle the
\* socket library uses again never finds the state of an earlier connection.
SlotsAreOwned ==
  /\ listening => \A s \in Slots : slots[s].handle \in Accepted \cup {Invalid}
  /\ \A s, t \in Slots : s # t /\ slots[s].handle = slots[t].handle => slots[s].handle = Invalid
  /\ \A s \in Slots : slots[s].saved => slots[s].handle # Invalid

\* A handle is selected exactly while it waits to be served, and the server works
\* with its queue only while it listens.
ResultMatchesPc ==
  /\ pc \in {"run", "accept"} => result = Invalid
  /\ pc \in {"find", "serve"} => result # Invalid
  /\ pc # "run" => listening

\* While the clock does not wrap between two visits, a connection is expired
\* only after it has been idle for the inactivity timeout.
ExpiresAfterTimeout ==
  [][(Expire /\ queue[scan.i].time + Timeout < ClockRange)
       => idle[Visited] >= Timeout]_vars

\* A kept connection that sends again is taken out of the queue, however busy the
\* other connections are: it is served, or closed.
QueuedDataIsServed == \A h \in Handles : (h \in Queued /\ h \in data) ~> (h \notin Queued)
=============================================================================
