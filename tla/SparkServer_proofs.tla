------------------------- MODULE SparkServer_proofs -------------------------
(***************************************************************************)
(* Proofs about SparkServer: the safety invariants of the session layer    *)
(* for every number of handles, slots and queue places, every timeout and  *)
(* every range of the clock.                                               *)
(***************************************************************************)
EXTENDS SparkServer, SequenceTheorems, TLAPS

\* The handles in a queue, and a queue that holds none of them twice.
InQueue(q)  == {q[i].handle : i \in DOMAIN q}
Distinct(q) == \A i, j \in DOMAIN q : i # j => q[i].handle # q[j].handle

-----------------------------------------------------------------------------
\* Removing one item from the queue (timedqueue::validate) leaves a queue that is
\* shorter by one, still without doubles, and without that item's handle.
LEMMA WithoutType ==
  ASSUME NEW q \in Seq(Item), NEW i \in 1..Len(q)
  PROVE  Without(q, i) \in Seq(Item) /\ Len(Without(q, i)) = Len(q) - 1
<1> DEFINE n == Len(q) - 1
           r == Without(q, i)
<1>1. n \in Nat
  BY LenProperties
<1>2. \A j \in 1..n : (IF j < i THEN q[j] ELSE q[j + 1]) \in Item
  BY ElementOfSeq, LenProperties, <1>1
<1>3. r = [j \in 1..n |-> IF j < i THEN q[j] ELSE q[j + 1]]
  BY DEF Without
<1>4. r \in [1..n -> Item]
  BY <1>2, <1>3
<1>5. r \in Seq(Item) /\ Len(r) = n
  BY <1>1, <1>4
<1> QED BY <1>5

LEMMA WithoutHandles ==
  ASSUME NEW q \in Seq(Item), NEW i \in 1..Len(q), Distinct(q)
  PROVE  /\ Distinct(Without(q, i))
         /\ InQueue(Without(q, i)) = InQueue(q) \ {q[i].handle}
<1> DEFINE n == Len(q) - 1
           r == Without(q, i)
<1>1. n \in Nat /\ DOMAIN q = 1..(n + 1) /\ i \in 1..(n + 1)
  BY LenProperties
<1>2. r = [j \in 1..n |-> IF j < i THEN q[j] ELSE q[j + 1]]
  BY DEF Without
<1>3. DOMAIN r = 1..n
  BY <1>2
<1>4. \A j \in 1..n : r[j] = IF j < i THEN q[j] ELSE q[j + 1]
  BY <1>2
<1> HIDE DEF n, r
<1>5. Distinct(r)
  <2> SUFFICES ASSUME NEW j \in 1..n, NEW k \in 1..n, j # k
               PROVE  r[j].handle # r[k].handle
    BY <1>3 DEF Distinct
  <2> DEFINE from(l) == IF l < i THEN l ELSE l + 1
  <2>1. from(j) \in DOMAIN q /\ from(k) \in DOMAIN q /\ from(j) # from(k)
    BY <1>1
  <2>2. r[j] = q[from(j)] /\ r[k] = q[from(k)]
    BY <1>4
  <2> HIDE DEF from
  <2> QED BY <2>1, <2>2 DEF Distinct
<1>6. InQueue(r) \subseteq InQueue(q) \ {q[i].handle}
  <2> SUFFICES ASSUME NEW j \in 1..n
               PROVE  r[j].handle \in InQueue(q) \ {q[i].handle}
    BY <1>3 DEF InQueue
  <2>1. CASE j < i
    BY <2>1, <1>1, <1>4 DEF Distinct, InQueue
  <2>2. CASE ~(j < i)
    <3>1. j + 1 \in DOMAIN q /\ j + 1 # i /\ i \in DOMAIN q
      BY <2>2, <1>1
    <3> QED BY <3>1, <2>2, <1>4 DEF Distinct, InQueue
  <2> QED BY <2>1, <2>2
<1>7. InQueue(q) \ {q[i].handle} \subseteq InQueue(r)
  <2> SUFFICES ASSUME NEW k \in 1..(n + 1), k # i
               PROVE  q[k].handle \in InQueue(r)
    BY <1>1 DEF InQueue
  <2>1. CASE k < i
    <3>1. k \in 1..n /\ r[k] = q[k]
      BY <2>1, <1>1, <1>4
    <3> QED BY <3>1, <1>3 DEF InQueue
  <2>2. CASE ~(k < i)
    <3>1. k - 1 \in 1..n /\ r[k - 1] = q[k]
      BY <2>2, <1>1, <1>4
    <3> QED BY <3>1, <1>3 DEF InQueue
  <2> QED BY <2>1, <2>2
<1> QED BY <1>5, <1>6, <1>7 DEF r

\* Queueing a handle that is not in the queue (timedqueue::push).
LEMMA AppendHandles ==
  ASSUME NEW q \in Seq(Item), NEW x \in Item, Distinct(q), x.handle \notin InQueue(q)
  PROVE  /\ Distinct(Append(q, x))
         /\ InQueue(Append(q, x)) = InQueue(q) \cup {x.handle}
<1> DEFINE n == Len(q)
           r == Append(q, x)
<1>1. n \in Nat /\ DOMAIN q = 1..n /\ DOMAIN r = 1..(n + 1)
  BY LenProperties
<1>2. r[n + 1] = x /\ \A j \in 1..n : r[j] = q[j]
  BY <1>1
<1> HIDE DEF n, r
<1>3. Distinct(r)
  BY <1>1, <1>2 DEF Distinct, InQueue
<1>4. InQueue(r) = InQueue(q) \cup {x.handle}
  <2>1. \A j \in 1..(n + 1) : j \in 1..n \/ j = n + 1
    BY <1>1
  <2>2. n + 1 \in 1..(n + 1) /\ 1..n \subseteq 1..(n + 1)
    BY <1>1
  <2> QED BY <2>1, <2>2, <1>1, <1>2 DEF InQueue
<1> QED BY <1>3, <1>4 DEF r

-----------------------------------------------------------------------------
Typed == TypeOK /\ ResultMatchesPc

\* The item validate visits is in the queue.
LEMMA VisitedType ==
  ASSUME TypeOK, Visiting
  PROVE  scan.i \in 1..Len(queue) /\ queue[scan.i] \in Item /\ Visited \in Handles
<1>1. scan.i \in 1..Len(queue)
  BY LenProperties DEF TypeOK, Visiting
<1>2. queue[scan.i] \in Item
  BY <1>1, ElementOfSeq DEF TypeOK
<1> QED BY <1>1, <1>2 DEF Visited, Item

\* Closing handles leaves well-typed socket states and, for one, well-typed slots.
LEMMA SocketClosedType ==
  ASSUME TypeOK, NEW hs, SocketClosed(hs)
  PROVE  sock' \in [Handles -> SocketState] /\ data' \subseteq Handles
BY DEF TypeOK, SocketClosed, SocketState

LEMMA ReleasedType ==
  ASSUME TypeOK, NEW h
  PROVE  Released(h) \in [Slots -> [handle : Handles \cup {Invalid}, saved : BOOLEAN]]
BY DEF TypeOK, Released, FreeSlot

\* push is called with a handle and room in the queue.
LEMMA PushType ==
  ASSUME TypeOK, NEW h \in Handles, Len(queue) < MaxConnections
  PROVE  /\ Push(h) \in Seq(Item) /\ Len(Push(h)) <= MaxConnections
         /\ Push(h) = Append(queue, [handle |-> h, time |-> now])
         /\ [handle |-> h, time |-> now] \in Item
<1>1. [handle |-> h, time |-> now] \in Item
  BY DEF TypeOK, Item
<1>2. Len(queue) \in Nat /\ MaxConnections \in Nat
  BY LenProperties, SparkAssumption DEF TypeOK
<1>3. Push(h) \in Seq(Item) /\ Len(Push(h)) = Len(queue) + 1
  BY <1>1, AppendProperties DEF Push, TypeOK
<1> QED BY <1>1, <1>2, <1>3 DEF Push

LEMMA TypedInit == Init => Typed
<1> SUFFICES ASSUME Init
             PROVE  Typed
  OBVIOUS
<1>1. sock \in [Handles -> SocketState]
  BY DEF Init, SocketState
<1>2. slots \in [Slots -> [handle : Handles \cup {Invalid}, saved : BOOLEAN]]
  BY DEF Init, FreeSlot
<1>3. idle \in [Handles -> 0..Timeout]
  BY SparkAssumption DEF Init
<1>4. queue \in Seq(Item) /\ Len(queue) <= MaxConnections
  BY SparkAssumption, EmptySeq DEF Init
<1>5. scan \in [i : Nat \ {0}, time : Clock]
  BY DEF Init
<1> QED BY <1>1, <1>2, <1>3, <1>4, <1>5 DEF Init, Typed, TypeOK, ResultMatchesPc

\* Every step preserves the types, and that a handle is selected exactly while it
\* waits to be served.
LEMMA TypedStep == Typed /\ [Next]_vars => Typed'
<1> SUFFICES ASSUME Typed, [Next]_vars
             PROVE  Typed'
  OBVIOUS
<1> USE DEF Typed, TypeOK, ResultMatchesPc, server, outside, vars
<1>1. CASE Stop
  <2>1. <<>> \in Seq(Item) /\ Len(<<>>) <= MaxConnections
    BY SparkAssumption, EmptySeq
  <2> QED BY <1>1, <2>1, SocketClosedType DEF Stop
<1>2. CASE AppListen
  BY <1>2 DEF AppListen, StartListening, FreeSlot
<1>3. CASE Listen
  BY <1>3 DEF Listen, StartListening, StartScan, FreeSlot
<1>4. CASE Run
  BY <1>4 DEF Run, StartScan
<1>5. CASE Visiting /\ KeepItem
  BY <1>5 DEF KeepItem, Visiting
<1>6. CASE Select
  <2>1. Visiting
    BY <1>6 DEF Select
  <2>2. queue' \in Seq(Item) /\ Len(queue') <= MaxConnections
    BY <1>6, <2>1, VisitedType, WithoutType, LenProperties, SparkAssumption DEF Select
  <2> QED BY <1>6, <2>1, <2>2, VisitedType, SparkAssumption DEF Select, Visiting
<1>7. CASE Visiting /\ CloseItem
  <2>1. queue' \in Seq(Item) /\ Len(queue') <= MaxConnections
    BY <1>7, VisitedType, WithoutType, LenProperties, SparkAssumption DEF CloseItem
  <2> QED BY <1>7, <2>1, SocketClosedType, ReleasedType DEF CloseItem, CloseHandle, Visiting
<1>8. CASE EndScan
  BY <1>8 DEF EndScan
<1>9. CASE AcceptNone
  BY <1>9 DEF AcceptNone
<1>10. ASSUME NEW h \in Handles, AcceptToServe(h)
       PROVE  Typed'
  BY <1>10, SparkAssumption DEF AcceptToServe, SocketState
<1>11. ASSUME NEW h \in Handles, AcceptIdle(h)
       PROVE  Typed'
  <2>1. queue' \in Seq(Item) /\ Len(queue') <= MaxConnections
    BY <1>11, PushType DEF AcceptIdle
  <2> QED BY <1>11, <2>1, SparkAssumption DEF AcceptIdle, SocketState
<1>12. ASSUME NEW h \in Handles, AcceptFull(h)
       PROVE  Typed'
  BY <1>12, SocketClosedType DEF AcceptFull
<1>13. CASE FindSession
  <2> DEFINE SlotState == [handle : Handles \cup {Invalid}, saved : BOOLEAN]
             SlotTable == [Slots -> SlotState]
  <2>1. \/ slots' = slots
        \/ \E s \in Slots : slots' = [slots EXCEPT ![s].handle = result]
    BY <1>13 DEF FindSession
  <2>2. slots \in SlotTable /\ result \in Handles \cup {Invalid}
    OBVIOUS
  <2>3. ASSUME NEW s \in Slots
        PROVE  [slots[s] EXCEPT !.handle = result] \in SlotState
    BY <2>2
  <2> HIDE DEF SlotState
  <2>4. ASSUME NEW s \in Slots
        PROVE  [slots EXCEPT ![s].handle = result] \in SlotTable
    BY <2>2, <2>3
  <2> HIDE DEF SlotTable
  <2>5. slots' \in SlotTable
    BY <2>1, <2>2, <2>4
  <2> QED BY <1>13, <2>5 DEF FindSession, SlotTable, SlotState
<1>14. ASSUME NEW saves \in BOOLEAN, Keep(saves)
       PROVE  Typed'
  <2>1. result \in Handles
    BY <1>14 DEF Keep, Serving
  <2>2. queue' \in Seq(Item) /\ Len(queue') <= MaxConnections
    BY <1>14, <2>1, PushType DEF Keep
  <2>3. slots' \in [Slots -> [handle : Handles \cup {Invalid}, saved : BOOLEAN]]
    <3> DEFINE SlotState == [handle : Handles \cup {Invalid}, saved : BOOLEAN]
    <3>1. slots' = SavedSlots(saves) /\ slots \in [Slots -> SlotState]
      BY <1>14 DEF Keep
    <3>2. ASSUME NEW s \in Slots PROVE [slots[s] EXCEPT !.saved = TRUE] \in SlotState
      BY <3>1
    <3> HIDE DEF SlotState
    <3>3. SavedSlots(saves) \in [Slots -> SlotState]
      BY <3>1, <3>2 DEF SavedSlots
    <3> QED BY <3>1, <3>3 DEF SlotState
  <2>4. idle' \in [Handles -> 0..Timeout]
    <3>1. 0 \in 0..Timeout
      BY SparkAssumption
    <3>2. idle' = [idle EXCEPT ![result] = 0]
      BY <1>14 DEF Keep
    <3> QED BY <3>1, <3>2
  <2> QED BY <1>14, <2>2, <2>3, <2>4 DEF Keep, Serving
<1>15. ASSUME NEW saves \in BOOLEAN, KeepFull(saves)
       PROVE  Typed'
  BY <1>15, SocketClosedType, ReleasedType DEF KeepFull, CloseHandle, Serving
<1>16. CASE Close
  BY <1>16, SocketClosedType, ReleasedType DEF Close, CloseHandle, Serving
<1>17. ASSUME NEW h \in Handles, Connect(h) \/ Deliver(h) \/ Disconnect(h)
       PROVE  Typed'
  BY <1>17 DEF Connect, Deliver, Disconnect, SocketState
<1>18. CASE Tick
  <2>1. idle' \in [Handles -> 0..Timeout]
    <3> DEFINE next(h) == IF h \in Queued /\ idle[h] < Timeout THEN idle[h] + 1 ELSE idle[h]
    <3>1. idle' = [h \in Handles |-> next(h)]
      BY <1>18 DEF Tick
    <3>2. ASSUME NEW h \in Handles
          PROVE  next(h) \in 0..Timeout
      <4>1. idle[h] \in 0..Timeout /\ Timeout \in Nat
        BY SparkAssumption
      <4> QED BY <4>1
    <3> HIDE DEF next
    <3> QED BY <3>1, <3>2
  <2>2. now' \in Clock
    BY <1>18, SparkAssumption DEF Tick, Clock
  <2> QED BY <1>18, <2>1, <2>2 DEF Tick
<1>19. CASE NetworkChange
  BY <1>19 DEF NetworkChange
<1>20. CASE UNCHANGED vars
  BY <1>20
<1> QED
  BY <1>1, <1>2, <1>3, <1>4, <1>5, <1>6, <1>7, <1>8, <1>9, <1>10, <1>11, <1>12, <1>13,
     <1>14, <1>15, <1>16, <1>17, <1>18, <1>19, <1>20
  DEF Next, Server, GoOffline, Scan, SkipPending, KeepIdle, CloseInactive, Expire,
      ReceiveFails, Accept, Serve, Application, Outside

\* Every variable keeps its type, for any number of handles, slots and queue places.
THEOREM TypeCorrect == Spec => []TypeOK
<1>1. Init => Typed
  BY TypedInit
<1>2. Typed /\ [Next]_vars => Typed'
  BY TypedStep
<1>3. Typed => TypeOK
  BY DEF Typed
<1> QED BY <1>1, <1>2, <1>3, PTL DEF Spec

-----------------------------------------------------------------------------
Owned == NoHandleTwice /\ NothingLeaks /\ SlotsAreOwned

\* What NoHandleTwice and NothingLeaks say of the queue, in terms of the lemmas above.
LEMMA QueueFacts ==
  ASSUME Typed, Owned
  PROVE  /\ Distinct(queue) /\ Queued = InQueue(queue)
         /\ result \notin Queued
         /\ Queued \subseteq Accepted
         /\ result # Invalid => result \in Accepted
         /\ Accepted \subseteq Queued \cup {result}
BY DEF Owned, NoHandleTwice, NothingLeaks, Distinct, InQueue, Queued

\* A closed handle is not accepted any more, the others are as before.
LEMMA ClosedAccepted ==
  ASSUME Typed, NEW hs, SocketClosed(hs)
  PROVE  Accepted' = Accepted \ hs
BY DEF SocketClosed, Accepted, Typed, TypeOK

\* Closing a handle with server::close leaves no slot behind for it.
LEMMA CloseHandleSlots ==
  ASSUME Typed, SlotsAreOwned, NEW h \in Handles, CloseHandle(h), UNCHANGED listening
  PROVE  SlotsAreOwned'
<1>1. Accepted' = Accepted \ {h}
  BY ClosedAccepted DEF CloseHandle
<1>2. slots' = [s \in Slots |-> IF slots[s].handle = h THEN FreeSlot ELSE slots[s]]
  BY DEF CloseHandle, Released
<1>3. h # Invalid
  BY SparkAssumption
<1> QED BY <1>1, <1>2, <1>3 DEF SlotsAreOwned, FreeSlot

\* validate removes the visited item: by selecting it, or by closing it.
LEMMA SelectOwned == Typed /\ Owned /\ Select => Owned'
<1> SUFFICES ASSUME Typed, Owned, Select
             PROVE  Owned'
  OBVIOUS
<1>1. Visiting /\ scan.i \in 1..Len(queue) /\ Visited \in Handles /\ queue \in Seq(Item)
  BY VisitedType DEF Select, Typed, TypeOK
<1>2. Distinct(queue') /\ InQueue(queue') = Queued \ {Visited}
  BY <1>1, QueueFacts, WithoutHandles DEF Select, Visited
<1>3. Queued' = Queued \ {Visited} /\ result' = Visited /\ result = Invalid
  BY <1>2 DEF Select, Queued, InQueue
<1>4. Visited \in Queued
  BY <1>1, LenProperties DEF Visited, Queued
<1>5. NoHandleTwice'
  BY <1>2, <1>3 DEF NoHandleTwice, Distinct
<1>6. Accepted' = Accepted
  BY DEF Select, Accepted
<1>7. NothingLeaks'
  BY <1>1, <1>3, <1>4, <1>6, SparkAssumption DEF NothingLeaks, Owned
<1>8. SlotsAreOwned'
  BY <1>6 DEF Owned, SlotsAreOwned, Select
<1> QED BY <1>5, <1>7, <1>8 DEF Owned

LEMMA CloseItemOwned == Typed /\ Owned /\ Visiting /\ CloseItem => Owned'
<1> SUFFICES ASSUME Typed, Owned, Visiting, CloseItem
             PROVE  Owned'
  OBVIOUS
<1>1. scan.i \in 1..Len(queue) /\ Visited \in Handles /\ queue \in Seq(Item)
  BY VisitedType DEF Typed, TypeOK
<1>2. Distinct(queue') /\ InQueue(queue') = Queued \ {Visited}
  BY <1>1, QueueFacts, WithoutHandles DEF CloseItem, Visited
<1>3. Queued' = Queued \ {Visited} /\ result' = result
  BY <1>2 DEF CloseItem, Queued, InQueue
<1>4. Visited \in Queued
  BY <1>1, LenProperties DEF Visited, Queued
<1>5. NoHandleTwice'
  BY <1>2, <1>3, QueueFacts DEF NoHandleTwice, Distinct
<1>6. Accepted' = Accepted \ {Visited}
  BY ClosedAccepted DEF CloseItem, CloseHandle
<1>7. NothingLeaks'
  BY <1>3, <1>4, <1>6, QueueFacts DEF NothingLeaks, Owned
<1>8. SlotsAreOwned'
  BY <1>1, CloseHandleSlots DEF Owned, CloseItem
<1> QED BY <1>5, <1>7, <1>8 DEF Owned

\* A handle enters the queue: after accept, or when its connection is kept.
LEMMA PushOwned ==
  ASSUME Typed, Owned, NEW h \in Handles, h \notin Queued, Len(queue) < MaxConnections,
         queue' = Push(h)
  PROVE  Distinct(queue') /\ Queued' = Queued \cup {h}
<1>1. Distinct(queue) /\ Queued = InQueue(queue) /\ queue \in Seq(Item)
  BY QueueFacts DEF Typed, TypeOK
<1>2. [handle |-> h, time |-> now] \in Item /\ Push(h) = Append(queue, [handle |-> h, time |-> now])
  BY PushType DEF Typed
<1>3. Distinct(queue') /\ InQueue(queue') = InQueue(queue) \cup {h}
  BY <1>1, <1>2, AppendHandles
<1> QED BY <1>1, <1>3 DEF Queued, InQueue

\* find_session gives a slot to one handle, and only one that has none yet.
LEMMA FindSessionOwned == Typed /\ Owned /\ FindSession => Owned'
<1> SUFFICES ASSUME Typed, Owned, FindSession
             PROVE  Owned'
  OBVIOUS
<1>1. result \in Accepted /\ result # Invalid
  BY QueueFacts DEF FindSession, Typed, ResultMatchesPc
<1>2. NoHandleTwice' /\ NothingLeaks' /\ Accepted' = Accepted
  BY DEF Owned, NoHandleTwice, NothingLeaks, Accepted, Queued, FindSession, outside
<1>3. SlotsAreOwned'
  <2>1. CASE slots' = slots
    BY <1>2, <2>1 DEF Owned, SlotsAreOwned, FindSession
  <2>2. ASSUME NEW s \in Slots, slots[s].handle = Invalid,
               \A t \in Slots : slots[t].handle # result,
               slots' = [slots EXCEPT ![s].handle = result]
        PROVE  SlotsAreOwned'
    <3>1. \A t \in Slots : /\ slots'[t].handle = IF t = s THEN result ELSE slots[t].handle
                           /\ slots'[t].saved = slots[t].saved
      BY <2>2 DEF Typed, TypeOK
    <3> QED BY <1>1, <1>2, <2>2, <3>1 DEF Owned, SlotsAreOwned, FindSession
  <2> QED BY <2>1, <2>2 DEF FindSession
<1> QED BY <1>2, <1>3 DEF Owned

LEMMA OwnedInit == Init => Owned
<1> SUFFICES ASSUME Init
             PROVE  Owned
  OBVIOUS
<1>1. Queued = {} /\ Accepted = {}
  BY DEF Init, Queued, Accepted
<1>2. NoHandleTwice /\ NothingLeaks
  BY <1>1 DEF Init, NoHandleTwice, NothingLeaks
<1>3. SlotsAreOwned
  BY DEF Init, SlotsAreOwned, FreeSlot
<1> QED BY <1>2, <1>3 DEF Owned

\* No step queues a handle twice, loses or invents one, or leaves a slot behind.
LEMMA OwnedStep == Typed /\ Owned /\ [Next]_vars => Owned'
<1> SUFFICES ASSUME Typed, Owned, [Next]_vars
             PROVE  Owned'
  OBVIOUS
<1> USE DEF outside, server
<1>1. CASE Stop
  <2>1. Queued' = {} /\ result' = Invalid /\ result = Invalid
    BY <1>1 DEF Stop, Queued, Typed, ResultMatchesPc
  <2>2. Accepted' = {}
    BY <1>1, <2>1, ClosedAccepted, QueueFacts DEF Stop, Owned, NothingLeaks
  <2>3. NoHandleTwice'
    BY <1>1, <2>1 DEF Stop, NoHandleTwice
  <2>4. SlotsAreOwned'
    BY <1>1 DEF Stop, SlotsAreOwned, Owned
  <2> QED BY <2>1, <2>2, <2>3, <2>4 DEF Owned, NothingLeaks
<1>2. CASE AppListen \/ Listen
  <2>1. Queued' = Queued /\ Accepted' = Accepted /\ result' = result
    BY <1>2 DEF AppListen, Listen, StartListening, StartScan, Queued, Accepted, Typed, ResultMatchesPc
  <2>2. NoHandleTwice' /\ NothingLeaks'
    BY <1>2, <2>1 DEF AppListen, Listen, StartListening, Owned, NoHandleTwice, NothingLeaks
  <2>3. SlotsAreOwned'
    BY <1>2, <2>1 DEF AppListen, Listen, StartListening, SlotsAreOwned, FreeSlot
  <2> QED BY <2>2, <2>3 DEF Owned
<1>3. ASSUME UNCHANGED <<queue, slots, listening, result, Accepted>>
      PROVE  Owned'
  BY <1>3 DEF Owned, NoHandleTwice, NothingLeaks, SlotsAreOwned, Queued
<1>4. CASE Run \/ EndScan \/ AcceptNone \/ (Visiting /\ KeepItem) \/ Tick \/ NetworkChange
  BY <1>4, <1>3 DEF Run, StartScan, EndScan, AcceptNone, KeepItem, Tick, NetworkChange,
                    Accepted, Typed, ResultMatchesPc
<1>5. CASE Select
  BY <1>5, SelectOwned
<1>6. CASE Visiting /\ CloseItem
  BY <1>6, CloseItemOwned
<1>7. ASSUME NEW h \in Handles, AcceptToServe(h)
      PROVE  Owned'
  <2>1. h # Invalid /\ h \notin Accepted /\ result = Invalid
    BY <1>7, SparkAssumption DEF AcceptToServe, Pending, Accepted, Typed, ResultMatchesPc
  <2>2. Accepted' = Accepted \cup {h}
    BY <1>7 DEF AcceptToServe, Accepted, Typed, TypeOK
  <2>3. result' = h /\ Queued' = Queued /\ UNCHANGED <<queue, slots, listening>>
    BY <1>7 DEF AcceptToServe, Queued
  <2> QED BY <2>1, <2>2, <2>3, QueueFacts DEF Owned, NoHandleTwice, NothingLeaks, SlotsAreOwned
<1>8. ASSUME NEW h \in Handles, AcceptIdle(h)
      PROVE  Owned'
  <2>1. h # Invalid /\ h \notin Accepted /\ result = Invalid
    BY <1>8, SparkAssumption DEF AcceptIdle, Pending, Accepted, Typed, ResultMatchesPc
  <2>2. Accepted' = Accepted \cup {h}
    BY <1>8 DEF AcceptIdle, Accepted, Typed, TypeOK
  <2>3. Distinct(queue') /\ Queued' = Queued \cup {h}
    BY <1>8, <2>1, QueueFacts, PushOwned DEF AcceptIdle
  <2>4. UNCHANGED <<slots, listening, result>>
    BY <1>8 DEF AcceptIdle
  <2> QED BY <2>1, <2>2, <2>3, <2>4, QueueFacts
          DEF Owned, Distinct, NoHandleTwice, NothingLeaks, SlotsAreOwned
<1>9. ASSUME NEW h \in Handles, AcceptFull(h)
      PROVE  Owned'
  <2>1. Accepted' = Accepted
    BY <1>9, ClosedAccepted DEF AcceptFull, Pending, Accepted
  <2> QED BY <1>9, <1>3, <2>1 DEF AcceptFull
<1>10. CASE FindSession
  BY <1>10, FindSessionOwned
<1>11. ASSUME NEW saves \in BOOLEAN, Keep(saves)
       PROVE  Owned'
  <2>1. result # Invalid /\ result \in Handles /\ result' = Invalid
    BY <1>11 DEF Keep, Serving, Typed, TypeOK, ResultMatchesPc
  <2>2. Distinct(queue') /\ Queued' = Queued \cup {result}
    BY <1>11, <2>1, QueueFacts, PushOwned DEF Keep
  <2>3. Accepted' = Accepted
    BY <1>11 DEF Keep, Accepted
  <2>4. NoHandleTwice' /\ NothingLeaks'
    <3>1. Invalid \notin Accepted
      BY SparkAssumption DEF Accepted
    <3>2. NoHandleTwice'
      BY <3>1, <2>1, <2>2, QueueFacts DEF Distinct, NoHandleTwice
    <3>3. NothingLeaks'
      BY <2>1, <2>2, <2>3, QueueFacts DEF NothingLeaks
    <3> QED BY <3>2, <3>3
  <2>5. \A s \in Slots : /\ slots'[s].handle = slots[s].handle
                         /\ slots'[s].saved => slots[s].saved \/ slots[s].handle = result
    BY <1>11 DEF Keep, SavedSlots, Typed, TypeOK
  <2>6. SlotsAreOwned'
    BY <1>11, <2>1, <2>3, <2>5 DEF Keep, Owned, SlotsAreOwned
  <2> QED BY <2>4, <2>6 DEF Owned
<1>12. CASE Close \/ \E saves \in BOOLEAN : KeepFull(saves)
  <2>1. result # Invalid /\ result \in Handles /\ result' = Invalid
    BY <1>12 DEF Close, KeepFull, Serving, Typed, TypeOK, ResultMatchesPc
  <2>2. CloseHandle(result) /\ UNCHANGED <<queue, listening>>
    BY <1>12 DEF Close, KeepFull
  <2>3. Accepted' = Accepted \ {result} /\ Queued' = Queued
    BY <2>2, ClosedAccepted DEF CloseHandle, Queued
  <2>4. NoHandleTwice' /\ NothingLeaks'
    <3>1. Invalid \notin Accepted
      BY SparkAssumption DEF Accepted
    <3>2. NoHandleTwice'
      BY <3>1, <2>1, <2>2, <2>3, QueueFacts DEF NoHandleTwice, Owned
    <3>3. NothingLeaks'
      BY <2>1, <2>3, QueueFacts DEF NothingLeaks
    <3> QED BY <3>2, <3>3
  <2>5. SlotsAreOwned'
    BY <2>1, <2>2, CloseHandleSlots DEF Owned
  <2> QED BY <2>4, <2>5 DEF Owned
<1>13. ASSUME NEW h \in Handles, Connect(h) \/ Deliver(h) \/ Disconnect(h)
       PROVE  Owned'
  <2>1. Accepted' = Accepted
    BY <1>13 DEF Connect, Deliver, Disconnect, Accepted, Typed, TypeOK
  <2> QED BY <1>13, <1>3, <2>1 DEF Connect, Deliver, Disconnect
<1>14. CASE UNCHANGED vars
  BY <1>14, <1>3 DEF vars, Accepted
<1> QED
  BY <1>1, <1>2, <1>4, <1>5, <1>6, <1>7, <1>8, <1>9, <1>10, <1>11, <1>12, <1>13, <1>14
  DEF Next, Server, GoOffline, Scan, SkipPending, KeepIdle, CloseInactive, Expire,
      ReceiveFails, Accept, Serve, Application, Outside

LEMMA OwnedAlways == Spec => [](Typed /\ Owned)
<1>1. Init => Typed /\ Owned
  BY TypedInit, OwnedInit
<1>2. Typed /\ Owned /\ [Next]_vars => (Typed /\ Owned)'
  BY TypedStep, OwnedStep
<1> QED BY <1>1, <1>2, PTL DEF Spec

\* No handle is queued twice, and none is served while it is queued.
THEOREM NoHandleQueuedTwice == Spec => []NoHandleTwice
<1>1. Typed /\ Owned => NoHandleTwice
  BY DEF Owned
<1> QED BY <1>1, OwnedAlways, PTL

\* The handles in the queue and the one in service are exactly the open connections.
THEOREM NoSocketLeaks == Spec => []NothingLeaks
<1>1. Typed /\ Owned => NothingLeaks
  BY DEF Owned
<1> QED BY <1>1, OwnedAlways, PTL

\* A session slot belongs to one open connection; none survives its connection.
THEOREM SlotsBelongToConnections == Spec => []SlotsAreOwned
<1>1. Typed /\ Owned => SlotsAreOwned
  BY DEF Owned
<1> QED BY <1>1, OwnedAlways, PTL

-----------------------------------------------------------------------------
\* A queued connection that has not used up its timeout, and whose deadline does
\* not wrap: the clock tells how long it has been idle, and the loop of validate
\* works with a time at which it was queued already.
Elapsed ==
  \A i \in DOMAIN queue :
    LET h == queue[i].handle
        t == queue[i].time
    IN  t + Timeout < ClockRange /\ idle[h] < Timeout =>
          /\ now = t + idle[h]
          /\ pc = "scan" => t <= scan.time /\ scan.time <= now

LEMMA NoWrap ==
  ASSUME NEW x \in Nat, x < ClockRange
  PROVE  x % ClockRange = x
BY SparkAssumption

\* An item that is left after a removal was there before.
LEMMA WithoutItems ==
  ASSUME NEW q \in Seq(Item), NEW i \in 1..Len(q), NEW j \in DOMAIN Without(q, i)
  PROVE  \E k \in DOMAIN q : Without(q, i)[j] = q[k]
<1>1. Len(q) \in Nat /\ DOMAIN q = 1..Len(q)
  BY LenProperties
<1>2. j \in 1..(Len(q) - 1) /\ Without(q, i)[j] = IF j < i THEN q[j] ELSE q[j + 1]
  BY DEF Without
<1>3. j \in DOMAIN q /\ j + 1 \in DOMAIN q
  BY <1>1, <1>2
<1> QED BY <1>2, <1>3

LEMMA ElapsedPush ==
  ASSUME Typed, Owned, Elapsed, NEW h \in Handles, h \notin Queued,
         Len(queue) < MaxConnections, queue' = Push(h),
         idle' = [idle EXCEPT ![h] = 0], now' = now, pc' # "scan"
  PROVE  Elapsed'
<1>1. Push(h) = Append(queue, [handle |-> h, time |-> now]) /\ queue \in Seq(Item) /\ Len(queue) \in Nat
  BY PushType, LenProperties DEF Typed, TypeOK
<1>2. DOMAIN queue' = 1..(Len(queue) + 1) /\ DOMAIN queue = 1..Len(queue)
  BY <1>1, LenProperties
<1>3. SUFFICES ASSUME NEW i \in DOMAIN queue', queue'[i].time + Timeout < ClockRange,
                      idle'[queue'[i].handle] < Timeout
               PROVE  now = queue'[i].time + idle'[queue'[i].handle]
  BY DEF Elapsed
<1>4. CASE i = Len(queue) + 1
  <2>1. queue'[i] = [handle |-> h, time |-> now]
    BY <1>1, <1>4
  <2>2. idle'[h] = 0 /\ now \in Nat
    BY DEF Typed, TypeOK, Clock
  <2> QED BY <2>1, <2>2
<1>5. CASE i \in DOMAIN queue
  <2>1. queue'[i] = queue[i]
    BY <1>1, <1>2, <1>5
  <2>2. queue[i].handle # h
    BY <1>5 DEF Queued
  <2>3. idle'[queue[i].handle] = idle[queue[i].handle]
    BY <2>2 DEF Typed, TypeOK
  <2> QED BY <1>3, <1>5, <2>1, <2>3 DEF Elapsed
<1> QED BY <1>2, <1>4, <1>5, <1>1

LEMMA ElapsedTick == Typed /\ Elapsed /\ Tick => Elapsed'
<1> SUFFICES ASSUME Typed, Elapsed, Tick, NEW i \in DOMAIN queue,
                    queue[i].time + Timeout < ClockRange, idle'[queue[i].handle] < Timeout
             PROVE  /\ now' = queue[i].time + idle'[queue[i].handle]
                    /\ pc = "scan" => queue[i].time <= scan.time /\ scan.time <= now'
  BY DEF Elapsed, Tick, server
<1> DEFINE h == queue[i].handle
           t == queue[i].time
<1>1. queue[i] \in Item /\ h \in Queued
  BY ElementOfSeq, LenProperties DEF Typed, TypeOK, Queued
<1>2. h \in Handles /\ t \in Nat /\ idle[h] \in Nat /\ Timeout \in Nat /\ ClockRange \in Nat
  BY <1>1, SparkAssumption DEF Item, Clock, Typed, TypeOK
<1>3. idle'[h] = IF idle[h] < Timeout THEN idle[h] + 1 ELSE idle[h]
  BY <1>1, <1>2 DEF Tick
<1>4. idle[h] < Timeout /\ idle'[h] = idle[h] + 1
  BY <1>2, <1>3
<1>5. now = t + idle[h] /\ (pc = "scan" => t <= scan.time /\ scan.time <= now)
  BY <1>4 DEF Elapsed
<1>6. now + 1 \in Nat /\ now + 1 < ClockRange
  BY <1>2, <1>4, <1>5
<1>7. now' = now + 1
  BY <1>6, NoWrap DEF Tick
<1>8. scan.time \in Nat
  BY DEF Typed, TypeOK, Clock
<1> HIDE DEF h, t
<1>9. now' = t + idle'[h] /\ (pc = "scan" => t <= scan.time /\ scan.time <= now')
  BY <1>2, <1>4, <1>5, <1>7, <1>8
<1> QED BY <1>9 DEF h, t

LEMMA ElapsedWithout ==
  ASSUME Typed, Elapsed, Visiting, queue' = Without(queue, scan.i),
         UNCHANGED <<pc, scan, now, idle>>
  PROVE  Elapsed'
<1>1. queue \in Seq(Item) /\ scan.i \in 1..Len(queue)
  BY VisitedType DEF Typed, TypeOK
<1>2. \A j \in DOMAIN queue' : \E k \in DOMAIN queue : queue'[j] = queue[k]
  BY <1>1, WithoutItems
<1> QED BY <1>2 DEF Elapsed

LEMMA ElapsedStep == Typed /\ Owned /\ Elapsed /\ [Next]_vars => Elapsed'
<1> SUFFICES ASSUME Typed, Owned, Elapsed, [Next]_vars
             PROVE  Elapsed'
  OBVIOUS
<1> USE DEF outside, server
<1>1. CASE Stop
  BY <1>1 DEF Stop, Elapsed
<1>2. ASSUME UNCHANGED <<queue, now, idle>>, pc' # "scan" \/ UNCHANGED <<pc, scan.time>>
      PROVE  Elapsed'
  BY <1>2 DEF Elapsed
<1>3. CASE AppListen \/ (Visiting /\ KeepItem) \/ EndScan \/ AcceptNone \/ FindSession \/ Close \/ NetworkChange
  BY <1>3, <1>2 DEF AppListen, StartListening, Visiting, KeepItem, EndScan, AcceptNone,
                    FindSession, Close, Serving, NetworkChange, Typed, TypeOK
<1>4. ASSUME NEW h \in Handles,
             \/ AcceptToServe(h) \/ AcceptFull(h) \/ Connect(h) \/ Deliver(h) \/ Disconnect(h)
      PROVE  Elapsed'
  BY <1>4, <1>2 DEF AcceptToServe, AcceptFull, Connect, Deliver, Disconnect
<1>5. CASE \E saves \in BOOLEAN : KeepFull(saves)
  BY <1>5, <1>2 DEF KeepFull, Serving
<1>6. CASE Listen \/ Run
  <2>1. UNCHANGED <<queue, now, idle>> /\ scan'.time = now
    BY <1>6 DEF Listen, StartListening, Run, StartScan
  <2>2. \A i \in DOMAIN queue : queue[i].time \in Nat /\ idle[queue[i].handle] \in Nat
    <3> SUFFICES ASSUME NEW i \in DOMAIN queue
                 PROVE  queue[i].time \in Nat /\ idle[queue[i].handle] \in Nat
      OBVIOUS
    <3>1. queue[i] \in Item
      BY ElementOfSeq, LenProperties DEF Typed, TypeOK
    <3>2. queue[i].time \in Clock /\ idle[queue[i].handle] \in 0..Timeout
      BY <3>1 DEF Typed, TypeOK, Item
    <3> QED BY <3>2 DEF Clock
  <2>3. now \in Nat
    BY DEF Typed, TypeOK, Clock
  <2> QED BY <2>1, <2>2, <2>3 DEF Elapsed
<1>7. CASE Select
  BY <1>7, ElapsedWithout DEF Select
<1>8. CASE Visiting /\ CloseItem
  BY <1>8, ElapsedWithout DEF CloseItem
<1>9. ASSUME NEW h \in Handles, AcceptIdle(h)
      PROVE  Elapsed'
  <2>1. h \notin Queued
    BY <1>9, QueueFacts DEF AcceptIdle, Pending, Accepted
  <2> QED BY <1>9, <2>1, ElapsedPush DEF AcceptIdle
<1>10. ASSUME NEW saves \in BOOLEAN, Keep(saves)
       PROVE  Elapsed'
  <2>1. result \in Handles /\ result \notin Queued
    BY <1>10, QueueFacts DEF Keep, Serving, Typed, TypeOK, ResultMatchesPc
  <2> QED BY <1>10, <2>1, ElapsedPush DEF Keep, Serving
<1>11. CASE Tick
  BY <1>11, ElapsedTick
<1>12. CASE UNCHANGED vars
  BY <1>12, <1>2 DEF vars
<1> QED
  BY <1>1, <1>3, <1>4, <1>5, <1>6, <1>7, <1>8, <1>9, <1>10, <1>11, <1>12
  DEF Next, Server, GoOffline, Scan, SkipPending, KeepIdle, CloseInactive, Expire,
      ReceiveFails, Accept, Serve, Application, Outside

LEMMA ExpireStep ==
  ASSUME Typed, Elapsed, Expire, queue[scan.i].time + Timeout < ClockRange
  PROVE  idle[Visited] >= Timeout
<1> DEFINE t == queue[scan.i].time
<1>1. scan.i \in 1..Len(queue) /\ queue[scan.i] \in Item /\ Visited \in Handles /\ pc = "scan"
  BY VisitedType DEF Typed, Expire, Visiting
<1>2. t \in Nat /\ Timeout \in Nat /\ idle[Visited] \in Nat /\ scan.time \in Nat /\ now \in Nat
  BY <1>1, SparkAssumption DEF Item, Clock, Typed, TypeOK
<1>3. (t + Timeout) % ClockRange = t + Timeout
  BY <1>2, NoWrap
<1>4. scan.time >= t + Timeout
  BY <1>3 DEF Expire, Expired
<1>5. scan.i \in DOMAIN queue
  BY <1>1, LenProperties DEF Typed, TypeOK
<1>6. idle[Visited] < Timeout => now = t + idle[Visited] /\ scan.time <= now
  BY <1>1, <1>5 DEF Elapsed, Visited
<1> HIDE DEF t
<1> QED BY <1>2, <1>4, <1>6

\* While its deadline does not wrap, a connection is expired only after it has been
\* idle for the whole timeout, whatever happens between the look at the clock and
\* the visit, for every timeout and every range of the clock.
THEOREM ExpiresInTime == Spec => ExpiresAfterTimeout
<1>1. Init => Elapsed
  BY DEF Init, Elapsed
<1>2. Typed /\ Owned /\ Elapsed /\ [Next]_vars => Elapsed'
  BY ElapsedStep
<1>3. Typed /\ Elapsed /\ [Next]_vars
        => [(Expire /\ queue[scan.i].time + Timeout < ClockRange) => idle[Visited] >= Timeout]_vars
  BY ExpireStep
<1>4. Spec => [](Typed /\ Owned)
  BY OwnedAlways
<1>5. Spec => []Elapsed
  BY <1>1, <1>2, <1>4, PTL DEF Spec
<1> QED BY <1>3, <1>4, <1>5, PTL DEF Spec, ExpiresAfterTimeout
=============================================================================
