----------------------- MODULE SessionLayers_proofs -----------------------
(***************************************************************************)
(* The three callback driven session layers, for any number of             *)
(* connections, slots, sockets and failures: no callback works on a        *)
(* deleted session, no slot is held for nobody, and all three implement    *)
(* Connections.                                                            *)
(***************************************************************************)
EXTENDS SessionLayers, SequenceTheorems, WellFoundedInduction, TLAPS

\* The step of one layer leaves the variables of the others alone.
LEMMA LayersAreApart ==
  ASSUME [Next]_vars
  PROVE  /\ port' = port
         /\ \/ port = "lwip" /\ Lwip!Next /\ UNCHANGED <<esp, arduino>>
            \/ port = "esp" /\ Esp!Next /\ UNCHANGED <<lwip, arduino, faults>>
            \/ port = "arduino" /\ Arduino!Next /\ UNCHANGED <<lwip, esp, sentcb, unacked>>
            \/ UNCHANGED vars
BY DEF Next, LwipOnly, EspOnly, ArduinoOnly, vars, lwip, esp, arduino

\* What is left of a request when a packet of it has been read.
LEMMA RestIsUnsent ==
  ASSUME NEW q \in Lwip!Unsent, q # <<>>
  PROVE  Tail(q) \in Lwip!Unsent
<1>1. ASSUME NEW a PROVE Tail(<<a>>) = <<>>
  OBVIOUS
<1>2. ASSUME NEW a, NEW b PROVE Tail(<<a, b>>) = <<b>>
  OBVIOUS
<1> QED
  BY <1>1, <1>2 DEF Lwip!Unsent

LEMMA RequestIsUnsent == Lwip!Requests \subseteq Lwip!Unsent /\ <<>> \in Lwip!Unsent
BY DEF Lwip!Unsent, Lwip!Requests

-----------------------------------------------------------------------------
(* lwIP *)

\* Only an active block waits for an acknowledgement.
LwipInv == /\ Lwip!TypeOK /\ CallbacksAreLive
           /\ \A c \in unacked : pcb[c] = "active"

\* A step of the block c: it leaves the others as they are, and a free block can only
\* become one with a new session.
LwipMoves(c) ==
  /\ LwipInv'
  /\ \A d \in Conns \ {c} : Lwip!Phase(d)' = Lwip!Phase(d)
  /\ pcb[c] = "free" => Lwip!Phase(c)' \in {"none", "idle"}

LEMMA LwipCloses ==
  ASSUME LwipInv, NEW c \in Conns, Lwip!HasSession(c), Lwip!Close(c)
  PROVE  LwipMoves(c)
<1> USE DEF LwipInv, Lwip!TypeOK, CallbacksAreLive, Lwip!CallbacksAreLive, Lwip!LossesAreFaults,
            Lwip!HasSession, Lwip!Pcb, Lwip!Hooks, Lwip!Session, Lwip!Sentcb, LwipMoves, Lwip!Phase
<1>1. CASE Lwip!CloseOk(c)
  BY <1>1, RequestIsUnsent DEF Lwip!CloseOk, Lwip!Gone
<1>2. CASE Lwip!CloseFails(c)
  BY <1>2 DEF Lwip!CloseFails, Lwip!Fault
<1> QED
  BY <1>1, <1>2 DEF Lwip!Close

LEMMA LwipStep ==
  ASSUME LwipInv, NEW c \in Conns,
         \/ Lwip!Accept(c) \/ Lwip!AcceptFails(c)
         \/ Lwip!Received(c) \/ Lwip!PeerClosed(c) \/ Lwip!PeerClosedDetached(c)
         \/ Lwip!Acked(c) \/ Lwip!Poll(c) \/ Lwip!Error(c)
         \/ Lwip!Freed(c) \/ Lwip!Request(c)
  PROVE  LwipMoves(c)
<1> USE DEF LwipInv, Lwip!TypeOK, CallbacksAreLive, Lwip!CallbacksAreLive, Lwip!LossesAreFaults,
            Lwip!HasSession, Lwip!Pcb, Lwip!Hooks, Lwip!Session, Lwip!Sentcb, LwipMoves, Lwip!Phase
<1>1. CASE Lwip!Accept(c)
  BY <1>1, RequestIsUnsent DEF Lwip!Accept
<1>2. CASE Lwip!AcceptFails(c)
  BY <1>2 DEF Lwip!AcceptFails, Lwip!Fault
<1>3. CASE Lwip!Received(c)
  BY <1>3, RestIsUnsent DEF Lwip!Received, Lwip!Fragment, Lwip!Kept, Lwip!Closing, Lwip!Send, Lwip!Fault
<1>4. CASE Lwip!PeerClosed(c) \/ Lwip!PollSession(c)
  BY <1>4, LwipCloses DEF Lwip!PeerClosed, Lwip!PollSession
<1>5. CASE Lwip!PeerClosedDetached(c)
  BY <1>5, RequestIsUnsent DEF Lwip!PeerClosedDetached, Lwip!Gone
<1>6. CASE Lwip!Acked(c)
  BY <1>6, LwipCloses DEF Lwip!Acked
<1>7. CASE Lwip!PollDetached(c)
  BY <1>7, RequestIsUnsent DEF Lwip!PollDetached, Lwip!Gone, Lwip!Fault
<1>8. CASE Lwip!Error(c)
  BY <1>8, RequestIsUnsent DEF Lwip!Error, Lwip!Gone, Lwip!Fault
<1>9. CASE Lwip!Freed(c)
  BY <1>9 DEF Lwip!Freed
<1>10. CASE Lwip!Request(c)
  BY <1>10, RequestIsUnsent DEF Lwip!Request
<1> QED
  BY <1>1, <1>2, <1>3, <1>4, <1>5, <1>6, <1>7, <1>8, <1>9, <1>10 DEF Lwip!Poll

-----------------------------------------------------------------------------
(* ESP8266 *)

\* A set of slots that is not empty has a first one.
LEMMA FirstExists ==
  ASSUME NEW slots \in SUBSET Nat, slots # {}
  PROVE  Esp!First(slots) \in slots
<1> DEFINE Less == {ss \in Nat \X Nat : ss[1] < ss[2]}
<1>1. IsWellFoundedOn(Less, Nat)
  BY NatLessThanWellFounded DEF OpToRel
<1> HIDE DEF Less
<1>2. PICK s \in slots : \A t \in slots : <<t, s>> \notin Less
  BY <1>1, WFMin
<1>3. ASSUME NEW t \in slots PROVE s <= t
  <2>1. <<t, s>> \in Nat \X Nat /\ <<t, s>>[1] = t /\ <<t, s>>[2] = s
    OBVIOUS
  <2>2. ~(t < s)
    BY <1>2, <2>1 DEF Less
  <2> QED
    BY <2>2
<1> QED
  BY <1>3 DEF Esp!First

\* map::find: the slot of the key, or an empty one, or none.
LEMMA FindFinds ==
  ASSUME NEW key
  PROVE  \/ Esp!Find(key) \in Esp!Saved(key)
         \/ Esp!Saved(key) = {} /\ Esp!Find(key) \in Esp!Empty
         \/ Esp!Saved(key) = {} /\ Esp!Find(key) = 0
<1>1. Esp!Saved(key) \in SUBSET Nat /\ Esp!Empty \in SUBSET Nat
  BY SessionLayersAssumption DEF SessionLayersAssumption, Esp!Saved, Esp!Empty, Esp!Slots
<1>2. /\ Esp!Saved(key) # {} => Esp!First(Esp!Saved(key)) \in Esp!Saved(key)
      /\ Esp!Empty # {} => Esp!First(Esp!Empty) \in Esp!Empty
  BY <1>1, FirstExists
<1> QED
  BY <1>2 DEF Esp!Find

\* The slots of a message are found, and no other connection's are touched.
LEMMA StoredIsOwn ==
  ASSUME Esp!TypeOK, SlotsAreNeeded, NEW c \in Conns, NEW saved \in BOOLEAN,
         Esp!Stored(Esp!Find(Esp!Key(c)), Esp!Key(c), saved)
  PROVE  /\ httpstate' \in Esp!Map
         /\ \A s \in Esp!Slots :
              \/ httpstate'[s] = httpstate[s] /\ (~saved => ~(httpstate[s].saved /\ httpstate[s].key = Esp!Key(c)))
              \/ httpstate'[s] = [key |-> Esp!Key(c), saved |-> saved]
                 /\ (~httpstate[s].saved \/ httpstate[s].key = Esp!Key(c))
         /\ \A s, t \in Esp!Slots :
              httpstate'[s].saved /\ httpstate'[t].saved /\ httpstate'[s].key = httpstate'[t].key => s = t
<1> DEFINE key == Esp!Key(c)
           s0 == Esp!Find(key)
<1>1. key \in {Esp!endpoint(r) : r \in Remotes}
  BY DEF Esp!TypeOK, Esp!Key
<1>2. \/ s0 \in Esp!Saved(key)
      \/ Esp!Saved(key) = {} /\ s0 \in Esp!Empty
      \/ Esp!Saved(key) = {} /\ s0 = 0
  BY FindFinds
<1>3. httpstate' = IF s0 = 0 THEN httpstate
                   ELSE [httpstate EXCEPT ![s0] = [key |-> key, saved |-> saved]]
  BY DEF Esp!Stored
<1>4. \A s, t \in Esp!Slots :
        httpstate[s].saved /\ httpstate[t].saved /\ httpstate[s].key = httpstate[t].key => s = t
  BY DEF SlotsAreNeeded, Esp!SlotsAreNeeded
<1>5. 0 \notin Esp!Slots
  BY DEF Esp!Slots
<1> DEFINE K == {Esp!endpoint(r) : r \in Remotes} \cup {Esp!NoKey}
<1>6. httpstate \in [Esp!Slots -> [key : K, saved : BOOLEAN]]
  BY DEF Esp!TypeOK, Esp!Map
<1>7. key \in K
  BY <1>1
<1> HIDE DEF key, s0, K
<1>8. CASE s0 = 0
  BY <1>2, <1>3, <1>4, <1>5, <1>6, <1>8 DEF Esp!Saved, Esp!Empty, key, K, Esp!Map
<1>9. CASE s0 # 0
  <2>1. s0 \in Esp!Slots /\ (~httpstate[s0].saved \/ httpstate[s0].key = key)
    BY <1>2, <1>9 DEF Esp!Saved, Esp!Empty
  <2>2. \A s \in Esp!Slots : httpstate[s].saved /\ httpstate[s].key = key => s = s0
    BY <1>2, <1>4, <1>9 DEF Esp!Saved
  <2>3. httpstate' = [httpstate EXCEPT ![s0] = [key |-> key, saved |-> saved]]
    BY <1>3, <1>9
  <2>4. httpstate' \in [Esp!Slots -> [key : K, saved : BOOLEAN]]
    BY <1>6, <1>7, <2>1, <2>3 DEF K
  <2>5. /\ httpstate'[s0] = [key |-> key, saved |-> saved]
        /\ \A s \in Esp!Slots \ {s0} : httpstate'[s] = httpstate[s]
    BY <1>6, <2>1, <2>3
  <2> QED
    BY <1>4, <2>1, <2>2, <2>4, <2>5 DEF K, key, Esp!Map
<1> QED
  BY <1>8, <1>9

\* Live connections have remote endpoints of their own, and only they wait for an
\* acknowledgement.
EspInv == /\ Esp!TypeOK /\ SlotsAreNeeded
          /\ \A c \in unacked : link[c] # "none"
          /\ \A c, d \in Conns :
               link[c] # "none" /\ link[d] # "none" /\ remote[c] = remote[d] => c = d

LEMMA EspRestIsUnsent ==
  /\ \A q \in Esp!Unsent : q # <<>> => Tail(q) \in Esp!Unsent
  /\ Esp!Requests \subseteq Esp!Unsent /\ <<>> \in Esp!Unsent
BY RestIsUnsent, RequestIsUnsent DEF Esp!Unsent, Lwip!Unsent, Esp!Requests, Lwip!Requests

\* A change of the slots of a live connection's key leaves no slot without an owner.
LEMMA OwnersStay ==
  ASSUME EspInv, NEW c \in Conns, NEW saved \in BOOLEAN, link[c] # "none",
         Esp!Stored(Esp!Find(Esp!Key(c)), Esp!Key(c), saved),
         remote' = remote, lost' = lost,
         \A d \in Conns : d # c => link'[d] = link[d],
         saved => link'[c] # "none"
  PROVE  SlotsAreNeeded'
<1> DEFINE Owned(s) == \/ \E d \in Conns : link[d] # "none" /\ Esp!Key(d) = httpstate[s].key
                       \/ \E r \in lost : Esp!endpoint(r) = httpstate[s].key
<1>1. ASSUME NEW s \in Esp!Slots, httpstate'[s].saved
      PROVE  Owned(s)'
  <2>1. CASE httpstate'[s].key = Esp!Key(c) /\ saved
    BY <2>1 DEF Esp!Key
  <2>2. CASE httpstate'[s] = httpstate[s] /\ httpstate[s].key # Esp!Key(c)
    BY <1>1, <2>2 DEF EspInv, SlotsAreNeeded, Esp!SlotsAreNeeded, Esp!Key
  <2>3. \/ httpstate'[s] = httpstate[s]
              /\ (~saved => ~(httpstate[s].saved /\ httpstate[s].key = Esp!Key(c)))
        \/ httpstate'[s] = [key |-> Esp!Key(c), saved |-> saved]
    BY StoredIsOwn DEF EspInv
  <2>4. CASE httpstate'[s] = [key |-> Esp!Key(c), saved |-> saved]
    BY <1>1, <2>1, <2>4
  <2> QED
    BY <1>1, <2>1, <2>2, <2>3, <2>4
<1>2. \A s, t \in Esp!Slots :
        httpstate'[s].saved /\ httpstate'[t].saved /\ httpstate'[s].key = httpstate'[t].key => s = t
  BY StoredIsOwn DEF EspInv
<1> QED
  BY <1>1, <1>2 DEF SlotsAreNeeded, Esp!SlotsAreNeeded

LEMMA EspKeeps ==
  ASSUME EspInv, NEW c \in Conns,
         \/ Esp!Connect(c) \/ Esp!Received(c) \/ Esp!Sent(c) \/ Esp!Sending(c)
         \/ Esp!Disconnect(c) \/ Esp!Error(c) \/ Esp!ErrorClosed(c) \/ Esp!Request(c)
  PROVE  EspInv'
<1> USE EspRestIsUnsent DEF EspInv, Esp!TypeOK, Esp!Link, Esp!Sentcb
<1>1. CASE Esp!Connect(c)
  BY <1>1 DEF Esp!Connect, SlotsAreNeeded, Esp!SlotsAreNeeded, Esp!Key
<1>2. CASE Esp!Received(c)
  <2>1. PICK result :
          /\ Esp!Stored(Esp!Find(Esp!Key(c)), Esp!Key(c), result = "fragment")
          /\ Esp!Keepalive(c, result)
          /\ unacked' \in {unacked, unacked \cup {c}}
    BY <1>2 DEF Esp!Received
  <2>2. link[c] = "up" /\ wire' = [wire EXCEPT ![c] = Tail(@)] /\ wire[c] # <<>> /\ UNCHANGED <<link, remote, lost>>
    BY <1>2 DEF Esp!Received
  <2>3. SlotsAreNeeded'
    BY <2>1, <2>2, OwnersStay
  <2>4. httpstate' \in Esp!Map
    BY <2>1, StoredIsOwn
  <2>5. sentcb' \in [Conns -> Esp!Sentcb] /\ unacked' \subseteq Conns
    BY <2>1 DEF Esp!Keepalive
  <2>6. wire' \in [Conns -> Esp!Unsent]
    BY <2>2
  <2> QED
    BY <2>1, <2>2, <2>3, <2>4, <2>5, <2>6
<1>3. CASE Esp!Sent(c) \/ Esp!Error(c)
  BY <1>3 DEF Esp!Sent, Esp!Error, Esp!Close, SlotsAreNeeded, Esp!SlotsAreNeeded, Esp!Key
<1>4. CASE Esp!Sending(c)
  BY <1>4 DEF Esp!Sending, SlotsAreNeeded, Esp!SlotsAreNeeded, Esp!Key
<1>5. CASE Esp!Disconnect(c)
  <2>1. /\ Esp!Stored(Esp!Find(Esp!Key(c)), Esp!Key(c), FALSE) /\ link[c] # "none"
        /\ link' = [link EXCEPT ![c] = "none"] /\ unacked' = unacked \ {c}
        /\ wire' = [wire EXCEPT ![c] = <<>>] /\ UNCHANGED <<remote, sentcb, lost>>
    BY <1>5 DEF Esp!Disconnect, Esp!Ended
  <2>2. SlotsAreNeeded'
    BY <2>1, OwnersStay
  <2>3. Esp!TypeOK'
    BY <2>1, StoredIsOwn
  <2> QED
    BY <2>1, <2>2, <2>3
<1>6. CASE Esp!ErrorClosed(c)
  <2>1. /\ link[c] # "none" /\ link' = [link EXCEPT ![c] = "none"] /\ unacked' = unacked \ {c}
        /\ wire' = [wire EXCEPT ![c] = <<>>] /\ lost' = lost \cup {remote[c]}
        /\ UNCHANGED <<remote, sentcb, httpstate>>
    BY <1>6 DEF Esp!ErrorClosed, Esp!Ended
  <2>2. ASSUME NEW s \in Esp!Slots, httpstate[s].saved
        PROVE  \/ \E d \in Conns : link'[d] # "none" /\ Esp!endpoint(remote[d]) = httpstate[s].key
               \/ \E r \in lost' : Esp!endpoint(r) = httpstate[s].key
    <3>1. CASE \E r \in lost : Esp!endpoint(r) = httpstate[s].key
      BY <3>1, <2>1
    <3>2. CASE \E d \in Conns : link[d] # "none" /\ Esp!Key(d) = httpstate[s].key
      BY <3>2, <2>1 DEF Esp!Key
    <3> QED
      BY <2>2, <3>1, <3>2 DEF SlotsAreNeeded, Esp!SlotsAreNeeded
  <2>3. SlotsAreNeeded'
    BY <2>1, <2>2 DEF SlotsAreNeeded, Esp!SlotsAreNeeded, Esp!Key
  <2>4. remote[c] \in Remotes
    OBVIOUS
  <2> QED
    BY <2>1, <2>3, <2>4
<1>7. CASE Esp!Request(c)
  BY <1>7 DEF Esp!Request, SlotsAreNeeded, Esp!SlotsAreNeeded, Esp!Key
<1> QED
  BY <1>1, <1>2, <1>3, <1>4, <1>5, <1>6, <1>7

\* Clients that the map of the server can tell apart.
ToldApart == /\ \A r, s \in Remotes : Esp!endpoint(r) = Esp!endpoint(s) => r = s
             /\ ~PortsComeAgain

\* A step of the connection c: it leaves the phases of the others, and a new connection
\* has nothing suspended.
LEMMA EspStep ==
  ASSUME EspInv, ToldApart, NEW c \in Conns,
         \/ Esp!Connect(c) \/ Esp!Received(c) \/ Esp!Sent(c) \/ Esp!Sending(c)
         \/ Esp!Disconnect(c) \/ Esp!Error(c) \/ Esp!ErrorClosed(c) \/ Esp!Request(c)
  PROVE  /\ \A d \in Conns \ {c} : Esp!Phase(d)' = Esp!Phase(d)
         /\ link[c] = "none" => Esp!Phase(c)' = "idle"
<1> USE DEF EspInv, Esp!TypeOK
<1>1. CASE Esp!Connect(c)
  <2>1. PICK r \in Remotes : /\ \A d \in Conns : link[d] # "none" => remote[d] # r
                             /\ r \notin lost
                             /\ remote' = [remote EXCEPT ![c] = r]
    BY <1>1 DEF Esp!Connect, ToldApart
  <2>2. /\ link[c] = "none" /\ link' = [link EXCEPT ![c] = "up"]
        /\ sentcb' = [sentcb EXCEPT ![c] = "sent"] /\ UNCHANGED <<unacked, httpstate, lost>>
    BY <1>1 DEF Esp!Connect
  <2>3. Esp!Key(c)' = Esp!endpoint(r)
    BY <2>1 DEF Esp!Key
  <2>4. Esp!Saved(Esp!endpoint(r)) = {}
    BY <2>1 DEF SlotsAreNeeded, Esp!SlotsAreNeeded, Esp!Saved, Esp!Key, ToldApart
  <2>5. Esp!Phase(c)' = "idle"
    BY <2>2, <2>3, <2>4 DEF Esp!Phase, Esp!Saved
  <2> QED
    BY <2>1, <2>2, <2>5 DEF Esp!Phase, Esp!Saved, Esp!Key
<1>2. ASSUME NEW saved \in BOOLEAN, link[c] # "none",
             Esp!Stored(Esp!Find(Esp!Key(c)), Esp!Key(c), saved),
             remote' = remote,
             \A d \in Conns : d # c => /\ link'[d] = link[d] /\ sentcb'[d] = sentcb[d]
                                       /\ d \in unacked' <=> d \in unacked
      PROVE  \A d \in Conns \ {c} : Esp!Phase(d)' = Esp!Phase(d)
  <2> TAKE d \in Conns \ {c}
  <2>1. CASE link[d] = "none"
    BY <1>2, <2>1 DEF Esp!Phase
  <2>2. CASE link[d] # "none"
    <3>1. Esp!Key(d) # Esp!Key(c) /\ Esp!Key(d)' = Esp!Key(d)
      BY <1>2, <2>2 DEF Esp!Key, ToldApart
    <3>2. \A s \in Esp!Slots : httpstate'[s].saved /\ httpstate'[s].key = Esp!Key(d)
                               <=> httpstate[s].saved /\ httpstate[s].key = Esp!Key(d)
      <4> TAKE s \in Esp!Slots
      <4>1. \/ httpstate'[s] = httpstate[s]
            \/ httpstate'[s] = [key |-> Esp!Key(c), saved |-> saved]
               /\ (~httpstate[s].saved \/ httpstate[s].key = Esp!Key(c))
        BY <1>2, StoredIsOwn
      <4> QED
        BY <3>1, <4>1
    <3>3. Esp!Saved(Esp!Key(d))' = Esp!Saved(Esp!Key(d))
      BY <3>1, <3>2 DEF Esp!Saved
    <3> QED
      BY <1>2, <2>2, <3>3 DEF Esp!Phase
  <2> QED
    BY <2>1, <2>2
<1>3. CASE Esp!Received(c)
  <2>1. PICK result :
          /\ Esp!Stored(Esp!Find(Esp!Key(c)), Esp!Key(c), result = "fragment")
          /\ Esp!Keepalive(c, result)
          /\ unacked' \in {unacked, unacked \cup {c}}
    BY <1>3 DEF Esp!Received
  <2>2. link[c] = "up" /\ UNCHANGED <<link, remote, lost>>
    BY <1>3 DEF Esp!Received
  <2> QED
    BY <1>2, <2>1, <2>2 DEF Esp!Keepalive
<1>4. CASE Esp!Disconnect(c)
  BY <1>2, <1>4 DEF Esp!Disconnect, Esp!Ended
<1>5. CASE Esp!Sent(c) \/ Esp!Error(c) \/ Esp!Sending(c) \/ Esp!ErrorClosed(c) \/ Esp!Request(c)
  BY <1>5 DEF Esp!Sent, Esp!Error, Esp!Close, Esp!Sending, Esp!ErrorClosed, Esp!Ended, Esp!Request,
              Esp!Phase, Esp!Saved, Esp!Key
<1> QED
  BY <1>1, <1>3, <1>4, <1>5

-----------------------------------------------------------------------------
(* Arduino *)

\* What has arrived of a request, and what is still to come.
Halves == ({<<>>} \X Arduino!Unsent) \cup {<<<<"whole">>, <<"stray">>>>, <<<<"head">>, <<"rest">>>>}
            \cup {<<q, <<>>>> : q \in Arduino!Unsent \cup {<<"head">>}}

ArduinoInv == /\ Arduino!TypeOK
              /\ \A h \in Conns : <<rx[h], wire[h]>> \in Halves
              /\ pc = "stop" => turn.i < MaxSockNum

LEMMA TupleParts ==
  /\ \A a : Append(<<>>, a) = <<a>> /\ Head(<<a>>) = a /\ Tail(<<a>>) = <<>> /\ Len(<<a>>) = 1
           /\ SubSeq(<<a>>, 2, 1) = <<>>
  /\ \A a, b : /\ Append(<<a>>, b) = <<a, b>> /\ Head(<<a, b>>) = a /\ Tail(<<a, b>>) = <<b>>
              /\ Len(<<a, b>>) = 2 /\ SubSeq(<<a, b>>, 2, 2) = <<b>> /\ SubSeq(<<a, b>>, 3, 2) = <<>>
  /\ Len(<<>>) = 0 /\ SubSeq(<<>>, 1, 0) = <<>>
<1>1. ASSUME NEW a PROVE /\ Append(<<>>, a) = <<a>> /\ Head(<<a>>) = a /\ Tail(<<a>>) = <<>>
                         /\ Len(<<a>>) = 1
  OBVIOUS
<1>2. ASSUME NEW a PROVE SubSeq(<<a>>, 2, 1) = <<>>
  BY SubSeqEmpty
<1>3. ASSUME NEW a, NEW b
      PROVE  /\ Append(<<a>>, b) = <<a, b>> /\ Head(<<a, b>>) = a /\ Tail(<<a, b>>) = <<b>>
             /\ Len(<<a, b>>) = 2
  <2>1. Append(<<a>>, b) = <<a, b>>
    <3> DEFINE S == {a, b}
               s == Append(<<a>>, b)
               t == <<a, b>>
    <3>1. <<a>> \in Seq(S) /\ b \in S /\ Len(<<a>>) = 1 /\ <<a>>[1] = a
      OBVIOUS
    <3>2. s \in Seq(S) /\ Len(s) = 2 /\ s[1] = a /\ s[2] = b
      BY <3>1, AppendProperties
    <3>3. t \in Seq(S) /\ Len(t) = 2 /\ t[1] = a /\ t[2] = b
      OBVIOUS
    <3> HIDE DEF S, s, t
    <3>4. \A i \in 1..2 : i = 1 \/ i = 2
      OBVIOUS
    <3>5. s = t
      BY <3>2, <3>3, <3>4, SeqEqual
    <3> QED
      BY <3>5 DEF s, t
  <2>2. Head(<<a, b>>) = a /\ Len(<<a, b>>) = 2
    OBVIOUS
  <2>3. Tail(<<a, b>>) = <<b>>
    OBVIOUS
  <2> QED
    BY <2>1, <2>2, <2>3
<1>4. ASSUME NEW a, NEW b PROVE SubSeq(<<a, b>>, 2, 2) = <<b>>
  <2> DEFINE s == <<a, b>>
  <2>1. s \in Seq({a, b}) /\ Len(s) = 2 /\ s[2] = b
    OBVIOUS
  <2> HIDE DEF s
  <2>2. SubSeq(s, 2, 2) = <<s[2]>> \o SubSeq(s, 3, 2)
    BY <2>1, SubSeqRecursiveFirst
  <2>3. SubSeq(s, 3, 2) = <<>> /\ <<b>> \in Seq({a, b})
    BY SubSeqEmpty
  <2>4. SubSeq(s, 2, 2) = <<b>>
    BY <2>1, <2>2, <2>3, ConcatEmptySeq
  <2> QED
    BY <2>4 DEF s
<1>5. ASSUME NEW a, NEW b PROVE SubSeq(<<a, b>>, 3, 2) = <<>>
  BY SubSeqEmpty
<1>6. Len(<<>>) = 0 /\ SubSeq(<<>>, 1, 0) = <<>>
  OBVIOUS
<1> QED
  BY <1>1, <1>2, <1>3, <1>4, <1>5, <1>6

\* What arrives, is read and is given up are halves of a request again.
LEMMA HalvesAreClosed ==
  ASSUME NEW r, NEW w, <<r, w>> \in Halves
  PROVE  /\ r \in Arduino!Unsent \cup {<<"head">>} /\ w \in Arduino!Unsent
         /\ <<r, <<>>>> \in Halves /\ <<<<>>, w>> \in Halves
         /\ w # <<>> => <<Append(r, Head(w)), Tail(w)>> \in Halves
         /\ r # <<"head">> => \A n \in Arduino!Message(r)..Len(r) : <<SubSeq(r, n + 1, Len(r)), w>> \in Halves
<1>1. r \in Arduino!Unsent \cup {<<"head">>} /\ w \in Arduino!Unsent
  BY DEF Halves, Arduino!Unsent
<1>2. <<r, <<>>>> \in Halves /\ <<<<>>, w>> \in Halves
  BY <1>1 DEF Halves, Arduino!Unsent
<1>3. ASSUME w # <<>> PROVE <<Append(r, Head(w)), Tail(w)>> \in Halves
  <2>1. \/ r = <<>>
        \/ r = <<"whole">> /\ w = <<"stray">>
        \/ r = <<"head">> /\ w = <<"rest">>
    BY <1>3 DEF Halves
  <2>2. CASE r = <<"whole">> /\ w = <<"stray">>
    <3>1. Append(r, Head(w)) = <<"whole", "stray">> /\ Tail(w) = <<>>
      BY <2>2, TupleParts
    <3> QED
      BY <3>1 DEF Halves, Arduino!Unsent
  <2>3. CASE r = <<"head">> /\ w = <<"rest">>
    <3>1. Append(r, Head(w)) = <<"head", "rest">> /\ Tail(w) = <<>>
      BY <2>3, TupleParts
    <3> QED
      BY <3>1 DEF Halves, Arduino!Unsent
  <2>4. CASE r = <<>>
    <3>1. CASE w \in {<<"whole">>, <<"rest">>, <<"stray">>}
      <4>1. Append(r, Head(w)) = w /\ Tail(w) = <<>>
        BY <2>4, <3>1, TupleParts
      <4> QED
        BY <1>1, <4>1 DEF Halves
    <3>2. CASE w = <<"head", "rest">>
      <4>1. Append(r, Head(w)) = <<"head">> /\ Tail(w) = <<"rest">>
        BY <2>4, <3>2, TupleParts
      <4> QED
        BY <4>1 DEF Halves
    <3>3. CASE w = <<"whole", "stray">>
      <4>1. Append(r, Head(w)) = <<"whole">> /\ Tail(w) = <<"stray">>
        BY <2>4, <3>3, TupleParts
      <4> QED
        BY <4>1 DEF Halves
    <3> QED
      BY <1>1, <1>3, <3>1, <3>2, <3>3 DEF Arduino!Unsent
  <2> QED
    BY <2>1, <2>2, <2>3, <2>4
<1>4. ASSUME r # <<"head">>, NEW n \in Arduino!Message(r)..Len(r)
      PROVE  <<SubSeq(r, n + 1, Len(r)), w>> \in Halves
  <2>1. \/ n = Len(r)
        \/ r = <<"whole", "stray">> /\ n = 1 /\ w = <<>>
    <3>1. CASE r = <<"whole", "stray">>
      <4>1. w = <<>> /\ Len(r) = 2 /\ Arduino!Message(r) = 1
        BY <3>1, TupleParts DEF Halves, Arduino!Message
      <4> QED
        BY <3>1, <4>1
    <3>2. CASE r # <<"whole", "stray">>
      <4>1. r \in {<<>>, <<"whole">>, <<"rest">>, <<"stray">>, <<"head", "rest">>}
        BY <1>1, <1>4, <3>2 DEF Arduino!Unsent
      <4>2. CASE r = <<>>
        BY <4>2, TupleParts DEF Arduino!Message
      <4>3. CASE r \in {<<"whole">>, <<"rest">>, <<"stray">>}
        <5>1. Len(r) = 1
          BY <4>3, TupleParts
        <5>2. r # <<>> /\ r # <<"head", "rest">>
          BY <5>1, TupleParts
        <5>3. Arduino!Message(r) = 1
          BY <5>2 DEF Arduino!Message
        <5> QED
          BY <5>1, <5>3
      <4>4. CASE r = <<"head", "rest">>
        BY <4>4, TupleParts DEF Arduino!Message
      <4> QED
        BY <4>1, <4>2, <4>3, <4>4
    <3> QED
      BY <3>1, <3>2
  <2>2. CASE n = Len(r)
    <3>1. SubSeq(r, n + 1, Len(r)) = <<>>
      BY <1>1, <2>2, TupleParts DEF Arduino!Unsent
    <3> QED
      BY <1>2, <3>1
  <2>3. CASE r = <<"whole", "stray">> /\ n = 1 /\ w = <<>>
    <3>1. SubSeq(r, n + 1, Len(r)) = <<"stray">>
      BY <2>3, TupleParts
    <3> QED
      BY <2>3, <3>1 DEF Halves, Arduino!Unsent
  <2> QED
    BY <2>1, <2>2, <2>3
<1> QED
  BY <1>1, <1>2, <1>3, <1>4

\* A step of the server or of the socket h: the phases of the other sockets stay, and a
\* socket without a connection gets one that has nothing suspended.
ArduinoMoves ==
  \E h \in Conns : /\ \A g \in Conns \ {h} : Arduino!Phase(g)' = Arduino!Phase(g)
                   /\ Arduino!Phase(h) = "none" => Arduino!Phase(h)' \in {"none", "idle"}

LEMMA InTurnIsSocket ==
  ASSUME Arduino!TypeOK
  PROVE  /\ Arduino!InTurn \in Conns
         /\ (next + 1) % CountRange \in 0..(CountRange - 1)
         /\ (turn.handle + 1) % MaxSockNum \in Conns
BY SessionLayersAssumption DEF SessionLayersAssumption, Arduino!TypeOK, Arduino!InTurn, Conns, Arduino!Handles

LEMMA SocketPutInOrder ==
  ASSUME Arduino!TypeOK, NEW h \in Conns, Arduino!PutInOrder(h)
  PROVE  /\ status' \in [Conns -> Arduino!Status] /\ faults' \in Nat
         /\ \A g \in Conns \ {h} : status'[g] = status[g]
         /\ Arduino!Phase(h) = "none" => Arduino!Phase(h)' \in {"none", "idle"}
<1>1. status \in [Conns -> Arduino!Status] /\ faults \in Nat
  BY DEF Arduino!TypeOK, Conns, Arduino!Handles
<1>2. \/ status' = status /\ faults' \in Nat
      \/ status[h] = "closed" /\ status' = [status EXCEPT ![h] = "listen"] /\ faults' = faults
      \/ status[h] = "close_wait" /\ status' = [status EXCEPT ![h] = "ending"] /\ faults' = faults
  BY <1>1 DEF Arduino!PutInOrder, Arduino!ListenOn, Arduino!Disconnected
<1>3. Arduino!Phase(h) = "none" <=> status[h] \in {"closed", "listen"}
  BY DEF Arduino!Phase, Arduino!Connected
<1>4. Arduino!Phase(h)' = "none" <=> status'[h] \in {"closed", "listen"}
  BY DEF Arduino!Phase, Arduino!Connected
<1> QED
  BY <1>1, <1>2, <1>3, <1>4 DEF Arduino!Status

LEMMA ArduinoServerStep ==
  ASSUME ArduinoInv, Conns # {},
         Arduino!Run \/ Arduino!Select \/ Arduino!PutRestInOrder \/ Arduino!EndAccept
  PROVE  ArduinoInv' /\ ArduinoMoves
<1> USE DEF ArduinoInv, ArduinoMoves
<1>1. CASE Arduino!Run
  BY <1>1, SessionLayersAssumption DEF SessionLayersAssumption, Arduino!Run, Arduino!chip,
     Arduino!TypeOK, Arduino!Phase, Arduino!Connected, Arduino!Handles, Conns, Arduino!BadHandle
<1>2. CASE Arduino!Select
  <2>1. PICK h \in Conns : h = Arduino!InTurn
    BY InTurnIsSocket
  <2>2. /\ turn.i < MaxSockNum /\ pc = "select" /\ accepted = Arduino!BadHandle
        /\ next' = (next + 1) % CountRange
        /\ turn' = [i |-> turn.i + 1, handle |-> h]
        /\ \/ accepted' = h /\ UNCHANGED <<status, faults>>
           \/ Arduino!PutInOrder(h) /\ UNCHANGED accepted
        /\ UNCHANGED <<pc, rx, wire>>
    BY <1>2, <2>1 DEF Arduino!Select
  <2>3. /\ status' \in [Conns -> Arduino!Status] /\ faults' \in Nat
        /\ \A g \in Conns \ {h} : status'[g] = status[g]
        /\ Arduino!Phase(h) = "none" => Arduino!Phase(h)' \in {"none", "idle"}
    <3>1. CASE Arduino!PutInOrder(h)
      BY <2>1, <3>1, SocketPutInOrder
    <3>2. CASE UNCHANGED <<status, faults>>
      BY <3>2 DEF Arduino!TypeOK, Arduino!Handles, Conns, Arduino!Phase, Arduino!Connected
    <3> QED
      BY <2>2, <3>1, <3>2
  <2>4. turn' \in [i : 0..MaxSockNum, handle : Conns] /\ next' \in 0..(CountRange - 1)
    BY <2>1, <2>2, InTurnIsSocket, SessionLayersAssumption
    DEF SessionLayersAssumption, Arduino!TypeOK, Conns, Arduino!Handles
  <2>5. Arduino!TypeOK'
    BY <2>1, <2>2, <2>3, <2>4 DEF Arduino!TypeOK, Arduino!Handles, Conns
  <2>6. ArduinoMoves
    BY <2>1, <2>3 DEF Arduino!Phase, Arduino!Connected
  <2> QED
    BY <2>2, <2>5, <2>6
<1>3. CASE Arduino!PutRestInOrder
  <2>1. PICK h \in Conns : h = (turn.handle + 1) % MaxSockNum
    BY InTurnIsSocket
  <2>2. /\ turn.i < MaxSockNum /\ pc = "select" /\ accepted # Arduino!BadHandle
        /\ turn' = [i |-> turn.i + 1, handle |-> h]
        /\ \/ UNCHANGED <<status, faults>>
           \/ Arduino!PutInOrder(h)
        /\ UNCHANGED <<next, accepted, pc, rx, wire>>
    BY <1>3, <2>1 DEF Arduino!PutRestInOrder
  <2>3. /\ status' \in [Conns -> Arduino!Status] /\ faults' \in Nat
        /\ \A g \in Conns \ {h} : status'[g] = status[g]
        /\ Arduino!Phase(h) = "none" => Arduino!Phase(h)' \in {"none", "idle"}
    <3>1. CASE Arduino!PutInOrder(h)
      BY <2>1, <3>1, SocketPutInOrder
    <3>2. CASE UNCHANGED <<status, faults>>
      BY <3>2 DEF Arduino!TypeOK, Arduino!Handles, Conns, Arduino!Phase, Arduino!Connected
    <3> QED
      BY <2>2, <3>1, <3>2
  <2>4. turn' \in [i : 0..MaxSockNum, handle : Conns]
    BY <2>1, <2>2, SessionLayersAssumption
    DEF SessionLayersAssumption, Arduino!TypeOK, Conns, Arduino!Handles
  <2>5. Arduino!TypeOK'
    BY <2>1, <2>2, <2>3, <2>4 DEF Arduino!TypeOK, Arduino!Handles, Conns
  <2>6. ArduinoMoves
    BY <2>1, <2>3 DEF Arduino!Phase, Arduino!Connected
  <2> QED
    BY <2>2, <2>5, <2>6
<1>4. CASE Arduino!EndAccept
  BY <1>4 DEF Arduino!EndAccept, Arduino!chip, Arduino!TypeOK, Arduino!Phase, Arduino!Connected
<1> QED
  BY <1>1, <1>2, <1>3, <1>4

LEMMA ArduinoServes ==
  ASSUME ArduinoInv, Arduino!Serve
  PROVE  ArduinoInv' /\ ArduinoMoves
<1>1. PICK h \in Conns : h = accepted
  BY DEF ArduinoInv, Arduino!Serve, Arduino!TypeOK, Arduino!BadHandle, Arduino!Handles, Conns
<1>2. /\ rx \in [Conns -> Arduino!Unsent \cup {<<"head">>}] /\ wire \in [Conns -> Arduino!Unsent]
      /\ status \in [Conns -> Arduino!Status] /\ <<rx[h], wire[h]>> \in Halves
  BY DEF ArduinoInv, Arduino!TypeOK, Arduino!Handles, Conns
<1>3. \/ \E n \in Arduino!Message(rx[h])..Len(rx[h]) :
              /\ rx[h] # <<"head">> /\ rx' = [rx EXCEPT ![h] = SubSeq(rx[h], n + 1, Len(rx[h]))]
              /\ UNCHANGED <<status, wire>>
      \/ /\ rx' = [rx EXCEPT ![h] = <<>>] /\ wire' = [wire EXCEPT ![h] = <<>>]
         /\ status' = IF Arduino!Connected(h) THEN [status EXCEPT ![h] = "ending"] ELSE status
  BY <1>1 DEF Arduino!Serve, Arduino!Keep, Arduino!Close
<1>4. /\ rx' \in [Conns -> Arduino!Unsent \cup {<<"head">>}] /\ wire' \in [Conns -> Arduino!Unsent]
      /\ \A g \in Conns : <<rx'[g], wire'[g]>> \in Halves
  <2>1. ASSUME NEW n \in Arduino!Message(rx[h])..Len(rx[h]), rx[h] # <<"head">>,
               rx' = [rx EXCEPT ![h] = SubSeq(rx[h], n + 1, Len(rx[h]))],
               UNCHANGED <<status, wire>>
        PROVE  /\ rx' \in [Conns -> Arduino!Unsent \cup {<<"head">>}] /\ wire' \in [Conns -> Arduino!Unsent]
               /\ \A g \in Conns : <<rx'[g], wire'[g]>> \in Halves
    <3>1. <<SubSeq(rx[h], n + 1, Len(rx[h])), wire[h]>> \in Halves
      BY <1>2, <2>1, HalvesAreClosed
    <3>2. SubSeq(rx[h], n + 1, Len(rx[h])) \in Arduino!Unsent \cup {<<"head">>}
      BY <3>1, HalvesAreClosed
    <3> QED
      BY <1>2, <2>1, <3>1, <3>2 DEF ArduinoInv
  <2>2. CASE rx' = [rx EXCEPT ![h] = <<>>] /\ wire' = [wire EXCEPT ![h] = <<>>]
    <3>1. <<<<>>, <<>>>> \in Halves
      BY <1>2, HalvesAreClosed
    <3>2. <<>> \in Arduino!Unsent
      BY DEF Arduino!Unsent
    <3> QED
      BY <1>2, <2>2, <3>1, <3>2 DEF ArduinoInv
  <2> QED
    BY <1>3, <2>1, <2>2
<1>5. /\ status' \in [Conns -> Arduino!Status]
      /\ \A g \in Conns \ {h} : status'[g] = status[g]
      /\ status'[h] \in {status[h], "ending"} /\ (status'[h] # status[h] => Arduino!Connected(h))
  BY <1>2, <1>3 DEF Arduino!Status
<1>6. pc' = "run" /\ UNCHANGED <<next, accepted, turn, faults>>
  BY DEF Arduino!Serve
<1>7. ArduinoInv'
  BY <1>4, <1>5, <1>6 DEF ArduinoInv, Arduino!TypeOK, Arduino!Handles, Conns
<1>8. ArduinoMoves
  BY <1>5 DEF ArduinoMoves, Arduino!Phase, Arduino!Connected
<1> QED
  BY <1>7, <1>8

LEMMA ArduinoCalls ==
  ASSUME ArduinoInv, Arduino!Listen \/ Arduino!Stop \/ Arduino!StopSocket
  PROVE  ArduinoInv' /\ ArduinoMoves
<1> USE SessionLayersAssumption
    DEF SessionLayersAssumption, ArduinoInv, ArduinoMoves, Arduino!TypeOK, Arduino!Handles, Conns,
        Arduino!Phase, Arduino!Connected, Arduino!Status
<1>1. CASE Arduino!Listen
  BY <1>1 DEF Arduino!Listen, Arduino!server
<1>2. CASE Arduino!Stop
  <2>1. turn' \in [i : 0..MaxSockNum, handle : Arduino!Handles] /\ turn'.i = 0 /\ 0 \in Conns
    BY <1>2 DEF Arduino!Stop
  <2>2. pc' = "stop" /\ UNCHANGED <<status, rx, wire, next, accepted, faults>>
    BY <1>2 DEF Arduino!Stop, Arduino!chip
  <2>3. ArduinoMoves
    BY <2>1, <2>2
  <2> QED
    BY <2>1, <2>2, <2>3
<1>3. CASE Arduino!StopSocket
  <2>1. PICK h \in Conns : h = turn.i
    BY <1>3 DEF Arduino!StopSocket
  <2>2. /\ status' = [status EXCEPT ![h] = "closed"]
        /\ rx' = [rx EXCEPT ![h] = <<>>] /\ wire' = [wire EXCEPT ![h] = <<>>]
        /\ \/ h + 1 < MaxSockNum /\ turn' = [turn EXCEPT !.i = h + 1] /\ pc' = pc
           \/ pc' = "run" /\ turn' = turn
        /\ UNCHANGED <<next, accepted, faults>>
    BY <1>3, <2>1 DEF Arduino!StopSocket
  <2>3. <<<<>>, <<>>>> \in Halves /\ <<>> \in Arduino!Unsent
    BY DEF Halves, Arduino!Unsent
  <2>4. turn' \in [i : 0..MaxSockNum, handle : Arduino!Handles] /\ (pc' = "stop" => turn'.i < MaxSockNum)
    BY <2>2
  <2>5. pc' \in {"run", "stop"}
    BY <1>3, <2>2 DEF Arduino!StopSocket
  <2>6. /\ status' \in [Conns -> Arduino!Status] /\ wire' \in [Conns -> Arduino!Unsent]
        /\ rx' \in [Conns -> Arduino!Unsent \cup {<<"head">>}]
        /\ \A g \in Conns : <<rx'[g], wire'[g]>> \in Halves
    BY <2>2, <2>3
  <2>7. ArduinoMoves
    <3>1. status'[h] = "closed" /\ \A g \in Conns \ {h} : status'[g] = status[g]
      BY <2>2
    <3>2. Arduino!Phase(h)' = "none" /\ \A g \in Conns \ {h} : Arduino!Phase(g)' = Arduino!Phase(g)
      BY <3>1
    <3> QED
      BY <3>2
  <2> QED
    BY <2>2, <2>4, <2>5, <2>6, <2>7
<1> QED
  BY <1>1, <1>2, <1>3

LEMMA ChipStep ==
  ASSUME ArduinoInv, NEW h \in Conns,
         \/ Arduino!Connect(h) \/ Arduino!Request(h) \/ Arduino!Arrive(h)
         \/ Arduino!PeerCloses(h) \/ Arduino!Reset(h) \/ Arduino!Ended(h)
  PROVE  ArduinoInv' /\ ArduinoMoves
<1> USE DEF ArduinoInv, ArduinoMoves, Arduino!TypeOK, Arduino!Handles, Conns,
            Arduino!Phase, Arduino!Connected, Arduino!Status, Arduino!server
<1>1. <<rx[h], wire[h]>> \in Halves /\ <<<<>>, <<>>>> \in Halves /\ <<>> \in Arduino!Unsent
  BY DEF Halves, Arduino!Unsent
<1>2. CASE Arduino!Connect(h)
  BY <1>2 DEF Arduino!Connect
<1>3. CASE Arduino!Request(h)
  <2>1. Arduino!Requests \subseteq Arduino!Unsent
    BY DEF Arduino!Requests, Arduino!Unsent
  <2>2. \A q \in Arduino!Unsent : <<<<>>, q>> \in Halves
    BY DEF Halves
  <2> QED
    BY <1>3, <2>1, <2>2 DEF Arduino!Request
<1>4. CASE Arduino!Arrive(h)
  <2>1. <<Append(rx[h], Head(wire[h])), Tail(wire[h])>> \in Halves
    BY <1>1, <1>4, HalvesAreClosed DEF Arduino!Arrive
  <2>2. Append(rx[h], Head(wire[h])) \in Arduino!Unsent \cup {<<"head">>} /\ Tail(wire[h]) \in Arduino!Unsent
    BY <2>1, HalvesAreClosed
  <2> QED
    BY <1>4, <2>1, <2>2 DEF Arduino!Arrive
<1>5. CASE Arduino!PeerCloses(h)
  <2>1. <<rx[h], <<>>>> \in Halves
    BY <1>1, HalvesAreClosed
  <2> QED
    BY <1>1, <1>5, <2>1 DEF Arduino!PeerCloses
<1>6. CASE Arduino!Reset(h) \/ Arduino!Ended(h)
  <2>1. /\ status' = [status EXCEPT ![h] = "closed"]
        /\ rx' = [rx EXCEPT ![h] = <<>>] /\ wire' = [wire EXCEPT ![h] = <<>>]
        /\ UNCHANGED <<next, accepted, pc, turn, faults>>
    BY <1>6 DEF Arduino!Reset, Arduino!Ended, Arduino!Closed
  <2>2. /\ status' \in [Conns -> Arduino!Status] /\ wire' \in [Conns -> Arduino!Unsent]
        /\ rx' \in [Conns -> Arduino!Unsent \cup {<<"head">>}]
        /\ \A g \in Conns : <<rx'[g], wire'[g]>> \in Halves
    BY <1>1, <2>1
  <2>3. ArduinoMoves
    BY <2>1
  <2> QED
    BY <2>1, <2>2, <2>3
<1> QED
  BY <1>2, <1>3, <1>4, <1>5, <1>6

-----------------------------------------------------------------------------
(* All layers.  The invariants of the layers that are not built in hold of their initial *)
(* values; what they share with the layer that is built in belongs to that one.          *)

\* Every variable of the layers holds a value of its type.
TypeOK == Lwip!TypeOK /\ Esp!TypeOK /\ Arduino!TypeOK

IInv == /\ port \in {"lwip", "esp", "arduino"}
        /\ TypeOK /\ CallbacksAreLive /\ SlotsAreNeeded
        /\ port = "lwip" => LwipInv
        /\ port = "esp" => EspInv
        /\ port = "arduino" => ArduinoInv

LEMMA InitHolds == Init => IInv
<1> SUFFICES ASSUME Init PROVE IInv
  OBVIOUS
<1>1. 0 \in Conns /\ MaxSockNum \in Nat \ {0} /\ CountRange \in Nat \ {0} /\ Remotes # {}
  BY SessionLayersAssumption DEF SessionLayersAssumption, Conns
<1>2. <<>> \in Lwip!Unsent /\ <<>> \in Esp!Unsent /\ <<>> \in Arduino!Unsent /\ <<<<>>, <<>>>> \in Halves
  BY DEF Lwip!Unsent, Esp!Unsent, Arduino!Unsent, Halves
<1>3. LwipInv
  BY <1>2 DEF Init, Lwip!Init, LwipInv, Lwip!TypeOK, CallbacksAreLive, Lwip!CallbacksAreLive,
              Lwip!LossesAreFaults, Lwip!Pcb, Lwip!Hooks, Lwip!Session, Lwip!Sentcb
<1>4. EspInv
  BY <1>1, <1>2 DEF Init, Esp!Init, EspInv, Esp!TypeOK, SlotsAreNeeded, Esp!SlotsAreNeeded,
                    Esp!Link, Esp!Sentcb, Esp!Map
<1>5. ArduinoInv
  BY <1>1, <1>2 DEF Init, Arduino!Init, ArduinoInv, Arduino!TypeOK, Arduino!Handles, Conns,
                    Arduino!Status, Arduino!BadHandle
<1> QED
  BY <1>3, <1>4, <1>5 DEF IInv, TypeOK, LwipInv, EspInv, ArduinoInv, Init

LEMMA FaultsGrow ==
  ASSUME faults \in Nat, Arduino!Next
  PROVE  faults' \in Nat /\ faults' >= faults
BY DEF Arduino!Next, Arduino!Server, Arduino!Run, Arduino!Select, Arduino!PutRestInOrder,
   Arduino!EndAccept, Arduino!Serve, Arduino!StopSocket, Arduino!Listen, Arduino!Stop,
   Arduino!Outside, Arduino!Connect, Arduino!Request, Arduino!Arrive, Arduino!PeerCloses,
   Arduino!Reset, Arduino!Ended, Arduino!Closed, Arduino!PutInOrder, Arduino!ListenOn,
   Arduino!Disconnected

LEMMA ArduinoStep ==
  ASSUME ArduinoInv, Arduino!Next
  PROVE  ArduinoInv' /\ ArduinoMoves
<1>1. Conns # {} /\ Conns = Arduino!Handles
  BY SessionLayersAssumption DEF SessionLayersAssumption, Conns, Arduino!Handles
<1> QED
  BY <1>1, ArduinoServerStep, ArduinoServes, ArduinoCalls, ChipStep
  DEF Arduino!Next, Arduino!Server, Arduino!Outside

\* What a layer's own step leaves of the others' types.
LEMMA TypesStay ==
  ASSUME TypeOK
  PROVE  /\ UNCHANGED <<esp, arduino>> /\ Lwip!TypeOK' => TypeOK'
         /\ UNCHANGED <<lwip, arduino, faults>> /\ Esp!TypeOK' => TypeOK'
         /\ UNCHANGED <<lwip, esp, sentcb, unacked>> /\ Arduino!TypeOK' => TypeOK'
<1>1. Lwip!Unsent = Esp!Unsent /\ Lwip!Unsent = Arduino!Unsent /\ Lwip!Sentcb = Esp!Sentcb
      /\ Conns = Arduino!Handles
  BY DEF Lwip!Unsent, Esp!Unsent, Arduino!Unsent, Lwip!Sentcb, Esp!Sentcb, Conns, Arduino!Handles
<1> QED
  BY <1>1 DEF TypeOK, Lwip!TypeOK, Esp!TypeOK, Arduino!TypeOK, lwip, esp, arduino

LEMMA NextKeeps == IInv /\ [Next]_vars => IInv'
<1> SUFFICES ASSUME IInv, [Next]_vars PROVE IInv'
  OBVIOUS
<1>1. port' = port
  BY LayersAreApart
<1>2. CASE port = "lwip" /\ Lwip!Next /\ UNCHANGED <<esp, arduino>>
  <2>1. LwipInv'
    BY <1>2, LwipStep DEF IInv, Lwip!Next, LwipMoves
  <2>2. SlotsAreNeeded'
    BY <1>2 DEF IInv, esp, SlotsAreNeeded, Esp!SlotsAreNeeded, Esp!Key
  <2> QED
    BY <1>1, <1>2, <2>1, <2>2, TypesStay DEF IInv, LwipInv
<1>3. CASE port = "esp" /\ Esp!Next /\ UNCHANGED <<lwip, arduino, faults>>
  <2>1. EspInv'
    BY <1>3, EspKeeps DEF IInv, Esp!Next
  <2>2. CallbacksAreLive'
    BY <1>3 DEF IInv, lwip, CallbacksAreLive, Lwip!CallbacksAreLive, Lwip!LossesAreFaults
  <2> QED
    BY <1>1, <1>3, <2>1, <2>2, TypesStay DEF IInv, EspInv
<1>4. CASE port = "arduino" /\ Arduino!Next /\ UNCHANGED <<lwip, esp, sentcb, unacked>>
  <2>1. ArduinoInv' /\ faults' \in Nat /\ faults' >= faults /\ leaked \in Nat /\ faults \in Nat
    BY <1>4, ArduinoStep, FaultsGrow DEF IInv, TypeOK, Lwip!TypeOK
  <2>2. SlotsAreNeeded'
    BY <1>4 DEF IInv, esp, SlotsAreNeeded, Esp!SlotsAreNeeded, Esp!Key
  <2>3. CallbacksAreLive'
    BY <1>4, <2>1 DEF IInv, lwip, CallbacksAreLive, Lwip!CallbacksAreLive, Lwip!LossesAreFaults
  <2> QED
    BY <1>1, <1>4, <2>1, <2>2, <2>3, TypesStay DEF IInv, ArduinoInv
<1>5. CASE UNCHANGED vars
  <2>1. UNCHANGED <<port, wire, sentcb, unacked, faults, lwip, esp, arduino>>
    BY <1>5 DEF vars
  <2>2. LwipInv => LwipInv'
    BY <2>1 DEF lwip, LwipInv, Lwip!TypeOK, CallbacksAreLive, Lwip!CallbacksAreLive, Lwip!LossesAreFaults
  <2>3. EspInv => EspInv'
    BY <2>1 DEF esp, EspInv, Esp!TypeOK, SlotsAreNeeded, Esp!SlotsAreNeeded, Esp!Key
  <2>4. ArduinoInv => ArduinoInv'
    BY <2>1 DEF arduino, ArduinoInv, Arduino!TypeOK
  <2>5. TypeOK'
    BY <2>1, TypesStay DEF IInv, TypeOK, Lwip!TypeOK, lwip
  <2>6. CallbacksAreLive' /\ SlotsAreNeeded'
    BY <2>1 DEF lwip, esp, IInv, CallbacksAreLive, Lwip!CallbacksAreLive, Lwip!LossesAreFaults,
                SlotsAreNeeded, Esp!SlotsAreNeeded, Esp!Key
  <2> QED
    BY <2>1, <2>2, <2>3, <2>4, <2>5, <2>6 DEF IInv
<1> QED
  BY <1>2, <1>3, <1>4, <1>5, LayersAreApart

\* The invariant holds whichever layer is built in.
LEMMA Invariant == Spec => []IInv
<1>1. Init => IInv
  BY InitHolds
<1>2. IInv /\ [Next]_vars => IInv'
  BY NextKeeps
<1> QED
  BY <1>1, <1>2, PTL DEF Spec

-----------------------------------------------------------------------------
\* Every variable of the three layers keeps its type.
THEOREM LayersTypeCorrect == Spec => []TypeOK
<1>1. IInv => TypeOK
  BY DEF IInv
<1> QED
  BY <1>1, Invariant, PTL

\* network_lwip.cpp: no callback is called with a deleted session, and sessions are lost
\* in failing closes only.
THEOREM CallbacksStayLive == Spec => []CallbacksAreLive
<1>1. IInv => CallbacksAreLive
  BY DEF IInv
<1> QED
  BY <1>1, Invariant, PTL

\* network_esp8266.cpp: the map of suspended messages holds each once, and only messages
\* of connections that are there or that an error gave up; for any number of slots.
THEOREM SlotsStayNeeded == Spec => []SlotsAreNeeded
<1>1. IInv => SlotsAreNeeded
  BY DEF IInv
<1> QED
  BY <1>1, Invariant, PTL

-----------------------------------------------------------------------------
(* The refinement.  conn is a function over Conns: a step of one connection updates it   *)
(* at one place, and a connection that was not there gets nothing but "idle".            *)

Conn == [c \in Conns |-> Phase(c)]

Phases == {"none", "idle", "part", "ending"}

LEMMA PhaseIsTyped ==
  ASSUME IInv', NEW c \in Conns
  PROVE  Phase(c)' \in Phases
BY DEF IInv, TypeOK, Phase, Phases, Lwip!Phase, Esp!Phase, Arduino!Phase, Lwip!TypeOK, Lwip!Session,
       Lwip!Pcb

\* One connection moves.
Moves == \E c \in Conns : /\ \A d \in Conns \ {c} : Phase(d)' = Phase(d)
                          /\ Phase(c) = "none" => Phase(c)' \in {"none", "idle"}

LEMMA MovesAreAbstract ==
  ASSUME IInv, IInv', Moves
  PROVE  [Abstract!Next]_Conn
<1>1. PICK c \in Conns : /\ \A d \in Conns \ {c} : Phase(d)' = Phase(d)
                         /\ Phase(c) = "none" => Phase(c)' \in {"none", "idle"}
  BY DEF Moves
<1>2. PICK p \in Phases : p = Phase(c)' 
  BY <1>1, PhaseIsTyped
<1>3. Conn' = [Conn EXCEPT ![c] = p] /\ Conn[c] = Phase(c)
  BY <1>1, <1>2 DEF Conn
<1>4. CASE p = Phase(c)
  BY <1>3, <1>4 DEF Conn
<1>5. CASE p # Phase(c)
  BY <1>1, <1>2, <1>3, <1>5 DEF Phases, Conn, Abstract!Next, Abstract!Connect, Abstract!Suspend, Abstract!Answer,
     Abstract!End, Abstract!Become
<1> QED
  BY <1>4, <1>5

\* Each layer's steps move one connection.
LEMMA EachStepMoves ==
  ASSUME IInv, IInv', [Next]_vars, ToldApart
  PROVE  Moves \/ Conn' = Conn
<1>1. CASE port = "lwip" /\ Lwip!Next /\ UNCHANGED <<esp, arduino>>
  <2>1. PICK c \in Conns : LwipMoves(c)
    BY <1>1, LwipStep DEF IInv, Lwip!Next
  <2>2. Phase(c) = "none" => pcb[c] = "free"
    BY <1>1 DEF Phase, Lwip!Phase, IInv, TypeOK, Lwip!TypeOK, Lwip!Session
  <2>3. port' = "lwip"
    BY <1>1, LayersAreApart
  <2> QED
    BY <1>1, <2>1, <2>2, <2>3 DEF Moves, LwipMoves, Phase
<1>2. CASE port = "esp" /\ Esp!Next /\ UNCHANGED <<lwip, arduino, faults>>
  <2>1. PICK c \in Conns : /\ \A d \in Conns \ {c} : Esp!Phase(d)' = Esp!Phase(d)
                           /\ link[c] = "none" => Esp!Phase(c)' = "idle"
    BY <1>2, EspStep DEF IInv, Esp!Next
  <2>2. Phase(c) = "none" => link[c] = "none"
    BY <1>2 DEF Phase, Esp!Phase
  <2>3. port' = "esp"
    BY <1>2, LayersAreApart
  <2> QED
    BY <1>2, <2>1, <2>2, <2>3 DEF Moves, Phase
<1>3. CASE port = "arduino" /\ Arduino!Next /\ UNCHANGED <<lwip, esp, sentcb, unacked>>
  <2>1. ArduinoMoves
    BY <1>3, ArduinoStep DEF IInv
  <2>2. port' = "arduino"
    BY <1>3, LayersAreApart
  <2> QED
    BY <1>3, <2>1, <2>2 DEF Moves, ArduinoMoves, Phase
<1>4. CASE UNCHANGED vars
  BY <1>4 DEF vars, lwip, esp, arduino, Conn, Phase, Lwip!Phase, Esp!Phase, Esp!Saved, Esp!Key,
              Arduino!Phase, Arduino!Connected
<1> QED
  BY <1>1, <1>2, <1>3, <1>4, LayersAreApart

\* Whichever layer is built in, each connection has a state of its own (Connections): a
\* message is suspended, resumed and answered by its own connection only.  On the ESP8266
\* that is so for clients whose endpoints its map tells apart.
THEOREM LayersImplement ==
  ASSUME ToldApart
  PROVE  Spec => Implements
<1>1. Init => Abstract!Init
  <2> SUFFICES ASSUME Init PROVE Abstract!Init
    OBVIOUS
  <2>1. ASSUME NEW c \in Conns PROVE Phase(c) = "none"
    <3>1. Lwip!Phase(c) = "none"
      BY DEF Init, Lwip!Init, Lwip!Phase
    <3>2. Esp!Phase(c) = "none"
      BY DEF Init, Esp!Init, Esp!Phase
    <3>3. Arduino!Phase(c) = "none"
      <4>1. status[c] = "closed"
        BY DEF Init, Arduino!Init, Conns, Arduino!Handles
      <4> QED
        BY <4>1 DEF Arduino!Phase, Arduino!Connected
    <3> QED
      BY <3>1, <3>2, <3>3 DEF Init, Phase
  <2> QED
    BY <2>1 DEF Abstract!Init
<1>2. IInv /\ IInv' /\ [Next]_vars => [Abstract!Next]_Conn
  BY MovesAreAbstract, EachStepMoves
<1>3. IInv /\ IInv' /\ [Next]_vars => [Abstract!Next]_[c \in Conns |-> Phase(c)]
  BY <1>2 DEF Conn
<1> QED
  BY <1>1, <1>3, Invariant, PTL DEF Spec, Implements, Abstract!Spec
=============================================================================
