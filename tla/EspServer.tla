----------------------------- MODULE EspServer -----------------------------
(***************************************************************************)
(* The session layer for the ESP8266 (network_esp8266.cpp).  The SDK calls *)
(* back with the connection that has something to say; the server keeps no *)
(* object per connection, only a map of suspended messages by endpoint.    *)
(*                                                                         *)
(* Taken from the SDK: callbacks never overlap, the server's espconn is    *)
(* the connection a callback is about, each connection has its own sent    *)
(* callback, and the inactivity timer ends a connection as a peer does.    *)
(***************************************************************************)
EXTENDS Integers, FiniteSets, Packets

CONSTANTS Conns,           \* connections of the SDK
          MaxConn,         \* maxconn, the size of the map
          Remotes,         \* endpoints of clients: a port and four bytes of address
          PortsComeAgain,  \* a client uses a port again that it lost a connection from
          MaxLost          \* bound on connections lost after they were closed

VARIABLES link,      \* what the SDK knows of the connection
          remote,    \* the endpoint of its client
          sentcb,    \* its sent callback
          unacked,   \* connections with a reply that has not been acknowledged
          wire,      \* what the client still has to send of its request
          httpstate, \* the map of suspended messages
          lost       \* endpoints of connections that on::error has given up

vars == <<link, remote, sentcb, unacked, wire, httpstate, lost>>

\* A connection is leaving after espconn_disconnect.
Link   == {"none", "up", "leaving"}
Sentcb == {"sent", "sending"}
Slots  == 1..MaxConn

\* ipaddr: the bytes are shifted to the right.
ipaddr(adr) == adr[1] + adr[2] \div 256 + adr[3] \div 65536 + adr[4] \div 16777216

\* The key a message is saved under.
endpoint(r) == [port |-> r.port, ip |-> ipaddr(r.adr)]

\* The key of a slot that was never used.
NoKey == [port |-> 0, ip |-> 0]

Key(c) == endpoint(remote[c])

Init ==
  /\ link = [c \in Conns |-> "none"]
  /\ remote = [c \in Conns |-> CHOOSE r \in Remotes : TRUE]
  /\ sentcb = [c \in Conns |-> "sent"]
  /\ unacked = {}
  /\ wire = [c \in Conns |-> <<>>]
  /\ httpstate = [s \in Slots |-> [key |-> NoKey, saved |-> FALSE]]
  /\ lost = {}

-----------------------------------------------------------------------------
First(slots) == CHOOSE s \in slots : \A t \in slots : s <= t

Saved(key) == {s \in Slots : httpstate[s].saved /\ httpstate[s].key = key}
Empty      == {s \in Slots : ~httpstate[s].saved}

Find_AnySaved(key) == IF Saved(key) # {} THEN First(Saved(key))
                      ELSE IF Empty # {} THEN First(Empty) ELSE First(Slots)

\* map::find: the slot with a message of the key, else the first empty one, else none.
Find(key) == IF Saved(key) # {} THEN First(Saved(key))
             ELSE IF Empty # {} THEN First(Empty) ELSE 0

\* An empty slot takes the key it is found for.
Stored(s, key, saved) ==
  httpstate' = IF s = 0 THEN httpstate
               ELSE [httpstate EXCEPT ![s] = [key |-> key, saved |-> saved]]

-----------------------------------------------------------------------------
\* on::connect.  Two connections never have the same remote endpoint.
Connect(c) ==
  /\ link[c] = "none"
  /\ link' = [link EXCEPT ![c] = "up"]
  /\ \E r \in Remotes :
       /\ \A d \in Conns : link[d] # "none" => remote[d] # r
       /\ r \notin lost \/ PortsComeAgain
       /\ remote' = [remote EXCEPT ![c] = r]
  /\ sentcb' = [sentcb EXCEPT ![c] = "sent"]
  /\ \E request \in Requests : wire' = [wire EXCEPT ![c] = request]
  /\ UNCHANGED <<unacked, httpstate, lost>>

\* keep() or nokeep()
Keepalive(c, result) ==
  sentcb' = [sentcb EXCEPT ![c] = IF result \in {"keep", "fragment"} THEN "sending" ELSE "sent"]

\* on::received and server::receive: the slot is looked up for every packet, and is
\* cleared after every reply.
Received(c) ==
  /\ link[c] = "up" /\ wire[c] # <<>>
  /\ LET packet == Head(wire[c])
         s      == Find(Key(c))
         saved  == s # 0 /\ httpstate[s].saved
     IN  \E result \in Results(packet, saved, s # 0) :
           /\ Keepalive(c, result)
           /\ Stored(s, Key(c), result = "fragment")
           /\ unacked' = IF result # "fragment" /\ HasReply(packet, saved)
                         THEN unacked \cup {c} ELSE unacked
  /\ wire' = [wire EXCEPT ![c] = Tail(@)]
  /\ UNCHANGED <<link, remote, lost>>

\* espconn_disconnect, from on::sent or on::error.
Close(c) ==
  /\ link' = [link EXCEPT ![c] = "leaving"]
  /\ unacked' = unacked \ {c}
  /\ wire' = [wire EXCEPT ![c] = <<>>]
  /\ UNCHANGED <<remote, sentcb, httpstate, lost>>

\* on::sent
Sent(c) == link[c] = "up" /\ c \in unacked /\ sentcb[c] = "sent" /\ Close(c)

\* on::sending
Sending(c) ==
  /\ link[c] = "up" /\ c \in unacked /\ sentcb[c] = "sending"
  /\ unacked' = unacked \ {c}
  /\ UNCHANGED <<link, remote, sentcb, wire, httpstate, lost>>

Ended(c) ==
  /\ link' = [link EXCEPT ![c] = "none"]
  /\ unacked' = unacked \ {c}
  /\ wire' = [wire EXCEPT ![c] = <<>>]
  /\ UNCHANGED <<remote, sentcb>>

Disconnect_KeepsSlot(c) ==
  /\ link[c] # "none" /\ Ended(c)
  /\ UNCHANGED <<httpstate, lost>>

\* on::disconnect: the server, the client or the inactivity timer ended the connection.
Disconnect(c) ==
  /\ link[c] # "none" /\ Ended(c)
  /\ Stored(Find(Key(c)), Key(c), FALSE)
  /\ UNCHANGED lost

\* on::error on a connection that is not closed yet.
Error(c) == link[c] = "up" /\ Close(c)

\* on::error on a connection in state ESPCONN_CLOSE: nothing is cleared.
ErrorClosed(c) ==
  /\ link[c] # "none" /\ Ended(c)
  /\ Cardinality(lost) < MaxLost
  /\ lost' = lost \cup {remote[c]}
  /\ UNCHANGED httpstate

\* The client sends another request.
Request(c) ==
  /\ link[c] = "up" /\ wire[c] = <<>>
  /\ \E request \in Requests : wire' = [wire EXCEPT ![c] = request]
  /\ UNCHANGED <<link, remote, sentcb, unacked, httpstate, lost>>

Next ==
  \E c \in Conns :
     \/ Connect(c) \/ Received(c) \/ Sent(c) \/ Sending(c)
     \/ Disconnect(c) \/ Error(c) \/ ErrorClosed(c) \/ Request(c)

Spec == Init /\ [][Next]_vars

-----------------------------------------------------------------------------
Map == [Slots -> [key : {endpoint(r) : r \in Remotes} \cup {NoKey}, saved : BOOLEAN]]

\* Every variable holds a value of its type.
TypeOK ==
  /\ link \in [Conns -> Link]
  /\ remote \in [Conns -> Remotes]
  /\ sentcb \in [Conns -> Sentcb]
  /\ unacked \subseteq Conns
  /\ wire \in [Conns -> Unsent]
  /\ httpstate \in Map
  /\ lost \subseteq Remotes

\* Every suspended message belongs to a connection that is still there, or to one that
\* on::error gave up, and no endpoint has two: the map is never full of messages that
\* nobody will resume while connections end in the ordinary ways.
SlotsAreNeeded ==
  \A s \in Slots : httpstate[s].saved =>
     /\ \/ \E c \in Conns : link[c] # "none" /\ Key(c) = httpstate[s].key
        \/ \E r \in lost : endpoint(r) = httpstate[s].key
     /\ \A t \in Slots : httpstate[t].saved /\ httpstate[t].key = httpstate[s].key => t = s

\* The phase of a connection, for Connections: it is in the middle of a message exactly
\* if its next packet would resume one.
Phase(c) ==
  CASE link[c] = "none" -> "none"
    [] link[c] # "none" /\ Saved(Key(c)) # {} -> "part"
    [] OTHER -> IF link[c] = "leaving" \/ (sentcb[c] = "sent" /\ c \in unacked)
                THEN "ending" ELSE "idle"

\* "HTTP state for 5 connections at most" (network_esp8266.cpp:124): a suspended message
\* is the state of one connection.
StateOfOneConnection ==
  \A c, d \in Conns : Phase(c) = "part" /\ Phase(d) = "part" /\ Key(c) = Key(d) => c = d
=============================================================================
