---------------------------- MODULE LwipSession ----------------------------
(***************************************************************************)
(* The session layer for lwIP (network_lwip.cpp).  lwIP calls back from    *)
(* one thread with the argument that was attached to the control block: a  *)
(* session object, or null after the session has been detached.            *)
(*                                                                         *)
(* The state suspended messages are saved in (pdo) is a member of the      *)
(* session.  It is cleared after a kept reply only.                        *)
(***************************************************************************)
EXTENDS Integers, Packets

CONSTANTS Conns,     \* control blocks of connections
          MaxFaults  \* bound on the failures of tcp_close, tcp_write and the heap

VARIABLES pcb,      \* state of each control block in lwIP
          hooks,    \* which callbacks are attached to it, and with which argument
          session,  \* the session object of the block, and its pdo
          sentcb,   \* the tcp_sent callback of the session
          unacked,  \* blocks with written data that has not been acknowledged
          wire,     \* what the client still has to send of its request
          leaked,   \* sessions that were detached and never deleted
          faults    \* failures so far

vars == <<pcb, hooks, session, sentcb, unacked, wire, leaked, faults>>

\* The block is closed when tcp_close has accepted it and lwIP ends the connection.
Pcb     == {"free", "active", "closed"}
Hooks   == {"none", "session", "poll"}
Session == {"none", "empty", "saved"}
Sentcb  == {"sent", "sending"}

Init ==
  /\ pcb = [c \in Conns |-> "free"]
  /\ hooks = [c \in Conns |-> "none"]
  /\ session = [c \in Conns |-> "none"]
  /\ sentcb = [c \in Conns |-> "sent"]
  /\ unacked = {}
  /\ wire = [c \in Conns |-> <<>>]
  /\ leaked = 0 /\ faults = 0

Fault == faults < MaxFaults /\ faults' = faults + 1

-----------------------------------------------------------------------------
\* on::accept constructs a session, which attaches itself.
Accept(c) ==
  /\ pcb[c] = "free"
  /\ pcb' = [pcb EXCEPT ![c] = "active"]
  /\ hooks' = [hooks EXCEPT ![c] = "session"]
  /\ session' = [session EXCEPT ![c] = "empty"]
  /\ sentcb' = [sentcb EXCEPT ![c] = "sent"]
  /\ \E request \in Requests : wire' = [wire EXCEPT ![c] = request]
  /\ UNCHANGED <<unacked, leaked, faults>>

\* No memory for the session: the block is closed, and given back to lwIP, which
\* aborts it, by the error that is returned.
AcceptFails(c) ==
  /\ pcb[c] = "free" /\ Fault
  /\ UNCHANGED <<pcb, hooks, session, sentcb, unacked, wire, leaked>>

Gone(c) == unacked' = unacked \ {c} /\ wire' = [wire EXCEPT ![c] = <<>>]

\* tcp_close took the block: the session is deleted.
CloseOk(c) ==
  /\ pcb' = [pcb EXCEPT ![c] = "closed"]
  /\ hooks' = [hooks EXCEPT ![c] = "none"]
  /\ session' = [session EXCEPT ![c] = "none"]
  /\ Gone(c)
  /\ UNCHANGED <<sentcb, leaked, faults>>

\* tcp_close failed: the session has been detached; poll will try again without it.
CloseFails(c) ==
  /\ Fault
  /\ hooks' = [hooks EXCEPT ![c] = "poll"]
  /\ session' = [session EXCEPT ![c] = "none"]
  /\ leaked' = leaked + 1
  /\ UNCHANGED <<pcb, sentcb, unacked, wire>>

CloseFails_StaysAttached(c) ==
  /\ Fault
  /\ session' = [session EXCEPT ![c] = "none"]
  /\ leaked' = leaked + 1
  /\ UNCHANGED <<pcb, hooks, sentcb, unacked, wire>>

Close_StaysAttached(c) == CloseOk(c) \/ CloseFails_StaysAttached(c)

\* session::close
Close(c) == CloseOk(c) \/ CloseFails(c)

-----------------------------------------------------------------------------
HasSession(c) == pcb[c] = "active" /\ hooks[c] = "session"

\* send: a failing tcp_write leaves nothing that could be acknowledged.
Send(c, replied) ==
  \/ unacked' = (IF replied THEN unacked \cup {c} ELSE unacked) /\ UNCHANGED faults
  \/ replied /\ Fault /\ UNCHANGED unacked

Fragment(c) ==
  /\ session' = [session EXCEPT ![c] = "saved"]
  /\ UNCHANGED <<sentcb, unacked, faults>>

Kept(c, replied) ==
  /\ session' = [session EXCEPT ![c] = "empty"]
  /\ sentcb' = [sentcb EXCEPT ![c] = "sending"]
  /\ Send(c, replied)

Closing(c, replied) ==
  /\ sentcb' = [sentcb EXCEPT ![c] = "sent"]
  /\ Send(c, replied)
  /\ UNCHANGED session

\* on::received with data, and session::receive.
Received(c) ==
  /\ HasSession(c) /\ wire[c] # <<>>
  /\ LET packet  == Head(wire[c])
         saved   == session[c] = "saved"
         replied == HasReply(packet, saved)
     IN  \E result \in Results(packet, saved, TRUE) :
           \/ result = "fragment" /\ Fragment(c)
           \/ result = "keep" /\ Kept(c, replied)
           \/ result = "close" /\ Closing(c, replied)
  /\ wire' = [wire EXCEPT ![c] = Tail(@)]
  /\ UNCHANGED <<pcb, hooks, leaked>>

\* on::received without data: the peer has closed.
PeerClosed(c) == HasSession(c) /\ Close(c)

\* lwIP closes a block itself whose callbacks are detached.
PeerClosedDetached(c) ==
  /\ pcb[c] = "active" /\ hooks[c] # "session"
  /\ pcb' = [pcb EXCEPT ![c] = "closed"]
  /\ hooks' = [hooks EXCEPT ![c] = "none"]
  /\ Gone(c)
  /\ UNCHANGED <<session, sentcb, leaked, faults>>

\* on::sending or on::sent, whichever is attached.
Acked(c) ==
  /\ pcb[c] = "active" /\ c \in unacked
  /\ IF hooks[c] = "session" /\ sentcb[c] = "sent" THEN Close(c)
     ELSE /\ unacked' = unacked \ {c}
          /\ UNCHANGED <<pcb, hooks, session, sentcb, wire, leaked, faults>>

\* on::poll with a session: it is stale, however recently it was used.
PollSession(c) == HasSession(c) /\ Close(c)

PollDetached_Retries(c) ==
  /\ pcb[c] = "active" /\ hooks[c] = "poll"
  /\ hooks' = [hooks EXCEPT ![c] = "none"]
  /\ UNCHANGED <<pcb, session, sentcb, unacked, wire, leaked, faults>>

\* on::poll without: the block is closed, or aborted when that fails again.
PollDetached(c) ==
  /\ pcb[c] = "active" /\ hooks[c] = "poll"
  /\ \/ pcb' = [pcb EXCEPT ![c] = "closed"] /\ UNCHANGED faults
     \/ pcb' = [pcb EXCEPT ![c] = "free"] /\ Fault
  /\ hooks' = [hooks EXCEPT ![c] = "none"]
  /\ Gone(c)
  /\ UNCHANGED <<session, sentcb, leaked>>

Poll(c) == PollSession(c) \/ PollDetached(c)

\* on::error: lwIP has freed the block already.  close() works on it nevertheless; what
\* tcp_close makes of the freed block decides whether the session is deleted.
Error(c) ==
  /\ HasSession(c)
  /\ pcb' = [pcb EXCEPT ![c] = "free"]
  /\ hooks' = [hooks EXCEPT ![c] = "none"]
  /\ session' = [session EXCEPT ![c] = "none"]
  /\ Gone(c)
  /\ \/ UNCHANGED <<leaked, faults>>
     \/ leaked' = leaked + 1 /\ Fault
  /\ UNCHANGED sentcb

-----------------------------------------------------------------------------
\* lwIP ends a connection that was closed.
Freed(c) ==
  /\ pcb[c] = "closed"
  /\ pcb' = [pcb EXCEPT ![c] = "free"]
  /\ UNCHANGED <<hooks, session, sentcb, unacked, wire, leaked, faults>>

\* The client sends another request on a connection that is still open.
Request(c) ==
  /\ HasSession(c) /\ wire[c] = <<>>
  /\ \E request \in Requests : wire' = [wire EXCEPT ![c] = request]
  /\ UNCHANGED <<pcb, hooks, session, sentcb, unacked, leaked, faults>>

Next ==
  \E c \in Conns :
     \/ Accept(c) \/ AcceptFails(c)
     \/ Received(c) \/ PeerClosed(c) \/ PeerClosedDetached(c)
     \/ Acked(c) \/ Poll(c) \/ Error(c)
     \/ Freed(c) \/ Request(c)

Spec == Init /\ [][Next]_vars

-----------------------------------------------------------------------------
\* Every variable holds a value of its type.
TypeOK ==
  /\ pcb \in [Conns -> Pcb]
  /\ hooks \in [Conns -> Hooks]
  /\ session \in [Conns -> Session]
  /\ sentcb \in [Conns -> Sentcb]
  /\ unacked \subseteq Conns
  /\ wire \in [Conns -> Unsent]
  /\ leaked \in Nat /\ faults \in Nat

\* Callbacks are attached with a session exactly while it exists, and a block that is
\* closing or free calls back nobody: no callback works on a deleted session, whatever
\* fails and in whatever order acknowledgements, polls, errors and closes arrive.
CallbacksAreLive ==
  \A c \in Conns : /\ hooks[c] = "session" <=> session[c] # "none"
                   /\ hooks[c] # "none" <=> pcb[c] = "active"

\* No session is lost but in a close that failed.
LossesAreFaults == leaked <= faults

-----------------------------------------------------------------------------
\* The phase of a connection, for Connections.  A session whose saved message has been
\* answered with a closing reply still resumes it, should another packet arrive.
Phase(c) ==
  CASE pcb[c] = "free" -> "none"
    [] pcb[c] # "free" /\ session[c] = "none" -> "ending"
    [] pcb[c] # "free" /\ session[c] = "saved" -> "part"
    [] pcb[c] # "free" /\ session[c] = "empty" ->
         IF sentcb[c] = "sent" /\ c \in unacked THEN "ending" ELSE "idle"
=============================================================================
