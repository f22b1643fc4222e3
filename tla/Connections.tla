---------------------------- MODULE Connections ----------------------------
(***************************************************************************)
(* What a session layer promises application::service, whatever network    *)
(* stack it stands on: each connection has a state of its own.  A new      *)
(* connection starts with no message suspended; a message is suspended,    *)
(* resumed and answered by its own connection only; what has been          *)
(* suspended is gone when the connection ends.                             *)
(***************************************************************************)
CONSTANT Conns

VARIABLE conn  \* the phase of each connection

\* "none": not connected; "idle": no message is suspended; "part": a message waits for
\* its rest; "ending": the last reply is on its way, the connection closes after it.
Phase == {"none", "idle", "part", "ending"}

Init == conn = [c \in Conns |-> "none"]

Become(c, phase) == conn' = [conn EXCEPT ![c] = phase]

Connect(c) == conn[c] = "none" /\ Become(c, "idle")

Suspend(c) == conn[c] # "none" /\ Become(c, "part")

Answer(c) == conn[c] # "none" /\ \E phase \in {"idle", "ending"} : Become(c, phase)

End(c) == conn[c] # "none" /\ Become(c, "none")

Next == \E c \in Conns : Connect(c) \/ Suspend(c) \/ Answer(c) \/ End(c)

Spec == Init /\ [][Next]_conn
=============================================================================
