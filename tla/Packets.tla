------------------------------ MODULE Packets ------------------------------
(***************************************************************************)
(* What clients send to the session layers of callback driven network      *)
(* stacks, and what application::service makes of one packet.  HttpService *)
(* has the details of both.                                                *)
(***************************************************************************)
EXTENDS Sequences

\* A request in one packet, the two packets many browsers make of an upload, and the
\* line break some send behind a body, in a packet of its own.
Requests == {<<"whole">>, <<"head", "rest">>, <<"whole", "stray">>}

\* Every tail of a request.
Unsent == {<<>>, <<"whole">>, <<"head", "rest">>, <<"rest">>, <<"whole", "stray">>, <<"stray">>}

\* The results of application::service for a packet: saved tells that the storage it
\* is given holds a suspended message, storage that it is given one.
Results(packet, saved, storage) ==
  CASE saved -> {"keep", "close"}
    [] ~saved /\ packet = "stray" -> {"keep"}
    [] ~saved /\ packet = "head" -> IF storage THEN {"fragment"} ELSE {"close"}
    [] OTHER -> {"keep", "close"}

\* A line break alone is an empty message, which has no reply.
HasReply(packet, saved) == saved \/ packet # "stray"
=============================================================================
