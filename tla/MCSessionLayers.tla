-------------------------- MODULE MCSessionLayers --------------------------
(***************************************************************************)
(* Instances of SessionLayers for TLC: the endpoints of clients.           *)
(***************************************************************************)
EXTENDS SessionLayers

\* Clients that differ in the port, or in the first byte of the address.
Apart == {[port |-> 5000, adr |-> <<10, 0, 0, 2>>], [port |-> 5000, adr |-> <<11, 0, 0, 2>>],
          [port |-> 5001, adr |-> <<10, 0, 0, 2>>]}

\* Two clients of one network that happen to use the same port.
Neighbours == {[port |-> 5000, adr |-> <<10, 0, 0, 2>>], [port |-> 5000, adr |-> <<10, 0, 0, 3>>]}
=============================================================================
