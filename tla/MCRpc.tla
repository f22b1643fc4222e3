------------------------------- MODULE MCRpc -------------------------------
(* An instance of Rpc for TLC. *)
EXTENDS Rpc
=============================================================================
