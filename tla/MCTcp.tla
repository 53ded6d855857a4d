------------------------------- MODULE MCTcp --------------------------------
(* Small instances of the way over the network for TLC. *)
EXTENDS TcpProps
=============================================================================
