------------------------------- MODULE MCEth -------------------------------
(* Small instances of the Ethernet driver for TLC. *)
EXTENDS EthProps
=============================================================================
