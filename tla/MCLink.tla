------------------------------- MODULE MCLink -------------------------------
(* Small instances of the connection between the boards for TLC. *)
EXTENDS LinkProps
=============================================================================
