----------------------------- MODULE ByteStream -----------------------------
(***************************************************************************)
(* What a TCP connection promises to the two programs at its ends: the     *)
(* bytes accepted from the sender come to the receiver in their order,     *)
(* none twice and none left out, and never before they were accepted; what *)
(* was received is never taken back.                                       *)
(***************************************************************************)
EXTENDS Naturals, Sequences

VARIABLES accepted, received

StreamInit == accepted = <<>> /\ received = <<>>

Extends(s, t) == Len(t) <= Len(s) /\ SubSeq(s, 1, Len(t)) = t

Accept ==
  /\ Extends(accepted', accepted)
  /\ UNCHANGED received

Receive ==
  /\ Extends(received', received) /\ Extends(accepted, received')
  /\ UNCHANGED accepted

StreamNext == Accept \/ Receive

StreamSpec == StreamInit /\ [][StreamNext]_<<accepted, received>>
=============================================================================
