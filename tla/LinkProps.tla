----------------------------- MODULE LinkProps ------------------------------
(***************************************************************************)
(* What is claimed of the connection between the boards: see README.md,    *)
(* "Properties".                                                           *)
(***************************************************************************)
EXTENDS Link

(* What the socket thread hands to main is a message the TIVA sent, whole, *)
(* so that its addressee is one main has a queue for, unless a send was    *)
(* cut or a read was short; and then it is so again as soon as the socket  *)
(* thread has caught up.  Resets do not matter. *)
InStep ==
  sock = "send" /\ ~astray => \E m \in 1..Messages : socket_msg = Message(m)

(* Whole or not, no message is handed over twice or behind a later one:    *)
(* each begins with a later byte than the one before it.                   *)
Handed ==
  <<main_rx>> \o (IF sock = "send" THEN Append(queue, socket_msg) ELSE queue)
Later(b, c) == b[1] > c[1] \/ (b[1] = c[1] /\ b[2] > c[2])
InTurn ==
  \A i \in 2..Len(Handed) : Later(Handed[i][1], Handed[i - 1][1])

(* Whatever is cut or short, the socket thread reads the bytes that were   *)
(* accepted from the connection it serves: in order, none twice and none   *)
(* left out, none of another connection. *)
Served == INSTANCE ByteStream WITH
  accepted <- IF socket_conn = 0 THEN <<>> ELSE accepted[socket_conn],
  received <- got
ImplementsStream == Served!StreamSpec

(* It reads all of them, the rest of a cut message too, while the board is *)
(* not reset. *)
AllRead ==
  []<>(socket_conn = 0 \/ conn # socket_conn \/ tiva = "connect"
         \/ got = accepted[socket_conn])
=============================================================================
