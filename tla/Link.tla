-------------------------------- MODULE Link --------------------------------
(***************************************************************************)
(* The connection between the boards as the two programs use it: main_task *)
(* of the TIVA sends messages of MSG_SIZE bytes with FreeRTOS_send and     *)
(* does not look how many bytes it took; the socket thread of the          *)
(* BeagleBone reads up to MSG_SIZE bytes, does not look how many it got,   *)
(* and hands its buffer to main.  TCP in between keeps the bytes in order  *)
(* (ByteStream) but no boundaries.  The TIVA may be reset at any time and  *)
(* then connects again; the BeagleBone is not told.                        *)
(***************************************************************************)
EXTENDS Naturals, Sequences

CONSTANTS
  MSG_SIZE,                     \* bytes of a message
  TxSize,                       \* bytes the transmit stream holds
  RxSize,                       \* bytes the BeagleBone's kernel holds for us
  MSG_MAXMSGS,                  \* capacity of main's queue
  Messages,                     \* bound: messages main_task sends
  Resets                        \* bound: resets of the TIVA

ASSUME LinkAssumption ==
  /\ {MSG_SIZE, TxSize, RxSize, MSG_MAXMSGS} \subseteq Nat \ {0}
  /\ Messages \in Nat /\ Resets \in Nat

(* A byte is known by its message and its place there; '0' is what memset  *)
(* fills the buffer of the socket thread with. *)
Char0 == <<0, 0>>
Byte == ((1..Messages) \X (1..MSG_SIZE)) \cup {Char0}
Message(m) == [i \in 1..MSG_SIZE |-> <<m, i>>]
Conns == 1..Resets + 1
Least(m, n) == IF m <= n THEN m ELSE n

VARIABLES
  tiva,         \* where main_task is: "connect", "idle", "send"
  conn,         \* its connection, 0 before the first
  msg,          \* the message it sends
  left,         \* xBytesLeft of FreeRTOS_send
  out,          \* the transmit stream of its socket
  sock,         \* where the socket thread is
  backlog,      \* connections that wait to be accepted
  socket_conn,  \* the connection it reads from, 0 before accept
  inn,          \* what the kernel holds for each connection
  socket_msg,   \* its buffer
  queue,        \* main's queue
  main_rx,      \* the message main has taken
  accepted,     \* history: the bytes FreeRTOS_send took, by connection
  got,          \* history: the bytes read returned
  astray        \* history: a send was cut in the middle or a read was short,
                \* and since then the socket thread has not caught up

tivaVars == <<tiva, conn, msg, left>>
sockVars == <<sock, socket_conn, socket_msg>>
history == <<accepted, got, astray>>
vars == <<tivaVars, out, sockVars, backlog, inn, queue, main_rx, history>>

Init ==
  /\ tiva = "connect" /\ conn = 0 /\ msg = 0 /\ left = 0 /\ out = <<>>
  /\ sock = "bind" /\ socket_conn = 0 /\ backlog = <<>>
  /\ inn = [c \in Conns |-> <<>>]
  /\ socket_msg = [i \in 1..MSG_SIZE |-> Char0] /\ main_rx = socket_msg
  /\ queue = <<>>
  /\ accepted = [c \in Conns |-> <<>>] /\ got = <<>>
  /\ astray = FALSE

-----------------------------------------------------------------------------
(* main_task.  Its connect is answered by the kernel of the BeagleBone,    *)
(* whether or not anybody will ever accept the connection. *)
tiva_open_socket ==
  /\ tiva = "connect" /\ sock # "bind"
  /\ tiva' = "idle" /\ conn' = conn + 1
  /\ backlog' = Append(backlog, conn')
  /\ UNCHANGED <<msg, left, out, sockVars, inn, queue, main_rx, history>>

MainSends ==
  /\ tiva = "idle" /\ msg < Messages
  /\ tiva' = "send" /\ msg' = msg + 1 /\ left' = MSG_SIZE
  /\ UNCHANGED <<conn, out, sockVars, backlog, inn, queue, main_rx, history>>

Accepts_FromStart ==
  LET n == Least(TxSize - Len(out), left)
      data == SubSeq(Message(msg), 1, n)
  IN /\ tiva = "send" /\ n > 0
     /\ out' = out \o data
     /\ accepted' = [accepted EXCEPT ![conn] = @ \o data]
     /\ left' = left - n
     /\ tiva' = IF left' = 0 THEN "idle" ELSE "send"
     /\ UNCHANGED <<conn, msg, sockVars, backlog, inn, queue, main_rx, got, astray>>

(* FreeRTOS_send takes what there is room for. *)
Accepts ==
  LET n == Least(TxSize - Len(out), left)
      done == MSG_SIZE - left
      data == SubSeq(Message(msg), done + 1, done + n)
  IN /\ tiva = "send" /\ n > 0
     /\ out' = out \o data
     /\ accepted' = [accepted EXCEPT ![conn] = @ \o data]
     /\ left' = left - n
     /\ tiva' = IF left' = 0 THEN "idle" ELSE "send"
     /\ UNCHANGED <<conn, msg, sockVars, backlog, inn, queue, main_rx, got, astray>>

(* After five seconds without room it returns what it has sent, and        *)
(* main_task goes on to the next message. *)
GivesUp ==
  /\ tiva = "send" /\ Len(out) = TxSize
  /\ tiva' = "idle" /\ left' = 0
  /\ astray' = (astray \/ left < MSG_SIZE)
  /\ UNCHANGED <<conn, msg, out, sockVars, backlog, inn, queue, main_rx, accepted, got>>

(* What was not on its way yet is gone. *)
Reset ==
  /\ conn \in 1..Resets /\ tiva # "connect"
  /\ tiva' = "connect" /\ left' = 0 /\ out' = <<>>
  /\ UNCHANGED <<conn, msg, sockVars, backlog, inn, queue, main_rx, history>>

(* TCP: bytes from the transmit stream to the other board, in segments of  *)
(* any size. *)
Arrives ==
  \E n \in 1..Len(out) :
    /\ Len(inn[conn]) + n <= RxSize
    /\ inn' = [inn EXCEPT ![conn] = @ \o SubSeq(out, 1, n)]
    /\ out' = SubSeq(out, n + 1, Len(out))
    /\ UNCHANGED <<tivaVars, sockVars, backlog, queue, main_rx, history>>

-----------------------------------------------------------------------------
(* The socket thread of the BeagleBone. *)
SockListen ==
  /\ sock = "bind" /\ sock' = "accept"
  /\ UNCHANGED <<tivaVars, out, socket_conn, socket_msg, backlog, inn, queue,
                 main_rx, history>>

SockAccept ==
  /\ sock = "accept" /\ backlog # <<>>
  /\ socket_conn' = Head(backlog) /\ backlog' = Tail(backlog)
  /\ sock' = "read"
  /\ UNCHANGED <<tivaVars, out, socket_msg, inn, queue, main_rx, history>>

(* read takes what has arrived, up to MSG_SIZE bytes; the rest of the      *)
(* buffer stays as it was. *)
SockReadOf(data) ==
  LET n == Len(data)
      old == SubSeq(socket_msg, n + 1, MSG_SIZE)
  IN /\ socket_msg' = data \o old
     /\ got' = got \o data
     /\ astray' = (astray \/ n < MSG_SIZE)
     /\ sock' = "send"
     /\ UNCHANGED <<tivaVars, out, socket_conn, backlog, queue, main_rx, accepted>>

Waiting == IF socket_conn = 0 THEN <<>> ELSE inn[socket_conn]
SockRead_Peek ==
  LET n == Least(Len(Waiting), MSG_SIZE)
  IN /\ sock = "read" /\ n > 0
     /\ SockReadOf(SubSeq(Waiting, 1, n))
     /\ UNCHANGED inn
SockRead_NonBlocking ==
  LET n == Least(Len(Waiting), MSG_SIZE)
  IN /\ sock = "read"
     /\ SockReadOf(SubSeq(Waiting, 1, n))
     /\ inn' = [inn EXCEPT ![socket_conn] = SubSeq(@, n + 1, Len(@))]
SockRead_WaitAll ==
  /\ sock = "read" /\ Len(Waiting) >= MSG_SIZE
  /\ SockReadOf(SubSeq(Waiting, 1, MSG_SIZE))
  /\ inn' = [inn EXCEPT ![socket_conn] = SubSeq(@, MSG_SIZE + 1, Len(@))]
SockRead ==
  LET n == Least(Len(Waiting), MSG_SIZE)
  IN /\ sock = "read" /\ n > 0
     /\ SockReadOf(SubSeq(Waiting, 1, n))
     /\ inn' = [inn EXCEPT ![socket_conn] = SubSeq(@, n + 1, Len(@))]

(* It has caught up when it has read all there is and main_task is not in  *)
(* the middle of a message. *)
CaughtUp ==
  got = accepted[socket_conn] /\ ~(conn = socket_conn /\ tiva = "send")
SockSend ==
  /\ sock = "send" /\ Len(queue) < MSG_MAXMSGS
  /\ queue' = Append(queue, socket_msg)
  /\ sock' = "read"
  /\ astray' = (astray /\ ~CaughtUp)
  /\ UNCHANGED <<tivaVars, out, socket_conn, socket_msg, backlog, inn, main_rx,
                 accepted, got>>

MainRecv ==
  /\ queue # <<>>
  /\ main_rx' = Head(queue) /\ queue' = Tail(queue)
  /\ UNCHANGED <<tivaVars, out, sockVars, backlog, inn, history>>

-----------------------------------------------------------------------------
Tiva == tiva_open_socket \/ MainSends \/ Accepts \/ GivesUp
Sock == SockListen \/ SockAccept \/ SockRead \/ SockSend
Next == Tiva \/ Reset \/ Arrives \/ Sock \/ MainRecv

Spec == Init /\ [][Next]_vars

(* The threads of the BeagleBone go on, and TCP delivers. *)
Fairness == WF_vars(Arrives) /\ WF_vars(Sock) /\ WF_vars(MainRecv)
FairSpec == Spec /\ Fairness
=============================================================================
