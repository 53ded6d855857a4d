----------------------------- MODULE LinkProofs -----------------------------
(***************************************************************************)
(* Proofs about the connection between the boards, for messages, streams   *)
(* and queues of every size and any number of resets.                      *)
(***************************************************************************)
EXTENDS LinkProps, SequenceLemmas

-----------------------------------------------------------------------------
(* Types.  Only bytes of messages are sent; the buffers of the BeagleBone  *)
(* may hold Char0 as well.  After accept the socket thread keeps its       *)
(* connection. *)
Sent == (1..Messages) \X (1..MSG_SIZE)
Buffer == [1..MSG_SIZE -> Byte]

TypeInv ==
  /\ tiva \in {"connect", "idle", "send"}
  /\ conn \in 0..Resets + 1 /\ msg \in 0..Messages /\ left \in 0..MSG_SIZE
  /\ tiva = "connect" => conn <= Resets /\ out = <<>>
  /\ tiva # "connect" => conn > 0
  /\ tiva = "send" => left > 0 /\ msg > 0
  /\ out \in Seq(Sent)
  /\ sock \in {"bind", "accept", "read", "send"}
  /\ socket_conn \in 0..conn
  /\ sock \in {"bind", "accept"} <=> socket_conn = 0
  /\ backlog \in Seq(Conns) /\ \A i \in 1..Len(backlog) : backlog[i] <= conn
  /\ inn \in [Conns -> Seq(Sent)] /\ accepted \in [Conns -> Seq(Sent)]
  /\ got \in Seq(Sent) /\ socket_msg \in Buffer /\ main_rx \in Buffer
  /\ queue \in Seq(Buffer) /\ astray \in BOOLEAN

-----------------------------------------------------------------------------
(* The way of the bytes: q holds bytes of acc, those behind the r first    *)
(* ones. *)
Carries(acc, r, q) ==
  r + Len(q) <= Len(acc) /\ \A i \in 1..Len(q) : q[i] = acc[r + i]

(* How many bytes of connection c were read. *)
Read(c) == IF c = socket_conn THEN Len(got) ELSE 0

(* What was read, what the kernel holds and what the transmit stream holds *)
(* are one after the other the bytes accepted; all of them, while the TIVA *)
(* is not reset. *)
WayInv ==
  /\ \A c \in Conns : c > conn => accepted[c] = <<>> /\ inn[c] = <<>>
  /\ socket_conn = 0 => got = <<>>
  /\ socket_conn # 0 => Prefix(got, accepted[socket_conn])
  /\ \A c \in Conns : Carries(accepted[c], Read(c), inn[c])
  /\ tiva # "connect" =>
       /\ Carries(accepted[conn], Read(conn) + Len(inn[conn]), out)
       /\ Read(conn) + Len(inn[conn]) + Len(out) = Len(accepted[conn])

-----------------------------------------------------------------------------
(* Boundaries.  Behind the r first bytes, acc begins with a message, and   *)
(* where one message begins there are its bytes, and behind them the next. *)
Aligned(acc, r) ==
  /\ r < Len(acc) => acc[r + 1][2] = 1
  /\ \A i, j \in r+1..Len(acc) : acc[i][2] = 1 /\ i <= j =>
       /\ j < i + MSG_SIZE => acc[j] = <<acc[i][1], j - i + 1>>
       /\ j = i + MSG_SIZE => acc[j][2] = 1

(* Of message m the first done bytes are the last ones of acc, and all the *)
(* messages before are whole. *)
EndsIn(acc, r, m, done) ==
  LET end == Len(acc) - done
  IN /\ r + done <= Len(acc)
     /\ \A i \in r+1..end : acc[i][2] = 1 => i + MSG_SIZE - 1 <= end
     /\ \A k \in 1..done : acc[end + k] = <<m, k>>

Done == IF tiva = "send" THEN MSG_SIZE - left ELSE 0

BoundaryInv ==
  ~astray =>
    /\ \A c \in Conns : socket_conn \in {0, c} => Aligned(accepted[c], Read(c))
    /\ tiva # "connect" /\ socket_conn \in {0, conn} =>
         EndsIn(accepted[conn], Read(conn), msg, Done)
    /\ sock = "send" => \E m \in 1..Messages : socket_msg = Message(m)

-----------------------------------------------------------------------------
(* Order.  The bytes of a connection are one later than the other, and     *)
(* none is later than what main_task has sent so far; what was handed over *)
(* begins with a byte that was read. *)
Sorted(acc) == \A i, j \in 1..Len(acc) : i < j => Later(acc[j], acc[i])
SentSoFar(b) ==
  b[1] < msg \/ (b[1] = msg /\ (tiva = "send" => b[2] <= MSG_SIZE - left))
WasRead(b) == b = Char0 \/ \E i \in 1..Len(got) : b = got[i]
Last == IF queue = <<>> THEN main_rx ELSE queue[Len(queue)]

OrderInv ==
  /\ \A c \in Conns : /\ Sorted(accepted[c])
                      /\ \A i \in 1..Len(accepted[c]) : SentSoFar(accepted[c][i])
  /\ WasRead(main_rx[1]) /\ \A i \in 1..Len(queue) : WasRead(queue[i][1])
  /\ sock = "send" => WasRead(socket_msg[1])

TurnInv ==
  /\ queue # <<>> => Later(queue[1][1], main_rx[1])
  /\ \A i \in 2..Len(queue) : Later(queue[i][1], queue[i - 1][1])
  /\ sock = "send" => Later(socket_msg[1], Last[1])

-----------------------------------------------------------------------------
(* The sizes are numbers above zero. *)
LEMMA Sizes ==
  /\ MSG_SIZE \in Nat \ {0} /\ TxSize \in Nat \ {0} /\ RxSize \in Nat \ {0}
  /\ MSG_MAXMSGS \in Nat \ {0} /\ Messages \in Nat /\ Resets \in Nat
  BY LinkAssumption

(* A byte of a message has two numbers. *)
LEMMA SentFacts == \A b \in Sent : b[1] \in Nat /\ b[2] \in Nat /\ b[1] > 0
  <1> TAKE b \in Sent
  <1>1. b[1] \in 1..Messages /\ b[2] \in 1..MSG_SIZE
    BY DEF Sent
  <1> QED BY <1>1, Sizes

(* The lesser of two numbers is one of them and not above the other. *)
LEMMA LeastFacts ==
  ASSUME NEW m \in Nat, NEW n \in Nat
  PROVE  /\ Least(m, n) \in Nat /\ Least(m, n) <= m /\ Least(m, n) <= n
         /\ m > 0 /\ n > 0 => Least(m, n) > 0
         /\ Least(m, n) = m \/ Least(m, n) = n
  BY DEF Least

(* What MainSends and Accepts take: a part of a message. *)
LEMMA ChunkFacts ==
  ASSUME NEW m \in 1..Messages, NEW d \in Nat, NEW n \in Nat, d + n <= MSG_SIZE
  PROVE  /\ SubSeq(Message(m), d + 1, d + n) \in Seq(Sent)
         /\ Len(SubSeq(Message(m), d + 1, d + n)) = n
         /\ \A k \in 1..n : SubSeq(Message(m), d + 1, d + n)[k] = <<m, d + k>>
  <1>1. MSG_SIZE \in Nat /\ Messages \in Nat
    BY Sizes
  <1>2. \A i \in 1..MSG_SIZE : <<m, i>> \in Sent
    BY DEF Sent
  <1>3. Message(m) \in Seq(Sent) /\ Len(Message(m)) = MSG_SIZE
    BY <1>1, <1>2 DEF Message
  <1>7. d + n <= Len(Message(m)) /\ Message(m) \in Seq(Sent) /\ d \in Nat /\ n \in Nat
    BY <1>3
  <1>4. SubSeq(Message(m), d + 1, d + n) = [k \in 1..n |-> Message(m)[d + k]]
    BY <1>7, PartFacts
  <1>5. ASSUME NEW k \in 1..n PROVE Message(m)[d + k] = <<m, d + k>>
    <2>1. d + k \in 1..MSG_SIZE
      BY <1>1
    <2> QED BY <2>1 DEF Message
  <1>6. /\ SubSeq(Message(m), d + 1, d + n) \in Seq(Sent)
        /\ Len(SubSeq(Message(m), d + 1, d + n)) = n
    BY <1>7, PartFacts
  <1> QED BY <1>4, <1>5, <1>6

(* The first n elements of a sequence and the others. *)
LEMMA SplitFacts ==
  ASSUME NEW S, NEW s \in Seq(S), NEW n \in Nat, n <= Len(s)
  PROVE  /\ SubSeq(s, 1, n) \in Seq(S) /\ Len(SubSeq(s, 1, n)) = n
         /\ \A k \in 1..n : SubSeq(s, 1, n)[k] = s[k]
         /\ SubSeq(s, n + 1, Len(s)) \in Seq(S)
         /\ Len(SubSeq(s, n + 1, Len(s))) = Len(s) - n
         /\ \A k \in 1..(Len(s) - n) : SubSeq(s, n + 1, Len(s))[k] = s[n + k]
  <1> DEFINE rest == Len(s) - n
  <1>1. /\ Len(s) \in Nat /\ rest \in Nat /\ n + rest = Len(s) /\ n + rest <= Len(s)
        /\ 0 + n = n /\ 0 + 1 = 1 /\ 0 + n <= Len(s) /\ 0 \in Nat
    OBVIOUS
  <1> HIDE DEF rest
  <1>2. /\ SubSeq(s, 0 + 1, 0 + n) = [k \in 1..n |-> s[0 + k]]
        /\ SubSeq(s, 0 + 1, 0 + n) \in Seq(S) /\ Len(SubSeq(s, 0 + 1, 0 + n)) = n
    BY <1>1, PartFacts
  <1>3. /\ SubSeq(s, n + 1, n + rest) = [k \in 1..rest |-> s[n + k]]
        /\ SubSeq(s, n + 1, n + rest) \in Seq(S) /\ Len(SubSeq(s, n + 1, n + rest)) = rest
    BY <1>1, PartFacts
  <1>4. \A k \in 1..n : 0 + k = k
    OBVIOUS
  <1> QED BY <1>1, <1>2, <1>3, <1>4 DEF rest

(* A buffer is a sequence of MSG_SIZE bytes. *)
LEMMA BufferIsSeq ==
  ASSUME NEW b
  PROVE  b \in Buffer <=> b \in Seq(Byte) /\ Len(b) = MSG_SIZE
  BY Sizes DEF Buffer

(* read puts what it takes over the beginning of the buffer. *)
LEMMA FilledFacts ==
  ASSUME NEW b \in Buffer, NEW data \in Seq(Sent), Len(data) <= MSG_SIZE
  PROVE  LET new == data \o SubSeq(b, Len(data) + 1, MSG_SIZE)
         IN /\ new \in Buffer
            /\ \A k \in 1..Len(data) : new[k] = data[k]
  <1> DEFINE n == Len(data)
             rest == MSG_SIZE - n
             old == SubSeq(b, n + 1, MSG_SIZE)
  <1>1. n \in Nat /\ rest \in Nat /\ n + rest = MSG_SIZE /\ MSG_SIZE \in Nat
    BY Sizes
  <1>2. b \in Seq(Byte) /\ Len(b) = MSG_SIZE
    BY BufferIsSeq
  <1>3. SubSeq(b, n + 1, n + rest) \in Seq(Byte) /\ Len(SubSeq(b, n + 1, n + rest)) = rest
    BY <1>1, <1>2, PartFacts
  <1>4. old \in Seq(Byte) /\ Len(old) = rest
    BY <1>1, <1>3
  <1>5. data \in Seq(Byte)
    BY DEF Byte, Sent
  <1> HIDE DEF old
  <1>6. /\ data \o old \in Seq(Byte) /\ Len(data \o old) = Len(data) + Len(old)
        /\ Prefix(data, data \o old)
    BY <1>4, <1>5, JoinFacts
  <1>7. Len(data \o old) = MSG_SIZE
    BY <1>1, <1>4, <1>6
  <1>8. \A k \in 1..Len(data) : (data \o old)[k] = data[k]
    BY <1>6 DEF Prefix
  <1> QED BY <1>6, <1>7, <1>8, BufferIsSeq DEF old

-----------------------------------------------------------------------------
(* The types hold at the start ... *)
LEMMA TypeInit == Init => TypeInv
  <1> SUFFICES ASSUME Init PROVE TypeInv
    OBVIOUS
  <1>1. Char0 \in Byte /\ MSG_SIZE \in Nat /\ Resets \in Nat
    BY Sizes DEF Byte
  <1>2. [i \in 1..MSG_SIZE |-> Char0] \in Buffer
    BY <1>1 DEF Buffer
  <1>3. /\ inn \in [Conns -> Seq(Sent)] /\ accepted \in [Conns -> Seq(Sent)]
        /\ out \in Seq(Sent) /\ got \in Seq(Sent)
    BY DEF Init
  <1>4. /\ backlog \in Seq(Conns) /\ \A i \in 1..Len(backlog) : backlog[i] <= conn
        /\ queue \in Seq(Buffer)
    BY DEF Init
  <1>5. conn \in 0..Resets + 1 /\ msg \in 0..Messages /\ left \in 0..MSG_SIZE
    BY Sizes DEF Init
  <1>6. socket_msg \in Buffer /\ main_rx \in Buffer
    BY <1>2 DEF Init
  <1>7. /\ tiva = "connect" /\ sock = "bind" /\ socket_conn = 0 /\ conn = 0 /\ out = <<>>
        /\ astray = FALSE
    BY DEF Init
  <1>8. /\ tiva \in {"connect", "idle", "send"}
        /\ tiva = "connect" => conn <= Resets /\ out = <<>>
        /\ tiva # "connect" => conn > 0
        /\ tiva = "send" => left > 0 /\ msg > 0
        /\ sock \in {"bind", "accept", "read", "send"}
        /\ socket_conn \in 0..conn
        /\ sock \in {"bind", "accept"} <=> socket_conn = 0
        /\ astray \in BOOLEAN
    <2>1. tiva \in {"connect", "idle", "send"} /\ sock \in {"bind", "accept", "read", "send"}
      BY <1>7
    <2>2. tiva = "connect" => conn <= Resets /\ out = <<>>
      BY <1>1, <1>7
    <2>3. tiva # "connect" => conn > 0
      BY <1>7
    <2>4. tiva = "send" => left > 0 /\ msg > 0
      BY <1>7
    <2>5. socket_conn \in 0..conn
      BY <1>7
    <2>6. sock \in {"bind", "accept"} <=> socket_conn = 0
      BY <1>7
    <2>7. astray \in BOOLEAN
      BY <1>7
    <2> QED BY <2>1, <2>2, <2>3, <2>4, <2>5, <2>6, <2>7
  <1> QED BY <1>3, <1>4, <1>5, <1>6, <1>8, Zenon DEF TypeInv

(* ... and every step keeps them. *)
LEMMA TypeNext == TypeInv /\ [Next]_vars => TypeInv'
  <1> SUFFICES ASSUME TypeInv, [Next]_vars PROVE TypeInv'
    OBVIOUS
  <1> USE Sizes
  <1>0. tiva # "connect" => conn \in Conns
    BY DEF TypeInv, Conns
  <1>1. CASE tiva_open_socket
    <2>1. /\ conn' = conn + 1 /\ conn <= Resets /\ conn' \in Conns /\ conn' \in 0..Resets + 1
          /\ backlog' = Append(backlog, conn') /\ backlog \in Seq(Conns)
          /\ sock # "bind"
      BY <1>1 DEF tiva_open_socket, TypeInv, Conns
    <2>2. /\ backlog' \in Seq(Conns)
          /\ \A i \in 1..Len(backlog') : backlog'[i] <= conn'
      <3>1. /\ backlog' \in Seq(Conns) /\ Len(backlog') = Len(backlog) + 1
            /\ backlog'[Len(backlog) + 1] = conn'
            /\ \A i \in 1..Len(backlog) : backlog'[i] = backlog[i]
        BY <2>1, AppendFacts
      <3>2. \A i \in 1..Len(backlog) : backlog[i] <= conn /\ backlog[i] \in Nat
        <4> TAKE i \in 1..Len(backlog)
        <4>1. backlog[i] \in Conns
          BY <2>1
        <4> QED BY <4>1 DEF TypeInv, Conns
      <3>3. \A i \in 1..Len(backlog') : i \in 1..Len(backlog) \/ i = Len(backlog) + 1
        BY <2>1, <3>1
      <3>4. conn \in Nat /\ conn' \in Nat
        BY <2>1 DEF TypeInv
      <3> QED BY <2>1, <3>1, <3>2, <3>3, <3>4
    <2> QED BY <1>1, <2>1, <2>2
         DEF tiva_open_socket, TypeInv, sockVars, history
  <1>2. CASE MainSends
    BY <1>2 DEF MainSends, TypeInv, sockVars, history
  <1>3. CASE Accepts
    <2> DEFINE n == Least(TxSize - Len(out), left)
               done == MSG_SIZE - left
               data == SubSeq(Message(msg), done + 1, done + n)
    <2>1. tiva = "send" /\ n > 0 /\ left \in 1..MSG_SIZE /\ msg \in 1..Messages
      BY <1>3 DEF Accepts, TypeInv
    <2>2. n \in 1..left
      BY <2>1 DEF Least, TypeInv
    <2>3. done \in Nat /\ n \in Nat /\ done + n <= MSG_SIZE
      BY <2>1, <2>2
    <2>4. data \in Seq(Sent)
      BY <2>1, <2>3, ChunkFacts
    <2>5. /\ out' = out \o data
          /\ accepted' = [accepted EXCEPT ![conn] = @ \o data]
          /\ left' = left - n
          /\ tiva' = IF left' = 0 THEN "idle" ELSE "send"
      BY <1>3 DEF Accepts
    <2> HIDE DEF data, n
    <2>6. out' \in Seq(Sent) /\ accepted' \in [Conns -> Seq(Sent)]
      <3>1. conn \in Conns /\ accepted[conn] \in Seq(Sent) /\ out \in Seq(Sent)
        BY <1>0, <2>1 DEF TypeInv
      <3>2. accepted[conn] \o data \in Seq(Sent) /\ out \o data \in Seq(Sent)
        BY <2>4, <3>1, JoinFacts
      <3> QED BY <2>5, <3>2 DEF TypeInv
    <2>7. left' \in 0..MSG_SIZE /\ (tiva' = "send" => left' > 0)
      BY <2>1, <2>2, <2>5
    <2> QED BY <1>3, <2>1, <2>5, <2>6, <2>7 DEF Accepts, TypeInv, sockVars
  <1>4. CASE GivesUp
    BY <1>4 DEF GivesUp, TypeInv, sockVars
  <1>5. CASE Reset
    BY <1>5 DEF Reset, TypeInv, sockVars, history
  <1>6. CASE Arrives
    <2>1. PICK n \in 1..Len(out) :
            /\ inn' = [inn EXCEPT ![conn] = @ \o SubSeq(out, 1, n)]
            /\ out' = SubSeq(out, n + 1, Len(out))
            /\ UNCHANGED <<tivaVars, sockVars, backlog, queue, main_rx, history>>
      BY <1>6 DEF Arrives
    <2>2. n \in Nat /\ n <= Len(out) /\ out \in Seq(Sent)
      BY DEF TypeInv
    <2>3. SubSeq(out, 1, n) \in Seq(Sent) /\ SubSeq(out, n + 1, Len(out)) \in Seq(Sent)
      BY <2>2, SplitFacts
    <2>4. inn' \in [Conns -> Seq(Sent)] /\ out' \in Seq(Sent)
      <3>1. tiva # "connect"
        BY <2>2 DEF TypeInv
      <3>2. inn[conn] \in Seq(Sent)
        BY <1>0, <3>1 DEF TypeInv
      <3>3. inn[conn] \o SubSeq(out, 1, n) \in Seq(Sent)
        BY <2>3, <3>2, JoinFacts
      <3> QED BY <2>1, <2>3, <3>3 DEF TypeInv
    <2> QED BY <2>1, <2>4 DEF TypeInv, tivaVars, sockVars, history
  <1>7. CASE SockListen
    BY <1>7 DEF SockListen, TypeInv, tivaVars, history
  <1>8. CASE SockAccept
    <2>1. /\ sock = "accept" /\ socket_conn = 0 /\ sock' = "read"
          /\ socket_conn' = Head(backlog) /\ backlog' = Tail(backlog)
          /\ backlog \in Seq(Conns) /\ backlog # <<>>
          /\ \A i \in 1..Len(backlog) : backlog[i] <= conn
      BY <1>8 DEF SockAccept, TypeInv
    <2>2. Head(backlog) = backlog[1] /\ 1 \in 1..Len(backlog)
      BY <2>1
    <2>3. socket_conn' \in Conns /\ socket_conn' <= conn
      BY <2>1, <2>2
    <2>4. socket_conn' \in 0..conn /\ socket_conn' # 0
      BY <2>3 DEF Conns, TypeInv
    <2>5. /\ backlog' \in Seq(Conns)
          /\ \A i \in 1..Len(backlog') : backlog'[i] <= conn
      BY <2>1
    <2> QED BY <1>8, <2>1, <2>4, <2>5
         DEF SockAccept, TypeInv, tivaVars, history
  <1>9. CASE SockRead
    <2> DEFINE n == Least(Len(Waiting), MSG_SIZE)
               data == SubSeq(Waiting, 1, n)
    <2>1. sock = "read" /\ socket_conn \in Conns /\ socket_conn # 0
      BY <1>9 DEF SockRead, TypeInv, Conns
    <2>2. Waiting = inn[socket_conn] /\ Waiting \in Seq(Sent)
      BY <2>1 DEF Waiting, TypeInv
    <2>3. n \in Nat /\ n <= Len(Waiting) /\ n <= MSG_SIZE
      <3>1. Len(Waiting) \in Nat
        BY <2>2
      <3> QED BY <3>1, LeastFacts
    <2>4. /\ data \in Seq(Sent) /\ Len(data) = n
          /\ SubSeq(Waiting, n + 1, Len(Waiting)) \in Seq(Sent)
      BY <2>2, <2>3, SplitFacts
    <2>5. /\ inn' = [inn EXCEPT ![socket_conn] = SubSeq(Waiting, n + 1, Len(Waiting))]
          /\ socket_msg' = data \o SubSeq(socket_msg, Len(data) + 1, MSG_SIZE)
          /\ got' = got \o data
          /\ astray' = (astray \/ Len(data) < MSG_SIZE)
          /\ sock' = "send"
          /\ UNCHANGED <<tivaVars, out, socket_conn, backlog, queue, main_rx, accepted>>
      BY <1>9, <2>2 DEF SockRead, SockReadOf
    <2> HIDE DEF data, n
    <2>6. socket_msg' \in Buffer
      BY <2>3, <2>4, <2>5, FilledFacts DEF TypeInv
    <2>7. inn' \in [Conns -> Seq(Sent)] /\ got' \in Seq(Sent)
      BY <2>1, <2>4, <2>5 DEF TypeInv
    <2> QED BY <2>1, <2>5, <2>6, <2>7 DEF TypeInv, tivaVars
  <1>10. CASE SockSend
    <2>1. queue' \in Seq(Buffer)
      BY <1>10 DEF SockSend, TypeInv
    <2> QED BY <1>10, <2>1 DEF SockSend, TypeInv, tivaVars, CaughtUp
  <1>11. CASE MainRecv
    <2>1. queue \in Seq(Buffer) /\ queue # <<>>
      BY <1>11 DEF MainRecv, TypeInv
    <2>2. Head(queue) \in Buffer /\ Tail(queue) \in Seq(Buffer)
      BY <2>1
    <2> QED BY <1>11, <2>2 DEF MainRecv, TypeInv, tivaVars, sockVars, history
  <1>12. CASE UNCHANGED vars
    BY <1>12 DEF vars, TypeInv, tivaVars, sockVars, history
  <1> QED BY <1>1, <1>2, <1>3, <1>4, <1>5, <1>6, <1>7, <1>8, <1>9, <1>10, <1>11,
             <1>12 DEF Next, Tiva, Sock

-----------------------------------------------------------------------------
(* Lemmas on the way of the bytes.  What was on its way still is when more *)
(* is accepted. *)
LEMMA CarriesGrow ==
  ASSUME NEW a \in Seq(Sent), NEW b \in Seq(Sent), Prefix(a, b),
         NEW r \in Nat, NEW q \in Seq(Sent), Carries(a, r, q)
  PROVE  Carries(b, r, q)
  <1>1. Len(a) \in Nat /\ Len(b) \in Nat /\ Len(q) \in Nat /\ Len(a) <= Len(b)
    BY DEF Prefix
  <1>2. r + Len(q) <= Len(b)
    BY <1>1 DEF Carries
  <1>3. ASSUME NEW i \in 1..Len(q) PROVE q[i] = b[r + i]
    <2>1. r + i \in 1..Len(a) /\ q[i] = a[r + i]
      BY <1>1 DEF Carries
    <2> QED BY <2>1 DEF Prefix
  <1> QED BY <1>2, <1>3 DEF Carries

(* What is accepted goes to the end of a way that holds all the rest.      *)
LEMMA CarriesAppend ==
  ASSUME NEW a \in Seq(Sent), NEW r \in Nat, NEW q \in Seq(Sent), NEW d \in Seq(Sent),
         Carries(a, r, q), r + Len(q) = Len(a)
  PROVE  Carries(a \o d, r, q \o d) /\ r + Len(q \o d) = Len(a \o d)
  <1>1. /\ a \o d \in Seq(Sent) /\ Len(a \o d) = Len(a) + Len(d) /\ Prefix(a, a \o d)
        /\ \A k \in 1..Len(d) : (a \o d)[Len(a) + k] = d[k]
    BY JoinFacts
  <1>2. /\ q \o d \in Seq(Sent) /\ Len(q \o d) = Len(q) + Len(d) /\ Prefix(q, q \o d)
        /\ \A k \in 1..Len(d) : (q \o d)[Len(q) + k] = d[k]
    BY JoinFacts
  <1>3. Len(a) \in Nat /\ Len(q) \in Nat /\ Len(d) \in Nat /\ r \in Nat /\ r + Len(q) = Len(a)
    OBVIOUS
  <1>4. r + Len(q \o d) = Len(a \o d)
    <2>1. \A x, y, z \in Nat : r + (x + z) = (r + x) + z
      OBVIOUS
    <2> QED BY <1>1, <1>2, <1>3, <2>1
  <1>5. ASSUME NEW i \in 1..Len(q) + Len(d) PROVE (q \o d)[i] = (a \o d)[r + i]
    <2>1. CASE i <= Len(q)
      <3>1. i \in 1..Len(q) /\ r + i \in 1..Len(a)
        BY <2>1, <1>2, <1>3
      <3>2. (q \o d)[i] = q[i] /\ (a \o d)[r + i] = a[r + i]
        BY <3>1, <1>1, <1>2 DEF Prefix
      <3> QED BY <3>1, <3>2 DEF Carries
    <2>2. CASE i > Len(q)
      <3> DEFINE k == i - Len(q)
      <3>1. k \in 1..Len(d) /\ i = Len(q) + k /\ r + i = Len(a) + k
        BY <2>2, <1>3
      <3> HIDE DEF k
      <3> QED BY <3>1, <1>1, <1>2
    <2> QED BY <2>1, <2>2, <1>3
  <1>6. \A i \in 1..Len(q \o d) : (q \o d)[i] = (a \o d)[r + i]
    BY <1>2, <1>5
  <1> QED BY <1>3, <1>4, <1>6 DEF Carries

(* Bytes go from the beginning of one part of the way to the end of the    *)
(* part before it. *)
LEMMA CarriesMove ==
  ASSUME NEW a \in Seq(Sent), NEW r \in Nat, NEW p \in Seq(Sent), NEW q \in Seq(Sent),
         Carries(a, r, p), Carries(a, r + Len(p), q), NEW n \in Nat, n <= Len(q)
  PROVE  /\ Carries(a, r, p \o SubSeq(q, 1, n))
         /\ Len(p \o SubSeq(q, 1, n)) = Len(p) + n
         /\ Carries(a, r + Len(p) + n, SubSeq(q, n + 1, Len(q)))
         /\ Len(SubSeq(q, n + 1, Len(q))) = Len(q) - n
  <1> DEFINE d == SubSeq(q, 1, n)
             rest == SubSeq(q, n + 1, Len(q))
  <1>1. /\ d \in Seq(Sent) /\ Len(d) = n
        /\ \A k \in 1..n : d[k] = q[k]
        /\ rest \in Seq(Sent) /\ Len(rest) = Len(q) - n
        /\ \A k \in 1..(Len(q) - n) : rest[k] = q[n + k]
    BY SplitFacts
  <1> HIDE DEF d, rest
  <1>2. /\ p \o d \in Seq(Sent) /\ Len(p \o d) = Len(p) + Len(d) /\ Prefix(p, p \o d)
        /\ \A k \in 1..Len(d) : (p \o d)[Len(p) + k] = d[k]
    <2>1. p \in Seq(Sent) /\ d \in Seq(Sent)
      BY <1>1
    <2> QED BY <2>1, JoinFacts, Zenon
  <1>3. Len(a) \in Nat /\ Len(p) \in Nat /\ Len(q) \in Nat
    OBVIOUS
  <1>4. r + Len(p) + Len(q) <= Len(a)
    BY DEF Carries
  <1>5. ASSUME NEW i \in 1..Len(p \o d) PROVE (p \o d)[i] = a[r + i]
    <2>1. CASE i <= Len(p)
      <3>1. i \in 1..Len(p)
        BY <2>1, <1>2, <1>3
      <3> QED BY <3>1, <1>2 DEF Prefix, Carries
    <2>2. CASE i > Len(p)
      <3> DEFINE k == i - Len(p)
      <3>1. /\ k \in 1..n /\ k \in 1..Len(q) /\ i = Len(p) + k
            /\ r + i = (r + Len(p)) + k
        BY <2>2, <1>1, <1>2, <1>3
      <3> HIDE DEF k
      <3>2. (p \o d)[i] = q[k] /\ q[k] = a[(r + Len(p)) + k]
        BY <3>1, <1>1, <1>2 DEF Carries
      <3> QED BY <3>1, <3>2
    <2> QED BY <2>1, <2>2, <1>3
  <1>6. ASSUME NEW i \in 1..Len(rest) PROVE rest[i] = a[(r + Len(p) + n) + i]
    <2>1. i \in 1..(Len(q) - n) /\ n + i \in 1..Len(q)
      BY <1>1, <1>3
    <2>2. rest[i] = q[n + i] /\ q[n + i] = a[(r + Len(p)) + (n + i)]
      BY <2>1, <1>1 DEF Carries
    <2>3. (r + Len(p)) + (n + i) = (r + Len(p) + n) + i
      BY <1>3
    <2> QED BY <2>2, <2>3
  <1>7. r + Len(p \o d) <= Len(a) /\ (r + Len(p) + n) + Len(rest) <= Len(a)
    BY <1>1, <1>2, <1>3, <1>4
  <1>8. Carries(a, r, p \o d) /\ Carries(a, r + Len(p) + n, rest)
    BY <1>5, <1>6, <1>7 DEF Carries
  <1>9. Len(p \o d) = Len(p) + n
    BY <1>1, <1>2
  <1> QED BY <1>1, <1>8, <1>9 DEF d, rest

(* To be a beginning is to be carried from the start. *)
LEMMA PrefixIsCarried ==
  ASSUME NEW a \in Seq(Sent), NEW q \in Seq(Sent)
  PROVE  Prefix(q, a) <=> Carries(a, 0, q)
  BY DEF Prefix, Carries

-----------------------------------------------------------------------------
(* What the steps that move bytes do, told by sequences.  FreeRTOS_send    *)
(* takes the next n bytes of its message. *)
Chunk(n) == SubSeq(Message(msg), MSG_SIZE - left + 1, MSG_SIZE - left + n)
LEMMA AcceptsFacts ==
  ASSUME TypeInv, Accepts
  PROVE  \E n \in 1..left :
           /\ tiva = "send" /\ conn \in Conns /\ msg \in 1..Messages
           /\ left \in 1..MSG_SIZE /\ MSG_SIZE - left \in Nat
           /\ Chunk(n) \in Seq(Sent) /\ Len(Chunk(n)) = n
           /\ \A k \in 1..n : Chunk(n)[k] = <<msg, (MSG_SIZE - left) + k>>
           /\ out' = out \o Chunk(n)
           /\ accepted' = [accepted EXCEPT ![conn] = accepted[conn] \o Chunk(n)]
           /\ left' = left - n
           /\ tiva' = IF left = n THEN "idle" ELSE "send"
           /\ UNCHANGED <<conn, msg, sockVars, backlog, inn, queue, main_rx, got, astray>>
  <1> USE Sizes
  <1> DEFINE n == Least(TxSize - Len(out), left)
  <1>1. /\ tiva = "send" /\ n > 0 /\ left \in 1..MSG_SIZE /\ msg \in 1..Messages
        /\ conn \in Conns
    BY DEF Accepts, TypeInv, Conns
  <1>2. n \in 1..left
    BY <1>1 DEF Least, TypeInv
  <1>3. MSG_SIZE - left \in Nat /\ n \in Nat /\ MSG_SIZE - left + n <= MSG_SIZE
    BY <1>1, <1>2
  <1>4. /\ out' = out \o Chunk(n)
        /\ accepted' = [accepted EXCEPT ![conn] = accepted[conn] \o Chunk(n)]
        /\ left' = left - n
        /\ tiva' = IF left' = 0 THEN "idle" ELSE "send"
        /\ UNCHANGED <<conn, msg, sockVars, backlog, inn, queue, main_rx, got, astray>>
    BY DEF Accepts, Chunk
  <1> HIDE DEF n
  <1>5. /\ Chunk(n) \in Seq(Sent) /\ Len(Chunk(n)) = n
        /\ \A k \in 1..n : Chunk(n)[k] = <<msg, (MSG_SIZE - left) + k>>
    BY <1>1, <1>3, ChunkFacts DEF Chunk
  <1>6. left' = 0 <=> left = n
    BY <1>1, <1>2, <1>4
  <1> QED BY <1>1, <1>2, <1>3, <1>4, <1>5, <1>6

(* TCP moves the first n bytes of the transmit stream to the other board.  *)
LEMMA ArrivesFacts ==
  ASSUME TypeInv, Arrives
  PROVE  \E n \in 1..Len(out) :
           /\ tiva # "connect" /\ conn \in Conns
           /\ inn' = [inn EXCEPT ![conn] = inn[conn] \o SubSeq(out, 1, n)]
           /\ out' = SubSeq(out, n + 1, Len(out))
           /\ UNCHANGED <<tivaVars, sockVars, backlog, queue, main_rx, history>>
  <1>1. PICK n \in 1..Len(out) :
           /\ inn' = [inn EXCEPT ![conn] = inn[conn] \o SubSeq(out, 1, n)]
           /\ out' = SubSeq(out, n + 1, Len(out))
           /\ UNCHANGED <<tivaVars, sockVars, backlog, queue, main_rx, history>>
    BY DEF Arrives
  <1>2. tiva # "connect" /\ conn \in Conns
    BY Sizes DEF TypeInv, Conns
  <1> QED BY <1>1, <1>2

(* The socket thread reads the first n bytes the kernel holds. *)
LEMMA SockReadFacts ==
  ASSUME TypeInv, SockRead
  PROVE  \E n \in 1..MSG_SIZE :
           /\ n <= Len(inn[socket_conn]) /\ socket_conn \in Conns /\ socket_conn # 0
           /\ sock = "read" /\ sock' = "send"
           /\ n < MSG_SIZE => n = Len(inn[socket_conn])
           /\ inn[socket_conn] \in Seq(Sent)
           /\ inn' = [inn EXCEPT ![socket_conn] =
                        SubSeq(inn[socket_conn], n + 1, Len(inn[socket_conn]))]
           /\ got' = got \o SubSeq(inn[socket_conn], 1, n)
           /\ socket_msg' \in Buffer
           /\ \A k \in 1..n : socket_msg'[k] = inn[socket_conn][k]
           /\ astray' = (astray \/ n < MSG_SIZE)
           /\ UNCHANGED <<tivaVars, out, socket_conn, backlog, queue, main_rx, accepted>>
  <1> USE Sizes
  <1> DEFINE n == Least(Len(Waiting), MSG_SIZE)
             data == SubSeq(Waiting, 1, n)
  <1>1. sock = "read" /\ socket_conn \in Conns /\ socket_conn # 0 /\ n > 0 /\ sock' = "send"
    BY DEF SockRead, SockReadOf, TypeInv, Conns
  <1>2. Waiting = inn[socket_conn] /\ Waiting \in Seq(Sent)
    BY <1>1 DEF Waiting, TypeInv
  <1>3. /\ n \in Nat /\ n <= Len(Waiting) /\ n <= MSG_SIZE
        /\ n < MSG_SIZE => n = Len(Waiting)
    <2>1. Len(Waiting) \in Nat
      BY <1>2
    <2> QED BY <2>1 DEF Least
  <1>4. /\ data \in Seq(Sent) /\ Len(data) = n
        /\ \A k \in 1..n : data[k] = Waiting[k]
    BY <1>2, <1>3, SplitFacts
  <1>5. /\ inn' = [inn EXCEPT ![socket_conn] = SubSeq(Waiting, n + 1, Len(Waiting))]
        /\ socket_msg' = data \o SubSeq(socket_msg, Len(data) + 1, MSG_SIZE)
        /\ got' = got \o data
        /\ astray' = (astray \/ Len(data) < MSG_SIZE)
        /\ UNCHANGED <<tivaVars, out, socket_conn, backlog, queue, main_rx, accepted>>
    BY <1>2 DEF SockRead, SockReadOf
  <1>6. n \in 1..MSG_SIZE
    BY <1>1, <1>3
  <1> HIDE DEF data, n
  <1>7. /\ socket_msg' \in Buffer
        /\ \A k \in 1..n : socket_msg'[k] = data[k]
    BY <1>3, <1>4, <1>5, FilledFacts DEF TypeInv
  <1>8. got' = got \o SubSeq(Waiting, 1, n)
    BY <1>5 DEF data
  <1> QED BY <1>1, <1>2, <1>3, <1>4, <1>5, <1>6, <1>7, <1>8

(* After accept the thread keeps its connection: the steps that neither    *)
(* accept one nor read leave what was read of each. *)
LEMMA ReadFacts ==
  ASSUME TypeInv
  PROVE  /\ \A c \in Conns : Read(c) \in Nat
         /\ Len(got) \in Nat /\ Read(socket_conn) = Len(got)
         /\ UNCHANGED <<socket_conn, got>> => \A c \in Conns : Read(c)' = Read(c)
  BY DEF TypeInv, Read

-----------------------------------------------------------------------------
(* The way holds at the start ... *)
LEMMA WayInit == Init => WayInv
  <1> SUFFICES ASSUME Init PROVE WayInv
    OBVIOUS
  <1>1. \A c \in Conns : accepted[c] = <<>> /\ inn[c] = <<>>
    BY DEF Init
  <1>2. socket_conn = 0 /\ got = <<>> /\ tiva = "connect" /\ \A c \in Conns : Read(c) = 0
    BY DEF Init, Read
  <1>3. \A c \in Conns : Carries(accepted[c], Read(c), inn[c])
    BY <1>1, <1>2 DEF Carries
  <1> QED BY <1>1, <1>2, <1>3 DEF WayInv

(* ... and every step keeps it. *)
LEMMA WayNext == TypeInv /\ WayInv /\ [Next]_vars => WayInv'
  <1> SUFFICES ASSUME TypeInv, WayInv, [Next]_vars PROVE WayInv'
    OBVIOUS
  <1> USE Sizes
  <1>0. /\ accepted \in [Conns -> Seq(Sent)] /\ inn \in [Conns -> Seq(Sent)]
        /\ out \in Seq(Sent) /\ got \in Seq(Sent)
        /\ \A c \in Conns : Read(c) \in Nat
        /\ Len(got) \in Nat /\ Read(socket_conn) = Len(got)
        /\ UNCHANGED <<socket_conn, got>> => \A c \in Conns : Read(c)' = Read(c)
    BY ReadFacts DEF TypeInv
  <1>1. CASE tiva_open_socket
    <2>1. /\ tiva = "connect" /\ out = <<>> /\ conn' = conn + 1 /\ conn' \in Conns
          /\ conn' > conn /\ socket_conn <= conn /\ conn' # socket_conn
          /\ UNCHANGED <<out, inn, accepted, socket_conn, got>>
      BY <1>1 DEF tiva_open_socket, TypeInv, Conns, sockVars, history
    <2>2. accepted[conn'] = <<>> /\ inn[conn'] = <<>> /\ Read(conn') = 0
      BY <2>1 DEF WayInv, Read
    <2>3. Carries(accepted[conn'], Read(conn') + Len(inn[conn']), out)
      BY <2>1, <2>2 DEF Carries
    <2>4. Read(conn') + Len(inn[conn']) + Len(out) = Len(accepted[conn'])
      BY <2>1, <2>2
    <2>5. \A c \in Conns : c > conn' => c > conn
      BY <2>1 DEF Conns, TypeInv
    <2>6. Read(conn)' = Read(conn')
      BY <2>1 DEF Read
    <2> QED BY <1>0, <2>1, <2>3, <2>4, <2>5, <2>6 DEF WayInv
  <1>2. CASE MainSends
    <2>1. /\ UNCHANGED <<conn, out, inn, accepted, socket_conn, got>>
          /\ tiva # "connect" /\ tiva' # "connect"
      BY <1>2 DEF MainSends, sockVars, history
    <2> QED BY <1>0, <2>1 DEF WayInv, Read
  <1>3. CASE Accepts
    <2>1. PICK n \in 1..left :
            /\ tiva = "send" /\ conn \in Conns
            /\ Chunk(n) \in Seq(Sent)
            /\ out' = out \o Chunk(n)
            /\ accepted' = [accepted EXCEPT ![conn] = accepted[conn] \o Chunk(n)]
            /\ tiva' = IF left = n THEN "idle" ELSE "send"
            /\ UNCHANGED <<conn, sockVars, inn, got>>
      BY <1>3, AcceptsFacts
    <2>2. UNCHANGED <<conn, inn, socket_conn, got>> /\ tiva' # "connect"
      BY <2>1 DEF sockVars
    <2> DEFINE d == Chunk(n)
               r == Read(conn) + Len(inn[conn])
               a == accepted[conn]
    <2>3. r \in Nat /\ Len(inn[conn]) \in Nat /\ a \in Seq(Sent) /\ out \in Seq(Sent)
      BY <1>0, <2>1
    <2>4. Carries(a, r, out) /\ r + Len(out) = Len(a)
      BY <2>1 DEF WayInv
    <2>5. d \in Seq(Sent)
      BY <2>1
    <2> HIDE DEF d, r, a
    <2>6. Carries(a \o d, r, out \o d) /\ r + Len(out \o d) = Len(a \o d)
      BY <2>3, <2>4, <2>5, CarriesAppend
    <2>7. a \o d \in Seq(Sent) /\ Prefix(a, a \o d)
      BY <2>3, <2>5, JoinFacts
    <2>8. /\ accepted'[conn] = a \o d
          /\ \A c \in Conns : c # conn => accepted'[c] = accepted[c]
      BY <1>0, <2>1 DEF d, a
    <2>9. ASSUME NEW c \in Conns
          PROVE  Prefix(accepted[c], accepted'[c]) /\ accepted'[c] \in Seq(Sent)
      <3>1. CASE c = conn
        BY <2>7, <2>8, <3>1 DEF a
      <3>2. CASE c # conn
        <4>1. accepted'[c] = accepted[c] /\ accepted[c] \in Seq(Sent)
          BY <1>0, <2>8, <3>2
        <4> QED BY <4>1 DEF Prefix
      <3> QED BY <3>1, <3>2
    <2>10. \A c \in Conns : Carries(accepted'[c], Read(c), inn[c])
      <3> TAKE c \in Conns
      <3>1. Carries(accepted[c], Read(c), inn[c])
        BY DEF WayInv
      <3> QED BY <1>0, <2>9, <3>1, CarriesGrow
    <2>11. socket_conn # 0 => Prefix(got, accepted'[socket_conn])
      <3> SUFFICES ASSUME socket_conn # 0 PROVE Prefix(got, accepted'[socket_conn])
        OBVIOUS
      <3>1. socket_conn \in Conns /\ Prefix(got, accepted[socket_conn])
        BY DEF WayInv, TypeInv, Conns
      <3>2. Carries(accepted'[socket_conn], 0, got)
        BY <1>0, <2>9, <3>1, PrefixIsCarried, CarriesGrow
      <3> QED BY <1>0, <2>9, <3>1, <3>2, PrefixIsCarried
    <2>12. \A c \in Conns : c > conn => accepted'[c] = <<>> /\ inn[c] = <<>>
      <3> TAKE c \in Conns
      <3>1. c > conn => c # conn
        BY DEF TypeInv, Conns
      <3> QED BY <2>8, <3>1 DEF WayInv
    <2>13. /\ Carries(accepted'[conn], Read(conn) + Len(inn[conn]), out')
           /\ Read(conn) + Len(inn[conn]) + Len(out') = Len(accepted'[conn])
      BY <2>1, <2>6, <2>8 DEF d, r, a
    <2>14. Read(conn)' = Read(conn)
      BY <2>2 DEF Read
    <2> QED BY <1>0, <2>2, <2>10, <2>11, <2>12, <2>13, <2>14 DEF WayInv
  <1>4. CASE GivesUp
    <2>1. /\ UNCHANGED <<conn, out, inn, accepted, socket_conn, got>>
          /\ tiva # "connect" /\ tiva' # "connect"
      BY <1>4 DEF GivesUp, sockVars
    <2> QED BY <1>0, <2>1 DEF WayInv, Read
  <1>5. CASE Reset
    <2>1. UNCHANGED <<conn, inn, accepted, socket_conn, got>> /\ tiva' = "connect"
      BY <1>5 DEF Reset, sockVars, history
    <2> QED BY <1>0, <2>1 DEF WayInv
  <1>6. CASE Arrives
    <2>1. PICK n \in 1..Len(out) :
            /\ tiva # "connect" /\ conn \in Conns
            /\ inn' = [inn EXCEPT ![conn] = inn[conn] \o SubSeq(out, 1, n)]
            /\ out' = SubSeq(out, n + 1, Len(out))
            /\ UNCHANGED <<tivaVars, sockVars, backlog, queue, main_rx, history>>
      BY <1>6, ArrivesFacts
    <2>2. UNCHANGED <<tiva, conn, accepted, socket_conn, got>>
      BY <2>1 DEF tivaVars, sockVars, history
    <2> DEFINE a == accepted[conn]
               p == inn[conn]
               r == Read(conn)
    <2>3. /\ a \in Seq(Sent) /\ p \in Seq(Sent) /\ r \in Nat /\ n \in Nat /\ n <= Len(out)
          /\ out \in Seq(Sent)
      BY <1>0, <2>1
    <2>4. Carries(a, r, p) /\ Carries(a, r + Len(p), out) /\ r + Len(p) + Len(out) = Len(a)
      BY <2>1 DEF WayInv
    <2> HIDE DEF a, p, r
    <2>5. /\ Carries(a, r, p \o SubSeq(out, 1, n))
          /\ Len(p \o SubSeq(out, 1, n)) = Len(p) + n
          /\ Carries(a, r + Len(p) + n, SubSeq(out, n + 1, Len(out)))
          /\ Len(SubSeq(out, n + 1, Len(out))) = Len(out) - n
      BY <2>3, <2>4, CarriesMove
    <2>6. /\ inn'[conn] = p \o SubSeq(out, 1, n)
          /\ \A c \in Conns : c # conn => inn'[c] = inn[c]
      BY <1>0, <2>1 DEF p
    <2>7. \A c \in Conns : Carries(accepted[c], Read(c), inn'[c])
      BY <2>5, <2>6 DEF WayInv, a, r
    <2>8. \A c \in Conns : c > conn => accepted[c] = <<>> /\ inn'[c] = <<>>
      <3> TAKE c \in Conns
      <3>1. c > conn => c # conn
        BY DEF TypeInv, Conns
      <3> QED BY <2>6, <3>1 DEF WayInv
    <2>9. Len(p) \in Nat /\ Len(out) \in Nat /\ Len(inn'[conn]) = Len(p) + n
      BY <2>3, <2>5, <2>6
    <2>10. r + Len(inn'[conn]) = r + Len(p) + n
      BY <2>3, <2>9
    <2>11. r + Len(inn'[conn]) + (Len(out) - n) = Len(a)
      <3>1. \A x, y, z, k \in Nat : x + (y + k) + (z - k) = x + y + z
        OBVIOUS
      <3>2. r + Len(p) + Len(out) = Len(a)
        BY <2>4
      <3>3. r + (Len(p) + n) + (Len(out) - n) = r + Len(p) + Len(out)
        BY <2>3, <2>9, <3>1
      <3> QED BY <2>9, <3>2, <3>3
    <2>12. /\ Carries(accepted[conn], Read(conn) + Len(inn'[conn]), out')
           /\ Read(conn) + Len(inn'[conn]) + Len(out') = Len(accepted[conn])
      BY <2>1, <2>5, <2>10, <2>11 DEF a, r
    <2>13. Read(conn)' = Read(conn)
      BY <2>2 DEF Read
    <2> QED BY <1>0, <2>1, <2>2, <2>7, <2>8, <2>12, <2>13 DEF WayInv
  <1>7. CASE SockListen
    <2>1. UNCHANGED <<tiva, conn, out, inn, accepted, socket_conn, got>>
      BY <1>7 DEF SockListen, tivaVars, history
    <2> QED BY <1>0, <2>1 DEF WayInv, Read
  <1>8. CASE SockAccept
    <2>1. /\ UNCHANGED <<tiva, conn, out, inn, accepted, got>>
          /\ socket_conn = 0 /\ got = <<>>
      BY <1>8 DEF SockAccept, tivaVars, history, TypeInv, WayInv
    <2>2. \A c : Read(c)' = 0 /\ Read(c) = 0
      BY <2>1 DEF Read
    <2>3. (\A c \in Conns : Carries(accepted[c], Read(c), inn[c]))'
      BY <2>1, <2>2 DEF WayInv
    <2>4. Read(conn)' = Read(conn)
      BY <2>1, <2>2
    <2>5. (socket_conn # 0 => Prefix(got, accepted[socket_conn]))'
      <3>1. socket_conn' \in 0..Resets + 1
        BY TypeNext DEF TypeInv
      <3>2. socket_conn' # 0 => accepted'[socket_conn'] \in Seq(Sent)
        BY <1>0, <2>1, <3>1 DEF Conns
      <3> QED BY <2>1, <3>2 DEF Prefix
    <2> QED BY <2>1, <2>3, <2>4, <2>5 DEF WayInv
  <1>9. CASE SockRead
    <2> DEFINE s == socket_conn
               q == inn[s]
               a == accepted[s]
    <2>1. PICK n \in 1..MSG_SIZE :
            /\ n <= Len(q) /\ s \in Conns /\ s # 0
            /\ q \in Seq(Sent)
            /\ inn' = [inn EXCEPT ![s] = SubSeq(q, n + 1, Len(q))]
            /\ got' = got \o SubSeq(q, 1, n)
            /\ UNCHANGED <<tivaVars, out, socket_conn, accepted>>
      BY <1>9, SockReadFacts
    <2>2. UNCHANGED <<tiva, conn, out, accepted, socket_conn>>
      BY <2>1 DEF tivaVars
    <2>3. a \in Seq(Sent) /\ Carries(a, Len(got), q) /\ Prefix(got, a)
      BY <1>0, <2>1 DEF WayInv
    <2> HIDE DEF q, a
    <2>4. /\ Carries(a, 0, got) /\ Carries(a, 0 + Len(got), q) /\ 0 + Len(got) = Len(got)
          /\ n \in Nat /\ 0 \in Nat
      BY <1>0, <2>1, <2>3, PrefixIsCarried
    <2>5. /\ Carries(a, 0, got \o SubSeq(q, 1, n))
          /\ Len(got \o SubSeq(q, 1, n)) = Len(got) + n
          /\ Carries(a, 0 + Len(got) + n, SubSeq(q, n + 1, Len(q)))
          /\ Len(SubSeq(q, n + 1, Len(q))) = Len(q) - n
      BY <1>0, <2>1, <2>3, <2>4, CarriesMove
    <2>6. Prefix(got', a) /\ Len(got') = Len(got) + n
      <3>1. got' \in Seq(Sent)
        BY TypeNext DEF TypeInv
      <3> QED BY <2>1, <2>3, <2>5, <3>1, PrefixIsCarried
    <2>7. /\ Read(s)' = Len(got) + n
          /\ \A c \in Conns : c # s => Read(c)' = Read(c)
      BY <2>2, <2>6 DEF Read
    <2>8. /\ inn'[s] = SubSeq(q, n + 1, Len(q))
          /\ \A c \in Conns : c # s => inn'[c] = inn[c]
      BY <1>0, <2>1
    <2>9. ASSUME NEW c \in Conns PROVE Carries(accepted[c], Read(c), inn[c])'
      <3>1. CASE c = s
        BY <2>2, <2>4, <2>5, <2>7, <2>8, <3>1 DEF a
      <3>2. CASE c # s
        <4>1. Carries(accepted[c], Read(c), inn[c])
          BY DEF WayInv
        <4> QED BY <2>2, <2>7, <2>8, <3>2, <4>1
      <3> QED BY <3>1, <3>2
    <2>10. ASSUME NEW c \in Conns
           PROVE  Read(c)' + Len(inn'[c]) = Read(c) + Len(inn[c])
      <3>1. CASE c # s
        BY <2>7, <2>8, <3>1
      <3>2. CASE c = s
        <4>1. Len(q) \in Nat /\ Len(got) \in Nat /\ n \in Nat
          BY <1>0, <2>1
        <4>2. Read(c)' = Len(got) + n /\ Read(c) = Len(got) /\ inn[c] = q
          BY <1>0, <2>2, <2>7, <3>2 DEF q
        <4>3. Len(inn'[c]) = Len(q) - n
          BY <2>5, <2>8, <3>2
        <4>4. (Len(got) + n) + (Len(q) - n) = Len(got) + Len(q)
          BY <4>1
        <4> QED BY <4>2, <4>3, <4>4
      <3> QED BY <3>1, <3>2
    <2>11. ASSUME NEW c \in Conns, c > conn' PROVE (accepted[c] = <<>> /\ inn[c] = <<>>)'
      <3>1. s <= conn /\ c # s
        BY <2>2, <2>11 DEF TypeInv, Conns
      <3> QED BY <2>2, <2>8, <2>11, <3>1 DEF WayInv
    <2>12. (tiva # "connect" =>
              /\ Carries(accepted[conn], Read(conn) + Len(inn[conn]), out)
              /\ Read(conn) + Len(inn[conn]) + Len(out) = Len(accepted[conn]))'
      <3> SUFFICES ASSUME tiva # "connect"
                   PROVE (/\ Carries(accepted[conn], Read(conn) + Len(inn[conn]), out)
                          /\ Read(conn) + Len(inn[conn]) + Len(out) = Len(accepted[conn]))'
        BY <2>2
      <3>1. conn \in Conns
        BY DEF TypeInv, Conns
      <3>2. Read(conn)' + Len(inn'[conn]) = Read(conn) + Len(inn[conn])
        BY <2>2, <2>10, <3>1 DEF Read
      <3> QED BY <2>2, <3>2 DEF WayInv
    <2>13. (socket_conn = 0 => got = <<>>)' /\ (socket_conn # 0 => Prefix(got, accepted[socket_conn]))'
      BY <2>1, <2>2, <2>6 DEF a
    <2> QED BY <2>2, <2>9, <2>11, <2>12, <2>13 DEF WayInv
  <1>10. CASE SockSend
    <2>1. UNCHANGED <<tiva, conn, out, inn, accepted, socket_conn, got>>
      BY <1>10 DEF SockSend, tivaVars
    <2> QED BY <1>0, <2>1 DEF WayInv, Read
  <1>11. CASE MainRecv
    <2>1. UNCHANGED <<tiva, conn, out, inn, accepted, socket_conn, got>>
      BY <1>11 DEF MainRecv, tivaVars, sockVars, history
    <2> QED BY <1>0, <2>1 DEF WayInv, Read
  <1>12. CASE UNCHANGED vars
    <2>1. UNCHANGED <<tiva, conn, out, inn, accepted, socket_conn, got>>
      BY <1>12 DEF vars, tivaVars, sockVars, history
    <2> QED BY <1>0, <2>1 DEF WayInv, Read
  <1> QED BY <1>1, <1>2, <1>3, <1>4, <1>5, <1>6, <1>7, <1>8, <1>9, <1>10, <1>11,
             <1>12 DEF Next, Tiva, Sock

-----------------------------------------------------------------------------
(* The connection implements ByteStream: a step of FreeRTOS_send on the    *)
(* connection that is served, or the accept of a connection that bytes     *)
(* already came on, is Accept; a read is Receive; any other step stutters. *)
Stream == IF socket_conn = 0 THEN <<>> ELSE accepted[socket_conn]

(* A beginning is what ByteStream says is extended. *)
LEMMA ExtendsFacts ==
  ASSUME NEW s \in Seq(Sent), NEW t \in Seq(Sent), Prefix(t, s)
  PROVE  Served!Extends(s, t)
  BY PrefixFacts DEF Served!Extends

(* Every step is one of ByteStream or leaves it. *)
LEMMA ServedNext ==
  TypeInv /\ TypeInv' /\ WayInv /\ WayInv' /\ [Next]_vars
    => [Served!StreamNext]_<<Stream, got>>
  <1> SUFFICES ASSUME TypeInv, TypeInv', WayInv, WayInv', [Next]_vars
               PROVE  [Served!StreamNext]_<<Stream, got>>
    OBVIOUS
  <1>0. Stream \in Seq(Sent) /\ Stream' \in Seq(Sent) /\ got \in Seq(Sent) /\ got' \in Seq(Sent)
    <2>1. <<>> \in Seq(Sent)
      OBVIOUS
    <2>2. socket_conn # 0 => socket_conn \in Conns
      BY Sizes DEF TypeInv, Conns
    <2>3. socket_conn' # 0 => socket_conn' \in Conns
      BY Sizes DEF TypeInv, Conns
    <2>4. accepted \in [Conns -> Seq(Sent)] /\ accepted' \in [Conns -> Seq(Sent)]
      BY DEF TypeInv
    <2>5. Stream \in Seq(Sent)
      BY <2>1, <2>2, <2>4 DEF Stream
    <2>6. Stream' \in Seq(Sent)
      BY <2>1, <2>3, <2>4 DEF Stream
    <2> QED BY <2>5, <2>6 DEF TypeInv
  <1>1. CASE Accepts
    <2>1. PICK n \in 1..left :
            /\ conn \in Conns /\ Chunk(n) \in Seq(Sent)
            /\ accepted' = [accepted EXCEPT ![conn] = accepted[conn] \o Chunk(n)]
            /\ UNCHANGED <<sockVars, got>>
      BY <1>1, AcceptsFacts
    <2>2. accepted[conn] \in Seq(Sent)
      BY <2>1 DEF TypeInv
    <2>3. Prefix(accepted[conn], accepted[conn] \o Chunk(n))
      BY <2>1, <2>2, JoinFacts
    <2>4. Prefix(Stream, Stream')
      <3>1. CASE socket_conn = conn /\ conn # 0
        BY <2>1, <2>3, <3>1 DEF Stream, sockVars, TypeInv
      <3>2. CASE socket_conn # conn \/ conn = 0
        <4>1. Stream' = Stream
          BY <2>1, <3>2, Sizes DEF Stream, sockVars, TypeInv, Conns
        <4> QED BY <1>0, <4>1 DEF Prefix
      <3> QED BY <3>1, <3>2
    <2> QED BY <1>0, <2>1, <2>4, ExtendsFacts DEF Served!StreamNext, Served!Accept, Stream
  <1>2. CASE SockAccept
    <2>1. socket_conn = 0 /\ got' = got
      BY <1>2 DEF SockAccept, TypeInv, history
    <2>2. Prefix(Stream, Stream')
      BY <1>0, <2>1 DEF Stream, Prefix
    <2> QED BY <1>0, <2>1, <2>2, ExtendsFacts DEF Served!StreamNext, Served!Accept, Stream
  <1>3. CASE SockRead
    <2>1. PICK n \in 1..MSG_SIZE :
            /\ n <= Len(inn[socket_conn]) /\ socket_conn # 0
            /\ inn[socket_conn] \in Seq(Sent)
            /\ got' = got \o SubSeq(inn[socket_conn], 1, n)
            /\ UNCHANGED <<socket_conn, accepted>>
      BY <1>3, SockReadFacts
    <2>2. SubSeq(inn[socket_conn], 1, n) \in Seq(Sent)
      BY <2>1, SplitFacts
    <2>3. Prefix(got, got') /\ Prefix(got', Stream) /\ Stream' = Stream
      BY <1>0, <2>1, <2>2, JoinFacts DEF WayInv, Stream
    <2> QED BY <1>0, <2>3, ExtendsFacts DEF Served!StreamNext, Served!Receive, Stream
  <1>4. CASE UNCHANGED <<socket_conn, accepted, got>>
    BY <1>4 DEF Stream
  <1> QED BY <1>1, <1>2, <1>3, <1>4
       DEF Next, Tiva, Sock, vars, tiva_open_socket, MainSends, GivesUp, Reset,
           Arrives, SockListen, SockSend, MainRecv, sockVars, history

(* The bytes of the connection that is served are read in order, none      *)
(* twice and none left out, for every size of messages and streams and any *)
(* number of cuts, short reads and resets (ImplementsStream). *)
THEOREM LinkStreamCorrect == Spec => ImplementsStream
  <1>1. Init => TypeInv /\ WayInv
    BY TypeInit, WayInit
  <1>2. TypeInv /\ WayInv /\ [Next]_vars => TypeInv' /\ WayInv'
    BY TypeNext, WayNext
  <1>3. Init => Served!StreamInit
    BY DEF Init, Served!StreamInit
  <1>4. TypeInv /\ TypeInv' /\ WayInv /\ WayInv' /\ [Next]_vars
          => [Served!StreamNext]_<<IF socket_conn = 0 THEN <<>> ELSE accepted[socket_conn], got>>
    BY ServedNext DEF Stream
  <1> QED BY <1>1, <1>2, <1>3, <1>4, PTL DEF Spec, ImplementsStream, Served!StreamSpec

-----------------------------------------------------------------------------
(* Lemmas on boundaries.  What the next n bytes of message m add, d of     *)
(* which are there already. *)
Continued(a, b, m, d, n) ==
  /\ Len(b) = Len(a) + n /\ Prefix(a, b)
  /\ \A k \in 1..n : b[Len(a) + k] = <<m, d + k>>

GoesOn(a, b, r, m, d, n, end) ==
  /\ end \in Nat /\ r <= end /\ end <= Len(a) /\ Len(b) = end + d + n
  /\ Len(a) \in Nat /\ Len(a) = end + d
  /\ \A i \in 1..Len(a) : b[i] = a[i]
  /\ \A p \in end+1..Len(b) : b[p] = <<m, p - end>>

(* Behind the end of the whole messages are the bytes of m from the first. *)
LEMMA ContinuedFacts ==
  ASSUME NEW a \in Seq(Sent), NEW b \in Seq(Sent), NEW r \in Nat, NEW m \in Nat,
         NEW d \in Nat, NEW n \in Nat, EndsIn(a, r, m, d), Continued(a, b, m, d, n)
  PROVE  GoesOn(a, b, r, m, d, n, Len(a) - d)
  <1> DEFINE end == Len(a) - d
  <1>1. Len(a) \in Nat /\ Len(b) = Len(a) + n /\ r + d <= Len(a)
    BY DEF EndsIn, Continued
  <1>2. end \in Nat /\ r <= end /\ end <= Len(a) /\ Len(b) = end + d + n /\ Len(a) = end + d
    BY <1>1
  <1>3. \A i \in 1..Len(a) : b[i] = a[i]
    BY DEF Continued, Prefix
  <1>4. ASSUME NEW p \in end+1..Len(b) PROVE b[p] = <<m, p - end>>
    <2> DEFINE k == p - end
    <2>1. k \in Nat /\ k >= 1 /\ k <= d + n /\ p = end + k
      BY <1>1, <1>2
    <2>2. CASE k <= d
      <3>1. k \in 1..d /\ p \in 1..Len(a)
        BY <1>2, <2>1, <2>2
      <3>2. a[end + k] = <<m, k>>
        BY <3>1 DEF EndsIn
      <3> QED BY <1>3, <2>1, <3>1, <3>2
    <2>3. CASE k > d
      <3>1. k - d \in 1..n /\ p = Len(a) + (k - d) /\ d + (k - d) = k
        BY <1>2, <2>1, <2>3
      <3>2. b[Len(a) + (k - d)] = <<m, d + (k - d)>>
        BY <3>1 DEF Continued
      <3> QED BY <3>1, <3>2
    <2> QED BY <2>1, <2>2, <2>3
  <1> QED BY <1>1, <1>2, <1>3, <1>4 DEF GoesOn

(* Messages stay in line when the next bytes of one are accepted. *)
LEMMA AlignedContinues ==
  ASSUME NEW a \in Seq(Sent), NEW b \in Seq(Sent), NEW r \in Nat, NEW m \in Nat,
         NEW d \in Nat, NEW n \in Nat \ {0}, d + n <= MSG_SIZE,
         Aligned(a, r), EndsIn(a, r, m, d), Continued(a, b, m, d, n)
  PROVE  Aligned(b, r)
  <1> USE Sizes
  <1> DEFINE end == Len(a) - d
  <1>1. /\ end \in Nat /\ r <= end /\ end <= Len(a) /\ Len(b) = end + d + n
        /\ Len(a) \in Nat /\ Len(a) = end + d
        /\ \A i \in 1..Len(a) : b[i] = a[i]
        /\ \A p \in end+1..Len(b) : b[p] = <<m, p - end>>
    <2>1. n \in Nat
      OBVIOUS
    <2>2. GoesOn(a, b, r, m, d, n, end)
      BY <2>1, ContinuedFacts
    <2> HIDE DEF end
    <2> QED BY <2>2 DEF GoesOn
  <1>2. \A i \in r+1..end : a[i][2] = 1 => i + MSG_SIZE - 1 <= end
    BY DEF EndsIn
  <1> HIDE DEF end
  <1>3. ASSUME r < Len(b) PROVE b[r + 1][2] = 1
    <2>1. CASE r < end
      <3>1. r + 1 \in 1..Len(a) /\ r < Len(a)
        BY <1>1, <2>1
      <3> QED BY <1>1, <3>1 DEF Aligned
    <2>2. CASE r = end
      <3>1. r + 1 \in end+1..Len(b) /\ (r + 1) - end = 1
        BY <1>1, <1>3, <2>2
      <3> QED BY <1>1, <3>1
    <2> QED BY <1>1, <2>1, <2>2
  <1>4. ASSUME NEW i \in r+1..Len(b), NEW j \in r+1..Len(b), b[i][2] = 1, i <= j
        PROVE  /\ j < i + MSG_SIZE => b[j] = <<b[i][1], j - i + 1>>
               /\ j = i + MSG_SIZE => b[j][2] = 1
    <2>1. CASE i <= end
      <3>1. i \in 1..Len(a) /\ i \in r+1..end /\ i \in r+1..Len(a) /\ b[i] = a[i]
        BY <1>1, <2>1
      <3>2. i + MSG_SIZE - 1 <= end
        BY <1>2, <1>4, <3>1
      <3>3. CASE j <= Len(a)
        <4>1. j \in 1..Len(a) /\ j \in r+1..Len(a) /\ b[j] = a[j]
          BY <1>1, <3>3
        <4> QED BY <1>4, <3>1, <4>1 DEF Aligned
      <3>4. CASE j > Len(a)
        <4>1. ~(j < i + MSG_SIZE) /\ j \in end+1..Len(b)
          BY <1>1, <3>1, <3>2, <3>4
        <4>2. j = i + MSG_SIZE => j - end = 1
          BY <1>1, <3>1, <3>2, <4>1
        <4>3. b[j] = <<m, j - end>>
          BY <1>1, <4>1
        <4>4. j = i + MSG_SIZE => b[j] = <<m, 1>>
          BY <4>2, <4>3
        <4> QED BY <4>1, <4>4
      <3>5. j <= Len(a) \/ j > Len(a)
        BY <1>1
      <3> QED BY <3>3, <3>4, <3>5
    <2>2. CASE i > end
      <3>1. i \in end+1..Len(b) /\ j \in end+1..Len(b)
        BY <1>1, <1>4, <2>2
      <3>2. b[i] = <<m, i - end>> /\ b[j] = <<m, j - end>>
        BY <1>1, <3>1
      <3>3. i = end + 1
        BY <1>1, <1>4, <3>1, <3>2
      <3>4. j - end = j - i + 1
        BY <1>1, <3>1, <3>3
      <3>5. j # i + MSG_SIZE
        <4>1. Len(b) <= end + MSG_SIZE /\ j <= Len(b)
          BY <1>1, <3>1
        <4> QED BY <1>1, <3>1, <3>3, <4>1
      <3>6. b[i][1] = m /\ b[j] = <<m, j - i + 1>>
        BY <3>2, <3>4
      <3>7. b[j] = <<b[i][1], j - i + 1>>
        BY <3>6
      <3> QED BY <3>5, <3>7
    <2>3. i <= end \/ i > end
      BY <1>1
    <2> QED BY <2>1, <2>2, <2>3
  <1> QED BY <1>3, <1>4 DEF Aligned

(* The stream then ends in those bytes of m; with the last byte of m it    *)
(* ends in a whole message, and none is under way. *)
LEMMA EndContinues ==
  ASSUME NEW a \in Seq(Sent), NEW b \in Seq(Sent), NEW r \in Nat, NEW m \in Nat,
         NEW d \in Nat, NEW n \in Nat, d + n <= MSG_SIZE,
         EndsIn(a, r, m, d), Continued(a, b, m, d, n)
  PROVE  /\ EndsIn(b, r, m, d + n)
         /\ d + n = MSG_SIZE => EndsIn(b, r, m, 0)
  <1> USE Sizes
  <1> DEFINE end == Len(a) - d
  <1>1. /\ end \in Nat /\ r <= end /\ end <= Len(a) /\ Len(b) = end + d + n
        /\ Len(a) \in Nat /\ Len(a) = end + d
        /\ \A i \in 1..Len(a) : b[i] = a[i]
        /\ \A p \in end+1..Len(b) : b[p] = <<m, p - end>>
    <2>1. n \in Nat
      OBVIOUS
    <2>2. GoesOn(a, b, r, m, d, n, end)
      BY <2>1, ContinuedFacts
    <2> HIDE DEF end
    <2> QED BY <2>2 DEF GoesOn
  <1>2. \A i \in r+1..end : a[i][2] = 1 => i + MSG_SIZE - 1 <= end
    BY DEF EndsIn
  <1> HIDE DEF end
  <1>3. Len(b) - (d + n) = end /\ r + (d + n) <= Len(b) /\ r + 0 <= Len(b) /\ Len(b) - 0 = Len(b)
    BY <1>1
  <1>4. ASSUME NEW i \in r+1..end, b[i][2] = 1 PROVE i + MSG_SIZE - 1 <= end
    <2>1. i \in 1..Len(a)
      BY <1>1
    <2> QED BY <1>1, <1>2, <1>4, <2>1
  <1>5. ASSUME NEW k \in 1..d + n PROVE b[end + k] = <<m, k>>
    <2>1. end + k \in end+1..Len(b) /\ (end + k) - end = k
      BY <1>1
    <2> QED BY <1>1, <2>1
  <1>6. EndsIn(b, r, m, d + n)
    BY <1>3, <1>4, <1>5 DEF EndsIn
  <1>7. ASSUME d + n = MSG_SIZE, NEW i \in r+1..Len(b), b[i][2] = 1
        PROVE  i + MSG_SIZE - 1 <= Len(b)
    <2>1. CASE i <= end
      <3>1. i \in r+1..end
        BY <1>1, <2>1
      <3> QED BY <1>1, <1>4, <1>7, <3>1
    <2>2. CASE i > end
      <3>1. i \in end+1..Len(b)
        BY <1>1, <2>2
      <3>2. b[i] = <<m, i - end>>
        BY <1>1, <3>1
      <3>3. i = end + 1
        BY <1>1, <1>7, <3>1, <3>2
      <3> QED BY <1>1, <1>7, <3>3
    <2> QED BY <1>1, <2>1, <2>2
  <1>8. d + n = MSG_SIZE => EndsIn(b, r, m, 0)
    BY <1>3, <1>7 DEF EndsIn
  <1> QED BY <1>6, <1>8

(* A whole read takes a message, and what is left begins with the next;    *)
(* of the message under way nothing is taken. *)
LEMMA WholeRead ==
  ASSUME NEW a \in Seq(Sent), NEW r \in Nat, r + MSG_SIZE <= Len(a), Aligned(a, r)
  PROVE  /\ Aligned(a, r + MSG_SIZE)
         /\ a[r + 1][1] \in 1..Messages
         /\ \A k \in 1..MSG_SIZE : a[r + k] = <<a[r + 1][1], k>>
         /\ \A m \in Nat, d \in Nat :
              d < MSG_SIZE /\ EndsIn(a, r, m, d) => EndsIn(a, r + MSG_SIZE, m, d)
  <1> USE Sizes
  <1> DEFINE i == r + 1
             s == r + MSG_SIZE
  <1>1. Len(a) \in Nat /\ i \in 1..Len(a) /\ i \in r+1..Len(a) /\ r < Len(a) /\ s \in Nat
    OBVIOUS
  <1>2. a[i][2] = 1 /\ a[i] \in Sent
    BY <1>1 DEF Aligned
  <1>3. a[i][1] \in 1..Messages
    BY <1>2 DEF Sent
  <1>4. ASSUME NEW k \in 1..MSG_SIZE PROVE a[r + k] = <<a[i][1], k>>
    <2>1. r + k \in r+1..Len(a) /\ i <= r + k /\ r + k < i + MSG_SIZE /\ (r + k) - i + 1 = k
      OBVIOUS
    <2> QED BY <1>1, <1>2, <2>1 DEF Aligned
  <1>5. s < Len(a) => a[s + 1][2] = 1
    <2>1. s < Len(a) => s + 1 \in r+1..Len(a) /\ s + 1 = i + MSG_SIZE /\ i <= s + 1
      BY <1>1
    <2> QED BY <1>1, <1>2, <2>1 DEF Aligned
  <1>6. \A j \in s+1..Len(a) : j \in r+1..Len(a)
    BY <1>1
  <1>7. Aligned(a, s)
    BY <1>5, <1>6 DEF Aligned
  <1>8. ASSUME NEW m \in Nat, NEW d \in Nat, d < MSG_SIZE, EndsIn(a, r, m, d)
        PROVE  EndsIn(a, s, m, d)
    <2> DEFINE end == Len(a) - d
    <2>1. r + d <= Len(a) /\ i \in r+1..end
      BY <1>1, <1>8 DEF EndsIn
    <2>2. i + MSG_SIZE - 1 <= end
      BY <1>2, <1>8, <2>1 DEF EndsIn
    <2>3. s + d <= Len(a) /\ \A j \in s+1..end : j \in r+1..end
      BY <1>1, <2>2
    <2> QED BY <1>8, <2>3 DEF EndsIn
  <1> QED BY <1>3, <1>4, <1>7, <1>8

-----------------------------------------------------------------------------
(* When all that was accepted was read and no message is under way, the    *)
(* boundaries are right again: this is what CaughtUp asks for. *)
LEMMA AllReadAligned ==
  ASSUME NEW a \in Seq(Sent), NEW m
  PROVE  Aligned(a, Len(a)) /\ EndsIn(a, Len(a), m, 0)
  <1>1. Len(a) \in Nat /\ \A i : i \notin Len(a)+1..Len(a) /\ i \notin 1..0
    OBVIOUS
  <1>2. Len(a) - 0 = Len(a) /\ Len(a) + 0 <= Len(a)
    BY <1>1
  <1> QED BY <1>1, <1>2 DEF Aligned, EndsIn

(* The boundaries are right at the start ... *)
LEMMA BoundaryInit == Init => BoundaryInv
  <1> SUFFICES ASSUME Init PROVE BoundaryInv
    OBVIOUS
  <1>1. tiva = "connect" /\ sock = "bind" /\ socket_conn = 0
    BY DEF Init
  <1>2. \A c \in Conns : accepted[c] = <<>> /\ Read(c) = 0
    BY DEF Init, Read
  <1>3. <<>> \in Seq(Sent) /\ Len(<<>>) = 0
    OBVIOUS
  <1>4. Aligned(<<>>, 0)
    BY <1>3, AllReadAligned
  <1> QED BY <1>1, <1>2, <1>4 DEF BoundaryInv

(* ... and every step keeps them so, or is astray. *)
LEMMA BoundaryNext ==
  TypeInv /\ TypeInv' /\ WayInv /\ BoundaryInv /\ [Next]_vars => BoundaryInv'
  <1> SUFFICES ASSUME TypeInv, TypeInv', WayInv, BoundaryInv, [Next]_vars, ~astray'
               PROVE  /\ \A c \in Conns : socket_conn' \in {0, c}
                                            => Aligned(accepted'[c], Read(c)')
                      /\ tiva' # "connect" /\ socket_conn' \in {0, conn'} =>
                           EndsIn(accepted'[conn'], Read(conn)', msg', Done')
                      /\ sock' = "send" => \E m \in 1..Messages : socket_msg' = Message(m)
    BY DEF BoundaryInv
  <1> USE Sizes
  <1>0. /\ accepted \in [Conns -> Seq(Sent)] /\ inn \in [Conns -> Seq(Sent)]
        /\ \A c \in Conns : Read(c) \in Nat
        /\ Len(got) \in Nat /\ Read(socket_conn) = Len(got)
        /\ UNCHANGED <<socket_conn, got>> => \A c \in Conns : Read(c)' = Read(c)
        /\ tiva # "connect" => conn \in Conns
        /\ msg \in Nat /\ Done \in Nat /\ Done < MSG_SIZE
    <2>1. tiva # "connect" => conn \in Conns
      BY DEF TypeInv, Conns
    <2>2. msg \in Nat /\ Done \in Nat /\ Done < MSG_SIZE
      BY DEF TypeInv, Done
    <2> QED BY <2>1, <2>2, ReadFacts DEF TypeInv
  <1>00. ASSUME ~astray
        PROVE  /\ \A c \in Conns : socket_conn \in {0, c} => Aligned(accepted[c], Read(c))
               /\ tiva # "connect" /\ socket_conn \in {0, conn} =>
                    EndsIn(accepted[conn], Read(conn), msg, Done)
               /\ sock = "send" => \E m \in 1..Messages : socket_msg = Message(m)
    BY <1>00 DEF BoundaryInv
  <1>1. CASE tiva_open_socket
    <2>1. /\ tiva = "connect" /\ conn' = conn + 1 /\ conn' \in Conns
          /\ conn' > conn /\ socket_conn <= conn /\ conn' # socket_conn /\ tiva' = "idle"
          /\ UNCHANGED <<accepted, socket_conn, got, sock, socket_msg, astray>>
      BY <1>1 DEF tiva_open_socket, TypeInv, Conns, sockVars, history
    <2>2. accepted[conn'] = <<>> /\ Read(conn)' = 0 /\ Done' = 0
      BY <2>1 DEF WayInv, Read, Done
    <2>3. EndsIn(<<>>, 0, msg', 0)
      <3>1. <<>> \in Seq(Sent) /\ Len(<<>>) = 0
        OBVIOUS
      <3> QED BY <3>1, AllReadAligned
    <2> QED BY <1>0, <1>00, <2>1, <2>2, <2>3
  <1>2. CASE MainSends
    <2>1. /\ UNCHANGED <<conn, accepted, socket_conn, got, sock, socket_msg, astray>>
          /\ tiva # "connect" /\ Done = 0 /\ Done' = 0
      BY <1>2 DEF MainSends, sockVars, history, Done
    <2>2. \A a, r : EndsIn(a, r, msg, 0) => EndsIn(a, r, msg', 0)
      BY DEF EndsIn
    <2>3. Read(conn)' = Read(conn)
      BY <2>1 DEF Read
    <2> QED BY <1>0, <1>00, <2>1, <2>2, <2>3
  <1>3. CASE Accepts
    <2>1. PICK n \in 1..left :
            /\ tiva = "send" /\ conn \in Conns /\ msg \in 1..Messages
            /\ left \in 1..MSG_SIZE
            /\ Chunk(n) \in Seq(Sent) /\ Len(Chunk(n)) = n
            /\ \A k \in 1..n : Chunk(n)[k] = <<msg, (MSG_SIZE - left) + k>>
            /\ accepted' = [accepted EXCEPT ![conn] = accepted[conn] \o Chunk(n)]
            /\ left' = left - n
            /\ tiva' = IF left = n THEN "idle" ELSE "send"
            /\ UNCHANGED <<conn, msg, sockVars, got, astray>>
      BY <1>3, AcceptsFacts
    <2>2. UNCHANGED <<conn, msg, sock, socket_conn, socket_msg, got, astray>>
      BY <2>1 DEF sockVars
    <2> DEFINE a == accepted[conn]
               b == a \o Chunk(n)
               r == Read(conn)
               d == Done
    <2>3. /\ a \in Seq(Sent) /\ r \in Nat /\ d \in Nat /\ n \in Nat \ {0} /\ d + n <= MSG_SIZE
          /\ d = MSG_SIZE - left /\ n \in Nat /\ msg \in Nat
      BY <1>0, <2>1 DEF Done
    <2>4. /\ b \in Seq(Sent) /\ Len(b) = Len(a) + Len(Chunk(n)) /\ Prefix(a, b)
          /\ \A k \in 1..Len(Chunk(n)) : b[Len(a) + k] = Chunk(n)[k]
      <3>1. a \in Seq(Sent) /\ Chunk(n) \in Seq(Sent)
        BY <2>1, <2>3
      <3> QED BY <3>1, JoinFacts, Zenon
    <2>5. Continued(a, b, msg, d, n)
      BY <2>1, <2>3, <2>4 DEF Continued
    <2>6. /\ accepted'[conn] = b
          /\ \A c \in Conns : c # conn => accepted'[c] = accepted[c]
      BY <1>0, <2>1
    <2>7. \/ Done' = d + n /\ tiva' = "send"
          \/ Done' = 0 /\ d + n = MSG_SIZE /\ tiva' = "idle"
      <3>1. CASE left = n
        BY <2>1, <2>3, <3>1 DEF Done
      <3>2. CASE left # n
        <4>1. tiva' = "send" /\ Done' = MSG_SIZE - (left - n)
          BY <2>1, <3>2 DEF Done
        <4>2. MSG_SIZE - (left - n) = (MSG_SIZE - left) + n
          BY <2>1
        <4>3. Done' = (MSG_SIZE - left) + n
          BY <4>1, <4>2
        <4>4. MSG_SIZE - left = Done
          BY <2>3
        <4> QED BY <4>1, <4>3, <4>4, Zenon
      <3> QED BY <3>1, <3>2
    <2>8. /\ socket_conn \in {0, conn} => Aligned(a, r) /\ EndsIn(a, r, msg, d)
          /\ \A c \in Conns : socket_conn \in {0, c} => Aligned(accepted[c], Read(c))
          /\ sock = "send" => \E m \in 1..Messages : socket_msg = Message(m)
      BY <1>00, <2>1, <2>2
    <2> HIDE DEF a, b, r, d
    <2>9. ASSUME socket_conn \in {0, conn}
          PROVE  Aligned(b, r) /\ EndsIn(b, r, msg, d + n)
                   /\ (d + n = MSG_SIZE => EndsIn(b, r, msg, 0))
      <3>1. Aligned(b, r)
        BY <2>3, <2>4, <2>5, <2>8, <2>9, AlignedContinues
      <3>2. EndsIn(b, r, msg, d + n) /\ (d + n = MSG_SIZE => EndsIn(b, r, msg, 0))
        BY <2>3, <2>4, <2>5, <2>8, <2>9, EndContinues
      <3> QED BY <3>1, <3>2
    <2>10. \A c \in Conns : Read(c)' = Read(c)
      BY <1>0, <2>2
    <2>11. Read(conn)' = r
      BY <2>1, <2>2 DEF Read, r
    <2>12. socket_conn \in {0, conn} => EndsIn(accepted'[conn], Read(conn)', msg', Done')
      BY <2>2, <2>6, <2>7, <2>9, <2>11
    <2>13. ASSUME NEW c \in Conns, socket_conn \in {0, c}
           PROVE  Aligned(accepted'[c], Read(c)')
      <3>1. CASE c = conn
        BY <2>6, <2>9, <2>10, <2>13, <3>1 DEF r
      <3>2. CASE c # conn
        BY <2>6, <2>8, <2>10, <2>13, <3>2
      <3> QED BY <3>1, <3>2
    <2> QED BY <2>2, <2>8, <2>12, <2>13
  <1>4. CASE GivesUp
    <2>1. /\ UNCHANGED <<conn, msg, accepted, socket_conn, got, sock, socket_msg>>
          /\ tiva # "connect" /\ ~astray /\ Done' = 0 /\ Done = 0
      <3>1. ~(left < MSG_SIZE) /\ left \in 0..MSG_SIZE
        BY <1>4 DEF GivesUp, TypeInv
      <3>2. left = MSG_SIZE
        BY <3>1
      <3>3. tiva = "send" /\ tiva' = "idle" /\ Done = MSG_SIZE - left /\ Done' = 0
        BY <1>4 DEF GivesUp, Done
      <3>4. Done = 0
        BY <3>2, <3>3
      <3> QED BY <1>4, <3>3, <3>4 DEF GivesUp, sockVars
    <2>2. Read(conn)' = Read(conn)
      BY <2>1 DEF Read
    <2> QED BY <1>0, <1>00, <2>1, <2>2
  <1>5. CASE Reset
    <2>1. /\ UNCHANGED <<accepted, socket_conn, got, sock, socket_msg, astray>>
          /\ tiva' = "connect"
      BY <1>5 DEF Reset, sockVars, history
    <2> QED BY <1>0, <1>00, <2>1
  <1>6. CASE SockAccept
    <2>1. /\ UNCHANGED <<tiva, conn, msg, left, accepted, got, astray>>
          /\ socket_conn = 0 /\ got = <<>> /\ sock' = "read"
      BY <1>6 DEF SockAccept, tivaVars, history, TypeInv, WayInv
    <2>2. \A c : Read(c)' = 0 /\ Read(c) = 0
      BY <2>1 DEF Read
    <2>3. Done' = Done
      BY <2>1 DEF Done
    <2>4. Read(conn)' = Read(conn)
      BY <2>1, <2>2
    <2> QED BY <1>00, <2>1, <2>2, <2>3, <2>4
  <1>7. CASE SockRead
    <2> DEFINE s == socket_conn
               q == inn[socket_conn]
               a == accepted[socket_conn]
               r == Len(got)
    <2>1. PICK n \in 1..MSG_SIZE :
            /\ n <= Len(q) /\ s \in Conns /\ s # 0 /\ q \in Seq(Sent)
            /\ got' = got \o SubSeq(q, 1, n)
            /\ socket_msg' \in Buffer
            /\ \A k \in 1..n : socket_msg'[k] = q[k]
            /\ astray' = (astray \/ n < MSG_SIZE)
            /\ UNCHANGED <<tivaVars, socket_conn, accepted>>
      BY <1>7, SockReadFacts
    <2>2. UNCHANGED <<tiva, conn, msg, left, socket_conn, accepted>> /\ n = MSG_SIZE /\ ~astray
      <3>1. ~(n < MSG_SIZE) /\ ~astray
        BY <2>1
      <3>2. n = MSG_SIZE
        BY <3>1
      <3> QED BY <2>1, <3>1, <3>2 DEF tivaVars
    <2>3. /\ a \in Seq(Sent) /\ Carries(a, r, q) /\ Aligned(a, r)
          /\ r \in Nat /\ Len(a) \in Nat /\ Len(q) \in Nat
      BY <1>0, <1>00, <2>1, <2>2 DEF WayInv
    <2>4. SubSeq(q, 1, n) \in Seq(Sent) /\ Len(SubSeq(q, 1, n)) = n
      BY <2>1, SplitFacts
    <2>5. Len(got') = r + MSG_SIZE
      <3>1. got \in Seq(Sent)
        BY DEF TypeInv
      <3> QED BY <2>1, <2>2, <2>4, <3>1, JoinFacts
    <2> HIDE DEF q, a, r
    <2>6. r + MSG_SIZE <= Len(a) /\ \A k \in 1..MSG_SIZE : q[k] = a[r + k]
      BY <2>1, <2>2, <2>3 DEF Carries
    <2>7. /\ Aligned(a, r + MSG_SIZE)
          /\ a[r + 1][1] \in 1..Messages
          /\ \A k \in 1..MSG_SIZE : a[r + k] = <<a[r + 1][1], k>>
          /\ \A m \in Nat, d \in Nat :
               d < MSG_SIZE /\ EndsIn(a, r, m, d) => EndsIn(a, r + MSG_SIZE, m, d)
      BY <2>3, <2>6, WholeRead
    <2>8. socket_msg' = Message(a[r + 1][1])
      <3>1. socket_msg' = [k \in 1..MSG_SIZE |-> socket_msg'[k]]
        BY <2>1 DEF Buffer
      <3>2. \A k \in 1..MSG_SIZE : socket_msg'[k] = <<a[r + 1][1], k>>
        BY <2>1, <2>2, <2>6, <2>7
      <3> QED BY <3>1, <3>2 DEF Message
    <2>9. /\ Read(s)' = r + MSG_SIZE /\ Read(s) = r
          /\ \A c \in Conns : s \in {0, c} => c = s
      BY <1>0, <2>1, <2>2, <2>5 DEF Read, r
    <2>10. ASSUME NEW c \in Conns, socket_conn' \in {0, c}
           PROVE  Aligned(accepted'[c], Read(c)')
      <3>1. c = socket_conn /\ c = socket_conn'
        BY <2>2, <2>9, <2>10
      <3>2. accepted'[c] = a /\ Read(c)' = r + MSG_SIZE
        BY <2>2, <2>5, <3>1 DEF a, Read
      <3> QED BY <2>7, <3>2
    <2>11. ASSUME tiva' # "connect", socket_conn' \in {0, conn'}
           PROVE  EndsIn(accepted'[conn'], Read(conn)', msg', Done')
      <3>1. conn = socket_conn /\ Done' = Done /\ tiva # "connect" /\ socket_conn \in {0, conn}
        BY <2>1, <2>2, <2>11 DEF Done
      <3>2. EndsIn(a, r, msg, Done)
        BY <1>00, <2>2, <2>9, <3>1 DEF a
      <3>3. EndsIn(a, r + MSG_SIZE, msg, Done)
        BY <1>0, <2>7, <3>2
      <3>4. Read(conn)' = r + MSG_SIZE
        BY <2>2, <2>5, <3>1 DEF Read
      <3> QED BY <2>2, <3>1, <3>3, <3>4 DEF a
    <2> QED BY <2>7, <2>8, <2>10, <2>11
  <1>8. CASE SockSend
    <2>1. /\ UNCHANGED <<tiva, conn, msg, left, accepted, socket_conn, got>>
          /\ sock' = "read" /\ socket_conn # 0
          /\ ~astray \/ CaughtUp
      BY <1>8 DEF SockSend, tivaVars, TypeInv
    <2>2. Done' = Done /\ Read(conn)' = Read(conn) /\ \A c \in Conns : Read(c)' = Read(c)
      BY <2>1 DEF Done, Read
    <2>3. CASE ~astray
      BY <1>00, <2>1, <2>2, <2>3
    <2>4. CASE CaughtUp
      <3>1. /\ got = accepted[socket_conn] /\ socket_conn \in Conns
            /\ accepted[socket_conn] \in Seq(Sent)
            /\ conn = socket_conn => Done = 0
        BY <1>0, <2>1, <2>4 DEF CaughtUp, Done, TypeInv, Conns
      <3>2. Read(socket_conn) = Len(accepted[socket_conn])
        BY <1>0, <3>1
      <3>3. /\ Aligned(accepted[socket_conn], Read(socket_conn))
            /\ EndsIn(accepted[socket_conn], Read(socket_conn), msg, 0)
        BY <3>1, <3>2, AllReadAligned
      <3> QED BY <2>1, <2>2, <3>1, <3>3
    <2> QED BY <2>1, <2>3, <2>4
  <1>9. CASE UNCHANGED <<tiva, conn, msg, left, accepted, sock, socket_conn, socket_msg, got, astray>>
    <2>1. Done' = Done /\ Read(conn)' = Read(conn)
      BY <1>9 DEF Done, Read
    <2> QED BY <1>0, <1>00, <1>9, <2>1
  <1>10. CASE SockListen
    <2>1. /\ UNCHANGED <<tiva, conn, msg, left, accepted, socket_conn, got, astray>>
          /\ sock' = "accept"
      BY <1>10 DEF SockListen, tivaVars, history
    <2>2. Done' = Done /\ Read(conn)' = Read(conn)
      BY <2>1 DEF Done, Read
    <2> QED BY <1>0, <1>00, <2>1, <2>2
  <1> QED BY <1>1, <1>2, <1>3, <1>4, <1>5, <1>6, <1>7, <1>8, <1>9, <1>10
       DEF Next, Tiva, Sock, vars, Arrives, MainRecv, tivaVars, sockVars, history

(* As long as no send is cut and no read is short, and again once the      *)
(* thread has caught up, main is handed whole messages (InStep). *)
THEOREM InStepCorrect == Spec => []InStep
  <1>1. Init => TypeInv /\ WayInv /\ BoundaryInv
    BY TypeInit, WayInit, BoundaryInit
  <1>2. TypeInv /\ WayInv /\ BoundaryInv /\ [Next]_vars => TypeInv' /\ WayInv' /\ BoundaryInv'
    BY TypeNext, WayNext, BoundaryNext
  <1>3. BoundaryInv => InStep
    BY DEF BoundaryInv, InStep
  <1> QED BY <1>1, <1>2, <1>3, PTL DEF Spec

-----------------------------------------------------------------------------
(* The bytes are in order at the start ... *)
LEMMA OrderInit == Init => OrderInv
  <1> SUFFICES ASSUME Init PROVE OrderInv
    OBVIOUS
  <1>1. \A c \in Conns : accepted[c] = <<>>
    BY DEF Init
  <1>2. Len(<<>>) = 0 /\ \A i : i \notin 1..0
    OBVIOUS
  <1>3. main_rx[1] = Char0 /\ queue = <<>> /\ sock = "bind"
    BY Sizes DEF Init
  <1> QED BY <1>1, <1>2, <1>3 DEF OrderInv, Sorted, WasRead

(* The next bytes of the message under way are later than all sent so far. *)
LEMMA SortedContinues ==
  ASSUME NEW a \in Seq(Sent), NEW b \in Seq(Sent), NEW m \in Nat, NEW d \in Nat,
         NEW n \in Nat, Continued(a, b, m, d, n), Sorted(a),
         \A i \in 1..Len(a) : a[i][1] < m \/ (a[i][1] = m /\ a[i][2] <= d)
  PROVE  /\ Sorted(b)
         /\ \A i \in 1..Len(b) : b[i][1] < m \/ (b[i][1] = m /\ b[i][2] <= d + n)
  <1>1. /\ Len(a) \in Nat /\ Len(b) = Len(a) + n
        /\ \A i \in 1..Len(a) : b[i] = a[i]
    BY DEF Continued, Prefix
  <1>2. ASSUME NEW i \in 1..Len(b), i > Len(a)
        PROVE  /\ b[i] = <<m, d + (i - Len(a))>> /\ b[i][1] = m
               /\ b[i][2] = d + (i - Len(a)) /\ i - Len(a) \in 1..n
    <2>1. i - Len(a) \in 1..n /\ Len(a) + (i - Len(a)) = i
      BY <1>1, <1>2
    <2>2. b[Len(a) + (i - Len(a))] = <<m, d + (i - Len(a))>>
      BY <2>1 DEF Continued
    <2>3. b[i] = <<m, d + (i - Len(a))>>
      BY <2>1, <2>2
    <2> QED BY <2>1, <2>3
  <1>3. ASSUME NEW i \in 1..Len(b), i <= Len(a)
        PROVE  i \in 1..Len(a) /\ b[i] = a[i] /\ a[i] \in Sent
    BY <1>1, <1>3
  <1>4. ASSUME NEW i \in 1..Len(b), NEW j \in 1..Len(b), i < j
        PROVE  Later(b[j], b[i])
    <2>1. CASE j <= Len(a)
      <3>1. i \in 1..Len(a) /\ j \in 1..Len(a)
        BY <1>1, <1>4, <2>1
      <3> QED BY <1>1, <1>4, <3>1 DEF Sorted
    <2>2. CASE i <= Len(a) /\ j > Len(a)
      <3>1. /\ b[j][1] = m /\ b[j][2] = d + (j - Len(a)) /\ j - Len(a) \in 1..n
        BY <1>2, <2>2
      <3>2. i \in 1..Len(a) /\ b[i] = a[i] /\ b[i] \in Sent
        BY <1>3, <2>2
      <3>3. b[i][1] < m \/ (b[i][1] = m /\ b[i][2] <= d)
        BY <3>2
      <3>4. b[i][1] \in Nat /\ b[i][2] \in Nat
        BY <3>2, SentFacts
      <3>5. b[j][2] > d
        BY <3>1
      <3> QED BY <3>1, <3>3, <3>4, <3>5 DEF Later
    <2>3. CASE i > Len(a)
      <3>1. j > Len(a)
        BY <1>1, <1>4, <2>3
      <3>2. b[i][1] = m /\ b[i][2] = d + (i - Len(a))
        BY <1>2, <2>3
      <3>3. b[j][1] = m /\ b[j][2] = d + (j - Len(a))
        BY <1>2, <3>1
      <3>4. d + (j - Len(a)) > d + (i - Len(a))
        BY <1>1, <1>4
      <3> QED BY <3>2, <3>3, <3>4 DEF Later
    <2>4. j <= Len(a) \/ (i <= Len(a) /\ j > Len(a)) \/ i > Len(a)
      BY <1>1
    <2> QED BY <2>1, <2>2, <2>3, <2>4
  <1>5. ASSUME NEW i \in 1..Len(b)
        PROVE  b[i][1] < m \/ (b[i][1] = m /\ b[i][2] <= d + n)
    <2>1. CASE i <= Len(a)
      <3>1. i \in 1..Len(a) /\ b[i] = a[i] /\ b[i] \in Sent
        BY <1>3, <2>1
      <3>2. b[i][1] < m \/ (b[i][1] = m /\ b[i][2] <= d)
        BY <3>1
      <3>3. b[i][2] \in Nat
        BY <3>1, SentFacts
      <3>4. b[i][2] <= d => b[i][2] <= d + n
        BY <3>3
      <3> QED BY <3>2, <3>4
    <2>2. CASE i > Len(a)
      <3>1. b[i][1] = m /\ b[i][2] = d + (i - Len(a)) /\ i - Len(a) \in 1..n
        BY <1>2, <2>2
      <3>2. d + (i - Len(a)) <= d + n
        BY <3>1
      <3> QED BY <3>1, <3>2
    <2> QED BY <1>1, <2>1, <2>2
  <1>6. Sorted(b)
    BY <1>4 DEF Sorted
  <1> QED BY <1>5, <1>6

(* ... and every step keeps them in order. *)
LEMMA OrderNext ==
  TypeInv /\ TypeInv' /\ OrderInv /\ [Next]_vars => OrderInv'
  <1> SUFFICES ASSUME TypeInv, TypeInv', OrderInv, [Next]_vars PROVE OrderInv'
    OBVIOUS
  <1> USE Sizes
  <1>0. /\ accepted \in [Conns -> Seq(Sent)] /\ msg \in Nat
        /\ \A c \in Conns : \A i \in 1..Len(accepted[c]) :
             /\ accepted[c][i][1] \in Nat /\ accepted[c][i][2] \in Nat
             /\ SentSoFar(accepted[c][i])
        /\ \A c \in Conns : Sorted(accepted[c])
    <2>1. accepted \in [Conns -> Seq(Sent)] /\ msg \in Nat
      BY DEF TypeInv
    <2>2. \A c \in Conns : \A i \in 1..Len(accepted[c]) : accepted[c][i] \in Sent
      BY <2>1
    <2>3. \A b \in Sent : b[1] \in Nat /\ b[2] \in Nat
      BY DEF Sent
    <2> QED BY <2>1, <2>2, <2>3 DEF OrderInv
  <1>1. /\ WasRead(main_rx[1]) /\ \A i \in 1..Len(queue) : WasRead(queue[i][1])
        /\ sock = "send" => WasRead(socket_msg[1])
    BY DEF OrderInv
  <1>2. CASE MainSends
    <2>1. /\ msg' = msg + 1 /\ tiva # "send"
          /\ UNCHANGED <<accepted, got, sock, socket_msg, queue, main_rx>>
      BY <1>2 DEF MainSends, sockVars, history
    <2>2. ASSUME NEW c \in Conns, NEW i \in 1..Len(accepted[c])
          PROVE  SentSoFar(accepted[c][i])'
      <3>1. accepted[c][i][1] < msg'
        BY <1>0, <2>1 DEF SentSoFar
      <3> QED BY <2>1, <3>1 DEF SentSoFar
    <2> QED BY <1>0, <1>1, <2>1, <2>2 DEF OrderInv, WasRead
  <1>3. CASE Accepts
    <2>1. PICK n \in 1..left :
            /\ tiva = "send" /\ conn \in Conns /\ msg \in 1..Messages
            /\ left \in 1..MSG_SIZE /\ MSG_SIZE - left \in Nat
            /\ Chunk(n) \in Seq(Sent) /\ Len(Chunk(n)) = n
            /\ \A k \in 1..n : Chunk(n)[k] = <<msg, (MSG_SIZE - left) + k>>
            /\ accepted' = [accepted EXCEPT ![conn] = accepted[conn] \o Chunk(n)]
            /\ left' = left - n
            /\ tiva' = IF left = n THEN "idle" ELSE "send"
            /\ UNCHANGED <<msg, sockVars, queue, main_rx, got>>
      BY <1>3, AcceptsFacts
    <2> DEFINE a == accepted[conn]
               b == a \o Chunk(n)
               d == MSG_SIZE - left
    <2>2. a \in Seq(Sent) /\ Sorted(a) /\ d \in Nat /\ n \in Nat /\ MSG_SIZE - left' = d + n
      BY <1>0, <2>1
    <2>3. /\ b \in Seq(Sent) /\ Len(b) = Len(a) + Len(Chunk(n)) /\ Prefix(a, b)
          /\ \A k \in 1..Len(Chunk(n)) : b[Len(a) + k] = Chunk(n)[k]
      <3>1. a \in Seq(Sent) /\ Chunk(n) \in Seq(Sent)
        BY <2>1, <2>2
      <3> QED BY <3>1, JoinFacts, Zenon
    <2>4. Continued(a, b, msg, d, n)
      BY <2>1, <2>3 DEF Continued
    <2>5. ASSUME NEW c \in Conns, NEW i \in 1..Len(accepted[c])
          PROVE  accepted[c][i][1] < msg \/ (accepted[c][i][1] = msg /\ accepted[c][i][2] <= d)
      BY <1>0, <2>1 DEF SentSoFar
    <2>6. \A i \in 1..Len(a) : a[i][1] < msg \/ (a[i][1] = msg /\ a[i][2] <= d)
      BY <2>1, <2>5
    <2>7. /\ accepted'[conn] = b
          /\ \A c \in Conns : c # conn => accepted'[c] = accepted[c]
      BY <1>0, <2>1
    <2> HIDE DEF a, b, d
    <2>8. /\ Sorted(b)
          /\ \A i \in 1..Len(b) : b[i][1] < msg \/ (b[i][1] = msg /\ b[i][2] <= d + n)
      BY <1>0, <2>2, <2>3, <2>4, <2>6, SortedContinues
    <2>9. ASSUME NEW c \in Conns
          PROVE  /\ Sorted(accepted'[c])
                 /\ \A i \in 1..Len(accepted'[c]) : SentSoFar(accepted[c][i])'
      <3>1. CASE c = conn
        BY <2>1, <2>2, <2>7, <2>8, <3>1 DEF SentSoFar
      <3>2. CASE c # conn
        <4>1. accepted'[c] = accepted[c]
          BY <2>7, <3>2
        <4>2. ASSUME NEW i \in 1..Len(accepted[c]) PROVE SentSoFar(accepted[c][i])'
          <5>1. accepted[c][i][2] <= d => accepted[c][i][2] <= d + n
            BY <1>0, <2>2
          <5>2. accepted[c][i][1] < msg \/ (accepted[c][i][1] = msg /\ accepted[c][i][2] <= d)
            BY <2>5
          <5> QED BY <2>1, <2>2, <4>1, <5>1, <5>2 DEF SentSoFar
        <4> QED BY <1>0, <4>1, <4>2
      <3> QED BY <3>1, <3>2
    <2> QED BY <1>1, <2>1, <2>9 DEF OrderInv, WasRead, sockVars
  <1>4. CASE GivesUp \/ Reset \/ tiva_open_socket
    <2>1. /\ UNCHANGED <<msg, accepted, got, sock, socket_msg, queue, main_rx>>
          /\ tiva' # "send"
      BY <1>4 DEF GivesUp, Reset, tiva_open_socket, sockVars, history
    <2>2. \A b : SentSoFar(b) => SentSoFar(b)'
      BY <2>1 DEF SentSoFar
    <2>3. ASSUME NEW c \in Conns, NEW i \in 1..Len(accepted[c])
          PROVE  SentSoFar(accepted[c][i])'
      BY <1>0, <2>1 DEF SentSoFar
    <2> QED BY <1>0, <1>1, <2>1, <2>3 DEF OrderInv, WasRead
  <1>5. CASE SockRead
    <2> DEFINE q == inn[socket_conn]
    <2>1. PICK n \in 1..MSG_SIZE :
            /\ n <= Len(q) /\ q \in Seq(Sent)
            /\ got' = got \o SubSeq(q, 1, n)
            /\ \A k \in 1..n : socket_msg'[k] = q[k]
            /\ UNCHANGED <<tivaVars, queue, main_rx, accepted>>
      BY <1>5, SockReadFacts
    <2>2. got \in Seq(Sent) /\ Len(got) \in Nat /\ n \in Nat /\ 1 \in 1..n
      BY DEF TypeInv
    <2> HIDE DEF q
    <2>3. /\ SubSeq(q, 1, n) \in Seq(Sent) /\ Len(SubSeq(q, 1, n)) = n
          /\ \A k \in 1..n : SubSeq(q, 1, n)[k] = q[k]
      BY <2>1, <2>2, SplitFacts
    <2>4. /\ Len(got') = Len(got) + n /\ Prefix(got, got')
          /\ \A k \in 1..n : got'[Len(got) + k] = q[k]
      <3> DEFINE part == SubSeq(q, 1, n)
      <3>1. got \in Seq(Sent) /\ part \in Seq(Sent) /\ got' = got \o part
        BY <2>1, <2>2, <2>3
      <3> HIDE DEF part
      <3>2. /\ Len(got \o part) = Len(got) + Len(part) /\ Prefix(got, got \o part)
            /\ \A k \in 1..Len(part) : (got \o part)[Len(got) + k] = part[k]
        BY <3>1, JoinFacts
      <3>3. Len(part) = n /\ \A k \in 1..n : part[k] = q[k]
        BY <2>3 DEF part
      <3> QED BY <3>1, <3>2, <3>3
    <2>5. ASSUME NEW b, WasRead(b) PROVE WasRead(b)'
      <3>1. \A i \in 1..Len(got) : i \in 1..Len(got') /\ got'[i] = got[i]
        BY <2>2, <2>4 DEF Prefix
      <3> QED BY <2>5, <3>1 DEF WasRead
    <2>6. WasRead(socket_msg[1])'
      <3>1. Len(got) + 1 \in 1..Len(got') /\ got'[Len(got) + 1] = q[1]
        BY <2>2, <2>4
      <3> QED BY <2>1, <2>2, <3>1 DEF WasRead
    <2>7. (\A c \in Conns : /\ Sorted(accepted[c])
                            /\ \A i \in 1..Len(accepted[c]) : SentSoFar(accepted[c][i]))'
      BY <1>0, <2>1 DEF SentSoFar, tivaVars
    <2>8. WasRead(main_rx[1])' /\ (\A i \in 1..Len(queue) : WasRead(queue[i][1]))'
      BY <1>1, <2>1, <2>5
    <2> QED BY <2>6, <2>7, <2>8 DEF OrderInv
  <1>6. CASE UNCHANGED <<tiva, msg, left, accepted, got>> /\ ~SockRead
    <2>1. (\A c \in Conns : /\ Sorted(accepted[c])
                            /\ \A i \in 1..Len(accepted[c]) : SentSoFar(accepted[c][i]))'
      BY <1>0, <1>6 DEF SentSoFar
    <2>2. \A b : WasRead(b)' <=> WasRead(b)
      BY <1>6 DEF WasRead
    <2>3. CASE SockSend
      <3>1. /\ queue' = Append(queue, socket_msg) /\ main_rx' = main_rx
            /\ sock = "send" /\ sock' = "read" /\ queue \in Seq(Buffer)
        BY <2>3 DEF SockSend, TypeInv
      <3>2. \A i \in 1..Len(queue') : queue'[i] = socket_msg \/ (i \in 1..Len(queue) /\ queue'[i] = queue[i])
        BY <3>1
      <3>3. \A i \in 1..Len(queue') : WasRead(queue'[i][1])
        BY <1>1, <3>1, <3>2
      <3> QED BY <1>1, <1>6, <2>1, <2>2, <3>1, <3>3 DEF OrderInv, WasRead
    <2>4. CASE MainRecv
      <3>1. /\ main_rx' = Head(queue) /\ queue' = Tail(queue) /\ queue \in Seq(Buffer)
            /\ queue # <<>> /\ UNCHANGED <<sock, socket_msg>>
        BY <2>4 DEF MainRecv, TypeInv, sockVars
      <3>2. /\ main_rx' = queue[1] /\ 1 \in 1..Len(queue)
            /\ \A i \in 1..Len(queue') : i + 1 \in 1..Len(queue) /\ queue'[i] = queue[i + 1]
        BY <3>1
      <3>3. WasRead(main_rx'[1]) /\ \A i \in 1..Len(queue') : WasRead(queue'[i][1])
        BY <1>1, <3>2
      <3> QED BY <1>1, <1>6, <2>1, <3>1, <3>3 DEF OrderInv, WasRead
    <2>5. CASE /\ UNCHANGED <<queue, main_rx, socket_msg>>
               /\ sock' = "send" => sock = "send"
      BY <1>1, <1>6, <2>1, <2>5 DEF OrderInv, WasRead
    <2> QED BY <1>2, <1>3, <1>4, <1>6, <2>3, <2>4, <2>5
         DEF Next, Tiva, Sock, vars, Arrives, SockListen, SockAccept, sockVars
  <1> QED BY <1>2, <1>3, <1>4, <1>5, <1>6
       DEF Next, Tiva, Sock, vars, Arrives, SockListen, SockAccept, SockSend, MainRecv,
           tivaVars, sockVars, history

-----------------------------------------------------------------------------
(* What is handed over is in turn at the start ... *)
LEMMA TurnInit == Init => TurnInv
  <1> SUFFICES ASSUME Init PROVE TurnInv
    OBVIOUS
  <1>1. queue = <<>> /\ sock = "bind" /\ Len(<<>>) = 0 /\ \A i : i \notin 2..0
    BY DEF Init
  <1> QED BY <1>1 DEF TurnInv

(* ... and every step keeps it so.  A read takes bytes that are later than *)
(* all read before, and whatever main was handed last begins with one of   *)
(* these. *)
LEMMA TurnNext ==
  TypeInv /\ TypeInv' /\ WayInv /\ OrderInv /\ TurnInv /\ [Next]_vars => TurnInv'
  <1> SUFFICES ASSUME TypeInv, TypeInv', WayInv, OrderInv, TurnInv, [Next]_vars
               PROVE  TurnInv'
    OBVIOUS
  <1> USE Sizes
  <1>0. /\ queue \in Seq(Buffer) /\ Len(queue) \in Nat
        /\ queue # <<>> <=> Len(queue) > 0
    BY DEF TypeInv
  <1>1. /\ Len(queue) > 0 => Later(queue[1][1], main_rx[1])
        /\ \A i \in 2..Len(queue) : Later(queue[i][1], queue[i - 1][1])
        /\ sock = "send" => Later(socket_msg[1], Last[1])
    BY <1>0 DEF TurnInv
  <1>2. CASE SockRead
    <2> DEFINE s == socket_conn
               q == inn[socket_conn]
               a == accepted[socket_conn]
               r == Len(got)
    <2>1. PICK n \in 1..MSG_SIZE :
            /\ n <= Len(q) /\ s \in Conns /\ s # 0 /\ q \in Seq(Sent)
            /\ \A k \in 1..n : socket_msg'[k] = q[k]
            /\ UNCHANGED <<queue, main_rx>>
      BY <1>2, SockReadFacts
    <2>2. /\ a \in Seq(Sent) /\ got \in Seq(Sent) /\ Read(s) = r /\ r \in Nat
          /\ Carries(a, r, q) /\ Prefix(got, a) /\ Sorted(a)
      BY <2>1, ReadFacts DEF WayInv, TypeInv, OrderInv
    <2> HIDE DEF q, a, r
    <2>3. /\ 1 \in 1..Len(q) /\ r + Len(q) <= Len(a) /\ Len(q) \in Nat /\ Len(a) \in Nat
          /\ socket_msg'[1] = q[1] /\ q[1] = a[r + 1]
      <3>1. Len(q) \in Nat /\ Len(a) \in Nat /\ n \in Nat /\ 1 \in 1..n
        BY <2>1, <2>2
      <3>2. 1 \in 1..Len(q)
        BY <2>1, <3>1
      <3> QED BY <2>1, <2>2, <3>1, <3>2 DEF Carries
    <2>4. r + 1 \in 1..Len(a) /\ a[r + 1] \in Sent
      BY <2>2, <2>3
    <2>5. ASSUME NEW b, WasRead(b) PROVE Later(a[r + 1], b)
      <3>1. CASE b = Char0
        BY <2>4, <3>1, SentFacts DEF Char0, Later
      <3>2. CASE \E i \in 1..Len(got) : b = got[i]
        <4>1. PICK i \in 1..Len(got) : b = got[i]
          BY <3>2
        <4>2. /\ i \in 1..Len(a) /\ i < r + 1 /\ b = a[i]
          BY <2>2, <2>3, <2>4, <4>1 DEF Prefix, r
        <4> QED BY <2>2, <2>4, <4>2 DEF Sorted
      <3> QED BY <2>5, <3>1, <3>2 DEF WasRead
    <2>6. WasRead(Last[1])
      <3>1. CASE queue = <<>>
        BY <3>1 DEF Last, OrderInv
      <3>2. CASE queue # <<>>
        <4>1. Len(queue) \in 1..Len(queue)
          BY <1>0, <3>2
        <4> QED BY <3>2, <4>1 DEF Last, OrderInv
      <3> QED BY <3>1, <3>2
    <2>7. Last' = Last /\ Later(socket_msg'[1], Last[1])
      BY <2>1, <2>3, <2>5, <2>6 DEF Last
    <2> QED BY <1>0, <1>1, <2>1, <2>7 DEF TurnInv
  <1>3. CASE SockSend
    <2>1. /\ queue' = Append(queue, socket_msg) /\ main_rx' = main_rx
          /\ sock = "send" /\ sock' = "read"
      BY <1>3 DEF SockSend
    <2>2. /\ Len(queue') = Len(queue) + 1 /\ queue'[Len(queue) + 1] = socket_msg
          /\ \A i \in 1..Len(queue) : queue'[i] = queue[i]
      BY <1>0, <2>1
    <2>3. Later(queue'[1][1], main_rx'[1])
      <3>1. CASE queue = <<>>
        BY <1>1, <2>1, <2>2, <3>1 DEF Last
      <3>2. CASE queue # <<>>
        <4>1. 1 \in 1..Len(queue)
          BY <1>0, <3>2
        <4> QED BY <1>0, <1>1, <2>1, <2>2, <3>2, <4>1
      <3> QED BY <3>1, <3>2
    <2>4. ASSUME NEW i \in 2..Len(queue')
          PROVE  Later(queue'[i][1], queue'[i - 1][1])
      <3>1. CASE i <= Len(queue)
        <4>1. i \in 1..Len(queue) /\ i \in 2..Len(queue) /\ i - 1 \in 1..Len(queue)
          BY <1>0, <3>1
        <4> QED BY <1>1, <2>2, <4>1
      <3>2. CASE i = Len(queue) + 1
        <4>1. Len(queue) \in 1..Len(queue) /\ i - 1 = Len(queue) /\ queue # <<>>
          BY <1>0, <3>2
        <4>2. queue'[i] = socket_msg /\ queue'[i - 1] = queue[Len(queue)]
          BY <2>2, <3>2, <4>1
        <4> QED BY <1>1, <2>1, <4>1, <4>2 DEF Last
      <3>3. i <= Len(queue) \/ i = Len(queue) + 1
        BY <1>0, <2>2
      <3> QED BY <3>1, <3>2, <3>3
    <2> QED BY <2>1, <2>3, <2>4 DEF TurnInv
  <1>4. CASE MainRecv
    <2>1. /\ main_rx' = Head(queue) /\ queue' = Tail(queue)
          /\ queue # <<>> /\ UNCHANGED <<sock, socket_msg>>
      BY <1>4 DEF MainRecv, sockVars
    <2>2. /\ main_rx' = queue[1] /\ Len(queue') = Len(queue) - 1 /\ Len(queue) >= 1
          /\ \A i \in 1..Len(queue') : queue'[i] = queue[i + 1]
      BY <1>0, <2>1
    <2>3. queue' # <<>> => Len(queue') >= 1
      <3>1. queue' \in Seq(Buffer)
        BY DEF TypeInv
      <3> QED BY <3>1
    <2>4. ASSUME queue' # <<>> PROVE Later(queue'[1][1], main_rx'[1])
      <3>1. 1 \in 1..Len(queue') /\ 2 \in 2..Len(queue)
        BY <1>0, <2>2, <2>3, <2>4
      <3>2. queue'[1] = queue[1 + 1] /\ Later(queue[2][1], queue[2 - 1][1])
        BY <1>1, <2>2, <3>1
      <3> QED BY <2>2, <3>2
    <2>5. ASSUME NEW i \in 2..Len(queue')
          PROVE  Later(queue'[i][1], queue'[i - 1][1])
      <3>1. /\ i \in 1..Len(queue') /\ i - 1 \in 1..Len(queue') /\ i + 1 \in 2..Len(queue)
            /\ (i - 1) + 1 = (i + 1) - 1
        BY <1>0, <2>2
      <3>2. queue'[i] = queue[i + 1] /\ queue'[i - 1] = queue[(i + 1) - 1]
        BY <2>2, <3>1
      <3> QED BY <1>1, <3>1, <3>2
    <2>6. Last' = Last
      <3>1. CASE queue' = <<>>
        <4>1. Len(queue) = 1
          BY <1>0, <2>2, <3>1
        <4> QED BY <2>1, <2>2, <3>1, <4>1 DEF Last
      <3>2. CASE queue' # <<>>
        <4>1. Len(queue') \in 1..Len(queue') /\ Len(queue') + 1 = Len(queue)
          BY <1>0, <2>2, <2>3, <3>2
        <4>2. queue'[Len(queue')] = queue[Len(queue)]
          BY <2>2, <4>1
        <4> QED BY <2>1, <3>2, <4>2 DEF Last
      <3> QED BY <3>1, <3>2
    <2> QED BY <1>1, <2>1, <2>4, <2>5, <2>6 DEF TurnInv
  <1>5. CASE /\ UNCHANGED <<queue, main_rx, socket_msg>>
             /\ sock' = "send" => sock = "send"
    BY <1>0, <1>1, <1>5 DEF TurnInv, Last
  <1> QED BY <1>2, <1>3, <1>4, <1>5
       DEF Next, Tiva, Sock, vars, tiva_open_socket, MainSends, Accepts, GivesUp, Reset,
           Arrives, SockListen, SockAccept, sockVars

(* What the queue holds and what main took last are what InTurn speaks of. *)
LEMMA TurnIsInTurn == TypeInv /\ TurnInv => InTurn
  <1> SUFFICES ASSUME TypeInv, TurnInv PROVE InTurn
    OBVIOUS
  <1> DEFINE s == IF sock = "send" THEN Append(queue, socket_msg) ELSE queue
  <1>0. /\ queue \in Seq(Buffer) /\ Len(queue) \in Nat /\ main_rx \in Buffer
        /\ socket_msg \in Buffer
        /\ queue # <<>> <=> Len(queue) > 0
    BY DEF TypeInv
  <1>1. /\ s \in Seq(Buffer) /\ Len(s) \in Nat
        /\ \A i \in 1..Len(queue) : s[i] = queue[i]
        /\ sock # "send" => Len(s) = Len(queue)
        /\ sock = "send" => Len(s) = Len(queue) + 1 /\ s[Len(queue) + 1] = socket_msg
    <2>1. CASE sock = "send"
      <3>1. s = Append(queue, socket_msg)
        BY <2>1
      <3> HIDE DEF s
      <3>2. queue \in Seq(Buffer) /\ socket_msg \in Buffer
        BY <1>0
      <3>3. /\ Append(queue, socket_msg) \in Seq(Buffer)
            /\ Len(Append(queue, socket_msg)) = Len(queue) + 1
            /\ Append(queue, socket_msg)[Len(queue) + 1] = socket_msg
            /\ \A i \in 1..Len(queue) : Append(queue, socket_msg)[i] = queue[i]
        BY <3>2, AppendFacts
      <3>4. /\ s \in Seq(Buffer) /\ Len(s) = Len(queue) + 1 /\ s[Len(queue) + 1] = socket_msg
            /\ \A i \in 1..Len(queue) : s[i] = queue[i]
        BY <3>1, <3>3
      <3> QED BY <1>0, <2>1, <3>4
    <2>2. CASE sock # "send"
      BY <1>0, <2>2
    <2> QED BY <2>1, <2>2
  <1>2. Handed = <<main_rx>> \o s
    BY DEF Handed
  <1> HIDE DEF s
  <1>3. /\ Len(Handed) = Len(s) + 1 /\ Handed[1] = main_rx
        /\ \A k \in 1..Len(s) : Handed[k + 1] = s[k]
    <2>1. <<main_rx>> \in Seq(Buffer) /\ Len(<<main_rx>>) = 1 /\ <<main_rx>>[1] = main_rx
      BY <1>0
    <2> DEFINE first == <<main_rx>>
    <2>2. first \in Seq(Buffer) /\ s \in Seq(Buffer) /\ Handed = first \o s
      BY <1>1, <1>2, <2>1
    <2> HIDE DEF first
    <2>3. /\ Len(first \o s) = Len(first) + Len(s) /\ Prefix(first, first \o s)
          /\ \A k \in 1..Len(s) : (first \o s)[Len(first) + k] = s[k]
      BY <2>2, JoinFacts
    <2>4. Len(first) = 1 /\ first[1] = main_rx
      BY <2>1 DEF first
    <2>5. 1 \in 1..1 /\ \A k \in 1..Len(s) : 1 + k = k + 1
      BY <1>1
    <2>6. Handed[1] = main_rx /\ Len(Handed) = Len(s) + 1
      BY <1>1, <2>2, <2>3, <2>4, <2>5 DEF Prefix
    <2>7. \A k \in 1..Len(s) : Handed[k + 1] = s[k]
      BY <2>2, <2>3, <2>4, <2>5
    <2> QED BY <2>6, <2>7
  <1>4. Len(s) > 0 => Later(s[1][1], main_rx[1])
    <2>1. CASE queue # <<>>
      <3>1. 1 \in 1..Len(queue)
        BY <1>0, <2>1
      <3> QED BY <1>1, <2>1, <3>1 DEF TurnInv
    <2>2. CASE queue = <<>>
      <3>1. Len(queue) = 0
        BY <1>0, <2>2
      <3> QED BY <1>1, <2>2, <3>1 DEF TurnInv, Last
    <2> QED BY <2>1, <2>2
  <1>5. ASSUME NEW k \in 2..Len(s) PROVE Later(s[k][1], s[k - 1][1])
    <2>1. CASE k <= Len(queue)
      <3>1. k \in 1..Len(queue) /\ k \in 2..Len(queue) /\ k - 1 \in 1..Len(queue)
        BY <1>0, <2>1
      <3> QED BY <1>1, <3>1 DEF TurnInv
    <2>2. CASE k > Len(queue)
      <3>1. sock = "send" /\ k = Len(queue) + 1
        BY <1>0, <1>1, <2>2
      <3>2. k - 1 = Len(queue) /\ Len(queue) \in 1..Len(queue) /\ queue # <<>>
        BY <1>0, <3>1
      <3>3. s[k] = socket_msg /\ s[k - 1] = queue[Len(queue)]
        BY <1>1, <3>1, <3>2
      <3> QED BY <3>1, <3>2, <3>3 DEF TurnInv, Last
    <2> QED BY <1>0, <2>1, <2>2
  <1>6. ASSUME NEW i \in 2..Len(Handed) PROVE Later(Handed[i][1], Handed[i - 1][1])
    <2> DEFINE k == i - 1
    <2>1. k \in 1..Len(s) /\ i = k + 1
      BY <1>1, <1>3
    <2>2. Handed[i] = s[k]
      BY <1>3, <2>1
    <2>3. CASE k = 1
      <3>1. Len(s) > 0 /\ Handed[k] = main_rx
        BY <1>1, <1>3, <2>1, <2>3
      <3> QED BY <1>4, <2>2, <2>3, <3>1
    <2>4. CASE k # 1
      <3>1. k \in 2..Len(s) /\ k - 1 \in 1..Len(s) /\ (k - 1) + 1 = k
        BY <1>1, <2>1, <2>4
      <3>2. Handed[k] = s[k - 1]
        BY <1>3, <3>1
      <3> QED BY <1>5, <2>2, <3>1, <3>2
    <2> QED BY <2>3, <2>4
  <1> QED BY <1>6 DEF InTurn

(* Cut, short or whole, what main is handed never begins with a byte it    *)
(* was handed before or one that was sent earlier (InTurn). *)
THEOREM InTurnCorrect == Spec => []InTurn
  <1>1. Init => TypeInv /\ WayInv /\ OrderInv /\ TurnInv
    BY TypeInit, WayInit, OrderInit, TurnInit
  <1>2. TypeInv /\ WayInv /\ OrderInv /\ TurnInv /\ [Next]_vars
          => TypeInv' /\ WayInv' /\ OrderInv' /\ TurnInv'
    BY TypeNext, WayNext, OrderNext, TurnNext
  <1> QED BY <1>1, <1>2, TurnIsInTurn, PTL DEF Spec
=============================================================================
