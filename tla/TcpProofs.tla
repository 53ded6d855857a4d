----------------------------- MODULE TcpProofs ------------------------------
(***************************************************************************)
(* Proofs about the way of a message over the network, for every size of   *)
(* the stream, of the messages and of the segments.  What the socket's     *)
(* functions do is stated once, as lemmas about them; the invariants of    *)
(* the steps are built from these.                                         *)
(***************************************************************************)
EXTENDS TcpProps, StreamBufferProofs, SequenceLemmas

-----------------------------------------------------------------------------
(* The socket. *)
SeqNumber == 0..SeqSpace-1
StreamByte == Byte \cup {NoByte}
State == {"eESTABLISHED", "eCLOSE_WAIT", "eCLOSED"}
Bits == {eSOCKET_SEND, eSOCKET_CLOSED}
TxSegment == [seq : SeqNumber, len : Nat, pos : Index, bOutstanding : BOOLEAN]
Socket ==
  [txStream : Buffer(StreamByte),
   ulCurrentSequenceNumber : SeqNumber, ulNextTxSequenceNumber : SeqNumber,
   xTxSegment : TxSegment, ucTCPState : State,
   usTimeout : {0, Due, Later}, xEventBits : SUBSET Bits, ucKeepRepCount : Nat]

(* WindowAgrees of a socket. *)
Agrees(s) ==
  /\ MidInside(s.txStream)
  /\ uxStreamBufferDistance(s.txStream.uxTail, s.txStream.uxMid) = s.xTxSegment.len
  /\ s.ulNextTxSequenceNumber = SeqNr(s.ulCurrentSequenceNumber + s.xTxSegment.len)
  /\ s.xTxSegment.len > 0 => /\ s.xTxSegment.pos = s.txStream.uxTail
                             /\ s.xTxSegment.seq = s.ulCurrentSequenceNumber

(* Two sockets that hold the same bytes. *)
SameBytes(s, c) ==
  /\ c.ulCurrentSequenceNumber = s.ulCurrentSequenceNumber
  /\ c.txStream.uxTail = s.txStream.uxTail
  /\ c.txStream.uxHead = s.txStream.uxHead
  /\ c.txStream.ucArray = s.txStream.ucArray

(* Two sockets of which the same can be told to the owner. *)
Tells(s, c) == s.xEventBits \subseteq c.xEventBits

(* A packet that may be sent from a socket: it carries the oldest bytes    *)
(* under their number, or it is a probe and carries none. *)
SentFrom(s, p) ==
  /\ p \in [seq : SeqNumber, data : Seq(StreamByte)]
  /\ p.data # <<>> =>
       /\ p.seq = s.ulCurrentSequenceNumber
       /\ Len(p.data) <= uxStreamBufferGetSize(s.txStream)
       /\ \A k \in 1..Len(p.data) : p.data[k] = Nth(s.txStream, k)

(* What becomes of a socket when its n oldest bytes are acknowledged. *)
Acked(s, c, n) ==
  /\ n \in 0..uxStreamBufferGetSize(s.txStream)
  /\ c.ulCurrentSequenceNumber = SeqNr(s.ulCurrentSequenceNumber + n)
  /\ c.txStream.uxHead = s.txStream.uxHead
  /\ c.txStream.ucArray = s.txStream.ucArray
  /\ uxStreamBufferGetSize(c.txStream) = uxStreamBufferGetSize(s.txStream) - n
  /\ \A k \in 1..uxStreamBufferGetSize(c.txStream) :
       Nth(c.txStream, k) = Nth(s.txStream, n + k)
  /\ n > 0 => eSOCKET_SEND \in c.xEventBits

-----------------------------------------------------------------------------
(* The number of a byte is a sequence number, and a sequence number is its *)
(* own. *)
LEMMA SeqNrFacts ==
  ASSUME NEW n \in Int
  PROVE  SeqNr(n) \in SeqNumber /\ (n \in SeqNumber => SeqNr(n) = n)
  BY StartAssumption DEF SeqNr, SeqNumber

(* What has the same bytes, sends the same.                                *)
LEMMA SameBytesSend ==
  ASSUME NEW s, NEW c, SameBytes(s, c), NEW p
  PROVE  SentFrom(c, p) <=> SentFrom(s, p)
  BY DEF SameBytes, SentFrom, uxStreamBufferGetSize, Nth

(* The fields of a socket and of its segment. *)
LEMMA SocketFields ==
  ASSUME NEW s \in Socket
  PROVE  /\ s.txStream \in Buffer(StreamByte)
         /\ s.ulCurrentSequenceNumber \in SeqNumber
         /\ s.ulNextTxSequenceNumber \in SeqNumber
         /\ s.xTxSegment \in TxSegment /\ s.xTxSegment.seq \in SeqNumber
         /\ s.xTxSegment.len \in Nat /\ s.xTxSegment.pos \in Index
         /\ s.xTxSegment.bOutstanding \in BOOLEAN
         /\ s.ucTCPState \in State /\ s.usTimeout \in {0, Due, Later}
         /\ s.xEventBits \subseteq Bits /\ s.ucKeepRepCount \in Nat
  BY DEF Socket, TxSegment

(* An empty window is given the next bytes of the stream. *)
LEMMA AddTxDataFacts ==
  ASSUME NEW s \in Socket, Agrees(s)
  PROVE  LET c == prvTCPAddTxData(s) IN
         /\ c \in Socket /\ Agrees(c) /\ SameBytes(s, c)
         /\ c.ucTCPState = s.ucTCPState /\ c.usTimeout = s.usTimeout
         /\ c.xEventBits = s.xEventBits /\ c.ucKeepRepCount = s.ucKeepRepCount
  <1> DEFINE c == prvTCPAddTxData(s)
             n == lTCPWindowTxAdd(s, uxStreamBufferMidSpace(s.txStream))
             b == vStreamBufferMoveMid(s.txStream, n)
             seg == [seq |-> s.ulNextTxSequenceNumber, len |-> n,
                     pos |-> s.txStream.uxMid, bOutstanding |-> FALSE]
  <1>1. CASE n = 0
    <2>1. c = s
      BY <1>1 DEF prvTCPAddTxData
    <2> QED BY <2>1 DEF SameBytes
  <1>2. CASE n # 0
    <2>1. /\ s.txStream \in Buffer(StreamByte) /\ MidInside(s.txStream)
          /\ s.txStream.uxTail \in Index /\ s.txStream.uxMid \in Index
          /\ uxStreamBufferMidSpace(s.txStream) \in 0..LENGTH-1
      BY SocketFields, BufferFacts DEF Agrees
    <2>2. /\ s.xTxSegment.len = 0
          /\ n \in 0..uxStreamBufferMidSpace(s.txStream) /\ n \in Nat /\ n > 0
      BY <1>2, <2>1, SocketFields, SizeAssumption, LengthAssumption
      DEF lTCPWindowTxAdd, Least
    <2>3. /\ b \in Buffer(StreamByte) /\ MidInside(b)
          /\ b.uxTail = s.txStream.uxTail /\ b.uxHead = s.txStream.uxHead
          /\ b.ucArray = s.txStream.ucArray
          /\ uxStreamBufferDistance(b.uxTail, b.uxMid) = n
      BY <2>1, <2>2, MoveMidFacts DEF Agrees
    <2>4. /\ s.txStream.uxMid = s.txStream.uxTail
          /\ s.ulNextTxSequenceNumber = s.ulCurrentSequenceNumber
      <3>1. Wrap(s.txStream.uxTail + 0) = s.txStream.uxMid
        BY <2>1, <2>2, DistanceFacts DEF Agrees
      <3>2. Wrap(s.txStream.uxTail + 0) = s.txStream.uxTail
        BY <2>1, LengthAssumption DEF Wrap, Index
      <3>3. s.ulCurrentSequenceNumber \in SeqNumber
            /\ s.ulCurrentSequenceNumber \in Int
            /\ s.ulCurrentSequenceNumber + 0 = s.ulCurrentSequenceNumber
        BY SocketFields, StartAssumption DEF SeqNumber
      <3> QED BY <2>2, <3>1, <3>2, <3>3, SeqNrFacts DEF Agrees
    <2>5. /\ SeqNr(s.ulNextTxSequenceNumber + n) \in SeqNumber
          /\ seg \in TxSegment /\ seg.seq = s.ulNextTxSequenceNumber
          /\ seg.len = n /\ seg.pos = s.txStream.uxMid
      BY <2>1, <2>2, SocketFields, SeqNrFacts, StartAssumption
      DEF TxSegment, SeqNumber
    <2>6. c = [s EXCEPT !.xTxSegment = seg,
                 !.ulNextTxSequenceNumber = SeqNr(s.ulNextTxSequenceNumber + n),
                 !.txStream = b]
      BY <1>2 DEF prvTCPAddTxData
    <2> HIDE DEF n, b, seg, c
    <2>7. /\ c \in Socket /\ c.xTxSegment = seg /\ c.txStream = b
          /\ c.ulNextTxSequenceNumber = SeqNr(s.ulNextTxSequenceNumber + n)
          /\ c.ulCurrentSequenceNumber = s.ulCurrentSequenceNumber
          /\ c.ucTCPState = s.ucTCPState /\ c.usTimeout = s.usTimeout
          /\ c.xEventBits = s.xEventBits /\ c.ucKeepRepCount = s.ucKeepRepCount
      BY <2>3, <2>5, <2>6 DEF Socket
    <2>8. Agrees(c) /\ SameBytes(s, c)
      BY <2>3, <2>4, <2>5, <2>7 DEF Agrees, SameBytes
    <2> QED BY <2>7, <2>8 DEF c
  <1> QED BY <1>1, <1>2

(* A change of state, of a connection that still is one, leaves the bytes  *)
(* and the time-out alone, and has something to tell. *)
LEMMA StateChangeFacts ==
  ASSUME NEW s \in Socket, Agrees(s), NEW state \in State,
         prvTCPSocketIsActive(s.ucTCPState)
  PROVE  LET c == vTCPStateChange(s, state) IN
         /\ c \in Socket /\ Agrees(c) /\ SameBytes(s, c) /\ Tells(s, c)
         /\ c.usTimeout = s.usTimeout
  <1> DEFINE c == vTCPStateChange(s, state)
  <1>1. c = [s EXCEPT !.xEventBits = s.xEventBits \cup {eSOCKET_CLOSED},
                      !.ucTCPState = state, !.ucKeepRepCount = 0]
    BY DEF vTCPStateChange, prvTCPTouchSocket, Socket
  <1>2. s.xEventBits \cup {eSOCKET_CLOSED} \in SUBSET Bits
    BY SocketFields DEF Bits
  <1> HIDE DEF c
  <1>3. /\ c \in Socket /\ c.txStream = s.txStream /\ c.xTxSegment = s.xTxSegment
        /\ c.ulCurrentSequenceNumber = s.ulCurrentSequenceNumber
        /\ c.ulNextTxSequenceNumber = s.ulNextTxSequenceNumber
        /\ c.xEventBits = s.xEventBits \cup {eSOCKET_CLOSED}
        /\ c.usTimeout = s.usTimeout
    BY <1>1, <1>2 DEF Socket
  <1> QED BY <1>3 DEF Agrees, SameBytes, Tells, c

(* What prvTCPPrepareSend sends, it sends from the socket; it moves no     *)
(* byte, and does not stop the time-out. *)
LEMMA PrepareSendFacts ==
  ASSUME NEW s \in Socket, Agrees(s), NEW old \in BOOLEAN, NEW probe \in BOOLEAN
  PROVE  LET r == prvTCPPrepareSend(s, old, probe) IN
         /\ r.socket \in Socket /\ Agrees(r.socket)
         /\ SameBytes(s, r.socket) /\ Tells(s, r.socket)
         /\ r.socket.usTimeout \in {s.usTimeout, Later}
         /\ \A p \in r.packets : SentFrom(s, p)
  <1> DEFINE r == prvTCPPrepareSend(s, old, probe)
             n == ulTCPWindowTxGet(s, old)
             seg == s.xTxSegment
             sent == [s EXCEPT !.xTxSegment.bOutstanding = @ \/ n > 0]
             up == s.ucTCPState = "eESTABLISHED"
             offset == uxStreamBufferDistance(s.txStream.uxTail, seg.pos)
  <1>1. /\ s.txStream \in Buffer(StreamByte) /\ MidInside(s.txStream)
        /\ s.txStream.uxTail \in Index
        /\ seg.len \in Nat /\ seg.seq \in SeqNumber /\ seg \in TxSegment
        /\ seg.len = uxStreamBufferDistance(s.txStream.uxTail, s.txStream.uxMid)
        /\ s.usTimeout \in {0, Due, Later} /\ s.ucKeepRepCount \in Nat
        /\ s.ulCurrentSequenceNumber \in SeqNumber
    BY SocketFields, BufferFacts DEF Agrees
  <1>2. n = 0 \/ (n = seg.len /\ n > 0)
    BY <1>1 DEF ulTCPWindowTxGet
  <1>3. /\ sent \in Socket /\ Agrees(sent) /\ SameBytes(s, sent) /\ Tells(s, sent)
        /\ sent.usTimeout = s.usTimeout /\ sent.ucTCPState = s.ucTCPState
    <2>1. /\ sent \in Socket /\ sent.txStream = s.txStream
          /\ sent.ulCurrentSequenceNumber = s.ulCurrentSequenceNumber
          /\ sent.ulNextTxSequenceNumber = s.ulNextTxSequenceNumber
          /\ sent.xTxSegment.len = seg.len /\ sent.xTxSegment.pos = seg.pos
          /\ sent.xTxSegment.seq = seg.seq /\ sent.xEventBits = s.xEventBits
          /\ sent.usTimeout = s.usTimeout /\ sent.ucTCPState = s.ucTCPState
      <3>1. sent = [s EXCEPT !.xTxSegment =
                      [seg EXCEPT !.bOutstanding = seg.bOutstanding \/ n > 0]]
        BY DEF Socket, TxSegment
      <3>2. (seg.bOutstanding \/ n > 0) \in BOOLEAN
        OBVIOUS
      <3> DEFINE g == [seg EXCEPT !.bOutstanding = seg.bOutstanding \/ n > 0]
      <3>3. g \in TxSegment /\ g.seq = seg.seq /\ g.len = seg.len /\ g.pos = seg.pos
        BY <1>1, <3>2 DEF TxSegment
      <3> HIDE DEF g
      <3>4. sent = [s EXCEPT !.xTxSegment = g]
        BY <3>1 DEF g
      <3> HIDE DEF sent, seg
      <3>5. /\ sent \in Socket /\ sent.xTxSegment = g
            /\ sent.txStream = s.txStream
            /\ sent.ulCurrentSequenceNumber = s.ulCurrentSequenceNumber
            /\ sent.ulNextTxSequenceNumber = s.ulNextTxSequenceNumber
            /\ sent.xEventBits = s.xEventBits
            /\ sent.usTimeout = s.usTimeout /\ sent.ucTCPState = s.ucTCPState
        BY <3>3, <3>4 DEF Socket
      <3> QED BY <3>3, <3>5
    <2> HIDE DEF sent
    <2> QED BY <2>1 DEF Agrees, SameBytes, Tells
  <1>4. CASE up /\ s.ucKeepRepCount > KeepAliveTries
    <2>1. r = [socket |-> vTCPStateChange(sent, "eCLOSE_WAIT"), packets |-> {}]
      BY <1>4 DEF prvTCPPrepareSend
    <2> HIDE DEF sent
    <2>2. prvTCPSocketIsActive(sent.ucTCPState) /\ "eCLOSE_WAIT" \in State
      BY <1>3, <1>4 DEF prvTCPSocketIsActive, State
    <2> DEFINE c == vTCPStateChange(sent, "eCLOSE_WAIT")
    <2>3. /\ c \in Socket /\ Agrees(c) /\ SameBytes(sent, c) /\ Tells(sent, c)
          /\ c.usTimeout = sent.usTimeout
      BY <1>3, <2>2, StateChangeFacts
    <2> HIDE DEF c
    <2>4. r.socket = c /\ r.packets = {}
      BY <2>1 DEF c
    <2> QED BY <1>3, <2>3, <2>4 DEF SameBytes, Tells
  <1>5. CASE ~(up /\ s.ucKeepRepCount > KeepAliveTries) /\ n > 0
    <2> DEFINE p == Segment(seg.seq, Peeked(s.txStream, offset, n))
    <2>1. r = [socket |-> sent, packets |-> {p}]
      BY <1>5 DEF prvTCPPrepareSend
    <2>2. n = seg.len /\ seg.pos = s.txStream.uxTail
          /\ seg.seq = s.ulCurrentSequenceNumber
      BY <1>1, <1>2, <1>5 DEF Agrees
    <2>3. offset = 0 /\ n \in 0..uxStreamBufferGetSize(s.txStream)
      BY <1>1, <2>2, DistanceFacts, BufferFacts, LengthAssumption DEF MidInside
    <2>4. /\ Peeked(s.txStream, offset, n) \in Seq(StreamByte)
          /\ Len(Peeked(s.txStream, offset, n)) = n
          /\ \A k \in 1..n : Peeked(s.txStream, offset, n)[k] = Nth(s.txStream, k)
      BY <1>1, <2>3, PeekedFacts
    <2>5. SentFrom(s, p)
      <3> DEFINE d == Peeked(s.txStream, offset, n)
      <3>1. p.seq = s.ulCurrentSequenceNumber /\ p.data = d
            /\ p = [seq |-> s.ulCurrentSequenceNumber, data |-> d]
        BY <2>2 DEF Segment
      <3> HIDE DEF d, p, n, seg
      <3>2. d \in Seq(StreamByte) /\ Len(d) = n
            /\ \A k \in 1..n : d[k] = Nth(s.txStream, k)
        BY <2>4 DEF d
      <3>3. n <= uxStreamBufferGetSize(s.txStream)
        BY <2>3
      <3> QED BY <1>1, <3>1, <3>2, <3>3 DEF SentFrom
    <2> HIDE DEF sent, p, n
    <2>6. r.socket = sent /\ r.packets = {p}
      BY <2>1
    <2> QED BY <1>3, <2>5, <2>6
  <1>6. CASE ~(up /\ s.ucKeepRepCount > KeepAliveTries) /\ ~(n > 0) /\ up /\ probe
    <2> DEFINE c == [s EXCEPT !.usTimeout = Later,
                              !.ucKeepRepCount = s.ucKeepRepCount + 1]
               p == Segment(SeqNr(s.ulCurrentSequenceNumber - 1), <<>>)
    <2>1. r = [socket |-> c, packets |-> {p}]
      BY <1>6 DEF prvTCPPrepareSend
    <2>2. /\ c \in Socket /\ c.txStream = s.txStream /\ c.xTxSegment = s.xTxSegment
          /\ c.ulCurrentSequenceNumber = s.ulCurrentSequenceNumber
          /\ c.ulNextTxSequenceNumber = s.ulNextTxSequenceNumber
          /\ c.xEventBits = s.xEventBits /\ c.usTimeout = Later
      <3> DEFINE k == s.ucKeepRepCount + 1
      <3>1. k \in Nat /\ c = [s EXCEPT !.usTimeout = Later, !.ucKeepRepCount = k]
        BY <1>1
      <3> HIDE DEF k, c
      <3> QED BY <3>1 DEF Socket
    <2>3. SentFrom(s, p)
      <3>1. s.ulCurrentSequenceNumber - 1 \in Int
        BY <1>1, StartAssumption DEF SeqNumber
      <3>2. SeqNr(s.ulCurrentSequenceNumber - 1) \in SeqNumber
        BY <3>1, SeqNrFacts
      <3>3. <<>> \in Seq(StreamByte)
        OBVIOUS
      <3> QED BY <3>2, <3>3 DEF SentFrom, Segment
    <2> HIDE DEF c, p
    <2>4. r.socket = c /\ r.packets = {p}
      BY <2>1
    <2> QED BY <2>2, <2>3, <2>4 DEF Agrees, SameBytes, Tells
  <1>7. CASE ~(up /\ s.ucKeepRepCount > KeepAliveTries) /\ ~(n > 0) /\ ~(up /\ probe)
    <2>1. r = [socket |-> s, packets |-> {}]
      BY <1>7 DEF prvTCPPrepareSend
    <2> QED BY <1>1, <2>1 DEF SameBytes, Tells
  <1> QED BY <1>4, <1>5, <1>6, <1>7

(* Nor do its rounds. *)
LEMMA SendRepeatedFacts ==
  ASSUME NEW s \in Socket, Agrees(s), NEW old \in BOOLEAN, NEW probe \in BOOLEAN
  PROVE  LET r == prvTCPSendRepeated(s, old, probe) IN
         /\ r = [socket |-> r.socket, packets |-> r.packets]
         /\ r.socket \in Socket /\ Agrees(r.socket)
         /\ SameBytes(s, r.socket) /\ Tells(s, r.socket)
         /\ r.socket.usTimeout \in {s.usTimeout, Later}
         /\ \A p \in r.packets : SentFrom(s, p)
  <1> DEFINE r == prvTCPSendRepeated(s, old, probe)
             one == prvTCPPrepareSend(s, old, probe)
             again == probe /\ ~\E p \in one.packets : p.data = <<>>
             two == prvTCPPrepareSend(one.socket, FALSE, again)
             three == prvTCPPrepareSend(two.socket, FALSE, FALSE)
             all == [socket |-> three.socket,
                     packets |-> one.packets \cup two.packets \cup three.packets]
  <1>1. /\ one.socket \in Socket /\ Agrees(one.socket)
        /\ SameBytes(s, one.socket) /\ Tells(s, one.socket)
        /\ one.socket.usTimeout \in {s.usTimeout, Later}
        /\ \A p \in one.packets : SentFrom(s, p)
    BY PrepareSendFacts
  <1>2. /\ two.socket \in Socket /\ Agrees(two.socket)
        /\ SameBytes(one.socket, two.socket) /\ Tells(one.socket, two.socket)
        /\ two.socket.usTimeout \in {one.socket.usTimeout, Later}
        /\ \A p \in two.packets : SentFrom(one.socket, p)
    <2>1. again \in BOOLEAN
      OBVIOUS
    <2> HIDE DEF one, again
    <2> QED BY <1>1, <2>1, PrepareSendFacts
  <1>3. /\ three.socket \in Socket /\ Agrees(three.socket)
        /\ SameBytes(two.socket, three.socket) /\ Tells(two.socket, three.socket)
        /\ three.socket.usTimeout \in {two.socket.usTimeout, Later}
        /\ \A p \in three.packets : SentFrom(two.socket, p)
    <2> HIDE DEF two
    <2> QED BY <1>2, PrepareSendFacts
  <1>4. r \in {all, one}
    BY DEF prvTCPSendRepeated
  <1>a. one = [socket |-> one.socket, packets |-> one.packets]
    BY DEF prvTCPPrepareSend
  <1> HIDE DEF r, one, two, three
  <1>5. SameBytes(s, two.socket) /\ Tells(s, two.socket)
    BY <1>1, <1>2 DEF SameBytes, Tells
  <1>6. SameBytes(s, three.socket) /\ Tells(s, three.socket)
    BY <1>3, <1>5 DEF SameBytes, Tells
  <1>b. three.socket.usTimeout \in {s.usTimeout, Later}
    BY <1>1, <1>2, <1>3
  <1>7. \A p \in two.packets : SentFrom(s, p)
    BY <1>1, <1>2, SameBytesSend
  <1>8. \A p \in three.packets : SentFrom(s, p)
    BY <1>2, <1>3, <1>5, SameBytesSend
  <1>9. CASE r = one
    BY <1>1, <1>9, <1>a DEF r
  <1>10. CASE r = all
    <2>1. /\ r.socket = three.socket
          /\ r.packets = one.packets \cup two.packets \cup three.packets
      BY <1>10
    <2>2. r = [socket |-> r.socket, packets |-> r.packets]
      BY <1>10, <2>1
    <2>3. \A p \in r.packets : SentFrom(s, p)
      BY <1>1, <1>7, <1>8, <2>1
    <2> HIDE DEF all
    <2> QED BY <1>3, <1>b, <1>6, <2>1, <2>2, <2>3 DEF r
  <1> QED BY <1>4, <1>9, <1>10

(* A time-out that has stopped is started again. *)
LEMMA NextTimeoutFacts ==
  ASSUME NEW s \in Socket, Agrees(s)
  PROVE  LET c == prvTCPNextTimeout(s) IN
         /\ c \in Socket /\ Agrees(c) /\ SameBytes(s, c) /\ Tells(s, c)
         /\ c.xEventBits = s.xEventBits /\ c.usTimeout \in {Due, Later}
  <1> DEFINE c == prvTCPNextTimeout(s)
             t == IF s.usTimeout = 0 THEN Later ELSE s.usTimeout
  <1>1. c = [s EXCEPT !.usTimeout = t] /\ t \in {Due, Later}
    BY SocketFields DEF prvTCPNextTimeout
  <1> HIDE DEF c, t
  <1>2. /\ c \in Socket /\ c.txStream = s.txStream /\ c.xTxSegment = s.xTxSegment
        /\ c.ulCurrentSequenceNumber = s.ulCurrentSequenceNumber
        /\ c.ulNextTxSequenceNumber = s.ulNextTxSequenceNumber
        /\ c.xEventBits = s.xEventBits /\ c.usTimeout = t
    BY <1>1 DEF Socket
  <1> QED BY <1>1, <1>2 DEF Agrees, SameBytes, Tells, c

(* A look at the socket whose time-out was stopped.                        *)
LEMMA SocketCheckFacts ==
  ASSUME NEW s \in Socket, Agrees(s), NEW old \in BOOLEAN, NEW probe \in BOOLEAN
  PROVE  LET r == xTCPSocketCheck(s, old, probe) IN
         /\ r.socket \in Socket /\ Agrees(r.socket)
         /\ SameBytes(s, r.socket) /\ Tells(s, r.socket)
         /\ r.socket.usTimeout \in {Due, Later}
         /\ \A p \in r.packets : SentFrom(s, p)
  <1> DEFINE a == prvTCPAddTxData(s)
             q == IF s.ucTCPState = "eCLOSED" THEN [socket |-> s, packets |-> {}]
                  ELSE prvTCPSendRepeated(a, old, probe)
             r == xTCPSocketCheck(s, old, probe)
  <1>1. /\ a \in Socket /\ Agrees(a) /\ SameBytes(s, a)
        /\ a.xEventBits = s.xEventBits
    BY AddTxDataFacts
  <1>2. /\ q.socket \in Socket /\ Agrees(q.socket) /\ SameBytes(s, q.socket)
        /\ Tells(s, q.socket) /\ \A p \in q.packets : SentFrom(s, p)
    <2>1. CASE s.ucTCPState = "eCLOSED"
      BY <2>1 DEF SameBytes, Tells
    <2>2. CASE s.ucTCPState # "eCLOSED"
      <3> DEFINE z == prvTCPSendRepeated(a, old, probe)
      <3> HIDE DEF a
      <3>1. /\ z.socket \in Socket /\ Agrees(z.socket)
            /\ SameBytes(a, z.socket) /\ Tells(a, z.socket)
            /\ \A p \in z.packets : SentFrom(a, p)
        BY <1>1, SendRepeatedFacts
      <3>2. q = z
        BY <2>2
      <3> HIDE DEF z, q
      <3>3. SameBytes(s, z.socket) /\ Tells(s, z.socket)
        BY <1>1, <3>1 DEF SameBytes, Tells
      <3>4. \A p \in z.packets : SentFrom(s, p)
        BY <1>1, <3>1, SameBytesSend
      <3> QED BY <3>1, <3>2, <3>3, <3>4
    <2> QED BY <2>1, <2>2
  <1>3. r.socket = prvTCPNextTimeout(q.socket) /\ r.packets = q.packets
    <2>1. r = [q EXCEPT !.socket = prvTCPNextTimeout(q.socket)]
      BY DEF xTCPSocketCheck
    <2>2. q = [socket |-> q.socket, packets |-> q.packets]
      <3>1. CASE s.ucTCPState = "eCLOSED"
        BY <3>1
      <3>2. CASE s.ucTCPState # "eCLOSED"
        <4> DEFINE z == prvTCPSendRepeated(a, old, probe)
        <4> HIDE DEF a
        <4>1. z = [socket |-> z.socket, packets |-> z.packets]
          BY <1>1, SendRepeatedFacts
        <4>2. q = z
          BY <3>2
        <4> HIDE DEF z, q
        <4> QED BY <4>1, <4>2
      <3> QED BY <3>1, <3>2
    <2> HIDE DEF q, r
    <2> QED BY <2>1, <2>2
  <1> HIDE DEF q, r
  <1> DEFINE c == prvTCPNextTimeout(q.socket)
  <1>4. /\ c \in Socket /\ Agrees(c) /\ SameBytes(q.socket, c)
        /\ Tells(q.socket, c) /\ c.usTimeout \in {Due, Later}
    BY <1>2, NextTimeoutFacts
  <1> HIDE DEF c
  <1>5. SameBytes(s, c) /\ Tells(s, c)
    BY <1>2, <1>4 DEF SameBytes, Tells
  <1> QED BY <1>2, <1>3, <1>4, <1>5 DEF c, r

(* A socket with the same bytes as one that was acknowledged. *)
LEMMA AckedSame ==
  ASSUME NEW s, NEW c, NEW d, NEW n, Acked(s, c, n), SameBytes(c, d), Tells(c, d)
  PROVE  Acked(s, d, n)
  BY DEF Acked, SameBytes, Tells, uxStreamBufferGetSize, Nth

(* With nothing acknowledged nothing changes. *)
LEMMA AckedNone ==
  ASSUME NEW s \in Socket
  PROVE  Acked(s, s, 0)
  <1>1. /\ uxStreamBufferGetSize(s.txStream) \in 0..LENGTH-1
        /\ s.ulCurrentSequenceNumber \in SeqNumber
    BY SocketFields, BufferFacts
  <1>2. /\ s.ulCurrentSequenceNumber \in Int
        /\ s.ulCurrentSequenceNumber + 0 = s.ulCurrentSequenceNumber
    BY <1>1, StartAssumption DEF SeqNumber
  <1>3. SeqNr(s.ulCurrentSequenceNumber + 0) = s.ulCurrentSequenceNumber
    BY <1>1, <1>2, SeqNrFacts
  <1>4. \A k \in 1..uxStreamBufferGetSize(s.txStream) : 0 + k = k
    BY <1>1, LengthAssumption
  <1> QED BY <1>1, <1>3, <1>4, LengthAssumption DEF Acked

(* An acknowledgement takes the whole segment or nothing, and what is sent *)
(* at once is of the bytes that are left. *)
LEMMA HandleEstablishedFacts ==
  ASSUME NEW s \in Socket, Agrees(s), NEW ack, NEW old \in BOOLEAN
  PROVE  LET r == prvHandleEstablished(s, ack, old)
             n == ulTCPWindowTxAck(s, ack) IN
         /\ r.socket \in Socket /\ Agrees(r.socket)
         /\ Acked(s, r.socket, n) /\ Tells(s, r.socket)
         /\ r.socket.usTimeout \in {s.usTimeout, Later}
         /\ \A p \in r.packets : SentFrom(r.socket, p)
  <1> DEFINE r == prvHandleEstablished(s, ack, old)
             n == ulTCPWindowTxAck(s, ack)
             freed == uxStreamBufferGetSize(s.txStream) > 0
             bits == IF freed THEN s.xEventBits \cup {eSOCKET_SEND} ELSE s.xEventBits
             cur == SeqNr(s.ulCurrentSequenceNumber + n)
             t == Taken(s.txStream, n)
             acked == [s EXCEPT !.ulCurrentSequenceNumber = cur,
                         !.xTxSegment = NoSegment, !.txStream = t,
                         !.xEventBits = bits]
             m == IF n > 0 THEN acked ELSE s
             a == prvTCPAddTxData(m)
  <1>1. /\ s.txStream \in Buffer(StreamByte) /\ MidInside(s.txStream)
        /\ s.xTxSegment.len \in Nat
        /\ uxStreamBufferDistance(s.txStream.uxTail, s.txStream.uxMid)
             = s.xTxSegment.len
        /\ uxStreamBufferGetSize(s.txStream) \in 0..LENGTH-1
        /\ uxStreamBufferMidSpace(s.txStream) \in 0..LENGTH-1
        /\ s.ulCurrentSequenceNumber \in SeqNumber
        /\ s.ulNextTxSequenceNumber \in SeqNumber
        /\ s.xEventBits \subseteq Bits
    BY SocketFields, BufferFacts DEF Agrees
  <1>2. n = 0 \/ (n = s.xTxSegment.len /\ n > 0)
    BY <1>1 DEF ulTCPWindowTxAck
  <1>3. /\ m \in Socket /\ Agrees(m) /\ Acked(s, m, n) /\ Tells(s, m)
        /\ m.usTimeout = s.usTimeout
    <2>1. CASE n = 0
      <3>1. m = s
        BY <2>1
      <3> HIDE DEF m, n
      <3> QED BY <2>1, <3>1, AckedNone DEF Tells
    <2>2. CASE n # 0
      <3>1. n = s.xTxSegment.len /\ n > 0 /\ m = acked
        BY <1>2, <2>2
      <3>2. n \in 0..uxStreamBufferGetSize(s.txStream) /\ n \in Nat
        <4>1. s.xTxSegment.len + uxStreamBufferMidSpace(s.txStream)
                = uxStreamBufferGetSize(s.txStream)
          BY <1>1 DEF MidInside
        <4> HIDE DEF n
        <4> QED BY <1>1, <3>1, <4>1, LengthAssumption
      <3>3. /\ t \in Buffer(StreamByte) /\ MidInside(t)
            /\ uxStreamBufferDistance(t.uxTail, t.uxMid) = 0
            /\ t.uxHead = s.txStream.uxHead /\ t.ucArray = s.txStream.ucArray
            /\ uxStreamBufferGetSize(t) = uxStreamBufferGetSize(s.txStream) - n
            /\ \A k \in 1..uxStreamBufferGetSize(t) : Nth(t, k) = Nth(s.txStream, n + k)
        <4>1. n = uxStreamBufferDistance(s.txStream.uxTail, s.txStream.uxMid)
          BY <1>1, <3>1
        <4> HIDE DEF n
        <4> QED BY <1>1, <4>1, TakenFacts
      <3>4. cur \in SeqNumber /\ cur = s.ulNextTxSequenceNumber
        <4> HIDE DEF n
        <4>1. s.ulCurrentSequenceNumber + n \in Int
          BY <1>1, <3>2, StartAssumption DEF SeqNumber
        <4> QED BY <3>1, <4>1, SeqNrFacts DEF Agrees
      <3>5. freed /\ bits \in SUBSET Bits /\ eSOCKET_SEND \in bits
            /\ s.xEventBits \subseteq bits
        <4>1. freed
          BY <1>1, <3>1, <3>2, LengthAssumption
        <4> QED BY <1>1, <4>1 DEF Bits
      <3>6. /\ NoSegment \in TxSegment /\ NoSegment.len = 0
        BY LengthAssumption, StartAssumption
        DEF NoSegment, TxSegment, SeqNumber, Index
      <3> HIDE DEF cur, t, bits, n
      <3>7. /\ acked \in Socket /\ acked.txStream = t
            /\ acked.ulCurrentSequenceNumber = cur /\ acked.xTxSegment = NoSegment
            /\ acked.ulNextTxSequenceNumber = s.ulNextTxSequenceNumber
            /\ acked.xEventBits = bits /\ acked.usTimeout = s.usTimeout
        BY <3>3, <3>4, <3>5, <3>6 DEF Socket
      <3> HIDE DEF acked, m
      <3>8. cur \in Int /\ cur + 0 = cur /\ SeqNr(cur + 0) = cur
        BY <3>4, SeqNrFacts, StartAssumption DEF SeqNumber
      <3>9. Agrees(acked)
        BY <3>3, <3>4, <3>6, <3>7, <3>8 DEF Agrees
      <3>10. Acked(s, acked, n)
        BY <3>2, <3>3, <3>5, <3>7 DEF Acked, cur
      <3> QED BY <3>1, <3>5, <3>7, <3>9, <3>10 DEF Tells
    <2> QED BY <2>1, <2>2
  <1>4. r = prvTCPPrepareSend(a, old, FALSE)
    BY DEF prvHandleEstablished
  <1> HIDE DEF m, r, n
  <1>5. /\ a \in Socket /\ Agrees(a) /\ SameBytes(m, a) /\ Tells(m, a)
        /\ a.usTimeout = m.usTimeout
    BY <1>3, AddTxDataFacts DEF Tells
  <1> HIDE DEF a
  <1>6. /\ r.socket \in Socket /\ Agrees(r.socket)
        /\ SameBytes(a, r.socket) /\ Tells(a, r.socket)
        /\ r.socket.usTimeout \in {a.usTimeout, Later}
        /\ \A p \in r.packets : SentFrom(a, p)
    BY <1>4, <1>5, PrepareSendFacts
  <1>7. Acked(s, r.socket, n) /\ Tells(s, r.socket)
    BY <1>3, <1>5, <1>6, AckedSame DEF Tells
  <1>8. \A p \in r.packets : SentFrom(r.socket, p)
    BY <1>6, SameBytesSend
  <1> QED BY <1>3, <1>5, <1>6, <1>7, <1>8 DEF r, n

(* What a packet from the network does to the socket.                      *)
LEMMA ReceivedFacts ==
  ASSUME NEW s \in Socket, Agrees(s), s.usTimeout \in {Due, Later},
         NEW p, NEW old \in BOOLEAN
  PROVE  LET r == xProcessReceivedTCPPacket(s, p, old) IN
         /\ r.socket \in Socket /\ Agrees(r.socket) /\ Tells(s, r.socket)
         /\ r.socket.usTimeout \in {Due, Later}
         /\ \A q \in r.packets : SentFrom(r.socket, q)
         /\ \E n \in Nat :
              /\ Acked(s, r.socket, n)
              /\ n > 0 => /\ p.kind # "rst"
                          /\ ~(p.nr < SeqNr(s.ulCurrentSequenceNumber + n))
  <1> DEFINE r == xProcessReceivedTCPPacket(s, p, old)
  <1>1. CASE ~prvTCPSocketIsActive(s.ucTCPState)
    <2>1. r = [socket |-> s, packets |-> {}]
      BY <1>1 DEF xProcessReceivedTCPPacket
    <2> QED BY <2>1, AckedNone DEF Tells
  <1>2. CASE prvTCPSocketIsActive(s.ucTCPState) /\ p.kind = "rst"
    <2> DEFINE c == vTCPStateChange(s, "eCLOSED")
    <2>1. r = [socket |-> c, packets |-> {}]
      BY <1>2 DEF xProcessReceivedTCPPacket
    <2>2. /\ c \in Socket /\ Agrees(c) /\ SameBytes(s, c) /\ Tells(s, c)
          /\ c.usTimeout = s.usTimeout
      BY <1>2, StateChangeFacts DEF State
    <2> HIDE DEF c
    <2>3. Acked(s, c, 0)
      BY <2>2, AckedNone, AckedSame
    <2> QED BY <2>1, <2>2, <2>3
  <1>3. CASE prvTCPSocketIsActive(s.ucTCPState) /\ p.kind # "rst"
    <2> DEFINE u == prvTCPTouchSocket(s)
               h == prvHandleEstablished(u, p.nr, old)
               n == ulTCPWindowTxAck(u, p.nr)
               c == prvTCPNextTimeout(h.socket)
    <2>1. /\ u \in Socket /\ Agrees(u) /\ SameBytes(s, u) /\ Tells(s, u)
          /\ u.usTimeout = s.usTimeout /\ u.xTxSegment = s.xTxSegment
          /\ u.txStream = s.txStream
      <3>1. /\ u \in Socket /\ u.txStream = s.txStream /\ u.xTxSegment = s.xTxSegment
            /\ u.ulCurrentSequenceNumber = s.ulCurrentSequenceNumber
            /\ u.ulNextTxSequenceNumber = s.ulNextTxSequenceNumber
            /\ u.xEventBits = s.xEventBits /\ u.usTimeout = s.usTimeout
        BY DEF prvTCPTouchSocket, Socket
      <3> HIDE DEF u
      <3> QED BY <3>1 DEF Agrees, SameBytes, Tells
    <2>2. r.socket = c /\ r.packets = h.packets
      <3>1. r = [h EXCEPT !.socket = c]
        BY <1>3 DEF xProcessReceivedTCPPacket
      <3>2. \E x, y : h = [socket |-> x, packets |-> y]
        BY DEF prvHandleEstablished, prvTCPPrepareSend
      <3> HIDE DEF h, c, r
      <3> QED BY <3>1, <3>2
    <2> HIDE DEF u
    <2>3. /\ h.socket \in Socket /\ Agrees(h.socket) /\ Acked(u, h.socket, n)
          /\ Tells(u, h.socket) /\ \A q \in h.packets : SentFrom(h.socket, q)
      BY <2>1, HandleEstablishedFacts
    <2> HIDE DEF h
    <2>4. /\ c \in Socket /\ Agrees(c) /\ SameBytes(h.socket, c)
          /\ Tells(h.socket, c) /\ c.usTimeout \in {Due, Later}
      BY <2>3, NextTimeoutFacts
    <2>5. /\ n \in Nat
          /\ n > 0 => ~(p.nr < SeqNr(s.ulCurrentSequenceNumber + n))
      BY <2>1, SocketFields DEF ulTCPWindowTxAck, SameBytes
    <2> HIDE DEF c, n, r
    <2>6. Acked(s, c, n) /\ Tells(s, c)
      <3>1. Acked(u, c, n)
        BY <2>3, <2>4, AckedSame
      <3>2. Acked(s, c, n)
        BY <2>1, <3>1 DEF Acked, SameBytes
      <3> QED BY <2>1, <2>3, <2>4, <3>2 DEF Tells
    <2>7. \A q \in r.packets : SentFrom(r.socket, q)
      BY <2>2, <2>3, <2>4, SameBytesSend
    <2> QED BY <1>3, <2>2, <2>4, <2>5, <2>6, <2>7 DEF r
  <1> QED BY <1>1, <1>2, <1>3

-----------------------------------------------------------------------------
(* Types, and where main_task is in a message: it has bytes left unless it *)
(* is idle, counts bytes only while it moves them, and while it has not    *)
(* moved uxHead there is room for them. *)
Packet == [kind : {"ack", "rst", "timer"}, nr : SeqNumber]

TypeInv ==
  /\ pc \in {"idle", "space", "copy", "head", "event", "block", "wait"}
  /\ msg \in 0..Messages /\ left \in 0..MSG_SIZE /\ count \in 0..left
  /\ socket \in Socket /\ socket.usTimeout \in {Due, Later}
  /\ group \in SUBSET Bits
  /\ ip \in {"timers", "receive"} /\ events \in Seq(Packet)
  /\ bExpired \in BOOLEAN /\ xProcessedTCPMessage \in BOOLEAN
  /\ toPeer \in SUBSET [seq : SeqNumber, data : Seq(StreamByte)]
  /\ toTiva \in SUBSET Packet
  /\ received \in Seq(StreamByte) /\ accepted \in Seq(StreamByte)

MainInv ==
  /\ pc = "idle" => left = 0
  /\ pc # "idle" => left > 0 /\ msg > 0
  /\ IF pc \in {"copy", "head", "event"} THEN count > 0 ELSE count = 0
  /\ pc \in {"copy", "head"} => count <= uxStreamBufferGetSpace(socket.txStream)

WindowInv == TypeInv /\ MainInv /\ Agrees(socket)

(* The packets it starts from are packets; a look at the timer keeps the   *)
(* bytes, sends from them, and forgets no bit before the owner knows.      *)
LEMMA TimerCheckFacts ==
  ASSUME TypeInv, Agrees(socket), NEW xWillSleep \in BOOLEAN, NEW due \in BOOLEAN,
         NEW old \in BOOLEAN, NEW probe \in BOOLEAN,
         xTCPTimerCheck(xWillSleep, due, old, probe)
  PROVE  /\ socket' \in Socket /\ Agrees(socket') /\ SameBytes(socket, socket')
         /\ socket'.usTimeout \in {Due, Later}
         /\ \A p \in toPeer' : p \in toPeer \/ SentFrom(socket, p)
         /\ bExpired' \in BOOLEAN
         /\ \/ /\ pc' = pc /\ group' = group /\ Tells(socket, socket')
               /\ socket'.xEventBits # {} => bExpired'
            \/ /\ pc # "wait" /\ pc' = pc /\ socket'.xEventBits = {}
               /\ group' # {} /\ group' \in SUBSET Bits
            \/ /\ pc = "wait" /\ pc' = "space" /\ socket'.xEventBits = {}
               /\ group' = group
  <1> DEFINE checked == socket.usTimeout = Due \/ (socket.usTimeout = Later /\ due)
             z == [socket EXCEPT !.usTimeout = 0]
             r == IF checked THEN xTCPSocketCheck(z, old, probe)
                  ELSE [socket |-> socket, packets |-> {}]
             wakes == socket.usTimeout # 0 /\ r.socket.xEventBits # {}
             cleared == [r.socket EXCEPT !.xEventBits = {}]
  <1>1. /\ Transmit(r.packets)
        /\ bExpired' = (wakes /\ ~xWillSleep)
        /\ IF wakes /\ xWillSleep
           THEN /\ vSocketWakeUpUser(r.socket.xEventBits)
                /\ socket' = [r.socket EXCEPT !.xEventBits = {}]
           ELSE socket' = r.socket /\ UNCHANGED <<group, pc>>
    BY DEF xTCPTimerCheck
  <1>2. /\ socket \in Socket /\ socket.usTimeout \in {Due, Later}
        /\ group \in SUBSET Bits
    BY DEF TypeInv
  <1>3. /\ r.socket \in Socket /\ Agrees(r.socket) /\ SameBytes(socket, r.socket)
        /\ Tells(socket, r.socket) /\ r.socket.usTimeout \in {Due, Later}
        /\ \A p \in r.packets : SentFrom(socket, p)
    <2>1. CASE ~checked
      <3>1. r.socket = socket /\ r.packets = {}
        BY <2>1
      <3> HIDE DEF r
      <3> QED BY <1>2, <3>1 DEF SameBytes, Tells
    <2>2. CASE checked
      <3>1. /\ z \in Socket /\ z.txStream = socket.txStream
            /\ z.xTxSegment = socket.xTxSegment
            /\ z.ulCurrentSequenceNumber = socket.ulCurrentSequenceNumber
            /\ z.ulNextTxSequenceNumber = socket.ulNextTxSequenceNumber
            /\ z.xEventBits = socket.xEventBits
        BY <1>2 DEF Socket
      <3> DEFINE q == xTCPSocketCheck(z, old, probe)
      <3>2. r = q
        BY <2>2
      <3> HIDE DEF z, r
      <3>3. Agrees(z) /\ SameBytes(socket, z) /\ Tells(socket, z)
        BY <3>1 DEF Agrees, SameBytes, Tells
      <3>4. /\ q.socket \in Socket /\ Agrees(q.socket) /\ SameBytes(z, q.socket)
            /\ Tells(z, q.socket) /\ q.socket.usTimeout \in {Due, Later}
            /\ \A p \in q.packets : SentFrom(z, p)
        BY <3>1, <3>3, SocketCheckFacts
      <3> HIDE DEF q
      <3>5. SameBytes(socket, q.socket) /\ Tells(socket, q.socket)
        BY <3>3, <3>4 DEF SameBytes, Tells
      <3>6. \A p \in q.packets : SentFrom(socket, p)
        BY <3>3, <3>4, SameBytesSend
      <3> QED BY <3>2, <3>4, <3>5, <3>6
    <2> QED BY <2>1, <2>2
  <1> HIDE DEF r
  <1>4. \A p \in toPeer' : p \in toPeer \/ SentFrom(socket, p)
    BY <1>1, <1>3 DEF Transmit
  <1>5. socket.usTimeout # 0
    BY <1>2 DEF Due, Later
  <1>6. CASE wakes /\ xWillSleep
    <2>1. /\ cleared \in Socket /\ cleared.txStream = r.socket.txStream
          /\ cleared.xTxSegment = r.socket.xTxSegment
          /\ cleared.ulCurrentSequenceNumber = r.socket.ulCurrentSequenceNumber
          /\ cleared.ulNextTxSequenceNumber = r.socket.ulNextTxSequenceNumber
          /\ cleared.xEventBits = {} /\ cleared.usTimeout = r.socket.usTimeout
      BY <1>3 DEF Socket
    <2> HIDE DEF cleared
    <2>2. Agrees(cleared) /\ SameBytes(socket, cleared)
      BY <1>3, <2>1 DEF Agrees, SameBytes
    <2>3. socket' = cleared /\ vSocketWakeUpUser(r.socket.xEventBits)
      BY <1>1, <1>6 DEF cleared
    <2>4. CASE pc = "wait"
      BY <1>1, <1>3, <1>4, <1>6, <2>1, <2>2, <2>3, <2>4 DEF vSocketWakeUpUser
    <2>5. CASE pc # "wait"
      <3>1. pc' = pc /\ group' = group \cup r.socket.xEventBits
        BY <2>3, <2>5 DEF vSocketWakeUpUser
      <3>2. group' # {} /\ group' \in SUBSET Bits
        BY <1>2, <1>3, <1>6, <3>1, SocketFields
      <3> QED BY <1>1, <1>3, <1>4, <1>6, <2>1, <2>2, <2>3, <2>5, <3>1, <3>2
    <2> QED BY <2>4, <2>5
  <1>7. CASE ~(wakes /\ xWillSleep)
    <2>1. socket' = r.socket /\ group' = group /\ pc' = pc
      BY <1>1, <1>7
    <2>2. socket'.xEventBits # {} => bExpired'
      BY <1>1, <1>5, <1>7, <2>1
    <2> QED BY <1>1, <1>3, <1>4, <2>1, <2>2
  <1> QED BY <1>6, <1>7

(* The stream has room for what is left of it after an acknowledgement. *)
LEMMA RoomFacts ==
  ASSUME NEW s \in Socket, NEW c \in Socket
  PROVE  /\ uxStreamBufferGetSpace(s.txStream) \in 0..LENGTH-1
         /\ uxStreamBufferGetSpace(s.txStream)
              = LENGTH - 1 - uxStreamBufferGetSize(s.txStream)
         /\ SameBytes(s, c) => uxStreamBufferGetSpace(c.txStream)
                                = uxStreamBufferGetSpace(s.txStream)
         /\ \A n \in Nat : Acked(s, c, n) =>
               uxStreamBufferGetSpace(c.txStream)
                 = uxStreamBufferGetSpace(s.txStream) + n
  <1>1. /\ uxStreamBufferGetSize(s.txStream) \in 0..LENGTH-1
        /\ uxStreamBufferGetSize(c.txStream) \in 0..LENGTH-1
        /\ uxStreamBufferGetSpace(s.txStream)
             = LENGTH - 1 - uxStreamBufferGetSize(s.txStream)
        /\ uxStreamBufferGetSpace(c.txStream)
             = LENGTH - 1 - uxStreamBufferGetSize(c.txStream)
    BY SocketFields, BufferFacts
  <1>2. uxStreamBufferGetSpace(s.txStream) \in 0..LENGTH-1
    BY <1>1, LengthAssumption
  <1>3. SameBytes(s, c) => uxStreamBufferGetSpace(c.txStream)
                             = uxStreamBufferGetSpace(s.txStream)
    BY DEF SameBytes, uxStreamBufferGetSpace
  <1>4. ASSUME NEW n \in Nat, Acked(s, c, n)
        PROVE  uxStreamBufferGetSpace(c.txStream)
                 = uxStreamBufferGetSpace(s.txStream) + n
    <2>1. uxStreamBufferGetSize(c.txStream) = uxStreamBufferGetSize(s.txStream) - n
      BY <1>4 DEF Acked
    <2> QED BY <1>1, <2>1, LengthAssumption
  <1> QED BY <1>1, <1>2, <1>3, <1>4

(* The bytes of a message that are copied next. *)
LEMMA ChunkFacts ==
  ASSUME TypeInv, MainInv, pc \in {"copy", "head"}
  PROVE  /\ Chunk \in Seq(StreamByte) /\ Len(Chunk) = count
         /\ \A k \in 1..count : Chunk[k] = <<msg, MSG_SIZE - left + k>>
  <1>1. /\ msg \in 1..Messages /\ left \in 0..MSG_SIZE /\ count \in 0..left
        /\ MSG_SIZE \in Nat /\ count \in Nat
    BY SizeAssumption DEF TypeInv, MainInv
  <1> DEFINE M == Message(msg)
             from == MSG_SIZE - left + 1
             to == MSG_SIZE - left + count
  <1>2. M = [i \in 1..MSG_SIZE |-> <<msg, i>>]
    BY DEF Message
  <1>3. /\ M \in Seq(StreamByte) /\ Len(M) = MSG_SIZE
        /\ \A i \in 1..MSG_SIZE : M[i] = <<msg, i>> /\ M[i] \in StreamByte
    <2>1. \A i \in 1..MSG_SIZE : <<msg, i>> \in StreamByte
      BY <1>1 DEF StreamByte, Byte
    <2> QED BY <1>1, <1>2, <2>1
  <1>4. from \in 1..MSG_SIZE+1 /\ to \in 0..MSG_SIZE /\ to = from - 1 + count
    BY <1>1
  <1> HIDE DEF M
  <1>5. SubSeq(M, from, to) = [k \in 1..count |-> M[from + k - 1]]
    <2>1. 1..(to - from + 1) = 1..count
      BY <1>1, <1>4
    <2> HIDE DEF from, to
    <2> QED BY <1>1, <1>3, <1>4, <2>1
  <1>6. \A k \in 1..count : /\ from + k - 1 \in 1..MSG_SIZE
                             /\ from + k - 1 = MSG_SIZE - left + k
    BY <1>1
  <1>7. \A k \in 1..count : M[from + k - 1] = <<msg, MSG_SIZE - left + k>>
                             /\ M[from + k - 1] \in StreamByte
    <2> HIDE DEF from
    <2> QED BY <1>3, <1>6
  <1>8. Chunk = [k \in 1..count |-> M[from + k - 1]]
    BY <1>5 DEF Chunk, M
  <1> HIDE DEF from, to
  <1> QED BY <1>1, <1>7, <1>8

(* What main_task does to the stream. *)
LEMMA CopiesBytesFacts ==
  ASSUME WindowInv, CopiesBytes
  PROVE  LET b == socket.txStream size == uxStreamBufferGetSize(b) IN
         /\ socket' \in Socket /\ Agrees(socket')
         /\ socket'.ulCurrentSequenceNumber = socket.ulCurrentSequenceNumber
         /\ socket'.txStream.uxTail = b.uxTail /\ socket'.txStream.uxHead = b.uxHead
         /\ socket'.usTimeout = socket.usTimeout
         /\ socket'.xEventBits = socket.xEventBits
         /\ \A k \in 1..size : Nth(socket'.txStream, k) = Nth(b, k)
         /\ socket'.txStream.ucArray \in [Index -> StreamByte]
         /\ \A k \in 1..count :
              socket'.txStream.ucArray[Wrap(b.uxHead + (k - 1))] = Chunk[k]
  <1> DEFINE b == socket.txStream
             size == uxStreamBufferGetSize(b)
             c == Copied(b, Chunk)
  <1>1. /\ socket \in Socket /\ Agrees(socket) /\ pc = "copy"
        /\ count <= uxStreamBufferGetSpace(b)
        /\ socket' = [socket EXCEPT !.txStream = c]
    BY DEF WindowInv, TypeInv, MainInv, CopiesBytes, At
  <1>2. /\ Chunk \in Seq(StreamByte) /\ Len(Chunk) = count
    BY <1>1, ChunkFacts DEF WindowInv
  <1>3. b \in Buffer(StreamByte)
    BY <1>1, SocketFields
  <1> HIDE DEF b
  <1>4. /\ c \in Buffer(StreamByte)
        /\ c.uxTail = b.uxTail /\ c.uxMid = b.uxMid /\ c.uxHead = b.uxHead
        /\ \A k \in 1..size : Nth(c, k) = Nth(b, k)
        /\ c.ucArray \in [Index -> StreamByte]
        /\ \A k \in 1..count : c.ucArray[Wrap(b.uxHead + (k - 1))] = Chunk[k]
    BY <1>1, <1>2, <1>3, CopiedFacts, BufferFacts
  <1> HIDE DEF c, size
  <1>5. /\ socket' \in Socket /\ socket'.txStream = c
        /\ socket'.xTxSegment = socket.xTxSegment
        /\ socket'.ulCurrentSequenceNumber = socket.ulCurrentSequenceNumber
        /\ socket'.ulNextTxSequenceNumber = socket.ulNextTxSequenceNumber
        /\ socket'.usTimeout = socket.usTimeout
        /\ socket'.xEventBits = socket.xEventBits
    BY <1>1, <1>4 DEF Socket
  <1>6. Agrees(socket')
    BY <1>1, <1>4, <1>5 DEF Agrees, MidInside, uxStreamBufferMidSpace,
                          uxStreamBufferGetSize, b
  <1> QED BY <1>4, <1>5, <1>6 DEF b, size

(* And what moving uxHead does: the stream holds count bytes more. *)
LEMMA MovesHeadFacts ==
  ASSUME WindowInv, MovesHead
  PROVE  LET b == socket.txStream size == uxStreamBufferGetSize(b) IN
         /\ socket' \in Socket /\ Agrees(socket')
         /\ socket'.ulCurrentSequenceNumber = socket.ulCurrentSequenceNumber
         /\ socket'.txStream.uxTail = b.uxTail
         /\ socket'.txStream.ucArray = b.ucArray
         /\ socket'.usTimeout = socket.usTimeout
         /\ socket'.xEventBits = socket.xEventBits
         /\ uxStreamBufferGetSize(socket'.txStream) = size + count
  <1> DEFINE b == socket.txStream
             c == HeadMoved(b, count)
  <1>1. /\ socket \in Socket /\ Agrees(socket) /\ pc = "head"
        /\ count <= uxStreamBufferGetSpace(b) /\ count \in 0..left
        /\ left \in 0..MSG_SIZE
        /\ socket' = [socket EXCEPT !.txStream = c]
    BY DEF WindowInv, TypeInv, MainInv, MovesHead, At
  <1>2. b \in Buffer(StreamByte) /\ MidInside(b)
    BY <1>1, SocketFields DEF Agrees
  <1>3. count \in 0..uxStreamBufferGetSpace(b)
    BY <1>1, RoomFacts, SizeAssumption, LengthAssumption
  <1> HIDE DEF b
  <1>4. /\ c \in Buffer(StreamByte) /\ MidInside(c)
        /\ c.uxTail = b.uxTail /\ c.uxMid = b.uxMid /\ c.ucArray = b.ucArray
        /\ uxStreamBufferGetSize(c) = uxStreamBufferGetSize(b) + count
    BY <1>2, <1>3, HeadMovedFacts
  <1> HIDE DEF c
  <1>5. /\ socket' \in Socket /\ socket'.txStream = c
        /\ socket'.xTxSegment = socket.xTxSegment
        /\ socket'.ulCurrentSequenceNumber = socket.ulCurrentSequenceNumber
        /\ socket'.ulNextTxSequenceNumber = socket.ulNextTxSequenceNumber
        /\ socket'.usTimeout = socket.usTimeout
        /\ socket'.xEventBits = socket.xEventBits
    BY <1>1, <1>4 DEF Socket
  <1>6. Agrees(socket')
    BY <1>1, <1>4, <1>5 DEF Agrees, b
  <1> QED BY <1>4, <1>5, <1>6 DEF b

(* What the network brings to the IP task. *)
LEMMA PacketFacts ==
  ASSUME WindowInv, NEW old \in BOOLEAN, prvIPTask(old)
  PROVE  LET p == Head(events) IN
         /\ p \in Packet /\ events' \in Seq(Packet)
         /\ socket' \in Socket /\ Agrees(socket') /\ Tells(socket, socket')
         /\ socket'.usTimeout \in {Due, Later}
         /\ bExpired' \in BOOLEAN /\ xProcessedTCPMessage' \in BOOLEAN
         /\ \A q \in toPeer' : q \in toPeer \/ SentFrom(socket', q)
         /\ \E n \in Nat :
              /\ Acked(socket, socket', n)
              /\ n > 0 => /\ p.kind = "ack"
                          /\ ~(p.nr < SeqNr(socket.ulCurrentSequenceNumber + n))
         /\ \/ socket' = socket /\ bExpired' /\ UNCHANGED xProcessedTCPMessage
            \/ xProcessedTCPMessage' /\ UNCHANGED bExpired
  <1> DEFINE p == Head(events)
             r == xProcessReceivedTCPPacket(socket, p, old)
  <1>1. /\ events # <<>> /\ events' = Tail(events) /\ ip' = "timers"
        /\ IF p.kind = "timer"
           THEN bExpired' = TRUE /\ UNCHANGED <<socket, xProcessedTCPMessage, toPeer>>
           ELSE /\ socket' = r.socket /\ Transmit(r.packets)
                /\ xProcessedTCPMessage' = TRUE /\ UNCHANGED bExpired
    BY DEF prvIPTask
  <1>2. /\ socket \in Socket /\ Agrees(socket) /\ socket.usTimeout \in {Due, Later}
        /\ events \in Seq(Packet)
        /\ bExpired \in BOOLEAN /\ xProcessedTCPMessage \in BOOLEAN
    BY DEF WindowInv, TypeInv
  <1>3. p \in Packet /\ events' \in Seq(Packet)
    BY <1>1, <1>2
  <1> HIDE DEF p, r
  <1>4. p.kind \in {"ack", "rst", "timer"}
    BY <1>3 DEF Packet
  <1>5. CASE p.kind = "timer"
    <2>1. /\ socket' = socket /\ bExpired' = TRUE /\ toPeer' = toPeer
          /\ xProcessedTCPMessage' = xProcessedTCPMessage
      BY <1>1, <1>5
    <2>2. Acked(socket, socket', 0)
      BY <1>2, <2>1, AckedNone
    <2> QED BY <1>2, <1>3, <2>1, <2>2 DEF Tells, p
  <1>6. CASE p.kind # "timer"
    <2>1. /\ socket' = r.socket /\ Transmit(r.packets)
          /\ xProcessedTCPMessage' = TRUE /\ UNCHANGED bExpired
      BY <1>1, <1>6
    <2>2. /\ r.socket \in Socket /\ Agrees(r.socket) /\ Tells(socket, r.socket)
          /\ r.socket.usTimeout \in {Due, Later}
          /\ \A q \in r.packets : SentFrom(r.socket, q)
          /\ \E n \in Nat :
               /\ Acked(socket, r.socket, n)
               /\ n > 0 => /\ p.kind # "rst"
                           /\ ~(p.nr < SeqNr(socket.ulCurrentSequenceNumber + n))
      BY <1>2, ReceivedFacts DEF r
    <2>3. \A q \in toPeer' : q \in toPeer \/ SentFrom(r.socket, q)
      BY <2>1, <2>2 DEF Transmit
    <2> QED BY <1>2, <1>3, <1>4, <1>6, <2>1, <2>2, <2>3 DEF p
  <1> QED BY <1>5, <1>6

(* A look at the timers: nothing happens, or xTCPTimerCheck. *)
LEMMA TimersFacts ==
  ASSUME WindowInv, NEW due \in BOOLEAN, NEW old \in BOOLEAN, NEW probe \in BOOLEAN,
         prvCheckNetworkTimers(due, old, probe)
  PROVE  /\ socket' \in Socket /\ Agrees(socket') /\ SameBytes(socket, socket')
         /\ socket'.usTimeout \in {Due, Later}
         /\ \A p \in toPeer' : p \in toPeer \/ SentFrom(socket, p)
         /\ bExpired' \in BOOLEAN /\ xProcessedTCPMessage' \in BOOLEAN
         /\ \/ /\ pc' = pc /\ group' = group /\ Tells(socket, socket')
               /\ socket'.xEventBits # {}
                    => \/ bExpired' \/ xProcessedTCPMessage'
                       \/ socket' = socket /\ ~bExpired /\ ~xProcessedTCPMessage
            \/ /\ pc # "wait" /\ pc' = pc /\ socket'.xEventBits = {}
               /\ group' # {} /\ group' \in SUBSET Bits
            \/ /\ pc = "wait" /\ pc' = "space" /\ socket'.xEventBits = {}
               /\ group' = group
         /\ events = <<>> => ~xProcessedTCPMessage'
  <1>1. /\ socket \in Socket /\ Agrees(socket) /\ socket.usTimeout \in {Due, Later}
        /\ bExpired \in BOOLEAN /\ xProcessedTCPMessage \in BOOLEAN
    BY DEF WindowInv, TypeInv
  <1> DEFINE xWillSleep == events = <<>>
  <1>2. CASE bExpired \/ (xProcessedTCPMessage /\ xWillSleep)
    <2>1. /\ xTCPTimerCheck(xWillSleep, due, old, probe)
          /\ xProcessedTCPMessage' = FALSE
      BY <1>2 DEF prvCheckNetworkTimers
    <2>2. TypeInv /\ Agrees(socket) /\ xWillSleep \in BOOLEAN
      BY DEF WindowInv
    <2> HIDE DEF xWillSleep
    <2>3. /\ socket' \in Socket /\ Agrees(socket') /\ SameBytes(socket, socket')
          /\ socket'.usTimeout \in {Due, Later}
          /\ \A p \in toPeer' : p \in toPeer \/ SentFrom(socket, p)
          /\ bExpired' \in BOOLEAN
          /\ \/ /\ pc' = pc /\ group' = group /\ Tells(socket, socket')
                /\ socket'.xEventBits # {} => bExpired'
             \/ /\ pc # "wait" /\ pc' = pc /\ socket'.xEventBits = {}
                /\ group' # {} /\ group' \in SUBSET Bits
             \/ /\ pc = "wait" /\ pc' = "space" /\ socket'.xEventBits = {}
                /\ group' = group
      BY <2>1, <2>2, TimerCheckFacts
    <2> QED BY <2>1, <2>3
  <1>3. CASE ~(bExpired \/ (xProcessedTCPMessage /\ xWillSleep))
    <2>1. UNCHANGED <<bExpired, xProcessedTCPMessage, socket, group, pc, toPeer>>
      BY <1>3 DEF prvCheckNetworkTimers
    <2> QED BY <1>1, <1>3, <2>1 DEF SameBytes, Tells
  <1> QED BY <1>2, <1>3

(* What the BeagleBone receives is bytes, and what it answers a packet.    *)
LEMMA PeerFacts ==
  ASSUME TypeInv, NEW p \in toPeer, NEW again \in BOOLEAN, PeerReceives(p, again)
  PROVE  /\ received' \in Seq(StreamByte)
         /\ SeqNr(ulFirstSequenceNumber + Len(received')) \in SeqNumber
         /\ toTiva' \in SUBSET Packet
         /\ toPeer' \subseteq toPeer
  <1> DEFINE behind == SeqNr(ulFirstSequenceNumber + Len(received) - p.seq)
             rest == SubSeq(p.data, behind + 1, Len(p.data))
             answer == IF peerUp THEN Ack(SeqNr(ulFirstSequenceNumber + Len(received')))
                       ELSE Rst
  <1>1. /\ p.seq \in SeqNumber /\ p.data \in Seq(StreamByte)
        /\ received \in Seq(StreamByte) /\ toTiva \in SUBSET Packet
        /\ ulFirstSequenceNumber \in Int /\ SeqSpace \in Nat \ {0}
    BY StartAssumption DEF TypeInv
  <1>2. ulFirstSequenceNumber + Len(received) - p.seq \in Int
    BY <1>1 DEF SeqNumber
  <1>3. behind \in SeqNumber
    BY <1>2, SeqNrFacts
  <1>4. rest \in Seq(StreamByte)
    <2>1. behind + 1 \in Int /\ behind + 1 >= 1
      BY <1>1, <1>3 DEF SeqNumber
    <2> HIDE DEF behind
    <2>2. \A k \in (behind + 1)..Len(p.data) : k \in 1..Len(p.data)
      BY <1>1, <2>1
    <2> QED BY <1>1, <2>1, <2>2
  <1>5. received' = IF peerUp /\ behind < Len(p.data) THEN received \o rest
                    ELSE received
    BY DEF PeerReceives
  <1> HIDE DEF rest, behind
  <1>6. received' \in Seq(StreamByte)
    BY <1>1, <1>4, <1>5
  <1>7. SeqNr(ulFirstSequenceNumber + Len(received')) \in SeqNumber
    <2>1. ulFirstSequenceNumber + Len(received') \in Int
      BY <1>1, <1>6
    <2> QED BY <2>1, SeqNrFacts
  <1>8. answer \in Packet
    <2>1. 0 \in SeqNumber
      BY <1>1 DEF SeqNumber
    <2> QED BY <1>7, <2>1 DEF Ack, Rst, Packet
  <1>9. /\ toPeer' = IF again THEN toPeer ELSE toPeer \ {p}
        /\ toTiva' = IF Cardinality(toTiva \cup {answer}) <= InFlight
                     THEN toTiva \cup {answer} ELSE toTiva
    BY DEF PeerReceives
  <1> HIDE DEF answer
  <1> QED BY <1>1, <1>6, <1>7, <1>8, <1>9

-----------------------------------------------------------------------------
(* The window and the stream agree at the start. *)
LEMMA WindowInit == Init => WindowInv
  <1> SUFFICES ASSUME Init PROVE WindowInv
    OBVIOUS
  <1> DEFINE array == [i \in Index |-> NoByte]
             b == [uxTail |-> FirstIndex, uxMid |-> FirstIndex,
                   uxHead |-> FirstIndex, ucArray |-> array]
  <1>1. /\ FirstIndex \in Index /\ 0 \in Index
        /\ ulFirstSequenceNumber \in SeqNumber /\ 0 \in SeqNumber
        /\ MSG_SIZE \in Nat /\ Messages \in Nat
    BY StartAssumption, LengthAssumption, SizeAssumption DEF SeqNumber, Index
  <1>2. b \in Buffer(StreamByte)
    <2>1. array \in [Index -> StreamByte]
      BY DEF StreamByte
    <2> HIDE DEF array
    <2> QED BY <1>1, <2>1 DEF Buffer
  <1>3. NoSegment \in TxSegment /\ NoSegment.len = 0
    BY <1>1 DEF NoSegment, TxSegment
  <1>4. /\ b.uxTail = FirstIndex /\ b.uxMid = FirstIndex /\ b.uxHead = FirstIndex
    OBVIOUS
  <1>5. /\ socket = [txStream |-> b,
             ulCurrentSequenceNumber |-> ulFirstSequenceNumber,
             ulNextTxSequenceNumber |-> ulFirstSequenceNumber,
             xTxSegment |-> NoSegment, ucTCPState |-> "eESTABLISHED",
             usTimeout |-> Later, xEventBits |-> {}, ucKeepRepCount |-> 0]
    BY DEF Init
  <1> HIDE DEF b
  <1>6. /\ socket \in Socket /\ socket.txStream = b /\ socket.xTxSegment = NoSegment
        /\ socket.ulCurrentSequenceNumber = ulFirstSequenceNumber
        /\ socket.ulNextTxSequenceNumber = ulFirstSequenceNumber
        /\ socket.usTimeout = Later
    BY <1>1, <1>2, <1>3, <1>5 DEF Socket, State
  <1>7. Agrees(socket)
    <2>1. uxStreamBufferDistance(FirstIndex, FirstIndex) = 0
      BY <1>1, DistanceFacts
    <2>2. MidInside(b)
      BY <1>4, <2>1 DEF MidInside, uxStreamBufferMidSpace, uxStreamBufferGetSize
    <2>3. SeqNr(ulFirstSequenceNumber + 0) = ulFirstSequenceNumber
      <3>1. ulFirstSequenceNumber \in Int /\ ulFirstSequenceNumber + 0 = ulFirstSequenceNumber
        BY StartAssumption
      <3> QED BY <1>1, <3>1, SeqNrFacts
    <2> QED BY <1>3, <1>4, <1>6, <2>1, <2>2, <2>3 DEF Agrees
  <1>8. TypeInv
    <2>1. /\ pc = "idle" /\ msg = 0 /\ left = 0 /\ count = 0 /\ group = {}
          /\ ip = "receive" /\ events = <<>> /\ bExpired = FALSE
          /\ xProcessedTCPMessage = FALSE /\ toPeer = {} /\ toTiva = {}
          /\ received = <<>> /\ accepted = <<>>
      BY DEF Init
    <2>2. /\ events \in Seq(Packet) /\ received \in Seq(StreamByte)
          /\ accepted \in Seq(StreamByte)
      BY <2>1
    <2>3. /\ msg \in 0..Messages /\ left \in 0..MSG_SIZE /\ count \in 0..left
      BY <1>1, <2>1
    <2>4. /\ group \in SUBSET Bits /\ toTiva \in SUBSET Packet
          /\ toPeer \in SUBSET [seq : SeqNumber, data : Seq(StreamByte)]
      BY <2>1
    <2> QED BY <1>6, <2>1, <2>2, <2>3, <2>4 DEF TypeInv
  <1>9. MainInv
    BY DEF Init, MainInv
  <1> QED BY <1>7, <1>8, <1>9 DEF WindowInv

(* Every step keeps the types, the place of main_task and the agreement. *)
LEMMA WindowNext == WindowInv /\ [Next]_vars => WindowInv'
  <1> SUFFICES ASSUME WindowInv, [Next]_vars
               PROVE  WindowInv'
    OBVIOUS
  <1>0. TypeInv /\ MainInv /\ Agrees(socket) /\ socket \in Socket
        /\ socket.usTimeout \in {Due, Later}
    BY DEF WindowInv, TypeInv
  <1> DEFINE Space == uxStreamBufferGetSpace(socket.txStream)
  <1>s. Space \in 0..LENGTH-1 /\ Space \in Nat
    BY <1>0, RoomFacts, LengthAssumption
  <1>1. CASE FreeRTOS_send
    BY <1>0, <1>1, SizeAssumption
    DEF FreeRTOS_send, At, Unmoved, netVars, peerVars, WindowInv, TypeInv, MainInv
  <1>2. CASE SeesSpace
    <2>1. /\ count' = Least(Space, left) /\ pc = "space"
          /\ pc' = IF count' > 0 THEN "copy" ELSE "block"
          /\ UNCHANGED <<msg, left, patience, socket, group, events, bExpired, accepted>>
          /\ UNCHANGED <<ip, xProcessedTCPMessage, late, netVars, peerVars>>
      BY <1>2 DEF SeesSpace, At, Unmoved
    <2>2. left \in 0..MSG_SIZE /\ left > 0 /\ msg > 0 /\ MSG_SIZE \in Nat
      BY <1>0, <2>1, SizeAssumption DEF TypeInv, MainInv
    <2>3. count' \in 0..left /\ count' <= Space
      BY <1>s, <2>1, <2>2 DEF Least
    <2> QED BY <1>0, <2>1, <2>2, <2>3
            DEF netVars, peerVars, WindowInv, TypeInv, MainInv
  <1>3. CASE CopiesBytes
    <2>1. /\ socket' \in Socket /\ Agrees(socket')
          /\ socket'.txStream.uxTail = socket.txStream.uxTail
          /\ socket'.txStream.uxHead = socket.txStream.uxHead
          /\ socket'.usTimeout = socket.usTimeout
      BY <1>3, CopiesBytesFacts
    <2>2. uxStreamBufferGetSpace(socket'.txStream) = Space
      BY <2>1 DEF uxStreamBufferGetSpace
    <2>3. /\ pc = "copy" /\ pc' = "head"
          /\ UNCHANGED <<msg, left, count, patience, group, events, bExpired, accepted>>
          /\ UNCHANGED <<ip, xProcessedTCPMessage, late, netVars, peerVars>>
      BY <1>3 DEF CopiesBytes, At, Unmoved
    <2> QED BY <1>0, <2>1, <2>2, <2>3 DEF netVars, peerVars, WindowInv, TypeInv, MainInv
  <1>4. CASE MovesHead
    <2>1. /\ socket' \in Socket /\ Agrees(socket')
          /\ socket'.usTimeout = socket.usTimeout
      BY <1>4, MovesHeadFacts
    <2>2. /\ pc = "head" /\ pc' = "event" /\ accepted' = accepted \o Chunk
          /\ UNCHANGED <<msg, left, count, patience, group, events, bExpired>>
          /\ UNCHANGED <<ip, xProcessedTCPMessage, late, netVars, peerVars>>
      BY <1>4 DEF MovesHead, At, Unmoved
    <2>3. accepted' \in Seq(StreamByte)
      <3>1. Chunk \in Seq(StreamByte)
        BY <1>0, <2>2, ChunkFacts
      <3>2. accepted \in Seq(StreamByte)
        BY <1>0 DEF TypeInv
      <3> QED BY <2>2, <3>1, <3>2
    <2> QED BY <1>0, <2>1, <2>2, <2>3 DEF netVars, peerVars, WindowInv, TypeInv, MainInv
  <1>5. CASE xSendEventToIPTask
    <2>1. /\ pc = "event" /\ socket' = [socket EXCEPT !.usTimeout = Due]
          /\ bExpired' = TRUE /\ events' = Append(events, Timer)
          /\ left' = left - count /\ count' = 0
          /\ pc' = IF left' = 0 THEN "idle" ELSE "block"
          /\ UNCHANGED <<msg, patience, group, accepted>>
          /\ UNCHANGED <<ip, xProcessedTCPMessage, late, netVars, peerVars>>
      BY <1>5 DEF xSendEventToIPTask, At, Unmoved
    <2>2. /\ socket' \in Socket /\ socket'.usTimeout = Due
          /\ socket'.txStream = socket.txStream
          /\ socket'.xTxSegment = socket.xTxSegment
          /\ socket'.ulCurrentSequenceNumber = socket.ulCurrentSequenceNumber
          /\ socket'.ulNextTxSequenceNumber = socket.ulNextTxSequenceNumber
      BY <1>0, <2>1 DEF Socket
    <2>3. Agrees(socket')
      BY <1>0, <2>2 DEF Agrees
    <2>4. events' \in Seq(Packet)
      <3>1. Timer \in Packet
        BY StartAssumption DEF Timer, Packet, SeqNumber
      <3> QED BY <1>0, <2>1, <3>1 DEF TypeInv
    <2>5. /\ left' \in 0..MSG_SIZE /\ count' \in 0..left'
          /\ (left' = 0 \/ left' > 0) /\ msg > 0
      BY <1>0, <2>1, SizeAssumption DEF TypeInv, MainInv
    <2> QED BY <1>0, <2>1, <2>2, <2>3, <2>4, <2>5
            DEF netVars, peerVars, WindowInv, TypeInv, MainInv
  <1>6. CASE xEventGroupWaitBits
    BY <1>0, <1>6
    DEF xEventGroupWaitBits, At, Unmoved, netVars, peerVars, WindowInv, TypeInv, MainInv
  <1>7. CASE WaitTimesOut
    BY <1>0, <1>7
    DEF WaitTimesOut, At, Unmoved, netVars, peerVars, WindowInv, TypeInv, MainInv
  <1>8. CASE GivesUp
    BY <1>0, <1>8, SizeAssumption
    DEF GivesUp, At, Unmoved, netVars, peerVars, WindowInv, TypeInv, MainInv
  <1>9. ASSUME NEW due \in BOOLEAN, NEW old \in BOOLEAN, NEW probe \in BOOLEAN,
               prvCheckNetworkTimers(due, old, probe)
        PROVE  WindowInv'
    <2>1. /\ socket' \in Socket /\ Agrees(socket') /\ SameBytes(socket, socket')
          /\ socket'.usTimeout \in {Due, Later}
          /\ \A p \in toPeer' : p \in toPeer \/ SentFrom(socket, p)
          /\ bExpired' \in BOOLEAN /\ xProcessedTCPMessage' \in BOOLEAN
          /\ \/ pc' = pc
             \/ pc = "wait" /\ pc' = "space"
          /\ group' \in SUBSET Bits
      BY <1>0, <1>9, TimersFacts DEF TypeInv
    <2>2. uxStreamBufferGetSpace(socket'.txStream) = Space
      BY <2>1 DEF uxStreamBufferGetSpace, SameBytes
    <2>3. toPeer' \in SUBSET [seq : SeqNumber, data : Seq(StreamByte)]
      BY <1>0, <2>1 DEF TypeInv, SentFrom
    <2>4. /\ ip' = "receive"
          /\ UNCHANGED <<msg, left, count, patience, events, toTiva, peerVars, accepted>>
      BY <1>9 DEF prvCheckNetworkTimers
    <2> HIDE DEF Space
    <2> QED BY <1>0, <2>1, <2>2, <2>3, <2>4 DEF peerVars, WindowInv, TypeInv, MainInv, Space
  <1>10. ASSUME NEW old \in BOOLEAN, prvIPTask(old)
         PROVE  WindowInv'
    <2>1. /\ events' \in Seq(Packet)
          /\ socket' \in Socket /\ Agrees(socket')
          /\ socket'.usTimeout \in {Due, Later}
          /\ bExpired' \in BOOLEAN /\ xProcessedTCPMessage' \in BOOLEAN
          /\ \A q \in toPeer' : q \in toPeer \/ SentFrom(socket', q)
          /\ \E n \in Nat : Acked(socket, socket', n)
      BY <1>10, PacketFacts
    <2>2. PICK n \in Nat : Acked(socket, socket', n)
      BY <2>1
    <2>3. uxStreamBufferGetSpace(socket'.txStream) = Space + n
      BY <1>0, <2>1, <2>2, RoomFacts
    <2>4. /\ ip' = "timers"
          /\ UNCHANGED <<mainVars, group, late, toTiva, peerVars, accepted>>
      BY <1>10 DEF prvIPTask
    <2>5. toPeer' \in SUBSET [seq : SeqNumber, data : Seq(StreamByte)]
      BY <1>0, <2>1 DEF TypeInv, SentFrom
    <2>6. TypeInv'
      BY <1>0, <2>1, <2>4, <2>5 DEF mainVars, peerVars, TypeInv
    <2>7. MainInv'
      <3>1. count \in Nat
        BY <1>0, SizeAssumption DEF TypeInv
      <3> HIDE DEF Space
      <3>2. pc \in {"copy", "head"} => count <= Space + n
        BY <1>0, <1>s, <3>1 DEF MainInv, Space
      <3> QED BY <1>0, <2>3, <2>4, <3>2 DEF mainVars, MainInv
    <2> QED BY <2>1, <2>6, <2>7 DEF WindowInv
  <1>11. ASSUME NEW much \in BOOLEAN, TimerRunsOut(much)
         PROVE  WindowInv'
    BY <1>0, <1>11
    DEF TimerRunsOut, mainVars, netVars, peerVars, WindowInv, TypeInv, MainInv
  <1>12. ASSUME NEW p \in toPeer, NEW again \in BOOLEAN, PeerReceives(p, again)
         PROVE  WindowInv'
    <2>1. /\ received' \in Seq(StreamByte) /\ toTiva' \in SUBSET Packet
          /\ toPeer' \subseteq toPeer
      BY <1>0, <1>12, PeerFacts
    <2>2. UNCHANGED <<mainVars, socket, group, ipVars, peerUp, accepted>>
      BY <1>12 DEF PeerReceives
    <2> QED BY <1>0, <2>1, <2>2
            DEF mainVars, ipVars, WindowInv, TypeInv, MainInv
  <1>13. ASSUME NEW p \in toTiva, NEW again \in BOOLEAN, Arrives(p, again)
         PROVE  WindowInv'
    <2>1. toTiva' \in SUBSET Packet
      BY <1>0, <1>13 DEF Arrives, TypeInv
    <2>2. events' \in Seq(Packet)
      <3>1. events \in Seq(Packet) /\ p \in Packet
        BY <1>0 DEF TypeInv
      <3>2. events' = events \/ events' = Append(events, p)
        BY <1>13 DEF Arrives
      <3> QED BY <3>1, <3>2
    <2>3. UNCHANGED <<mainVars, socket, group, ip, bExpired, xProcessedTCPMessage, late,
                      toPeer, peerVars, accepted>>
      BY <1>13 DEF Arrives
    <2> QED BY <1>0, <2>1, <2>2, <2>3
            DEF mainVars, peerVars, WindowInv, TypeInv, MainInv
  <1>14. CASE Lose
    <2>1. toPeer' \subseteq toPeer /\ toTiva' \subseteq toTiva
      BY <1>14 DEF Lose
    <2>2. UNCHANGED <<mainVars, socket, group, ipVars, peerVars, accepted>>
      BY <1>14 DEF Lose
    <2> QED BY <1>0, <2>1, <2>2
            DEF mainVars, ipVars, peerVars, WindowInv, TypeInv, MainInv
  <1>15. CASE PeerGoes
    BY <1>0, <1>15
    DEF PeerGoes, mainVars, ipVars, netVars, WindowInv, TypeInv, MainInv
  <1>16. CASE UNCHANGED vars
    BY <1>0, <1>16
    DEF vars, mainVars, ipVars, netVars, peerVars, WindowInv, TypeInv, MainInv
  <1> QED
    BY <1>1, <1>2, <1>3, <1>4, <1>5, <1>6, <1>7, <1>8, <1>9, <1>10, <1>11, <1>12,
       <1>13, <1>14, <1>15, <1>16 DEF Next, MainTask, IPTask

(* The window and the transmit stream speak of the same bytes, in every    *)
(* reachable state. *)
THEOREM WindowCorrect == Spec => []WindowAgrees
  <1>1. WindowInv => WindowAgrees
    BY SocketFields, BufferFacts
    DEF WindowInv, TypeInv, Agrees, WindowAgrees, stream, segment
  <1> QED BY <1>1, WindowInit, WindowNext, PTL DEF Spec

-----------------------------------------------------------------------------
(* No wake-up is lost.  A bit in the socket is going to be looked at; a    *)
(* waiting main_task has none in its event group; and whenever it waits,   *)
(* or is on its way to wait, with room in the stream, it was told so.      *)
Space == uxStreamBufferGetSpace(socket.txStream)
Told == socket.xEventBits # {} \/ group # {}

WakeInv ==
  /\ socket.xEventBits # {} => bExpired \/ xProcessedTCPMessage
  /\ Sleeping => ~xProcessedTCPMessage
  /\ pc = "wait" => group = {}
  /\ pc \in {"block", "wait"} /\ Space > 0 => Told
  /\ pc \in {"copy", "head"} /\ count < left /\ Space > count => Told
  /\ pc = "event" /\ count < left /\ Space > 0 => Told

(* It holds at the start. *)
LEMMA WakeInit == Init => WakeInv
  BY DEF Init, WakeInv, Sleeping

(* Every step keeps it. *)
LEMMA WakeNext == WindowInv /\ WakeInv /\ [Next]_vars => WakeInv'
  <1> SUFFICES ASSUME WindowInv, WakeInv, [Next]_vars
               PROVE  WakeInv'
    OBVIOUS
  <1>0. TypeInv /\ MainInv /\ Agrees(socket) /\ socket \in Socket
        /\ count \in Nat /\ left \in Nat
        /\ bExpired \in BOOLEAN /\ xProcessedTCPMessage \in BOOLEAN
    BY SizeAssumption DEF WindowInv, TypeInv
  <1>s. Space \in Nat
    BY <1>0, RoomFacts, LengthAssumption DEF Space
  <1>1. CASE FreeRTOS_send
    BY <1>1 DEF FreeRTOS_send, At, Unmoved, netVars, peerVars, WakeInv, Sleeping,
                Space, Told
  <1>2. CASE SeesSpace
    <2>1. /\ count' = Least(Space, left) /\ pc = "space"
          /\ pc' = IF count' > 0 THEN "copy" ELSE "block"
          /\ UNCHANGED <<left, socket, group, events, bExpired, ip, xProcessedTCPMessage>>
      BY <1>2 DEF SeesSpace, At, Unmoved, Space
    <2>2. left > 0
      BY <1>0, <2>1 DEF MainInv
    <2>3. Space' = Space
      BY <2>1 DEF Space
    <2>4. /\ count' < left => count' = Space
          /\ ~(count' > 0) => Space = 0
      BY <1>0, <1>s, <2>1, <2>2 DEF Least
    <2>5. ~(count' < left /\ Space > count')
      BY <1>s, <2>4
    <2> HIDE DEF Space
    <2> QED BY <1>s, <2>1, <2>3, <2>4, <2>5 DEF WakeInv, Sleeping
  <1>3. CASE CopiesBytes
    <2>1. /\ socket'.txStream.uxTail = socket.txStream.uxTail
          /\ socket'.txStream.uxHead = socket.txStream.uxHead
          /\ socket'.xEventBits = socket.xEventBits
      BY <1>3, CopiesBytesFacts
    <2>2. Space' = Space
      BY <2>1 DEF Space, uxStreamBufferGetSpace
    <2>3. /\ pc = "copy" /\ pc' = "head"
          /\ UNCHANGED <<left, count, group, events, bExpired, ip, xProcessedTCPMessage>>
      BY <1>3 DEF CopiesBytes, At, Unmoved
    <2> QED BY <2>1, <2>2, <2>3 DEF WakeInv, Sleeping, Told
  <1>4. CASE MovesHead
    <2>1. /\ socket' \in Socket /\ socket'.xEventBits = socket.xEventBits
          /\ uxStreamBufferGetSize(socket'.txStream)
               = uxStreamBufferGetSize(socket.txStream) + count
      BY <1>4, MovesHeadFacts
    <2>2. Space' = Space - count
      <3>1. /\ uxStreamBufferGetSpace(socket.txStream)
                 = LENGTH - 1 - uxStreamBufferGetSize(socket.txStream)
            /\ uxStreamBufferGetSpace(socket'.txStream)
                 = LENGTH - 1 - uxStreamBufferGetSize(socket'.txStream)
            /\ uxStreamBufferGetSize(socket.txStream) \in 0..LENGTH-1
        BY <1>0, <2>1, RoomFacts, SocketFields, BufferFacts
      <3> QED BY <1>0, <2>1, <3>1, LengthAssumption DEF Space
    <2>3. /\ pc = "head" /\ pc' = "event"
          /\ UNCHANGED <<left, count, group, events, bExpired, ip, xProcessedTCPMessage>>
      BY <1>4 DEF MovesHead, At, Unmoved
    <2>4. Space' > 0 => Space > count
      BY <1>0, <1>s, <2>2
    <2> HIDE DEF Space
    <2> QED BY <2>1, <2>3, <2>4 DEF WakeInv, Sleeping, Told
  <1>5. CASE xSendEventToIPTask
    <2>1. /\ pc = "event" /\ socket' = [socket EXCEPT !.usTimeout = Due]
          /\ bExpired' = TRUE /\ events' = Append(events, Timer)
          /\ left' = left - count
          /\ pc' = IF left' = 0 THEN "idle" ELSE "block"
          /\ UNCHANGED <<group, ip, xProcessedTCPMessage>>
      BY <1>5 DEF xSendEventToIPTask, At, Unmoved
    <2>2. /\ socket'.txStream = socket.txStream
          /\ socket'.xEventBits = socket.xEventBits
      BY <1>0, <2>1 DEF Socket
    <2>3. Space' = Space
      BY <2>2 DEF Space
    <2>4. events' # <<>>
      BY <1>0, <2>1 DEF TypeInv
    <2>5. left' # 0 => count < left
      BY <1>0, <2>1 DEF TypeInv
    <2> HIDE DEF Space
    <2> QED BY <2>1, <2>2, <2>3, <2>4, <2>5 DEF WakeInv, Sleeping, Told
  <1>6. CASE xEventGroupWaitBits
    BY <1>6 DEF xEventGroupWaitBits, At, Unmoved, netVars, peerVars, WakeInv,
                Sleeping, Space, Told
  <1>7. CASE WaitTimesOut
    BY <1>7 DEF WaitTimesOut, At, Unmoved, netVars, peerVars, WakeInv,
                Sleeping, Space, Told
  <1>8. CASE GivesUp
    BY <1>8 DEF GivesUp, At, Unmoved, netVars, peerVars, WakeInv,
                Sleeping, Space, Told
  <1>9. ASSUME NEW due \in BOOLEAN, NEW old \in BOOLEAN, NEW probe \in BOOLEAN,
               prvCheckNetworkTimers(due, old, probe)
        PROVE  WakeInv'
    <2>1. /\ SameBytes(socket, socket')
          /\ \/ /\ pc' = pc /\ group' = group /\ Tells(socket, socket')
                /\ socket'.xEventBits # {}
                     => \/ bExpired' \/ xProcessedTCPMessage'
                        \/ socket' = socket /\ ~bExpired /\ ~xProcessedTCPMessage
             \/ /\ pc # "wait" /\ pc' = pc /\ socket'.xEventBits = {}
                /\ group' # {}
             \/ /\ pc = "wait" /\ pc' = "space" /\ socket'.xEventBits = {}
                /\ group' = group
          /\ events = <<>> => ~xProcessedTCPMessage'
      BY <1>9, TimersFacts
    <2>2. Space' = Space
      BY <2>1 DEF Space, uxStreamBufferGetSpace, SameBytes
    <2>3. UNCHANGED <<left, count, events>>
      BY <1>9 DEF prvCheckNetworkTimers
    <2> HIDE DEF Space
    <2>4. CASE /\ pc' = pc /\ group' = group /\ Tells(socket, socket')
               /\ socket'.xEventBits # {}
                    => \/ bExpired' \/ xProcessedTCPMessage'
                       \/ socket' = socket /\ ~bExpired /\ ~xProcessedTCPMessage
      <3>1. Told => Told'
        BY <2>4 DEF Told, Tells
      <3>2. socket'.xEventBits # {} => bExpired' \/ xProcessedTCPMessage'
        BY <2>4 DEF WakeInv
      <3> QED BY <2>1, <2>2, <2>3, <2>4, <3>1, <3>2 DEF WakeInv, Sleeping
    <2>5. CASE /\ pc # "wait" /\ pc' = pc /\ socket'.xEventBits = {} /\ group' # {}
      BY <2>1, <2>2, <2>3, <2>5 DEF WakeInv, Sleeping, Told
    <2>6. CASE /\ pc = "wait" /\ pc' = "space" /\ socket'.xEventBits = {}
               /\ group' = group
      BY <2>1, <2>2, <2>3, <2>6 DEF WakeInv, Sleeping, Told
    <2> QED BY <2>1, <2>4, <2>5, <2>6
  <1>10. ASSUME NEW old \in BOOLEAN, prvIPTask(old)
         PROVE  WakeInv'
    <2>1. /\ socket' \in Socket /\ Tells(socket, socket')
          /\ \E n \in Nat : Acked(socket, socket', n)
          /\ \/ socket' = socket /\ bExpired' /\ UNCHANGED xProcessedTCPMessage
             \/ xProcessedTCPMessage' /\ UNCHANGED bExpired
      BY <1>10, PacketFacts
    <2>2. PICK n \in Nat : Acked(socket, socket', n)
      BY <2>1
    <2>3. /\ Space' = Space + n
          /\ n > 0 => socket'.xEventBits # {}
      BY <1>0, <2>1, <2>2, RoomFacts DEF Space, Acked
    <2>4. ip' = "timers" /\ UNCHANGED <<pc, left, count, group>>
      BY <1>10 DEF prvIPTask, mainVars
    <2>5. Told => Told'
      BY <2>1, <2>4 DEF Told, Tells
    <2>6. n = 0 => Space' = Space
      BY <1>s, <2>3
    <2>7. n > 0 => Told'
      BY <2>3 DEF Told
    <2>8. n = 0 \/ n > 0
      BY <2>2
    <2> HIDE DEF Space
    <2> QED BY <2>1, <2>4, <2>5, <2>6, <2>7, <2>8 DEF WakeInv, Sleeping
  <1>11. ASSUME NEW much \in BOOLEAN, TimerRunsOut(much)
         PROVE  WakeInv'
    BY <1>11
    DEF TimerRunsOut, mainVars, netVars, peerVars, WakeInv, Sleeping, Space, Told
  <1>12. ASSUME NEW p \in toPeer, NEW again \in BOOLEAN, PeerReceives(p, again)
         PROVE  WakeInv'
    <2>1. UNCHANGED <<mainVars, socket, group, ipVars>>
      BY <1>12 DEF PeerReceives
    <2> QED BY <2>1 DEF mainVars, ipVars, WakeInv, Sleeping, Space, Told
  <1>13. ASSUME NEW p \in toTiva, NEW again \in BOOLEAN, Arrives(p, again)
         PROVE  WakeInv'
    <2>1. UNCHANGED <<mainVars, socket, group, ip, bExpired, xProcessedTCPMessage>>
      BY <1>13 DEF Arrives
    <2>2. events' = events \/ events' = Append(events, p)
      BY <1>13 DEF Arrives
    <2>3. events' = <<>> => events = <<>>
      BY <1>0, <2>2 DEF TypeInv
    <2> QED BY <2>1, <2>3 DEF mainVars, WakeInv, Sleeping, Space, Told
  <1>14. CASE Lose
    BY <1>14 DEF Lose, mainVars, ipVars, WakeInv, Sleeping, Space, Told
  <1>15. CASE PeerGoes
    BY <1>15 DEF PeerGoes, mainVars, ipVars, WakeInv, Sleeping, Space, Told
  <1>16. CASE UNCHANGED vars
    BY <1>16 DEF vars, mainVars, ipVars, WakeInv, Sleeping, Space, Told
  <1> QED
    BY <1>1, <1>2, <1>3, <1>4, <1>5, <1>6, <1>7, <1>8, <1>9, <1>10, <1>11, <1>12,
       <1>13, <1>14, <1>15, <1>16 DEF Next, MainTask, IPTask

(* FreeRTOS_send never waits for what has already happened. *)
THEOREM WakeUpCorrect == Spec => []NoLostWakeUp
  <1>1. WindowInv /\ WakeInv => NoLostWakeUp
    <2> SUFFICES ASSUME WindowInv, WakeInv, Sleeping, ~bExpired, pc = "wait"
                 PROVE  Space = 0 /\ socket.xEventBits = {}
      BY DEF NoLostWakeUp, Space, stream
    <2>1. Space \in Nat
      BY RoomFacts, LengthAssumption DEF Space, WindowInv, TypeInv
    <2>2. ~(Space > 0) /\ socket.xEventBits = {}
      BY DEF WakeInv, Told
    <2> HIDE DEF Space
    <2> QED BY <2>1, <2>2
  <1> QED BY <1>1, WindowInit, WindowNext, WakeInit, WakeNext, PTL DEF Spec

-----------------------------------------------------------------------------
(* The bytes.  As long as the sequence numbers do not wrap, the number of  *)
(* a byte tells its place among the bytes accepted: the stream holds the   *)
(* last of them, a segment on its way is a part of them that is not ahead  *)
(* of what was received, and no acknowledgement is.  *)
NoWrap == ulFirstSequenceNumber + Messages * MSG_SIZE < SeqSpace

(* The bytes of s, with acc accepted and rec received. *)
Holds(s, acc, rec) ==
  LET size == uxStreamBufferGetSize(s.txStream)
      acked == Len(acc) - size
  IN /\ size <= Len(acc) /\ acked <= Len(rec)
     /\ s.ulCurrentSequenceNumber = ulFirstSequenceNumber + acked
     /\ \A k \in 1..size : Nth(s.txStream, k) = acc[acked + k]

OfStream(p, acc, rec) ==
  \E o \in 0..Len(rec) :
    /\ p.seq = ulFirstSequenceNumber + o
    /\ o + Len(p.data) <= Len(acc)
    /\ \A k \in 1..Len(p.data) : p.data[k] = acc[o + k]

NotAhead(a, rec) == a.kind = "ack" => a.nr <= ulFirstSequenceNumber + Len(rec)

Unsent == IF pc = "event" THEN left - count ELSE left

StreamInv ==
  /\ Len(accepted) + Unsent <= msg * MSG_SIZE
  /\ Prefix(received, accepted)
  /\ Holds(socket, accepted, received)
  /\ pc = "head" => \A k \in 1..count :
       stream.ucArray[Wrap(stream.uxHead + (k - 1))] = Chunk[k]
  /\ \A p \in toPeer : p.data # <<>> => OfStream(p, accepted, received)
  /\ \A a \in toTiva : NotAhead(a, received)
  /\ \A i \in 1..Len(events) : NotAhead(events[i], received)

(* Multiples of the size of a message. *)
LEMMA ProductFacts ==
  ASSUME NEW m \in Nat, NEW n \in Nat, m <= n
  PROVE  /\ m * MSG_SIZE \in Nat /\ n * MSG_SIZE \in Nat
         /\ m * MSG_SIZE <= n * MSG_SIZE
  <1>1. MSG_SIZE \in Nat
    BY SizeAssumption
  <1>2. /\ m * MSG_SIZE \in Nat /\ (n - m) * MSG_SIZE \in Nat
        /\ (m + 1) * MSG_SIZE = m * MSG_SIZE + MSG_SIZE
        /\ n * MSG_SIZE = m * MSG_SIZE + (n - m) * MSG_SIZE
    BY <1>1
  <1> QED BY <1>2

(* One message more. *)
LEMMA OneMore ==
  ASSUME NEW m \in Nat
  PROVE  /\ m * MSG_SIZE \in Nat
         /\ (m + 1) * MSG_SIZE = m * MSG_SIZE + MSG_SIZE
  BY SizeAssumption

(* The bytes held stay where they are among those accepted. *)
LEMMA HoldsSame ==
  ASSUME NEW s, NEW c, SameBytes(s, c), NEW acc, NEW rec, Holds(s, acc, rec)
  PROVE  Holds(c, acc, rec)
  BY DEF Holds, SameBytes, uxStreamBufferGetSize, Nth

(* What is sent is of the stream. *)
LEMMA SentOfStream ==
  ASSUME NEW s \in Socket, NEW acc \in Seq(StreamByte), NEW rec \in Seq(StreamByte),
         Holds(s, acc, rec), NEW p, SentFrom(s, p), p.data # <<>>
  PROVE  OfStream(p, acc, rec)
  <1> DEFINE size == uxStreamBufferGetSize(s.txStream)
             o == Len(acc) - size
  <1>1. size \in Nat /\ Len(acc) \in Nat /\ Len(rec) \in Nat
    BY SocketFields, BufferFacts, LengthAssumption
  <1>2. /\ p.seq = s.ulCurrentSequenceNumber /\ Len(p.data) <= size
        /\ p.data \in Seq(StreamByte)
        /\ \A k \in 1..Len(p.data) : p.data[k] = Nth(s.txStream, k)
    BY DEF SentFrom
  <1>3. /\ size <= Len(acc) /\ o <= Len(rec)
        /\ s.ulCurrentSequenceNumber = ulFirstSequenceNumber + o
        /\ \A k \in 1..size : Nth(s.txStream, k) = acc[o + k]
    BY DEF Holds
  <1> HIDE DEF size
  <1>4. o \in 0..Len(rec) /\ o + Len(p.data) <= Len(acc)
    BY <1>1, <1>2, <1>3
  <1>5. \A k \in 1..Len(p.data) : p.data[k] = acc[o + k]
    <2> TAKE k \in 1..Len(p.data)
    <2>1. k \in 1..size
      BY <1>1, <1>2
    <2> HIDE DEF o
    <2> QED BY <1>2, <1>3, <2>1
  <1> HIDE DEF o
  <1> QED BY <1>2, <1>3, <1>4, <1>5 DEF OfStream

(* And stays of it when more is accepted or received. *)
LEMMA OfStreamGrows ==
  ASSUME NEW acc \in Seq(StreamByte), NEW rec \in Seq(StreamByte),
         NEW bcc \in Seq(StreamByte), NEW sec \in Seq(StreamByte),
         Prefix(acc, bcc), Len(rec) <= Len(sec),
         NEW p, p.data \in Seq(StreamByte), OfStream(p, acc, rec)
  PROVE  OfStream(p, bcc, sec)
  <1>1. PICK o \in 0..Len(rec) :
             /\ p.seq = ulFirstSequenceNumber + o
             /\ o + Len(p.data) <= Len(acc)
             /\ \A k \in 1..Len(p.data) : p.data[k] = acc[o + k]
    BY DEF OfStream
  <1>2. /\ Len(acc) \in Nat /\ Len(bcc) \in Nat /\ Len(rec) \in Nat
        /\ Len(sec) \in Nat /\ Len(p.data) \in Nat /\ Len(acc) <= Len(bcc)
    BY DEF Prefix
  <1>3. o \in 0..Len(sec) /\ o + Len(p.data) <= Len(bcc)
    BY <1>1, <1>2
  <1>4. \A k \in 1..Len(p.data) : p.data[k] = bcc[o + k]
    <2> TAKE k \in 1..Len(p.data)
    <2>1. o + k \in 1..Len(acc)
      BY <1>1, <1>2
    <2> QED BY <1>1, <2>1 DEF Prefix
  <1> QED BY <1>1, <1>3, <1>4 DEF OfStream

(* What holds of an element and of all elements of a sequence, holds of    *)
(* all elements when the one is appended.  *)
LEMMA AppendedFacts ==
  ASSUME NEW s \in Seq(Packet), NEW p \in Packet, NEW rec, NotAhead(p, rec),
         \A i \in 1..Len(s) : NotAhead(s[i], rec)
  PROVE  \A i \in 1..Len(Append(s, p)) : NotAhead(Append(s, p)[i], rec)
  <1> TAKE i \in 1..Len(Append(s, p))
  <1>1. Len(s) \in Nat /\ Len(Append(s, p)) = Len(s) + 1
    OBVIOUS
  <1>2. i \in 1..Len(s) \/ i = Len(s) + 1
    BY <1>1
  <1>3. i = Len(s) + 1 => Append(s, p)[i] = p
    BY <1>1
  <1>4. i \in 1..Len(s) => Append(s, p)[i] = s[i]
    BY <1>1
  <1> QED BY <1>2, <1>3, <1>4

(* The places of the bytes are sequence numbers, so that they stand for    *)
(* themselves. *)
LEMMA PlaceFacts ==
  ASSUME NoWrap, TypeInv, StreamInv
  PROVE  /\ Len(accepted) <= Messages * MSG_SIZE
         /\ \A n \in Nat : n <= Len(accepted) =>
              SeqNr(ulFirstSequenceNumber + n) = ulFirstSequenceNumber + n
  <1>1. /\ msg \in Nat /\ msg <= Messages /\ Messages \in Nat
        /\ Unsent \in Nat /\ Len(accepted) \in Nat
        /\ ulFirstSequenceNumber \in Nat /\ SeqSpace \in Nat
    BY SizeAssumption, StartAssumption DEF TypeInv, Unsent
  <1>2. msg * MSG_SIZE <= Messages * MSG_SIZE /\ msg * MSG_SIZE \in Nat
        /\ Messages * MSG_SIZE \in Nat
    BY <1>1, ProductFacts, Zenon
  <1>3. Len(accepted) + Unsent <= msg * MSG_SIZE
    BY DEF StreamInv
  <1>4. Len(accepted) <= Messages * MSG_SIZE
    BY <1>1, <1>2, <1>3
  <1>5. ASSUME NEW n \in Nat, n <= Len(accepted)
        PROVE  SeqNr(ulFirstSequenceNumber + n) = ulFirstSequenceNumber + n
    <2>1. ulFirstSequenceNumber + n \in SeqNumber /\ ulFirstSequenceNumber + n \in Int
      BY <1>1, <1>2, <1>4, <1>5 DEF NoWrap, SeqNumber
    <2> QED BY <2>1, SeqNrFacts
  <1> QED BY <1>4, <1>5

(* The bytes at the start. *)
LEMMA StreamInit == WindowInv /\ Init => StreamInv
  <1> SUFFICES ASSUME WindowInv, Init PROVE StreamInv
    OBVIOUS
  <1>1. /\ pc = "idle" /\ msg = 0 /\ left = 0 /\ events = <<>>
        /\ toPeer = {} /\ toTiva = {} /\ received = <<>> /\ accepted = <<>>
    BY DEF Init
  <1>2. /\ socket.txStream.uxTail = FirstIndex /\ socket.txStream.uxHead = FirstIndex
        /\ socket.ulCurrentSequenceNumber = ulFirstSequenceNumber
    BY DEF Init
  <1>3. uxStreamBufferGetSize(socket.txStream) = 0
    BY <1>2, StartAssumption, DistanceFacts DEF uxStreamBufferGetSize
  <1>4. Holds(socket, accepted, received)
    <2>1. ulFirstSequenceNumber = ulFirstSequenceNumber + (0 - 0)
      BY StartAssumption
    <2> QED BY <1>1, <1>2, <1>3, <2>1 DEF Holds
  <1>5. Len(accepted) + Unsent <= msg * MSG_SIZE
    <2>1. 0 * MSG_SIZE = 0
      BY SizeAssumption
    <2> QED BY <1>1, <2>1 DEF Unsent
  <1> QED BY <1>1, <1>4, <1>5 DEF StreamInv, Prefix

(* An acknowledgement that is taken is of bytes that were received, and    *)
(* the number of the socket goes on by as many. *)
LEMMA AckedHolds ==
  ASSUME NoWrap, TypeInv, StreamInv, NEW c \in Socket, NEW n \in Nat,
         Acked(socket, c, n), NEW p, NotAhead(p, received),
         n > 0 => /\ p.kind = "ack" /\ p.nr \in Int
                  /\ ~(p.nr < SeqNr(socket.ulCurrentSequenceNumber + n))
  PROVE  Holds(c, accepted, received)
  <1> DEFINE size == uxStreamBufferGetSize(socket.txStream)
             left_ == uxStreamBufferGetSize(c.txStream)
             acked == Len(accepted) - size
  <1>1. /\ size \in Nat /\ Len(accepted) \in Nat /\ Len(received) \in Nat
        /\ ulFirstSequenceNumber \in Nat
    BY SocketFields, BufferFacts, LengthAssumption, StartAssumption DEF TypeInv
  <1>2. /\ size <= Len(accepted) /\ acked <= Len(received)
        /\ socket.ulCurrentSequenceNumber = ulFirstSequenceNumber + acked
        /\ \A k \in 1..size : Nth(socket.txStream, k) = accepted[acked + k]
    BY DEF StreamInv, Holds
  <1>3. /\ n \in 0..size /\ left_ = size - n
        /\ c.ulCurrentSequenceNumber = SeqNr(socket.ulCurrentSequenceNumber + n)
        /\ \A k \in 1..left_ : Nth(c.txStream, k) = Nth(socket.txStream, n + k)
    BY DEF Acked
  <1> HIDE DEF size, left_
  <1>4. /\ acked + n \in Nat /\ acked + n <= Len(accepted)
        /\ Len(accepted) - left_ = acked + n /\ left_ <= Len(accepted)
        /\ socket.ulCurrentSequenceNumber + n = ulFirstSequenceNumber + (acked + n)
    BY <1>1, <1>2, <1>3
  <1>5. c.ulCurrentSequenceNumber = ulFirstSequenceNumber + (acked + n)
    BY <1>3, <1>4, PlaceFacts
  <1>6. acked + n <= Len(received)
    <2>1. CASE n = 0
      BY <1>1, <1>2, <2>1
    <2>2. CASE n > 0
      <3>1. /\ p.nr \in Int /\ p.nr <= ulFirstSequenceNumber + Len(received)
            /\ ~(p.nr < ulFirstSequenceNumber + (acked + n))
        BY <1>3, <1>5, <2>2 DEF NotAhead
      <3> HIDE DEF acked
      <3> QED BY <1>1, <1>4, <3>1
    <2> QED BY <2>1, <2>2
  <1>7. \A k \in 1..left_ : Nth(c.txStream, k) = accepted[(acked + n) + k]
    <2> TAKE k \in 1..left_
    <2>1. n + k \in 1..size /\ acked + (n + k) = (acked + n) + k
      BY <1>1, <1>2, <1>3
    <2> HIDE DEF acked
    <2> QED BY <1>2, <1>3, <2>1
  <1> HIDE DEF acked
  <1> QED BY <1>4, <1>5, <1>6, <1>7 DEF Holds, left_

(* More is received: what holds of the bytes goes on holding. *)
LEMMA HoldsReceived ==
  ASSUME NEW s \in Socket, NEW acc \in Seq(StreamByte), NEW rec \in Seq(StreamByte),
         NEW sec \in Seq(StreamByte), Len(rec) <= Len(sec), Holds(s, acc, rec)
  PROVE  Holds(s, acc, sec)
  <1> DEFINE size == uxStreamBufferGetSize(s.txStream)
  <1>1. size \in Nat /\ Len(acc) \in Nat /\ Len(rec) \in Nat /\ Len(sec) \in Nat
    BY SocketFields, BufferFacts, LengthAssumption
  <1>2. Len(acc) - size <= Len(rec)
    BY DEF Holds
  <1> HIDE DEF size
  <1>3. Len(acc) - size <= Len(sec)
    BY <1>1, <1>2
  <1> QED BY <1>3 DEF Holds, size

(* The BeagleBone takes only bytes that were accepted, the next ones, and  *)
(* acknowledges what it has. *)
LEMMA ReceivesNext ==
  ASSUME NoWrap, TypeInv, StreamInv, NEW p \in toPeer, NEW again \in BOOLEAN,
         PeerReceives(p, again)
  PROVE  /\ received' \in Seq(StreamByte)
         /\ Prefix(received, received') /\ Prefix(received', accepted)
         /\ \A a \in toTiva' : NotAhead(a, received')
  <1> DEFINE behind == SeqNr(ulFirstSequenceNumber + Len(received) - p.seq)
             rest == SubSeq(p.data, behind + 1, Len(p.data))
             answer == IF peerUp THEN Ack(SeqNr(ulFirstSequenceNumber + Len(received')))
                       ELSE Rst
  <1>1. /\ p.seq \in SeqNumber /\ p.seq \in Int /\ p.data \in Seq(StreamByte)
        /\ received \in Seq(StreamByte) /\ accepted \in Seq(StreamByte)
        /\ ulFirstSequenceNumber \in Nat /\ Len(p.data) \in Nat
        /\ Len(received) \in Nat /\ Len(accepted) \in Nat
    BY StartAssumption DEF TypeInv, SeqNumber
  <1>2. received' \in Seq(StreamByte) /\ Len(received') \in Nat
    BY PeerFacts
  <1>3. /\ received' = IF peerUp /\ behind < Len(p.data) THEN received \o rest
                       ELSE received
        /\ toTiva' = IF Cardinality(toTiva \cup {answer}) <= InFlight
                     THEN toTiva \cup {answer} ELSE toTiva
    BY DEF PeerReceives
  <1>4. Prefix(received, accepted)
    BY DEF StreamInv
  <1>5. Prefix(received, received') /\ Prefix(received', accepted)
    <2>1. CASE received' = received
      BY <1>1, <1>4, <2>1 DEF Prefix
    <2>2. CASE received' = received \o rest /\ behind < Len(p.data)
      <3>1. p.data # <<>>
        <4>1. behind \in SeqNumber
          BY <1>1, SeqNrFacts
        <4>2. behind >= 0 /\ behind \in Int
          BY <4>1, StartAssumption DEF SeqNumber
        <4> HIDE DEF behind
        <4> QED BY <2>2, <4>2
      <3>2. PICK o \in 0..Len(received) :
              /\ p.seq = ulFirstSequenceNumber + o
              /\ o + Len(p.data) <= Len(accepted)
              /\ \A k \in 1..Len(p.data) : p.data[k] = accepted[o + k]
        BY <3>1 DEF StreamInv, OfStream
      <3>3. behind = Len(received) - o
        <4>1. /\ ulFirstSequenceNumber + Len(received) - p.seq = Len(received) - o
              /\ Len(received) - o \in Nat /\ Len(received) - o <= Len(received)
          BY <1>1, <3>2
        <4>2. Len(received) - o \in SeqNumber
          <5>1. /\ Len(accepted) <= Messages * MSG_SIZE /\ Messages * MSG_SIZE \in Int
                /\ SeqSpace \in Nat
            BY PlaceFacts, SizeAssumption, StartAssumption
          <5>2. Len(received) <= Len(accepted)
            BY <1>4 DEF Prefix
          <5> QED BY <1>1, <4>1, <5>1, <5>2 DEF NoWrap, SeqNumber
        <4> QED BY <4>1, <4>2, SeqNrFacts
      <3> HIDE DEF behind
      <3>4. /\ behind \in Nat /\ behind + 1 \in 1..Len(p.data)
            /\ o \in Nat /\ o + behind = Len(received)
            /\ Len(p.data) - behind \in Nat
        BY <1>1, <2>2, <3>2, <3>3
      <3> DEFINE m == Len(p.data) - behind
      <3>m. m \in Nat /\ behind + m = Len(p.data) /\ Len(p.data) - (behind + 1) + 1 = m
        BY <1>1, <3>4
      <3> HIDE DEF m
      <3>5. rest = [k \in 1..m |-> p.data[behind + k]]
        <4>1. /\ behind + m <= Len(p.data) /\ p.data \in Seq(StreamByte)
              /\ behind \in Nat /\ m \in Nat
          BY <1>1, <3>4, <3>m
        <4>2. SubSeq(p.data, behind + 1, behind + m) = [k \in 1..m |-> p.data[behind + k]]
          BY <4>1, PartFacts
        <4> QED BY <3>m, <4>2
      <3>6. \A k \in 1..m : /\ p.data[behind + k] \in StreamByte
                            /\ p.data[behind + k] = accepted[Len(received) + k]
        <4> TAKE k \in 1..m
        <4>1. behind + k \in 1..Len(p.data) /\ o + (behind + k) = Len(received) + k
          BY <1>1, <3>4, <3>m
        <4> QED BY <1>1, <3>2, <4>1
      <3> HIDE DEF rest
      <3>7. /\ rest \in Seq(StreamByte) /\ Len(rest) = m
            /\ \A k \in 1..Len(rest) : rest[k] = accepted[Len(received) + k]
        <4>1. rest \in Seq(StreamByte) /\ Len(rest) = m
          BY <3>m, <3>5, <3>6
        <4> QED BY <3>5, <3>6, <4>1
      <3>8. /\ Len(received') = Len(received) + Len(rest)
            /\ Prefix(received, received')
            /\ \A k \in 1..Len(rest) : received'[Len(received) + k] = rest[k]
        <4>1. /\ Len(received \o rest) = Len(received) + Len(rest)
              /\ Prefix(received, received \o rest)
              /\ \A k \in 1..Len(rest) : (received \o rest)[Len(received) + k] = rest[k]
          <5>1. received \in Seq(StreamByte) /\ rest \in Seq(StreamByte)
            BY <1>1, <3>7
          <5> QED BY <5>1, JoinFacts, Zenon
        <4> QED BY <2>2, <4>1
      <3>9. Len(received') <= Len(accepted)
        BY <1>1, <3>2, <3>4, <3>m, <3>7, <3>8
      <3>10. ASSUME NEW i \in 1..Len(received')
             PROVE  received'[i] = accepted[i]
        <4>1. CASE i <= Len(received)
          <5>1. i \in 1..Len(received)
            BY <1>1, <4>1
          <5> QED BY <1>4, <3>8, <5>1 DEF Prefix
        <4>2. CASE ~(i <= Len(received))
          <5> DEFINE k == i - Len(received)
          <5>1. k \in 1..Len(rest) /\ i = Len(received) + k
            BY <1>1, <3>7, <3>8, <4>2
          <5> HIDE DEF k
          <5> QED BY <3>7, <3>8, <5>1
        <4> QED BY <4>1, <4>2
      <3> QED BY <3>8, <3>9, <3>10 DEF Prefix
    <2> QED BY <1>3, <2>1, <2>2
  <1>6. Len(received) <= Len(received') /\ Len(received') <= Len(accepted)
    BY <1>5 DEF Prefix
  <1>7. NotAhead(answer, received')
    <2>1. SeqNr(ulFirstSequenceNumber + Len(received'))
            = ulFirstSequenceNumber + Len(received')
      BY <1>2, <1>6, PlaceFacts
    <2>2. ulFirstSequenceNumber + Len(received') \in Int
      BY <1>1, <1>2
    <2> QED BY <2>1, <2>2 DEF NotAhead, Ack, Rst
  <1>8. \A a \in toTiva : NotAhead(a, received')
    <2> TAKE a \in toTiva
    <2>1. NotAhead(a, received) /\ a.nr \in Int
      BY StartAssumption DEF StreamInv, TypeInv, Packet, SeqNumber
    <2> QED BY <1>1, <1>2, <1>6, <2>1 DEF NotAhead
  <1> HIDE DEF answer
  <1> QED BY <1>2, <1>3, <1>5, <1>7, <1>8

(* Every step keeps what is said of the bytes. *)
LEMMA StreamNext ==
  ASSUME NoWrap, WindowInv, WindowInv', StreamInv, [Next]_vars
  PROVE  StreamInv'
  <1>0. /\ TypeInv /\ MainInv /\ socket \in Socket /\ socket' \in Socket
        /\ count \in Nat /\ left \in Nat /\ msg \in Nat /\ count <= left
        /\ accepted \in Seq(StreamByte) /\ received \in Seq(StreamByte)
        /\ events \in Seq(Packet) /\ Len(accepted) \in Nat /\ MSG_SIZE \in Nat
        /\ \A p \in toPeer : p.data \in Seq(StreamByte)
    BY SizeAssumption DEF WindowInv, TypeInv
  <1>1. CASE FreeRTOS_send
    <2>1. /\ pc = "idle" /\ left = 0 /\ msg' = msg + 1
          /\ pc' \in {"idle", "space"} /\ left' \in {0, MSG_SIZE}
          /\ UNCHANGED <<socket, accepted, received, toPeer, toTiva, events>>
      BY <1>0, <1>1 DEF FreeRTOS_send, At, Unmoved, netVars, peerVars, MainInv
    <2>2. Len(accepted') + Unsent' <= msg' * MSG_SIZE
      <3>1. (msg + 1) * MSG_SIZE = msg * MSG_SIZE + MSG_SIZE /\ msg * MSG_SIZE \in Nat
        BY <1>0, OneMore, Zenon
      <3>2. Len(accepted) + 0 <= msg * MSG_SIZE
        BY <2>1 DEF StreamInv, Unsent
      <3>3. Unsent' \in {0, MSG_SIZE}
        BY <2>1 DEF Unsent
      <3> QED BY <1>0, <2>1, <3>1, <3>2, <3>3
    <2> QED BY <2>1, <2>2 DEF StreamInv, stream
  <1>2. CASE SeesSpace
    <2>1. /\ pc = "space" /\ pc' \in {"copy", "block"}
          /\ UNCHANGED <<msg, left, socket, accepted, received, toPeer, toTiva, events>>
      BY <1>2 DEF SeesSpace, At, Unmoved, netVars, peerVars
    <2> QED BY <2>1 DEF StreamInv, Unsent, stream
  <1>3. CASE CopiesBytes
    <2>1. LET b == socket.txStream size == uxStreamBufferGetSize(b) IN
          /\ socket'.ulCurrentSequenceNumber = socket.ulCurrentSequenceNumber
          /\ socket'.txStream.uxTail = b.uxTail /\ socket'.txStream.uxHead = b.uxHead
          /\ \A k \in 1..size : Nth(socket'.txStream, k) = Nth(b, k)
          /\ \A k \in 1..count :
               socket'.txStream.ucArray[Wrap(b.uxHead + (k - 1))] = Chunk[k]
      BY <1>3, CopiesBytesFacts
    <2>2. /\ pc = "copy" /\ pc' = "head"
          /\ UNCHANGED <<msg, left, count, accepted, received, toPeer, toTiva, events>>
      BY <1>3 DEF CopiesBytes, At, Unmoved, netVars, peerVars
    <2>3. Chunk' = Chunk
      BY <2>2 DEF Chunk
    <2>4. uxStreamBufferGetSize(socket'.txStream) = uxStreamBufferGetSize(socket.txStream)
      BY <2>1 DEF uxStreamBufferGetSize
    <2>5. Holds(socket', accepted, received)
      BY <2>1, <2>4 DEF StreamInv, Holds
    <2>6. \A k \in 1..count' :
            stream'.ucArray[Wrap(stream'.uxHead + (k - 1))] = Chunk'[k]
      BY <2>1, <2>2, <2>3 DEF stream
    <2> QED BY <2>2, <2>5, <2>6 DEF StreamInv, Unsent
  <1>4. CASE MovesHead
    <2> DEFINE size == uxStreamBufferGetSize(socket.txStream)
    <2>1. /\ socket'.ulCurrentSequenceNumber = socket.ulCurrentSequenceNumber
          /\ socket'.txStream.uxTail = socket.txStream.uxTail
          /\ socket'.txStream.ucArray = socket.txStream.ucArray
          /\ uxStreamBufferGetSize(socket'.txStream) = size + count
      BY <1>4, MovesHeadFacts
    <2>2. /\ pc = "head" /\ pc' = "event" /\ accepted' = accepted \o Chunk
          /\ UNCHANGED <<msg, left, count, received, toPeer, toTiva, events>>
      BY <1>4 DEF MovesHead, At, Unmoved, netVars, peerVars
    <2>3. /\ Chunk \in Seq(StreamByte) /\ Len(Chunk) = count
      BY <1>0, <2>2, ChunkFacts
    <2>4. /\ accepted' \in Seq(StreamByte) /\ Len(accepted') = Len(accepted) + count
          /\ Prefix(accepted, accepted')
          /\ \A k \in 1..count : accepted'[Len(accepted) + k] = Chunk[k]
      <3> HIDE DEF size
      <3>1. /\ accepted \o Chunk \in Seq(StreamByte)
            /\ Len(accepted \o Chunk) = Len(accepted) + Len(Chunk)
            /\ Prefix(accepted, accepted \o Chunk)
            /\ \A k \in 1..Len(Chunk) : (accepted \o Chunk)[Len(accepted) + k] = Chunk[k]
        BY <1>0, <2>3, JoinFacts, Zenon
      <3> QED BY <2>2, <2>3, <3>1
    <2>5. /\ size \in Nat /\ size + count <= LENGTH - 1 /\ size \in 0..LENGTH-1
          /\ size <= Len(accepted) /\ Len(accepted) - size <= Len(received)
          /\ socket.ulCurrentSequenceNumber
               = ulFirstSequenceNumber + (Len(accepted) - size)
          /\ \A k \in 1..size :
               Nth(socket.txStream, k) = accepted[(Len(accepted) - size) + k]
      <3>1. size \in 0..LENGTH-1 /\ size + count \in 0..LENGTH-1
        BY <1>0, <2>1, SocketFields, BufferFacts
      <3> QED BY <1>0, <3>1, LengthAssumption DEF StreamInv, Holds
    <2>6. ASSUME NEW k \in 1..(size + count)
          PROVE  Nth(socket'.txStream, k) = accepted'[(Len(accepted) - size) + k]
      <3>1. Nth(socket'.txStream, k) = Nth(socket.txStream, k)
        BY <2>1 DEF Nth
      <3>2. CASE k <= size
        <4>1. k \in 1..size /\ (Len(accepted) - size) + k \in 1..Len(accepted)
          BY <1>0, <2>5, <3>2
        <4> HIDE DEF size
        <4> QED BY <2>4, <2>5, <3>1, <4>1 DEF Prefix
      <3>3. CASE ~(k <= size)
        <4> DEFINE j == k - size
        <4>1. /\ j \in 1..count /\ k = size + j /\ j \in Nat \ {0}
              /\ size + j <= LENGTH
              /\ (Len(accepted) - size) + k = Len(accepted) + j
          BY <1>0, <2>5, <3>3, LengthAssumption
        <4> HIDE DEF j
        <4>2. Nth(socket.txStream, size + j)
                = socket.txStream.ucArray[Wrap(socket.txStream.uxHead + (j - 1))]
          BY <1>0, <4>1, SocketFields, NthBeyond
        <4>3. socket.txStream.ucArray[Wrap(socket.txStream.uxHead + (j - 1))] = Chunk[j]
          BY <2>2, <4>1 DEF StreamInv, stream
        <4> HIDE DEF size
        <4> QED BY <2>4, <3>1, <4>1, <4>2, <4>3
      <3> QED BY <3>2, <3>3
    <2> HIDE DEF size
    <2>7. Holds(socket', accepted', received')
      <3>1. /\ Len(accepted') - (size + count) = Len(accepted) - size
            /\ size + count <= Len(accepted')
        BY <1>0, <2>4, <2>5
      <3> QED BY <2>1, <2>2, <2>5, <2>6, <3>1 DEF Holds
    <2>8. Prefix(received', accepted')
      <3>1. Prefix(received, accepted) /\ Len(received) \in Nat
        BY <1>0 DEF StreamInv
      <3> QED BY <1>0, <2>2, <2>4, <3>1 DEF Prefix
    <2>9. \A p \in toPeer : p.data # <<>> => OfStream(p, accepted', received)
      <3>1. \A p \in toPeer : p.data # <<>> => OfStream(p, accepted, received)
        BY DEF StreamInv
      <3>2. Len(received) <= Len(received)
        BY <1>0
      <3> QED BY <1>0, <2>4, <3>1, <3>2, OfStreamGrows, Zenon
    <2>10. Len(accepted') + Unsent' <= msg' * MSG_SIZE
      <3>1. Len(accepted) + left <= msg * MSG_SIZE
        BY <2>2 DEF StreamInv, Unsent
      <3>2. Unsent' = left - count
        BY <2>2 DEF Unsent
      <3>3. msg * MSG_SIZE \in Nat
        BY <1>0, OneMore, Zenon
      <3> QED BY <1>0, <2>2, <2>4, <3>1, <3>2, <3>3
    <2> QED BY <2>2, <2>7, <2>8, <2>9, <2>10 DEF StreamInv
  <1>5. CASE xSendEventToIPTask
    <2>1. /\ pc = "event" /\ socket' = [socket EXCEPT !.usTimeout = Due]
          /\ events' = Append(events, Timer) /\ left' = left - count
          /\ pc' \in {"idle", "block"}
          /\ UNCHANGED <<msg, accepted, received, toPeer, toTiva>>
      BY <1>5 DEF xSendEventToIPTask, At, Unmoved, netVars, peerVars
    <2>2. /\ socket'.txStream = socket.txStream
          /\ socket'.ulCurrentSequenceNumber = socket.ulCurrentSequenceNumber
      BY <1>0, <2>1 DEF Socket
    <2>3. Holds(socket', accepted, received)
      BY <2>2 DEF StreamInv, Holds
    <2>4. \A i \in 1..Len(events') : NotAhead(events'[i], received)
      <3>1. NotAhead(Timer, received)
        BY DEF NotAhead, Timer
      <3>2. \A i \in 1..Len(events) : NotAhead(events[i], received)
        BY DEF StreamInv
      <3>3. Timer \in Packet
        BY StartAssumption DEF Timer, Packet, SeqNumber
      <3> QED BY <1>0, <2>1, <3>1, <3>2, <3>3, AppendedFacts
    <2>5. Unsent' = Unsent
      BY <2>1 DEF Unsent
    <2> QED BY <2>1, <2>3, <2>4, <2>5 DEF StreamInv
  <1>6. CASE xEventGroupWaitBits
    <2>1. /\ pc = "block" /\ pc' \in {"wait", "space"}
          /\ UNCHANGED <<msg, left, socket, accepted, received, toPeer, toTiva, events>>
      BY <1>6 DEF xEventGroupWaitBits, At, Unmoved, netVars, peerVars
    <2> QED BY <2>1 DEF StreamInv, Unsent, stream
  <1>7. CASE WaitTimesOut
    <2>1. /\ pc = "wait" /\ pc' = "space"
          /\ UNCHANGED <<msg, left, socket, accepted, received, toPeer, toTiva, events>>
      BY <1>7 DEF WaitTimesOut, At, Unmoved, netVars, peerVars
    <2> QED BY <2>1 DEF StreamInv, Unsent, stream
  <1>8. CASE GivesUp
    <2>1. /\ pc = "block" /\ pc' = "idle" /\ left' = 0
          /\ UNCHANGED <<msg, socket, accepted, received, toPeer, toTiva, events>>
      BY <1>8 DEF GivesUp, At, Unmoved, netVars, peerVars
    <2>2. Len(accepted) + 0 <= msg * MSG_SIZE
      <3>1. Len(accepted) + left <= msg * MSG_SIZE
        BY <2>1 DEF StreamInv, Unsent
      <3>2. msg * MSG_SIZE \in Nat
        BY <1>0, OneMore, Zenon
      <3> QED BY <1>0, <3>1, <3>2
    <2> QED BY <2>1, <2>2 DEF StreamInv, Unsent, stream
  <1>9. ASSUME NEW due \in BOOLEAN, NEW old \in BOOLEAN, NEW probe \in BOOLEAN,
               prvCheckNetworkTimers(due, old, probe)
        PROVE  StreamInv'
    <2>1. /\ SameBytes(socket, socket')
          /\ \A p \in toPeer' : p \in toPeer \/ SentFrom(socket, p)
          /\ pc' = pc \/ (pc = "wait" /\ pc' = "space")
      BY <1>9, TimersFacts
    <2>2. UNCHANGED <<msg, left, count, patience, events, toTiva, received, accepted>>
      BY <1>9 DEF prvCheckNetworkTimers, peerVars
    <2>3. Holds(socket', accepted, received)
      BY <2>1, HoldsSame DEF StreamInv
    <2>4. \A p \in toPeer' : p.data # <<>> => OfStream(p, accepted, received)
      BY <1>0, <2>1, SentOfStream DEF StreamInv
    <2>5. Unsent' = Unsent /\ (pc' = "head" => pc = "head") /\ Chunk' = Chunk
      BY <2>1, <2>2 DEF Unsent, Chunk
    <2>6. pc = "head" => \A k \in 1..count :
            stream'.ucArray[Wrap(stream'.uxHead + (k - 1))] = Chunk[k]
      BY <2>1 DEF StreamInv, stream, SameBytes
    <2> QED BY <2>2, <2>3, <2>4, <2>5, <2>6 DEF StreamInv
  <1>10. ASSUME NEW old \in BOOLEAN, prvIPTask(old)
         PROVE  StreamInv'
    <2> DEFINE p == Head(events)
    <2>1. /\ p \in Packet
          /\ \A q \in toPeer' : q \in toPeer \/ SentFrom(socket', q)
          /\ \E n \in Nat :
               /\ Acked(socket, socket', n)
               /\ n > 0 => /\ p.kind = "ack"
                           /\ ~(p.nr < SeqNr(socket.ulCurrentSequenceNumber + n))
      BY <1>10, PacketFacts
    <2>2. PICK n \in Nat :
               /\ Acked(socket, socket', n)
               /\ n > 0 => /\ p.kind = "ack"
                           /\ ~(p.nr < SeqNr(socket.ulCurrentSequenceNumber + n))
      BY <2>1
    <2>3. /\ events # <<>> /\ events' = Tail(events)
          /\ UNCHANGED <<pc, msg, left, count, toTiva, received, accepted>>
      BY <1>10 DEF prvIPTask, mainVars, peerVars
    <2>4. NotAhead(p, received) /\ p.nr \in Int
      <3>1. 1 \in 1..Len(events) /\ p = events[1]
        BY <1>0, <2>3
      <3>2. p.nr \in Int
        BY <2>1, StartAssumption DEF Packet, SeqNumber
      <3> QED BY <3>1, <3>2 DEF StreamInv
    <2> HIDE DEF p
    <2>5. Holds(socket', accepted, received)
      BY <1>0, <2>2, <2>4, AckedHolds
    <2>6. \A q \in toPeer' : q.data # <<>> => OfStream(q, accepted, received)
      BY <1>0, <2>1, <2>5, SentOfStream DEF StreamInv
    <2>7. \A i \in 1..Len(events') : NotAhead(events'[i], received)
      <3>1. \A i \in 1..Len(events') : /\ i + 1 \in 1..Len(events)
                                       /\ events'[i] = events[i + 1]
        BY <1>0, <2>3
      <3> QED BY <3>1 DEF StreamInv
    <2>8. Unsent' = Unsent /\ Chunk' = Chunk
      BY <2>3 DEF Unsent, Chunk
    <2>9. pc = "head" => \A k \in 1..count :
            stream'.ucArray[Wrap(stream'.uxHead + (k - 1))] = Chunk[k]
      BY <2>2 DEF StreamInv, stream, Acked
    <2> QED BY <2>3, <2>5, <2>6, <2>7, <2>8, <2>9 DEF StreamInv
  <1>11. ASSUME NEW much \in BOOLEAN, TimerRunsOut(much)
         PROVE  StreamInv'
    BY <1>11 DEF TimerRunsOut, mainVars, netVars, peerVars, StreamInv, Unsent,
                 stream, Chunk
  <1>12. ASSUME NEW p \in toPeer, NEW again \in BOOLEAN, PeerReceives(p, again)
         PROVE  StreamInv'
    <2>1. /\ received' \in Seq(StreamByte)
          /\ Prefix(received, received') /\ Prefix(received', accepted)
          /\ \A a \in toTiva' : NotAhead(a, received')
      BY <1>0, <1>12, ReceivesNext
    <2>2. /\ toPeer' \subseteq toPeer
          /\ UNCHANGED <<pc, msg, left, count, socket, events, accepted>>
      BY <1>0, <1>12, PeerFacts DEF PeerReceives, mainVars, ipVars
    <2>3. Len(received) \in Nat /\ Len(received') \in Nat /\ Len(received) <= Len(received')
      BY <1>0, <2>1 DEF Prefix
    <2>4. Holds(socket, accepted, received')
      BY <1>0, <2>1, <2>3, HoldsReceived DEF StreamInv
    <2>5. \A q \in toPeer : q.data # <<>> => OfStream(q, accepted, received')
      <3>1. Prefix(accepted, accepted)
        BY <1>0 DEF Prefix
      <3> QED BY <1>0, <2>1, <2>3, <3>1, OfStreamGrows DEF StreamInv
    <2>6. \A i \in 1..Len(events) : NotAhead(events[i], received')
      <3> TAKE i \in 1..Len(events)
      <3>0. events[i] \in Packet /\ NotAhead(events[i], received)
        BY <1>0 DEF StreamInv
      <3>1. NotAhead(events[i], received) /\ events[i].nr \in Int
        BY <3>0, StartAssumption DEF Packet, SeqNumber
      <3>2. ulFirstSequenceNumber \in Int
        BY StartAssumption
      <3> QED BY <2>3, <3>1, <3>2 DEF NotAhead
    <2>7. Unsent' = Unsent /\ Chunk' = Chunk
      BY <2>2 DEF Unsent, Chunk
    <2> QED BY <2>1, <2>2, <2>4, <2>5, <2>6, <2>7 DEF StreamInv, stream
  <1>13. ASSUME NEW p \in toTiva, NEW again \in BOOLEAN, Arrives(p, again)
         PROVE  StreamInv'
    <2>1. /\ toTiva' \subseteq toTiva
          /\ events' = events \/ events' = Append(events, p)
          /\ UNCHANGED <<pc, msg, left, count, socket, toPeer, received, accepted>>
      BY <1>13 DEF Arrives, mainVars, peerVars
    <2>2. NotAhead(p, received) /\ p \in Packet
      BY <1>0 DEF StreamInv, TypeInv
    <2>3. \A i \in 1..Len(events') : NotAhead(events'[i], received)
      <3>1. \A i \in 1..Len(events) : NotAhead(events[i], received)
        BY DEF StreamInv
      <3> QED BY <1>0, <2>1, <2>2, <3>1, AppendedFacts
    <2>4. Unsent' = Unsent /\ Chunk' = Chunk
      BY <2>1 DEF Unsent, Chunk
    <2> QED BY <2>1, <2>3, <2>4 DEF StreamInv, stream
  <1>14. CASE Lose
    <2>1. /\ toPeer' \subseteq toPeer /\ toTiva' \subseteq toTiva
          /\ UNCHANGED <<pc, msg, left, count, socket, events, received, accepted>>
      BY <1>14 DEF Lose, mainVars, ipVars, peerVars
    <2>2. Unsent' = Unsent /\ Chunk' = Chunk
      BY <2>1 DEF Unsent, Chunk
    <2> QED BY <2>1, <2>2 DEF StreamInv, stream
  <1>15. CASE PeerGoes
    BY <1>15 DEF PeerGoes, mainVars, netVars, ipVars, StreamInv, Unsent, stream, Chunk
  <1>16. CASE UNCHANGED vars
    BY <1>16 DEF vars, mainVars, netVars, ipVars, peerVars, StreamInv, Unsent,
                 stream, Chunk
  <1> QED
    BY <1>1, <1>2, <1>3, <1>4, <1>5, <1>6, <1>7, <1>8, <1>9, <1>10, <1>11, <1>12,
       <1>13, <1>14, <1>15, <1>16 DEF Next, MainTask, IPTask

(* A byte that was accepted stays in the transmit stream, unchanged, until *)
(* the BeagleBone has it; the sequence numbers must not wrap, for the code *)
(* compares an acknowledged number with <. *)
THEOREM ForgottenCorrect == NoWrap => (Spec => []NothingForgotten)
  <1> SUFFICES ASSUME NoWrap PROVE Spec => []NothingForgotten
    OBVIOUS
  <1>1. Init => WindowInv /\ StreamInv
    BY WindowInit, StreamInit
  <1>2. WindowInv /\ StreamInv /\ [Next]_vars => WindowInv' /\ StreamInv'
    BY WindowNext, StreamNext
  <1>3. WindowInv /\ StreamInv => NothingForgotten
    <2> SUFFICES ASSUME WindowInv, StreamInv PROVE NothingForgotten
      OBVIOUS
    <2> DEFINE size == uxStreamBufferGetSize(stream)
               acked == Len(accepted) - size
    <2>1. /\ stream \in Buffer(StreamByte) /\ accepted \in Seq(StreamByte)
          /\ Len(accepted) \in Nat
      BY SocketFields DEF WindowInv, TypeInv, stream
    <2>2. size \in Nat
      BY <2>1, BufferFacts, LengthAssumption
    <2>3. /\ size <= Len(accepted) /\ acked <= Len(received)
          /\ \A k \in 1..size : Nth(stream, k) = accepted[acked + k]
      BY DEF StreamInv, Holds, stream
    <2>4. Peeked(stream, 0, size) = [k \in 1..size |-> Nth(stream, k)]
      <3>1. size \in 0..size
        BY <2>2
      <3> QED BY <2>1, <3>1, PeekedFacts
    <2> HIDE DEF size
    <2>5. acked \in Nat /\ acked + size = Len(accepted)
      BY <2>1, <2>2, <2>3
    <2>6. SubSeq(accepted, acked + 1, acked + size)
            = [k \in 1..size |-> accepted[acked + k]]
      <3> HIDE DEF acked
      <3>1. acked + size <= Len(accepted)
        BY <2>1, <2>5
      <3> QED BY <2>1, <2>2, <2>5, <3>1, PartFacts
    <2> HIDE DEF acked
    <2>7. Peeked(stream, 0, size) = SubSeq(accepted, acked + 1, Len(accepted))
      BY <2>3, <2>4, <2>5, <2>6
    <2>8. acked >= 0
      BY <2>5
    <2> QED BY <2>3, <2>7, <2>8 DEF NothingForgotten, size, acked
  <1> QED BY <1>1, <1>2, <1>3, PTL DEF Spec

(* A step accepts bytes, or lets the BeagleBone receive some of those      *)
(* accepted, or does neither. *)
LEMMA StreamStep ==
  ASSUME NoWrap, WindowInv, StreamInv, [Next]_vars
  PROVE  [Stream!StreamNext]_<<accepted, received>>
  <1>0. /\ TypeInv /\ MainInv
        /\ accepted \in Seq(StreamByte) /\ received \in Seq(StreamByte)
    BY DEF WindowInv, TypeInv
  <1>1. CASE MovesHead
    <2>1. /\ pc = "head" /\ accepted' = accepted \o Chunk /\ received' = received
      BY <1>1 DEF MovesHead, At, Unmoved, peerVars
    <2>2. Chunk \in Seq(StreamByte)
      BY <1>0, <2>1, ChunkFacts
    <2>3. accepted' \in Seq(StreamByte) /\ Prefix(accepted, accepted')
      BY <1>0, <2>1, <2>2, JoinFacts
    <2>4. Stream!Extends(accepted', accepted)
      BY <1>0, <2>3, PrefixFacts DEF Stream!Extends
    <2> QED BY <2>1, <2>4 DEF Stream!StreamNext, Stream!Accept
  <1>2. ASSUME NEW p \in toPeer, NEW again \in BOOLEAN, PeerReceives(p, again)
        PROVE  [Stream!StreamNext]_<<accepted, received>>
    <2>1. /\ received' \in Seq(StreamByte)
          /\ Prefix(received, received') /\ Prefix(received', accepted)
      BY <1>0, <1>2, ReceivesNext
    <2>2. /\ Stream!Extends(received', received)
          /\ Stream!Extends(accepted, received')
      BY <1>0, <2>1, PrefixFacts DEF Stream!Extends
    <2>3. accepted' = accepted
      BY <1>2 DEF PeerReceives
    <2> QED BY <2>2, <2>3 DEF Stream!StreamNext, Stream!Receive
  <1>3. CASE FreeRTOS_send \/ SeesSpace \/ CopiesBytes \/ xSendEventToIPTask
             \/ xEventGroupWaitBits \/ WaitTimesOut \/ GivesUp
    BY <1>3 DEF FreeRTOS_send, SeesSpace, CopiesBytes, xSendEventToIPTask,
                xEventGroupWaitBits, WaitTimesOut, GivesUp, Unmoved, peerVars
  <1>4. CASE IPTask
    BY <1>4 DEF IPTask, prvCheckNetworkTimers, prvIPTask, peerVars
  <1>5. CASE \E much \in BOOLEAN : TimerRunsOut(much)
    BY <1>5 DEF TimerRunsOut, peerVars
  <1>6. CASE \E p \in toTiva, again \in BOOLEAN : Arrives(p, again)
    BY <1>6 DEF Arrives, peerVars
  <1>7. CASE Lose \/ PeerGoes \/ UNCHANGED vars
    BY <1>7 DEF Lose, PeerGoes, vars, peerVars
  <1> QED
    BY <1>1, <1>2, <1>3, <1>4, <1>5, <1>6, <1>7 DEF Next, MainTask

(* The detailed way implements the byte stream: what FreeRTOS_send accepts *)
(* comes to the BeagleBone in order, once, and without a gap, whatever the *)
(* network loses, repeats, delays or reorders. *)
THEOREM StreamCorrect == NoWrap => (Spec => ImplementsStream)
  <1> SUFFICES ASSUME NoWrap PROVE Spec => ImplementsStream
    OBVIOUS
  <1>1. Init => WindowInv /\ StreamInv
    BY WindowInit, StreamInit
  <1>2. WindowInv /\ StreamInv /\ [Next]_vars => WindowInv' /\ StreamInv'
    BY WindowNext, StreamNext
  <1>3. Init => Stream!StreamInit
    BY DEF Init, Stream!StreamInit
  <1>4. WindowInv /\ StreamInv /\ [Next]_vars
          => [Stream!StreamNext]_<<accepted, received>>
    BY StreamStep
  <1> QED BY <1>1, <1>2, <1>3, <1>4, PTL DEF Spec, ImplementsStream, Stream!StreamSpec
=============================================================================
