-------------------------------- MODULE Tcp ---------------------------------
(***************************************************************************)
(* A message on its way from main_task to the socket thread: FreeRTOS_send *)
(* puts its bytes into the transmit stream of the socket, the IP task      *)
(* sends them in segments, one at a time ("tiny TCP", ipconfigUSE_TCP_WIN  *)
(* is 0), and takes them off the stream when they are acknowledged; the    *)
(* network may lose, repeat, delay and reorder whatever it carries.        *)
(*                                                                         *)
(* The IP task has the higher priority and does not wait while it works:   *)
(* main_task goes on only while the IP task waits for an event.  Of time   *)
(* only the order is kept: a timer that runs may have run out whenever it  *)
(* is looked at.  The connection is there from the start, and the          *)
(* BeagleBone does not end it in order, it can only be gone.               *)
(***************************************************************************)
EXTENDS StreamBuffer, FiniteSets, TLC

CONSTANTS
  MSG_SIZE,                     \* bytes of a message
  lMaxLength,                   \* bytes of a segment: the MSS
  SeqSpace,                     \* sequence numbers are counted modulo this
  ulFirstSequenceNumber,        \* that of the first byte
  KeepAliveTries,               \* probes it waits for an answer of
  EventQueueLength,             \* capacity of xNetworkEventQueue
  FirstIndex,                   \* where earlier messages left the stream
  Messages,                     \* bound: messages main_task sends
  InFlight                      \* bound: packets on their way, each direction

ASSUME SizeAssumption ==
  /\ MSG_SIZE \in Nat \ {0} /\ lMaxLength \in Nat \ {0}
  /\ KeepAliveTries \in Nat /\ EventQueueLength \in Nat \ {0}
  /\ Messages \in Nat /\ InFlight \in Nat \ {0}
ASSUME StartAssumption ==
  /\ FirstIndex \in Index
  /\ SeqSpace \in Nat \ {0} /\ ulFirstSequenceNumber \in 0..SeqSpace-1

(* A byte is known by its message and its place there. *)
Byte == (1..Messages) \X (1..MSG_SIZE)
NoByte == <<0, 0>>
Message(m) == [i \in 1..MSG_SIZE |-> <<m, i>>]
SeqNr(n) == n % SeqSpace

Due == 1                        \* usTimeout: a tick,
Later == 2                      \* or more
eSOCKET_SEND == "send"
eSOCKET_CLOSED == "closed"

VARIABLES
  pc,           \* where main_task is
  msg,          \* the message it sends
  left,         \* xBytesLeft
  count,        \* xByteCount
  patience,     \* of FreeRTOS_send: "unasked", "some", "none" is left
  socket,       \* the socket: transmit stream, window, state, timers
  group,        \* its event group
  ip,           \* where the IP task is: "timers" or "receive"
  events,       \* xNetworkEventQueue
  bExpired,     \* of xTCPTimer
  xProcessedTCPMessage,
  late,         \* so much time has passed that every time-out has run out
  toPeer, toTiva,       \* what the network carries
  peerUp,       \* the BeagleBone process is there
  received,     \* the bytes its kernel received
  accepted      \* history: the bytes FreeRTOS_send accepted

mainVars == <<pc, msg, left, count, patience>>
netVars == <<toPeer, toTiva>>
peerVars == <<peerUp, received>>
ipVars == <<ip, events, bExpired, xProcessedTCPMessage, late>>
vars == <<mainVars, socket, group, ipVars, netVars, peerVars, accepted>>

NoSegment == [seq |-> 0, len |-> 0, pos |-> 0, bOutstanding |-> FALSE]

Init ==
  /\ pc = "idle" /\ msg = 0 /\ left = 0 /\ count = 0 /\ patience = "unasked"
  /\ socket =
       [txStream |-> [uxTail |-> FirstIndex, uxMid |-> FirstIndex,
                      uxHead |-> FirstIndex, ucArray |-> [i \in Index |-> NoByte]],
        ulCurrentSequenceNumber |-> ulFirstSequenceNumber,
        ulNextTxSequenceNumber |-> ulFirstSequenceNumber,
        xTxSegment |-> NoSegment, ucTCPState |-> "eESTABLISHED",
        usTimeout |-> Later, xEventBits |-> {}, ucKeepRepCount |-> 0]
  /\ group = {}
  /\ ip = "receive" /\ events = <<>> /\ bExpired = FALSE
  /\ xProcessedTCPMessage = FALSE /\ late = FALSE
  /\ toPeer = {} /\ toTiva = {}
  /\ peerUp = TRUE /\ received = <<>>
  /\ accepted = <<>>

-----------------------------------------------------------------------------
(* The network. *)
Segment(seq, data) == [seq |-> seq, data |-> data]
Ack(nr) == [kind |-> "ack", nr |-> nr]
Rst == [kind |-> "rst", nr |-> 0]
Timer == [kind |-> "timer", nr |-> 0]

(* Nothing is sent into a full network. *)
Transmit(packets) ==
  toPeer' = IF Cardinality({p \in toPeer \cup packets : p.data # <<>>}) <= InFlight
            THEN toPeer \cup packets ELSE toPeer

Lose ==
  /\ \/ \E p \in toPeer : toPeer' = toPeer \ {p} /\ UNCHANGED toTiva
     \/ \E p \in toTiva : toTiva' = toTiva \ {p} /\ UNCHANGED toPeer
  /\ UNCHANGED <<mainVars, socket, group, ipVars, peerVars, accepted>>

(* The task EMAC posts a packet to the IP task, or gives it up. *)
Arrives(p, again) ==
  /\ p \in toTiva
  /\ toTiva' = IF again THEN toTiva ELSE toTiva \ {p}
  /\ events' = IF Len(events) < EventQueueLength THEN Append(events, p) ELSE events
  /\ UNCHANGED <<mainVars, socket, group, ip, bExpired, xProcessedTCPMessage, late,
                 toPeer, peerVars, accepted>>

-----------------------------------------------------------------------------
(* The sliding window of one segment. *)
ulTCPWindowTxAck_AnyAck(s, ack) ==
  IF ack < s.ulCurrentSequenceNumber THEN 0 ELSE s.xTxSegment.len
ulTCPWindowTxAck(s, ack) ==
  IF ack < SeqNr(s.ulCurrentSequenceNumber + s.xTxSegment.len) THEN 0 ELSE s.xTxSegment.len

(* What may be sent of it: a segment that is outstanding waits until it is *)
(* old. *)
ulTCPWindowTxGet_Once(s, old) ==
  IF s.xTxSegment.bOutstanding THEN 0 ELSE s.xTxSegment.len
ulTCPWindowTxGet(s, old) ==
  IF s.xTxSegment.bOutstanding /\ ~old THEN 0 ELSE s.xTxSegment.len

lTCPWindowTxAdd(s, length) ==
  IF s.xTxSegment.len > 0 THEN 0 ELSE Least(length, lMaxLength)

prvTCPAddTxData(s) ==
  LET n == lTCPWindowTxAdd(s, uxStreamBufferMidSpace(s.txStream))
  IN IF n = 0 THEN s ELSE
       [s EXCEPT
          !.xTxSegment = [seq |-> s.ulNextTxSequenceNumber, len |-> n,
                          pos |-> s.txStream.uxMid, bOutstanding |-> FALSE],
          !.ulNextTxSequenceNumber = SeqNr(@ + n),
          !.txStream = vStreamBufferMoveMid(@, n)]

prvTCPTouchSocket(s) == [s EXCEPT !.ucKeepRepCount = 0]

(* An established connection ends.  The time-out is left as it was: the    *)
(* code looks at the state the socket had, not at the one it gets.         *)
prvTCPSocketIsActive(state) == state \notin {"eCLOSED", "eCLOSE_WAIT"}
vTCPStateChange_NewState(s, state) ==
  prvTCPTouchSocket(
    [s EXCEPT !.xEventBits = @ \cup {eSOCKET_CLOSED},
       !.usTimeout = IF prvTCPSocketIsActive(state) THEN @ ELSE 0,
       !.ucTCPState = state])
vTCPStateChange(s, state) ==
  prvTCPTouchSocket(
    [s EXCEPT !.xEventBits = @ \cup {eSOCKET_CLOSED},
       !.usTimeout = IF prvTCPSocketIsActive(s.ucTCPState) THEN @ ELSE 0,
       !.ucTCPState = state])

prvTCPNextTimeout(s) == [s EXCEPT !.usTimeout = IF @ = 0 THEN Later ELSE @]

(* probe: nothing was heard for so long that a keep-alive is sent. *)
prvTCPPrepareSend(s, old, probe) ==
  LET n == ulTCPWindowTxGet(s, old)
      seg == s.xTxSegment
      offset == uxStreamBufferDistance(s.txStream.uxTail, seg.pos)
      sent == [s EXCEPT !.xTxSegment.bOutstanding = @ \/ n > 0]
      up == s.ucTCPState = "eESTABLISHED"
  IN IF up /\ s.ucKeepRepCount > KeepAliveTries THEN
       [socket |-> vTCPStateChange(sent, "eCLOSE_WAIT"), packets |-> {}]
     ELSE IF n > 0 THEN
       [socket |-> sent,
        packets |-> {Segment(seg.seq, Peeked(s.txStream, offset, n))}]
     ELSE IF up /\ probe THEN
       [socket |-> [s EXCEPT !.usTimeout = Later, !.ucKeepRepCount = @ + 1],
        packets |-> {Segment(SeqNr(s.ulCurrentSequenceNumber - 1), <<>>)}]
     ELSE [socket |-> s, packets |-> {}]

(* It goes round again after each packet, data or probe.  Then the segment *)
(* is outstanding and young and no further probe is due, but the probes    *)
(* are counted again: the last one ends the connection at once.  (A round  *)
(* that sends nothing is the last; one more would change nothing.)         *)
prvTCPSendRepeated(s, old, probe) ==
  LET one == prvTCPPrepareSend(s, old, probe)
      asked == \E p \in one.packets : p.data = <<>>
      two == prvTCPPrepareSend(one.socket, FALSE, probe /\ ~asked)
      three == prvTCPPrepareSend(two.socket, FALSE, FALSE)
  IN IF one.packets = {} THEN one
     ELSE [socket |-> three.socket,
           packets |-> one.packets \cup two.packets \cup three.packets]

xTCPSocketCheck(s, old, probe) ==
  LET r == IF s.ucTCPState = "eCLOSED" THEN [socket |-> s, packets |-> {}]
           ELSE prvTCPSendRepeated(prvTCPAddTxData(s), old, probe)
  IN [r EXCEPT !.socket = prvTCPNextTimeout(@)]

prvHandleEstablished(s, ack, old) ==
  LET n == ulTCPWindowTxAck(s, ack)
      freed == uxStreamBufferGetSize(s.txStream) > 0
      acked == [s EXCEPT
                  !.ulCurrentSequenceNumber = SeqNr(@ + n),
                  !.xTxSegment = NoSegment,
                  !.txStream = Taken(@, n),
                  !.xEventBits = IF freed THEN @ \cup {eSOCKET_SEND} ELSE @]
  IN prvTCPPrepareSend(prvTCPAddTxData(IF n > 0 THEN acked ELSE s), old, FALSE)

xProcessReceivedTCPPacket(s, p, old) ==
  IF ~prvTCPSocketIsActive(s.ucTCPState) THEN [socket |-> s, packets |-> {}]
  ELSE IF p.kind = "rst" THEN
    [socket |-> vTCPStateChange(s, "eCLOSED"), packets |-> {}]
  ELSE LET r == prvHandleEstablished(prvTCPTouchSocket(s), p.nr, old)
       IN [r EXCEPT !.socket = prvTCPNextTimeout(@)]

-----------------------------------------------------------------------------
(* The IP task.  Waking the owner of the socket ends its wait and clears   *)
(* the bits; else they wait for it. *)
vSocketWakeUpUser(bits) ==
  IF pc = "wait"
  THEN pc' = "space" /\ UNCHANGED group
  ELSE group' = group \cup bits /\ UNCHANGED pc

(* due: the time-out of the socket has run out, unless it was to be later. *)
xTCPTimerCheck(xWillSleep, due, old, probe) ==
  LET checked == socket.usTimeout = Due \/ (socket.usTimeout = Later /\ due)
      r == IF checked
           THEN xTCPSocketCheck([socket EXCEPT !.usTimeout = 0], old, probe)
           ELSE [socket |-> socket, packets |-> {}]
      wakes == socket.usTimeout # 0 /\ r.socket.xEventBits # {}
  IN /\ Transmit(r.packets)
     /\ bExpired' = (wakes /\ ~xWillSleep)
     /\ IF wakes /\ xWillSleep
        THEN /\ vSocketWakeUpUser(r.socket.xEventBits)
             /\ socket' = [r.socket EXCEPT !.xEventBits = {}]
        ELSE socket' = r.socket /\ UNCHANGED <<group, pc>>

prvCheckNetworkTimers(due, old, probe) ==
  LET xWillSleep == events = <<>>
  IN /\ ip = "timers" /\ ip' = "receive"
     /\ late => due /\ old
     /\ probe => late
     /\ late' = FALSE
     /\ IF bExpired \/ (xProcessedTCPMessage /\ xWillSleep)
        THEN /\ xTCPTimerCheck(xWillSleep, due, old, probe)
             /\ xProcessedTCPMessage' = FALSE
        ELSE UNCHANGED <<bExpired, xProcessedTCPMessage, socket, group, pc, toPeer>>
     /\ UNCHANGED <<msg, left, count, patience, events, toTiva, peerVars, accepted>>

prvIPTask(old) ==
  /\ ip = "receive" /\ events # <<>>
  /\ events' = Tail(events) /\ ip' = "timers"
  /\ LET p == Head(events)
         r == xProcessReceivedTCPPacket(socket, p, old)
     IN IF p.kind = "timer"
        THEN bExpired' = TRUE /\ UNCHANGED <<socket, xProcessedTCPMessage, toPeer>>
        ELSE /\ socket' = r.socket /\ Transmit(r.packets)
             /\ xProcessedTCPMessage' = TRUE /\ UNCHANGED bExpired
  /\ UNCHANGED <<mainVars, group, late, toTiva, peerVars, accepted>>

(* xTCPTimer runs out while the IP task waits, maybe much later. *)
Sleeping == ip = "receive" /\ events = <<>>
TimerRunsOut(much) ==
  /\ Sleeping
  /\ late' = much
  /\ bExpired' = TRUE /\ ip' = "timers"
  /\ UNCHANGED <<mainVars, socket, group, events, xProcessedTCPMessage,
                 netVars, peerVars, accepted>>

-----------------------------------------------------------------------------
(* main_task, which sends one message after the other. *)
At(l) == pc = l /\ Sleeping
Unmoved == UNCHANGED <<ip, xProcessedTCPMessage, late, netVars, peerVars>>

(* FreeRTOS_send is refused at once only when the socket is closed. *)
FreeRTOS_send ==
  /\ At("idle") /\ msg < Messages
  /\ msg' = msg + 1
  /\ IF socket.ucTCPState = "eCLOSED"
     THEN UNCHANGED <<pc, left, count, patience>>
     ELSE /\ pc' = "space" /\ left' = MSG_SIZE
          /\ UNCHANGED count /\ patience' = "unasked"
  /\ UNCHANGED <<socket, group, events, bExpired, accepted>> /\ Unmoved

SeesSpace ==
  /\ At("space")
  /\ count' = Least(uxStreamBufferGetSpace(socket.txStream), left)
  /\ pc' = IF count' > 0 THEN "copy" ELSE "block"
  /\ UNCHANGED <<msg, left, patience, socket, group, events, bExpired, accepted>>
  /\ Unmoved

(* The bytes are copied, uxHead moves, and the IP task is told; it may run *)
(* between any two of these. *)
Chunk == SubSeq(Message(msg), MSG_SIZE - left + 1, MSG_SIZE - left + count)
CopiesBytes ==
  /\ At("copy")
  /\ socket' = [socket EXCEPT !.txStream = Copied(@, Chunk)]
  /\ pc' = "head"
  /\ UNCHANGED <<msg, left, count, patience, group, events, bExpired, accepted>>
  /\ Unmoved

MovesHead ==
  /\ At("head")
  /\ socket' = [socket EXCEPT !.txStream = HeadMoved(@, count)]
  /\ accepted' = accepted \o Chunk
  /\ pc' = "event"
  /\ UNCHANGED <<msg, left, count, patience, group, events, bExpired>>
  /\ Unmoved

xSendEventToIPTask ==
  /\ At("event")
  /\ socket' = [socket EXCEPT !.usTimeout = Due]
  /\ bExpired' = TRUE
  /\ events' = Append(events, Timer)
  /\ left' = left - count
  /\ pc' = IF left' = 0 THEN "idle" ELSE "block"
  /\ count' = 0
  /\ UNCHANGED <<msg, patience, group, accepted>> /\ Unmoved

(* The first time it waits it does not look at the clock. *)
xEventGroupWaitBits ==
  /\ At("block") /\ patience # "none"
  /\ patience' = "some"
  /\ group' = {}
  /\ pc' = IF group = {} THEN "wait" ELSE "space"
  /\ UNCHANGED <<msg, left, count, socket, events, bExpired, accepted>>
  /\ Unmoved

WaitTimesOut ==
  /\ At("wait")
  /\ pc' = "space" /\ patience' = "none"
  /\ UNCHANGED <<msg, left, count, socket, group, events, bExpired, accepted>>
  /\ Unmoved

GivesUp ==
  /\ At("block") /\ patience # "unasked"
  /\ pc' = "idle"
  /\ left' = 0 /\ patience' = "unasked"
  /\ UNCHANGED <<msg, count, socket, group, events, bExpired, accepted>>
  /\ Unmoved

MainTask ==
  \/ FreeRTOS_send \/ SeesSpace \/ CopiesBytes \/ MovesHead
  \/ xSendEventToIPTask \/ xEventGroupWaitBits \/ WaitTimesOut \/ GivesUp

-----------------------------------------------------------------------------
(* The BeagleBone: its kernel takes what continues the bytes it has, and   *)
(* acknowledges all it has; once the process is gone it answers with a     *)
(* reset.  *)
PeerReceives(p, again) ==
  LET behind == SeqNr(ulFirstSequenceNumber + Len(received) - p.seq)
  IN /\ p \in toPeer
     /\ toPeer' = IF again THEN toPeer ELSE toPeer \ {p}
     /\ received' = IF peerUp /\ behind < Len(p.data)
                    THEN received \o SubSeq(p.data, behind + 1, Len(p.data))
                    ELSE received
     /\ LET answer == IF peerUp THEN Ack(SeqNr(ulFirstSequenceNumber + Len(received'))) ELSE Rst
        IN toTiva' = IF Cardinality(toTiva \cup {answer}) <= InFlight
                     THEN toTiva \cup {answer} ELSE toTiva
     /\ UNCHANGED <<mainVars, socket, group, ipVars, peerUp, accepted>>

PeerGoes ==
  /\ peerUp /\ peerUp' = FALSE
  /\ UNCHANGED <<mainVars, socket, group, ipVars, netVars, received, accepted>>

-----------------------------------------------------------------------------
IPTask ==
  \/ \E due, old, probe \in BOOLEAN : prvCheckNetworkTimers(due, old, probe)
  \/ \E old \in BOOLEAN : prvIPTask(old)

Next ==
  \/ MainTask \/ IPTask \/ \E much \in BOOLEAN : TimerRunsOut(much)
  \/ \E p \in toPeer, again \in BOOLEAN : PeerReceives(p, again)
  \/ \E p \in toTiva, again \in BOOLEAN : Arrives(p, again)
  \/ Lose \/ PeerGoes

Spec == Init /\ [][Next]_vars

(* Both tasks and the socket thread go on; time passes; the network does   *)
(* not keep the IP task busy for ever, and does not lose every segment,    *)
(* nor every answer. *)
DataArrives == \E p \in toPeer : p.data # <<>> /\ PeerReceives(p, FALSE)
AnswerArrives ==
  Len(events) < EventQueueLength /\ \E p \in toTiva : Arrives(p, FALSE)
Fairness ==
  /\ []<>Sleeping /\ SF_vars(MainTask) /\ SF_vars(TimerRunsOut(TRUE))
  /\ SF_vars(DataArrives) /\ SF_vars(AnswerArrives)

FairSpec == Spec /\ Fairness
=============================================================================
