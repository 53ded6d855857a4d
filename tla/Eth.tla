-------------------------------- MODULE Eth --------------------------------
(***************************************************************************)
(* The Ethernet driver of the TIVA board (eth.c) under FreeRTOS+TCP        *)
(* (NetworkInterface.c): a ring of receive descriptors and some transmit   *)
(* descriptors shared with the controller's DMA engine, the receive        *)
(* interrupt, the EMAC task that takes one frame after each notification,  *)
(* and the IP task that works on received frames and sends.  The EMAC task *)
(* has the highest priority: the IP task runs only while it waits.         *)
(*                                                                         *)
(* A frame is a number: 1, 2, ... for those received, -1, -2, ... for      *)
(* those sent, in their order; the program does not have these numbers.    *)
(***************************************************************************)
EXTENDS Integers, Sequences, FiniteSets

CONSTANTS
  ETH_NUM_RX_DESCRIPTORS, ETH_NUM_TX_DESCRIPTORS,
  NumBuffers,           \* network buffers of FreeRTOS+TCP
  EventQueueLength,     \* length of the IP task's queue
  FramesMayBeBad,       \* whether a frame may fail the checks of eth_rx_size
  RxBudget, TxBudget    \* bounds: frames received and sent in all

Rx == 0..(ETH_NUM_RX_DESCRIPTORS - 1)
Tx == 0..(ETH_NUM_TX_DESCRIPTORS - 1)
RxBuf(i) == <<"rx", i>>         \* eth_rx_buf[i]
TxBuf(i) == <<"tx", i>>         \* eth_tx_buf[i]
Bufs == {RxBuf(i) : i \in Rx} \cup {TxBuf(i) : i \in Tx}
Frame == [no : Nat, data : Int]  \* its place in the order, what was copied
NoFrame == [no |-> 0, data |-> 0]

ASSUME RingAssumption ==
  /\ ETH_NUM_RX_DESCRIPTORS \in Nat \ {0} /\ ETH_NUM_TX_DESCRIPTORS \in Nat \ {0}
  /\ ETH_NUM_TX_DESCRIPTORS <= ETH_NUM_RX_DESCRIPTORS
ASSUME BufferAssumption ==
  /\ NumBuffers \in Nat \ {0} /\ EventQueueLength \in Nat \ {0}
  /\ FramesMayBeBad \in BOOLEAN /\ RxBudget \in Nat /\ TxBudget \in Nat

VARIABLES
  rx_own, rx_bad, rx_buf,       \* eth_rx_descriptor: owner, status, pvBuffer1
  tx_own,                       \* eth_tx_descriptor: owner
  mem,                          \* what is in each buffer
  eth_rx_desc_index, eth_tx_desc_index,
  dma_rx, dma_tx,               \* the descriptors the DMA engine uses next
  irq,                          \* the receive interrupt is pending
  notified,                     \* notification count of the EMAC task
  emac, frame,                  \* where the EMAC task is, the frame it holds
  free,                         \* free network buffers
  event_queue,                  \* frames queued for the IP task
  ip, out,                      \* where the IP task is, the frame it sends
  held,                         \* network buffers in the IP task's hands
  xReleaseAfterSend,            \* the driver is to release the frame's buffer
  arrived, rx_no,               \* frames received, and which one a descriptor has
  handed,                       \* frames queued for the IP task so far
  starved,                      \* the EMAC task last found no network buffer
  submitted, line               \* frames given to eth_tx, frames sent

dmaVars == <<mem, dma_rx, dma_tx, irq>>
rxVars == <<rx_own, rx_bad, rx_buf, eth_rx_desc_index>>
txVars == <<tx_own, eth_tx_desc_index>>
emacVars == <<notified, emac, frame, starved>>
callVars == <<ip, out, held, xReleaseAfterSend>>
ipVars == <<free, event_queue, callVars>>
rxHistory == <<arrived, rx_no, handed>>
txHistory == <<submitted, line>>
vars == <<dmaVars, rxVars, txVars, emacVars, ipVars, rxHistory, txHistory>>

(* The descriptor pLink names, which the engine uses next, and the one the *)
(* driver uses next.                                                       *)
RxLink(i) == IF i = ETH_NUM_RX_DESCRIPTORS - 1 THEN 0 ELSE i + 1
TxLink(i) == IF i = ETH_NUM_TX_DESCRIPTORS - 1 THEN 0 ELSE i + 1
NextRx(i) == IF i + 1 >= ETH_NUM_RX_DESCRIPTORS THEN 0 ELSE i + 1
NextTx(i) == IF i + 1 >= ETH_NUM_TX_DESCRIPTORS THEN 0 ELSE i + 1

Init ==
  /\ rx_own = [i \in Rx |-> "cpu"] /\ rx_bad = [i \in Rx |-> FALSE]
  /\ rx_buf = [i \in Rx |-> RxBuf(i)]
  /\ tx_own = [i \in Tx |-> "cpu"]
  /\ mem = [b \in Bufs |-> 0]
  /\ eth_rx_desc_index = 0 /\ eth_tx_desc_index = ETH_NUM_TX_DESCRIPTORS - 1
  /\ dma_rx = 0 /\ dma_tx = 0 /\ irq = FALSE /\ notified = 0
  /\ emac = "take" /\ frame = NoFrame /\ starved = FALSE
  /\ free = NumBuffers /\ event_queue = <<>> /\ ip = "init" /\ out = 0
  /\ held = 0 /\ xReleaseAfterSend = FALSE
  /\ arrived = 0 /\ rx_no = [i \in Rx |-> 0] /\ handed = <<>>
  /\ submitted = 0 /\ line = <<>>

-----------------------------------------------------------------------------
(* Operators called X_How are mutants of X, for the runs that show that a   *)
(* property notices; no other definition uses them.                         *)

(* the DMA engine *)

(* It fills the next descriptor it owns and raises the interrupt; a frame  *)
(* that arrives while it owns none is lost in the controller.              *)
DmaReceive ==
  /\ ip # "init" /\ arrived < RxBudget
  /\ rx_own[dma_rx] = "dma"
  /\ arrived' = arrived + 1
  /\ mem' = [mem EXCEPT ![rx_buf[dma_rx]] = arrived + 1]
  /\ rx_no' = [rx_no EXCEPT ![dma_rx] = arrived + 1]
  /\ \E bad \in {FALSE, FramesMayBeBad} : rx_bad' = [rx_bad EXCEPT ![dma_rx] = bad]
  /\ rx_own' = [rx_own EXCEPT ![dma_rx] = "cpu"]
  /\ dma_rx' = RxLink(dma_rx)
  /\ irq' = TRUE
  /\ UNCHANGED <<rx_buf, eth_rx_desc_index, dma_tx, txVars, emacVars, ipVars,
                 handed, txHistory>>

DmaTransmit ==
  /\ tx_own[dma_tx] = "dma"
  /\ line' = Append(line, mem[TxBuf(dma_tx)])
  /\ tx_own' = [tx_own EXCEPT ![dma_tx] = "cpu"]
  /\ dma_tx' = TxLink(dma_tx)
  /\ UNCHANGED <<mem, dma_rx, irq, rxVars, eth_tx_desc_index, emacVars, ipVars,
                 rxHistory, submitted>>

eth_isr_WhenIdle ==
  /\ irq
  /\ irq' = FALSE
  /\ notified' = IF emac = "take" THEN notified + 1 ELSE notified
  /\ UNCHANGED <<mem, dma_rx, dma_tx, rxVars, txVars, emac, frame, starved,
                 ipVars, rxHistory, txHistory>>

(* The interrupt handler and eth_process. *)
eth_isr ==
  /\ irq
  /\ irq' = FALSE
  /\ notified' = notified + 1
  /\ UNCHANGED <<mem, dma_rx, dma_tx, rxVars, txVars, emac, frame, starved,
                 ipVars, rxHistory, txHistory>>

-----------------------------------------------------------------------------
(* the EMAC task, vNetworkInterfaceProcess *)

EmacGoto(l) == emac' = l

(* ulTaskNotifyTake clears the whole count. *)
EmacTake ==
  /\ emac = "take" /\ notified > 0
  /\ notified' = 0
  /\ EmacGoto("size")
  /\ UNCHANGED <<frame, starved, dmaVars, rxVars, txVars, ipVars, rxHistory,
                 txHistory>>

(* eth_rx_size: 0 when the descriptor at hand is the engine's or fails the *)
(* checks.  The frame then stays where it is.                              *)
HasFrame ==
  /\ rx_own[eth_rx_desc_index] = "cpu"
  /\ ~rx_bad[eth_rx_desc_index]

eth_rx_size_AnyStatus ==
  /\ emac = "size"
  /\ EmacGoto(IF rx_own[eth_rx_desc_index] = "cpu" THEN "get" ELSE "take")
  /\ UNCHANGED <<notified, frame, starved, dmaVars, rxVars, txVars, ipVars,
                 rxHistory, txHistory>>

eth_rx_size ==
  /\ emac = "size"
  /\ EmacGoto(IF HasFrame THEN "get" ELSE "take")
  /\ UNCHANGED <<notified, frame, starved, dmaVars, rxVars, txVars, ipVars,
                 rxHistory, txHistory>>

(* pxGetNetworkBufferWithDescriptor, without waiting. *)
EmacGetBuffer ==
  /\ emac = "get"
  /\ IF free > 0 THEN free' = free - 1 /\ EmacGoto("copy")
                 ELSE UNCHANGED free /\ EmacGoto("take")
  /\ starved' = (free = 0)
  /\ UNCHANGED <<notified, frame, event_queue, callVars, dmaVars, rxVars, txVars,
                 rxHistory, txHistory>>

eth_rx_NoReuse ==
  /\ emac = "copy"
  /\ frame' = [no |-> rx_no[eth_rx_desc_index],
               data |-> mem[rx_buf[eth_rx_desc_index]]]
  /\ eth_rx_desc_index' = NextRx(eth_rx_desc_index)
  /\ EmacGoto("send")
  /\ UNCHANGED <<rx_own, rx_bad, rx_buf, notified, starved, dmaVars, txVars,
                 ipVars, rxHistory, txHistory>>
eth_rx_NextFirst ==
  /\ emac = "copy"
  /\ frame' = [no |-> rx_no[eth_rx_desc_index],
               data |-> mem[rx_buf[eth_rx_desc_index]]]
  /\ eth_rx_desc_index' = NextRx(eth_rx_desc_index)
  /\ rx_own' = [rx_own EXCEPT ![eth_rx_desc_index'] = "dma"]
  /\ rx_bad' = [rx_bad EXCEPT ![eth_rx_desc_index'] = FALSE]
  /\ EmacGoto("send")
  /\ UNCHANGED <<rx_buf, notified, starved, dmaVars, txVars, ipVars, rxHistory,
                 txHistory>>

(* eth_rx looks again, copies a frame without error, and gives the          *)
(* descriptor back to the engine.                                          *)
eth_rx ==
  /\ emac = "copy"
  /\ frame' = IF HasFrame THEN [no |-> rx_no[eth_rx_desc_index],
                                data |-> mem[rx_buf[eth_rx_desc_index]]]
                          ELSE NoFrame
  /\ IF rx_own[eth_rx_desc_index] = "cpu"
       THEN /\ rx_own' = [rx_own EXCEPT ![eth_rx_desc_index] = "dma"]
            /\ rx_bad' = [rx_bad EXCEPT ![eth_rx_desc_index] = FALSE]
            /\ eth_rx_desc_index' = NextRx(eth_rx_desc_index)
       ELSE UNCHANGED <<rx_own, rx_bad, eth_rx_desc_index>>
  /\ EmacGoto("send")
  /\ UNCHANGED <<rx_buf, notified, starved, dmaVars, txVars, ipVars, rxHistory,
                 txHistory>>

(* xSendEventStructToIPTask, without waiting; the buffer of a frame that    *)
(* finds the queue full is released.                                        *)
EmacSend ==
  /\ emac = "send"
  /\ IF Len(event_queue) < EventQueueLength
       THEN /\ event_queue' = Append(event_queue, frame)
            /\ handed' = Append(handed, frame.no)
            /\ UNCHANGED free
       ELSE free' = free + 1 /\ UNCHANGED <<event_queue, handed>>
  /\ frame' = NoFrame
  /\ EmacGoto("take")
  /\ UNCHANGED <<notified, starved, callVars, dmaVars, rxVars, txVars, arrived,
                 rx_no, txHistory>>

-----------------------------------------------------------------------------
(* the IP task *)

(* A pending interrupt may be held off by a critical section. *)
IpMayRun == emac = "take" /\ notified = 0

(* eth_init: the engine gets every receive descriptor. *)
xNetworkInterfaceInitialise ==
  /\ IpMayRun /\ ip = "init"
  /\ rx_own' = [i \in Rx |-> "dma"]
  /\ rx_buf' = [i \in Rx |-> RxBuf(i)]
  /\ tx_own' = [i \in Tx |-> "cpu"]
  /\ eth_rx_desc_index' = 0 /\ eth_tx_desc_index' = 0
  /\ dma_rx' = 0 /\ dma_tx' = 0
  /\ ip' = "idle"
  /\ UNCHANGED <<mem, irq, rx_bad, emacVars, free, event_queue, out, held,
                 xReleaseAfterSend, rxHistory, txHistory>>

(* "process": it works on a received frame, whose buffer is in its hands. *)
IpTake ==
  /\ IpMayRun /\ ip = "idle" /\ event_queue # <<>>
  /\ event_queue' = Tail(event_queue)
  /\ held' = 1
  /\ ip' = "process"
  /\ UNCHANGED <<free, out, xReleaseAfterSend, dmaVars, rxVars, txVars, emacVars,
                 rxHistory, txHistory>>

(* "keep": it has sent a buffer that the driver was not to release.        *)
IpRelease ==
  /\ IpMayRun /\ ip \in {"process", "keep"}
  /\ free' = free + 1 /\ held' = held - 1
  /\ ip' = "idle"
  /\ UNCHANGED <<event_queue, out, xReleaseAfterSend, dmaVars, rxVars, txVars,
                 emacVars, rxHistory, txHistory>>

(* prvTCPBufferResize: the frame's buffer is too small for the data that   *)
(* goes with the answer.  A larger one is taken, if there is one, and then *)
(* the frame's is released; for a moment there are two.                    *)
IpGrow ==
  /\ IpMayRun /\ ip = "process" /\ free > 0
  /\ free' = free - 1 /\ held' = held + 1
  /\ ip' = "grow"
  /\ UNCHANGED <<event_queue, out, xReleaseAfterSend, dmaVars, rxVars, txVars,
                 emacVars, rxHistory, txHistory>>
IpGrown ==
  /\ IpMayRun /\ ip = "grow"
  /\ free' = free + 1 /\ held' = held - 1
  /\ ip' = "keep"
  /\ UNCHANGED <<event_queue, out, xReleaseAfterSend, dmaVars, rxVars, txVars,
                 emacVars, rxHistory, txHistory>>

(* xNetworkInterfaceOutput, and the entry of eth_tx, with the next frame.  *)
StartTx(release) ==
  /\ submitted < TxBudget
  /\ submitted' = submitted + 1
  /\ out' = -(submitted + 1)
  /\ xReleaseAfterSend' = release
  /\ eth_tx_desc_index' = NextTx(eth_tx_desc_index)
  /\ ip' = "wait"

(* An answer in the buffer of the frame at hand: ARP and ICMP leave it to  *)
(* the driver to release, TCP keeps it.                                    *)
IpReply ==
  /\ IpMayRun /\ ip = "process"
  /\ \E release \in BOOLEAN : StartTx(release)
  /\ UNCHANGED <<free, event_queue, held, tx_own, dmaVars, rxVars, emacVars,
                 rxHistory, line>>

(* A TCP segment in the buffer that was kept: the larger one, or that of   *)
(* the segment before (prvTCPSendRepeated).                                *)
IpAgain ==
  /\ IpMayRun /\ ip = "keep"
  /\ StartTx(FALSE)
  /\ UNCHANGED <<free, event_queue, held, tx_own, dmaVars, rxVars, emacVars,
                 rxHistory, line>>

(* A frame nobody asked for, in a buffer of its own: an ARP request, which *)
(* the driver releases, or a TCP segment, which stays.                     *)
IpOutput ==
  /\ IpMayRun /\ ip = "idle" /\ free > 0
  /\ \E release \in BOOLEAN : StartTx(release)
  /\ free' = free - 1 /\ held' = 1
  /\ UNCHANGED <<event_queue, tx_own, dmaVars, rxVars, emacVars, rxHistory,
                 line>>

(* A SYN, a keep-alive or a new window size: the frame is in the socket,   *)
(* under a descriptor on the stack that is none of the pool's.             *)
IpPseudo ==
  /\ IpMayRun /\ ip = "idle"
  /\ StartTx(FALSE)
  /\ UNCHANGED <<free, event_queue, held, tx_own, dmaVars, rxVars, emacVars,
                 rxHistory, line>>

EthTxCopy_NoWait ==
  /\ IpMayRun /\ ip = "wait"
  /\ mem' = [mem EXCEPT ![TxBuf(eth_tx_desc_index)] = out]
  /\ ip' = "fill"
  /\ UNCHANGED <<free, event_queue, out, held, xReleaseAfterSend, dma_rx, dma_tx,
                 irq, rxVars, txVars, emacVars, rxHistory, txHistory>>

(* eth_tx spins until the descriptor is its own, then copies the frame. *)
EthTxCopy ==
  /\ IpMayRun /\ ip = "wait"
  /\ tx_own[eth_tx_desc_index] = "cpu"
  /\ mem' = [mem EXCEPT ![TxBuf(eth_tx_desc_index)] = out]
  /\ ip' = "fill"
  /\ UNCHANGED <<free, event_queue, out, held, xReleaseAfterSend, dma_rx, dma_tx,
                 irq, rxVars, txVars, emacVars, rxHistory, txHistory>>

ReleaseAfterSend_Always ==
  /\ free' = free + 1
  /\ held' = IF xReleaseAfterSend THEN held - 1 ELSE held
  /\ ip' = IF held' > 0 THEN "keep" ELSE "idle"
  /\ out' = 0 /\ xReleaseAfterSend' = FALSE

(* xNetworkInterfaceOutput releases the buffer only if it was told to; its *)
(* caller still has it otherwise, if there was one.                        *)
ReleaseAfterSend ==
  /\ free' = IF xReleaseAfterSend THEN free + 1 ELSE free
  /\ held' = IF xReleaseAfterSend THEN held - 1 ELSE held
  /\ ip' = IF held' > 0 THEN "keep" ELSE "idle"
  /\ out' = 0 /\ xReleaseAfterSend' = FALSE

EthTxFill_RxIndex ==
  /\ IpMayRun /\ ip = "fill"
  /\ rx_buf' = [rx_buf EXCEPT ![eth_rx_desc_index] = TxBuf(eth_tx_desc_index)]
  /\ tx_own' = [tx_own EXCEPT ![eth_tx_desc_index] = "dma"]
  /\ ReleaseAfterSend
  /\ UNCHANGED <<event_queue, rx_own, rx_bad, eth_rx_desc_index,
                 eth_tx_desc_index, dmaVars, emacVars, rxHistory, txHistory>>
EthTxFill_NoOwn ==
  /\ IpMayRun /\ ip = "fill"
  /\ rx_buf' = [rx_buf EXCEPT ![eth_tx_desc_index] = TxBuf(eth_tx_desc_index)]
  /\ ReleaseAfterSend
  /\ UNCHANGED <<event_queue, rx_own, rx_bad, eth_rx_desc_index, txVars,
                 dmaVars, emacVars, rxHistory, txHistory>>

(* It puts the address of the transmit buffer into the RECEIVE descriptor  *)
(* of the same index, and the engine may begin.                            *)
EthTxFill ==
  /\ IpMayRun /\ ip = "fill"
  /\ rx_buf' = [rx_buf EXCEPT ![eth_tx_desc_index] = TxBuf(eth_tx_desc_index)]
  /\ tx_own' = [tx_own EXCEPT ![eth_tx_desc_index] = "dma"]
  /\ ReleaseAfterSend
  /\ UNCHANGED <<event_queue, rx_own, rx_bad, eth_rx_desc_index,
                 eth_tx_desc_index, dmaVars, emacVars, rxHistory, txHistory>>

DmaNext == DmaReceive \/ DmaTransmit
EmacNext == EmacTake \/ eth_rx_size \/ EmacGetBuffer \/ eth_rx \/ EmacSend
IpNext == xNetworkInterfaceInitialise \/ IpTake \/ IpRelease \/ IpGrow
            \/ IpGrown \/ IpReply \/ IpAgain \/ IpOutput \/ IpPseudo \/ EthTxCopy
            \/ EthTxFill
Next == DmaNext \/ eth_isr \/ EmacNext \/ IpNext

Spec == Init /\ [][Next]_vars

(* The engine sends what it owns, a pending interrupt is served, and a     *)
(* task that stays ready runs.  Nothing is asked of the network.           *)
Fairness ==
  /\ WF_vars(DmaTransmit) /\ WF_vars(eth_isr)
  /\ WF_vars(EmacNext) /\ WF_vars(IpNext)
FairSpec == Spec /\ Fairness
=============================================================================
