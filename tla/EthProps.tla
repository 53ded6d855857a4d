----------------------------- MODULE EthProps -----------------------------
(***************************************************************************)
(* What is claimed of the Ethernet driver: see README.md, "Properties".    *)
(***************************************************************************)
EXTENDS Eth

CpuOwned == {i \in Rx : rx_own[i] = "cpu"}
RingFull == CpuOwned = Rx
Ready == ip # "init"

(* Every variable has its type, and the EMAC task holds a good frame       *)
(* between looking at the ring and copying.                                *)
RingTypes ==
  /\ rx_own \in [Rx -> {"cpu", "dma"}] /\ rx_bad \in [Rx -> BOOLEAN]
  /\ rx_buf \in [Rx -> Bufs] /\ tx_own \in [Tx -> {"cpu", "dma"}]
  /\ mem \in [Bufs -> Int] /\ rx_no \in [Rx -> Nat]
  /\ eth_rx_desc_index \in Rx /\ eth_tx_desc_index \in Tx
  /\ dma_rx \in Rx /\ dma_tx \in Tx
TaskTypes ==
  /\ irq \in BOOLEAN /\ notified \in Nat /\ starved \in BOOLEAN
  /\ emac \in {"take", "size", "get", "copy", "send"}
  /\ frame \in Frame
  /\ free \in Nat
  /\ ip \in {"init", "idle", "process", "grow", "keep", "wait", "fill"}
  /\ out \in Int /\ held \in Int /\ xReleaseAfterSend \in BOOLEAN
  /\ event_queue \in Seq(Frame)
HistoryTypes ==
  /\ arrived \in Nat /\ submitted \in Nat
  /\ handed \in Seq(Nat) /\ line \in Seq(Int)
TypeOK ==
  /\ RingTypes /\ TaskTypes /\ HistoryTypes
  /\ ip = "init" => emac = "take" /\ notified = 0 /\ ~irq
  /\ emac \in {"get", "copy"} => HasFrame

(* The driver and the DMA engine walk the same ring: what the processor    *)
(* owns is exactly what lies between the driver's index and the engine's.  *)
RingAgrees ==
  Ready =>
    /\ eth_rx_desc_index = dma_rx => CpuOwned = {} \/ RingFull
    /\ eth_rx_desc_index < dma_rx =>
         CpuOwned = eth_rx_desc_index..(dma_rx - 1)
    /\ dma_rx < eth_rx_desc_index =>
         CpuOwned = Rx \ (dma_rx..(eth_rx_desc_index - 1))

(* Every network buffer is free, in the hands of one task, or in the queue *)
(* between them, and when the IP task has done with a frame it holds none: *)
(* whether a frame is sent in a buffer that the driver is to release, in   *)
(* one that its sender keeps, or in one that is not the pool's, no buffer  *)
(* is leaked and none is released twice.                                   *)
BuffersBalance ==
  /\ NumBuffers = free + Len(event_queue) + held
                    + (IF emac \in {"copy", "send"} THEN 1 ELSE 0)
  /\ ip \in {"init", "idle"} => held = 0

(* The driver has gone deaf: the ring is full, so no interrupt will come,  *)
(* and the EMAC task waits for one.                                        *)
Deaf == Ready /\ RingFull /\ ~irq /\ notified = 0 /\ emac = "take"

(* No interrupt is lost between the handler and the task: the driver goes  *)
(* deaf only over a frame that fails the checks, or one that found no      *)
(* network buffer.                                                         *)
DeafOnlyOver == Deaf => rx_bad[eth_rx_desc_index] \/ starved

(* A receive descriptor that shares its index with no transmit descriptor  *)
(* keeps its frame until the driver takes it.                              *)
OthersIntact ==
  Ready => \A i \in CpuOwned \ Tx : mem[rx_buf[i]] = rx_no[i]

(* Each frame given to eth_tx leaves once and in its turn; what leaves in  *)
(* its place can only be a frame that was received meanwhile.              *)
SentInTurn ==
  /\ submitted = Len(line) + Cardinality({i \in Tx : tx_own[i] = "dma"})
                           + (IF ip \in {"wait", "fill"} THEN 1 ELSE 0)
  /\ \A k \in DOMAIN line : line[k] = -k \/ line[k] > 0

Taken == IF CpuOwned = {} \/ ~Ready THEN arrived
                                    ELSE rx_no[eth_rx_desc_index] - 1
Queue == INSTANCE FrameQueue WITH
  Capacity <- ETH_NUM_RX_DESCRIPTORS, came <- arrived, took <- Taken,
  holding <- (emac = "send"), given <- handed

(* Ring, interrupt and task together are a queue of frames. *)
ImplementsQueue == Queue!QueueSpec

(* Every frame given to eth_tx is sent. *)
Sent == \A k \in 1..TxBudget : (submitted >= k) ~> (Len(line) >= k)

(* A full ring is emptied, unless the frame at hand is bad or found no     *)
(* network buffer.                                                         *)
Recovers ==
  [](Ready /\ RingFull => <>(~RingFull \/ rx_bad[eth_rx_desc_index] \/ starved))

-----------------------------------------------------------------------------
(* eth.h: eth_tx sends the frame it is given. *)
SentIntact == \A k \in DOMAIN line : line[k] = -k
=============================================================================
