----------------------------- MODULE EthProofs -----------------------------
(***************************************************************************)
(* Theorems about the Ethernet driver, for rings of every length, any      *)
(* number of network buffers and frames, good or bad.                      *)
(***************************************************************************)
EXTENDS EthProps, FiniteSetTheorems, TLAPS

(* The index operators stay in the ring and agree with the links.          *)
LEMMA Indices ==
  /\ 0 \in Rx /\ 0 \in Tx /\ ETH_NUM_TX_DESCRIPTORS - 1 \in Tx
  /\ Tx \subseteq Rx
  /\ \A i \in Rx : NextRx(i) \in Rx /\ RxLink(i) = NextRx(i)
  /\ \A i \in Tx : NextTx(i) \in Tx /\ TxLink(i) \in Tx
  /\ \A i \in Rx : RxBuf(i) \in Bufs
  /\ \A i \in Tx : TxBuf(i) \in Bufs
  BY RingAssumption DEF Rx, Tx, NextRx, NextTx, RxLink, TxLink, Bufs

(* The initial state is typed. *)
LEMMA TypeInit == Init => TypeOK
  <1> SUFFICES ASSUME Init PROVE TypeOK
    OBVIOUS
  <1>1. RingTypes
    BY Indices DEF Init, RingTypes
  <1>2. TaskTypes
    <2>1. NoFrame \in Frame
      BY DEF Frame, NoFrame
    <2>2. <<>> \in Seq(Frame) /\ NumBuffers \in Nat /\ 0 \in Nat /\ 0 \in Int
      BY BufferAssumption
    <2>3. /\ event_queue \in Seq(Frame) /\ free \in Nat /\ notified \in Nat
          /\ out \in Int /\ held \in Int
      BY <2>2 DEF Init
    <2> QED BY <2>1, <2>3 DEF Init, TaskTypes
  <1>3. HistoryTypes
    BY DEF Init, HistoryTypes
  <1> QED BY <1>1, <1>2, <1>3 DEF TypeOK, Init

(* Every step keeps the types: one step per action. *)
LEMMA TypeInductive == TypeOK /\ [Next]_vars => TypeOK'
  <1> SUFFICES ASSUME TypeOK, [Next]_vars PROVE TypeOK'
    OBVIOUS
  <1>a. RingTypes /\ TaskTypes /\ HistoryTypes
    BY DEF TypeOK
  <1> USE DEF TypeOK, dmaVars, rxVars, txVars, emacVars, ipVars, callVars, rxHistory,
              txHistory, EmacGoto
  <1>1. CASE DmaReceive
    <2>1. /\ dma_rx \in Rx /\ RxLink(dma_rx) \in Rx /\ arrived + 1 \in Nat
          /\ rx_own[dma_rx] = "dma"
      BY <1>a, <1>1, Indices DEF DmaReceive, RingTypes, HistoryTypes
    <2>2. RingTypes'
      <3>1. rx_bad' \in [Rx -> BOOLEAN]
        <4>1. PICK bad \in {FALSE, FramesMayBeBad} :
                rx_bad' = [rx_bad EXCEPT ![dma_rx] = bad]
          BY <1>1 DEF DmaReceive
        <4>2. bad \in BOOLEAN
          BY BufferAssumption
        <4> QED BY <1>a, <4>1, <4>2 DEF RingTypes
      <3>2. /\ rx_own' \in [Rx -> {"cpu", "dma"}] /\ rx_no' \in [Rx -> Nat]
            /\ dma_rx' \in Rx
        BY <1>a, <1>1, <2>1 DEF DmaReceive, RingTypes
      <3>3. mem' \in [Bufs -> Int]
        BY <1>a, <1>1, <2>1 DEF DmaReceive, RingTypes
      <3> QED BY <1>a, <1>1, <3>1, <3>2, <3>3 DEF DmaReceive, RingTypes
    <2>3. TaskTypes' /\ HistoryTypes'
      BY <1>1, <2>1 DEF DmaReceive, TaskTypes, HistoryTypes
    <2>4. emac \in {"get", "copy"} => HasFrame'
      BY <1>a, <1>1, <2>1 DEF DmaReceive, HasFrame, RingTypes
    <2> QED BY <1>1, <2>2, <2>3, <2>4 DEF DmaReceive
  <1>2. CASE DmaTransmit
    <2>1. dma_tx \in Tx /\ TxLink(dma_tx) \in Tx /\ mem[TxBuf(dma_tx)] \in Int
      BY <1>a, <1>2, Indices DEF RingTypes
    <2>2. RingTypes'
      BY <1>2, <2>1 DEF DmaTransmit, RingTypes
    <2>3. TaskTypes' /\ HistoryTypes'
      BY <1>2, <2>1 DEF DmaTransmit, TaskTypes, HistoryTypes
    <2> QED BY <1>2, <2>2, <2>3 DEF DmaTransmit, HasFrame
  <1>3. CASE eth_isr
    <2>1. RingTypes' /\ HistoryTypes' /\ HasFrame' = HasFrame
      BY <1>a, <1>3 DEF eth_isr, RingTypes, HistoryTypes, HasFrame
    <2>2. notified' \in Nat /\ ip # "init"
      BY <1>a, <1>3 DEF eth_isr, TaskTypes
    <2>3. TaskTypes' /\ UNCHANGED <<emac, ip>>
      BY <1>a, <1>3, <2>2 DEF eth_isr, TaskTypes
    <2> QED BY <2>1, <2>2, <2>3
  <1>4. CASE EmacTake
    BY <1>4 DEF EmacTake, RingTypes, TaskTypes, HistoryTypes, HasFrame
  <1>5. CASE eth_rx_size
    BY <1>5 DEF eth_rx_size, RingTypes, TaskTypes, HistoryTypes, HasFrame
  <1>6. CASE EmacGetBuffer
    BY <1>6 DEF EmacGetBuffer, RingTypes, TaskTypes, HistoryTypes, HasFrame
  <1>7. CASE eth_rx
    <2>1. /\ eth_rx_desc_index \in Rx /\ NextRx(eth_rx_desc_index) \in Rx
          /\ rx_no[eth_rx_desc_index] \in Nat
          /\ mem[rx_buf[eth_rx_desc_index]] \in Int
      BY <1>a, Indices DEF RingTypes
    <2>2. RingTypes'
      BY <1>7, <2>1 DEF eth_rx, RingTypes
    <2>3. frame' \in Frame
      BY <1>7, <2>1 DEF eth_rx, Frame, NoFrame
    <2>4. TaskTypes' /\ HistoryTypes'
      BY <1>7, <2>3 DEF eth_rx, TaskTypes, HistoryTypes
    <2> QED BY <1>7, <2>2, <2>4 DEF eth_rx
  <1>8. CASE EmacSend
    <2>1. NoFrame \in Frame /\ frame \in Frame /\ frame.no \in Nat
      BY <1>a DEF TaskTypes, Frame, NoFrame
    <2>2. event_queue' \in Seq(Frame) /\ handed' \in Seq(Nat) /\ free' \in Nat
      <3>1. CASE Len(event_queue) < EventQueueLength
        <4>1. /\ event_queue' = Append(event_queue, frame)
              /\ handed' = Append(handed, frame.no) /\ free' = free
          BY <1>8, <3>1 DEF EmacSend
        <4>2. event_queue \in Seq(Frame) /\ handed \in Seq(Nat) /\ free \in Nat
          BY <1>a DEF TaskTypes, HistoryTypes
        <4> QED BY <2>1, <4>1, <4>2
      <3>2. CASE ~(Len(event_queue) < EventQueueLength)
        BY <1>a, <1>8, <2>1, <3>2 DEF EmacSend, TaskTypes, HistoryTypes
      <3> QED BY <3>1, <3>2
    <2> QED BY <1>8, <2>1, <2>2 DEF EmacSend, RingTypes, TaskTypes, HistoryTypes
  <1>9. CASE xNetworkInterfaceInitialise
    <2>1. RingTypes'
      BY <1>9, Indices DEF xNetworkInterfaceInitialise, RingTypes
    <2> QED BY <1>9, <2>1
         DEF xNetworkInterfaceInitialise, IpMayRun, TaskTypes, HistoryTypes
  <1>10. CASE IpTake
    BY <1>10 DEF IpTake, IpMayRun, RingTypes, TaskTypes, HistoryTypes
  <1>11. CASE IpRelease \/ IpGrow \/ IpGrown
    <2>1. free' \in Nat /\ held' \in Int
      BY <1>a, <1>11 DEF IpRelease, IpGrow, IpGrown, TaskTypes
    <2> QED BY <1>11, <2>1 DEF IpRelease, IpGrow, IpGrown, IpMayRun, RingTypes,
                               TaskTypes, HistoryTypes
  <1>12. CASE IpReply \/ IpAgain \/ IpOutput \/ IpPseudo
    <2>1. PICK release \in BOOLEAN : StartTx(release)
      BY <1>12 DEF IpReply, IpAgain, IpOutput, IpPseudo
    <2>2. /\ IpMayRun /\ ip # "init" /\ free' \in Nat /\ held' \in Int
          /\ UNCHANGED <<event_queue, tx_own, line>>
          /\ UNCHANGED <<dmaVars, rxVars, emacVars, rxHistory>>
      <3>1. free \in Nat /\ held \in Int
        BY <1>a DEF TaskTypes
      <3>2. CASE IpReply \/ IpAgain \/ IpPseudo
        BY <3>1, <3>2 DEF IpReply, IpAgain, IpPseudo
      <3>3. CASE IpOutput
        BY <3>1, <3>3 DEF IpOutput
      <3> QED BY <1>12, <3>2, <3>3
    <2>3. /\ submitted' \in Nat /\ out' \in Int /\ ip' = "wait"
          /\ xReleaseAfterSend' \in BOOLEAN /\ eth_tx_desc_index' \in Tx
      BY <1>a, <2>1, Indices DEF StartTx, RingTypes, TaskTypes, HistoryTypes
    <2>4. RingTypes' /\ HistoryTypes'
      BY <1>a, <2>2, <2>3 DEF RingTypes, HistoryTypes
    <2>5. TaskTypes'
      BY <1>a, <2>2, <2>3 DEF TaskTypes
    <2> QED BY <2>2, <2>3, <2>4, <2>5 DEF IpMayRun
  <1>14. CASE EthTxCopy
    BY <1>14, Indices DEF EthTxCopy, IpMayRun, RingTypes, TaskTypes, HistoryTypes
  <1>15. CASE EthTxFill
    <2>1. eth_tx_desc_index \in Rx /\ TxBuf(eth_tx_desc_index) \in Bufs
      BY <1>a, Indices DEF RingTypes
    <2>2. /\ free' \in Nat /\ held' \in Int /\ ip' \in {"keep", "idle"}
          /\ out' = 0 /\ xReleaseAfterSend' = FALSE
      <3>1. /\ free \in Nat /\ held \in Int
            /\ free' = IF xReleaseAfterSend THEN free + 1 ELSE free
            /\ held' = IF xReleaseAfterSend THEN held - 1 ELSE held
            /\ ip' = IF held' > 0 THEN "keep" ELSE "idle"
            /\ out' = 0 /\ xReleaseAfterSend' = FALSE
        BY <1>a, <1>15 DEF EthTxFill, ReleaseAfterSend, TaskTypes
      <3> QED BY <3>1
    <2>3. RingTypes' /\ HistoryTypes'
      BY <1>a, <1>15, <2>1 DEF EthTxFill, RingTypes, HistoryTypes
    <2>4. TaskTypes'
      <3>1. UNCHANGED <<irq, notified, starved, emac, frame, event_queue>>
        BY <1>15 DEF EthTxFill
      <3>2. free' \in Nat /\ held' \in Int /\ out' \in Int
        BY <2>2
      <3>3. xReleaseAfterSend' \in BOOLEAN
        BY <2>2
      <3>4. ip' \in {"init", "idle", "process", "grow", "keep", "wait", "fill"}
        BY <2>2
      <3> QED BY <1>a, <3>1, <3>2, <3>3, <3>4 DEF TaskTypes
    <2> QED BY <1>15, <2>2, <2>3, <2>4 DEF EthTxFill, IpMayRun
  <1>16. CASE UNCHANGED vars
    BY <1>16 DEF vars, RingTypes, TaskTypes, HistoryTypes, HasFrame
  <1> QED BY <1>1, <1>2, <1>3, <1>4, <1>5, <1>6, <1>7, <1>8, <1>9, <1>10, <1>11,
             <1>12, <1>14, <1>15, <1>16
          DEF Next, DmaNext, EmacNext, IpNext

(* Types hold, and the frame the EMAC task saw stays until it is copied. *)
THEOREM TypeCorrect == Spec => []TypeOK
  BY TypeInit, TypeInductive, PTL DEF Spec
-----------------------------------------------------------------------------
(* RingAgrees, descriptor by descriptor: which ones the processor owns.    *)
Agrees ==
  Ready =>
    /\ eth_rx_desc_index = dma_rx =>
         \/ \A i \in Rx : rx_own[i] = "dma"
         \/ \A i \in Rx : rx_own[i] = "cpu"
    /\ eth_rx_desc_index < dma_rx => \A i \in Rx :
         rx_own[i] = "cpu" <=> eth_rx_desc_index <= i /\ i < dma_rx
    /\ dma_rx < eth_rx_desc_index => \A i \in Rx :
         rx_own[i] = "cpu" <=> i < dma_rx \/ eth_rx_desc_index <= i

(* Agrees says what RingAgrees says. *)
LEMMA AgreesIsRingAgrees == TypeOK /\ Agrees => RingAgrees
  <1> SUFFICES ASSUME TypeOK, Agrees, Ready PROVE RingAgrees
    BY DEF RingAgrees
  <1>1. /\ eth_rx_desc_index \in Int /\ dma_rx \in Int /\ Rx \subseteq Int
        /\ \A i \in Int : i >= 0 /\ i < ETH_NUM_RX_DESCRIPTORS <=> i \in Rx
        /\ eth_rx_desc_index >= 0 /\ dma_rx >= 0
        /\ eth_rx_desc_index < ETH_NUM_RX_DESCRIPTORS /\ dma_rx < ETH_NUM_RX_DESCRIPTORS
        /\ rx_own \in [Rx -> {"cpu", "dma"}]
    BY RingAssumption DEF TypeOK, RingTypes, Rx
  <1>2. CASE eth_rx_desc_index = dma_rx
    <2>1. CASE \A i \in Rx : rx_own[i] = "dma"
      <3>1. CpuOwned = {}
        BY <2>1 DEF CpuOwned
      <3> QED BY <1>1, <1>2, <3>1 DEF RingAgrees
    <2>2. CASE \A i \in Rx : rx_own[i] = "cpu"
      <3>1. RingFull
        BY <2>2 DEF CpuOwned, RingFull
      <3> QED BY <1>1, <1>2, <3>1 DEF RingAgrees
    <2> QED BY <1>2, <2>1, <2>2 DEF Agrees
  <1>3. CASE eth_rx_desc_index < dma_rx
    <2>1. \A i \in Rx : rx_own[i] = "cpu" <=> eth_rx_desc_index <= i /\ i < dma_rx
      BY <1>1, <1>3 DEF Agrees
    <2>2. \A i \in Int : eth_rx_desc_index <= i /\ i < dma_rx => i \in Rx
      BY <1>1, RingAssumption
    <2>3. \A i : i \in CpuOwned <=> i \in Int /\ eth_rx_desc_index <= i /\ i < dma_rx
      BY <1>1, <2>1, <2>2 DEF CpuOwned
    <2>4. \A i : i \in eth_rx_desc_index..(dma_rx - 1)
                  <=> i \in Int /\ eth_rx_desc_index <= i /\ i < dma_rx
      BY <1>1
    <2>5. CpuOwned = eth_rx_desc_index..(dma_rx - 1)
      BY <2>3, <2>4
    <2> QED BY <1>1, <1>3, <2>5 DEF RingAgrees
  <1>4. CASE dma_rx < eth_rx_desc_index
    <2>1. \A i \in Rx : rx_own[i] = "cpu" <=> i < dma_rx \/ eth_rx_desc_index <= i
      BY <1>1, <1>4 DEF Agrees
    <2>2. \A i \in Int : i \in dma_rx..(eth_rx_desc_index - 1)
                         <=> ~(i < dma_rx \/ eth_rx_desc_index <= i)
      BY <1>1
    <2>3. CpuOwned = Rx \ (dma_rx..(eth_rx_desc_index - 1))
      BY <1>1, <2>1, <2>2 DEF CpuOwned
    <2> QED BY <1>1, <1>4, <2>3 DEF RingAgrees
  <1> QED BY <1>1, <1>2, <1>3, <1>4

(* The frames in the ring are numbered up to the last one that arrived.    *)
Left(i) == IF i < dma_rx THEN dma_rx - i ELSE dma_rx + ETH_NUM_RX_DESCRIPTORS - i
InTurn ==
  Ready => \A i \in Rx : rx_own[i] = "cpu" => rx_no[i] = arrived + 1 - Left(i)
RingInv == TypeOK /\ Agrees /\ InTurn

(* What DmaReceive does to the ring. *)
LEMMA ReceiveKeepsRing == RingInv /\ DmaReceive => Agrees' /\ InTurn'
  <1> SUFFICES ASSUME RingInv, DmaReceive PROVE Agrees' /\ InTurn'
    OBVIOUS
  <1>1. /\ RingTypes /\ Agrees /\ InTurn /\ arrived \in Nat /\ Ready
        /\ UNCHANGED <<ip, eth_rx_desc_index>>
    BY DEF RingInv, TypeOK, HistoryTypes, DmaReceive, ipVars, callVars, Ready
  <1>2. /\ dma_rx \in Rx /\ eth_rx_desc_index \in Rx /\ rx_own[dma_rx] = "dma"
        /\ rx_own' = [rx_own EXCEPT ![dma_rx] = "cpu"]
        /\ rx_no' = [rx_no EXCEPT ![dma_rx] = arrived + 1]
        /\ arrived' = arrived + 1
        /\ dma_rx' = (IF dma_rx = ETH_NUM_RX_DESCRIPTORS - 1 THEN 0 ELSE dma_rx + 1)
        /\ rx_own \in [Rx -> {"cpu", "dma"}] /\ rx_no \in [Rx -> Nat]
    BY <1>1 DEF RingTypes, DmaReceive, RxLink
  <1>3. Rx = 0..(ETH_NUM_RX_DESCRIPTORS - 1) /\ ETH_NUM_RX_DESCRIPTORS \in Nat \ {0}
    BY RingAssumption DEF Rx
  <1>4. Agrees'
    <2>1. \A i \in Rx : rx_own'[i] = IF i = dma_rx THEN "cpu" ELSE rx_own[i]
      BY <1>2
    <2> QED BY <1>1, <1>2, <1>3, <2>1 DEF Agrees, Ready
  <1>5. InTurn'
    <2> SUFFICES ASSUME NEW i \in Rx, rx_own'[i] = "cpu"
                 PROVE  rx_no'[i] = arrived' + 1 - Left(i)'
      BY DEF InTurn
    <2>1. CASE i = dma_rx
      BY <1>2, <1>3, <2>1, <1>1 DEF Left
    <2>2. CASE i # dma_rx
      <3>1. rx_no'[i] = rx_no[i] /\ rx_own[i] = "cpu"
        BY <1>2, <2>2
      <3>2. rx_no[i] = arrived + 1 - Left(i)
        BY <1>1, <3>1 DEF InTurn
      <3>3. Left(i)' = Left(i) + 1 /\ Left(i) \in Int
        BY <1>2, <1>3, <2>2 DEF Left
      <3> QED BY <1>1, <1>2, <3>1, <3>2, <3>3
    <2> QED BY <2>1, <2>2
  <1> QED BY <1>4, <1>5

(* What eth_rx does to the ring: it takes the oldest frame. *)
LEMMA TakeKeepsRing ==
  ASSUME RingInv, Ready, eth_rx
  PROVE  /\ Agrees' /\ InTurn' /\ ~RingFull'
         /\ CpuOwned # {} /\ Taken' = rx_no[eth_rx_desc_index]
         /\ Taken + 1 = rx_no[eth_rx_desc_index] /\ Taken < arrived
         /\ frame'.no = Taken'
  <1>1. /\ RingTypes /\ Agrees /\ InTurn /\ arrived \in Nat /\ HasFrame
        /\ UNCHANGED <<ip, dma_rx, arrived, rx_no>>
    BY DEF RingInv, TypeOK, HistoryTypes, eth_rx, ipVars, callVars, dmaVars, rxHistory
  <1>2. /\ dma_rx \in Rx /\ eth_rx_desc_index \in Rx
        /\ rx_own[eth_rx_desc_index] = "cpu"
        /\ rx_own' = [rx_own EXCEPT ![eth_rx_desc_index] = "dma"]
        /\ eth_rx_desc_index' = (IF eth_rx_desc_index + 1 >= ETH_NUM_RX_DESCRIPTORS
                                   THEN 0 ELSE eth_rx_desc_index + 1)
        /\ rx_own \in [Rx -> {"cpu", "dma"}] /\ rx_no \in [Rx -> Nat]
    BY <1>1 DEF RingTypes, eth_rx, HasFrame, NextRx
  <1>3. Rx = 0..(ETH_NUM_RX_DESCRIPTORS - 1) /\ ETH_NUM_RX_DESCRIPTORS \in Nat \ {0}
    BY RingAssumption DEF Rx
  <1>4. \A i \in Rx : rx_own'[i] = IF i = eth_rx_desc_index THEN "dma" ELSE rx_own[i]
    BY <1>2
  <1>5. Agrees'
    BY <1>1, <1>2, <1>3, <1>4 DEF Agrees, Ready
  <1>6. InTurn'
    BY <1>1, <1>2, <1>4 DEF InTurn, Left
  <1>7. frame'.no = rx_no[eth_rx_desc_index]
    BY <1>1 DEF eth_rx
  <1>8. ~RingFull'
    BY <1>2, <1>4 DEF RingFull, CpuOwned
  <1>9. /\ rx_no[eth_rx_desc_index] = arrived + 1 - Left(eth_rx_desc_index)
        /\ rx_no[eth_rx_desc_index] \in Nat
        /\ Left(eth_rx_desc_index) \in Nat \ {0}
    BY <1>1, <1>2, <1>3 DEF InTurn, Left
  <1>10. /\ CpuOwned # {} /\ Taken + 1 = rx_no[eth_rx_desc_index]
        /\ Taken < arrived
    <2>1. CpuOwned # {} /\ Taken = rx_no[eth_rx_desc_index] - 1
      BY <1>2 DEF CpuOwned, Taken
    <2> QED BY <1>1, <1>9, <2>1
  <1>11. CASE CpuOwned' = {}
    <2>1. \A i \in Rx : rx_own'[i] # "cpu"
      BY <1>11 DEF CpuOwned
    <2>2. eth_rx_desc_index' = dma_rx
      <3>1. eth_rx_desc_index' \in Rx /\ rx_own'[eth_rx_desc_index'] # "cpu"
        BY <1>2, <1>3, <2>1
      <3>2. CASE eth_rx_desc_index' < dma_rx
        <4>1. \A i \in Rx : rx_own'[i] = "cpu" <=> eth_rx_desc_index' <= i /\ i < dma_rx
          BY <1>1, <1>5, <3>2 DEF Agrees, Ready
        <4> QED BY <1>3, <3>1, <3>2, <4>1
      <3>3. CASE dma_rx < eth_rx_desc_index'
        <4>1. \A i \in Rx : rx_own'[i] = "cpu" <=> i < dma_rx \/ eth_rx_desc_index' <= i
          BY <1>1, <1>5, <3>3 DEF Agrees, Ready
        <4> QED BY <1>3, <3>1, <3>3, <4>1
      <3> QED BY <1>2, <1>3, <3>1, <3>2, <3>3
    <2>3. Left(eth_rx_desc_index) = 1
      BY <1>2, <1>3, <2>2 DEF Left
    <2>4. Taken' = arrived /\ rx_no[eth_rx_desc_index] = arrived
      BY <1>1, <1>9, <1>11, <2>3 DEF Taken
    <2> QED BY <1>1, <1>5, <1>6, <1>8, <1>10, <1>9, <1>7, <2>3, <2>4
  <1>12. CASE CpuOwned' # {}
    <2>1. PICK k \in Rx : rx_own'[k] = "cpu"
      BY <1>12 DEF CpuOwned
    <2>2. eth_rx_desc_index' # dma_rx
      BY <1>1, <1>2, <1>4, <1>5, <2>1 DEF Agrees, Ready
    <2>3. eth_rx_desc_index' \in Rx /\ rx_own'[eth_rx_desc_index'] = "cpu"
      BY <1>1, <1>2, <1>3, <1>5, <2>2 DEF Agrees, Ready
    <2>4. rx_no[eth_rx_desc_index'] = arrived + 1 - Left(eth_rx_desc_index')
      BY <1>1, <1>6, <2>3 DEF InTurn, Left, Ready
    <2>5. Left(eth_rx_desc_index') = Left(eth_rx_desc_index) - 1
      BY <1>2, <1>3, <2>2 DEF Left
    <2>6. Left(eth_rx_desc_index) \in Nat \ {0}
      BY <1>2, <1>3 DEF Left
    <2>7. Taken' = rx_no[eth_rx_desc_index'] - 1
      BY <1>1, <1>12 DEF Taken, Ready
    <2> QED BY <1>1, <1>5, <1>6, <1>8, <1>10, <1>9, <1>7, <2>4, <2>5, <2>6, <2>7
  <1> QED BY <1>11, <1>12

(* eth_init gives the whole ring to the engine. *)
LEMMA InitKeepsRing ==
  ASSUME RingInv, xNetworkInterfaceInitialise
  PROVE  /\ Agrees' /\ InTurn' /\ ~RingFull' /\ CpuOwned' = {}
         /\ Taken' = Taken /\ UNCHANGED arrived
  <1>1. /\ \A i \in Rx : rx_own'[i] = "dma"
        /\ eth_rx_desc_index' = 0 /\ dma_rx' = 0
        /\ UNCHANGED arrived /\ ~Ready
    BY DEF xNetworkInterfaceInitialise, rxHistory, Ready
  <1>2. CpuOwned' = {} /\ ~RingFull'
    BY <1>1, Indices DEF CpuOwned, RingFull
  <1>3. Taken' = Taken
    BY <1>1, <1>2 DEF Taken
  <1>4. Agrees'
    BY <1>1 DEF Agrees
  <1>5. InTurn'
    BY <1>1 DEF InTurn
  <1> QED BY <1>1, <1>2, <1>3, <1>4, <1>5

(* A step that leaves the receive ring alone. *)
RingSame ==
  /\ UNCHANGED <<rx_own, rx_no, eth_rx_desc_index, dma_rx, arrived>>
  /\ Ready' = Ready
(* Only three actions touch the ring. *)
LEMMA OthersKeepRing ==
  ASSUME [Next]_vars, ~DmaReceive, ~eth_rx, ~xNetworkInterfaceInitialise
  PROVE  RingSame
  BY DEF Next, DmaNext, EmacNext, IpNext, vars, RingSame, Ready, DmaTransmit,
         eth_isr, EmacTake, eth_rx_size, EmacGetBuffer, EmacSend, IpTake,
         IpRelease, IpGrow, IpGrown, IpReply, IpAgain, IpOutput, IpPseudo,
         StartTx, EthTxCopy, EthTxFill, ReleaseAfterSend, dmaVars,
         rxVars, txVars, emacVars, ipVars, callVars, rxHistory, txHistory

(* What is said of the ring then stays. *)
LEMMA RingSameSame ==
  ASSUME RingSame
  PROVE  /\ Agrees' = Agrees /\ InTurn' = InTurn /\ Taken' = Taken
         /\ CpuOwned' = CpuOwned
  <1>1. CpuOwned' = CpuOwned
    BY DEF RingSame, CpuOwned
  <1>2. Taken' = Taken
    BY <1>1 DEF RingSame, Taken
  <1>3. Agrees' = Agrees
    BY DEF RingSame, Agrees
  <1>4. InTurn' = InTurn
    BY DEF RingSame, InTurn, Left
  <1> QED BY <1>1, <1>2, <1>3, <1>4

(* The EMAC task copies only after eth_init. *)
LEMMA CopyIsReady == TypeOK /\ eth_rx => Ready
  BY DEF TypeOK, eth_rx, Ready

(* The strengthening of RingAgrees holds at first and is kept. *)
LEMMA RingInit == Init => RingInv
  BY TypeInit DEF Init, RingInv, Agrees, InTurn, Ready
(* Every step keeps it. *)
LEMMA RingInductive == RingInv /\ [Next]_vars => RingInv'
  <1> SUFFICES ASSUME RingInv, [Next]_vars PROVE RingInv'
    OBVIOUS
  <1>1. TypeOK'
    BY TypeInductive DEF RingInv
  <1>2. CASE DmaReceive
    BY <1>1, <1>2, ReceiveKeepsRing DEF RingInv
  <1>3. CASE eth_rx
    BY <1>1, <1>3, TakeKeepsRing, CopyIsReady DEF RingInv
  <1>4. CASE xNetworkInterfaceInitialise
    BY <1>1, <1>4, InitKeepsRing DEF RingInv
  <1>5. CASE ~DmaReceive /\ ~eth_rx /\ ~xNetworkInterfaceInitialise
    BY <1>1, <1>5, OthersKeepRing, RingSameSame DEF RingInv
  <1> QED BY <1>2, <1>3, <1>4, <1>5

(* The driver and the DMA engine never disagree about the receive ring:    *)
(* eth_rx_desc_index and the ownership bits tell the same story.           *)
THEOREM RingCorrect == Spec => []RingAgrees
  <1>1. RingInv => RingAgrees
    BY AgreesIsRingAgrees DEF RingInv
  <1> QED BY <1>1, RingInit, RingInductive, PTL DEF Spec
-----------------------------------------------------------------------------
(* A good frame in a full ring always has its interrupt pending, its       *)
(* notification counted, or the EMAC task on its way.                      *)
Woken ==
  Ready /\ RingFull /\ ~rx_bad[eth_rx_desc_index] /\ ~starved
    => irq \/ notified > 0 \/ emac \in {"size", "get", "copy"}
WokenInv == RingInv /\ Woken

(* Woken is kept by every step: one step per action. *)
LEMMA WokenInductive == WokenInv /\ [Next]_vars => WokenInv'
  <1> SUFFICES ASSUME WokenInv, [Next]_vars PROVE Woken'
    BY RingInductive DEF WokenInv
  <1>a. RingInv /\ TypeOK /\ Woken
    BY DEF WokenInv, RingInv
  <1>b. notified \in Nat /\ eth_rx_desc_index \in Rx
    BY <1>a DEF TypeOK, TaskTypes, RingTypes
  <1>1. CASE DmaReceive
    BY <1>1 DEF DmaReceive, Woken
  <1>2. CASE eth_rx
    BY <1>2, <1>a, TakeKeepsRing, CopyIsReady DEF Woken
  <1>3. CASE xNetworkInterfaceInitialise
    BY <1>3, <1>a, InitKeepsRing DEF Woken
  <1>4. CASE eth_isr
    BY <1>4, <1>b DEF eth_isr, Woken
  <1>5. CASE EmacTake
    BY <1>5 DEF EmacTake, EmacGoto, Woken
  <1>6. CASE eth_rx_size
    <2>1. /\ UNCHANGED <<ip, rx_own, rx_bad, eth_rx_desc_index, starved>>
          /\ emac' = IF HasFrame THEN "get" ELSE "take"
      BY <1>6 DEF eth_rx_size, EmacGoto, ipVars, callVars, rxVars
    <2>2. RingFull => rx_own[eth_rx_desc_index] = "cpu"
      BY <1>b DEF RingFull, CpuOwned
    <2>3. RingFull' = RingFull /\ Ready' = Ready
      BY <2>1 DEF RingFull, CpuOwned, Ready
    <2> QED BY <2>1, <2>2, <2>3 DEF HasFrame, Woken
  <1>7. CASE EmacGetBuffer
    <2>1. CASE free > 0
      BY <1>7, <2>1 DEF EmacGetBuffer, EmacGoto, Woken
    <2>2. CASE ~(free > 0)
      <3>1. free = 0 /\ starved' = (free = 0)
        BY <1>7, <1>a, <2>2 DEF EmacGetBuffer, TypeOK, TaskTypes
      <3>2. starved'
        BY <3>1
      <3> QED BY <3>2 DEF Woken
    <2> QED BY <2>1, <2>2
  <1>8. CASE EmacSend
    <2>1. /\ UNCHANGED <<ip, rx_own, rx_bad, eth_rx_desc_index, irq, notified, starved>>
          /\ emac = "send"
      BY <1>8 DEF EmacSend, ipVars, callVars, rxVars, dmaVars
    <2> QED BY <2>1, <1>a DEF Woken, RingFull, CpuOwned, Ready
  <1>9. CASE \/ DmaTransmit \/ IpTake \/ IpRelease \/ IpGrow \/ IpGrown
             \/ IpReply \/ IpAgain \/ IpOutput \/ IpPseudo \/ EthTxCopy \/ EthTxFill \/ UNCHANGED vars
    <2>1. /\ UNCHANGED <<rx_own, rx_bad, eth_rx_desc_index, irq, notified, emac, starved>>
          /\ Ready' = Ready
      BY <1>9 DEF vars, Ready, DmaTransmit, IpTake, IpRelease, IpGrow, IpGrown,
                  IpReply, IpAgain, IpOutput, IpPseudo, StartTx, EthTxCopy, EthTxFill,
                  ReleaseAfterSend, dmaVars, rxVars, emacVars, ipVars, callVars
    <2> QED BY <2>1, <1>a DEF Woken, RingFull, CpuOwned
  <1> QED BY <1>1, <1>2, <1>3, <1>4, <1>5, <1>6, <1>7, <1>8, <1>9
          DEF Next, DmaNext, EmacNext, IpNext

(* No interrupt is lost between the handler and the task: the driver goes  *)
(* deaf only over a bad frame, or one that found no network buffer.        *)
THEOREM NoLostWakeup == Spec => []DeafOnlyOver
  <1>1. Init => WokenInv
    BY RingInit DEF Init, WokenInv, Woken, Ready
  <1>2. WokenInv => DeafOnlyOver
    <2> SUFFICES ASSUME WokenInv, Deaf PROVE rx_bad[eth_rx_desc_index] \/ starved
      BY DEF DeafOnlyOver
    <2> QED BY DEF Deaf, WokenInv, Woken
  <1> QED BY <1>1, <1>2, WokenInductive, PTL DEF Spec
-----------------------------------------------------------------------------
(* The network buffers in the hands of the EMAC task.                      *)
EmacHolds == IF emac \in {"copy", "send"} THEN 1 ELSE 0

(* Those in the hands of the IP task, wherever it is: two while a larger   *)
(* buffer replaces the frame's, none while it waits for its next frame, and *)
(* what the driver is to release it does have.                             *)
Holding ==
  /\ ip \in {"init", "idle"} => held = 0
  /\ ip \in {"process", "keep"} => held = 1
  /\ ip = "grow" => held = 2
  /\ ip \in {"wait", "fill"} =>
       held \in {0, 1} /\ (xReleaseAfterSend => held = 1)
BalanceInv == TypeOK /\ Holding /\ BuffersBalance

(* Every step leaves the IP task with what it should hold. *)
LEMMA HoldingInductive == TypeOK /\ Holding /\ [Next]_vars => Holding'
  <1> SUFFICES ASSUME TypeOK, Holding, [Next]_vars PROVE Holding'
    OBVIOUS
  <1>a. held \in Int /\ xReleaseAfterSend \in BOOLEAN
    BY DEF TypeOK, TaskTypes
  <1>1. CASE xNetworkInterfaceInitialise \/ IpTake
    BY <1>1, <1>a DEF xNetworkInterfaceInitialise, IpTake, Holding
  <1>2. CASE IpRelease \/ IpGrow \/ IpGrown
    BY <1>2, <1>a DEF IpRelease, IpGrow, IpGrown, Holding
  <1>3. CASE IpReply \/ IpAgain \/ IpOutput \/ IpPseudo
    <2>1. /\ ip' = "wait" /\ held' \in {0, 1}
          /\ xReleaseAfterSend' => held' = 1
      BY <1>3, <1>a DEF IpReply, IpAgain, IpOutput, IpPseudo, StartTx, Holding
    <2> QED BY <2>1 DEF Holding
  <1>4. CASE EthTxCopy
    BY <1>4 DEF EthTxCopy, Holding
  <1>5. CASE EthTxFill
    <2>1. /\ held \in {0, 1} /\ (xReleaseAfterSend => held = 1)
          /\ held' = IF xReleaseAfterSend THEN held - 1 ELSE held
          /\ ip' = IF held' > 0 THEN "keep" ELSE "idle"
      BY <1>5 DEF EthTxFill, ReleaseAfterSend, Holding
    <2>2. \/ held' = 1 /\ ip' = "keep"
          \/ held' = 0 /\ ip' = "idle"
      BY <2>1, <1>a
    <2> QED BY <2>2 DEF Holding
  <1>6. CASE DmaNext \/ eth_isr \/ EmacNext \/ UNCHANGED vars
    <2>1. UNCHANGED <<ip, held, xReleaseAfterSend>>
      BY <1>6 DEF DmaNext, DmaReceive, DmaTransmit, eth_isr, EmacNext, EmacTake,
                  eth_rx_size, EmacGetBuffer, eth_rx, EmacSend, vars, ipVars, callVars
    <2> QED BY <2>1 DEF Holding
  <1> QED BY <1>1, <1>2, <1>3, <1>4, <1>5, <1>6 DEF Next, IpNext

(* Every step keeps the balance. *)
LEMMA BalanceInductive == BalanceInv /\ [Next]_vars => BalanceInv'
  <1> SUFFICES ASSUME BalanceInv, [Next]_vars PROVE BuffersBalance'
    BY TypeInductive, HoldingInductive DEF BalanceInv
  <1> DEFINE queued == Len(event_queue)
  <1>a. NumBuffers = free + queued + held + EmacHolds
    BY DEF BalanceInv, BuffersBalance, EmacHolds
  <1>b. /\ free \in Nat /\ event_queue \in Seq(Frame) /\ queued \in Nat
        /\ frame \in Frame /\ held \in Int /\ EmacHolds \in Int
    BY DEF BalanceInv, TypeOK, TaskTypes, EmacHolds
  <1>c. Holding /\ Holding'
    BY HoldingInductive DEF BalanceInv
  <1>d. SUFFICES NumBuffers = (free + queued + held + EmacHolds)'
    BY <1>c DEF BuffersBalance, EmacHolds, Holding
  <1>1. CASE EmacGetBuffer
    BY <1>1, <1>a, <1>b DEF EmacGetBuffer, EmacGoto, EmacHolds, callVars
  <1>2. CASE EmacSend
    <2>1. /\ EmacHolds = 1 /\ EmacHolds' = 0 /\ UNCHANGED held
      BY <1>2 DEF EmacSend, EmacGoto, EmacHolds, callVars
    <2>2. CASE queued < EventQueueLength
      <3>1. queued' = queued + 1 /\ UNCHANGED free
        BY <1>2, <1>b, <2>2 DEF EmacSend
      <3> QED BY <1>a, <1>b, <2>1, <3>1
    <2>3. CASE ~(queued < EventQueueLength)
      <3>1. free' = free + 1 /\ UNCHANGED event_queue
        BY <1>2, <2>3 DEF EmacSend
      <3> QED BY <1>a, <1>b, <2>1, <3>1
    <2> QED BY <2>2, <2>3
  <1>3. CASE IpTake
    <2>1. /\ queued' = queued - 1 /\ held = 0 /\ held' = 1
          /\ UNCHANGED <<free, emac>>
      BY <1>3, <1>b, <1>c DEF IpTake, Holding, emacVars
    <2> QED BY <1>a, <1>b, <2>1 DEF EmacHolds
  <1>4. CASE IpRelease \/ IpGrow \/ IpGrown \/ IpOutput
    <2>1. /\ \/ free' = free + 1 /\ held' = held - 1
             \/ free' = free - 1 /\ held' = held + 1
          /\ UNCHANGED <<event_queue, emac>>
      <3>1. CASE IpRelease \/ IpGrow \/ IpGrown
        BY <1>b, <3>1 DEF IpRelease, IpGrow, IpGrown, emacVars
      <3>2. CASE IpOutput
        <4>1. /\ free' = free - 1 /\ held' = 1 /\ ip = "idle"
              /\ UNCHANGED <<event_queue, emac>>
          BY <3>2 DEF IpOutput, emacVars
        <4>2. held = 0
          BY <1>c, <4>1 DEF Holding
        <4> QED BY <1>b, <4>1, <4>2
      <3> QED BY <1>4, <3>1, <3>2
    <2>2. EmacHolds' = EmacHolds /\ queued' = queued
      BY <2>1 DEF EmacHolds
    <2> QED BY <1>a, <1>b, <2>1, <2>2
  <1>5. CASE EthTxFill
    <2>1. CASE xReleaseAfterSend
      BY <1>5, <1>a, <1>b, <2>1 DEF EthTxFill, ReleaseAfterSend, EmacHolds, emacVars
    <2>2. CASE ~xReleaseAfterSend
      BY <1>5, <1>a, <1>b, <2>2 DEF EthTxFill, ReleaseAfterSend, EmacHolds, emacVars
    <2> QED BY <2>1, <2>2
  <1>6. CASE \/ EmacTake \/ eth_rx_size \/ eth_rx \/ DmaNext \/ eth_isr \/ UNCHANGED vars
    <2>1. UNCHANGED <<free, event_queue, held>> /\ EmacHolds' = EmacHolds
      BY <1>6 DEF EmacTake, eth_rx_size, eth_rx, DmaNext, DmaReceive, DmaTransmit,
                  eth_isr, vars, EmacGoto, EmacHolds, emacVars, ipVars, callVars
    <2> QED BY <1>a, <2>1
  <1>7. CASE \/ xNetworkInterfaceInitialise \/ IpReply \/ IpAgain \/ IpPseudo
             \/ EthTxCopy
    <2>1. UNCHANGED <<free, event_queue, held, emac>>
      BY <1>7 DEF xNetworkInterfaceInitialise, IpReply, IpAgain, IpPseudo,
                  EthTxCopy, emacVars
    <2> QED BY <1>a, <2>1 DEF EmacHolds
  <1> QED BY <1>1, <1>2, <1>3, <1>4, <1>5, <1>6, <1>7
          DEF Next, EmacNext, IpNext

(* No network buffer is leaked and none is released twice, whoever has to  *)
(* release it: the driver (xReleaseAfterSend), the sender who kept it, or  *)
(* nobody, because it is not one of the pool's.                            *)
THEOREM BalanceCorrect == Spec => []BuffersBalance
  <1>1. Init => BalanceInv
    BY BufferAssumption, TypeInit DEF Init, BalanceInv, Holding, BuffersBalance
  <1>2. BalanceInv => BuffersBalance
    BY DEF BalanceInv
  <1> QED BY <1>1, <1>2, BalanceInductive, PTL DEF Spec
-----------------------------------------------------------------------------
(* The frame the EMAC task is about to hand over is the last one taken.    *)
HeldIsTaken == emac = "send" => frame.no = Taken
QueueInv == RingInv /\ HeldIsTaken

(* A frame that arrives finds room, and is not yet taken. *)
LEMMA ReceiveIsCome ==
  ASSUME RingInv, DmaReceive
  PROVE  arrived - Taken < ETH_NUM_RX_DESCRIPTORS /\ Taken' = Taken
  <1>1. /\ RingTypes /\ Agrees /\ InTurn /\ arrived \in Nat /\ Ready
        /\ UNCHANGED <<ip, eth_rx_desc_index>>
    BY DEF RingInv, TypeOK, HistoryTypes, DmaReceive, ipVars, callVars, Ready
  <1>2. /\ dma_rx \in Rx /\ eth_rx_desc_index \in Rx /\ rx_own[dma_rx] = "dma"
        /\ rx_own' = [rx_own EXCEPT ![dma_rx] = "cpu"]
        /\ rx_no' = [rx_no EXCEPT ![dma_rx] = arrived + 1]
        /\ arrived' = arrived + 1
        /\ rx_own \in [Rx -> {"cpu", "dma"}] /\ rx_no \in [Rx -> Nat]
    BY <1>1 DEF RingTypes, DmaReceive
  <1>3. Rx = 0..(ETH_NUM_RX_DESCRIPTORS - 1) /\ ETH_NUM_RX_DESCRIPTORS \in Nat \ {0}
    BY RingAssumption DEF Rx
  <1>4. CpuOwned' # {} /\ Ready'
    BY <1>1, <1>2 DEF CpuOwned, Ready
  <1>5. Taken' = rx_no'[eth_rx_desc_index] - 1
    BY <1>1, <1>4 DEF Taken
  <1>6. CASE CpuOwned = {}
    <2>1. \A i \in Rx : rx_own[i] = "dma"
      BY <1>2, <1>6 DEF CpuOwned
    <2>2. eth_rx_desc_index = dma_rx
      <3>1. CASE eth_rx_desc_index < dma_rx
        <4>1. rx_own[eth_rx_desc_index] = "cpu"
          BY <1>1, <1>2, <1>3, <3>1 DEF Agrees
        <4> QED BY <1>2, <2>1, <4>1
      <3>2. CASE dma_rx < eth_rx_desc_index
        <4>1. rx_own[eth_rx_desc_index] = "cpu"
          BY <1>1, <1>2, <1>3, <3>2 DEF Agrees
        <4> QED BY <1>2, <2>1, <4>1
      <3> QED BY <1>2, <1>3, <3>1, <3>2
    <2>3. Taken = arrived /\ rx_no'[eth_rx_desc_index] = arrived + 1
      BY <1>2, <1>6, <2>2 DEF Taken
    <2> QED BY <1>1, <1>3, <1>5, <2>3
  <1>7. CASE CpuOwned # {}
    <2>1. PICK k \in Rx : rx_own[k] = "cpu"
      BY <1>7 DEF CpuOwned
    <2>2. eth_rx_desc_index # dma_rx
      BY <1>1, <1>2, <2>1 DEF Agrees
    <2>3. rx_own[eth_rx_desc_index] = "cpu"
      BY <1>1, <1>2, <1>3, <2>2 DEF Agrees
    <2>4. rx_no[eth_rx_desc_index] = arrived + 1 - Left(eth_rx_desc_index)
      BY <1>1, <1>2, <2>3 DEF InTurn
    <2>5. /\ Left(eth_rx_desc_index) \in Int
          /\ Left(eth_rx_desc_index) < ETH_NUM_RX_DESCRIPTORS
      BY <1>2, <1>3, <2>2 DEF Left
    <2>6. Taken = rx_no[eth_rx_desc_index] - 1
      BY <1>1, <1>7 DEF Taken
    <2>7. rx_no'[eth_rx_desc_index] = rx_no[eth_rx_desc_index]
      BY <1>2, <2>2
    <2> QED BY <1>1, <1>3, <1>5, <2>4, <2>5, <2>6, <2>7
  <1> QED BY <1>6, <1>7

(* The initial state maps to an empty queue. *)
LEMMA QueueInitially == Init => QueueInv /\ Queue!QueueInit
  <1> SUFFICES ASSUME Init PROVE QueueInv /\ Queue!QueueInit
    OBVIOUS
  <1>1. RingInv /\ Taken = 0 /\ emac = "take"
    BY RingInit DEF Init, Taken, Ready
  <1> QED BY <1>1 DEF Init, QueueInv, HeldIsTaken, Queue!QueueInit

(* Every step is a step of the queue, or leaves it alone. *)
LEMMA QueueStep ==
  QueueInv /\ [Next]_vars => QueueInv' /\ [Queue!QueueNext]_Queue!queueVars
  <1> SUFFICES ASSUME QueueInv, [Next]_vars
               PROVE  HeldIsTaken' /\ [Queue!QueueNext]_Queue!queueVars
    BY RingInductive DEF QueueInv
  <1>a. RingInv /\ TypeOK /\ HeldIsTaken /\ arrived \in Nat
    BY DEF QueueInv, RingInv, TypeOK, HistoryTypes
  <1>1. CASE DmaReceive
    <2>1. /\ arrived' = arrived + 1 /\ UNCHANGED <<emac, frame, handed>>
          /\ arrived - Taken < ETH_NUM_RX_DESCRIPTORS /\ Taken' = Taken
      BY <1>1, <1>a, ReceiveIsCome DEF DmaReceive, emacVars
    <2> QED BY <2>1, <1>a DEF HeldIsTaken, Queue!Come, Queue!QueueNext
  <1>2. CASE eth_rx
    <2>1. /\ Taken' = Taken + 1 /\ Taken < arrived /\ frame'.no = Taken'
      BY <1>2, <1>a, TakeKeepsRing, CopyIsReady
    <2>2. emac = "copy" /\ emac' = "send" /\ UNCHANGED <<arrived, handed>>
      BY <1>2 DEF eth_rx, EmacGoto, rxHistory
    <2> QED BY <2>1, <2>2 DEF HeldIsTaken, Queue!Take, Queue!QueueNext
  <1>3. CASE EmacSend
    <2>1. Taken' = Taken /\ UNCHANGED arrived
      BY <1>3, OthersKeepRing, RingSameSame
         DEF RingSame, EmacSend, DmaReceive, eth_rx, xNetworkInterfaceInitialise,
             IpMayRun, emacVars, EmacGoto
    <2>2. /\ emac = "send" /\ emac' = "take" /\ frame.no = Taken
          /\ handed' = Append(handed, Taken) \/ handed' = handed
      BY <1>3, <1>a DEF EmacSend, EmacGoto, HeldIsTaken
    <2> QED BY <2>1, <2>2 DEF HeldIsTaken, Queue!Give, Queue!QueueNext
  <1>4. CASE xNetworkInterfaceInitialise
    <2>1. /\ Taken' = Taken /\ UNCHANGED <<arrived, emac, handed>>
          /\ emac = "take"
      BY <1>4, <1>a, InitKeepsRing
         DEF xNetworkInterfaceInitialise, IpMayRun, emacVars, rxHistory
    <2> QED BY <2>1 DEF HeldIsTaken, Queue!queueVars
  <1>5. CASE ~DmaReceive /\ ~eth_rx /\ ~EmacSend /\ ~xNetworkInterfaceInitialise
    <2>1. Taken' = Taken /\ UNCHANGED arrived
      BY <1>5, OthersKeepRing, RingSameSame DEF RingSame
    <2>2. /\ UNCHANGED handed /\ (emac = "send" => UNCHANGED frame)
          /\ emac # "send" => emac' # "send"
          /\ emac = "send" => UNCHANGED emac
      BY <1>5 DEF Next, DmaNext, EmacNext, IpNext, vars, DmaTransmit, eth_isr,
                  EmacTake, eth_rx_size, EmacGetBuffer, EmacGoto, IpTake,
                  IpRelease, IpGrow, IpGrown, IpReply, IpAgain, IpOutput,
                  IpPseudo, StartTx, EthTxCopy, EthTxFill, emacVars, rxHistory
    <2>3. (emac' = "send") = (emac = "send")
      BY <2>2
    <2>4. HeldIsTaken'
      BY <2>1, <2>2, <2>3, <1>a DEF HeldIsTaken
    <2>5. UNCHANGED Queue!queueVars
      BY <2>1, <2>2, <2>3 DEF Queue!queueVars
    <2> QED BY <2>4, <2>5
  <1> QED BY <1>1, <1>2, <1>3, <1>4, <1>5

(* The receive ring, its interrupt and the EMAC task implement a queue: a  *)
(* frame that arrived is taken in its turn and handed over at most once.   *)
THEOREM QueueCorrect == Spec => ImplementsQueue
  BY QueueInitially, QueueStep, PTL
     DEF Spec, ImplementsQueue, Queue!QueueSpec

-----------------------------------------------------------------------------
(* A receive descriptor names its own buffer, or, once eth_tx has put the  *)
(* transmit buffer there, the transmit buffer of the same index: so no two *)
(* descriptors ever share a buffer.                                        *)
OwnBuffers ==
  \A i \in Rx : rx_buf[i] = RxBuf(i) \/ (i \in Tx /\ rx_buf[i] = TxBuf(i))
IntactInv == TypeOK /\ OwnBuffers /\ OthersIntact

(* The receive buffers and the transmit buffers are different memory. *)
LEMMA BuffersDiffer ==
  /\ \A i, j : RxBuf(i) # TxBuf(j)
  /\ \A i, j : RxBuf(i) = RxBuf(j) => i = j
  /\ \A i, j : TxBuf(i) = TxBuf(j) => i = j
  BY DEF RxBuf, TxBuf

(* The engine writes the buffer of the descriptor it fills and no other. *)
LEMMA ReceiveKeepsIntact ==
  ASSUME IntactInv, DmaReceive
  PROVE  OwnBuffers' /\ OthersIntact'
  <1>1. /\ Ready /\ Ready' /\ dma_rx \in Rx /\ arrived \in Nat
        /\ rx_own \in [Rx -> {"cpu", "dma"}] /\ rx_no \in [Rx -> Nat]
        /\ mem \in [Bufs -> Int] /\ rx_buf \in [Rx -> Bufs]
    BY DEF IntactInv, TypeOK, RingTypes, HistoryTypes, DmaReceive, Ready, ipVars, callVars
  <1>2. /\ mem' = [mem EXCEPT ![rx_buf[dma_rx]] = arrived + 1]
        /\ rx_no' = [rx_no EXCEPT ![dma_rx] = arrived + 1]
        /\ rx_own' = [rx_own EXCEPT ![dma_rx] = "cpu"]
        /\ rx_buf' = rx_buf
    BY DEF DmaReceive
  <1>3. OwnBuffers'
    BY <1>2 DEF IntactInv, OwnBuffers
  <1>4. ASSUME NEW i \in CpuOwned' \ Tx
        PROVE  mem'[rx_buf'[i]] = rx_no'[i]
    <2>1. i \in Rx /\ i \notin Tx /\ rx_own'[i] = "cpu"
      BY <1>4 DEF CpuOwned
    <2>2. rx_buf[i] = RxBuf(i)
      BY <2>1 DEF IntactInv, OwnBuffers
    <2>3. CASE i = dma_rx
      BY <1>1, <1>2, <2>1, <2>3
    <2>4. CASE i # dma_rx
      <3>1. rx_buf[dma_rx] # rx_buf[i]
        BY <1>1, <2>2, <2>4, BuffersDiffer DEF IntactInv, OwnBuffers
      <3>2. rx_own[i] = "cpu" /\ rx_no'[i] = rx_no[i]
        BY <1>1, <1>2, <2>1, <2>4
      <3>3. mem[rx_buf[i]] = rx_no[i]
        BY <1>1, <2>1, <3>2 DEF IntactInv, OthersIntact, CpuOwned
      <3>4. rx_buf[i] \in Bufs
        BY <1>1, <2>1
      <3> QED BY <1>1, <1>2, <3>1, <3>2, <3>3, <3>4
    <2> QED BY <2>3, <2>4
  <1> QED BY <1>3, <1>4 DEF OthersIntact

(* A step that copies or fills nothing. *)
LEMMA OthersKeepIntact ==
  ASSUME IntactInv, [Next]_vars, ~DmaReceive, ~EthTxCopy, ~EthTxFill,
         ~xNetworkInterfaceInitialise
  PROVE  OwnBuffers' /\ OthersIntact'
  <1>1. /\ UNCHANGED <<mem, rx_buf, rx_no>> /\ Ready' = Ready
    BY DEF Next, DmaNext, EmacNext, IpNext, vars, Ready, DmaTransmit, eth_isr,
           EmacTake, eth_rx_size, EmacGetBuffer, eth_rx, EmacSend, IpTake,
           IpRelease, IpGrow, IpGrown, IpReply, IpAgain, IpOutput, IpPseudo,
           StartTx, dmaVars, rxVars, ipVars, callVars,
           rxHistory
  <1>2. CpuOwned' \subseteq CpuOwned
    <2>1. CASE eth_rx
      <3>1. /\ rx_own \in [Rx -> {"cpu", "dma"}]
            /\ \/ rx_own' = [rx_own EXCEPT ![eth_rx_desc_index] = "dma"]
               \/ rx_own' = rx_own
        BY <2>1 DEF eth_rx, IntactInv, TypeOK, RingTypes
      <3> QED BY <3>1 DEF CpuOwned
    <2>2. CASE ~eth_rx
      <3>1. rx_own' = rx_own
        BY <2>2, OthersKeepRing DEF RingSame
      <3> QED BY <3>1 DEF CpuOwned
    <2> QED BY <2>1, <2>2
  <1> QED BY <1>1, <1>2 DEF IntactInv, OwnBuffers, OthersIntact

(* Every step keeps the buffers apart and the frames in them. *)
LEMMA IntactInductive == IntactInv /\ [Next]_vars => IntactInv'
  <1> SUFFICES ASSUME IntactInv, [Next]_vars PROVE OwnBuffers' /\ OthersIntact'
    BY TypeInductive DEF IntactInv
  <1>a. /\ OwnBuffers /\ OthersIntact
        /\ rx_buf \in [Rx -> Bufs] /\ mem \in [Bufs -> Int]
        /\ eth_tx_desc_index \in Tx
    BY DEF IntactInv, TypeOK, RingTypes
  <1>1. CASE DmaReceive
    BY <1>1, ReceiveKeepsIntact
  <1>2. CASE EthTxCopy
    <2>1. /\ mem' = [mem EXCEPT ![TxBuf(eth_tx_desc_index)] = out]
          /\ UNCHANGED <<rx_own, rx_buf, rx_no>> /\ Ready /\ Ready'
      BY <1>2 DEF EthTxCopy, rxVars, rxHistory, Ready
    <2>2. ASSUME NEW i \in CpuOwned \ Tx PROVE mem'[rx_buf[i]] = mem[rx_buf[i]]
      <3>1. i \in Rx /\ rx_buf[i] = RxBuf(i) /\ rx_buf[i] \in Bufs
        BY <1>a, <2>2 DEF OwnBuffers, CpuOwned
      <3> QED BY <1>a, <2>1, <3>1, BuffersDiffer
    <2>3. CpuOwned' = CpuOwned
      BY <2>1 DEF CpuOwned
    <2> QED BY <1>a, <2>1, <2>2, <2>3 DEF OwnBuffers, OthersIntact
  <1>3. CASE EthTxFill
    <2>1. /\ rx_buf' = [rx_buf EXCEPT ![eth_tx_desc_index] = TxBuf(eth_tx_desc_index)]
          /\ UNCHANGED <<rx_own, mem, rx_no>> /\ Ready /\ Ready'
      BY <1>3 DEF EthTxFill, ReleaseAfterSend, dmaVars, rxHistory, Ready
    <2>2. CpuOwned' = CpuOwned /\ CpuOwned \subseteq Rx
      BY <2>1 DEF CpuOwned
    <2>3. OwnBuffers'
      BY <1>a, <2>1 DEF OwnBuffers
    <2>4. \A i \in CpuOwned \ Tx : rx_buf'[i] = rx_buf[i]
      BY <1>a, <2>1, <2>2
    <2> QED BY <1>a, <2>1, <2>2, <2>3, <2>4 DEF OthersIntact
  <1>4. CASE xNetworkInterfaceInitialise
    <2>1. rx_buf' = [i \in Rx |-> RxBuf(i)] /\ rx_own' = [i \in Rx |-> "dma"]
      BY <1>4 DEF xNetworkInterfaceInitialise
    <2>2. CpuOwned' = {}
      BY <2>1 DEF CpuOwned
    <2> QED BY <2>1, <2>2 DEF OwnBuffers, OthersIntact
  <1>5. CASE /\ ~DmaReceive /\ ~EthTxCopy /\ ~EthTxFill
             /\ ~xNetworkInterfaceInitialise
    BY <1>5, OthersKeepIntact
  <1> QED BY <1>1, <1>2, <1>3, <1>4, <1>5

(* A receive descriptor that shares its index with no transmit descriptor  *)
(* keeps its frame, although eth_tx rewrites the receive descriptors: the  *)
(* buffers of the two rings never get mixed up beyond the index they share. *)
THEOREM IntactCorrect == Spec => []OthersIntact
  <1>1. Init => IntactInv
    BY TypeInit DEF Init, IntactInv, OwnBuffers, OthersIntact, Ready
  <1>2. IntactInv => OthersIntact
    BY DEF IntactInv
  <1> QED BY <1>1, <1>2, IntactInductive, PTL DEF Spec

-----------------------------------------------------------------------------
(* What the engine still has to send, and the frame in the hands of eth_tx. *)
Pending == {i \in Tx : tx_own[i] = "dma"}
InHand == IF ip \in {"wait", "fill"} THEN 1 ELSE 0
(* Every frame is sent, pending or in hand; eth_tx fills only a descriptor *)
(* that the engine has given back, and before eth_init there is none.      *)
Accounted ==
  /\ submitted = Len(line) + Cardinality(Pending) + InHand
  /\ ip = "fill" => tx_own[eth_tx_desc_index] = "cpu"
  /\ ~Ready => Pending = {}

(* The descriptors the engine owns are finitely many. *)
LEMMA PendingFinite ==
  /\ IsFiniteSet(Pending)
  /\ Cardinality(Pending) \in Nat
  <1>1. IsFiniteSet(Tx)
    BY RingAssumption, FS_Interval DEF Tx
  <1>2. Pending \in SUBSET Tx
    BY DEF Pending
  <1> QED BY <1>1, <1>2, FS_Subset, FS_CardinalityType

(* The engine sends one frame, and gives its descriptor back. *)
LEMMA TransmitIsAccounted ==
  ASSUME TypeOK, Accounted, DmaTransmit
  PROVE  Accounted'
  <1>1. /\ dma_tx \in Tx /\ tx_own \in [Tx -> {"cpu", "dma"}]
        /\ tx_own[dma_tx] = "dma"
        /\ tx_own' = [tx_own EXCEPT ![dma_tx] = "cpu"]
        /\ line \in Seq(Int) /\ mem[TxBuf(dma_tx)] \in Int
        /\ line' = Append(line, mem[TxBuf(dma_tx)])
        /\ UNCHANGED <<submitted, ip, eth_tx_desc_index>>
        /\ eth_tx_desc_index \in Tx /\ submitted \in Nat
    BY Indices DEF TypeOK, RingTypes, HistoryTypes, DmaTransmit, ipVars, callVars
  <1>2. dma_tx \in Pending /\ Pending' = Pending \ {dma_tx}
    BY <1>1 DEF Pending
  <1>3. Cardinality(Pending') = Cardinality(Pending) - 1
    BY <1>2, PendingFinite, FS_RemoveElement
  <1>4. Len(line') = Len(line) + 1 /\ Len(line) \in Nat
    BY <1>1
  <1>5. InHand' = InHand /\ InHand \in Nat /\ Ready' = Ready
    BY <1>1 DEF InHand, Ready
  <1>6. submitted' = Len(line') + Cardinality(Pending') + InHand'
    BY <1>1, <1>3, <1>4, <1>5, PendingFinite DEF Accounted
  <1>7. ip' = "fill" => tx_own'[eth_tx_desc_index'] = "cpu"
    BY <1>1 DEF Accounted
  <1> QED BY <1>2, <1>5, <1>6, <1>7 DEF Accounted

(* eth_tx gives a descriptor, which is its own, to the engine. *)
LEMMA FillIsAccounted ==
  ASSUME TypeOK, Accounted, EthTxFill
  PROVE  Accounted'
  <1>1. /\ eth_tx_desc_index \in Tx /\ tx_own \in [Tx -> {"cpu", "dma"}]
        /\ tx_own[eth_tx_desc_index] = "cpu"
        /\ tx_own' = [tx_own EXCEPT ![eth_tx_desc_index] = "dma"]
        /\ ip = "fill" /\ ip' \in {"idle", "keep"} /\ UNCHANGED <<submitted, line>>
        /\ line \in Seq(Int) /\ submitted \in Nat
    BY DEF TypeOK, RingTypes, HistoryTypes, EthTxFill, ReleaseAfterSend,
           Accounted, txHistory
  <1>2. /\ eth_tx_desc_index \notin Pending
        /\ Pending' = Pending \cup {eth_tx_desc_index}
    BY <1>1 DEF Pending
  <1>3. Cardinality(Pending') = Cardinality(Pending) + 1
    BY <1>2, PendingFinite, FS_AddElement
  <1>4. InHand = 1 /\ InHand' = 0 /\ Len(line) \in Nat /\ Len(line') = Len(line)
    BY <1>1 DEF InHand
  <1>5. submitted' = Len(line') + Cardinality(Pending') + InHand'
    BY <1>1, <1>3, <1>4, PendingFinite DEF Accounted
  <1> QED BY <1>1, <1>5 DEF Accounted, Ready

(* eth_tx is entered with the next frame. *)
LEMMA StartIsAccounted ==
  ASSUME TypeOK, Accounted, NEW release, StartTx(release),
         ip \in {"idle", "process", "keep"}, UNCHANGED <<tx_own, line>>
  PROVE  Accounted'
  <1>1. /\ submitted' = submitted + 1 /\ ip' = "wait" /\ submitted \in Nat
        /\ Len(line) \in Nat /\ Len(line') = Len(line)
    BY DEF StartTx, TypeOK, HistoryTypes
  <1>2. InHand = 0 /\ InHand' = 1 /\ Pending' = Pending
    BY <1>1 DEF InHand, Pending
  <1>3. submitted' = Len(line') + Cardinality(Pending') + InHand'
    BY <1>1, <1>2, PendingFinite DEF Accounted
  <1> QED BY <1>1, <1>3 DEF Accounted, Ready

(* Every step keeps the account. *)
LEMMA AccountedInductive == TypeOK /\ Accounted /\ [Next]_vars => Accounted'
  <1> SUFFICES ASSUME TypeOK, Accounted, [Next]_vars PROVE Accounted'
    OBVIOUS
  <1>1. CASE DmaTransmit
    BY <1>1, TransmitIsAccounted
  <1>2. CASE EthTxFill
    BY <1>2, FillIsAccounted
  <1>3. CASE IpReply \/ IpAgain \/ IpOutput \/ IpPseudo
    <2>1. /\ \E release \in BOOLEAN : StartTx(release)
          /\ ip \in {"idle", "process", "keep"} /\ UNCHANGED <<tx_own, line>>
      BY <1>3 DEF IpReply, IpAgain, IpOutput, IpPseudo
    <2> QED BY <2>1, StartIsAccounted
  <1>4. CASE EthTxCopy
    <2>1. /\ ip = "wait" /\ ip' = "fill" /\ tx_own[eth_tx_desc_index] = "cpu"
          /\ UNCHANGED <<tx_own, eth_tx_desc_index, submitted, line>>
      BY <1>4 DEF EthTxCopy, txVars, txHistory
    <2>2. InHand' = InHand /\ Pending' = Pending
      BY <2>1 DEF InHand, Pending
    <2> QED BY <2>1, <2>2 DEF Accounted, Ready
  <1>5. CASE xNetworkInterfaceInitialise
    <2>1. /\ ip = "init" /\ ip' = "idle" /\ tx_own' = [i \in Tx |-> "cpu"]
          /\ UNCHANGED <<submitted, line>>
      BY <1>5 DEF xNetworkInterfaceInitialise, txHistory
    <2>2. InHand' = InHand /\ Pending = {} /\ Pending' = {}
      BY <2>1 DEF InHand, Pending, Accounted, Ready
    <2> QED BY <2>1, <2>2 DEF Accounted, Ready
  <1>6. CASE \/ DmaReceive \/ eth_isr \/ EmacNext \/ IpTake \/ IpRelease
             \/ IpGrow \/ IpGrown \/ UNCHANGED vars
    <2>1. /\ UNCHANGED <<tx_own, eth_tx_desc_index, submitted, line>>
          /\ Ready' = Ready /\ InHand' = InHand
          /\ (ip' = "fill") = (ip = "fill")
      BY <1>6 DEF DmaReceive, eth_isr, EmacNext, IpTake, IpRelease, IpGrow,
                  IpGrown, vars, EmacTake,
                  eth_rx_size, EmacGetBuffer, eth_rx, EmacSend, txVars, txHistory,
                  ipVars, callVars, Ready, InHand
    <2>2. Pending' = Pending
      BY <2>1 DEF Pending
    <2> QED BY <2>1, <2>2 DEF Accounted
  <1> QED BY <1>1, <1>2, <1>3, <1>4, <1>5, <1>6 DEF Next, DmaNext, IpNext

(* With one transmit descriptor, as eth.c:55 has it, what the buffer holds *)
(* from the copy to the end of the transmission is the frame that leaves   *)
(* next, unless a received frame has been written over it.                 *)
OneTx == ETH_NUM_TX_DESCRIPTORS = 1
FrameNext(m) == m = -(Len(line) + 1) \/ m > 0
InBuffer ==
  /\ ip \in {"wait", "fill"} => out = -submitted
  /\ ip = "fill" \/ tx_own[0] = "dma" => FrameNext(mem[TxBuf(0)])
  /\ \A k \in DOMAIN line : line[k] = -k \/ line[k] > 0
SentInv == TypeOK /\ Accounted /\ InBuffer


(* The ring of one. *)
LEMMA OneIndex ==
  ASSUME OneTx, TypeOK
  PROVE  Tx = {0} /\ eth_tx_desc_index = 0 /\ dma_tx = 0 /\ TxBuf(0) \in Bufs
  <1>1. Tx = {0}
    BY DEF OneTx, Tx
  <1> QED BY <1>1, Indices DEF TypeOK, RingTypes

(* While the frame is in hand and the buffer is free, it is the next one. *)
LEMMA InHandIsNext ==
  ASSUME OneTx, SentInv, ip \in {"wait", "fill"}, tx_own[0] = "cpu"
  PROVE  submitted = Len(line) + 1 /\ out = -(Len(line) + 1)
  <1>1. Pending = {}
    BY OneIndex DEF Pending, SentInv
  <1>2. Cardinality(Pending) = 0 /\ InHand = 1 /\ Len(line) \in Nat
    BY <1>1, FS_EmptySet DEF InHand, SentInv, TypeOK, HistoryTypes
  <1>3. submitted = Len(line) + 1
    BY <1>2 DEF SentInv, Accounted
  <1> QED BY <1>3 DEF SentInv, InBuffer

(* Every step keeps what the transmit buffer holds: one step per action.   *)
LEMMA SentInductive ==
  OneTx => (SentInv /\ [Next]_vars => SentInv')
  <1> SUFFICES ASSUME OneTx, SentInv, [Next]_vars PROVE InBuffer'
    BY TypeInductive, AccountedInductive DEF SentInv
  <1>a. /\ TypeOK /\ InBuffer /\ Tx = {0} /\ eth_tx_desc_index = 0 /\ dma_tx = 0
        /\ TxBuf(0) \in Bufs
    BY OneIndex DEF SentInv
  <1>b. /\ mem \in [Bufs -> Int] /\ tx_own \in [Tx -> {"cpu", "dma"}]
        /\ line \in Seq(Int) /\ arrived \in Nat /\ submitted \in Nat
        /\ rx_buf[dma_rx] \in Bufs /\ mem[TxBuf(0)] \in Int
    BY <1>a DEF TypeOK, RingTypes, HistoryTypes
  <1>1. CASE DmaReceive
    <2>1. /\ mem' = [mem EXCEPT ![rx_buf[dma_rx]] = arrived + 1]
          /\ UNCHANGED <<ip, out, submitted, line, tx_own>>
      BY <1>1 DEF DmaReceive, ipVars, callVars, txVars, txHistory
    <2>2. mem'[TxBuf(0)] = mem[TxBuf(0)] \/ mem'[TxBuf(0)] > 0
      BY <1>a, <1>b, <2>1
    <2> QED BY <1>a, <2>1, <2>2 DEF InBuffer, FrameNext
  <1>2. CASE DmaTransmit
    <2>1. /\ line' = Append(line, mem[TxBuf(0)]) /\ tx_own[0] = "dma"
          /\ tx_own' = [tx_own EXCEPT ![0] = "cpu"]
          /\ UNCHANGED <<ip, out, submitted, mem>>
      BY <1>a, <1>2 DEF DmaTransmit, ipVars, callVars
    <2>2. tx_own'[0] = "cpu" /\ ip # "fill"
      BY <1>a, <1>b, <2>1 DEF SentInv, Accounted
    <2>3. ASSUME NEW k \in DOMAIN line' PROVE line'[k] = -k \/ line'[k] > 0
      <3>1. /\ DOMAIN line = 1..Len(line) /\ DOMAIN line' = 1..(Len(line) + 1)
            /\ Len(line) \in Nat
        BY <1>b, <2>1
      <3>2. CASE k = Len(line) + 1
        <4>1. line'[k] = mem[TxBuf(0)]
          BY <1>b, <2>1, <3>2
        <4> QED BY <1>a, <2>1, <3>2, <4>1 DEF InBuffer, FrameNext
      <3>3. CASE k # Len(line) + 1
        <4>1. k \in DOMAIN line /\ line'[k] = line[k]
          BY <1>b, <2>1, <2>3, <3>1, <3>3
        <4> QED BY <1>a, <4>1 DEF InBuffer
      <3> QED BY <3>2, <3>3
    <2> QED BY <1>a, <2>1, <2>2, <2>3 DEF InBuffer
  <1>3. CASE IpReply \/ IpAgain \/ IpOutput \/ IpPseudo
    <2>1. /\ submitted' = submitted + 1 /\ out' = -(submitted + 1)
          /\ ip # "fill" /\ ip' = "wait"
          /\ UNCHANGED <<mem, tx_own, line>>
      BY <1>3 DEF IpReply, IpAgain, IpOutput, IpPseudo, StartTx, dmaVars
    <2> QED BY <1>a, <2>1 DEF InBuffer, FrameNext
  <1>4. CASE EthTxCopy
    <2>1. /\ ip = "wait" /\ tx_own[0] = "cpu" /\ ip' = "fill"
          /\ mem' = [mem EXCEPT ![TxBuf(0)] = out]
          /\ UNCHANGED <<tx_own, line, out, submitted>>
      BY <1>a, <1>4 DEF EthTxCopy, txVars, txHistory
    <2>2. mem'[TxBuf(0)] = -(Len(line) + 1)
      BY <1>a, <1>b, <2>1, InHandIsNext
    <2> QED BY <1>a, <2>1, <2>2 DEF InBuffer, FrameNext
  <1>5. CASE EthTxFill
    <2>1. /\ ip = "fill" /\ ip' \in {"idle", "keep"}
          /\ UNCHANGED <<mem, line, submitted>>
      BY <1>5 DEF EthTxFill, ReleaseAfterSend, dmaVars, txHistory
    <2> QED BY <1>a, <2>1 DEF InBuffer, FrameNext
  <1>6. CASE xNetworkInterfaceInitialise
    <2>1. /\ ip' = "idle" /\ tx_own'[0] = "cpu"
          /\ UNCHANGED <<mem, line, submitted>>
      BY <1>a, <1>6 DEF xNetworkInterfaceInitialise, txHistory
    <2> QED BY <1>a, <2>1 DEF InBuffer, FrameNext
  <1>7. CASE \/ eth_isr \/ EmacNext \/ IpTake \/ IpRelease \/ IpGrow \/ IpGrown
             \/ UNCHANGED vars
    <2>1. /\ UNCHANGED <<mem, tx_own, submitted, line, out>>
          /\ ip' = ip \/ ip' \in {"process", "idle", "grow", "keep"}
      BY <1>7 DEF eth_isr, EmacNext, IpTake, IpRelease, IpGrow, IpGrown, vars, EmacTake,
                  eth_rx_size, EmacGetBuffer, eth_rx, EmacSend, txVars, txHistory,
                  dmaVars, ipVars, callVars
    <2> QED BY <1>a, <2>1 DEF InBuffer, FrameNext
  <1> QED BY <1>1, <1>2, <1>3, <1>4, <1>5, <1>6, <1>7 DEF Next, DmaNext, IpNext

(* At first nothing is sent, pending or in hand. *)
LEMMA SentInitially == Init => TypeOK /\ Accounted /\ InBuffer
  <1> SUFFICES ASSUME Init PROVE Accounted /\ InBuffer
    BY TypeInit
  <1>1. Pending = {} /\ InHand = 0 /\ submitted = 0 /\ line = <<>> /\ ip = "init"
    BY DEF Init, Pending, InHand
  <1>2. Cardinality(Pending) = 0 /\ Len(line) = 0
    BY <1>1, FS_EmptySet
  <1>3. Accounted
    BY <1>1, <1>2 DEF Accounted
  <1>4. tx_own[0] = "cpu"
    BY Indices DEF Init
  <1> QED BY <1>1, <1>3, <1>4 DEF InBuffer

(* Whatever the number of descriptors, no frame given to eth_tx is lost in *)
(* the driver and none is sent twice: as many were given as have left, are *)
(* pending in the ring or are in the hands of eth_tx.                      *)
THEOREM NoneLost == Spec => []Accounted
  <1>1. Init => TypeOK /\ Accounted
    BY SentInitially
  <1>2. TypeOK /\ Accounted /\ [Next]_vars => (TypeOK /\ Accounted)'
    BY TypeInductive, AccountedInductive
  <1> QED BY <1>1, <1>2, PTL DEF Spec

(* With the one transmit descriptor of eth.c:55, each frame given to       *)
(* eth_tx leaves once and in its turn, and what leaves in its place can    *)
(* only be a frame received meanwhile.                                     *)
THEOREM SentCorrect ==
  ASSUME ETH_NUM_TX_DESCRIPTORS = 1
  PROVE  Spec => []SentInTurn
  <1>1. Init => SentInv
    BY SentInitially DEF SentInv
  <1>2. SentInv => SentInTurn
    BY DEF SentInv, Accounted, InBuffer, SentInTurn, Pending, InHand
  <1>3. SentInv /\ [Next]_vars => SentInv'
    BY SentInductive DEF OneTx
  <1> QED BY <1>1, <1>2, <1>3, PTL DEF Spec
=============================================================================
