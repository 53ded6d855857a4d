------------------------------ MODULE TcpProps ------------------------------
(***************************************************************************)
(* What is claimed of the way of a message over the network: see           *)
(* README.md, "Properties".                                                *)
(***************************************************************************)
EXTENDS Tcp

Stream == INSTANCE ByteStream

stream == socket.txStream
segment == socket.xTxSegment

(* The window and the transmit stream speak of the same bytes: what lies   *)
(* between uxTail and uxMid is the one segment, and it bears the sequence  *)
(* number and the place of the oldest byte not acknowledged.  The indices   *)
(* stay inside the stream, whichever way they wrap round.                  *)
WindowAgrees ==
  /\ {stream.uxTail, stream.uxMid, stream.uxHead} \subseteq Index
  /\ uxStreamBufferDistance(stream.uxTail, stream.uxMid) = segment.len
  /\ socket.ulNextTxSequenceNumber = SeqNr(socket.ulCurrentSequenceNumber + segment.len)
  /\ segment.len > 0 => segment.pos = stream.uxTail
                          /\ segment.seq = socket.ulCurrentSequenceNumber

(* A byte that was accepted stays in the transmit stream, unchanged, until *)
(* the BeagleBone has it: whatever is lost can still be sent again.        *)
NothingForgotten ==
  LET size == uxStreamBufferGetSize(stream)
      acked == Len(accepted) - size
  IN /\ acked >= 0 /\ acked <= Len(received)
     /\ Peeked(stream, 0, size) = SubSeq(accepted, acked + 1, Len(accepted))

(* While the IP task sleeps, FreeRTOS_send does not wait for what has      *)
(* already happened: room in the stream, or the end of the connection it   *)
(* was not told of.                                                        *)
NoLostWakeUp ==
  Sleeping /\ ~bExpired /\ pc = "wait" =>
    /\ uxStreamBufferGetSpace(stream) = 0
    /\ socket.xEventBits = {}

(* The detailed way implements the byte stream. *)
ImplementsStream == Stream!StreamSpec

(* Nothing that was accepted stays missing, unless the connection is given *)
(* up or its other end is gone.                                            *)
Arrived ==
  []<>(Len(received) = Len(accepted)
         \/ socket.ucTCPState # "eESTABLISHED" \/ ~peerUp)
=============================================================================
