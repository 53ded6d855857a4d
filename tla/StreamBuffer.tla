---------------------------- MODULE StreamBuffer ----------------------------
(***************************************************************************)
(* The circular buffer of FreeRTOS+TCP (FreeRTOS_Stream_Buffer.c and .h)   *)
(* as the transmit side of a socket uses it: the bytes from uxTail to      *)
(* uxMid are in the sliding window, those from uxMid to uxHead still have  *)
(* to be given to it.  One element always stays free.  uxFront is left     *)
(* out: only the receive side reads it.                                    *)
(***************************************************************************)
EXTENDS Integers, Sequences

CONSTANT LENGTH                 \* number of reserved elements

ASSUME LengthAssumption == LENGTH \in Nat \ {0}

Index == 0..LENGTH-1

(* Every function that adds to an index takes LENGTH off at most once. *)
Wrap(n) == IF n >= LENGTH THEN n - LENGTH ELSE n

uxStreamBufferSpace(lower, upper) == Wrap(LENGTH + upper - lower - 1)
uxStreamBufferDistance(lower, upper) == Wrap(LENGTH + upper - lower)
uxStreamBufferGetSpace(b) == uxStreamBufferSpace(b.uxHead, b.uxTail)
uxStreamBufferGetSize(b) == uxStreamBufferDistance(b.uxTail, b.uxHead)
uxStreamBufferMidSpace(b) == uxStreamBufferDistance(b.uxMid, b.uxHead)

Least(m, n) == IF m <= n THEN m ELSE n

vStreamBufferMoveMid_Unmoved(b, count) == b
vStreamBufferMoveMid(b, count) ==
  [b EXCEPT !.uxMid = Wrap(@ + Least(count, uxStreamBufferMidSpace(b)))]

(* uxStreamBufferAdd with uxOffset 0, in two steps, for its caller may be  *)
(* interrupted between them: the bytes are copied in, then uxHead moves.   *)
Copied_FirstPart(b, data) ==
  [b EXCEPT !.ucArray = [i \in Index |->
     IF i \in b.uxHead..b.uxHead + Len(data) - 1
     THEN data[i - b.uxHead + 1] ELSE b.ucArray[i]]]
Copied(b, data) ==
  [b EXCEPT !.ucArray = [i \in Index |->
     LET n == uxStreamBufferDistance(b.uxHead, i)
     IN IF n < Len(data) THEN data[n + 1] ELSE b.ucArray[i]]]
HeadMoved(b, count) == [b EXCEPT !.uxHead = Wrap(@ + count)]

(* uxStreamBufferGet: the bytes it reads in peek mode, and what is left    *)
(* when count bytes are taken without being read.                          *)
Peeked(b, offset, count) ==
  LET size == uxStreamBufferGetSize(b)
      got == IF size > offset THEN Least(size - offset, count) ELSE 0
  IN [i \in 1..got |-> b.ucArray[Wrap(b.uxTail + offset + i - 1)]]
Taken(b, count) ==
  [b EXCEPT !.uxTail = Wrap(@ + Least(uxStreamBufferGetSize(b), count))]
=============================================================================
