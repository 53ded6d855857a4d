------------------------- MODULE StreamBufferProofs -------------------------
(***************************************************************************)
(* Lemmas about the circular buffer of FreeRTOS+TCP, for every LENGTH: its *)
(* indices, and the bytes it holds, the first one at uxTail.               *)
(***************************************************************************)
EXTENDS StreamBuffer, TLAPS

(* Going n elements on from an index comes to an index, n elements away.   *)
LEMMA WrapFacts ==
  ASSUME NEW i \in Index, NEW n \in 0..LENGTH
  PROVE  /\ Wrap(i + n) \in Index
         /\ n < LENGTH => uxStreamBufferDistance(i, Wrap(i + n)) = n
  BY LengthAssumption DEF Index, Wrap, uxStreamBufferDistance

(* The distance is how far one has to go; what is free is the rest, but    *)
(* for one element. *)
LEMMA DistanceFacts ==
  ASSUME NEW i \in Index, NEW j \in Index
  PROVE  /\ uxStreamBufferDistance(i, j) \in 0..LENGTH-1
         /\ Wrap(i + uxStreamBufferDistance(i, j)) = j
         /\ uxStreamBufferDistance(i, i) = 0
         /\ uxStreamBufferSpace(j, i) = LENGTH - 1 - uxStreamBufferDistance(i, j)
  BY LengthAssumption DEF Index, Wrap, uxStreamBufferDistance, uxStreamBufferSpace

(* Wrapping once after two steps is wrapping after each. *)
LEMMA WrapTwice ==
  ASSUME NEW i \in Index, NEW m \in Nat, NEW n \in Nat, m + n <= LENGTH
  PROVE  Wrap(Wrap(i + m) + n) = Wrap(i + (m + n))
  BY LengthAssumption DEF Index, Wrap

(* Different distances are different elements. *)
LEMMA WrapInjective ==
  ASSUME NEW i \in Index, NEW m \in 0..LENGTH-1, NEW n \in 0..LENGTH-1,
         Wrap(i + m) = Wrap(i + n)
  PROVE  m = n
  BY LengthAssumption DEF Index, Wrap

(* Going on from m without passing h, and going on from h without coming   *)
(* round to t: the distances change by as much. *)
LEMMA StepBefore ==
  ASSUME NEW t \in Index, NEW m \in Index, NEW h \in Index,
         uxStreamBufferDistance(t, m) + uxStreamBufferDistance(m, h)
           = uxStreamBufferDistance(t, h),
         NEW n \in 0..uxStreamBufferDistance(m, h)
  PROVE  /\ uxStreamBufferDistance(t, Wrap(m + n)) = uxStreamBufferDistance(t, m) + n
         /\ uxStreamBufferDistance(Wrap(m + n), h) = uxStreamBufferDistance(m, h) - n
  BY LengthAssumption DEF Index, Wrap, uxStreamBufferDistance

LEMMA StepBeyond ==
  ASSUME NEW t \in Index, NEW m \in Index, NEW h \in Index,
         uxStreamBufferDistance(t, m) + uxStreamBufferDistance(m, h)
           = uxStreamBufferDistance(t, h),
         NEW n \in Nat, n + uxStreamBufferDistance(t, h) <= LENGTH - 1
  PROVE  /\ uxStreamBufferDistance(t, Wrap(h + n)) = uxStreamBufferDistance(t, h) + n
         /\ uxStreamBufferDistance(m, Wrap(h + n)) = uxStreamBufferDistance(m, h) + n
  BY LengthAssumption DEF Index, Wrap, uxStreamBufferDistance

(* An element between t and h lies the whole way round behind h. *)
LEMMA StepRound ==
  ASSUME NEW t \in Index, NEW h \in Index,
         NEW n \in Nat, n < uxStreamBufferDistance(t, h)
  PROVE  uxStreamBufferDistance(h, Wrap(t + n))
           = LENGTH - uxStreamBufferDistance(t, h) + n
  BY LengthAssumption DEF Index, Wrap, uxStreamBufferDistance

-----------------------------------------------------------------------------
(* A buffer of elements of S whose middle lies between tail and head, and  *)
(* the k-th element it holds. *)
Buffer(S) ==
  [uxTail : Index, uxMid : Index, uxHead : Index, ucArray : [Index -> S]]
MidInside(b) ==
  uxStreamBufferDistance(b.uxTail, b.uxMid) + uxStreamBufferMidSpace(b)
    = uxStreamBufferGetSize(b)
Nth(b, k) == b.ucArray[Wrap(b.uxTail + (k - 1))]

(* Size, space and the parts of the buffer are numbers below LENGTH.       *)
LEMMA BufferFacts ==
  ASSUME NEW S, NEW b \in Buffer(S)
  PROVE  /\ b.uxTail \in Index /\ b.uxMid \in Index /\ b.uxHead \in Index
         /\ b.ucArray \in [Index -> S]
         /\ uxStreamBufferGetSize(b) \in 0..LENGTH-1
         /\ uxStreamBufferMidSpace(b) \in 0..LENGTH-1
         /\ uxStreamBufferDistance(b.uxTail, b.uxMid) \in 0..LENGTH-1
         /\ uxStreamBufferGetSpace(b) = LENGTH - 1 - uxStreamBufferGetSize(b)
  <1>1. b.uxTail \in Index /\ b.uxMid \in Index /\ b.uxHead \in Index
        /\ b.ucArray \in [Index -> S]
    BY DEF Buffer
  <1> QED
    BY <1>1, DistanceFacts
    DEF uxStreamBufferGetSize, uxStreamBufferMidSpace, uxStreamBufferGetSpace

(* Moving uxMid on by what there is before it keeps everything else.       *)
LEMMA MoveMidFacts ==
  ASSUME NEW S, NEW b \in Buffer(S), MidInside(b),
         NEW n \in 0..uxStreamBufferMidSpace(b)
  PROVE  LET c == vStreamBufferMoveMid(b, n) IN
         /\ c \in Buffer(S) /\ MidInside(c)
         /\ c.uxTail = b.uxTail /\ c.uxHead = b.uxHead /\ c.ucArray = b.ucArray
         /\ uxStreamBufferDistance(c.uxTail, c.uxMid)
              = uxStreamBufferDistance(b.uxTail, b.uxMid) + n
  <1> DEFINE c == vStreamBufferMoveMid(b, n)
  <1>1. /\ b.uxTail \in Index /\ b.uxMid \in Index /\ b.uxHead \in Index
        /\ b.ucArray \in [Index -> S]
    BY BufferFacts
  <1>2. c = [b EXCEPT !.uxMid = Wrap(b.uxMid + n)]
    BY BufferFacts, LengthAssumption DEF vStreamBufferMoveMid, Least
  <1>3. n \in 0..LENGTH /\ Wrap(b.uxMid + n) \in Index
    BY <1>1, BufferFacts, WrapFacts, LengthAssumption
  <1>4. /\ c \in Buffer(S)
        /\ c.uxTail = b.uxTail /\ c.uxHead = b.uxHead /\ c.ucArray = b.ucArray
        /\ c.uxMid = Wrap(b.uxMid + n)
    BY <1>2, <1>3 DEF Buffer
  <1>5. /\ uxStreamBufferDistance(b.uxTail, Wrap(b.uxMid + n))
             = uxStreamBufferDistance(b.uxTail, b.uxMid) + n
        /\ uxStreamBufferDistance(Wrap(b.uxMid + n), b.uxHead)
             = uxStreamBufferDistance(b.uxMid, b.uxHead) - n
    BY <1>1, StepBefore DEF MidInside, uxStreamBufferMidSpace, uxStreamBufferGetSize
  <1> HIDE DEF c
  <1>6. MidInside(c)
    <2>1. uxStreamBufferDistance(b.uxTail, b.uxMid)
            + uxStreamBufferDistance(b.uxMid, b.uxHead)
            = uxStreamBufferDistance(b.uxTail, b.uxHead)
      BY DEF MidInside, uxStreamBufferMidSpace, uxStreamBufferGetSize
    <2>2. /\ uxStreamBufferDistance(b.uxTail, b.uxMid) \in Int
          /\ uxStreamBufferDistance(b.uxMid, b.uxHead) \in Int
          /\ uxStreamBufferDistance(b.uxTail, b.uxHead) \in Int
          /\ n \in Int
      BY <1>1, <1>3, DistanceFacts, LengthAssumption
    <2> QED
      BY <1>4, <1>5, <2>1, <2>2
      DEF MidInside, uxStreamBufferMidSpace, uxStreamBufferGetSize
  <1> QED BY <1>4, <1>5, <1>6 DEF c

(* Taking away what lies before uxMid: the rest moves up.                  *)
LEMMA TakenFacts ==
  ASSUME NEW S, NEW b \in Buffer(S), MidInside(b),
         NEW n, n = uxStreamBufferDistance(b.uxTail, b.uxMid)
  PROVE  LET c == Taken(b, n) IN
         /\ c \in Buffer(S) /\ MidInside(c)
         /\ uxStreamBufferDistance(c.uxTail, c.uxMid) = 0
         /\ c.uxHead = b.uxHead /\ c.ucArray = b.ucArray
         /\ uxStreamBufferGetSize(c) = uxStreamBufferGetSize(b) - n
         /\ \A k \in 1..uxStreamBufferGetSize(c) : Nth(c, k) = Nth(b, n + k)
  <1> DEFINE c == Taken(b, n)
  <1>1. /\ b.uxTail \in Index /\ b.uxMid \in Index /\ b.uxHead \in Index
        /\ b.ucArray \in [Index -> S] /\ n \in 0..LENGTH-1
        /\ Wrap(b.uxTail + n) = b.uxMid
        /\ uxStreamBufferMidSpace(b) \in 0..LENGTH-1
        /\ uxStreamBufferGetSize(b) \in 0..LENGTH-1
        /\ uxStreamBufferGetSize(b) = n + uxStreamBufferMidSpace(b)
    BY BufferFacts, DistanceFacts DEF MidInside
  <1>2. c = [b EXCEPT !.uxTail = b.uxMid]
    BY <1>1, LengthAssumption DEF Taken, Least
  <1>3. /\ c \in Buffer(S) /\ c.uxTail = b.uxMid
        /\ c.uxMid = b.uxMid /\ c.uxHead = b.uxHead /\ c.ucArray = b.ucArray
    BY <1>1, <1>2 DEF Buffer
  <1>4. /\ uxStreamBufferDistance(b.uxMid, b.uxMid) = 0
        /\ uxStreamBufferDistance(b.uxMid, b.uxHead) = uxStreamBufferGetSize(b) - n
    BY <1>1, DistanceFacts, LengthAssumption DEF uxStreamBufferMidSpace
  <1> HIDE DEF c
  <1>5. MidInside(c) /\ uxStreamBufferGetSize(c) = uxStreamBufferGetSize(b) - n
    BY <1>1, <1>3, <1>4, LengthAssumption
    DEF MidInside, uxStreamBufferMidSpace, uxStreamBufferGetSize
  <1>6. ASSUME NEW k \in 1..uxStreamBufferGetSize(c)
        PROVE  Nth(c, k) = Nth(b, n + k)
    <2>1. k - 1 \in Nat /\ n \in Nat /\ n + (k - 1) <= LENGTH
          /\ n + (k - 1) = (n + k) - 1
      BY <1>1, <1>5, <1>6, LengthAssumption
    <2>2. Wrap(Wrap(b.uxTail + n) + (k - 1)) = Wrap(b.uxTail + (n + (k - 1)))
      BY <1>1, <2>1, WrapTwice
    <2> QED BY <1>1, <1>3, <2>1, <2>2 DEF Nth
  <1> QED BY <1>3, <1>4, <1>5, <1>6 DEF c

(* Copying into the free part leaves the indices and the elements held,    *)
(* and puts the new ones behind them. *)
LEMMA CopiedFacts ==
  ASSUME NEW S, NEW b \in Buffer(S),
         NEW data \in Seq(S), Len(data) <= uxStreamBufferGetSpace(b)
  PROVE  LET c == Copied(b, data) size == uxStreamBufferGetSize(b) IN
         /\ c \in Buffer(S)
         /\ c.uxTail = b.uxTail /\ c.uxMid = b.uxMid /\ c.uxHead = b.uxHead
         /\ \A k \in 1..size : Nth(c, k) = Nth(b, k)
         /\ \A k \in 1..Len(data) : c.ucArray[Wrap(c.uxHead + (k - 1))] = data[k]
  <1> DEFINE c == Copied(b, data)
             size == uxStreamBufferGetSize(b)
             far(i) == uxStreamBufferDistance(b.uxHead, i)
  <1>1. /\ b.uxTail \in Index /\ b.uxMid \in Index /\ b.uxHead \in Index
        /\ b.ucArray \in [Index -> S] /\ size \in 0..LENGTH-1
        /\ Len(data) \in Nat /\ Len(data) + size <= LENGTH - 1
        /\ Wrap(b.uxTail + size) = b.uxHead
        /\ \A i \in 1..Len(data) : data[i] \in S
    <2>1. /\ b.uxTail \in Index /\ b.uxMid \in Index /\ b.uxHead \in Index
          /\ b.ucArray \in [Index -> S] /\ size \in 0..LENGTH-1
          /\ uxStreamBufferGetSpace(b) = LENGTH - 1 - size
      BY BufferFacts
    <2>2. Len(data) \in Nat /\ \A i \in 1..Len(data) : data[i] \in S
      OBVIOUS
    <2>3. Len(data) + size <= LENGTH - 1
      BY <2>1, <2>2, LengthAssumption
    <2>4. Wrap(b.uxTail + size) = b.uxHead
      BY <2>1, DistanceFacts DEF uxStreamBufferGetSize
    <2> QED BY <2>1, <2>2, <2>3, <2>4
  <1>2. \A i \in Index : far(i) \in 0..LENGTH-1
    BY <1>1, DistanceFacts
  <1>3. c = [b EXCEPT !.ucArray = [i \in Index |->
                IF far(i) < Len(data) THEN data[far(i) + 1] ELSE b.ucArray[i]]]
    BY DEF Copied
  <1>4. [i \in Index |-> IF far(i) < Len(data) THEN data[far(i) + 1] ELSE b.ucArray[i]]
          \in [Index -> S]
    <2> HIDE DEF far
    <2> QED BY <1>1, <1>2, LengthAssumption
  <1>5. /\ c \in Buffer(S)
        /\ c.uxTail = b.uxTail /\ c.uxMid = b.uxMid /\ c.uxHead = b.uxHead
        /\ \A i \in Index : c.ucArray[i] =
              IF far(i) < Len(data) THEN data[far(i) + 1] ELSE b.ucArray[i]
    <2> HIDE DEF far
    <2> QED BY <1>3, <1>4 DEF Buffer
  <1> HIDE DEF c
  <1>6. ASSUME NEW k \in 1..size
        PROVE  Nth(c, k) = Nth(b, k)
    <2>1. Wrap(b.uxTail + (k - 1)) \in Index
      BY <1>1, WrapFacts, LengthAssumption
    <2>2. far(Wrap(b.uxTail + (k - 1))) = LENGTH - size + (k - 1)
      <3>1. k - 1 \in Nat /\ k - 1 < size
        BY <1>1, LengthAssumption
      <3> QED BY <1>1, <3>1, StepRound DEF uxStreamBufferGetSize
    <2>3. ~(far(Wrap(b.uxTail + (k - 1))) < Len(data))
      BY <1>1, <2>2, LengthAssumption
    <2> QED BY <1>5, <2>1, <2>3 DEF Nth
  <1>7. ASSUME NEW k \in 1..Len(data)
        PROVE  c.ucArray[Wrap(c.uxHead + (k - 1))] = data[k]
    <2>1. /\ k - 1 \in 0..LENGTH /\ k - 1 < LENGTH /\ k - 1 < Len(data)
          /\ (k - 1) + 1 = k
      BY <1>1, LengthAssumption
    <2>2. /\ Wrap(b.uxHead + (k - 1)) \in Index
          /\ far(Wrap(b.uxHead + (k - 1))) = k - 1
      BY <1>1, <2>1, WrapFacts
    <2> HIDE DEF far
    <2> QED BY <1>5, <2>1, <2>2
  <1> QED BY <1>5, <1>6, <1>7 DEF c

(* What lies behind the elements held is found from the head. *)
LEMMA NthBeyond ==
  ASSUME NEW S, NEW b \in Buffer(S), NEW k \in Nat \ {0},
         uxStreamBufferGetSize(b) + k <= LENGTH
  PROVE  Nth(b, uxStreamBufferGetSize(b) + k) = b.ucArray[Wrap(b.uxHead + (k - 1))]
  <1> DEFINE size == uxStreamBufferGetSize(b)
  <1>1. b.uxTail \in Index /\ b.uxHead \in Index /\ size \in 0..LENGTH-1
    BY BufferFacts
  <1>2. Wrap(b.uxTail + size) = b.uxHead
    BY <1>1, DistanceFacts DEF uxStreamBufferGetSize
  <1> HIDE DEF size
  <1>3. /\ size \in Nat /\ k - 1 \in Nat /\ size + (k - 1) <= LENGTH
        /\ size + (k - 1) = (size + k) - 1
    BY <1>1, LengthAssumption DEF size
  <1>4. Wrap(Wrap(b.uxTail + size) + (k - 1)) = Wrap(b.uxTail + (size + (k - 1)))
    BY <1>1, <1>3, WrapTwice
  <1> QED BY <1>2, <1>3, <1>4 DEF Nth, size

(* Moving uxHead on over the free part: the buffer holds as many more.     *)
LEMMA HeadMovedFacts ==
  ASSUME NEW S, NEW b \in Buffer(S), MidInside(b),
         NEW n \in 0..uxStreamBufferGetSpace(b)
  PROVE  LET c == HeadMoved(b, n) IN
         /\ c \in Buffer(S) /\ MidInside(c)
         /\ c.uxTail = b.uxTail /\ c.uxMid = b.uxMid /\ c.ucArray = b.ucArray
         /\ uxStreamBufferGetSize(c) = uxStreamBufferGetSize(b) + n
  <1> DEFINE c == HeadMoved(b, n)
  <1>1. /\ b.uxTail \in Index /\ b.uxMid \in Index /\ b.uxHead \in Index
        /\ b.ucArray \in [Index -> S]
        /\ uxStreamBufferGetSize(b) \in 0..LENGTH-1
        /\ n \in Nat /\ n + uxStreamBufferGetSize(b) <= LENGTH - 1
    BY BufferFacts, LengthAssumption
  <1>2. c = [b EXCEPT !.uxHead = Wrap(b.uxHead + n)]
    BY DEF HeadMoved
  <1>3. n \in 0..LENGTH /\ Wrap(b.uxHead + n) \in Index
    BY <1>1, WrapFacts, LengthAssumption
  <1>4. /\ c \in Buffer(S) /\ c.uxHead = Wrap(b.uxHead + n)
        /\ c.uxTail = b.uxTail /\ c.uxMid = b.uxMid /\ c.ucArray = b.ucArray
    BY <1>1, <1>2, <1>3 DEF Buffer
  <1>5. /\ uxStreamBufferDistance(b.uxTail, Wrap(b.uxHead + n))
             = uxStreamBufferDistance(b.uxTail, b.uxHead) + n
        /\ uxStreamBufferDistance(b.uxMid, Wrap(b.uxHead + n))
             = uxStreamBufferDistance(b.uxMid, b.uxHead) + n
    BY <1>1, StepBeyond DEF MidInside, uxStreamBufferMidSpace, uxStreamBufferGetSize
  <1> HIDE DEF c
  <1>6. MidInside(c)
    <2>1. uxStreamBufferDistance(b.uxTail, b.uxMid)
            + uxStreamBufferDistance(b.uxMid, b.uxHead)
            = uxStreamBufferDistance(b.uxTail, b.uxHead)
      BY DEF MidInside, uxStreamBufferMidSpace, uxStreamBufferGetSize
    <2>2. /\ uxStreamBufferDistance(b.uxTail, b.uxMid) \in Int
          /\ uxStreamBufferDistance(b.uxMid, b.uxHead) \in Int
          /\ uxStreamBufferDistance(b.uxTail, b.uxHead) \in Int
          /\ n \in Int
      BY <1>1, <1>3, DistanceFacts, LengthAssumption
    <2> QED
      BY <1>4, <1>5, <2>1, <2>2
      DEF MidInside, uxStreamBufferMidSpace, uxStreamBufferGetSize
  <1> QED BY <1>4, <1>5, <1>6 DEF c, uxStreamBufferGetSize

(* Peeking at the first n elements reads these. *)
LEMMA PeekedFacts ==
  ASSUME NEW S, NEW b \in Buffer(S), NEW n \in 0..uxStreamBufferGetSize(b)
  PROVE  /\ Peeked(b, 0, n) \in Seq(S)
         /\ Len(Peeked(b, 0, n)) = n
         /\ \A k \in 1..n : Peeked(b, 0, n)[k] = Nth(b, k)
         /\ Peeked(b, 0, n) = [k \in 1..n |-> Nth(b, k)]
  <1>1. /\ b.uxTail \in Index /\ b.ucArray \in [Index -> S]
        /\ uxStreamBufferGetSize(b) \in 0..LENGTH-1 /\ n \in Nat
    BY BufferFacts, LengthAssumption
  <1>2. \A k \in 1..n : b.uxTail + 0 + k - 1 = b.uxTail + (k - 1)
    BY <1>1, LengthAssumption DEF Index
  <1>3. Peeked(b, 0, n) = [k \in 1..n |-> Nth(b, k)]
    <2>1. (IF uxStreamBufferGetSize(b) > 0
           THEN Least(uxStreamBufferGetSize(b) - 0, n) ELSE 0) = n
      BY <1>1, LengthAssumption DEF Least
    <2> QED BY <1>2, <2>1 DEF Peeked, Nth
  <1>4. \A k \in 1..n : Nth(b, k) \in S
    <2> TAKE k \in 1..n
    <2>1. Wrap(b.uxTail + (k - 1)) \in Index
      BY <1>1, WrapFacts, LengthAssumption
    <2> QED BY <1>1, <2>1 DEF Nth
  <1> HIDE DEF Nth
  <1> QED BY <1>1, <1>3, <1>4
=============================================================================
