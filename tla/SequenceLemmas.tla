--------------------------- MODULE SequenceLemmas ---------------------------
(***************************************************************************)
(* Lemmas about sequences, told by their elements: a beginning, a part, a  *)
(* join. *)
(***************************************************************************)
EXTENDS Integers, Sequences, TLAPS

(* t is a beginning of s. *)
Prefix(t, s) == Len(t) <= Len(s) /\ \A i \in 1..Len(t) : t[i] = s[i]

(* Sequences with the same elements are the same. *)
LEMMA SameElements ==
  ASSUME NEW S, NEW s \in Seq(S), NEW t \in Seq(S),
         Len(s) = Len(t), \A i \in 1..Len(s) : s[i] = t[i]
  PROVE  s = t
  <1>1. s = [i \in 1..Len(s) |-> s[i]]
    OBVIOUS
  <1>2. t = [i \in 1..Len(t) |-> t[i]]
    OBVIOUS
  <1> QED BY <1>1, <1>2

(* A sequence that agrees with another for its whole length begins it. *)
LEMMA PrefixFacts ==
  ASSUME NEW S, NEW s \in Seq(S), NEW t \in Seq(S), Prefix(t, s)
  PROVE  Len(t) <= Len(s) /\ SubSeq(s, 1, Len(t)) = t
  <1>1. t = [i \in 1..Len(t) |-> t[i]]
    OBVIOUS
  <1>2. Len(t) \in Nat /\ Len(s) \in Nat /\ Len(t) <= Len(s)
    BY DEF Prefix
  <1>3. SubSeq(s, 1, Len(t)) = [i \in 1..Len(t) |-> s[i]]
    BY <1>2
  <1> QED BY <1>1, <1>2, <1>3 DEF Prefix

(* A part of a sequence, from behind its n-th element.                     *)
LEMMA PartFacts ==
  ASSUME NEW S, NEW s \in Seq(S), NEW n \in Nat, NEW m \in Nat, n + m <= Len(s)
  PROVE  /\ SubSeq(s, n + 1, n + m) = [k \in 1..m |-> s[n + k]]
         /\ SubSeq(s, n + 1, n + m) \in Seq(S) /\ Len(SubSeq(s, n + 1, n + m)) = m
  <1>1. SubSeq(s, n + 1, n + m)
          = [k \in 1..((n + m) - (n + 1) + 1) |-> s[(n + 1) + k - 1]]
    OBVIOUS
  <1>2. (n + m) - (n + 1) + 1 = m /\ \A k \in 1..m : (n + 1) + k - 1 = n + k
    OBVIOUS
  <1>3. \A k \in 1..m : s[n + k] \in S
    <2> TAKE k \in 1..m
    <2>1. n + k \in 1..Len(s)
      OBVIOUS
    <2> QED BY <2>1
  <1>4. SubSeq(s, n + 1, n + m) = [k \in 1..m |-> s[n + k]]
    BY <1>1, <1>2
  <1> QED BY <1>3, <1>4

(* Joining a sequence to another leaves the first at the beginning. *)
LEMMA JoinFacts ==
  ASSUME NEW S, NEW s \in Seq(S), NEW t \in Seq(S)
  PROVE  /\ s \o t \in Seq(S) /\ Len(s \o t) = Len(s) + Len(t)
         /\ Prefix(s, s \o t)
         /\ \A k \in 1..Len(t) : (s \o t)[Len(s) + k] = t[k]
  <1>1. s \o t \in Seq(S) /\ Len(s \o t) = Len(s) + Len(t)
    OBVIOUS
  <1>2. Prefix(s, s \o t)
    BY DEF Prefix
  <1>3. ASSUME NEW k \in 1..Len(t) PROVE (s \o t)[Len(s) + k] = t[k]
    <2>1. Len(s) \in Nat /\ Len(t) \in Nat
      OBVIOUS
    <2>2. /\ Len(s) + k \in 1..(Len(s) + Len(t)) /\ ~(Len(s) + k <= Len(s))
          /\ (Len(s) + k) - Len(s) = k
      BY <2>1
    <2> QED BY <2>1, <2>2
  <1> QED BY <1>1, <1>2, <1>3

(* Appending an element leaves the others in place. *)
LEMMA AppendFacts ==
  ASSUME NEW S, NEW s \in Seq(S), NEW e \in S
  PROVE  /\ Append(s, e) \in Seq(S) /\ Len(Append(s, e)) = Len(s) + 1
         /\ Append(s, e)[Len(s) + 1] = e
         /\ \A i \in 1..Len(s) : Append(s, e)[i] = s[i]
  <1>1. Len(s) \in Nat
    OBVIOUS
  <1>2. Append(s, e) \in Seq(S)
    OBVIOUS
  <1>3. Len(Append(s, e)) = Len(s) + 1
    OBVIOUS
  <1>4. Append(s, e)[Len(s) + 1] = e
    BY <1>1
  <1>5. \A i \in 1..Len(s) : Append(s, e)[i] = s[i]
    BY <1>1
  <1> QED BY <1>2, <1>3, <1>4, <1>5
=============================================================================
