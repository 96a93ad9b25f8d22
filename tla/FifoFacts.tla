----------------------------- MODULE FifoFacts -----------------------------
(***************************************************************************)
(* Facts about rings and the sequences read off them, for the proofs that  *)
(* the two ring buffers implement BoundedFifo.                             *)
(***************************************************************************)
EXTENDS Integers, Sequences, SequenceTheorems, TLAPS

LEMMA FunctionIsSequence ==
    ASSUME NEW S, NEW n \in Nat, NEW f \in [1 .. n -> S]
    PROVE  f \in Seq(S) /\ Len(f) = n
  OBVIOUS

\* One value more at the end.
LEMMA PutAtEnd ==
    ASSUME NEW S, NEW n \in Nat, NEW q \in [1 .. n -> S], NEW r \in [1 .. n + 1 -> S],
           \A k \in 1 .. n : r[k] = q[k]
    PROVE  r = Append(q, r[n + 1])
  <1>1. q \in Seq(S) /\ Len(q) = n /\ r \in Seq(S) /\ Len(r) = n + 1 /\ r[n + 1] \in S
    BY FunctionIsSequence
  <1> DEFINE a == Append(q, r[n + 1])
  <1>2. /\ a \in Seq(S) /\ Len(a) = n + 1
        /\ \A k \in 1 .. n : a[k] = q[k]
        /\ a[n + 1] = r[n + 1]
    BY <1>1, AppendProperties
  <1> HIDE DEF a
  <1>3. \A k \in 1 .. n + 1 : r[k] = a[k]
    BY <1>2
  <1>4. r = a
    BY <1>1, <1>2, <1>3, SeqEqual
  <1> QED
    BY <1>4 DEF a

\* The first value gone.
LEMMA TakeFirst ==
    ASSUME NEW S, NEW n \in Nat \ {0}, NEW q \in [1 .. n -> S], NEW r \in [1 .. n - 1 -> S],
           \A k \in 1 .. n - 1 : r[k] = q[k + 1]
    PROVE  q # <<>> /\ r = Tail(q) /\ Head(q) = q[1]
  <1>1. q \in Seq(S) /\ Len(q) = n /\ r \in Seq(S) /\ Len(r) = n - 1
    BY FunctionIsSequence
  <1>2. q # <<>>
    BY <1>1
  <1> DEFINE b == Tail(q)
  <1>3. b \in Seq(S) /\ Len(b) = n - 1 /\ \A k \in 1 .. n - 1 : b[k] = q[k + 1]
    BY <1>1, <1>2, HeadTailProperties
  <1> HIDE DEF b
  <1>4. r = b
    BY <1>1, <1>3, SeqEqual
  <1> QED
    BY <1>2, <1>4 DEF b

\* Different distances below the size lead to different slots.
LEMMA RingPlaces ==
    ASSUME NEW size \in Nat \ {0}, NEW a \in 0 .. size - 1,
           NEW j \in 0 .. size - 1, NEW k \in 0 .. size - 1
    PROVE  /\ (a + j) % size \in 0 .. size - 1
           /\ (a + j) % size = (a + k) % size => j = k
  <1>1. ASSUME NEW m \in 0 .. size - 1
        PROVE  (a + m) % size = IF a + m < size THEN a + m ELSE a + m - size
    OBVIOUS
  <1> QED
    BY <1>1
=============================================================================
