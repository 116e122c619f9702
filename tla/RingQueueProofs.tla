--------------------------- MODULE RingQueueProofs ----------------------------
(***************************************************************************)
(* The ring of RingQueue is a queue, for every size: what its indices do   *)
(* to the slots is what Append and Tail do to the sequence of its entries. *)
(***************************************************************************)
EXTENDS RingQueue, SequenceTheorems, TLAPS

-------------------------------------------------------------------------------
(* Indices.                                                                *)

LEMMA Remainder ==
  ASSUME NEW n \in Nat \ {0}, NEW a \in 0 .. 2 * n - 1
  PROVE  a % n = IF a < n THEN a ELSE a - n
<1>1. CASE a < n
  BY <1>1
<1>2. CASE a >= n
  BY <1>2
<1> QED BY <1>1, <1>2

LEMMA Wrap ==
  ASSUME NEW a \in 0 .. Size - 1, NEW b \in 0 .. Size
  PROVE  /\ (a + b) % Size = IF a + b < Size THEN a + b ELSE a + b - Size
         /\ b > 0 => (a + b - 1) % Size =
              IF a + b - 1 < Size THEN a + b - 1 ELSE a + b - 1 - Size
<1>1. Size \in Nat /\ Size > 0
  BY SizeAssumption
<1>2. a + b \in 0 .. 2 * Size - 1 /\ (b > 0 => a + b - 1 \in 0 .. 2 * Size - 1)
  BY <1>1
<1>3. (a + b) % Size = IF a + b < Size THEN a + b ELSE a + b - Size
  BY <1>1, <1>2, Remainder
<1>4. b > 0 => (a + b - 1) % Size =
        IF a + b - 1 < Size THEN a + b - 1 ELSE a + b - 1 - Size
  BY <1>1, <1>2, Remainder
<1> QED BY <1>3, <1>4

(* The index of the k-th entry, without a remainder.                       *)
Place(ring, k) ==
  IF ring.head + k - 1 < Size THEN ring.head + k - 1 ELSE ring.head + k - 1 - Size

LEMMA NextIndex ==
  ASSUME NEW i \in Indices
  PROVE  next(i) = IF i + 1 < Size THEN i + 1 ELSE 0
<1>1. i + 1 \in 0 .. 2 * Size - 1
  BY SizeAssumption DEF Indices
<1> QED BY <1>1, Remainder, SizeAssumption DEF Indices, next

(* A ring without remainders: its tail, and its entries.                   *)
LEMMA RingParts ==
  ASSUME NEW S, NEW ring, IsRing(ring, S)
  PROVE  /\ ring.slots \in [Indices -> S]
         /\ ring.head \in Indices /\ ring.tail \in Indices /\ ring.count \in 0 .. Size
         /\ ring.tail = IF ring.head + ring.count < Size
                        THEN ring.head + ring.count
                        ELSE ring.head + ring.count - Size
         /\ \A k \in 1 .. ring.count :
              /\ Place(ring, k) \in Indices
              /\ Contents(ring)[k] = ring.slots[Place(ring, k)]
<1>1. /\ ring.slots \in [Indices -> S]
      /\ ring.head \in Indices /\ ring.tail \in Indices /\ ring.count \in 0 .. Size
  BY DEF IsRing
<1>3. ring.tail = IF ring.head + ring.count < Size
                  THEN ring.head + ring.count
                  ELSE ring.head + ring.count - Size
  BY <1>1, Wrap DEF IsRing, Indices
<1>4. ASSUME NEW k \in 1 .. ring.count
      PROVE  /\ Place(ring, k) \in Indices
             /\ Contents(ring)[k] = ring.slots[Place(ring, k)]
  <2>1. k \in 0 .. Size /\ k > 0 /\ Size \in Nat /\ ring.head \in 0 .. Size - 1
    BY <1>1, SizeAssumption DEF Indices
  <2>2. (ring.head + k - 1) % Size = Place(ring, k)
    BY <2>1, Wrap DEF Place
  <2>3. Place(ring, k) \in Indices
    BY <2>1 DEF Place, Indices
  <2> QED BY <2>2, <2>3 DEF Contents
<1> QED BY <1>1, <1>3, <1>4

(* The entries are a sequence.                                             *)
LEMMA ContentsIsSeq ==
  ASSUME NEW S, NEW ring, IsRing(ring, S)
  PROVE  Contents(ring) \in Seq(S) /\ Len(Contents(ring)) = ring.count
<1>1. ring.count \in Nat
  BY RingParts, SizeAssumption
<1>2. \A k \in 1 .. ring.count : Contents(ring)[k] \in S
  BY RingParts
<1>3. Contents(ring) \in [1 .. ring.count -> S]
  BY <1>2 DEF Contents
<1> QED BY <1>1, <1>3

LEMMA EmptyRing ==
  ASSUME NEW S, Free \in S
  PROVE  IsRing(emptyRing, S) /\ Contents(emptyRing) = <<>>
<1>1. 0 \in Indices /\ 0 \in 0 .. Size /\ 0 % Size = 0
  BY SizeAssumption DEF Indices
<1>2. IsRing(emptyRing, S)
  BY <1>1 DEF IsRing, emptyRing
<1>3. Len(Contents(emptyRing)) = 0 /\ Contents(emptyRing) \in Seq(S)
  BY <1>2, ContentsIsSeq DEF emptyRing
<1> QED BY <1>2, <1>3

-------------------------------------------------------------------------------
(* Taking the oldest entry.                                                *)
THEOREM DequeueIsTail ==
  ASSUME NEW S, Free \in S, NEW ring, IsRing(ring, S), ring.count > 0
  PROVE  /\ IsRing(dequeued(ring), S)
         /\ Contents(ring) # <<>>
         /\ oldest(ring) = Head(Contents(ring))
         /\ Contents(dequeued(ring)) = Tail(Contents(ring))
<1> DEFINE after == dequeued(ring)
<1>1. /\ ring.slots \in [Indices -> S] /\ ring.head \in Indices
      /\ ring.tail \in Indices /\ ring.count \in 1 .. Size
  BY RingParts
<1>2. /\ after.slots = [ring.slots EXCEPT ![ring.head] = Free]
      /\ after.head = next(ring.head)
      /\ after.tail = ring.tail /\ after.count = ring.count - 1
  BY DEF dequeued
<1>3. after.head = IF ring.head + 1 < Size THEN ring.head + 1 ELSE 0
  BY <1>1, <1>2, NextIndex
<1>4. after.head \in Indices /\ after.count \in 0 .. Size
  BY <1>1, <1>2, <1>3, SizeAssumption DEF Indices
<1>5. after.tail = (after.head + after.count) % Size
  <2>1. after.head \in 0 .. Size - 1 /\ after.count \in 0 .. Size
    BY <1>1, <1>2, <1>4 DEF Indices
  <2>2. after.tail = IF after.head + after.count < Size
                     THEN after.head + after.count
                     ELSE after.head + after.count - Size
    <3>1. /\ ring.head \in 0 .. Size - 1 /\ ring.count \in 1 .. Size
          /\ Size \in Nat /\ Size > 0
      BY <1>1, SizeAssumption DEF Indices
    <3>2. ring.tail = IF ring.head + ring.count < Size
                      THEN ring.head + ring.count ELSE ring.head + ring.count - Size
      BY RingParts
    <3>3. after.tail = ring.tail /\ after.count = ring.count - 1
      BY <1>2
    <3>4. after.head = IF ring.head + 1 < Size THEN ring.head + 1 ELSE 0
      BY <1>3
    <3> HIDE DEF after
    <3> QED BY <3>1, <3>2, <3>3, <3>4
  <2> QED BY <2>1, <2>2, Wrap
<1>6. IsRing(after, S)
  BY <1>1, <1>2, <1>4, <1>5 DEF IsRing, dequeued
<1>7. Contents(ring) \in Seq(S) /\ Len(Contents(ring)) = ring.count
  BY ContentsIsSeq
<1>8. Contents(ring) # <<>>
  BY <1>1, <1>7
<1>9. oldest(ring) = Head(Contents(ring))
  <2>1. Place(ring, 1) = ring.head
    BY <1>1, SizeAssumption DEF Place, Indices
  <2>2. Contents(ring)[1] = ring.slots[ring.head]
    BY <1>1, <2>1, RingParts
  <2> QED BY <2>2, <1>7, <1>8 DEF oldest
<1>10. Contents(after) \in Seq(S) /\ Len(Contents(after)) = ring.count - 1
  BY <1>2, <1>6, ContentsIsSeq
<1>11. /\ Tail(Contents(ring)) \in Seq(S)
       /\ Len(Tail(Contents(ring))) = ring.count - 1
       /\ \A k \in 1 .. ring.count - 1 : Tail(Contents(ring))[k] = Contents(ring)[k + 1]
  BY <1>7, <1>8, HeadTailProperties
<1>12. ASSUME NEW k \in 1 .. ring.count - 1
       PROVE  Contents(after)[k] = Tail(Contents(ring))[k]
  <2>1. k + 1 \in 1 .. ring.count /\ k \in 1 .. after.count
    BY <1>1, <1>2
  <2>2. /\ Contents(after)[k] = after.slots[Place(after, k)]
        /\ Place(after, k) \in Indices
        /\ Contents(ring)[k + 1] = ring.slots[Place(ring, k + 1)]
    BY <1>6, <2>1, RingParts
  <2>3. Place(after, k) = Place(ring, k + 1) /\ Place(after, k) # ring.head
    <3>1. /\ Size \in Nat /\ Size > 0 /\ ring.head \in 0 .. Size - 1
          /\ ring.count \in 1 .. Size /\ k \in 1 .. ring.count - 1
      BY <1>1, SizeAssumption DEF Indices
    <3>2. CASE ring.head + 1 < Size
      <4>1. after.head = ring.head + 1
        BY <1>3, <3>2
      <4> QED BY <3>1, <3>2, <4>1 DEF Place
    <3>3. CASE ring.head = Size - 1
      <4>1. after.head = 0
        BY <1>3, <3>1, <3>3
      <4> QED BY <3>1, <3>3, <4>1 DEF Place
    <3> QED BY <3>1, <3>2, <3>3
  <2> QED BY <1>1, <1>2, <1>11, <2>2, <2>3
<1> QED BY <1>6, <1>8, <1>9, <1>10, <1>11, <1>12, SeqEqual

-------------------------------------------------------------------------------
(* Adding an entry where there is room.                                    *)
Added(ring, x) ==
  [slots |-> [ring.slots EXCEPT ![ring.tail] = x], head |-> ring.head,
   tail |-> next(ring.tail), count |-> ring.count + 1]

LEMMA AddedIsAppend ==
  ASSUME NEW S, NEW ring, IsRing(ring, S), ring.count < Size, NEW x \in S
  PROVE  /\ IsRing(Added(ring, x), S)
         /\ Contents(Added(ring, x)) = Append(Contents(ring), x)
<1> DEFINE after == Added(ring, x)
<1>1. /\ ring.slots \in [Indices -> S] /\ ring.head \in Indices
      /\ ring.tail \in Indices /\ ring.count \in 0 .. Size - 1
  BY RingParts, SizeAssumption
<1>2. /\ after.slots = [ring.slots EXCEPT ![ring.tail] = x]
      /\ after.head = ring.head
      /\ after.tail = next(ring.tail) /\ after.count = ring.count + 1
  BY DEF Added
<1>3. after.tail = IF ring.tail + 1 < Size THEN ring.tail + 1 ELSE 0
  BY <1>1, <1>2, NextIndex
<1>4. after.tail \in Indices /\ after.count \in 0 .. Size
  BY <1>1, <1>2, <1>3, SizeAssumption DEF Indices
<1>5. after.tail = (after.head + after.count) % Size
  <2>1. after.head \in 0 .. Size - 1 /\ after.count \in 0 .. Size
    BY <1>1, <1>2, <1>4 DEF Indices
  <2>2. after.tail = IF after.head + after.count < Size
                     THEN after.head + after.count
                     ELSE after.head + after.count - Size
    <3>1. /\ ring.head \in 0 .. Size - 1 /\ ring.count \in 0 .. Size - 1
          /\ Size \in Nat /\ Size > 0
      BY <1>1, SizeAssumption DEF Indices
    <3>2. ring.tail = IF ring.head + ring.count < Size
                      THEN ring.head + ring.count ELSE ring.head + ring.count - Size
      BY RingParts
    <3>3. after.head = ring.head /\ after.count = ring.count + 1
      BY <1>2
    <3>4. after.tail = IF ring.tail + 1 < Size THEN ring.tail + 1 ELSE 0
      BY <1>3
    <3> HIDE DEF after
    <3> QED BY <3>1, <3>2, <3>3, <3>4
  <2> QED BY <2>1, <2>2, Wrap
<1>6. IsRing(after, S)
  BY <1>1, <1>2, <1>4, <1>5 DEF IsRing, Added
<1>7. Contents(ring) \in Seq(S) /\ Len(Contents(ring)) = ring.count
  BY ContentsIsSeq
<1>8. Contents(after) \in Seq(S) /\ Len(Contents(after)) = ring.count + 1
  BY <1>2, <1>6, ContentsIsSeq
<1>9. /\ Append(Contents(ring), x) \in Seq(S)
      /\ Len(Append(Contents(ring), x)) = ring.count + 1
      /\ \A k \in 1 .. ring.count : Append(Contents(ring), x)[k] = Contents(ring)[k]
      /\ Append(Contents(ring), x)[ring.count + 1] = x
  BY <1>7, AppendProperties
<1>10. ASSUME NEW k \in 1 .. ring.count + 1
       PROVE  Contents(after)[k] = Append(Contents(ring), x)[k]
  <2>1. /\ Contents(after)[k] = after.slots[Place(after, k)]
        /\ Place(after, k) \in Indices /\ Place(after, k) = Place(ring, k)
    BY <1>2, <1>6, RingParts DEF Place
  <2>2. CASE k = ring.count + 1
    <3>1. Place(ring, k) = ring.tail
      BY <1>1, <2>2, RingParts, SizeAssumption DEF Place, Indices
    <3> QED BY <1>1, <1>2, <1>9, <2>1, <2>2, <3>1
  <2>3. CASE k \in 1 .. ring.count
    <3>1. Place(ring, k) # ring.tail
      BY <1>1, <2>3, RingParts, SizeAssumption DEF Place, Indices
    <3>2. Contents(ring)[k] = ring.slots[Place(ring, k)]
      BY <2>3, RingParts
    <3> QED BY <1>1, <1>2, <1>9, <2>1, <2>3, <3>1, <3>2
  <2>4. ring.count \in Nat
    BY <1>1, SizeAssumption
  <2>5. k = ring.count + 1 \/ k \in 1 .. ring.count
    BY <1>10, <2>4
  <2> QED BY <2>2, <2>3, <2>5
<1> QED BY <1>6, <1>8, <1>9, <1>10, SeqEqual

(* enqueueCommand(), enqueueTelegramMessage(): the oldest entry goes when, *)
(* and only when, the ring is full; the new one is the last.               *)
THEOREM EnqueueIsAppend ==
  ASSUME NEW S, Free \in S, NEW ring, IsRing(ring, S), NEW x \in S
  PROVE  /\ IsRing(enqueued(ring, x), S)
         /\ Contents(enqueued(ring, x)) =
              Append(IF Len(Contents(ring)) >= Size THEN Tail(Contents(ring))
                                                    ELSE Contents(ring), x)
<1>1. Len(Contents(ring)) = ring.count
  BY ContentsIsSeq
<1>2. enqueued(ring, x) = Added(madeRoom(ring), x)
  BY DEF enqueued, Added
<1>3. ring.count \in 0 .. Size
  BY RingParts
<1>4. CASE ring.count >= Size
  <2>1. ring.count > 0
    BY <1>3, <1>4, SizeAssumption
  <2>2. IsRing(dequeued(ring), S) /\ Contents(dequeued(ring)) = Tail(Contents(ring))
    BY <2>1, DequeueIsTail
  <2>3. dequeued(ring).count < Size
    BY <1>3, SizeAssumption DEF dequeued
  <2>4. madeRoom(ring) = dequeued(ring)
    BY <1>4 DEF madeRoom
  <2> QED BY <1>1, <1>2, <1>4, <2>2, <2>3, <2>4, AddedIsAppend
<1>5. CASE ring.count < Size
  <2>1. madeRoom(ring) = ring
    BY <1>3, <1>5, SizeAssumption DEF madeRoom
  <2>2. ~(Len(Contents(ring)) >= Size)
    BY <1>1, <1>3, <1>5, SizeAssumption
  <2> QED BY <1>2, <1>5, <2>1, <2>2, AddedIsAppend
<1> QED BY <1>3, <1>4, <1>5, SizeAssumption
===============================================================================
