------------------------------ MODULE RingQueue -------------------------------
(***************************************************************************)
(* The ring that src/main.cpp keeps twice, as commandQueue and as          *)
(* telegramQueue: slots, the index of the oldest entry, the index of the   *)
(* next one and their number.  A full ring gives up its oldest entry.      *)
(*                                                                         *)
(* An operator marked "Mutant" is not part of the model.                   *)
(***************************************************************************)
EXTENDS Naturals, Sequences

CONSTANTS
  Size,     \* COMMAND_QUEUE_SIZE, TELEGRAM_QUEUE_SIZE
  Free      \* what a vacated slot holds

ASSUME SizeAssumption == Size \in Nat \ {0}

Indices == 0 .. Size - 1

next(index) == (index + 1) % Size

emptyRing ==
  [slots |-> [i \in Indices |-> Free], head |-> 0, tail |-> 0, count |-> 0]

oldest(ring) == ring.slots[ring.head]

(* Mutant: takes the newest entry, as a stack would.                       *)
dequeuedWithoutHead(ring) ==
  [slots |-> [ring.slots EXCEPT ![ring.head] = Free], head |-> ring.head,
   tail |-> ring.tail, count |-> ring.count - 1]

dequeued(ring) ==
  [slots |-> [ring.slots EXCEPT ![ring.head] = Free], head |-> next(ring.head),
   tail |-> ring.tail, count |-> ring.count - 1]

(* Mutant: makes room one entry too late.                                  *)
madeRoomLate(ring) == IF ring.count > Size THEN dequeued(ring) ELSE ring

madeRoom(ring) == IF ring.count >= Size THEN dequeued(ring) ELSE ring

enqueued(ring, x) ==
  LET room == madeRoom(ring)
  IN  [slots |-> [room.slots EXCEPT ![room.tail] = x], head |-> room.head,
       tail |-> next(room.tail), count |-> room.count + 1]

-------------------------------------------------------------------------------
(* What the ring stands for: its entries, the oldest first.                *)
Contents(ring) ==
  [i \in 1 .. ring.count |-> ring.slots[(ring.head + i - 1) % Size]]

IsRing(ring, S) ==
  /\ ring \in [slots : [Indices -> S], head : Indices, tail : Indices,
               count : 0 .. Size]
  /\ ring.tail = (ring.head + ring.count) % Size
===============================================================================
