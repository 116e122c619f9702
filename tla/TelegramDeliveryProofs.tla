------------------------ MODULE TelegramDeliveryProofs ------------------------
(***************************************************************************)
(* The tracked publish and the Telegram queue for every queue size, set of *)
(* notifications and set of packet ids: what is in flight is held by the   *)
(* client, nothing is handed over twice, and TelegramContract is kept.     *)
(***************************************************************************)
EXTENDS TelegramDeliveryRefinement, RingQueueProofs

-------------------------------------------------------------------------------
(* The inductive invariant.                                                *)

SlotInv ==
  /\ slot.phase = "empty" => slot = emptySlot
  /\ slot.phase = "staged" => slot.msg \in Message /\ slot.packetId = 0
  /\ slot.phase = "inFlight" => slot.msg \in Message /\ slot.packetId \in PacketId

(* A notification is in one place, and new to the client until it is in    *)
(* flight.                                                                 *)
PlaceInv ==
  /\ \A i \in Indices : queue.slots[i] # Free =>
       queue.slots[i] # slot.msg /\ queue.slots[i] \notin handed
  /\ \A i, j \in Indices :
       queue.slots[i] # Free /\ queue.slots[i] = queue.slots[j] => i = j
  /\ slot.phase = "staged" => slot.msg \notin handed

QueuedInv == Contents(queue) \in Seq(Message)

(* An acknowledgement under the id of the slot is about its notification.  *)
AckInv ==
  slot.phase = "inFlight" =>
    \A a \in acks : a[1] = slot.packetId => slot.msg \in delivered

IInv == TypeOK /\ SlotInv /\ PlaceInv /\ QueuedInv /\ InFlightIsHeld /\ AckInv

Slots == {Free} \cup Message

-------------------------------------------------------------------------------
(* The queue.                                                              *)

LEMMA RingOfQueue ==
  ASSUME IInv
  PROVE  /\ IsRing(queue, Slots) /\ Free \in Slots
         /\ queue.slots \in [Indices -> Slots] /\ queue.head \in Indices
         /\ Contents(queue) \in Seq(Message) /\ Len(Contents(queue)) = queue.count
         /\ queue.count \in 0 .. Size
<1>1. IsRing(queue, Slots) /\ Free \in Slots /\ Contents(queue) \in Seq(Message)
  BY DEF IInv, TypeOK, QueuedInv, Slots
<1>2. /\ queue.slots \in [Indices -> Slots] /\ queue.head \in Indices
      /\ queue.count \in 0 .. Size
  BY <1>1, RingParts
<1> QED BY <1>1, <1>2, ContentsIsSeq

(* The oldest notification leaves.                                         *)
LEMMA Dequeue ==
  ASSUME IInv, queue.count > 0
  PROVE  LET after == dequeued(queue)
         IN  /\ IsRing(after, Slots)
             /\ Contents(queue) # <<>>
             /\ Contents(after) = Tail(Contents(queue))
             /\ Contents(after) \in Seq(Message)
             /\ oldest(queue) = Head(Contents(queue)) /\ oldest(queue) \in Message
             /\ after.slots = [queue.slots EXCEPT ![queue.head] = Free]
<1>1. /\ IsRing(dequeued(queue), Slots)
      /\ Contents(queue) # <<>>
      /\ oldest(queue) = Head(Contents(queue))
      /\ Contents(dequeued(queue)) = Tail(Contents(queue))
  BY RingOfQueue, DequeueIsTail
<1>2. Tail(Contents(queue)) \in Seq(Message) /\ Head(Contents(queue)) \in Message
  BY <1>1, RingOfQueue, HeadTailProperties
<1>3. dequeued(queue).slots = [queue.slots EXCEPT ![queue.head] = Free]
  BY DEF dequeued
<1> QED BY <1>1, <1>2, <1>3

(* A new notification joins; in the slots it replaces at most the oldest.  *)
LEMMA Enqueue ==
  ASSUME IInv, NEW m \in Message, Forgotten(m), m \notin handed'
  PROVE  LET after == enqueued(queue, m)
         IN  /\ IsRing(after, Slots)
             /\ Contents(after) =
                  Append(IF Len(Contents(queue)) >= Size THEN Tail(Contents(queue))
                                                         ELSE Contents(queue), m)
             /\ Contents(after) \in Seq(Message)
             /\ \A i \in Indices :
                  after.slots[i] \in {queue.slots[i], Free, m}
             /\ \A i, j \in Indices :
                  after.slots[i] = m /\ after.slots[j] = m => i = j
<1> DEFINE after == enqueued(queue, m)
<1>1. m \in Slots
  BY DEF Slots
<1>2. /\ IsRing(after, Slots)
      /\ Contents(after) =
           Append(IF Len(Contents(queue)) >= Size THEN Tail(Contents(queue))
                                                  ELSE Contents(queue), m)
  BY <1>1, RingOfQueue, EnqueueIsAppend
<1>3. Contents(after) \in Seq(Message)
  <2>1. CASE Len(Contents(queue)) >= Size
    <3>1. Contents(queue) # <<>>
      BY <2>1, RingOfQueue, SizeAssumption
    <3>2. Tail(Contents(queue)) \in Seq(Message)
      BY <3>1, RingOfQueue, HeadTailProperties
    <3> QED BY <1>2, <2>1, <3>2, AppendProperties
  <2>2. CASE ~(Len(Contents(queue)) >= Size)
    BY <1>2, <2>2, RingOfQueue, AppendProperties
  <2> QED BY <2>1, <2>2
<1>4. \A i \in Indices : queue.slots[i] # m
  BY RingOfQueue DEF Forgotten
<1>5. m # Free
  BY TelegramAssumption
<1>6. PICK room :
        /\ room.slots \in [Indices -> Slots]
        /\ \A i \in Indices : room.slots[i] \in {queue.slots[i], Free}
        /\ after.slots = [room.slots EXCEPT ![room.tail] = m]
  <2>1. /\ madeRoom(queue).slots \in [Indices -> Slots]
        /\ \A i \in Indices : madeRoom(queue).slots[i] \in {queue.slots[i], Free}
    BY RingOfQueue DEF madeRoom, dequeued
  <2>2. after.slots = [madeRoom(queue).slots EXCEPT ![madeRoom(queue).tail] = m]
    BY DEF enqueued
  <2> QED BY <2>1, <2>2
<1>7. \A i \in Indices : after.slots[i] = IF i = room.tail THEN m ELSE room.slots[i]
  BY <1>6
<1> QED BY <1>2, <1>3, <1>4, <1>5, <1>6, <1>7

-------------------------------------------------------------------------------
(* One lemma per action that touches a notification.                       *)

LEMMA TgSendKeeps ==
  ASSUME IInv, NEW m \in Message, TgSend(m)
  PROVE  IInv'
<1>1. m \notin handed' /\ Forgotten(m) /\ m # Free
  BY TelegramAssumption DEF TgSend
<1>2. /\ handed' = handed \ {m} /\ delivered' = delivered \ {m}
      /\ slot.msg # m /\ \A i \in Indices : queue.slots[i] # m
  BY <1>1, RingOfQueue DEF TgSend, Forgotten
<1>3. CASE trackedPublishBusy
  <2>1. queue' = enqueued(queue, m) /\ slot' = slot
    BY <1>3 DEF TgSend
  <2>2. /\ IsRing(queue', Slots) /\ QueuedInv'
        /\ \A i \in Indices : queue'.slots[i] \in {queue.slots[i], Free, m}
        /\ \A i, j \in Indices :
             queue'.slots[i] = m /\ queue'.slots[j] = m => i = j
    BY <1>1, <2>1, Enqueue DEF QueuedInv
  <2>3. TypeOK'
    BY <2>1, <2>2 DEF TgSend, IInv, TypeOK, linkVars, Slots
  <2>4. PlaceInv'
    BY <1>1, <1>2, <2>1, <2>2 DEF IInv, PlaceInv
  <2>5. SlotInv' /\ InFlightIsHeld' /\ AckInv'
    BY <1>2, <2>1
    DEF TgSend, IInv, SlotInv, InFlightIsHeld, AckInv, linkVars, emptySlot
  <2> QED BY <2>2, <2>3, <2>4, <2>5 DEF IInv
<1>4. CASE ~trackedPublishBusy
  <2>1. queue' = queue /\ slot' = stagedSlot(m) /\ slot.phase = "empty"
    BY <1>4 DEF TgSend, startTrackedPublish, trackedPublishBusy
  <2>2. TypeOK'
    BY <2>1 DEF TgSend, IInv, TypeOK, linkVars, stagedSlot
  <2>3. PlaceInv' /\ QueuedInv'
    BY <1>1, <1>2, <2>1 DEF IInv, PlaceInv, QueuedInv, stagedSlot
  <2>4. SlotInv' /\ InFlightIsHeld' /\ AckInv'
    BY <2>1 DEF TgSend, IInv, SlotInv, InFlightIsHeld, AckInv, stagedSlot
  <2> QED BY <2>2, <2>3, <2>4 DEF IInv
<1> QED BY <1>3, <1>4

(* pumpTrackedPublish() on the slot as it is or as it has just been        *)
(* staged, with what is left in the queue.                                 *)
LEMMA PumpKeeps ==
  ASSUME IInv, NEW s, pumpTrackedPublish(s),
         \/ s = slot /\ queue' = queue
         \/ /\ slot.phase = "empty"
            /\ \E i \in Indices :
                 /\ queue.slots[i] \in Message /\ s = stagedSlot(queue.slots[i])
                 /\ queue'.slots = [queue.slots EXCEPT ![i] = Free],
         IsRing(queue', Slots), QueuedInv',
         pc' \in {"app", "client"},
         UNCHANGED <<linkVars, pumpRunning, acks, delivered>>
  PROVE  IInv'
<1>1. queue.slots \in [Indices -> Slots]
  BY RingOfQueue
<1>2. /\ s.phase = "staged" => s.msg \notin handed /\ s.msg \in Message
                               /\ s.packetId = 0 /\ library = {}
      /\ \A i \in Indices : queue'.slots[i] # Free =>
           queue'.slots[i] # s.msg /\ queue'.slots[i] \notin handed
      /\ \A i, j \in Indices :
           queue'.slots[i] # Free /\ queue'.slots[i] = queue'.slots[j] => i = j
      /\ s \in [phase : {"empty", "staged", "inFlight"},
                packetId : PacketId \cup {0}, msg : Message \cup {Free}]
      /\ s.phase # "staged" => s = slot
  <2>1. CASE s = slot /\ queue' = queue
    BY <2>1 DEF IInv, TypeOK, PlaceInv, SlotInv, InFlightIsHeld
  <2>2. ASSUME slot.phase = "empty", NEW i \in Indices,
               queue.slots[i] \in Message, s = stagedSlot(queue.slots[i]),
               queue'.slots = [queue.slots EXCEPT ![i] = Free]
        PROVE  <1>2!1 /\ <1>2!2 /\ <1>2!3 /\ <1>2!4 /\ <1>2!5
    <3>1. s.phase = "staged" /\ s.packetId = 0 /\ s.msg = queue.slots[i]
      BY <2>2 DEF stagedSlot
    <3>2. queue.slots[i] # Free /\ queue.slots[i] \notin handed
      BY <2>2, TelegramAssumption DEF IInv, PlaceInv
    <3>3. library = {}
      BY <2>2 DEF IInv, InFlightIsHeld
    <3>4. \A j \in Indices : queue'.slots[j] = IF j = i THEN Free ELSE queue.slots[j]
      BY <1>1, <2>2
    <3>5. <1>2!2 /\ <1>2!3
      BY <3>1, <3>2, <3>4 DEF IInv, PlaceInv
    <3> QED BY <2>2, <3>1, <3>2, <3>3, <3>5 DEF stagedSlot
  <2> QED BY <2>1, <2>2
<1>3. CASE slot' = s /\ UNCHANGED <<library, handed>>
  <2>1. TypeOK'
    BY <1>2, <1>3 DEF IInv, TypeOK, linkVars, Slots
  <2>2. SlotInv'
    BY <1>2, <1>3 DEF IInv, SlotInv, emptySlot
  <2>3. PlaceInv'
    BY <1>2, <1>3 DEF PlaceInv
  <2>4. InFlightIsHeld' /\ AckInv'
    BY <1>2, <1>3 DEF IInv, InFlightIsHeld, AckInv
  <2> QED BY <2>1, <2>2, <2>3, <2>4 DEF IInv
<1>4. ASSUME s.phase = "staged", NEW id \in FreshId,
             slot' = [s EXCEPT !.phase = "inFlight", !.packetId = id],
             library' = library \cup {[id |-> id, msg |-> s.msg]},
             handed' = handed \cup {s.msg}
      PROVE  IInv'
  <2>1. /\ slot'.phase = "inFlight" /\ slot'.packetId = id /\ slot'.msg = s.msg
        /\ id \in PacketId /\ s.msg \in Message
        /\ library' = {[id |-> id, msg |-> s.msg]}
        /\ \A a \in acks : a[1] # id
    BY <1>2, <1>4 DEF FreshId
  <2>2. slot' \in [phase : {"empty", "staged", "inFlight"},
                   packetId : PacketId \cup {0}, msg : Message \cup {Free}]
    BY <1>2, <1>4, <2>1
  <2>3. TypeOK'
    BY <1>4, <2>1, <2>2 DEF IInv, TypeOK, linkVars, Slots, Publishes
  <2>4. SlotInv' /\ InFlightIsHeld' /\ AckInv'
    BY <2>1 DEF SlotInv, InFlightIsHeld, AckInv
  <2>5. PlaceInv'
    BY <1>2, <1>4, <2>1 DEF PlaceInv
  <2> QED BY <2>3, <2>4, <2>5 DEF IInv
<1> QED BY <1>3, <1>4 DEF pumpTrackedPublish

LEMMA ServiceKeeps ==
  ASSUME IInv, ServiceTelegramDelivery
  PROVE  IInv'
<1> USE DEF appVars
<1>1. CASE UNCHANGED <<appVars, library>>
  BY <1>1
  DEF ServiceTelegramDelivery, IInv, TypeOK, SlotInv, PlaceInv, QueuedInv,
      InFlightIsHeld, AckInv, linkVars, emptySlot
<1>2. CASE pumpTrackedPublish(slot) /\ UNCHANGED queue
  <2>1. IsRing(queue', Slots) /\ QueuedInv'
    BY <1>2, RingOfQueue DEF QueuedInv
  <2> QED BY <1>2, <2>1, PumpKeeps DEF ServiceTelegramDelivery
<1>3. CASE TakeOldest
  <2>1. /\ slot.phase = "empty" /\ queue.count > 0
        /\ pumpTrackedPublish(stagedSlot(oldest(queue))) /\ queue' = dequeued(queue)
    BY <1>3 DEF TakeOldest, trackedPublishBusy
  <2>2. /\ IsRing(queue', Slots) /\ QueuedInv'
        /\ queue'.slots = [queue.slots EXCEPT ![queue.head] = Free]
        /\ queue.head \in Indices /\ queue.slots[queue.head] \in Message
    BY <2>1, Dequeue, RingOfQueue DEF QueuedInv, oldest
  <2>3. stagedSlot(oldest(queue)) = stagedSlot(queue.slots[queue.head])
    BY DEF oldest
  <2>4. pc' \in {"app", "client"}
        /\ UNCHANGED <<linkVars, pumpRunning, acks, delivered>>
    BY DEF ServiceTelegramDelivery
  <2> QED BY <2>1, <2>2, <2>3, <2>4, PumpKeeps
<1> QED BY <1>1, <1>2, <1>3 DEF ServiceTelegramDelivery

(* The broker receives what is in flight.                                  *)
LEMMA Received ==
  ASSUME IInv, BrokerReceives
  PROVE  /\ slot.phase = "inFlight" /\ slot.msg \in Message
         /\ delivered' = delivered \cup {slot.msg}
<1>1. PICK p \in library : delivered' = delivered \cup {p.msg}
  BY DEF BrokerReceives
<1>2. slot.phase = "inFlight" /\ p = [id |-> slot.packetId, msg |-> slot.msg]
  BY <1>1 DEF IInv, InFlightIsHeld
<1> QED BY <1>1, <1>2 DEF IInv, SlotInv

LEMMA BrokerReceivesKeeps ==
  ASSUME IInv, BrokerReceives
  PROVE  IInv'
<1>1. PICK p \in library, copy \in Copies : acks' = acks \cup {<<p.id, copy>>}
  BY DEF BrokerReceives
<1>2. acks' \subseteq PacketId \X Copies
  BY <1>1 DEF IInv, TypeOK, Publishes
<1>3. slot.msg \in delivered' /\ delivered' \subseteq Message
  BY Received DEF IInv, TypeOK
<1>4. TypeOK'
  BY <1>2, <1>3 DEF BrokerReceives, IInv, TypeOK, linkVars, appVars
<1>5. PlaceInv' /\ QueuedInv' /\ SlotInv' /\ InFlightIsHeld'
  BY DEF BrokerReceives, IInv, PlaceInv, QueuedInv, SlotInv, InFlightIsHeld,
         appVars, emptySlot
<1>6. AckInv'
  BY <1>3 DEF BrokerReceives, AckInv, appVars
<1> QED BY <1>4, <1>5, <1>6 DEF IInv

(* An acknowledgement either releases the slot, together with the publish  *)
(* that the client holds, or changes neither.                              *)
LEMMA Acknowledged ==
  ASSUME IInv, PubAck
  PROVE  \/ /\ slot.phase = "inFlight" /\ slot.msg \in delivered
            /\ slot' = emptySlot /\ library' = {}
         \/ slot' = slot /\ library' = library
<1>1. PICK a \in acks :
        /\ library' = {p \in library : p.id # a[1]}
        /\ slot' = IF trackedPublishAckMatches(a[1]) THEN emptySlot ELSE slot
  BY DEF PubAck
<1>2. CASE trackedPublishAckMatches(a[1])
  <2>1. slot.phase = "inFlight" /\ slot.packetId = a[1]
    BY <1>2 DEF trackedPublishAckMatches
  <2>2. library' = {}
    BY <1>1, <2>1 DEF IInv, InFlightIsHeld
  <2> QED BY <1>1, <1>2, <2>1, <2>2 DEF IInv, AckInv
<1>3. CASE ~trackedPublishAckMatches(a[1])
  <2>1. \A p \in library : p.id # a[1]
    BY <1>3 DEF IInv, InFlightIsHeld, trackedPublishAckMatches
  <2> QED BY <1>1, <1>3, <2>1
<1> QED BY <1>2, <1>3

LEMMA PubAckKeeps ==
  ASSUME IInv, PubAck
  PROVE  IInv'
<1>1. /\ acks' \subseteq acks
      /\ UNCHANGED <<pc, conn, ready, pumpRunning, queue, handed, delivered>>
  BY DEF PubAck, linkVars
<1>2. CASE slot' = slot /\ library' = library
  BY <1>1, <1>2
  DEF IInv, TypeOK, PlaceInv, QueuedInv, SlotInv, InFlightIsHeld, AckInv, emptySlot
<1>3. CASE slot' = emptySlot /\ library' = {}
  BY <1>1, <1>3
  DEF IInv, TypeOK, PlaceInv, QueuedInv, SlotInv, InFlightIsHeld, AckInv, emptySlot
<1> QED BY <1>2, <1>3, Acknowledged

LEMMA EmptyKeeps ==
  ASSUME slot' = emptySlot, queue' = emptyRing, library' = {}, acks' = {},
         delivered' = {}, handed' = {}, pc' = "app", conn' = "disconnected",
         ready' = FALSE, pumpRunning' = FALSE
  PROVE  IInv' /\ Contents(queue)' = <<>>
<1>1. IsRing(emptyRing, Slots) /\ Contents(emptyRing) = <<>>
  BY EmptyRing DEF Slots
<1>2. \A i \in Indices : emptyRing.slots[i] = Free
  BY DEF emptyRing
<1>3. Contents(queue)' = <<>> /\ QueuedInv'
  BY <1>1, EmptySeq DEF QueuedInv
<1>4. TypeOK'
  BY <1>1 DEF TypeOK, emptySlot, Slots
<1> QED
  BY <1>2, <1>3, <1>4
  DEF IInv, SlotInv, PlaceInv, InFlightIsHeld, AckInv, emptySlot

(* The steps of the connection, the pump and the loop.                     *)
LEMMA OthersKeep ==
  ASSUME IInv, UNCHANGED <<appVars, library, delivered>>, acks' \subseteq acks,
         pc' \in {"app", "client"}, pumpRunning' \in BOOLEAN, ready' \in BOOLEAN,
         conn' \in {"disconnected", "transitioning", "connected"}
  PROVE  IInv'
<1>1. slot' = slot /\ queue' = queue /\ handed' = handed
  BY DEF appVars
<1> QED
  BY <1>1
  DEF IInv, TypeOK, SlotInv, PlaceInv, QueuedInv, InFlightIsHeld, AckInv, emptySlot

-------------------------------------------------------------------------------
LEMMA InitEstablishes ==
  ASSUME Init
  PROVE  IInv /\ Contents(queue) = <<>>
<1>1. IsRing(emptyRing, Slots) /\ Contents(emptyRing) = <<>>
  BY EmptyRing DEF Slots
<1>2. \A i \in Indices : emptyRing.slots[i] = Free
  BY DEF emptyRing
<1>3. Contents(queue) = <<>> /\ QueuedInv
  BY <1>1, EmptySeq DEF QueuedInv, Init
<1>4. TypeOK
  BY <1>1 DEF TypeOK, emptySlot, Slots, Init
<1> QED
  BY <1>2, <1>3, <1>4
  DEF IInv, SlotInv, PlaceInv, InFlightIsHeld, AckInv, emptySlot, Init

Elsewhere ==
  CallClient \/ ReturnToApp \/ SwitchPump \/ Connect \/ SessionDone
    \/ ConnectionLost \/ Disconnected

LEMMA ElsewhereKeeps ==
  ASSUME IInv, Elsewhere
  PROVE  /\ UNCHANGED <<appVars, library, delivered>> /\ acks' \subseteq acks
         /\ IInv'
<1>1. /\ UNCHANGED <<appVars, library, delivered>> /\ acks' \subseteq acks
      /\ pc' \in {"app", "client"} /\ pumpRunning' \in BOOLEAN /\ ready' \in BOOLEAN
      /\ conn' \in {"disconnected", "transitioning", "connected"}
  BY DEF Elsewhere, CallClient, ReturnToApp, SwitchPump, Connect, SessionDone,
         ConnectionLost, Disconnected, linkVars, wireVars, IInv, TypeOK
<1> QED BY <1>1, OthersKeep

LEMMA NextKeeps == IInv /\ [Next]_vars => IInv'
<1> SUFFICES ASSUME IInv, [Next]_vars PROVE IInv'
  OBVIOUS
<1>1. ASSUME NEW m \in Message, TgSend(m) PROVE IInv'
  BY <1>1, TgSendKeeps
<1>2. CASE ServiceTelegramDelivery
  BY <1>2, ServiceKeeps
<1>3. CASE Elsewhere
  BY <1>3, ElsewhereKeeps
<1>4. CASE BrokerReceives
  BY <1>4, BrokerReceivesKeeps
<1>5. CASE PubAck
  BY <1>5, PubAckKeeps
<1>6. CASE Restart
  BY <1>6, EmptyKeeps DEF Restart
<1>7. CASE UNCHANGED vars
  BY <1>7, OthersKeep DEF vars, linkVars, wireVars, IInv, TypeOK
<1> QED BY <1>1, <1>2, <1>3, <1>4, <1>5, <1>6, <1>7 DEF Next, Elsewhere

(* Every reachable state satisfies the inductive invariant.                *)
THEOREM Invariance == Spec => []IInv
<1>1. Init => IInv
  BY InitEstablishes
<1> QED BY <1>1, NextKeeps, PTL DEF Spec

(* The type invariant.                                                     *)
THEOREM TypeCorrect == Spec => []TypeOK
<1>1. IInv => TypeOK
  BY DEF IInv
<1> QED BY <1>1, Invariance, PTL

(* What is in flight is held by the client, and nothing else is.           *)
THEOREM InFlightIsAlwaysHeld == Spec => []InFlightIsHeld
<1>1. IInv => InFlightIsHeld
  BY DEF IInv
<1> QED BY <1>1, Invariance, PTL

(* The firmware hands no notification to the client twice.                 *)
LEMMA HandedNew ==
  ASSUME IInv, Next
  PROVE  \A p \in library' \ library : p.msg \notin handed
<1>1. ASSUME NEW s, pumpTrackedPublish(s), s.phase = "staged" => s.msg \notin handed
      PROVE  \A p \in library' \ library : p.msg \notin handed
  <2>1. CASE library' = library
    BY <2>1
  <2>2. ASSUME NEW id, library' = library \cup {[id |-> id, msg |-> s.msg]}
        PROVE  \A p \in library' \ library : p.msg = s.msg
    BY <2>2
  <2> QED BY <1>1, <2>1, <2>2 DEF pumpTrackedPublish
<1>2. CASE ServiceTelegramDelivery
  <2>1. CASE UNCHANGED <<appVars, library>>
    BY <2>1
  <2>2. CASE pumpTrackedPublish(slot)
    BY <1>1, <2>2 DEF IInv, PlaceInv
  <2>3. CASE TakeOldest
    <3>1. queue.count > 0 /\ pumpTrackedPublish(stagedSlot(oldest(queue)))
      BY <2>3 DEF TakeOldest
    <3>2. oldest(queue) \in Message /\ queue.head \in Indices
      BY <3>1, Dequeue, RingOfQueue
    <3>3. oldest(queue) \notin handed
      BY <3>2, TelegramAssumption DEF oldest, IInv, PlaceInv
    <3> QED BY <1>1, <3>1, <3>3 DEF stagedSlot
  <2> QED BY <1>2, <2>1, <2>2, <2>3 DEF ServiceTelegramDelivery
<1>3. CASE Elsewhere
  BY <1>3, ElsewhereKeeps
<1>4. CASE \E m \in Message : TgSend(m)
  BY <1>4 DEF TgSend
<1>5. CASE BrokerReceives
  BY <1>5 DEF BrokerReceives
<1>6. CASE PubAck \/ Restart
  BY <1>6 DEF PubAck, Restart
<1> QED BY <1>2, <1>3, <1>4, <1>5, <1>6 DEF Next, Elsewhere

THEOREM HandedOnce == Spec => PublishedOnce
<1>1. IInv /\ [Next]_vars => [\A p \in library' \ library : p.msg \notin handed]_vars
  BY HandedNew
<1> QED BY <1>1, Invariance, PTL DEF Spec, PublishedOnce

-------------------------------------------------------------------------------
(* The refinement.                                                         *)

LEMMA InSlot ==
  ASSUME IInv
  PROVE  inSlot = IF slot.phase = "empty" THEN <<>> ELSE <<slot.msg>>
  BY DEF inSlot, trackedPublishBusy

(* tgSend() accepts a notification.                                        *)
LEMMA TgSendRefines ==
  ASSUME IInv, NEW m \in Message, TgSend(m)
  PROVE  Contract!Accept(m)
<1>1. m \notin handed' /\ Forgotten(m) /\ delivered' = delivered \ {m}
  BY DEF TgSend
<1>2. CASE trackedPublishBusy
  <2>1. queue' = enqueued(queue, m) /\ slot' = slot
    BY <1>2 DEF TgSend
  <2>2. Contents(queue)' =
          Append(IF Len(Contents(queue)) >= Size THEN Tail(Contents(queue))
                                                 ELSE Contents(queue), m)
    BY <1>1, <2>1, Enqueue
  <2>3. inSlot # <<>> /\ inSlot' = inSlot
    BY <1>2, <2>1 DEF inSlot, trackedPublishBusy
  <2> QED BY <1>1, <2>2, <2>3 DEF Contract!Accept
<1>3. CASE ~trackedPublishBusy
  <2>1. queue' = queue /\ slot' = stagedSlot(m)
    BY <1>3 DEF TgSend, startTrackedPublish
  <2>2. inSlot = <<>> /\ inSlot' = <<m>>
    BY <1>3, <2>1 DEF inSlot, trackedPublishBusy, stagedSlot
  <2> QED BY <1>1, <2>1, <2>2 DEF Contract!Accept
<1> QED BY <1>2, <1>3

(* serviceTelegramDelivery() takes the oldest notification that waits, or  *)
(* changes nothing that the contract speaks of.                            *)
LEMMA ServiceRefines ==
  ASSUME IInv, ServiceTelegramDelivery
  PROVE  Contract!Take \/ UNCHANGED Contract!vars
<1> DEFINE Same == inSlot' = inSlot /\ Contents(queue)' = Contents(queue)
<1>1. delivered' = delivered
  BY DEF ServiceTelegramDelivery
<1>2. Same => UNCHANGED Contract!vars
  BY <1>1 DEF Contract!vars
<1>3. ASSUME NEW s, pumpTrackedPublish(s), s.phase # "empty",
             s = slot \/ \E m \in Message : s = stagedSlot(m)
      PROVE  inSlot' = <<s.msg>>
  <2>1. s \in [phase : {"empty", "staged", "inFlight"},
               packetId : PacketId \cup {0}, msg : Message \cup {Free}]
    BY <1>3 DEF IInv, TypeOK, stagedSlot
  <2>2. slot'.phase # "empty" /\ slot'.msg = s.msg
    BY <1>3, <2>1 DEF pumpTrackedPublish
  <2> QED BY <2>2 DEF inSlot, trackedPublishBusy
<1>4. CASE UNCHANGED <<appVars, library>>
  BY <1>2, <1>4 DEF appVars, inSlot, trackedPublishBusy
<1>5. CASE trackedPublishBusy /\ pumpTrackedPublish(slot) /\ UNCHANGED queue
  BY <1>2, <1>3, <1>5 DEF inSlot, trackedPublishBusy
<1>6. CASE TakeOldest
  <2>1. /\ slot.phase = "empty" /\ queue.count > 0
        /\ pumpTrackedPublish(stagedSlot(oldest(queue))) /\ queue' = dequeued(queue)
    BY <1>6 DEF TakeOldest, trackedPublishBusy
  <2>2. inSlot' = <<oldest(queue)>> /\ inSlot = <<>>
    BY <1>3, <2>1, Dequeue DEF stagedSlot, inSlot, trackedPublishBusy
  <2>3. /\ Contents(queue) # <<>> /\ oldest(queue) = Head(Contents(queue))
        /\ Contents(queue)' = Tail(Contents(queue))
    BY <2>1, Dequeue
  <2> QED BY <1>1, <2>2, <2>3 DEF Contract!Take
<1> QED BY <1>4, <1>5, <1>6 DEF ServiceTelegramDelivery

LEMMA NextRefines ==
  ASSUME IInv, [Next]_vars
  PROVE  [Contract!Next]_(Contract!vars)
<1>1. ASSUME NEW m \in Message, TgSend(m) PROVE Contract!Next
  BY <1>1, TgSendRefines DEF Contract!Next
<1>2. CASE ServiceTelegramDelivery
  BY <1>2, ServiceRefines DEF Contract!Next
<1>3. CASE Elsewhere \/ UNCHANGED vars
  <2>1. UNCHANGED <<appVars, delivered>>
    BY <1>3, ElsewhereKeeps DEF vars, wireVars
  <2> QED BY <2>1 DEF appVars, Contract!vars, inSlot, trackedPublishBusy
<1>4. CASE BrokerReceives
  <2>1. slot' = slot /\ queue' = queue
    BY <1>4 DEF BrokerReceives, appVars
  <2>2. inSlot # <<>> /\ inSlot[1] = slot.msg /\ inSlot' = inSlot
    BY <1>4, <2>1, Received DEF inSlot, trackedPublishBusy
  <2>3. Contract!Deliver
    BY <1>4, <2>1, <2>2, Received DEF Contract!Deliver
  <2> QED BY <2>3 DEF Contract!Next
<1>5. CASE PubAck
  <2>1. queue' = queue /\ delivered' = delivered
    BY <1>5 DEF PubAck
  <2>2. CASE slot' = slot
    BY <2>1, <2>2 DEF Contract!vars, inSlot, trackedPublishBusy
  <2>3. CASE slot.phase = "inFlight" /\ slot.msg \in delivered /\ slot' = emptySlot
    <3>1. inSlot = <<slot.msg>> /\ inSlot' = <<>>
      BY <2>3 DEF inSlot, trackedPublishBusy, emptySlot
    <3>2. Contract!Release
      BY <2>1, <2>3, <3>1 DEF Contract!Release
    <3> QED BY <3>2 DEF Contract!Next
  <2> QED BY <1>5, <2>2, <2>3, Acknowledged
<1>6. CASE Restart
  <2>1. Contents(queue)' = <<>> /\ inSlot' = <<>> /\ delivered' = {}
    BY <1>6, EmptyKeeps DEF Restart, inSlot, trackedPublishBusy, emptySlot
  <2> QED BY <2>1 DEF Contract!Reset, Contract!Next
<1> QED BY <1>1, <1>2, <1>3, <1>4, <1>5, <1>6 DEF Next, Elsewhere

(* The firmware keeps the promise of TelegramContract.                     *)
THEOREM ContractKept == Spec => ImplementsContract
<1>1. ASSUME Init PROVE Contract!Init
  <2>1. slot = emptySlot /\ delivered = {} /\ Contents(queue) = <<>>
    BY <1>1, InitEstablishes DEF Init
  <2> QED BY <2>1 DEF Contract!Init, inSlot, trackedPublishBusy, emptySlot
<1>2. IInv /\ [Next]_vars => [Contract!Next]_(Contract!vars)
  BY NextRefines
<1> QED BY <1>1, <1>2, Invariance, PTL DEF Spec, ImplementsContract, Contract!Spec

-------------------------------------------------------------------------------
(* serviceTelegramDelivery() hands over, with the pump off, or stages what *)
(* it took from the queue, or leaves the slot alone.                       *)
LEMMA ServiceRefinesSlot ==
  ASSUME IInv, ServiceTelegramDelivery
  PROVE  [Slot!Next]_(Slot!vars)
<1> USE DEF Slot!Next, Slot!vars
<1>1. UNCHANGED pumpRunning
  BY DEF ServiceTelegramDelivery
<1>2. CASE UNCHANGED slot
  BY <1>1, <1>2
<1>3. CASE ~pumpRunning /\ trackedPublishBusy /\ pumpTrackedPublish(slot)
  <2>1. CASE slot.phase = "staged" /\ slot'.phase = "inFlight"
    BY <1>1, <1>3, <2>1 DEF Slot!Hand
  <2>2. slot' = slot \/ (slot.phase = "staged" /\ slot'.phase = "inFlight")
    BY <1>3 DEF pumpTrackedPublish, IInv, TypeOK
  <2> QED BY <1>2, <2>1, <2>2
<1>4. CASE ~pumpRunning /\ TakeOldest
  <2>1. slot.phase = "empty"
    BY <1>4 DEF TakeOldest, trackedPublishBusy
  <2>2. slot'.phase \in {"staged", "inFlight"}
    <3> DEFINE s == stagedSlot(oldest(queue))
    <3>1. s = [phase |-> "staged", packetId |-> 0, msg |-> oldest(queue)]
      BY DEF stagedSlot
    <3>2. pumpTrackedPublish(s)
      BY <1>4 DEF TakeOldest
    <3> HIDE DEF s
    <3>3. CASE slot' = s
      BY <3>1, <3>3
    <3>4. CASE slot' # s
      <4>1. PICK id \in FreshId : slot' = [s EXCEPT !.phase = "inFlight", !.packetId = id]
        BY <3>2, <3>4 DEF pumpTrackedPublish
      <4> QED BY <3>1, <4>1
    <3> QED BY <3>3, <3>4
  <2> QED BY <1>1, <1>4, <2>1, <2>2 DEF Slot!Stage, Slot!Hand
<1> QED BY <1>2, <1>3, <1>4 DEF ServiceTelegramDelivery, appVars

(* Every step is one of SlotContract, or changes nothing it speaks of.     *)
LEMMA NextRefinesSlot ==
  ASSUME IInv, [Next]_vars
  PROVE  [Slot!Next]_(Slot!vars)
<1> USE DEF Slot!Next, Slot!vars
<1>1. CASE \E m \in Message : TgSend(m)
  <2>1. PICK m \in Message : TgSend(m)
    BY <1>1
  <2>2. \/ UNCHANGED slot
        \/ slot.phase = "empty" /\ slot'.phase = "staged"
    BY <2>1 DEF TgSend, startTrackedPublish, trackedPublishBusy, stagedSlot
  <2> QED BY <2>1, <2>2 DEF TgSend, Slot!Stage
<1>2. CASE ServiceTelegramDelivery
  BY <1>2, ServiceRefinesSlot
<1>3. CASE SwitchPump
  BY <1>3 DEF SwitchPump, trackedPublishBusy, appVars, IInv, TypeOK,
     Slot!StartPump, Slot!StopPump
<1>4. CASE PubAck
  <2>1. \/ UNCHANGED slot
        \/ slot.phase = "inFlight" /\ slot'.phase = "empty"
    BY <1>4 DEF PubAck, trackedPublishAckMatches, emptySlot
  <2> QED BY <1>4, <2>1 DEF PubAck, Slot!Acknowledge
<1>5. CASE Restart
  BY <1>5 DEF Restart, emptySlot, Slot!Reset
<1>6. CASE \/ CallClient \/ ReturnToApp \/ Connect \/ SessionDone \/ ConnectionLost
           \/ Disconnected \/ BrokerReceives \/ UNCHANGED vars
  BY <1>6 DEF CallClient, ReturnToApp, Connect, SessionDone, ConnectionLost,
     Disconnected, BrokerReceives, appVars, vars
<1> QED BY <1>1, <1>2, <1>3, <1>4, <1>5, <1>6 DEF Next

(* The slot with its message, id and queue is the slot that PumpControl    *)
(* has; the other half is SlotIsKept of PumpControlProofs.                 *)
THEOREM SlotIsKept == Spec => ImplementsSlotContract
<1>1. Init => Slot!Init
  BY DEF Init, emptySlot, Slot!Init
<1>2. IInv /\ [Next]_vars => [Slot!Next]_(Slot!vars)
  BY NextRefinesSlot
<1> QED BY <1>1, <1>2, Invariance, PTL DEF Spec, ImplementsSlotContract, Slot!Spec

(* Both contracts of the delivery.                                         *)
THEOREM ContractsAreKept == Spec => ImplementsContracts
BY ContractKept, SlotIsKept, PTL DEF ImplementsContracts

(* The contract itself: nothing is in flight while the pump runs.          *)
LEMMA SlotIsQuiet == Slot!Spec => []Slot!NothingInFlightWhileRunning
<1>1. Slot!Init => Slot!NothingInFlightWhileRunning
  BY DEF Slot!Init, Slot!NothingInFlightWhileRunning
<1>2. Slot!NothingInFlightWhileRunning /\ [Slot!Next]_(Slot!vars) =>
        Slot!NothingInFlightWhileRunning'
  BY DEF Slot!Next, Slot!vars, Slot!NothingInFlightWhileRunning, Slot!Stage, Slot!Hand,
         Slot!Acknowledge, Slot!StartPump, Slot!StopPump, Slot!Reset
<1> QED BY <1>1, <1>2, PTL DEF Slot!Spec

(* So no notification is in flight during a run, whenever it was sent and  *)
(* however often the connection was lost.                                  *)
THEOREM NothingInFlightInARun == Spec => []Slot!NothingInFlightWhileRunning
BY SlotIsKept, SlotIsQuiet, PTL DEF ImplementsSlotContract
===============================================================================
