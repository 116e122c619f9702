--------------------------- MODULE TelegramDelivery ---------------------------
(***************************************************************************)
(* Telegram notifications: tgSend() and serviceTelegramDelivery() of       *)
(* src/main.cpp with their queue, the tracked QoS 1 publish of             *)
(* src/mqtt_runtime_adapter.cpp, and the client library that keeps an      *)
(* unacknowledged publish across connections and sends it again.           *)
(*                                                                         *)
(* pc = "client" stands for every call into the client, in which it sends, *)
(* receives and calls back; pc = "app" for the code between two calls.     *)
(*                                                                         *)
(* Left open: Wi-Fi, the steps of the session, other traffic and so        *)
(* whether the outbox has room, when the pump runs.                        *)
(*                                                                         *)
(* An operator marked "Mutant" is not part of the model: it is the one     *)
(* after it with a plausible mistake, which a property must notice.        *)
(***************************************************************************)
EXTENDS RingQueue

CONSTANTS
  Message,      \* the notifications that can be told apart
  PacketId,
  Copies        \* bound: acknowledgements of one publish under way

ASSUME TelegramAssumption ==
  /\ Free \notin Message
  /\ 0 \notin PacketId

VARIABLES
  pc,
  conn,           \* the client's state
  ready,          \* mqttSessionReady()
  pumpRunning,
  slot,           \* trackedPublishState_, trackedPayload_
  queue,          \* telegramQueue, its head, tail and count
  library,        \* the publishes the client holds for sending
  acks,           \* PUBACKs under way on this connection
  delivered,      \* ghost: what the broker has received
  handed          \* ghost: what has been handed to the client

linkVars == <<conn, ready>>
appVars  == <<slot, queue, handed>>
wireVars == <<library, acks, delivered>>
vars == <<pc, linkVars, pumpRunning, appVars, wireVars>>

emptySlot     == [phase |-> "empty", packetId |-> 0, msg |-> Free]
stagedSlot(m) == [phase |-> "staged", packetId |-> 0, msg |-> m]

Publishes == [id : PacketId, msg : Message]

TypeOK ==
  /\ pc \in {"app", "client"}
  /\ conn \in {"disconnected", "transitioning", "connected"}
  /\ ready \in BOOLEAN /\ pumpRunning \in BOOLEAN
  /\ slot \in [phase : {"empty", "staged", "inFlight"},
               packetId : PacketId \cup {0}, msg : Message \cup {Free}]
  /\ IsRing(queue, {Free} \cup Message)
  /\ library \subseteq Publishes
  /\ acks \subseteq PacketId \X Copies
  /\ delivered \subseteq Message /\ handed \subseteq Message

trackedPublishBusy == slot.phase # "empty"

-------------------------------------------------------------------------------
(* The application.                                                        *)

(* A name is used for a new notification when nothing of the old is left.  *)
Forgotten(m) ==
  /\ slot.msg # m
  /\ \A i \in DOMAIN queue.slots : queue.slots[i] # m

startTrackedPublish(m) ==
  ~trackedPublishBusy /\ slot' = stagedSlot(m)

(* tgSend(): to the slot if it is free, to the queue otherwise.  Texts too *)
(* long for the slot end here; what is accepted, startTrackedPublish()     *)
(* accepts, too.                                                           *)
TgSend(m) ==
  /\ pc = "app"
  /\ Forgotten(m)
  /\ IF trackedPublishBusy
     THEN queue' = enqueued(queue, m) /\ UNCHANGED slot
     ELSE startTrackedPublish(m) /\ UNCHANGED queue
  /\ delivered' = delivered \ {m}
  /\ handed' = handed \ {m}
  /\ UNCHANGED <<pc, linkVars, pumpRunning, library, acks>>

(* An id that no publish of this connection still has.                     *)
FreshId == PacketId \ ({p.id : p \in library} \cup {a[1] : a \in acks})

(* Mutant: leaves the publish staged, as if it had not been taken.         *)
pumpTrackedPublishUnrecorded(s) ==
  \/ /\ s.phase = "staged" /\ conn = "connected"
     /\ \E id \in FreshId :
          /\ slot' = [s EXCEPT !.packetId = id]
          /\ library' = library \cup {[id |-> id, msg |-> s.msg]}
     /\ handed' = handed \cup {s.msg}
  \/ slot' = s /\ UNCHANGED <<library, handed>>

(* pumpTrackedPublish(): the publish is handed to the client, or the       *)
(* outbox has no room, or there is nothing to hand over.                   *)
pumpTrackedPublish(s) ==
  \/ /\ s.phase = "staged" /\ conn = "connected"
     /\ \E id \in FreshId :
          /\ slot' = [s EXCEPT !.phase = "inFlight", !.packetId = id]
          /\ library' = library \cup {[id |-> id, msg |-> s.msg]}
     /\ handed' = handed \cup {s.msg}
  \/ slot' = s /\ UNCHANGED <<library, handed>>

(* Mutant: leaves the notification in the queue.                           *)
TakeWithoutDequeue ==
  /\ ~trackedPublishBusy /\ queue.count > 0
  /\ pumpTrackedPublish(stagedSlot(oldest(queue)))
  /\ UNCHANGED queue

(* The oldest notification moves to the slot.                              *)
TakeOldest ==
  /\ ~trackedPublishBusy /\ queue.count > 0
  /\ pumpTrackedPublish(stagedSlot(oldest(queue)))
  /\ queue' = dequeued(queue)

(* Mutant: also while the pump runs.                                       *)
DeliverAnyTime ==
  /\ pc = "app"
  /\ pc' = "client"
  /\ IF ~ready THEN UNCHANGED <<appVars, library>>
     ELSE IF trackedPublishBusy THEN pumpTrackedPublish(slot) /\ UNCHANGED queue
     ELSE IF queue.count = 0 THEN UNCHANGED <<appVars, library>>
     ELSE TakeOldest
  /\ UNCHANGED <<linkVars, pumpRunning, acks, delivered>>

(* serviceTelegramDelivery(), once a pass, not while the pump runs.  It    *)
(* drops what is too long, which tgSend() has not let in.                  *)
ServiceTelegramDelivery ==
  /\ pc = "app"
  /\ pc' = "client"
  /\ IF pumpRunning \/ ~ready THEN UNCHANGED <<appVars, library>>
     ELSE IF trackedPublishBusy THEN pumpTrackedPublish(slot) /\ UNCHANGED queue
     ELSE IF queue.count = 0 THEN UNCHANGED <<appVars, library>>
     ELSE TakeOldest
  /\ UNCHANGED <<linkVars, pumpRunning, acks, delivered>>

(* Any other call into the client, and the return from one.                *)
CallClient ==
  pc = "app" /\ pc' = "client"
  /\ UNCHANGED <<linkVars, pumpRunning, appVars, wireVars>>

ReturnToApp ==
  pc = "client" /\ pc' = "app"
  /\ UNCHANGED <<linkVars, pumpRunning, appVars, wireVars>>

(* startPump() needs a ready session and a free slot.                      *)
SwitchPump ==
  /\ pc = "app"
  /\ \/ pumpRunning
     \/ ready /\ conn = "connected" /\ ~trackedPublishBusy
  /\ pumpRunning' = ~pumpRunning
  /\ UNCHANGED <<pc, linkVars, appVars, wireVars>>

-------------------------------------------------------------------------------
(* The connection.                                                         *)
Connect ==
  /\ conn = "disconnected" /\ ~pumpRunning
  /\ conn' = "connected"
  /\ UNCHANGED <<pc, ready, pumpRunning, appVars, wireVars>>

(* serviceMqttSessionInit() comes to Done.                                 *)
SessionDone ==
  /\ pc = "app" /\ conn = "connected"
  /\ ready' = TRUE
  /\ UNCHANGED <<pc, conn, pumpRunning, appVars, wireVars>>

ConnectionLost ==
  /\ pc = "client" /\ conn = "connected"
  /\ conn' = "transitioning"
  /\ UNCHANGED <<pc, ready, pumpRunning, appVars, wireVars>>

(* Mutant: starts the publish afresh on the next connection.               *)
DisconnectedDowngrading ==
  /\ conn # "disconnected"
  /\ conn' = "disconnected"
  /\ ready' = FALSE
  /\ acks' = {}
  /\ slot' = IF trackedPublishBusy THEN stagedSlot(slot.msg) ELSE slot
  /\ UNCHANGED <<pc, pumpRunning, queue, handed, library, delivered>>

(* Mutant: the acknowledgement of the repeated publish is a stranger's.    *)
DisconnectedForgettingId ==
  /\ conn # "disconnected"
  /\ conn' = "disconnected"
  /\ ready' = FALSE
  /\ acks' = {}
  /\ slot' = [slot EXCEPT !.packetId = 0]
  /\ UNCHANGED <<pc, pumpRunning, queue, handed, library, delivered>>

(* The disconnect callback, from a call or from forceDisconnect().  It     *)
(* leaves the tracked publish alone, and so does the client.               *)
Disconnected ==
  /\ conn # "disconnected"
  /\ conn' = "disconnected"
  /\ ready' = FALSE
  /\ acks' = {}
  /\ UNCHANGED <<pc, pumpRunning, appVars, library, delivered>>

(* A publish, or its repetition, reaches the broker, which acknowledges.   *)
BrokerReceives ==
  /\ pc = "client" /\ conn = "connected"
  /\ \E p \in library, copy \in Copies :
       /\ <<p.id, copy>> \notin acks
       /\ acks' = acks \cup {<<p.id, copy>>}
       /\ delivered' = delivered \cup {p.msg}
  /\ UNCHANGED <<pc, linkVars, pumpRunning, appVars, library>>

(* Mutant: any acknowledgement will do.                                    *)
ackMatchesAny(id) == slot.phase = "inFlight"

trackedPublishAckMatches(id) == slot.phase = "inFlight" /\ slot.packetId = id

(* The client lets go of the publish; handlePublishAck() of the slot.      *)
PubAck ==
  /\ pc = "client" /\ conn = "connected"
  /\ \E ack \in acks :
       /\ acks' = acks \ {ack}
       /\ library' = {p \in library : p.id # ack[1]}
       /\ slot' = IF trackedPublishAckMatches(ack[1]) THEN emptySlot ELSE slot
  /\ UNCHANGED <<pc, linkVars, pumpRunning, queue, handed, delivered>>

(* A reset: all of this is RAM.                                            *)
Restart ==
  /\ pc' = "app"
  /\ conn' = "disconnected" /\ ready' = FALSE /\ pumpRunning' = FALSE
  /\ slot' = emptySlot /\ queue' = emptyRing
  /\ library' = {} /\ acks' = {}
  /\ delivered' = {} /\ handed' = {}

-------------------------------------------------------------------------------
Init ==
  /\ pc = "app"
  /\ conn = "disconnected" /\ ready = FALSE /\ pumpRunning = FALSE
  /\ slot = emptySlot /\ queue = emptyRing
  /\ library = {} /\ acks = {}
  /\ delivered = {} /\ handed = {}

Next ==
  \/ \E m \in Message : TgSend(m)
  \/ ServiceTelegramDelivery \/ CallClient \/ ReturnToApp \/ SwitchPump
  \/ Connect \/ SessionDone \/ ConnectionLost \/ Disconnected
  \/ BrokerReceives \/ PubAck \/ Restart

Spec == Init /\ [][Next]_vars

-------------------------------------------------------------------------------
(* docs/MQTT_RUNTIME_BOUNDED_TRANSPORT.md:164-167, 175-179: what is in     *)
(* flight stays in the hands of the client, under the id the slot waits    *)
(* for, through any reconnect; and the client holds nothing else.          *)
InFlightIsHeld ==
  library = IF slot.phase = "inFlight"
            THEN {[id |-> slot.packetId, msg |-> slot.msg]} ELSE {}

(* docs/MQTT_RUNTIME_BOUNDED_TRANSPORT.md:175-179: the firmware hands a    *)
(* notification to the client once only, however often the connection is   *)
(* lost and however late it is acknowledged.                               *)
PublishedOnce ==
  [][\A p \in library' \ library : p.msg \notin handed]_vars
===============================================================================
