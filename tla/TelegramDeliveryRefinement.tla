---------------------- MODULE TelegramDeliveryRefinement ----------------------
(***************************************************************************)
(* TelegramDelivery keeps the promise of TelegramContract: the slot is the *)
(* tracked publish, the queue is what the ring stands for.                 *)
(***************************************************************************)
EXTENDS TelegramDelivery

inSlot == IF trackedPublishBusy THEN <<slot.msg>> ELSE <<>>

Contract == INSTANCE TelegramContract
  WITH Limit <- Size, Notification <- Message,
       slot <- inSlot, waiting <- Contents(queue), reached <- delivered

(* docs/HISTORICAL_KNOWLEDGE_BASE.md:284: a lost connection loses no       *)
(* notification.  Every step is one of the contract: the slot is released  *)
(* only after the broker has the notification, nothing is skipped, and     *)
(* nothing is dropped while there is room.                                 *)
ImplementsContract == Contract!Spec

(* The slot is the one PumpControl has (SlotContract).                     *)
Slot == INSTANCE SlotContract WITH slot <- slot.phase
ImplementsSlotContract == Slot!Spec

(* What becomes of a notification, and what the pump control sees of it.   *)
ImplementsContracts == ImplementsContract /\ ImplementsSlotContract

(* Mutual fairness of the parts: the loop goes round, calls return, and    *)
(* each pass ends with the delivery step.                                  *)
FairLoop ==
  /\ WF_vars(ReturnToApp)
  /\ SF_vars(ServiceTelegramDelivery)

(* A network that works: what the client holds gets to the broker and the  *)
(* answer gets back; the outbox has room time and again.                   *)
FairNetwork ==
  /\ SF_vars(BrokerReceives)
  /\ SF_vars(PubAck)
  /\ SF_vars(ServiceTelegramDelivery /\ library' # library)

FairSpec == Spec /\ FairLoop /\ FairNetwork

Undisturbed == conn = "connected" /\ ready /\ ~pumpRunning

(* Once the session is ready for good, the pump off and nothing new comes, *)
(* everything that is held is delivered, the rest of the queue as well as  *)
(* the slot, whatever was lost, repeated or cut off before.                *)
QueueDrains ==
  <>[]Undisturbed /\ <>[][\A m \in Message : ~TgSend(m)]_vars
    => <>[](inSlot = <<>> /\ queue.count = 0)
===============================================================================
