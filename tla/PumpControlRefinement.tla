------------------------- MODULE PumpControlRefinement ------------------------
(***************************************************************************)
(* PumpControl keeps the promise of PumpContract.  Fresh start commands    *)
(* are those in the FIFO, or in the hands of startPump(), whose epoch is   *)
(* the current one.                                                        *)
(***************************************************************************)
EXTENDS PumpControl, FiniteSets

CanStart(entry) ==
  asksForPump(entry.cmd) /\ entry.stopEpoch = pumpStopEpoch

inHand == IF pc = "started" THEN <<>> ELSE item

freshStarts ==
  Cardinality({i \in DOMAIN commandQueue : CanStart(commandQueue[i])})
  + Cardinality({i \in DOMAIN inHand : CanStart(inHand[i])})

Contract == INSTANCE PumpContract WITH fresh <- freshStarts

(* The code's relay obeys the contract in every step.                      *)
ImplementsContract == Contract!Spec

(* A half-open connection is one that the client takes for connected.      *)
Session == INSTANCE SessionContract WITH
             link <- IF conn = "halfOpen" THEN "connected" ELSE conn,
             phase <- session
ImplementsSessionContract == Session!Spec

Run == INSTANCE RunContract
ImplementsRunContract == Run!Spec

Slot == INSTANCE SlotContract WITH slot <- tracked
ImplementsSlotContract == Slot!Spec

(* Run, session and slot are those that PumpTimer, MqttSession and         *)
(* TelegramDelivery have: what one of the views takes for granted of what  *)
(* it shares with another, the other does.                                 *)
ImplementsSharedContracts ==
  /\ ImplementsRunContract
  /\ ImplementsSessionContract
  /\ ImplementsSlotContract
===============================================================================
