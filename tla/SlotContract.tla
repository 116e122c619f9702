----------------------------- MODULE SlotContract -----------------------------
(***************************************************************************)
(* The slot of the tracked publish as the pump control may see it: the     *)
(* phase of the publish, and whether the pump runs.  TelegramDelivery and  *)
(* PumpControl both implement it: the one knows what is in the slot, the   *)
(* other what the pump does.                                               *)
(***************************************************************************)
VARIABLES slot, pumpRunning

vars == <<slot, pumpRunning>>

Init == slot = "empty" /\ pumpRunning = FALSE

(* A notification waits in the slot; at any time.                          *)
Stage == slot = "empty" /\ slot' = "staged" /\ UNCHANGED pumpRunning

(* It is handed to the client, at once or from the slot; never while the   *)
(* pump runs.                                                              *)
Hand ==
  /\ ~pumpRunning
  /\ slot # "inFlight" /\ slot' = "inFlight" /\ UNCHANGED pumpRunning

(* By the broker, at any time; nothing else frees the slot.                *)
Acknowledge ==
  slot = "inFlight" /\ slot' = "empty" /\ UNCHANGED pumpRunning

(* Only when nothing waits and nothing is in flight.                       *)
StartPump ==
  /\ slot = "empty" /\ ~pumpRunning
  /\ pumpRunning' = TRUE /\ UNCHANGED slot

StopPump == pumpRunning /\ pumpRunning' = FALSE /\ UNCHANGED slot

Reset == slot' = "empty" /\ pumpRunning' = FALSE

Next ==
  \/ Stage \/ Hand \/ Acknowledge \/ StartPump \/ StopPump \/ Reset

Spec == Init /\ [][Next]_vars

-------------------------------------------------------------------------------
(* While the pump runs no notification is in flight: the client has none   *)
(* to send or to repeat, and no answer to one is awaited.                  *)
NothingInFlightWhileRunning == pumpRunning => slot # "inFlight"
===============================================================================
