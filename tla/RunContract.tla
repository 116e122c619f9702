----------------------------- MODULE RunContract ------------------------------
(***************************************************************************)
(* A run of the pump as the rest of the firmware may see it: relay,        *)
(* session, the flag of an urgent stop, the flag of the announcement.  No  *)
(* time, no network.  PumpTimer and PumpControl both implement it, so they *)
(* speak of the same pump.                                                 *)
(***************************************************************************)
VARIABLES relay, pumpRunning, urgentPumpStopPending, notifyPumpDone

vars == <<relay, pumpRunning, urgentPumpStopPending, notifyPumpDone>>

Init ==
  /\ relay = "OFF" /\ pumpRunning = FALSE
  /\ urgentPumpStopPending = FALSE /\ notifyPumpDone = FALSE

Start ==
  /\ ~pumpRunning /\ ~urgentPumpStopPending
  /\ relay' = "ON" /\ pumpRunning' = TRUE
  /\ UNCHANGED <<urgentPumpStopPending, notifyPumpDone>>

(* At once on the relay, at the next service point on the session.         *)
RequestStop ==
  /\ relay' = "OFF" /\ urgentPumpStopPending' = TRUE
  /\ UNCHANGED <<pumpRunning, notifyPumpDone>>

(* For an urgent stop, which is thereby reconciled, or for another reason. *)
EndRun ==
  /\ pumpRunning
  /\ relay' = "OFF" /\ pumpRunning' = FALSE /\ notifyPumpDone' = TRUE
  /\ urgentPumpStopPending' \in {urgentPumpStopPending, FALSE}

(* An urgent stop that found the pump off.                                 *)
NothingToStop ==
  /\ urgentPumpStopPending /\ ~pumpRunning
  /\ urgentPumpStopPending' = FALSE
  /\ UNCHANGED <<relay, pumpRunning, notifyPumpDone>>

Announce ==
  /\ notifyPumpDone /\ notifyPumpDone' = FALSE
  /\ UNCHANGED <<relay, pumpRunning, urgentPumpStopPending>>

(* An OTA event ends the run without a word.                               *)
Abort ==
  /\ relay' = "OFF" /\ pumpRunning' = FALSE
  /\ UNCHANGED <<urgentPumpStopPending, notifyPumpDone>>

Reset ==
  /\ relay' = "OFF" /\ pumpRunning' = FALSE
  /\ urgentPumpStopPending' = FALSE /\ notifyPumpDone' = FALSE

Next ==
  \/ Start \/ RequestStop \/ EndRun \/ NothingToStop \/ Announce
  \/ Abort \/ Reset

Spec == Init /\ [][Next]_vars

-------------------------------------------------------------------------------
(* A stop that was accepted is not forgotten: its flag goes down only with *)
(* the pump off.                                                           *)
StopIsNotForgotten ==
  [][urgentPumpStopPending /\ ~urgentPumpStopPending' =>
       ~pumpRunning' /\ relay' = "OFF"]_vars
===============================================================================
