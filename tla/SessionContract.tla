--------------------------- MODULE SessionContract ----------------------------
(***************************************************************************)
(* The MQTT session as the pump control may see it: the state of the       *)
(* client, five phases of the session, and whether the pump runs.          *)
(* MqttSession and PumpControl both implement it: what the one knows in    *)
(* fourteen states the other knows in five.                                *)
(***************************************************************************)
VARIABLES link, phase, pumpRunning

vars == <<link, phase, pumpRunning>>

Following == [subscribing |-> "pumpStatus", pumpStatus |-> "logging",
              logging |-> "done"]

Init == link = "disconnected" /\ phase = "idle" /\ pumpRunning = FALSE

(* The attempts to connect, never while the pump runs.                     *)
Connect ==
  /\ link = "disconnected" /\ ~pumpRunning
  /\ \/ link' = "connected" /\ phase' = "subscribing"
     \/ link' = "transitioning" /\ UNCHANGED phase
  /\ UNCHANGED pumpRunning

(* For whatever reason: it takes time, in which the session stays.         *)
StartToClose ==
  /\ link = "connected" /\ link' = "transitioning"
  /\ UNCHANGED <<phase, pumpRunning>>

Close ==
  /\ link # "disconnected" /\ link' = "disconnected" /\ phase' = "idle"
  /\ UNCHANGED pumpRunning

(* One phase after the other; the last of a call may find the link lost.   *)
Proceed ==
  /\ link # "disconnected"
  /\ phase \in DOMAIN Following /\ phase' = Following[phase]
  /\ UNCHANGED <<link, pumpRunning>>

(* Only in a session that is through; the link may just have been lost.    *)
StartPump ==
  /\ phase = "done" /\ ~pumpRunning /\ pumpRunning' = TRUE
  /\ UNCHANGED <<link, phase>>

StopPump == pumpRunning /\ pumpRunning' = FALSE /\ UNCHANGED <<link, phase>>

Reset == link' = "disconnected" /\ phase' = "idle" /\ pumpRunning' = FALSE

Next ==
  \/ Connect \/ StartToClose \/ Close \/ Proceed \/ StartPump \/ StopPump
  \/ Reset

Spec == Init /\ [][Next]_vars

-------------------------------------------------------------------------------
(* The pump starts in a session that is through, and while it runs none    *)
(* begins: the session is through until the connection is gone.            *)
NoInitialisationWhileRunning == pumpRunning => phase \in {"idle", "done"}
===============================================================================
