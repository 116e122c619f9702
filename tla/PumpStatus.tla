------------------------------ MODULE PumpStatus ------------------------------
(***************************************************************************)
(* What Home Assistant sees of the pump: the retained status at the broker *)
(* (PumpControl) against the pump.  publishPumpStatus() is best effort: a  *)
(* client with a full outbox, or without memory, drops the status and the  *)
(* code does not repeat it.  A history variable remembers that, so that the*)
(* promise can be stated for every outbox and every library.               *)
(***************************************************************************)
EXTENDS PumpControl

VARIABLE unsaid         \* history: the pump stopped, its OFF was never queued

statusVars == <<vars, unsaid>>

(* The client refuses the OFF of a live session.                           *)
StatusDropped ==
  /\ pumpStatusAllowed /\ isConnected
  /\ ~canQueueBestEffort \/ LibraryRefuses
  /\ \/ FinishStop
     \/ ServiceUrgentPumpStop /\ urgentPumpStopPending /\ ~pumpRunning
  /\ outbox' = outbox

(* forcePumpOffForOtaSafety() publishes nothing.                           *)
StatusForgotten == OtaHandle /\ pumpRunning /\ ~pumpRunning'

StatusSaid == \E status \in {"ON", "OFF"} : outbox' = Append(outbox, status)

RememberStatus ==
  unsaid' = (StatusDropped \/ StatusForgotten \/ (unsaid /\ ~StatusSaid))

StatusInit == Init /\ unsaid = FALSE
StatusNext == Next /\ RememberStatus
StatusSpec == StatusInit /\ [][StatusNext]_statusVars

FairStatusSpec == StatusSpec /\ WF_vars(LoopStep)

-------------------------------------------------------------------------------
(* With a live, initialised session and no status to send, a running pump  *)
(* is always seen as ON, and a stopped one as OFF unless its OFF was       *)
(* refused by the client, or omitted for an OTA error (main.cpp:981-993),  *)
(* and no status has been sent since.  So the status errs in one direction *)
(* only, and any later status or session puts it right.                    *)
StatusErrsOnOnly ==
  StatusSettled \/ (unsaid /\ ~pumpRunning)
===============================================================================
