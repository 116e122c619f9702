----------------------------- MODULE MCPumpStatus -----------------------------
(* The small instances of MCPumpControl, with the history of the status.   *)
EXTENDS MCPumpControl, PumpStatus
===============================================================================
