----------------------------- MODULE MCPumpTimer ------------------------------
(* Small instances of PumpTimer for TLC.                                   *)
EXTENDS PumpTimer

(* 0 asks for the default, 5 for more than the maximum.                    *)
MCRequestSeconds == {0, 2, 5}
===============================================================================
