---------------------------- MODULE MCPumpControl -----------------------------
(* Small instances of PumpControl for TLC.                                 *)
EXTENDS PumpControlRefinement

HA(p)        == [fromHA |-> TRUE, payload |-> p, padded |-> FALSE]
Text(p)      == [fromHA |-> FALSE, payload |-> p, padded |-> FALSE]
Padded(c)    == [c EXCEPT !.padded = TRUE]

(* One command of each kind that the control core tells apart.             *)
StartAndStop == {Text("laist"), Text("stop")}
OneStart == {Text("laist")}
PaddedStart == {Padded(Text("laist")), Text("stop")}
EveryKind == {HA("ON"), HA("OFF"), Text("laist_x"), Text("report"), Text("info")}
===============================================================================
