----------------------------- MODULE PumpContract -----------------------------
(***************************************************************************)
(* What the pump control promises to whoever sends commands: every power-  *)
(* on uses up one start command that no stop has overtaken, and a stop     *)
(* takes effect at once, on the relay and on every start received before   *)
(* it.  No loop, no queue, no network.                                     *)
(***************************************************************************)
EXTENDS Naturals

VARIABLES
  relay,
  fresh     \* start commands received and neither used, dropped nor overtaken

vars == <<relay, fresh>>

Init == relay = "OFF" /\ fresh = 0

Receive == fresh' = fresh + 1 /\ UNCHANGED relay

(* Refused, displaced from a full queue, or spent on an extension.         *)
Discard == fresh > 0 /\ fresh' = fresh - 1 /\ UNCHANGED relay

PowerOn == relay = "OFF" /\ fresh > 0 /\ relay' = "ON" /\ fresh' = fresh - 1

(* STOP/OFF, an OTA event, a reset.                                        *)
Stop == relay' = "OFF" /\ fresh' = 0

(* The session timer; requests that wait are not affected.                 *)
TimeUp == relay' = "OFF" /\ UNCHANGED fresh

Next == Receive \/ Discard \/ PowerOn \/ Stop \/ TimeUp

Spec == Init /\ [][Next]_vars
===============================================================================
