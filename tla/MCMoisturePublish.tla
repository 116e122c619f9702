--------------------------- MODULE MCMoisturePublish --------------------------
(* Small instances of MoisturePublish for TLC.                             *)
EXTENDS MoisturePublish
===============================================================================
