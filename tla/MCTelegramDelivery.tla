-------------------------- MODULE MCTelegramDelivery --------------------------
(* Small instances of TelegramDelivery for TLC.                            *)
EXTENDS TelegramDeliveryRefinement
===============================================================================
