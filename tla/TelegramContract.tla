--------------------------- MODULE TelegramContract ---------------------------
(***************************************************************************)
(* What becomes of a Telegram notification: it is held until the broker    *)
(* has it, in a slot or, in order of arrival, in a queue behind the slot.  *)
(* Only a full queue loses one, its oldest, and a reset loses all.  A      *)
(* notification that finds the slot free does not queue.                   *)
(***************************************************************************)
EXTENDS Naturals, Sequences

CONSTANTS Limit, Notification

VARIABLES
  slot,       \* the notification being delivered, if any
  waiting,    \* those behind it
  reached     \* those the broker has received

vars == <<slot, waiting, reached>>

Init == slot = <<>> /\ waiting = <<>> /\ reached = {}

(* A notification not held already.                                        *)
Accept(m) ==
  /\ IF slot = <<>>
     THEN slot' = <<m>> /\ UNCHANGED waiting
     ELSE /\ waiting' =
               Append(IF Len(waiting) >= Limit THEN Tail(waiting) ELSE waiting, m)
          /\ UNCHANGED slot
  /\ reached' = reached \ {m}

Take ==
  /\ slot = <<>> /\ waiting # <<>>
  /\ slot' = <<Head(waiting)>>
  /\ waiting' = Tail(waiting)
  /\ UNCHANGED reached

(* At least once: the broker may receive it again.                         *)
Deliver ==
  /\ slot # <<>>
  /\ reached' = reached \cup {slot[1]}
  /\ UNCHANGED <<slot, waiting>>

Release ==
  /\ slot # <<>> /\ slot[1] \in reached
  /\ slot' = <<>>
  /\ UNCHANGED <<waiting, reached>>

Reset == slot' = <<>> /\ waiting' = <<>> /\ reached' = {}

Next ==
  (\E m \in Notification : Accept(m)) \/ Take \/ Deliver \/ Release \/ Reset

Spec == Init /\ [][Next]_vars
===============================================================================
