----------------------------- MODULE CommandParse -----------------------------
(***************************************************************************)
(* The number in a "laist_X" command: parsePositiveDecimal() of            *)
(* include/command_parse_policy.h, one character per step, and the request *)
(* processCommand() of src/main.cpp makes of it.  The text is whatever     *)
(* comes; its characters are read on after the code has given up, so that  *)
(* its answer can be compared with what the text says.                     *)
(*                                                                         *)
(* An operator marked "Mutant" is not part of the model: it is the one     *)
(* after it with a plausible mistake, which a property must notice.        *)
(***************************************************************************)
EXTENDS Integers

CONSTANTS
  Modulus,            \* uint32_t counts modulo this
  SecondsPerMinute,
  Character,          \* what the text may hold, its digits being 0 .. 9
  MaxLength           \* bound: characters of a text

Digit == 0 .. 9

UInt == 0 .. Modulus - 1

ASSUME ParseAssumption ==
  /\ Modulus \in Nat \ {0}
  /\ SecondsPerMinute \in Nat \ {0}

VARIABLES
  maxSeconds,         \* MAX_PUMP_SECONDS
  value,              \* parsePositiveDecimal()'s, while it reads
  minutes,            \* its valueOut
  requestedSeconds,   \* what is asked of the pump, if anything
  outcome,            \* "reading", "refused" or "accepted"
  ended,              \* the whole text has been seen
  length, plain, exact  \* ghosts: its length, only digits so far, their value

vars == <<maxSeconds, value, minutes, requestedSeconds, outcome, ended,
          length, plain, exact>>

(* Mutant: a begun minute counts.                                          *)
maxMinutesUp == (maxSeconds + SecondsPerMinute - 1) \div SecondsPerMinute

maxMinutes == maxSeconds \div SecondsPerMinute

TypeOK ==
  /\ maxSeconds \in UInt
  /\ value \in UInt /\ minutes \in UInt /\ requestedSeconds \in UInt
  /\ value <= maxMinutes
  /\ outcome \in {"reading", "refused", "accepted"}
  /\ ended \in BOOLEAN /\ plain \in BOOLEAN
  /\ length \in Nat /\ exact \in Nat

-------------------------------------------------------------------------------
plus(a, b)  == (a + b) % Modulus
times(a, b) == (a * b) % Modulus

(* Mutant: computes first and compares then.                               *)
tooLargeAfter(v, digit) == plus(times(v, 10), digit) > maxMinutes

(* Mutant: forgets the digit at the bound.                                 *)
tooLargeRounded(v, digit) == v > maxMinutes \div 10

tooLarge(v, digit) ==
  digit > maxMinutes \/ v > (maxMinutes - digit) \div 10

(* The call: valueOut is 0 until the whole text is known to be a number.   *)
Call ==
  /\ ended
  /\ ended' = FALSE /\ length' = 0 /\ plain' = TRUE /\ exact' = 0
  /\ value' = 0 /\ minutes' = 0 /\ requestedSeconds' = 0
  /\ outcome' = IF maxMinutes = 0 THEN "refused" ELSE "reading"
  /\ UNCHANGED maxSeconds

(* The next character of the text.                                         *)
Seen(c) ==
  /\ ~ended /\ length < MaxLength
  /\ length' = length + 1
  /\ plain' = (plain /\ c \in Digit)
  /\ exact' = IF c \in Digit THEN exact * 10 + c ELSE exact
  /\ UNCHANGED <<maxSeconds, minutes, requestedSeconds, ended>>

ReadDigit(c) ==
  /\ Seen(c)
  /\ outcome = "reading" /\ c \in Digit
  /\ IF tooLarge(value, c)
     THEN outcome' = "refused" /\ UNCHANGED value
     ELSE value' = plus(times(value, 10), c) /\ UNCHANGED outcome

ReadOther(c) ==
  /\ Seen(c)
  /\ outcome = "reading" /\ c \notin Digit
  /\ outcome' = "refused"
  /\ UNCHANGED value

(* The rest of a text that the code does not look at.                      *)
LeaveUnread(c) ==
  /\ Seen(c)
  /\ outcome = "refused"
  /\ UNCHANGED <<value, outcome>>

(* Mutant: an empty text is a number, 0.                                   *)
acceptAny == outcome = "reading"

isAccepted == outcome = "reading" /\ value # 0

EndOfText ==
  /\ ~ended
  /\ ended' = TRUE
  /\ IF isAccepted
     THEN /\ outcome' = "accepted"
          /\ minutes' = value
          /\ requestedSeconds' = times(value, SecondsPerMinute)
     ELSE outcome' = "refused" /\ UNCHANGED <<minutes, requestedSeconds>>
  /\ UNCHANGED <<maxSeconds, value, length, plain, exact>>

Init ==
  /\ maxSeconds \in UInt
  /\ ended = TRUE /\ length = 0 /\ plain = TRUE /\ exact = 0
  /\ value = 0 /\ minutes = 0 /\ requestedSeconds = 0
  /\ outcome = "refused"

Next ==
  \/ Call \/ EndOfText
  \/ \E c \in Character : ReadDigit(c) \/ ReadOther(c) \/ LeaveUnread(c)

Spec == Init /\ [][Next]_vars

-------------------------------------------------------------------------------
(* A text is taken for a number if and only if it is one, from 1 up to the *)
(* limit, however long it is; the number handed out is the one it says,    *)
(* and 0 when it is refused.                                               *)
ParsedExactly ==
  ended =>
    /\ outcome = "accepted" <=>
         plain /\ length > 0 /\ 0 < exact /\ exact <= maxMinutes
    /\ minutes = IF outcome = "accepted" THEN exact ELSE 0

(* The pump is asked for what the text says, and never for more than       *)
(* MAX_PUMP_SECONDS.                                                       *)
RequestWithinLimit ==
  requestedSeconds # 0 =>
    /\ requestedSeconds = exact * SecondsPerMinute
    /\ requestedSeconds <= maxSeconds
===============================================================================
