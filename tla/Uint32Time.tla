------------------------------ MODULE Uint32Time ------------------------------
(***************************************************************************)
(* The millis() counter and the wrap-around subtraction that every timer   *)
(* of the firmware uses: hasElapsed() of include/pump_timing_policy.h and, *)
(* with the same body, of include/mqtt_runtime_policy.h.                   *)
(*                                                                         *)
(* Millis is the number of values of a std::uint32_t (2^32 on the device). *)
(*                                                                         *)
(* An operator marked "Mutant" is not part of the model: it is the one     *)
(* after it with a plausible mistake, which a property must notice.        *)
(***************************************************************************)
EXTENDS Integers

CONSTANT Millis

ASSUME MillisAssumption == Millis \in Nat \ {0}

UInt32 == 0 .. Millis - 1

(* Subtraction of two uint32_t: the only result in UInt32 that is congruent *)
(* to now - sessionStartMs.                                                *)
elapsedMs(now, sessionStartMs) ==
  IF now >= sessionStartMs THEN now - sessionStartMs
                           ELSE now - sessionStartMs + Millis

(* Mutant: compares with the end of the session, which may wrap.           *)
hasPassedEnd(now, sessionStartMs, durationMs) ==
  now >= sessionStartMs + durationMs

(* Mutant: takes equality for "at least".                                  *)
hasElapsedExactly(now, sessionStartMs, durationMs) ==
  elapsedMs(now, sessionStartMs) = durationMs

hasElapsed(now, sessionStartMs, durationMs) ==
  elapsedMs(now, sessionStartMs) >= durationMs

AtMost(value, bound) == IF value > bound THEN bound ELSE value

(* The next value of the free-running counter.                             *)
NextMillis(now) == IF now + 1 = Millis THEN 0 ELSE now + 1
===============================================================================
