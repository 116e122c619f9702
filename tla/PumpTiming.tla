------------------------------ MODULE PumpTiming ------------------------------
(***************************************************************************)
(* The pure arithmetic of include/pump_timing_policy.h: the normalisation  *)
(* of a requested duration and the bounded extension of a running session. *)
(*                                                                         *)
(* MsPerSecond is the 1000 of the source; it stays a parameter so that TLC *)
(* can count in coarser ticks.                                             *)
(*                                                                         *)
(* An operator marked "Mutant" is not part of the model: it is the one     *)
(* after it with a plausible mistake, which a property must notice.        *)
(***************************************************************************)
EXTENDS Uint32Time

CONSTANT MsPerSecond

ASSUME MsPerSecondAssumption == MsPerSecond \in Nat \ {0}

normalizeRequestedSeconds(requestedSeconds, defaultSeconds, maxSeconds) ==
  AtMost(IF requestedSeconds = 0 THEN defaultSeconds ELSE requestedSeconds,
         maxSeconds)

(* Mutant: forgets the bound of the sum.                                   *)
extendUnbounded(currentDurationMs, additionalSeconds, maxSeconds) ==
  [plannedDurationMs |-> currentDurationMs + additionalSeconds * MsPerSecond,
   addedMs           |-> additionalSeconds * MsPerSecond]

(* The source computes in uint64_t, so no intermediate value wraps.        *)
extendPlannedDuration(currentDurationMs, additionalSeconds, maxSeconds) ==
  LET maxDurationMs   == maxSeconds * MsPerSecond
      boundedCurrent  == AtMost(currentDurationMs, maxDurationMs)
      boundedDuration ==
        AtMost(boundedCurrent + additionalSeconds * MsPerSecond, maxDurationMs)
  IN  [plannedDurationMs |-> boundedDuration,
       addedMs           |-> boundedDuration - boundedCurrent]
===============================================================================
