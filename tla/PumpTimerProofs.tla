--------------------------- MODULE PumpTimerProofs ----------------------------
(***************************************************************************)
(* The bounds of PumpTimer for every value of the constants: any width of  *)
(* the millis() counter, any maximum, any watchdog period.                 *)
(***************************************************************************)
EXTENDS PumpTimer, TLAPS

-------------------------------------------------------------------------------
(* The arithmetic of pump_timing_policy.h.                                 *)

(* Unsigned subtraction stays in the counter's range and is zero at once.  *)
LEMMA ElapsedRange ==
  ASSUME NEW now \in UInt32, NEW start \in UInt32
  PROVE  /\ elapsedMs(now, start) \in UInt32
         /\ elapsedMs(now, now) = 0
  BY MillisAssumption DEF elapsedMs, UInt32

(* A tick adds one to the elapsed time unless the counter laps the start.  *)
LEMMA ElapsedTick ==
  ASSUME NEW now \in UInt32, NEW start \in UInt32,
         elapsedMs(now, start) + 1 < Millis
  PROVE  /\ NextMillis(now) \in UInt32
         /\ elapsedMs(NextMillis(now), start) = elapsedMs(now, start) + 1
  BY MillisAssumption DEF elapsedMs, UInt32, NextMillis

(* The counter stays in its range.                                         *)
LEMMA NextMillisRange ==
  ASSUME NEW now \in UInt32
  PROVE  NextMillis(now) \in UInt32
  BY MillisAssumption DEF UInt32, NextMillis

(* A number of seconds between one and a maximum is, in milliseconds,      *)
(* positive and within the maximum.                                        *)
LEMMA Milliseconds ==
  ASSUME NEW s \in Nat, NEW m \in Nat, s <= m
  PROVE  /\ s * MsPerSecond \in Nat
         /\ m * MsPerSecond \in Nat
         /\ s * MsPerSecond <= m * MsPerSecond
         /\ s > 0 => s * MsPerSecond > 0
  BY MsPerSecondAssumption

(* A start always plans a positive duration within the hard limit.         *)
LEMMA NormalizedDuration ==
  ASSUME NEW seconds \in Nat
  PROVE  LET d == normalizeRequestedSeconds(seconds, DEFAULT_PUMP_SECONDS,
                                            MAX_PUMP_SECONDS) * MsPerSecond
         IN  d \in 1 .. HardLimitMs
<1> DEFINE n == normalizeRequestedSeconds(seconds, DEFAULT_PUMP_SECONDS,
                                          MAX_PUMP_SECONDS)
<1>1. n \in Nat /\ n > 0 /\ n <= MAX_PUMP_SECONDS /\ MAX_PUMP_SECONDS \in Nat
  BY PumpSecondsAssumption DEF normalizeRequestedSeconds, AtMost
<1> HIDE DEF n
<1>2. /\ n * MsPerSecond \in Nat
      /\ n * MsPerSecond <= MAX_PUMP_SECONDS * MsPerSecond
      /\ n * MsPerSecond > 0
  BY <1>1, Milliseconds
<1> QED BY <1>2, WatchdogAssumption DEF HardLimitMs, n

(* An extension never shortens a session and never leaves the hard limit.  *)
LEMMA ExtendedDuration ==
  ASSUME NEW current \in 0 .. HardLimitMs, NEW seconds \in Nat
  PROVE  LET d == extendPlannedDuration(current, seconds, MAX_PUMP_SECONDS)
         IN  /\ d.plannedDurationMs \in current .. HardLimitMs
             /\ d.addedMs = d.plannedDurationMs - current
<1>1. seconds * MsPerSecond \in Nat
  BY Milliseconds
<1> DEFINE e == seconds * MsPerSecond
<1> HIDE DEF e
<1>2. HardLimitMs \in Nat /\ e \in Nat
  BY <1>1, WatchdogAssumption DEF e
<1>3. AtMost(current, HardLimitMs) = current
  BY <1>2 DEF AtMost
<1>4. AtMost(current + e, HardLimitMs) \in current .. HardLimitMs
  BY <1>2 DEF AtMost
<1> QED BY <1>3, <1>4 DEF extendPlannedDuration, HardLimitMs, e

-------------------------------------------------------------------------------
(* The inductive invariant.  A powered relay's true on-time is behind the  *)
(* planned end by no more than the time since the last feed: every pass    *)
(* that feeds the watchdog also looks at the timer.  Between the feed that *)
(* opens loop() and the look that follows it, one watchdog period.         *)
(* SavedRun closes the gap of the notice: a run announced late and a new   *)
(* one overlap only between the start and the end of the same loop pass,   *)
(* in which no time passes.                                                *)

WatchdogInv == watchdogSubscribed => sinceFeed <= WDT_TIMEOUT_MS

PlannedInv == pumpRunning => pumpPlannedDurationMs > 0

Lag == IF pc = "pump1" THEN WDT_TIMEOUT_MS ELSE sinceFeed

LagInv ==
  relay = "ON" /\ watchdogSubscribed =>
    /\ elapsedMs(millis, pumpSessionStartMs) = onTime
    /\ onTime < pumpPlannedDurationMs + Lag

SavedRunInv ==
  notifyPumpDone /\ pumpRunning =>
    /\ pc \in {"pump3", "notify"}
    /\ relay = "ON"
    /\ pc = "pump3" => pumpSessionStartMs = millis

IInv ==
  /\ TypeOK
  /\ RelayFollowsIntent
  /\ WatchdogInv
  /\ PlannedInv
  /\ LagInv
  /\ SavedRunInv

USE DEF IInv

(* The invariant is at least as strong as what the runs check.             *)
LEMMA InvariantImplies ==
  IInv => TypeOK /\ RelayFollowsIntent /\ TimerIsTrue /\ PlannedRun
               /\ BoundedRun
<1> SUFFICES ASSUME IInv
             PROVE  TypeOK /\ RelayFollowsIntent /\ TimerIsTrue /\ PlannedRun
                      /\ BoundedRun
  OBVIOUS
<1>1. TimerIsTrue
  BY DEF LagInv, TimerIsTrue
<1>2. PlannedRun
  BY WatchdogAssumption DEF LagInv, Lag, WatchdogInv, PlannedRun, TypeOK
<1>3. BoundedRun
  BY <1>2, WatchdogAssumption DEF PlannedRun, BoundedRun, TypeOK
<1> QED BY <1>1, <1>2, <1>3

(* setup() establishes the invariant.                                      *)
LEMMA InitInvariant == Init => IInv
<1> SUFFICES ASSUME Init PROVE IInv
  OBVIOUS
<1>1. TypeOK
  <2>1. 0 \in UInt32 /\ 0 \in 0 .. HardLimitMs
    BY MillisAssumption, WatchdogAssumption DEF UInt32
  <2>2. watchdogSubscribed \in BOOLEAN
    BY PumpSecondsAssumption DEF Init
  <2> QED BY <2>1, <2>2 DEF Init, TypeOK, Locations
<1>2. RelayFollowsIntent /\ PlannedInv /\ LagInv /\ SavedRunInv
  BY DEF Init, RelayFollowsIntent, PlannedInv, LagInv, SavedRunInv
<1>3. WatchdogInv
  BY WatchdogAssumption DEF Init, WatchdogInv
<1> QED BY <1>1, <1>2, <1>3

(* Passing a unit of time at a place where servicePump() cannot have to    *)
(* run: what an action that contains PassTime must know.                   *)
LEMMA PassTimePreserves ==
  ASSUME IInv, PassTime,
         UNCHANGED <<pumpVars, notifyPumpDone, watchdogSubscribed>>,
         pc' \in Locations \ {"pump1"},
         relay = "ON" => pc \in {"net", "sense", "tail"}
  PROVE  IInv'
<1> USE DEF PassTime, pumpVars
<1>1. TypeOK'
  <2>1. millis' \in UInt32
    BY NextMillisRange DEF TypeOK
  <2>2. sinceFeed' \in Nat /\ onTime' \in Nat
    BY MillisAssumption DEF TypeOK, AtMost
  <2> QED BY <2>1, <2>2 DEF TypeOK
<1>2. RelayFollowsIntent' /\ PlannedInv'
  BY DEF RelayFollowsIntent, PlannedInv
<1>3. WatchdogInv'
  BY WatchdogAssumption DEF WatchdogInv, AwaitTime, TypeOK
<1>4. LagInv'
  <2> SUFFICES ASSUME relay = "ON", watchdogSubscribed
               PROVE  /\ elapsedMs(millis', pumpSessionStartMs) = onTime'
                      /\ onTime' < pumpPlannedDurationMs + Lag'
    BY DEF LagInv
  <2>1. /\ elapsedMs(millis, pumpSessionStartMs) = onTime
        /\ onTime < pumpPlannedDurationMs + sinceFeed
    BY DEF LagInv, Lag
  <2>2. /\ sinceFeed' = sinceFeed + 1 /\ sinceFeed + 1 <= WDT_TIMEOUT_MS
        /\ sinceFeed \in Nat /\ onTime \in Nat
        /\ pumpPlannedDurationMs \in Nat /\ pumpPlannedDurationMs <= HardLimitMs
    BY WatchdogAssumption DEF AwaitTime, TypeOK
  <2>3. onTime + 1 < Millis
    BY <2>1, <2>2, WatchdogAssumption, MillisAssumption
  <2>4. onTime' = onTime + 1
    BY <2>2, <2>3, MillisAssumption DEF AtMost
  <2>5. elapsedMs(millis', pumpSessionStartMs) = onTime + 1
    BY <2>1, <2>3, ElapsedTick DEF TypeOK
  <2> QED BY <2>1, <2>2, <2>4, <2>5 DEF Lag
<1>5. SavedRunInv'
  BY DEF SavedRunInv
<1> QED BY <1>1, <1>2, <1>3, <1>4, <1>5

(* A look at the stops: afterwards a powered relay has time left.          *)
LEMMA ServiceStopsOutcome ==
  ASSUME IInv, ServiceStops, UNCHANGED <<millis, onTime, watchdogSubscribed>>
  PROVE  /\ relay' \in {"ON", "OFF"}
         /\ pumpRunning' \in BOOLEAN
         /\ pumpSessionStartMs' = pumpSessionStartMs
         /\ pumpPlannedDurationMs' \in 0 .. HardLimitMs
         /\ urgentPumpStopPending' = FALSE
         /\ RelayFollowsIntent' /\ PlannedInv'
         /\ relay' = "ON" =>
              /\ relay = "ON" /\ pumpPlannedDurationMs' = pumpPlannedDurationMs
              /\ elapsedMs(millis, pumpSessionStartMs) < pumpPlannedDurationMs
         /\ \/ /\ pumpRunning /\ ~pumpRunning'
               /\ notifyPumpDone' = TRUE
            \/ /\ pumpRunning' = pumpRunning
               /\ notifyPumpDone' = notifyPumpDone
<1>1. CASE (urgentPumpStopPending /\ pumpRunning) \/ servicePumpDue
  <2>1. pumpRunning
    BY <1>1 DEF servicePumpDue
  <2>2. StopPump /\ urgentPumpStopPending' = FALSE
    BY <1>1 DEF ServiceStops
  <2>3. /\ relay' = "OFF" /\ pumpRunning' = FALSE
        /\ pumpPlannedDurationMs' = 0
        /\ pumpSessionStartMs' = pumpSessionStartMs
        /\ notifyPumpDone' = TRUE
    BY <2>1, <2>2 DEF StopPump
  <2>4. RelayFollowsIntent' /\ PlannedInv'
    BY <2>3 DEF RelayFollowsIntent, PlannedInv
  <2>5. 0 \in 0 .. HardLimitMs
    BY WatchdogAssumption
  <2> QED BY <2>1, <2>2, <2>3, <2>4, <2>5
<1>2. CASE ~((urgentPumpStopPending /\ pumpRunning) \/ servicePumpDue)
  <2>1. /\ relay' = IF urgentPumpStopPending THEN "OFF" ELSE relay
        /\ urgentPumpStopPending' = FALSE
        /\ UNCHANGED <<pumpRunning, pumpSessionStartMs, pumpPlannedDurationMs,
                       notifyPumpDone>>
    BY <1>2 DEF ServiceStops
  <2>2. relay' = "ON" => relay = "ON" /\ pumpRunning
    BY <2>1 DEF RelayFollowsIntent
  <2>3. relay' = "ON" =>
          elapsedMs(millis, pumpSessionStartMs) < pumpPlannedDurationMs
    <3>1. elapsedMs(millis, pumpSessionStartMs) \in Nat
      BY ElapsedRange DEF TypeOK, UInt32
    <3>2. pumpPlannedDurationMs \in Nat
      BY WatchdogAssumption DEF TypeOK
    <3> QED BY <1>2, <2>2, <3>1, <3>2 DEF servicePumpDue, hasElapsed, PlannedInv
  <2>4. /\ relay' \in {"ON", "OFF"}
        /\ pumpRunning' \in BOOLEAN
        /\ pumpSessionStartMs' = pumpSessionStartMs
        /\ pumpPlannedDurationMs' \in 0 .. HardLimitMs
        /\ pumpPlannedDurationMs' = pumpPlannedDurationMs
    BY <2>1 DEF TypeOK
  <2>5. RelayFollowsIntent' /\ PlannedInv'
    BY <2>1, <2>2 DEF RelayFollowsIntent, PlannedInv
  <2>6. /\ pumpRunning' = pumpRunning
        /\ notifyPumpDone' = notifyPumpDone
    BY <2>1
  <2> QED BY <2>1, <2>2, <2>3, <2>4, <2>5, <2>6
<1> QED BY <1>1, <1>2

(* What lies before the deadline is not past it.                           *)
LEMMA StillBefore ==
  ASSUME NEW a \in Nat, NEW b \in Nat, NEW c \in Nat, a < b
  PROVE  a < b + c
  OBVIOUS

(* The two places that make that look keep the invariant.                  *)
LEMMA StopsPreserve ==
  ASSUME IInv, ServiceStops, UNCHANGED <<millis, onTime, watchdogSubscribed>>,
         pc \notin {"pump3", "notify"},
         pc' \in Locations \ {"pump1"},
         sinceFeed' = sinceFeed \/ FeedWatchdog
  PROVE  IInv'
<1>0. sinceFeed' \in Nat /\ WatchdogInv'
  BY WatchdogAssumption DEF FeedWatchdog, TypeOK, WatchdogInv
<1>s. /\ relay' \in {"ON", "OFF"}
      /\ pumpRunning' \in BOOLEAN
      /\ pumpSessionStartMs' = pumpSessionStartMs
      /\ pumpPlannedDurationMs' \in 0 .. HardLimitMs
      /\ urgentPumpStopPending' = FALSE
  BY ServiceStopsOutcome
<1>n. \/ /\ pumpRunning /\ ~pumpRunning'
         /\ notifyPumpDone' = TRUE
      \/ /\ pumpRunning' = pumpRunning
         /\ notifyPumpDone' = notifyPumpDone
  BY ServiceStopsOutcome
<1>1. TypeOK'
  <2>1. notifyPumpDone' \in BOOLEAN
    BY <1>n, Zenon DEF TypeOK
  <2> QED BY <1>0, <1>s, <2>1 DEF TypeOK
<1>2. RelayFollowsIntent' /\ PlannedInv'
  BY ServiceStopsOutcome
<1>3. LagInv'
  <2> SUFFICES ASSUME relay' = "ON", watchdogSubscribed
               PROVE  /\ elapsedMs(millis, pumpSessionStartMs) = onTime
                      /\ onTime < pumpPlannedDurationMs' + sinceFeed'
    BY <1>s DEF LagInv, Lag
  <2>1. /\ relay = "ON"
        /\ pumpPlannedDurationMs' = pumpPlannedDurationMs
        /\ elapsedMs(millis, pumpSessionStartMs) < pumpPlannedDurationMs
    BY ServiceStopsOutcome
  <2>2. elapsedMs(millis, pumpSessionStartMs) = onTime
    BY <2>1 DEF LagInv
  <2>3. onTime \in Nat /\ pumpPlannedDurationMs \in Nat /\ sinceFeed' \in Nat
    BY <1>0, WatchdogAssumption DEF TypeOK
  <2>4. onTime < pumpPlannedDurationMs' /\ pumpPlannedDurationMs' \in Nat
    BY <2>1, <2>2, <2>3
  <2>5. onTime < pumpPlannedDurationMs' + sinceFeed'
    BY <2>3, <2>4, StillBefore
  <2> QED BY <2>2, <2>5
<1>4. ~(notifyPumpDone /\ pumpRunning)
  BY DEF SavedRunInv
<1>5. SavedRunInv'
  BY <1>4, <1>n DEF SavedRunInv
<1> QED BY <1>0, <1>1, <1>2, <1>3, <1>5

(* A start: the session begins with this very value of the counter.        *)
LEMMA StartPreserves == IInv /\ StartPump => IInv'
<1> SUFFICES ASSUME IInv, StartPump PROVE IInv'
  OBVIOUS
<1> USE DEF StartPump
<1>1. PICK seconds \in RequestSeconds :
        pumpPlannedDurationMs' =
          normalizeRequestedSeconds(seconds, DEFAULT_PUMP_SECONDS,
                                    MAX_PUMP_SECONDS) * MsPerSecond
  OBVIOUS
<1>2. pumpPlannedDurationMs' \in 1 .. HardLimitMs
  BY <1>1, NormalizedDuration, PumpSecondsAssumption
<1>3. elapsedMs(millis, millis) = 0
  BY ElapsedRange DEF TypeOK
<1>4. TypeOK'
  BY <1>2, WatchdogAssumption DEF TypeOK, Locations
<1>5. RelayFollowsIntent' /\ SavedRunInv'
  BY DEF RelayFollowsIntent, SavedRunInv
<1>6. PlannedInv' /\ WatchdogInv'
  BY <1>2, WatchdogAssumption DEF PlannedInv, WatchdogInv
<1>7. LagInv'
  <2>1. 0 < pumpPlannedDurationMs' + sinceFeed
    BY <1>2, WatchdogAssumption DEF TypeOK
  <2> QED BY <1>3, <2>1 DEF LagInv, Lag
<1> QED BY <1>4, <1>5, <1>6, <1>7

(* An extension: the planned end only moves away.                          *)
LEMMA ExtendPreserves == IInv /\ ExtendPump => IInv'
<1> SUFFICES ASSUME IInv, ExtendPump PROVE IInv'
  OBVIOUS
<1> USE DEF ExtendPump
<1>1. PICK seconds \in RequestSeconds :
        pumpPlannedDurationMs' =
          extendPlannedDuration(pumpPlannedDurationMs, seconds,
                                MAX_PUMP_SECONDS).plannedDurationMs
  OBVIOUS
<1>2. pumpPlannedDurationMs' \in pumpPlannedDurationMs .. HardLimitMs
  BY <1>1, ExtendedDuration, PumpSecondsAssumption DEF TypeOK
<1>3. /\ pumpPlannedDurationMs \in Nat /\ pumpPlannedDurationMs' \in Nat
      /\ pumpPlannedDurationMs <= pumpPlannedDurationMs'
      /\ pumpPlannedDurationMs' \in 0 .. HardLimitMs
  BY <1>2, WatchdogAssumption DEF TypeOK
<1>4. TypeOK'
  BY <1>3 DEF TypeOK, Locations, timeVars
<1>5. RelayFollowsIntent' /\ SavedRunInv'
  BY DEF RelayFollowsIntent, SavedRunInv
<1>6. PlannedInv' /\ WatchdogInv'
  BY <1>3 DEF PlannedInv, WatchdogInv, timeVars
<1>7. LagInv'
  <2> SUFFICES ASSUME relay = "ON", watchdogSubscribed
               PROVE  /\ elapsedMs(millis, pumpSessionStartMs) = onTime
                      /\ onTime < pumpPlannedDurationMs' + sinceFeed
    BY DEF LagInv, Lag, timeVars
  <2>1. /\ elapsedMs(millis, pumpSessionStartMs) = onTime
        /\ onTime < pumpPlannedDurationMs + sinceFeed
    BY DEF LagInv, Lag
  <2>2. onTime \in Nat /\ sinceFeed \in Nat
    BY DEF TypeOK
  <2>3. onTime < pumpPlannedDurationMs' + sinceFeed
    BY <1>3, <2>1, <2>2
  <2> QED BY <2>1, <2>3
<1> QED BY <1>4, <1>5, <1>6, <1>7

(* Steps that leave the session and the time alone.                        *)
LEMMA QuietPreserves ==
  ASSUME IInv, UNCHANGED <<pumpVars, notifyPumpDone, timeVars, watchdogSubscribed>>,
         pc' \in Locations \ {"pump1"}, pc \notin {"pump1", "pump3", "notify"}
  PROVE  IInv'
<1> USE DEF pumpVars, timeVars
<1>1. TypeOK'
  BY DEF TypeOK
<1>2. RelayFollowsIntent' /\ PlannedInv' /\ WatchdogInv'
  BY DEF RelayFollowsIntent, PlannedInv, WatchdogInv
<1>3. LagInv' /\ SavedRunInv'
  BY DEF LagInv, Lag, SavedRunInv
<1> QED BY <1>1, <1>2, <1>3

(* The third servicePump(): as ServiceStops, without the urgent stop.      *)
LEMMA ServicePump3Preserves == IInv /\ ServicePump3 => IInv'
<1> SUFFICES ASSUME IInv, ServicePump3 PROVE IInv'
  OBVIOUS
<1> USE DEF ServicePump3
<1>1. CASE servicePumpDue
  <2>1. pumpRunning
    BY <1>1 DEF servicePumpDue
  <2>2. /\ relay' = "OFF" /\ pumpRunning' = FALSE
        /\ pumpPlannedDurationMs' = 0
        /\ pumpSessionStartMs' = pumpSessionStartMs
        /\ notifyPumpDone' = TRUE
    BY <1>1, <2>1 DEF StopPump
  <2>3. 0 \in 0 .. HardLimitMs
    BY WatchdogAssumption
  <2>5. TypeOK'
    BY <2>2, <2>3 DEF TypeOK, Locations, timeVars
  <2>6. RelayFollowsIntent' /\ PlannedInv' /\ SavedRunInv' /\ LagInv'
    BY <2>2 DEF RelayFollowsIntent, PlannedInv, SavedRunInv, LagInv
  <2>7. WatchdogInv'
    BY DEF WatchdogInv, timeVars
  <2> QED BY <2>5, <2>6, <2>7
<1>2. CASE ~servicePumpDue
  <2>1. UNCHANGED <<pumpVars, notifyPumpDone, timeVars, watchdogSubscribed>>
    BY <1>2 DEF pumpVars
  <2> USE DEF pumpVars, timeVars
  <2>2. TypeOK'
    BY <2>1 DEF TypeOK, Locations
  <2>3. RelayFollowsIntent' /\ PlannedInv' /\ WatchdogInv'
    BY <2>1 DEF RelayFollowsIntent, PlannedInv, WatchdogInv
  <2>4. LagInv' /\ SavedRunInv'
    BY <2>1 DEF LagInv, Lag, SavedRunInv
  <2> QED BY <2>2, <2>3, <2>4
<1> QED BY <1>1, <1>2

(* A fresh boot.                                                           *)
LEMMA RestartInvariant == Restart => IInv'
<1> SUFFICES ASSUME Restart PROVE IInv'
  OBVIOUS
<1> USE DEF Restart
<1>1. TypeOK'
  <2>1. 0 \in UInt32 /\ 0 \in 0 .. HardLimitMs
    BY MillisAssumption, WatchdogAssumption DEF UInt32
  <2>2. watchdogSubscribed' \in BOOLEAN
    BY PumpSecondsAssumption
  <2> QED BY <2>1, <2>2 DEF TypeOK, Locations
<1>2. RelayFollowsIntent' /\ PlannedInv' /\ LagInv' /\ SavedRunInv'
  BY DEF RelayFollowsIntent, PlannedInv, LagInv, SavedRunInv
<1>3. WatchdogInv'
  BY WatchdogAssumption DEF WatchdogInv
<1> QED BY <1>1, <1>2, <1>3

(* The invariant is inductive.                                             *)
LEMMA StepInvariant == IInv /\ [Next]_vars => IInv'
<1> SUFFICES ASSUME IInv, [Next]_vars PROVE IInv'
  OBVIOUS
<1>1. CASE Feed
  <2> USE <1>1 DEF Feed, FeedWatchdog
  <2>1. sinceFeed' \in Nat /\ WatchdogInv'
    BY WatchdogAssumption DEF TypeOK, WatchdogInv
  <2> USE DEF pumpVars
  <2>2. TypeOK'
    BY <2>1 DEF TypeOK, Locations
  <2>3. RelayFollowsIntent' /\ PlannedInv' /\ SavedRunInv'
    BY DEF RelayFollowsIntent, PlannedInv, SavedRunInv
  <2>4. LagInv'
    <3> SUFFICES ASSUME relay = "ON", watchdogSubscribed
                 PROVE  /\ elapsedMs(millis, pumpSessionStartMs) = onTime
                        /\ onTime < pumpPlannedDurationMs + WDT_TIMEOUT_MS
      BY DEF LagInv, Lag
    <3>1. /\ elapsedMs(millis, pumpSessionStartMs) = onTime
          /\ onTime < pumpPlannedDurationMs + sinceFeed
          /\ sinceFeed <= WDT_TIMEOUT_MS
      BY DEF LagInv, Lag, WatchdogInv
    <3>2. /\ onTime \in Nat /\ sinceFeed \in Nat /\ WDT_TIMEOUT_MS \in Nat
          /\ pumpPlannedDurationMs \in Nat
      BY WatchdogAssumption DEF TypeOK
    <3>3. onTime < pumpPlannedDurationMs + WDT_TIMEOUT_MS
      BY <3>1, <3>2
    <3> QED BY <3>1, <3>3
  <2> QED BY <2>1, <2>2, <2>3, <2>4
<1>2. CASE CheckStops
  BY <1>2, StopsPreserve DEF CheckStops, timeVars, Locations
<1>3. CASE ServicePumpCritical
  BY <1>3, StopsPreserve DEF ServicePumpCritical, Locations
<1>4. CASE NetDone
  BY <1>4, QuietPreserves DEF NetDone, Locations
<1>5. CASE NoPumpCommand
  <2> USE <1>5 DEF NoPumpCommand, pumpVars, timeVars
  <2>1. TypeOK'
    BY DEF TypeOK, Locations
  <2>2. RelayFollowsIntent' /\ PlannedInv' /\ WatchdogInv'
    BY DEF RelayFollowsIntent, PlannedInv, WatchdogInv
  <2>3. LagInv' /\ SavedRunInv'
    BY DEF LagInv, Lag, SavedRunInv
  <2> QED BY <2>1, <2>2, <2>3
<1>6. CASE SensorReport
  BY <1>6, QuietPreserves DEF SensorReport, Locations
<1>7. CASE SensorRead
  BY <1>7, PassTimePreserves DEF SensorRead, Locations
<1>8. CASE LoopEnd
  BY <1>8, PassTimePreserves DEF LoopEnd, Locations
<1>9. CASE Tick
  <2>1. CASE relay = "ON"
    BY <1>9, <2>1, PassTimePreserves DEF Tick, Blocking, Locations
  <2>2. CASE relay # "ON" /\ pc # "pump1"
    BY <1>9, <2>2, PassTimePreserves DEF Tick, TypeOK
  <2>3. CASE relay # "ON" /\ pc = "pump1"
    <3> USE <1>9, <2>3 DEF Tick, PassTime, pumpVars
    <3>1. millis' \in UInt32
      BY NextMillisRange DEF TypeOK
    <3>2. sinceFeed' \in Nat /\ onTime' \in Nat
      BY DEF TypeOK
    <3>3. TypeOK'
      BY <3>1, <3>2 DEF TypeOK
    <3>4. RelayFollowsIntent' /\ PlannedInv'
      BY DEF RelayFollowsIntent, PlannedInv
    <3>5. WatchdogInv'
      BY WatchdogAssumption DEF WatchdogInv, AwaitTime, TypeOK
    <3>6. LagInv' /\ SavedRunInv'
      BY DEF LagInv, SavedRunInv
    <3> QED BY <3>3, <3>4, <3>5, <3>6
  <2> QED BY <2>1, <2>2, <2>3
<1>10. CASE StartPump
  BY <1>10, StartPreserves
<1>11. CASE ExtendPump
  BY <1>11, ExtendPreserves
<1>12. CASE ServicePump3
  BY <1>12, ServicePump3Preserves
<1>13. CASE NotifyDone
  <2> USE <1>13 DEF NotifyDone, pumpVars, timeVars
  <2>1. notifyPumpDone' = FALSE
    OBVIOUS
  <2>2. TypeOK'
    BY DEF TypeOK, Locations
  <2>3. RelayFollowsIntent' /\ PlannedInv' /\ WatchdogInv'
    BY <2>1 DEF RelayFollowsIntent, PlannedInv, WatchdogInv
  <2>4. LagInv' /\ SavedRunInv'
    BY <2>1 DEF LagInv, Lag, SavedRunInv
  <2> QED BY <2>2, <2>3, <2>4
<1>17. CASE StopCommand
  <2> USE <1>17 DEF StopCommand, StopPump, timeVars
  <2>1. 0 \in 0 .. HardLimitMs
    BY WatchdogAssumption
  <2>2. TypeOK'
    BY <2>1 DEF TypeOK, Locations
  <2>3. RelayFollowsIntent' /\ PlannedInv' /\ SavedRunInv' /\ LagInv'
    BY DEF RelayFollowsIntent, PlannedInv, SavedRunInv, LagInv
  <2>4. WatchdogInv'
    BY DEF WatchdogInv
  <2> QED BY <2>2, <2>3, <2>4
<1>14. CASE RequestUrgentPumpStop \/ OtaErrorBeforeTransfer
  <2> USE <1>14 DEF RequestUrgentPumpStop, OtaErrorBeforeTransfer, timeVars
  <2>1. TypeOK'
    <3>1. CASE RequestUrgentPumpStop
      BY <3>1 DEF TypeOK
    <3>2. CASE OtaErrorBeforeTransfer
      <4>1. 0 \in 0 .. HardLimitMs
        BY WatchdogAssumption
      <4> QED BY <3>2, <4>1 DEF TypeOK
    <3> QED BY <3>1, <3>2
  <2>2. RelayFollowsIntent' /\ PlannedInv' /\ WatchdogInv'
    BY DEF RelayFollowsIntent, PlannedInv, WatchdogInv
  <2>3. LagInv'
    BY DEF LagInv
  <2>4. SavedRunInv'
    BY DEF SavedRunInv, Blocking
  <2> QED BY <2>1, <2>2, <2>3, <2>4
<1>15. CASE Restart \/ WatchdogReset
  BY <1>15, RestartInvariant DEF WatchdogReset
<1>16. CASE UNCHANGED vars
  <2> USE <1>16 DEF vars, pumpVars, timeVars
  <2>1. TypeOK'
    BY DEF TypeOK
  <2>2. RelayFollowsIntent' /\ PlannedInv' /\ WatchdogInv'
    BY DEF RelayFollowsIntent, PlannedInv, WatchdogInv
  <2>3. LagInv' /\ SavedRunInv'
    BY DEF LagInv, Lag, SavedRunInv
  <2> QED BY <2>1, <2>2, <2>3
<1> QED BY <1>1, <1>2, <1>3, <1>4, <1>5, <1>6, <1>7, <1>8, <1>9, <1>10, <1>11,
           <1>12, <1>13, <1>14, <1>15, <1>16, <1>17 DEF Next, LoopStep

(* Every reachable state satisfies the inductive invariant.               *)
THEOREM Invariant == Spec => []IInv
<1>1. Init => IInv
  BY InitInvariant
<1>2. IInv /\ [Next]_vars => IInv'
  BY StepInvariant
<1> QED BY <1>1, <1>2, PTL DEF Spec

-------------------------------------------------------------------------------
(* Every variable keeps its type: in particular no arithmetic of the timer *)
(* leaves its uint32_t and no extension leaves the hard limit.             *)
THEOREM TypeCorrect == Spec => []TypeOK
BY Invariant, InvariantImplies, PTL

(* The relay is powered only in a running session nobody asked to stop.    *)
THEOREM RelayIsIntended == Spec => []RelayFollowsIntent
BY Invariant, InvariantImplies, PTL

(* The session timer tells the truth across any wrap of millis().          *)
THEOREM TimerTellsTheTruth == Spec => []TimerIsTrue
BY Invariant, InvariantImplies, PTL

(* No run outlasts the hard limit by a watchdog period.                    *)
THEOREM RunsAreBounded == Spec => []BoundedRun
BY Invariant, InvariantImplies, PTL

(* Nor the end it plans, however often it has been extended.               *)
THEOREM PlansAreKept == Spec => []PlannedRun
BY Invariant, InvariantImplies, PTL

(* A run that ends finds no announcement due: the last one has been made,  *)
(* or, when the new run began before it was, no time has passed since.     *)
LEMMA EndsFindNoNotice ==
  ASSUME IInv, pumpRunning,
         \/ pc \notin {"pump3", "notify"}
         \/ pc = "pump3" /\ servicePumpDue
  PROVE  ~notifyPumpDone
<1>1. CASE pc \notin {"pump3", "notify"}
  BY <1>1 DEF SavedRunInv
<1>2. CASE pc = "pump3" /\ servicePumpDue
  <2> SUFFICES ASSUME notifyPumpDone PROVE FALSE
    OBVIOUS
  <2>1. pumpSessionStartMs = millis
    BY <1>2 DEF SavedRunInv
  <2>2. elapsedMs(millis, pumpSessionStartMs) = 0
    BY <2>1, ElapsedRange DEF TypeOK
  <2>3. HardLimitMs > 0 /\ pumpPlannedDurationMs \in Nat
    BY WatchdogAssumption DEF TypeOK
  <2> QED BY <1>2, <2>2, <2>3, WatchdogAssumption DEF servicePumpDue, hasElapsed
<1> QED BY <1>1, <1>2

(* What one step does to the announcements.                                *)
LEMMA StepAnnounces ==
  ASSUME IInv, [Next]_vars, ~Restart
  PROVE  /\ RunEnds /\ ~OtaErrorBeforeTransfer => NoticeFallsDue
         /\ NoticeFallsDue => RunEnds
         /\ notifyPumpDone /\ ~notifyPumpDone' => NotifyDone
<1> USE DEF RunEnds, NoticeFallsDue, TypeOK
<1>1. CASE CheckStops \/ ServicePumpCritical
  <2>1. /\ ServiceStops /\ pc \notin {"pump3", "notify"}
        /\ UNCHANGED <<millis, onTime, watchdogSubscribed>>
    BY <1>1 DEF CheckStops, ServicePumpCritical, timeVars
  <2>2. \/ pumpRunning /\ ~pumpRunning' /\ notifyPumpDone' = TRUE
        \/ pumpRunning' = pumpRunning /\ notifyPumpDone' = notifyPumpDone
    BY <2>1, ServiceStopsOutcome
  <2>3. pumpRunning => ~notifyPumpDone
    BY <2>1, EndsFindNoNotice
  <2> QED BY <2>2, <2>3
<1>2. CASE ServicePump3
  <2>1. servicePumpDue => ~notifyPumpDone
    BY <1>2, EndsFindNoNotice DEF ServicePump3, servicePumpDue
  <2> QED BY <1>2, <2>1 DEF ServicePump3, servicePumpDue, StopPump
<1>3. CASE StopCommand
  <2>1. ~notifyPumpDone
    BY <1>3, EndsFindNoNotice DEF StopCommand
  <2> QED BY <1>3, <2>1 DEF StopCommand, StopPump
<1>4. CASE OtaErrorBeforeTransfer
  BY <1>4 DEF OtaErrorBeforeTransfer
<1>5. CASE NotifyDone
  BY <1>5 DEF NotifyDone, pumpVars
<1>6. CASE StartPump
  BY <1>6 DEF StartPump
<1>7. CASE WatchdogReset
  BY <1>7 DEF WatchdogReset
<1>8. CASE \/ Feed \/ NetDone \/ NoPumpCommand \/ ExtendPump \/ SensorReport
           \/ SensorRead \/ LoopEnd \/ Tick \/ RequestUrgentPumpStop
           \/ UNCHANGED vars
  BY <1>8 DEF Feed, NetDone, NoPumpCommand, ExtendPump, SensorReport, SensorRead,
     LoopEnd, Tick, RequestUrgentPumpStop, vars, pumpVars
<1> QED BY <1>1, <1>2, <1>3, <1>4, <1>5, <1>6, <1>7, <1>8 DEF Next, LoopStep

(* Every end of a run the device survives, but one by an OTA error before  *)
(* the transfer, owes one announcement; none is owed twice, for nothing,   *)
(* or forgotten.                                                           *)
THEOREM NoticesAreExact == Spec => OneNoticePerRun
<1>1. IInv /\ [Next]_vars =>
        [~Restart =>
           /\ RunEnds /\ ~OtaErrorBeforeTransfer => NoticeFallsDue
           /\ NoticeFallsDue => RunEnds
           /\ notifyPumpDone /\ ~notifyPumpDone' => NotifyDone]_vars
  BY StepAnnounces
<1> QED BY <1>1, Invariant, PTL DEF Spec, OneNoticePerRun

-------------------------------------------------------------------------------
(* The run that PumpTimer times is that of RunContract.                    *)

(* stopPump() in a running session, or nothing left to stop.               *)
LEMMA StopsRefine ==
  ASSUME IInv,
         \/ ServiceStops
         \/ StopPump /\ pumpRunning /\ UNCHANGED urgentPumpStopPending
  PROVE  [Run!Next]_(Run!vars)
<1>1. CASE /\ StopPump /\ pumpRunning
           /\ urgentPumpStopPending' \in {urgentPumpStopPending, FALSE}
  BY <1>1 DEF StopPump, Run!Next, Run!EndRun
<1>2. CASE /\ ~(urgentPumpStopPending /\ pumpRunning)
           /\ relay' = IF urgentPumpStopPending THEN "OFF" ELSE relay
           /\ urgentPumpStopPending' = FALSE
           /\ UNCHANGED <<pumpRunning, notifyPumpDone>>
  <2>1. relay' = relay
    BY <1>2 DEF RelayFollowsIntent, TypeOK
  <2> QED BY <1>2, <2>1 DEF TypeOK, Run!Next, Run!NothingToStop, Run!vars
<1> QED BY <1>1, <1>2 DEF ServiceStops, servicePumpDue

(* Every step of PumpTimer is one of the contract, or changes nothing that *)
(* it speaks of.                                                           *)
LEMMA NextRefinesRun ==
  ASSUME IInv, [Next]_vars PROVE [Run!Next]_(Run!vars)
<1> USE DEF Run!Next, Run!vars
<1>1. CASE CheckStops \/ ServicePumpCritical
  BY <1>1, StopsRefine DEF CheckStops, ServicePumpCritical
<1>2. CASE ServicePump3
  BY <1>2, StopsRefine DEF ServicePump3, servicePumpDue
<1>9. CASE StopCommand
  BY <1>9, StopsRefine DEF StopCommand
<1>3. CASE StartPump
  BY <1>3 DEF StartPump, Run!Start
<1>4. CASE RequestUrgentPumpStop
  BY <1>4 DEF RequestUrgentPumpStop, Run!RequestStop
<1>5. CASE OtaErrorBeforeTransfer
  BY <1>5 DEF OtaErrorBeforeTransfer, Run!Abort
<1>6. CASE NotifyDone
  BY <1>6 DEF NotifyDone, pumpVars, TypeOK, Run!Announce
<1>7. CASE WatchdogReset \/ Restart
  BY <1>7 DEF WatchdogReset, Restart, Run!Reset
<1>8. CASE \/ Feed \/ NetDone \/ NoPumpCommand \/ ExtendPump \/ SensorReport
           \/ SensorRead \/ LoopEnd \/ Tick \/ UNCHANGED vars
  BY <1>8 DEF Feed, NetDone, NoPumpCommand, ExtendPump, SensorReport, SensorRead,
     LoopEnd, Tick, vars, pumpVars
<1> QED BY <1>1, <1>2, <1>3, <1>4, <1>5, <1>6, <1>7, <1>8, <1>9 DEF Next, LoopStep

(* PumpTimer and PumpControl are about the same run of the pump: this is   *)
(* one half, RunIsKept of PumpControlProofs the other.                     *)
THEOREM RunIsKept == Spec => ImplementsRunContract
<1>1. Init => Run!Init
  BY DEF Init, Run!Init
<1>2. IInv /\ [Next]_vars => [Run!Next]_(Run!vars)
  BY NextRefinesRun
<1> QED BY <1>1, <1>2, Invariant, PTL DEF Spec, ImplementsRunContract, Run!Spec

(* The contract itself: an accepted stop is not forgotten.                 *)
THEOREM StopsAreNotForgotten == Run!Spec => Run!StopIsNotForgotten
<1> DEFINE Off == /\ relay \in {"ON", "OFF"}
                  /\ pumpRunning \in BOOLEAN /\ urgentPumpStopPending \in BOOLEAN
                  /\ relay = "ON" => pumpRunning /\ ~urgentPumpStopPending
<1>1. Run!Init => Off
  BY DEF Run!Init
<1>2. Off /\ [Run!Next]_(Run!vars) => Off'
  <2> SUFFICES ASSUME Off, [Run!Next]_(Run!vars) PROVE Off'
    OBVIOUS
  <2>1. CASE Run!Start
    BY <2>1 DEF Run!Start
  <2>2. CASE Run!RequestStop \/ Run!Abort \/ Run!Reset
    BY <2>2 DEF Run!RequestStop, Run!Abort, Run!Reset
  <2>3. CASE Run!EndRun
    BY <2>3 DEF Run!EndRun
  <2>4. CASE Run!NothingToStop
    BY <2>4 DEF Run!NothingToStop
  <2>5. CASE Run!Announce \/ UNCHANGED Run!vars
    BY <2>5 DEF Run!Announce, Run!vars
  <2> QED BY <2>1, <2>2, <2>3, <2>4, <2>5 DEF Run!Next
<1>3. Off /\ [Run!Next]_(Run!vars) =>
        [urgentPumpStopPending /\ ~urgentPumpStopPending' =>
           ~pumpRunning' /\ relay' = "OFF"]_(Run!vars)
  BY DEF Run!Next, Run!vars, Run!Start, Run!RequestStop, Run!EndRun,
         Run!NothingToStop, Run!Announce, Run!Abort, Run!Reset
<1> QED BY <1>1, <1>2, <1>3, PTL DEF Run!Spec, Run!StopIsNotForgotten

(* So no stop of the firmware is: the safe half of what run                *)
(* control_settles says of it.                                             *)
THEOREM AcceptedStopsAreNotForgotten == Spec => Run!StopIsNotForgotten
BY RunIsKept, StopsAreNotForgotten, PTL DEF ImplementsRunContract
===============================================================================
