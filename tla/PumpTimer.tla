------------------------------ MODULE PumpTimer -------------------------------
(***************************************************************************)
(* How long can the relay stay energised?  The pump session timer of       *)
(* src/main.cpp against real time, the task watchdog, and the fact that    *)
(* servicePump() runs only between the blocking parts of loop().           *)
(*                                                                         *)
(* The straight-line code of loop() takes no time; time passes in the      *)
(* parts that can block: Wi-Fi/OTA/MQTT service ("net"), the sensor reads  *)
(* of a report ("sense"), the Telegram/moisture/delay tail ("tail"), and   *)
(* in any network write while the relay is off (Tick), and in the delay()  *)
(* calls the code makes itself (SensorRead, LoopEnd).  A step of loop()    *)
(* that contains no blocking call is one action.                           *)
(*                                                                         *)
(* An operator marked "Mutant" is not part of the model: it is the one     *)
(* after it with a plausible mistake, which a property must notice.        *)
(***************************************************************************)
EXTENDS PumpTiming

CONSTANTS
  DEFAULT_PUMP_SECONDS,
  MAX_PUMP_SECONDS,
  WDT_TIMEOUT_MS,       \* WDT_TIMEOUT_S * 1000
  RequestSeconds,       \* the seconds a laist, laist_N or ON command can ask for
  WatchdogOutcomes      \* what setupWatchdog() can leave in watchdogSubscribed

HardLimitMs == MAX_PUMP_SECONDS * MsPerSecond

ASSUME PumpSecondsAssumption ==
  /\ DEFAULT_PUMP_SECONDS \in Nat \ {0}
  /\ MAX_PUMP_SECONDS \in Nat \ {0}
  /\ RequestSeconds \subseteq Nat
  /\ WatchdogOutcomes \subseteq BOOLEAN

(* millis() must not lap a session: 180 s + 30 s against 49.7 days.        *)
ASSUME WatchdogAssumption ==
  /\ WDT_TIMEOUT_MS \in Nat \ {0}
  /\ HardLimitMs \in Nat \ {0}
  /\ HardLimitMs + WDT_TIMEOUT_MS < Millis

VARIABLES
  pc,                   \* where the loop task is
  millis,               \* the millis() counter
  relay,                \* level of RELAY_PIN
  pumpRunning,
  pumpSessionStartMs,
  pumpPlannedDurationMs,
  urgentPumpStopPending,
  notifyPumpDone,
  watchdogSubscribed,
  sinceFeed,            \* hardware: time since esp_task_wdt_reset()
  onTime                \* ghost: true on-time of this run, up to Millis

pumpVars   == <<relay, pumpRunning, pumpSessionStartMs, pumpPlannedDurationMs,
                urgentPumpStopPending>>
timeVars   == <<millis, sinceFeed, onTime>>
vars == <<pc, pumpVars, notifyPumpDone, timeVars, watchdogSubscribed>>

Locations == {"feed", "pump1", "net", "pump2", "cmd", "sense", "sensed",
              "pump3", "notify", "tail"}
Blocking  == {"net", "sense", "tail"}

TypeOK ==
  /\ pc \in Locations
  /\ millis \in UInt32
  /\ relay \in {"ON", "OFF"}
  /\ pumpRunning \in BOOLEAN
  /\ pumpSessionStartMs \in UInt32
  /\ pumpPlannedDurationMs \in 0 .. HardLimitMs
  /\ urgentPumpStopPending \in BOOLEAN
  /\ notifyPumpDone \in BOOLEAN
  /\ watchdogSubscribed \in BOOLEAN
  /\ sinceFeed \in Nat
  /\ onTime \in Nat

-------------------------------------------------------------------------------
(* setup(): relay off first, everything else at its initial value; the     *)
(* watchdog subscription can fail.  The counter may be anywhere when we    *)
(* start to look.                                                          *)
Init ==
  /\ pc = "feed"
  /\ millis \in UInt32
  /\ relay = "OFF"
  /\ pumpRunning = FALSE
  /\ pumpSessionStartMs = 0
  /\ pumpPlannedDurationMs = 0
  /\ urgentPumpStopPending = FALSE
  /\ notifyPumpDone = FALSE
  /\ watchdogSubscribed \in WatchdogOutcomes
  /\ sinceFeed = 0
  /\ onTime = 0

(* A reset: brownout, power cycle, ESP.restart() after a failed OTA.       *)
Restart ==
  /\ pc' = "feed"
  /\ millis' = 0
  /\ relay' = "OFF"
  /\ pumpRunning' = FALSE
  /\ pumpSessionStartMs' = 0
  /\ pumpPlannedDurationMs' = 0
  /\ urgentPumpStopPending' = FALSE
  /\ notifyPumpDone' = FALSE
  /\ watchdogSubscribed' \in WatchdogOutcomes
  /\ sinceFeed' = 0
  /\ onTime' = 0

(* The task watchdog panics (trigger_panic) when it has not been fed.      *)
WatchdogReset ==
  /\ watchdogSubscribed
  /\ sinceFeed >= WDT_TIMEOUT_MS
  /\ Restart

(* One unit of time.  The watchdog panics at WDT_TIMEOUT_MS, so the loop   *)
(* task never runs beyond it without a feed.                               *)
AwaitTime == watchdogSubscribed => sinceFeed < WDT_TIMEOUT_MS

PassTime ==
  /\ AwaitTime
  /\ millis' = NextMillis(millis)
  /\ sinceFeed' = IF watchdogSubscribed THEN sinceFeed + 1 ELSE sinceFeed
  /\ onTime' = IF relay = "ON" THEN AtMost(onTime + 1, Millis) ELSE onTime

-------------------------------------------------------------------------------
(* stopPump() up to its network writes, which happen with the relay off.   *)
StopPump ==
  /\ relay' = "OFF"
  /\ pumpRunning' = FALSE
  /\ pumpPlannedDurationMs' = 0
  /\ notifyPumpDone' = (notifyPumpDone \/ pumpRunning)
  /\ UNCHANGED pumpSessionStartMs

(* Mutant: forgets the planned duration.                                   *)
hardLimitDue ==
  pumpRunning /\ hasElapsed(millis, pumpSessionStartMs, HardLimitMs)

servicePumpDue ==
  /\ pumpRunning
  /\ \/ hasElapsed(millis, pumpSessionStartMs, HardLimitMs)
     \/ /\ pumpPlannedDurationMs > 0
        /\ hasElapsed(millis, pumpSessionStartMs, pumpPlannedDurationMs)

(* Mutant: takes the stop for done when the session is not due.            *)
ServiceStopsForgetting ==
  IF servicePumpDue
  THEN StopPump /\ urgentPumpStopPending' = FALSE
  ELSE /\ relay' = IF urgentPumpStopPending THEN "OFF" ELSE relay
       /\ urgentPumpStopPending' = FALSE
       /\ UNCHANGED <<pumpRunning, pumpSessionStartMs, pumpPlannedDurationMs,
                      notifyPumpDone>>

(* serviceUrgentPumpStop(); servicePump(): the pair that opens loop(),     *)
(* follows serviceMQTT() and follows mqtt.service() between sensor reads.  *)
ServiceStops ==
  IF (urgentPumpStopPending /\ pumpRunning) \/ servicePumpDue
  THEN StopPump /\ urgentPumpStopPending' = FALSE
  ELSE /\ relay' = IF urgentPumpStopPending THEN "OFF" ELSE relay
       /\ urgentPumpStopPending' = FALSE
       /\ UNCHANGED <<pumpRunning, pumpSessionStartMs, pumpPlannedDurationMs,
                      notifyPumpDone>>

FeedWatchdog ==
  sinceFeed' = IF watchdogSubscribed THEN 0 ELSE sinceFeed

Feed ==
  /\ pc = "feed"
  /\ FeedWatchdog
  /\ pc' = "pump1"
  /\ UNCHANGED <<pumpVars, notifyPumpDone, millis, onTime, watchdogSubscribed>>

CheckStops ==
  /\ pc \in {"pump1", "pump2"}
  /\ ServiceStops
  /\ pc' = IF pc = "pump1" THEN "net" ELSE "cmd"
  /\ UNCHANGED <<timeVars, watchdogSubscribed>>

(* requestUrgentPumpStop() in an MQTT callback, while the network is being *)
(* serviced: only the GPIO and the flag.                                   *)
(* Mutant: leaves the relay to the reconciliation.                         *)
RequestStopOnly ==
  /\ pc \in Blocking \/ relay = "OFF"
  /\ urgentPumpStopPending' = TRUE
  /\ UNCHANGED <<pc, relay, pumpRunning, pumpSessionStartMs, pumpPlannedDurationMs,
                 notifyPumpDone, timeVars, watchdogSubscribed>>

RequestUrgentPumpStop ==
  /\ pc \in Blocking \/ relay = "OFF"
  /\ relay' = "OFF"
  /\ urgentPumpStopPending' = TRUE
  /\ UNCHANGED <<pc, pumpRunning, pumpSessionStartMs, pumpPlannedDurationMs,
                 notifyPumpDone, timeVars, watchdogSubscribed>>

(* An OTA error before onStart(): forcePumpOffForOtaSafety(), no restart.  *)
OtaErrorBeforeTransfer ==
  /\ pc = "net"
  /\ relay' = "OFF"
  /\ pumpRunning' = FALSE
  /\ pumpPlannedDurationMs' = 0
  /\ UNCHANGED <<pc, pumpSessionStartMs, urgentPumpStopPending, notifyPumpDone,
                 timeVars, watchdogSubscribed>>

NetDone ==
  /\ pc = "net"
  /\ pc' = "pump2"
  /\ UNCHANGED <<pumpVars, notifyPumpDone, timeVars, watchdogSubscribed>>

-------------------------------------------------------------------------------
(* processCommandQueue(): no command, a command without pump effect, a     *)
(* start that is refused.                                                  *)
NoPumpCommand ==
  /\ pc = "cmd"
  /\ pc' = "pump3"
  /\ UNCHANGED <<pumpVars, notifyPumpDone, timeVars, watchdogSubscribed>>

(* A STOP/OFF that the callback took for an ordinary text because of its   *)
(* padding: processCommand() and processHACommand() call stopPump().       *)
StopCommand ==
  /\ pc = "cmd"
  /\ pumpRunning
  /\ StopPump
  /\ pc' = "pump3"
  /\ UNCHANGED <<urgentPumpStopPending, timeVars, watchdogSubscribed>>

(* startPump(): its network writes come before the relay, so the session   *)
(* starts at the millis() read after them.                                 *)
StartPump ==
  /\ pc = "cmd"
  /\ ~urgentPumpStopPending
  /\ ~pumpRunning
  /\ \E seconds \in RequestSeconds :
       pumpPlannedDurationMs' =
         normalizeRequestedSeconds(seconds, DEFAULT_PUMP_SECONDS,
                                   MAX_PUMP_SECONDS) * MsPerSecond
  /\ relay' = "ON"
  /\ pumpRunning' = TRUE
  /\ pumpSessionStartMs' = millis
  /\ onTime' = 0
  /\ pc' = "pump3"
  /\ UNCHANGED <<urgentPumpStopPending, notifyPumpDone, millis, sinceFeed,
                 watchdogSubscribed>>

(* Mutant: an extension starts the session anew.                           *)
ExtendByRestart ==
  /\ pc = "cmd"
  /\ pumpRunning
  /\ pumpPlannedDurationMs' \in
       {normalizeRequestedSeconds(seconds, DEFAULT_PUMP_SECONDS, MAX_PUMP_SECONDS)
          * MsPerSecond : seconds \in RequestSeconds}
  /\ pumpSessionStartMs' = millis
  /\ pc' = "pump3"
  /\ UNCHANGED <<relay, pumpRunning, urgentPumpStopPending, notifyPumpDone, timeVars,
                 watchdogSubscribed>>

ExtendPump ==
  /\ pc = "cmd"
  /\ pumpRunning
  /\ \E seconds \in RequestSeconds :
       pumpPlannedDurationMs' =
         extendPlannedDuration(pumpPlannedDurationMs, seconds,
                               MAX_PUMP_SECONDS).plannedDurationMs
  /\ pc' = "pump3"
  /\ UNCHANGED <<relay, pumpRunning, pumpSessionStartMs, urgentPumpStopPending,
                 notifyPumpDone, timeVars, watchdogSubscribed>>

(* mitrums / raw: the report reads the enabled sensors one by one.         *)
SensorReport ==
  /\ pc = "cmd"
  /\ pc' = "sense"
  /\ UNCHANGED <<pumpVars, notifyPumpDone, timeVars, watchdogSubscribed>>

(* readMoistureRaw(): delays between its samples.                          *)
SensorRead ==
  /\ pc = "sense"
  /\ PassTime
  /\ pc' = "sensed"
  /\ UNCHANGED <<pumpVars, notifyPumpDone, watchdogSubscribed>>

(* servicePumpCriticalNetworkInput() after a sensor read, in a report or   *)
(* in the periodic measurement: the urgent stop and the timer, then the    *)
(* watchdog.  The periodic measurement only runs while the pump is off.    *)
ServicePumpCritical ==
  /\ \/ pc = "sensed" /\ pc' \in {"sense", "pump3"}
     \/ pc = "tail" /\ ~pumpRunning /\ pc' = "tail"
  /\ ServiceStops
  /\ FeedWatchdog
  /\ UNCHANGED <<millis, onTime, watchdogSubscribed>>

(* The third servicePump(); no urgent-stop reconciliation here.            *)
ServicePump3 ==
  /\ pc = "pump3"
  /\ IF servicePumpDue
     THEN StopPump
     ELSE UNCHANGED <<relay, pumpRunning, pumpSessionStartMs,
                      pumpPlannedDurationMs, notifyPumpDone>>
  /\ pc' = "notify"
  /\ UNCHANGED <<urgentPumpStopPending, timeVars, watchdogSubscribed>>

(* Mutant: announces without taking note of it.                            *)
NotifyAgain ==
  /\ pc = "notify"
  /\ pc' = "tail"
  /\ UNCHANGED <<pumpVars, notifyPumpDone, timeVars, watchdogSubscribed>>

NotifyDone ==
  /\ pc = "notify"
  /\ notifyPumpDone' = FALSE
  /\ pc' = "tail"
  /\ UNCHANGED <<pumpVars, timeVars, watchdogSubscribed>>

(* delay(1).                                                               *)
LoopEnd ==
  /\ pc = "tail"
  /\ PassTime
  /\ pc' = "feed"
  /\ UNCHANGED <<pumpVars, notifyPumpDone, watchdogSubscribed>>

-------------------------------------------------------------------------------
(* A blocking call takes another unit of time.                             *)
Tick ==
  /\ relay = "OFF" \/ pc \in Blocking
  /\ PassTime
  /\ UNCHANGED <<pc, pumpVars, notifyPumpDone, watchdogSubscribed>>

LoopStep ==
  \/ Feed \/ CheckStops \/ NetDone
  \/ NoPumpCommand \/ StopCommand \/ StartPump \/ ExtendPump
  \/ SensorReport \/ SensorRead \/ ServicePumpCritical \/ ServicePump3 \/ NotifyDone \/ LoopEnd

Next ==
  \/ LoopStep
  \/ RequestUrgentPumpStop \/ OtaErrorBeforeTransfer
  \/ Tick \/ WatchdogReset \/ Restart

Spec == Init /\ [][Next]_vars

(* The loop task keeps running: a blocking call returns or the watchdog    *)
(* resets the chip.  Time needs no fairness of its own, loop() waits.      *)
FairSpec == Spec /\ WF_vars(LoopStep) /\ WF_vars(WatchdogReset)

-------------------------------------------------------------------------------
(* A powered relay belongs to a running session that nobody has asked to   *)
(* stop: every path that ends the session or accepts a stop also drops the *)
(* GPIO.                                                                   *)
RelayFollowsIntent ==
  relay = "ON" => pumpRunning /\ ~urgentPumpStopPending

(* The session timer measures the true on-time, across a millis() wrap.    *)
TimerIsTrue ==
  relay = "ON" /\ watchdogSubscribed =>
    elapsedMs(millis, pumpSessionStartMs) = onTime

(* What the hard limit of servicePump() amounts to: the limit plus at most *)
(* one watchdog period in which the loop task may sit in a blocking call.  *)
BoundedRun ==
  relay = "ON" /\ watchdogSubscribed => onTime < HardLimitMs + WDT_TIMEOUT_MS

(* The same for the planned duration: however often a session is extended, *)
(* the relay is off one watchdog period after the end it plans.            *)
PlannedRun ==
  relay = "ON" /\ watchdogSubscribed =>
    onTime < pumpPlannedDurationMs + WDT_TIMEOUT_MS

(* Every end of a run that the device survives owes an announcement of its *)
(* own, which stays due until loop() sends it (main.cpp:3042), and nothing *)
(* else owes one.  One end is exempt: the code never announces a run that  *)
(* an OTA error before onStart() ends (main.cpp:981-993, 1048-1059).       *)
RunEnds == pumpRunning /\ ~pumpRunning'
NoticeFallsDue == ~notifyPumpDone /\ notifyPumpDone'

OneNoticePerRun ==
  [][~Restart =>
       /\ RunEnds /\ ~OtaErrorBeforeTransfer => NoticeFallsDue
       /\ NoticeFallsDue => RunEnds
       /\ notifyPumpDone /\ ~notifyPumpDone' => NotifyDone]_vars

(* docs/SAFETY.md:8: the absolute hard limit is 180 s.                     *)
ExactHardLimit == relay = "ON" => onTime <= HardLimitMs

(* The pump always stops while the watchdog is armed, whatever the network *)
(* calls do.                                                               *)
PumpStops == relay = "ON" /\ watchdogSubscribed ~> relay = "OFF"

(* The timer is about the same runs as PumpControl (RunContract).          *)
Run == INSTANCE RunContract
ImplementsRunContract == Run!Spec
===============================================================================
