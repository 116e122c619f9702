---------------------------- MODULE MoisturePublish ---------------------------
(***************************************************************************)
(* The periodic moisture telemetry of src/main.cpp: a sweep over the       *)
(* enabled sensors, one a pass of loop(), that gives way to commands and   *)
(* notifications and is given up for a pump run or a lost connection.      *)
(*                                                                         *)
(* The rest of loop() is pc = "pass".  Between a measurement and its       *)
(* publication servicePumpCriticalNetworkInput() lets the client call back *)
(* (pc = "input"), and so does the publication itself (pc = "publish"):    *)
(* the handler of a lost connection resets the sweep that is under way.    *)
(*                                                                         *)
(* Left open: when connections, sessions, pump runs, commands and          *)
(* notifications begin and end (PumpControl, MqttSession, TelegramDelivery *)
(* have them) and the measured value, of which only is kept whether the    *)
(* signal was usable.                                                      *)
(*                                                                         *)
(* An operator marked "Mutant" is not part of the model: it is the one     *)
(* after it with a plausible mistake, which a property must notice.        *)
(***************************************************************************)
EXTENDS Uint32Time

CONSTANTS
  SENSOR_COUNT,
  Enabled,              \* sensor_enable_policy::isEnabled
  IntervalMs,           \* MQTT_PUBLISH_INTERVAL_MS
  PassMs                \* how long a pass of loop() may block

ASSUME SensorAssumption ==
  SENSOR_COUNT \in Nat /\ Enabled \subseteq 0 .. SENSOR_COUNT - 1

(* A pass must not step over the part of the circle in which a sweep is due. *)
ASSUME IntervalAssumption ==
  /\ IntervalMs \in Nat \ {0} /\ PassMs \in Nat
  /\ IntervalMs + PassMs + 1 <= Millis

VARIABLES
  pc,                   \* where the loop task is
  conn,                 \* the client's state
  ready,                \* mqttSessionReady()
  pumpRunning,
  waiting,              \* what telemetry gives way to: commandQueueCount > 0,
                        \* telegramQueueCount > 0, trackedPublishBusy()
  active,               \* moisturePublishActive
  nextSensor,           \* moisturePublishSensor
  reading,              \* the locals of serviceMoisturePublish()
  lastPublish,          \* lastMqttPublish
  millis,
  sincePass,            \* how long the current pass has blocked
  measured,             \* ghost: the sensors measured in this sweep
  age,                  \* ghost: true time since the last sweep began
  fresh                 \* ghost: no sweep has begun in this session

sweepVars == <<active, nextSensor, reading, measured>>
linkVars  == <<conn, ready, pumpRunning, waiting>>
timeVars  == <<millis, sincePass, age>>
vars == <<pc, linkVars, sweepVars, lastPublish, fresh, timeVars>>

noReading == [sensor |-> -1, usable |-> FALSE]

TypeOK ==
  /\ pc \in {"pass", "service", "input", "publish", "end"}
  /\ conn \in {"disconnected", "transitioning", "connected"}
  /\ ready \in BOOLEAN /\ pumpRunning \in BOOLEAN
  /\ waiting \subseteq {"command", "telegram", "tracked"}
  /\ active \in BOOLEAN /\ nextSensor \in 0 .. SENSOR_COUNT
  /\ reading \in [sensor : Enabled \cup {-1}, usable : BOOLEAN]
  /\ lastPublish \in UInt32
  /\ millis \in UInt32 /\ sincePass \in 0 .. PassMs
  /\ measured \subseteq Enabled
  /\ age \in 0 .. IntervalMs /\ fresh \in BOOLEAN

-------------------------------------------------------------------------------
(* A new sweep (loop(), startMoisturePublish()).                           *)

due == hasElapsed(millis, lastPublish, IntervalMs)

resetMoisturePublish == active' = FALSE /\ nextSensor' = 0

sessionUsable == ready /\ conn = "connected"

(* Mutant: does not note when the sweep began.                             *)
StartUnnoted ==
  /\ pc = "pass"
  /\ ~active /\ due
  /\ ~pumpRunning /\ sessionUsable /\ waiting = {}
  /\ active' = TRUE /\ nextSensor' = 0
  /\ measured' = {} /\ age' = 0 /\ fresh' = FALSE
  /\ pc' = "service"
  /\ UNCHANGED <<linkVars, reading, lastPublish, millis, sincePass>>

(* lastMqttPublish moves only when the sweep really starts.                *)
StartMoisturePublish ==
  /\ pc = "pass"
  /\ ~active /\ due
  /\ ~pumpRunning /\ sessionUsable /\ waiting = {}
  /\ active' = TRUE /\ nextSensor' = 0
  /\ lastPublish' = millis
  /\ measured' = {} /\ age' = 0 /\ fresh' = FALSE
  /\ pc' = "service"
  /\ UNCHANGED <<linkVars, reading, millis, sincePass>>

NoNewSweep ==
  /\ pc = "pass"
  /\ active \/ ~due \/ pumpRunning \/ ~sessionUsable \/ waiting # {}
  /\ pc' = "service"
  /\ UNCHANGED <<linkVars, sweepVars, lastPublish, fresh, timeVars>>

-------------------------------------------------------------------------------
(* One sensor of a sweep (serviceMoisturePublish()).                       *)

(* Mutant: commands and notifications end the sweep.                       *)
GiveUpForOthers ==
  /\ active /\ waiting # {}
  /\ resetMoisturePublish

(* The sweep waits while commands or notifications do.                     *)
GiveWay ==
  /\ active /\ waiting # {}
  /\ UNCHANGED <<active, nextSensor>>

GiveUp ==
  /\ active /\ waiting = {}
  /\ pumpRunning \/ ~sessionUsable
  /\ resetMoisturePublish

NothingActive ==
  /\ ~active
  /\ UNCHANGED <<active, nextSensor>>

remaining == {s \in Enabled : s >= nextSensor}

SweepDone ==
  /\ active /\ waiting = {} /\ ~pumpRunning /\ sessionUsable
  /\ remaining = {}
  /\ resetMoisturePublish

(* A pass in which no sensor is measured.                                  *)
ServiceWithoutReading ==
  /\ pc = "service"
  /\ NothingActive \/ GiveWay \/ GiveUp \/ SweepDone
  /\ pc' = "end"
  /\ UNCHANGED <<linkVars, reading, measured, lastPublish, fresh, timeVars>>

(* Mutant: takes the next channel, enabled or not.                         *)
nextOfAll(s) == s = nextSensor

(* Disabled channels are skipped.                                          *)
nextEnabled(s) == s \in remaining /\ \A other \in remaining : s <= other

(* readMoistureRaw(): the sensor is counted before it is read.             *)
ReadSensor ==
  /\ pc = "service"
  /\ active /\ waiting = {} /\ ~pumpRunning /\ sessionUsable
  /\ \E s \in 0 .. SENSOR_COUNT - 1, usable \in BOOLEAN :
       /\ nextEnabled(s)
       /\ nextSensor' = s + 1
       /\ reading' = [sensor |-> s, usable |-> usable]
       /\ measured' = measured \cup {s}
  /\ pc' = "input"
  /\ UNCHANGED <<linkVars, active, lastPublish, fresh, timeVars>>

(* The last sensor of the sweep: no channel is left at all.                *)
EndOfChannels ==
  IF nextSensor >= SENSOR_COUNT
  THEN resetMoisturePublish
  ELSE UNCHANGED <<active, nextSensor>>

(* A command, a notification, a pump run or a lost connection seen after   *)
(* the measurement: the value is dropped, the sweep goes on or is reset.   *)
DropReading ==
  /\ pc = "input"
  /\ \/ /\ waiting # {}
        /\ UNCHANGED <<active, nextSensor>>
     \/ /\ waiting = {} /\ (pumpRunning \/ ~sessionUsable)
        /\ resetMoisturePublish
     \/ /\ waiting = {} /\ ~pumpRunning /\ sessionUsable
        /\ EndOfChannels      \* unusable signal, or no room in the outbox
  /\ reading' = noReading
  /\ pc' = "end"
  /\ UNCHANGED <<linkVars, measured, lastPublish, fresh, timeVars>>

(* Mutant: looks at what waits only before the measurement.                *)
PublishReadingAnyway ==
  /\ pc = "input"
  /\ ~pumpRunning /\ sessionUsable
  /\ reading.usable
  /\ pc' = "publish"
  /\ UNCHANGED <<linkVars, sweepVars, lastPublish, fresh, timeVars>>

PublishReading ==
  /\ pc = "input"
  /\ waiting = {} /\ ~pumpRunning /\ sessionUsable
  /\ reading.usable
  /\ pc' = "publish"
  /\ UNCHANGED <<linkVars, sweepVars, lastPublish, fresh, timeVars>>

(* After publishBestEffort(), in which the sweep may have been reset.      *)
FinishReading ==
  /\ pc = "publish"
  /\ EndOfChannels
  /\ reading' = noReading
  /\ pc' = "end"
  /\ UNCHANGED <<linkVars, measured, lastPublish, fresh, timeVars>>

-------------------------------------------------------------------------------
(* Time.                                                                   *)
PassTime ==
  /\ millis' = NextMillis(millis)
  /\ age' = AtMost(age + 1, IntervalMs)

LoopEnd ==
  /\ pc = "end"
  /\ PassTime
  /\ sincePass' = 0
  /\ pc' = "pass"
  /\ UNCHANGED <<linkVars, sweepVars, lastPublish, fresh>>

(* A blocking call takes another unit of time.                             *)
Tick ==
  /\ pc \in {"pass", "input", "publish"}
  /\ sincePass < PassMs
  /\ PassTime
  /\ sincePass' = sincePass + 1
  /\ UNCHANGED <<pc, linkVars, sweepVars, lastPublish, fresh>>

-------------------------------------------------------------------------------
(* The rest of the firmware and the network.                               *)
InClient == pc \in {"pass", "input", "publish"}

KeepsSweep == UNCHANGED <<pc, sweepVars, lastPublish, fresh, timeVars>>

CommandArrives ==
  /\ InClient /\ conn = "connected"
  /\ waiting' = waiting \cup {"command"}
  /\ UNCHANGED <<conn, ready, pumpRunning>> /\ KeepsSweep

(* processCommandQueue() has emptied the FIFO.                             *)
CommandsProcessed ==
  /\ pc = "pass"
  /\ waiting' = waiting \ {"command"}
  /\ UNCHANGED <<conn, ready, pumpRunning>> /\ KeepsSweep

(* tgSend(), in a command or in serviceUrgentPumpStop().                   *)
TgSend ==
  /\ pc \in {"pass", "input"}
  /\ waiting' = waiting \cup
       {IF "tracked" \in waiting THEN "telegram" ELSE "tracked"}
  /\ UNCHANGED <<conn, ready, pumpRunning>> /\ KeepsSweep

(* The acknowledgement of a notification, and the slot given to the next.  *)
PubAck ==
  /\ InClient /\ conn = "connected"
  /\ waiting' = waiting \ {"tracked"}
  /\ UNCHANGED <<conn, ready, pumpRunning>> /\ KeepsSweep

ServiceTelegramDelivery ==
  /\ pc = "pass" /\ ready /\ ~pumpRunning
  /\ "telegram" \in waiting /\ "tracked" \notin waiting
  /\ waiting' \in {waiting \cup {"tracked"},
                   (waiting \ {"telegram"}) \cup {"tracked"}}
  /\ UNCHANGED <<conn, ready, pumpRunning>> /\ KeepsSweep

StartPump ==
  /\ pc = "pass" /\ ~pumpRunning /\ sessionUsable /\ "tracked" \notin waiting
  /\ pumpRunning' = TRUE
  /\ UNCHANGED <<conn, ready, waiting>> /\ KeepsSweep

StopPump ==
  /\ pc = "pass" /\ pumpRunning
  /\ pumpRunning' = FALSE
  /\ UNCHANGED <<conn, ready, waiting>> /\ KeepsSweep

Connect ==
  /\ pc = "pass" /\ conn = "disconnected" /\ ~pumpRunning
  /\ conn' = "connected"
  /\ UNCHANGED <<ready, pumpRunning, waiting>> /\ KeepsSweep

(* The end of the initialisation: a sweep is due at once.                  *)
SessionDone ==
  /\ pc = "pass" /\ conn = "connected" /\ ~ready
  /\ ready' = TRUE
  /\ lastPublish' = elapsedMs(millis, IntervalMs)
  /\ fresh' = TRUE
  /\ UNCHANGED <<pc, conn, pumpRunning, waiting, sweepVars, timeVars>>

ConnectionLost ==
  /\ InClient /\ conn = "connected"
  /\ conn' = "transitioning"
  /\ UNCHANGED <<ready, pumpRunning, waiting>> /\ KeepsSweep

(* mqttDisconnectedHandler(): resets the sweep, wherever it is.            *)
Disconnected ==
  /\ InClient /\ conn = "transitioning"
  /\ conn' = "disconnected"
  /\ ready' = FALSE
  /\ resetMoisturePublish
  /\ UNCHANGED <<pc, pumpRunning, waiting, reading, measured, lastPublish,
                 fresh, timeVars>>

(* A reset.                                                                *)
Restart ==
  /\ pc' = "pass"
  /\ conn' = "disconnected" /\ ready' = FALSE
  /\ pumpRunning' = FALSE /\ waiting' = {}
  /\ resetMoisturePublish
  /\ reading' = noReading /\ measured' = {}
  /\ lastPublish' = 0 /\ fresh' = FALSE
  /\ millis' = 0 /\ sincePass' = 0 /\ age' = 0

-------------------------------------------------------------------------------
Init ==
  /\ pc = "pass"
  /\ conn = "disconnected" /\ ready = FALSE
  /\ pumpRunning = FALSE /\ waiting = {}
  /\ active = FALSE /\ nextSensor = 0
  /\ reading = noReading /\ measured = {}
  /\ lastPublish = 0 /\ fresh = FALSE
  /\ millis = 0 /\ sincePass = 0 /\ age = 0

LoopStep ==
  \/ StartMoisturePublish \/ NoNewSweep
  \/ ServiceWithoutReading \/ ReadSensor
  \/ DropReading \/ PublishReading \/ FinishReading
  \/ LoopEnd

Next ==
  \/ LoopStep
  \/ CommandArrives \/ CommandsProcessed
  \/ TgSend \/ PubAck \/ ServiceTelegramDelivery
  \/ StartPump \/ StopPump
  \/ Connect \/ SessionDone \/ ConnectionLost \/ Disconnected
  \/ Tick \/ Restart

Spec == Init /\ [][Next]_vars

(* The loop task keeps running; nothing is assumed of anybody else.        *)
FairSpec == Spec /\ WF_vars(LoopStep)

-------------------------------------------------------------------------------
(* A sweep measures every enabled sensor once: whatever arrives between    *)
(* two sensors, in a measurement or in a publication, none is measured     *)
(* twice, and a sweep ends early for a pump run or a lost link only.       *)
SweepIsWhole ==
  [][/\ measured' # {} /\ pc' = "input" /\ pc = "service" =>
          reading'.sensor \in Enabled \ measured
     /\ active /\ ~active' =>
          measured = Enabled \/ pumpRunning \/ conn # "connected" \/ ~ready']_vars

(* main.cpp:2104-2105, 2149-2150: a value is handed to the client only     *)
(* with no command or notification waiting, the pump off and the sweep it  *)
(* was measured in still on, also when that changed in the measurement.    *)
TelemetryYields ==
  [][pc' = "publish" /\ pc = "input" =>
       /\ waiting = {} /\ ~pumpRunning
       /\ active /\ reading.sensor \in measured]_vars

(* Within a session sweeps begin at least an interval of true time apart,  *)
(* across the wrap of millis().                                            *)
SpacedSweeps ==
  [][active' /\ ~active => fresh \/ age >= IntervalMs]_vars

(* In a session that stays up, with nothing to give way to, sweeps go on:  *)
(* one begins and ends again and again.                                    *)
TelemetryGoesOn ==
  <>[](sessionUsable /\ ~pumpRunning /\ waiting = {})
    => []<>active /\ []<>~active
===============================================================================
