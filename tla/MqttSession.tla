----------------------------- MODULE MqttSession ------------------------------
(***************************************************************************)
(* The initialisation of an MQTT session: serviceMqttSessionInit() of      *)
(* src/main.cpp, the tracked subscription of src/mqtt_runtime_adapter.cpp  *)
(* and the broker's answers.  "Ready" (Done) is to mean that the broker    *)
(* has granted both command topics at QoS 1.                               *)
(*                                                                         *)
(* A step of the initialisation that writes to the client is a call: the   *)
(* client sends, receives and calls back in it (pc = "call"), and so it    *)
(* does in mqtt.service() (pc = "service") and in the rest of loop()       *)
(* (pc = "rest").  Time passes there, too, but not in straight-line code.  *)
(*                                                                         *)
(* Left open: whether the outbox has room, Wi-Fi, the reconnect interval,  *)
(* when the pump starts and stops, the texts of the log steps.             *)
(*                                                                         *)
(* An operator marked "Mutant" is not part of the model: it is the one     *)
(* after it with a plausible mistake, which a property must notice.        *)
(***************************************************************************)
EXTENDS Uint32Time

CONSTANTS
  SENSOR_COUNT,
  SubackBudgetMs,       \* kCommandSubscriptionAckBudgetMs
  CriticalBudgetMs,     \* MQTT_SESSION_CRITICAL_STEP_BUDGET_MS
  DiscoveryBudgetMs,    \* MQTT_DISCOVERY_WINDOW_BUDGET_MS
  PassMs,               \* how long a pass of loop() may block
  PacketId,             \* the packet ids of the client
  Verdicts              \* how the broker may answer a SUBSCRIBE

ASSUME SessionAssumption ==
  /\ SENSOR_COUNT \in Nat
  /\ 0 \notin PacketId
  /\ Verdicts \subseteq {"acceptedQos1", "rejectedQos0", "rejectedQos2",
                         "brokerRejected", "malformed"}

(* millis() must not lap a budget between two looks at it.                 *)
ASSUME BudgetAssumption ==
  /\ PassMs \in Nat
  /\ \A budget \in {SubackBudgetMs, CriticalBudgetMs, DiscoveryBudgetMs} :
       budget \in Nat \ {0} /\ budget + 3 * PassMs + 2 < Millis

VARIABLES
  pc,                   \* where the loop task is
  conn,                 \* the client's state
  session,              \* mqttSessionInitState
  stepStartedAt,        \* mqttSessionStepStartedAt
  discoveryStartedAt,   \* mqttDiscoveryWindowStartedAt
  sensorIndex,          \* mqttDiscoverySensorIndex
  now,                  \* the local of serviceMqttSessionInit(), 0 outside
  tracker,              \* the tracked subscription
  pumpRunning,
  millis,
  sincePass,            \* how long the current pass has taken
  wifiMissed,           \* bound: Wi-Fi may fail and recover unseen by
                        \* serviceWiFi() in one pass, not in two in a row
  asked,                \* what this connection has subscribed to
  verdict,              \* how the broker answers on this connection
  age                   \* ghost: true time since the tracker was armed

stepVars   == <<session, stepStartedAt, discoveryStartedAt, sensorIndex>>
brokerVars == <<asked, verdict>>
timeVars   == <<millis, sincePass>>
otherVars  == <<pumpRunning, wifiMissed, timeVars, age>>
linkVars   == <<conn, stepVars, tracker, brokerVars>>
vars == <<pc, linkVars, now, otherVars>>

Subscribing == {"SubscribePump", "SubscribeCmd"}
Awaiting    == {"AwaitPumpSuback", "AwaitCmdSuback"}
AfterGate   == {"Online", "DiscoverySensors", "DiscoveryPump", "PumpStatus",
                "ConnectedLog", "StartupLog", "StartupPumpWarning",
                "WifiRestoredLog", "Done"}
States == {"Idle"} \cup Subscribing \cup Awaiting \cup AfterGate

Topics  == {"T_PUMP_CMD", "T_CMD"}
Windows == {"service", "call", "rest"}

TypeOK ==
  /\ pc \in {"loop", "session"} \cup Windows
  /\ conn \in {"disconnected", "transitioning", "connected"}
  /\ session \in States
  /\ stepStartedAt \in UInt32 /\ discoveryStartedAt \in UInt32 /\ now \in UInt32
  /\ sensorIndex \in 0 .. SENSOR_COUNT
  /\ tracker \in [state : {"idle", "awaitingAck", "accepted", "rejected"},
                  packetId : PacketId \cup {0}, startedAt : UInt32]
  /\ pumpRunning \in BOOLEAN /\ wifiMissed \in BOOLEAN
  /\ millis \in UInt32 /\ sincePass \in 0 .. PassMs
  /\ asked \subseteq [topic : Topics, packetId : PacketId]
  /\ verdict \in [Topics -> Verdicts]
  /\ age \in 0 .. SubackBudgetMs

-------------------------------------------------------------------------------
(* The tracked subscription.                                               *)
idleTracker == [state |-> "idle", packetId |-> 0, startedAt |-> 0]

(* Mutant: waits for an answer for ever.                                   *)
neverLatched(t) == t

latchTrackedSubscriptionTimeout(t) ==
  IF t.state = "awaitingAck" /\ hasElapsed(millis, t.startedAt, SubackBudgetMs)
  THEN [t EXCEPT !.state = "rejected"]
  ELSE t

(* Mutant: takes any SUBACK for its own.                                   *)
resolvedByAny(t, packetId, result) ==
  IF t.state = "awaitingAck"
  THEN [t EXCEPT !.state =
          IF result = "acceptedQos1" THEN "accepted" ELSE "rejected"]
  ELSE t

resolved(t, packetId, result) ==
  IF t.state = "awaitingAck" /\ t.packetId = packetId
  THEN [t EXCEPT !.state =
          IF result = "acceptedQos1" THEN "accepted" ELSE "rejected"]
  ELSE t

(* Mutant: does not look at the clock.                                     *)
ackWithoutLatch(ack) ==
  tracker' = resolved(tracker, ack.packetId, verdict[ack.topic])

handleSubscribeAck(ack) ==
  tracker' = resolved(latchTrackedSubscriptionTimeout(tracker), ack.packetId,
                      verdict[ack.topic])

(* The broker answers what it was asked, at any time, and once more when   *)
(* the client has sent the SUBSCRIBE once more (after 2 s without answer). *)
SubscribeAck ==
  /\ pc \in Windows
  /\ conn = "connected"
  /\ \E ack \in asked : handleSubscribeAck(ack)
  /\ UNCHANGED <<pc, conn, stepVars, now, brokerVars, otherVars>>

-------------------------------------------------------------------------------
(* The connection.                                                         *)

(* mqttConnectedHandler(); the broker starts with a clean session.         *)
Connected ==
  /\ conn' = "connected"
  /\ session' = "SubscribePump"
  /\ stepStartedAt' = millis
  /\ discoveryStartedAt' = 0
  /\ sensorIndex' = 0
  /\ tracker' = idleTracker
  /\ asked' = {}
  /\ verdict' \in [Topics -> Verdicts]

(* mqttDisconnectedHandler(), resetMqttSessionInit()                       *)
Disconnected ==
  /\ conn' = "disconnected"
  /\ session' = "Idle"
  /\ stepStartedAt' = 0
  /\ discoveryStartedAt' = 0
  /\ sensorIndex' = 0
  /\ tracker' = idleTracker
  /\ asked' = {}
  /\ UNCHANGED verdict

(* forceDisconnect(): done within its budget, or still closing.            *)
ForceDisconnect ==
  \/ Disconnected
  \/ conn' = "transitioning" /\ UNCHANGED <<stepVars, tracker, brokerVars>>

ConnectionLost ==
  /\ pc \in Windows
  /\ conn = "connected"
  /\ conn' = "transitioning"
  /\ UNCHANGED <<pc, stepVars, now, tracker, brokerVars, otherVars>>

-------------------------------------------------------------------------------
(* serviceWiFi(), which may close the connection, and serviceMQTT().  The  *)
(* service() of a closing connection latches a timeout, too.               *)
ServiceMQTT ==
  /\ pc = "loop"
  /\ \/ /\ conn = "connected" /\ pc' = "service"
        /\ UNCHANGED linkVars
     \/ /\ conn # "disconnected" /\ pc' = "rest"
        /\ Disconnected
     \/ /\ conn # "disconnected" /\ pc' = "rest"
        /\ conn' = "transitioning"
        /\ tracker' = latchTrackedSubscriptionTimeout(tracker)
        /\ UNCHANGED <<stepVars, brokerVars>>
     \/ /\ conn = "disconnected" /\ ~pumpRunning /\ pc' = "rest"
        /\ Connected
     \/ /\ conn = "disconnected" /\ ~pumpRunning /\ pc' = "rest"
        /\ conn' = "transitioning" /\ UNCHANGED <<stepVars, tracker, brokerVars>>
     \/ /\ conn = "disconnected" /\ pc' = "rest"
        /\ UNCHANGED linkVars
  /\ UNCHANGED <<now, otherVars>>

(* service() latches a timeout.  Wi-Fi lost since serviceWiFi() looked:    *)
(* the session makes no step in this pass; lost for longer, serviceWiFi()  *)
(* closes the connection.                                                  *)
FinishService ==
  /\ pc = "service"
  /\ tracker' = latchTrackedSubscriptionTimeout(tracker)
  /\ \/ pc' = "session" /\ wifiMissed' = FALSE
     \/ ~wifiMissed /\ pc' = "rest" /\ wifiMissed' = TRUE
  /\ UNCHANGED <<conn, stepVars, now, pumpRunning, timeVars, brokerVars, age>>

-------------------------------------------------------------------------------
(* serviceMqttSessionInit(), one step a pass.                              *)

TopicOf == [SubscribePump |-> "T_PUMP_CMD", SubscribeCmd |-> "T_CMD"]

NextState ==
  [SubscribePump   |-> "AwaitPumpSuback",  AwaitPumpSuback  |-> "SubscribeCmd",
   SubscribeCmd    |-> "AwaitCmdSuback",   AwaitCmdSuback   |-> "Online",
   Online          |-> "DiscoverySensors", DiscoverySensors |-> "DiscoveryPump",
   DiscoveryPump   |-> "PumpStatus",       PumpStatus       |-> "ConnectedLog",
   ConnectedLog    |-> "StartupLog",       StartupLog |-> "StartupPumpWarning",
   StartupPumpWarning |-> "WifiRestoredLog",  WifiRestoredLog |-> "Done"]

NothingToInit ==
  /\ pc = "session"
  /\ conn # "connected" \/ session \in {"Idle", "Done"}
  /\ pc' = "rest"
  /\ UNCHANGED <<linkVars, now, otherVars>>

InStep(states) == pc = "session" /\ conn = "connected" /\ session \in states

(* Mutant: starts over on the same connection.                             *)
startOver ==
  /\ session' = "SubscribePump"
  /\ stepStartedAt' = millis
  /\ tracker' = idleTracker
  /\ UNCHANGED <<conn, discoveryStartedAt, sensorIndex, brokerVars>>

handleCriticalMqttSessionInitFailure ==
  IF pumpRunning THEN UNCHANGED linkVars
                 ELSE ForceDisconnect

(* startTrackedSubscription(): the id is one that no other SUBSCRIBE of    *)
(* this connection has.                                                    *)
StartTrackedSubscription ==
  /\ InStep(Subscribing)
  /\ tracker.state = "idle"
  /\ \E id \in PacketId \ {a.packetId : a \in asked} :
       /\ tracker' = [state |-> "awaitingAck", packetId |-> id,
                      startedAt |-> millis]
       /\ asked' = asked \cup {[topic |-> TopicOf[session], packetId |-> id]}
  /\ age' = 0
  /\ now' = millis
  /\ pc' = "call"
  /\ UNCHANGED <<conn, stepVars, pumpRunning, timeVars, verdict, wifiMissed>>

FinishSubscribe ==
  /\ pc = "call" /\ session \in Subscribing
  /\ tracker' = latchTrackedSubscriptionTimeout(tracker)
  /\ session' = NextState[session]
  /\ stepStartedAt' = now
  /\ now' = 0
  /\ pc' = "rest"
  /\ UNCHANGED <<conn, discoveryStartedAt, sensorIndex, brokerVars, otherVars>>

(* No room in the outbox: a critical step gives up after its budget.       *)
CriticalStepRefused ==
  /\ InStep(Subscribing \cup {"Online", "PumpStatus"})
  /\ IF hasElapsed(millis, stepStartedAt, CriticalBudgetMs)
     THEN handleCriticalMqttSessionInitFailure
     ELSE UNCHANGED linkVars
  /\ pc' = "rest"
  /\ UNCHANGED <<now, otherVars>>

(* Mutant: keeps the tracker for the next subscription.                    *)
SubackAcceptedKeepingTracker ==
  /\ InStep(Awaiting) /\ tracker.state = "accepted"
  /\ session' = NextState[session]
  /\ stepStartedAt' = millis
  /\ pc' = "rest"
  /\ UNCHANGED <<conn, discoveryStartedAt, sensorIndex, now, tracker,
                 brokerVars, otherVars>>

(* trackedSubscriptionState() latches as service() just did, at the same   *)
(* millis().                                                               *)
SubackAccepted ==
  /\ InStep(Awaiting) /\ tracker.state = "accepted"
  /\ tracker' = idleTracker
  /\ session' = NextState[session]
  /\ stepStartedAt' = millis
  /\ pc' = "rest"
  /\ UNCHANGED <<conn, discoveryStartedAt, sensorIndex, now, brokerVars,
                 otherVars>>

SubackNotAccepted ==
  /\ InStep(Awaiting) /\ tracker.state # "accepted"
  /\ IF tracker.state = "awaitingAck"
     THEN UNCHANGED linkVars
     ELSE handleCriticalMqttSessionInitFailure
  /\ pc' = "rest"
  /\ UNCHANGED <<now, otherVars>>

discoveryOver == hasElapsed(millis, discoveryStartedAt, DiscoveryBudgetMs)

(* Mutant: one sensor too many.                                            *)
allSensorsAnnouncedLate == sensorIndex > SENSOR_COUNT

allSensorsAnnounced == sensorIndex >= SENSOR_COUNT

(* Discovery is not critical: its window closes and the session goes on.   *)
SkipDiscovery ==
  /\ \/ InStep({"DiscoverySensors"}) /\ (discoveryOver \/ allSensorsAnnounced)
     \/ InStep({"DiscoveryPump"}) /\ discoveryOver
  /\ session' = NextState[session]
  /\ stepStartedAt' =
       IF session = "DiscoveryPump" THEN millis ELSE stepStartedAt
  /\ pc' = "rest"
  /\ UNCHANGED <<conn, discoveryStartedAt, sensorIndex, now, tracker,
                 brokerVars, otherVars>>

DiscoveryRefused ==
  /\ InStep({"DiscoverySensors", "DiscoveryPump"})
  /\ ~discoveryOver
  /\ session = "DiscoverySensors" => ~allSensorsAnnounced
  /\ pc' = "rest"
  /\ UNCHANGED <<linkVars, now, otherVars>>

(* A log step goes on whether it publishes or not.                         *)
SkipLog ==
  /\ InStep({"ConnectedLog", "StartupLog", "StartupPumpWarning",
             "WifiRestoredLog"})
  /\ session' = NextState[session]
  /\ pc' = "rest"
  /\ UNCHANGED <<conn, stepStartedAt, discoveryStartedAt, sensorIndex, now,
                 tracker, brokerVars, otherVars>>

PublishStep ==
  /\ \/ InStep({"Online", "PumpStatus", "ConnectedLog", "StartupLog",
                "WifiRestoredLog"})
     \/ InStep({"DiscoverySensors"}) /\ ~discoveryOver /\ ~allSensorsAnnounced
     \/ InStep({"DiscoveryPump"}) /\ ~discoveryOver
  /\ now' = millis
  /\ pc' = "call"
  /\ UNCHANGED <<linkVars, otherVars>>

FinishPublish ==
  /\ pc = "call" /\ session \notin Subscribing
  /\ sensorIndex' = CASE session = "DiscoverySensors" -> sensorIndex + 1
                      [] session = "Online"           -> 0
                      [] OTHER                        -> sensorIndex
  /\ session' =
       IF session = "DiscoverySensors" THEN session ELSE NextState[session]
  /\ discoveryStartedAt' =
       IF session = "Online" THEN now ELSE discoveryStartedAt
  /\ stepStartedAt' =
       IF session = "DiscoveryPump" THEN now ELSE stepStartedAt
  /\ pc' = "rest"
  /\ now' = 0
  /\ UNCHANGED <<conn, tracker, brokerVars, otherVars>>

-------------------------------------------------------------------------------
(* The rest of loop(), as far as it matters here: a start of the pump and  *)
(* its cancellation, the end of a run, delay(1).                           *)
StartPump ==
  /\ pc = "rest" /\ ~pumpRunning
  /\ session = "Done" /\ conn = "connected"
  /\ \/ /\ pumpRunning' = TRUE
        /\ UNCHANGED linkVars
     \/ /\ ForceDisconnect
        /\ UNCHANGED pumpRunning
  /\ UNCHANGED <<pc, now, timeVars, age, wifiMissed>>

StopPump ==
  /\ pc \in {"loop", "rest"} /\ pumpRunning
  /\ pumpRunning' = FALSE
  /\ UNCHANGED <<pc, linkVars, now, timeVars, age, wifiMissed>>

(* servicePumpCriticalNetworkInput(), between two sensor reads.            *)
ServicePumpCritical ==
  /\ pc = "rest" /\ conn # "disconnected"
  /\ \/ /\ tracker' = latchTrackedSubscriptionTimeout(tracker)
        /\ UNCHANGED <<conn, stepVars, brokerVars>>
     \/ conn = "transitioning" /\ Disconnected
  /\ UNCHANGED <<pc, now, otherVars>>

PassTime ==
  /\ millis' = NextMillis(millis)
  /\ age' = AtMost(age + 1, SubackBudgetMs)

LoopEnd ==
  /\ pc = "rest"
  /\ PassTime
  /\ sincePass' = 0
  /\ pc' = "loop"
  /\ UNCHANGED <<linkVars, now, pumpRunning, wifiMissed>>

(* A blocking call takes another unit of time.                             *)
Tick ==
  /\ pc # "session"
  /\ sincePass < PassMs
  /\ PassTime
  /\ sincePass' = sincePass + 1
  /\ UNCHANGED <<pc, linkVars, now, pumpRunning, wifiMissed>>

(* A reset.                                                                *)
Restart ==
  /\ pc' = "loop"
  /\ Disconnected
  /\ now' = 0
  /\ pumpRunning' = FALSE
  /\ millis' = 0 /\ sincePass' = 0 /\ age' = 0 /\ wifiMissed' = FALSE

-------------------------------------------------------------------------------
Init ==
  /\ pc = "loop"
  /\ conn = "disconnected" /\ session = "Idle"
  /\ stepStartedAt = 0 /\ discoveryStartedAt = 0 /\ sensorIndex = 0 /\ now = 0
  /\ tracker = idleTracker
  /\ pumpRunning = FALSE
  /\ millis = 0 /\ sincePass = 0 /\ wifiMissed = FALSE
  /\ asked = {} /\ verdict \in [Topics -> Verdicts]
  /\ age = 0

LoopStep ==
  \/ ServiceMQTT \/ FinishService \/ NothingToInit
  \/ StartTrackedSubscription \/ FinishSubscribe \/ CriticalStepRefused
  \/ SubackAccepted \/ SubackNotAccepted
  \/ SkipDiscovery \/ DiscoveryRefused \/ SkipLog
  \/ PublishStep \/ FinishPublish
  \/ LoopEnd

Next ==
  \/ LoopStep
  \/ StartPump \/ StopPump \/ ServicePumpCritical
  \/ SubscribeAck \/ ConnectionLost \/ Tick \/ Restart

Spec == Init /\ [][Next]_vars

(* The loop task keeps running; nothing is assumed of the broker.          *)
FairSpec == Spec /\ WF_vars(LoopStep)

-------------------------------------------------------------------------------
(* docs/MQTT_RUNTIME_BOUNDED_TRANSPORT.md:137-140: no retained "online",   *)
(* no discovery and no ready session before the broker has granted both    *)
(* command topics of this very connection at QoS 1, whatever answers were  *)
(* late, repeated or meant for the other topic.                            *)
SessionGate ==
  session \in AfterGate =>
    \A topic \in Topics :
      verdict[topic] = "acceptedQos1" /\ \E a \in asked : a.topic = topic

(* The deadline is latched: a SUBACK that comes when the budget is spent   *)
(* never turns a subscription into an accepted one, across a wrap of       *)
(* millis() and whether or not anyone has looked at the clock meanwhile.   *)
AcceptedInTime ==
  [][tracker'.state = "accepted" /\ tracker.state # "accepted" =>
       tracker.state = "awaitingAck" /\ age < SubackBudgetMs]_vars

(* The one slot follows the session: free when a subscription is to be     *)
(* started, taken while its answer is awaited.  Otherwise the session      *)
(* would spend its budget on a step that cannot succeed.                   *)
SlotFollowsSession ==
  pc # "call" =>
    /\ session \in Awaiting => tracker.state # "idle"
    /\ session \in States \ Awaiting => tracker.state = "idle"

(* An initialisation ends: in a ready session, or in a connection that is  *)
(* being closed and may be tried again, even if the broker never answers.  *)
SessionSettles ==
  session \notin {"Idle", "Done"} ~> session = "Done" \/ conn # "connected"

(* The phases in which PumpControl knows the session.                      *)
phase ==
  CASE session = "Idle"       -> "idle"
    [] session = "PumpStatus" -> "pumpStatus"
    [] session = "Done"       -> "done"
    [] session \in {"ConnectedLog", "StartupLog", "StartupPumpWarning",
                    "WifiRestoredLog"} -> "logging"
    [] OTHER                  -> "subscribing"

(* What PumpControl takes a session for (SessionContract).                 *)
Session == INSTANCE SessionContract WITH link <- conn
ImplementsSessionContract == Session!Spec
===============================================================================
