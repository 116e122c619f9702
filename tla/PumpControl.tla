------------------------------ MODULE PumpControl -----------------------------
(***************************************************************************)
(* The control core of src/main.cpp: one pass of loop() with the urgent    *)
(* stop path, the command FIFO, startPump()/stopPump() and the MQTT client *)
(* they publish through.                                                   *)
(*                                                                         *)
(* The firmware is one task.  Other code runs in the middle of a handler   *)
(* only where the handler calls into the MQTT client (publish, service):   *)
(* the client sends, receives and calls back.  Each such call is a value   *)
(* of pc in Windows; everything between two calls is one action.           *)
(*                                                                         *)
(* Left open (any choice is allowed): when the pump timer is due (PumpTimer*)
(* has the arithmetic), Wi-Fi status, reconnect and telemetry intervals,   *)
(* session timeouts, the Telegram backlog, the sensors of a report.        *)
(*                                                                         *)
(* An operator marked "Mutant" is not part of the model: it is the one     *)
(* after it with a plausible mistake, which a property must notice.        *)
(***************************************************************************)
EXTENDS Integers, Sequences

CONSTANTS
  COMMAND_QUEUE_SIZE,
  MaxBestEffortPackets, \* kMaxBestEffortQueuePackets
  Inbound,              \* the commands that arrive, see Command
  LibraryRefuses,       \* may publish() fail for want of memory?
  Qos,                  \* the QoS they arrive with, a subset of {0, 1}
  OtaEvents,            \* a subset of {"errorBeforeStart", "transfer"}
  MaxEpoch,             \* bound of the model: urgent stops and OTA events
  MaxOutbox             \* bound of the model: packets in the outbox

(* A command as the broker delivers it.  "laist" stands for laist and for  *)
(* laist_N in range, "laist_x" for laist_ with anything else, "report" for *)
(* mitrums and raw, "info" for every other text.  A padded payload starts  *)
(* with \v or \f: trimCommandBuffer() leaves it, String::trim() drops it.  *)
Command == [fromHA : BOOLEAN,
            payload : {"ON", "OFF", "laist", "laist_x", "stop", "report", "info"},
            padded : BOOLEAN]

ASSUME QueueAssumption ==
  /\ COMMAND_QUEUE_SIZE \in Nat \ {0}
  /\ MaxBestEffortPackets \in Nat \ {0}
  /\ MaxEpoch \in Nat
  /\ MaxOutbox \in Nat
ASSUME InboundAssumption ==
  /\ Inbound \subseteq Command
  /\ LibraryRefuses \in BOOLEAN
  /\ Qos \subseteq {0, 1}
  /\ OtaEvents \subseteq {"errorBeforeStart", "transfer"}

VARIABLES
  pc, ret,              \* where the task is; where stopPump() returns to
  relay, pumpRunning,
  rtcPumpWasRunning,    \* RTC memory, survives a reset (not a power loss)
  urgentPumpStopPending, pumpStopEpoch,
  commandQueue,         \* of [cmd, stopEpoch]
  item,                 \* the start command in progress: a sequence of 0 or 1
  notifyPumpDone, pumpWasRunningAtBoot,
  conn,                 \* the client's state; "halfOpen": it cannot know yet
  session,              \* mqttSessionInitState
  outbox,               \* packets queued in the client, oldest first
  tracked,              \* phase of the tracked (Telegram) publish
  retained              \* the retained pump status at the broker

pumpVars   == <<relay, pumpRunning, rtcPumpWasRunning>>
stopVars   == <<urgentPumpStopPending, pumpStopEpoch>>
noticeVars == <<notifyPumpDone, pumpWasRunningAtBoot>>
cmdVars    == <<commandQueue, item>>
linkVars   == <<conn, session>>
netVars    == <<linkVars, outbox, tracked, retained>>
vars == <<pc, ret, pumpVars, stopVars, noticeVars, cmdVars, netVars>>

Plain   == {"urgent1", "pump1", "wifi", "ota", "otaTransfer", "mqtt", "session",
            "urgent2", "pump2", "cmd", "starting", "started", "sense", "urgentS",
            "pumpS", "pump3", "notify", "telegram", "moisture", "urgentM",
            "pumpM", "moPublish", "pumpE", "stopping", "stopped"}
Windows == {"mqttLoop", "sessionPub", "startNotice", "startStatus", "staleLog",
            "senseLoop", "tgPump", "moLoop", "moPub", "stopLog", "stopStatus",
            "urgentStatus"}

Entries == [cmd : Inbound, stopEpoch : 0 .. MaxEpoch]
Packets == {"ON", "OFF", "app", "ack"}

TypeOK ==
  /\ pc \in Plain \cup Windows
  /\ ret \in Plain
  /\ relay \in {"ON", "OFF"}
  /\ pumpRunning \in BOOLEAN /\ rtcPumpWasRunning \in BOOLEAN
  /\ urgentPumpStopPending \in BOOLEAN
  /\ notifyPumpDone \in BOOLEAN /\ pumpWasRunningAtBoot \in BOOLEAN
  /\ pumpStopEpoch \in 0 .. MaxEpoch
  /\ commandQueue \in Seq(Entries) /\ Len(commandQueue) <= COMMAND_QUEUE_SIZE
  /\ item \in {<<>>} \cup {<<entry>> : entry \in Entries}
  /\ conn \in {"disconnected", "transitioning", "connected", "halfOpen"}
  /\ session \in {"idle", "subscribing", "pumpStatus", "logging", "done"}
  /\ outbox \in Seq(Packets)
  /\ tracked \in {"empty", "staged", "inFlight"}
  /\ retained \in {"ON", "OFF"}

-------------------------------------------------------------------------------
(* include/command_safety.h                                                *)
isUrgentStop(c) ==
  ~c.padded /\ c.payload = IF c.fromHA THEN "OFF" ELSE "stop"

(* Mutant: knows laist_N, not laist.                                       *)
isLongStartCommand(c) ==
  ~c.padded /\ c.payload \in IF c.fromHA THEN {"ON"} ELSE {"laist_x"}

isPumpStartCommand(c) ==
  ~c.padded /\ c.payload \in IF c.fromHA THEN {"ON"} ELSE {"laist", "laist_x"}

(* Mutant: forgets that Home Assistant's ON is a start, too.               *)
suppressTextOnly(entry) ==
  entry.stopEpoch # pumpStopEpoch /\ isPumpStartCommand(entry.cmd)
    /\ ~entry.cmd.fromHA

shouldSuppressQueuedPumpStart(entry) ==
  entry.stopEpoch # pumpStopEpoch /\ isPumpStartCommand(entry.cmd)

(* What processHACommand() and processCommand() make of the trimmed text.  *)
asksForPump(c) == c.payload = IF c.fromHA THEN "ON" ELSE "laist"
asksForStop(c) == c.payload = IF c.fromHA THEN "OFF" ELSE "stop"
asksForReport(c) == c.payload = "report" /\ ~c.fromHA

-------------------------------------------------------------------------------
(* The MQTT client as the firmware sees it.                                *)
isConnected == conn \in {"connected", "halfOpen"}
mqttSessionReady == session = "done"

queueSize == Len(outbox) + IF tracked = "inFlight" THEN 1 ELSE 0
canQueueBestEffort == queueSize < MaxBestEffortPackets
trackedPublishBusy == tracked # "empty"

(* Mutant: does not look at the outbox.                                    *)
deferWithoutLinkOnly(entry) ==
  /\ ~pumpRunning
  /\ ~(mqttSessionReady /\ isConnected) \/ trackedPublishBusy
  /\ isPumpStartCommand(entry.cmd)

shouldDeferQueuedPumpStartForNetwork(entry) ==
  /\ ~pumpRunning
  /\ ~(mqttSessionReady /\ isConnected) \/ queueSize > 0 \/ trackedPublishBusy
  /\ isPumpStartCommand(entry.cmd)

(* publishBestEffort(): queued and one pass of the client, or dropped.     *)
PublishBestEffort(allowed, packet, window, otherwise) ==
  \/ /\ allowed /\ isConnected /\ canQueueBestEffort
     /\ pc' = window
     /\ outbox' = Append(outbox, packet)
  \/ /\ ~(allowed /\ isConnected /\ canQueueBestEffort) \/ LibraryRefuses
     /\ pc' = otherwise
     /\ UNCHANGED outbox

mqttDiagnosticPublishAllowed(running) ==
  ~running /\ isConnected /\ session \in {"done", "logging"}
pumpStatusAllowed == session \in {"done", "pumpStatus"}

(* Mutant: leaves the session as it is.                                    *)
DisconnectedInSession ==
  conn' = "disconnected" /\ outbox' = <<>> /\ UNCHANGED session

(* The disconnect callback, with the library's cleanup of its outbox: only *)
(* an unacknowledged QoS 1 publish stays.                                  *)
Disconnected ==
  conn' = "disconnected" /\ session' = "idle" /\ outbox' = <<>>

(* forceDisconnect(), abortTransition() and a service() of a closing       *)
(* connection: the cleanup ends within the budget or goes on.              *)
ForceDisconnect ==
  \/ Disconnected
  \/ /\ conn # "disconnected"
     /\ conn' = "transitioning"
     /\ UNCHANGED <<session, outbox>>

(* tgSend(): stage the message, or add it to the backlog left open here.   *)
TgSend == tracked' = IF tracked = "empty" THEN "staged" ELSE tracked

-------------------------------------------------------------------------------
(* What can happen inside a call to the client.                            *)

(* mqttMessageHandler(): STOP/OFF acts at once, anything else is queued;   *)
(* when the queue is full the oldest command goes.                         *)
requestUrgentPumpStop ==
  /\ pumpStopEpoch < MaxEpoch
  /\ relay' = "OFF"
  /\ pumpStopEpoch' = pumpStopEpoch + 1
  /\ urgentPumpStopPending' = TRUE
  /\ UNCHANGED commandQueue

(* Mutant: appends without making room.                                    *)
enqueueUnbounded(c) ==
  /\ commandQueue' =
       Append(commandQueue, [cmd |-> c, stopEpoch |-> pumpStopEpoch])
  /\ Len(commandQueue) <= COMMAND_QUEUE_SIZE
  /\ UNCHANGED <<relay, stopVars>>

enqueueCommand(c) ==
  /\ commandQueue' =
       Append(IF Len(commandQueue) >= COMMAND_QUEUE_SIZE THEN Tail(commandQueue)
                                                         ELSE commandQueue,
              [cmd |-> c, stopEpoch |-> pumpStopEpoch])
  /\ UNCHANGED <<relay, stopVars>>

(* A QoS 1 message leaves its PUBACK in the outbox.                        *)
Deliver(c, qos) ==
  /\ pc \in Windows
  /\ conn = "connected"
  /\ IF isUrgentStop(c) THEN requestUrgentPumpStop ELSE enqueueCommand(c)
  /\ qos = 1 => Len(outbox) < MaxOutbox
  /\ outbox' = IF qos = 1 THEN Append(outbox, "ack") ELSE outbox
  /\ UNCHANGED <<pc, ret, pumpRunning, rtcPumpWasRunning, noticeVars, item,
                 linkVars, tracked, retained>>

(* The socket takes the oldest packet; a half-open connection loses it.    *)
Send ==
  /\ pc \in Windows
  /\ isConnected
  /\ outbox # <<>>
  /\ outbox' = Tail(outbox)
  /\ retained' = IF conn = "connected" /\ Head(outbox) \in {"ON", "OFF"}
                 THEN Head(outbox) ELSE retained
  /\ UNCHANGED <<pc, ret, pumpVars, stopVars, noticeVars, cmdVars, linkVars,
                 tracked>>

(* handlePublishAck()                                                      *)
PubAck ==
  /\ pc \in Windows
  /\ conn = "connected"
  /\ tracked = "inFlight"
  /\ tracked' = "empty"
  /\ UNCHANGED <<pc, ret, pumpVars, stopVars, noticeVars, cmdVars, linkVars,
                 outbox, retained>>

(* The network path breaks (any time); the client notices (in a call) and  *)
(* starts to close.                                                        *)
LinkBreaks ==
  /\ conn = "connected"
  /\ conn' = "halfOpen"
  /\ UNCHANGED <<pc, ret, pumpVars, stopVars, noticeVars, cmdVars, session,
                 outbox, tracked, retained>>

ConnectionLost ==
  /\ pc \in Windows
  /\ isConnected
  /\ conn' = "transitioning"
  /\ UNCHANGED <<pc, ret, pumpVars, stopVars, noticeVars, cmdVars, session,
                 outbox, tracked, retained>>

-------------------------------------------------------------------------------
(* Mutant: switches the relay, leaves the session running.                 *)
StopRelayOnly(returnTo) ==
  /\ relay' = "OFF"
  /\ ret' = returnTo
  /\ pc' = "stopping"
  /\ UNCHANGED <<pumpRunning, rtcPumpWasRunning, pumpStopEpoch, noticeVars, netVars>>

(* stopPump() up to the RTC flag.                                          *)
StopPump(returnTo) ==
  /\ relay' = "OFF"
  /\ pumpRunning' = FALSE
  /\ notifyPumpDone' = (notifyPumpDone \/ pumpRunning)
  /\ ret' = returnTo
  /\ pc' = "stopping"
  /\ UNCHANGED <<rtcPumpWasRunning, pumpStopEpoch, pumpWasRunningAtBoot, netVars>>

(* Mutant: leaves the flag to the next start.                              *)
LogStop ==
  /\ pc = "stopping"
  /\ PublishBestEffort(mqttDiagnosticPublishAllowed(FALSE), "app", "stopLog", "stopped")
  /\ UNCHANGED <<ret, pumpVars, stopVars, noticeVars, cmdVars, linkVars, tracked,
                 retained>>

(* A reset may come before the RTC flag is cleared.  The event log that    *)
(* follows goes out over MQTT when it may.                                 *)
ForgetRun ==
  /\ pc = "stopping"
  /\ rtcPumpWasRunning' = FALSE
  /\ PublishBestEffort(mqttDiagnosticPublishAllowed(FALSE), "app", "stopLog", "stopped")
  /\ UNCHANGED <<ret, relay, pumpRunning, stopVars, noticeVars, cmdVars, linkVars,
                 tracked, retained>>

(* Mutant: does not report the stop.                                       *)
FinishStopSilently ==
  /\ pc \in {"stopLog", "stopped"}
  /\ pc' = ret
  /\ UNCHANGED <<ret, pumpVars, stopVars, noticeVars, cmdVars, netVars>>

(* Mutant: waits for the connection to report the stop.                    *)
FinishStopWhenConnected ==
  /\ pc \in {"stopLog", "stopped"}
  /\ isConnected
  /\ PublishBestEffort(pumpStatusAllowed, "OFF", "stopStatus", ret)
  /\ UNCHANGED <<ret, pumpVars, stopVars, noticeVars, cmdVars, linkVars, tracked,
                 retained>>

(* ... and its publishPumpStatus().                                        *)
FinishStop ==
  /\ pc \in {"stopLog", "stopped"}
  /\ PublishBestEffort(pumpStatusAllowed, "OFF", "stopStatus", ret)
  /\ UNCHANGED <<ret, pumpVars, stopVars, noticeVars, cmdVars, linkVars, tracked,
                 retained>>

(* Where each service function of the pump continues.                      *)
AfterUrgent == [urgent1 |-> "pump1", urgent2 |-> "pump2",
                urgentS |-> "pumpS", urgentM |-> "pumpM"]
AfterPump   == [pump1 |-> "wifi", pump2 |-> "cmd", pump3 |-> "notify",
                pumpS |-> "sense", pumpM |-> "moPublish", pumpE |-> "urgent1"]

ServiceUrgentPumpStop ==
  /\ pc \in DOMAIN AfterUrgent
  /\ urgentPumpStopPending' = FALSE
  /\ IF urgentPumpStopPending /\ pumpRunning
     THEN StopPump(AfterUrgent[pc])
     ELSE /\ IF urgentPumpStopPending
             THEN /\ relay' = "OFF"
                  /\ PublishBestEffort(pumpStatusAllowed, "OFF", "urgentStatus",
                                       AfterUrgent[pc])
             ELSE pc' = AfterUrgent[pc] /\ UNCHANGED <<relay, outbox>>
          /\ ret' = IF pc' = "urgentStatus" THEN AfterUrgent[pc] ELSE ret
          /\ \/ UNCHANGED tracked
             \/ urgentPumpStopPending /\ pc' # "urgentStatus" /\ TgSend
          /\ UNCHANGED <<pumpRunning, rtcPumpWasRunning, pumpStopEpoch,
                         noticeVars, linkVars, retained>>
  /\ UNCHANGED cmdVars

(* The answer to a text STOP that found the pump off.                      *)
FinishUrgent ==
  /\ pc = "urgentStatus"
  /\ pc' = ret
  /\ TgSend \/ UNCHANGED tracked
  /\ UNCHANGED <<ret, pumpVars, stopVars, noticeVars, cmdVars, linkVars, outbox,
                 retained>>

ServicePump ==
  /\ pc \in DOMAIN AfterPump
  /\ \/ pumpRunning /\ StopPump(AfterPump[pc])
     \/ pc' = AfterPump[pc]
        /\ UNCHANGED <<ret, pumpVars, pumpStopEpoch, noticeVars, netVars>>
  /\ UNCHANGED <<urgentPumpStopPending, cmdVars>>

-------------------------------------------------------------------------------
(* A reset: panic, brownout, ESP.restart().  setup() takes the RTC flag,   *)
(* which power loss clears, and everything else starts afresh.             *)
Restart ==
  /\ pc' = "urgent1" /\ ret' = "pump1"
  /\ relay' = "OFF" /\ pumpRunning' = FALSE
  /\ pumpWasRunningAtBoot' \in {FALSE, rtcPumpWasRunning}
  /\ rtcPumpWasRunning' = FALSE
  /\ urgentPumpStopPending' = FALSE /\ pumpStopEpoch' = 0
  /\ notifyPumpDone' = FALSE
  /\ commandQueue' = <<>> /\ item' = <<>>
  /\ Disconnected
  /\ tracked' = "empty"
  /\ UNCHANGED retained

(* serviceWiFi(): a lost Wi-Fi link closes the MQTT connection.            *)
ServiceWiFi ==
  /\ pc = "wifi"
  /\ pc' = "ota"
  /\ ForceDisconnect \/ UNCHANGED <<linkVars, outbox>>
  /\ UNCHANGED <<ret, pumpVars, stopVars, noticeVars, cmdVars, tracked, retained>>

(* ArduinoOTA.handle().  A transfer blocks until it ends in a restart.  One*)
(* action: nothing looks at the RTC flag in the middle of it but a reset,  *)
(* to which it is the same as one just before.                             *)
(* Mutant: leaves the RTC flag set.                                        *)
forcePumpOffKeepingFlag ==
  /\ pumpStopEpoch < MaxEpoch
  /\ relay' = "OFF"
  /\ pumpStopEpoch' = pumpStopEpoch + 1
  /\ pumpRunning' = FALSE
  /\ UNCHANGED rtcPumpWasRunning

forcePumpOffForOtaSafety ==
  /\ pumpStopEpoch < MaxEpoch
  /\ relay' = "OFF"
  /\ pumpStopEpoch' = pumpStopEpoch + 1
  /\ pumpRunning' = FALSE
  /\ rtcPumpWasRunning' = FALSE

OtaHandle ==
  /\ pc = "ota"
  /\ \/ pc' = "mqtt" /\ UNCHANGED <<pumpVars, pumpStopEpoch>>
     \/ /\ "errorBeforeStart" \in OtaEvents
        /\ forcePumpOffForOtaSafety
        /\ pc' = "mqtt"
     \/ /\ "transfer" \in OtaEvents
        /\ forcePumpOffForOtaSafety
        /\ pc' = "otaTransfer"
  /\ UNCHANGED <<ret, urgentPumpStopPending, noticeVars, cmdVars, netVars>>

OtaEnd == pc = "otaTransfer" /\ Restart

-------------------------------------------------------------------------------
(* network_reconnect_policy.h, the interval left open: never while the pump*)
(* runs.                                                                   *)
(* Mutant: reconnects at any time.                                         *)
reconnectAnyTime == TRUE

shouldAttemptMqttReconnect == ~pumpRunning

(* serviceMQTT() when connected; when closing, with abortTransition(); when*)
(* disconnected, with connectMQTT() succeeding, failing and still closing, *)
(* or failing and disconnected, which is as if nothing had been tried.     *)
ServiceMQTT ==
  /\ pc = "mqtt"
  /\ \/ isConnected /\ pc' = "mqttLoop" /\ UNCHANGED <<linkVars, outbox>>
     \/ conn = "transitioning" /\ ForceDisconnect /\ pc' = "urgent2"
     \/ /\ conn = "disconnected" /\ shouldAttemptMqttReconnect
        /\ conn' = "connected" /\ session' = "subscribing"
        /\ pc' = "urgent2" /\ UNCHANGED outbox
     \/ /\ conn = "disconnected" /\ shouldAttemptMqttReconnect
        /\ conn' = "transitioning" /\ UNCHANGED <<session, outbox>>
        /\ pc' = "urgent2"
     \/ ~isConnected /\ pc' = "urgent2" /\ UNCHANGED <<linkVars, outbox>>
  /\ UNCHANGED <<ret, pumpVars, stopVars, noticeVars, cmdVars, tracked, retained>>

(* Without Wi-Fi the session makes no step.                                *)
FinishMqttLoop ==
  /\ pc = "mqttLoop"
  /\ pc' \in {"session", "urgent2"}
  /\ UNCHANGED <<ret, pumpVars, stopVars, noticeVars, cmdVars, netVars>>

(* serviceMqttSessionInit().  Subscriptions, "online" and discovery are    *)
(* one state here: publish, go on, or give up.                             *)
ServiceMqttSessionInit ==
  /\ pc = "session"
  /\ \/ /\ pc' = "urgent2"                          \* done, waiting, refused
        /\ UNCHANGED <<linkVars, outbox, tracked, pumpWasRunningAtBoot>>
     \/ /\ isConnected
        /\ \/ /\ session \in {"subscribing", "logging"}
              /\ PublishBestEffort(TRUE, "app", "sessionPub", "urgent2")
              /\ UNCHANGED <<linkVars, tracked, pumpWasRunningAtBoot>>
           \/ /\ session = "subscribing"
              /\ session' = "pumpStatus" /\ pc' = "urgent2"
              /\ UNCHANGED <<conn, outbox, tracked, pumpWasRunningAtBoot>>
           \/ /\ session = "pumpStatus"
              /\ PublishBestEffort(TRUE, IF pumpRunning THEN "ON" ELSE "OFF",
                                   "sessionPub", "urgent2")
              /\ UNCHANGED <<linkVars, tracked, pumpWasRunningAtBoot>>
           \/ /\ session \in {"subscribing", "pumpStatus"} /\ ~pumpRunning
              /\ ForceDisconnect /\ pc' = "urgent2"
              /\ UNCHANGED <<tracked, pumpWasRunningAtBoot>>
           \/ /\ session = "logging" /\ pumpWasRunningAtBoot
              /\ TgSend /\ pumpWasRunningAtBoot' = FALSE
              /\ pc' = "urgent2" /\ UNCHANGED <<linkVars, outbox>>
           \/ /\ session = "logging" /\ ~pumpWasRunningAtBoot
              /\ session' = "done" /\ pc' = "urgent2"
              /\ UNCHANGED <<conn, outbox, tracked, pumpWasRunningAtBoot>>
  /\ UNCHANGED <<ret, pumpVars, stopVars, notifyPumpDone, cmdVars, retained>>

FinishSessionPub ==
  /\ pc = "sessionPub"
  /\ pc' = "urgent2"
  /\ session' = IF session = "pumpStatus" THEN "logging" ELSE session
  /\ UNCHANGED <<ret, pumpVars, stopVars, noticeVars, cmdVars, conn, outbox,
                 tracked, retained>>

-------------------------------------------------------------------------------
(* startPump() until its start notice.  Without the notice (Telegram text  *)
(* too long, or refused) it goes straight on.                              *)
StartPumpRefused ==
  \/ urgentPumpStopPending
  \/ ~(mqttSessionReady /\ isConnected)
  \/ queueSize # 0
  \/ trackedPublishBusy

StartPump(entry) ==
  IF StartPumpRefused
  THEN pc' = "pump3" /\ item' = <<>> /\ UNCHANGED outbox
  ELSE item' = <<entry>> /\ PublishBestEffort(TRUE, "app", "startNotice", "starting")

(* processHACommand(), processCommand(): what each command does to the     *)
(* pump.  OFF and stop get here only padded.                               *)
ProcessCommand(entry) ==
  \/ /\ asksForPump(entry.cmd) /\ ~pumpRunning
     /\ StartPump(entry)
     /\ UNCHANGED <<pumpVars, ret, notifyPumpDone, tracked>>
  \/ /\ asksForStop(entry.cmd) /\ pumpRunning
     /\ StopPump("pump3")
     /\ item' = <<>>
  \/ /\ asksForReport(entry.cmd)
     /\ pc' = "sense" /\ item' = <<>>
     /\ UNCHANGED <<pumpVars, ret, notifyPumpDone, tracked, outbox>>
  \/ /\ asksForPump(entry.cmd) => pumpRunning          \* extend, or an answer
     /\ ~(asksForStop(entry.cmd) /\ pumpRunning)
     /\ ~asksForReport(entry.cmd)
     /\ IF entry.cmd.fromHA THEN UNCHANGED tracked ELSE TgSend
     /\ pc' = "pump3" /\ item' = <<>>
     /\ UNCHANGED <<pumpVars, ret, notifyPumpDone, outbox>>

(* processCommandQueue(): defer, or take one command and drop it as stale  *)
(* or process it.                                                          *)
ProcessCommandQueue ==
  /\ pc = "cmd"
  /\ IF commandQueue = <<>> \/ shouldDeferQueuedPumpStartForNetwork(Head(commandQueue))
     THEN /\ pc' = "pump3"
          /\ UNCHANGED <<pumpVars, ret, notifyPumpDone, cmdVars, tracked, outbox>>
     ELSE /\ commandQueue' = Tail(commandQueue)
          /\ IF shouldSuppressQueuedPumpStart(Head(commandQueue))
             THEN /\ PublishBestEffort(mqttDiagnosticPublishAllowed(pumpRunning),
                                       "app", "staleLog", "pump3")
                  /\ UNCHANGED <<pumpVars, ret, notifyPumpDone, item, tracked>>
             ELSE ProcessCommand(Head(commandQueue))
  /\ UNCHANGED <<stopVars, pumpWasRunningAtBoot, linkVars, retained>>

FinishStaleLog ==
  /\ pc = "staleLog"
  /\ pc' = "pump3"
  /\ UNCHANGED <<ret, pumpVars, stopVars, noticeVars, cmdVars, netVars>>

(* After the start notice: the retained ON, while the relay is still off.  *)
PublishOn ==
  /\ pc \in {"startNotice", "starting"}
  /\ IF pc = "startNotice" /\ queueSize # 0
     THEN ForceDisconnect /\ pc' = "pump3"
     ELSE /\ UNCHANGED linkVars
          /\ PublishBestEffort(~urgentPumpStopPending /\ pumpStatusAllowed,
                               "ON", "startStatus", "pump3")
  /\ item' = IF pc' = "startStatus" THEN item ELSE <<>>
  /\ UNCHANGED <<ret, pumpVars, stopVars, noticeVars, commandQueue, tracked,
                 retained>>

(* After the ON is on its way: a STOP in that call, or anything left in    *)
(* the outbox, cancels the start.                                          *)
(* Mutant: cancels without closing the connection.                         *)
CancelStartOnly ==
  /\ pc = "startStatus"
  /\ urgentPumpStopPending \/ queueSize # 0
  /\ pc' = "pump3"
  /\ item' = <<>>
  /\ UNCHANGED <<ret, pumpVars, stopVars, noticeVars, commandQueue, netVars>>

CancelStart ==
  /\ pc = "startStatus"
  /\ urgentPumpStopPending \/ queueSize # 0
  /\ pc' = "pump3"
  /\ item' = <<>>
  /\ IF queueSize # 0 THEN ForceDisconnect ELSE UNCHANGED <<linkVars, outbox>>
  /\ UNCHANGED <<ret, pumpVars, stopVars, noticeVars, commandQueue, tracked,
                 retained>>

(* Mutant: does not look for a STOP that came with the status call.        *)
EnergiseRelayAnyway ==
  /\ pc = "startStatus"
  /\ queueSize = 0
  /\ relay' = "ON"
  /\ pumpRunning' = TRUE
  /\ pc' = "started"
  /\ UNCHANGED <<ret, rtcPumpWasRunning, stopVars, noticeVars, cmdVars, netVars>>

EnergiseRelay ==
  /\ pc = "startStatus"
  /\ ~urgentPumpStopPending /\ queueSize = 0
  /\ relay' = "ON"
  /\ pumpRunning' = TRUE
  /\ pc' = "started"
  /\ UNCHANGED <<ret, rtcPumpWasRunning, stopVars, noticeVars, cmdVars, netVars>>

(* A reset may come before the RTC flag is set.                            *)
RememberRun ==
  /\ pc = "started"
  /\ rtcPumpWasRunning' = TRUE
  /\ pc' = "pump3"
  /\ item' = <<>>
  /\ UNCHANGED <<ret, relay, pumpRunning, stopVars, noticeVars, commandQueue,
                 netVars>>

-------------------------------------------------------------------------------
(* A sensor report: after each sensor servicePumpCriticalNetworkInput(),   *)
(* at the end its answer.                                                  *)
SenseForReport ==
  /\ pc = "sense"
  /\ \/ isConnected /\ pc' = "senseLoop" /\ UNCHANGED <<linkVars, outbox, tracked>>
     \/ conn = "transitioning" /\ ForceDisconnect /\ pc' = "urgentS" /\ UNCHANGED tracked
     \/ conn = "disconnected" /\ pc' = "urgentS" /\ UNCHANGED <<linkVars, outbox, tracked>>
     \/ TgSend /\ pc' = "pump3" /\ UNCHANGED <<linkVars, outbox>>
  /\ UNCHANGED <<ret, pumpVars, stopVars, noticeVars, cmdVars, retained>>

(* The announcement of a finished run.                                     *)
NotifyDone ==
  /\ pc = "notify"
  /\ pc' = "telegram"
  /\ notifyPumpDone' = FALSE
  /\ IF notifyPumpDone THEN TgSend ELSE UNCHANGED tracked
  /\ UNCHANGED <<ret, pumpVars, stopVars, pumpWasRunningAtBoot, cmdVars, linkVars,
                 outbox, retained>>

(* Mutant: also while the pump runs.                                       *)
telegramMayAlwaysGo == mqttSessionReady

telegramMayGo == ~pumpRunning /\ mqttSessionReady

(* serviceTelegramDelivery(), the backlog left open.                       *)
ServiceTelegramDelivery ==
  /\ pc = "telegram"
  /\ \/ pc' = "moisture" /\ tracked' = tracked
     \/ /\ telegramMayGo
        /\ isConnected /\ canQueueBestEffort
        /\ tracked # "inFlight"
        /\ tracked' = "inFlight"
        /\ pc' = "tgPump"
     \/ /\ telegramMayGo
        /\ ~(isConnected /\ canQueueBestEffort) \/ LibraryRefuses
        /\ tracked = "empty"
        /\ tracked' = "staged"
        /\ pc' = "moisture"
  /\ UNCHANGED <<ret, pumpVars, stopVars, noticeVars, cmdVars, linkVars, outbox,
                 retained>>

(* Periodic telemetry: a sensor, the critical input, then its value.       *)
ServiceMoisturePublish ==
  /\ pc = "moisture"
  /\ \/ pc' = "urgent1"
     \/ /\ commandQueue = <<>> /\ ~trackedPublishBusy
        /\ ~pumpRunning /\ mqttSessionReady /\ isConnected
        /\ pc' = "moLoop"
  /\ UNCHANGED <<ret, pumpVars, stopVars, noticeVars, cmdVars, netVars>>

PublishMoisture ==
  /\ pc = "moPublish"
  /\ \/ /\ pc' = "urgent1" /\ UNCHANGED outbox
     \/ /\ commandQueue = <<>> /\ ~trackedPublishBusy
        /\ ~pumpRunning /\ mqttSessionReady
        /\ PublishBestEffort(TRUE, "app", "moPub", "pumpE")
  /\ UNCHANGED <<ret, pumpVars, stopVars, noticeVars, cmdVars, linkVars, tracked,
                 retained>>

(* The other calls of the client, once they return.                        *)
AfterCall == [stopStatus |-> ret, senseLoop |-> "urgentS", tgPump |-> "moisture",
              moLoop |-> "urgentM", moPub |-> "pumpE"]

ReturnFromCall ==
  /\ pc \in DOMAIN AfterCall
  /\ pc' = AfterCall[pc]
  /\ UNCHANGED <<ret, pumpVars, stopVars, noticeVars, cmdVars, netVars>>

-------------------------------------------------------------------------------
Init ==
  /\ pc = "urgent1" /\ ret = "pump1"
  /\ relay = "OFF" /\ pumpRunning = FALSE /\ rtcPumpWasRunning = FALSE
  /\ urgentPumpStopPending = FALSE /\ pumpStopEpoch = 0
  /\ notifyPumpDone = FALSE /\ pumpWasRunningAtBoot = FALSE
  /\ commandQueue = <<>> /\ item = <<>>
  /\ conn = "disconnected" /\ session = "idle"
  /\ outbox = <<>> /\ tracked = "empty"
  /\ retained \in {"ON", "OFF"}        \* whatever the broker kept

LoopStep ==
  \/ ServiceUrgentPumpStop \/ ServicePump \/ ServiceWiFi \/ OtaHandle \/ OtaEnd
  \/ ServiceMQTT \/ FinishMqttLoop \/ ServiceMqttSessionInit \/ FinishSessionPub
  \/ ProcessCommandQueue \/ FinishStaleLog
  \/ PublishOn \/ CancelStart \/ EnergiseRelay \/ RememberRun
  \/ SenseForReport \/ NotifyDone \/ ServiceTelegramDelivery
  \/ ServiceMoisturePublish \/ PublishMoisture
  \/ ForgetRun \/ FinishStop \/ FinishUrgent \/ ReturnFromCall

Environment ==
  \/ \E c \in Inbound, qos \in Qos : Deliver(c, qos)
  \/ Send \/ PubAck \/ LinkBreaks \/ ConnectionLost \/ Restart

Next == LoopStep \/ Environment

Spec == Init /\ [][Next]_vars

(* The task keeps running and every call into the client returns (bounded  *)
(* by its timeouts, or the watchdog).                                      *)
FairSpec == Spec /\ WF_vars(LoopStep)

-------------------------------------------------------------------------------
(* A powered relay belongs to a running session with no stop outstanding,  *)
(* in whichever call the stop arrived.                                     *)
RelayFollowsIntent ==
  relay = "ON" => pumpRunning /\ ~urgentPumpStopPending

(* main.cpp:224-227: no start that was queued before a STOP/OFF powers the *)
(* relay after it.                                                         *)
NoStaleStart ==
  [][relay = "OFF" /\ relay' = "ON" =>
       item # <<>> /\ Head(item).stopEpoch = pumpStopEpoch]_vars

(* main.cpp:2778-2781: a start waits in the FIFO for the network, also for *)
(* its own PUBACK to leave the outbox.  When it is taken from there with   *)
(* the pump off, and no STOP has come after it or is still outstanding,    *)
(* startPump() does not refuse it.                                         *)
StartsWait ==
  [][/\ ~Restart
     /\ commandQueue # <<>> /\ commandQueue' = Tail(commandQueue)
     /\ LET entry == Head(commandQueue)
        IN  /\ asksForPump(entry.cmd) /\ ~entry.cmd.padded
            /\ entry.stopEpoch = pumpStopEpoch
     /\ ~pumpRunning /\ ~urgentPumpStopPending
     => item' = <<Head(commandQueue)>>]_vars

(* main.cpp:742-744: a refused start leaves no ON behind that could still  *)
(* be sent.                                                                *)
NoStaleOn ==
  isConnected /\ pc # "startStatus" => \A i \in DOMAIN outbox : outbox[i] # "ON"

(* While the pump runs and the link is up, the command path works: no      *)
(* session initialisation is in progress.                                  *)
PumpHasSession == pumpRunning /\ isConnected => mqttSessionReady

(* While the pump runs the firmware has nothing of its own to write: only  *)
(* acknowledgements of commands received meanwhile.                        *)
PumpRunsQuiet ==
  pumpRunning =>
    /\ \A i \in DOMAIN outbox : outbox[i] = "ack"
    /\ tracked # "inFlight"

(* The RTC flag tells a reset during watering from any other, whatever came*)
(* before.  Two gaps are the code's own, and what each does is fixed: a    *)
(* reset in the one between relay and flag of a start can only miss the    *)
(* run, one in that of a stop can only report a run that had ended.        *)
CrashRemembered ==
  /\ pumpRunning /\ ~rtcPumpWasRunning => pc = "started"
  /\ rtcPumpWasRunning /\ ~pumpRunning => pc = "stopping"

(* At the end of a pass with a live, initialised session and no status on  *)
(* its way, Home Assistant sees the pump as it is.                         *)
StatusSettled ==
  /\ pc = "telegram"
  /\ conn = "connected" /\ mqttSessionReady
  /\ ~urgentPumpStopPending
  /\ \A i \in DOMAIN outbox : outbox[i] \notin {"ON", "OFF"}
  => retained = IF pumpRunning THEN "ON" ELSE "OFF"

(* The loop task never waits for anyone: from every state it can go on, so *)
(* a fair scheduler takes it round and round (weak fairness amounts to it). *)
LoopGoesOn == []<><<LoopStep>>_vars

(* An accepted STOP is reconciled: the session is closed, not only the     *)
(* relay.                                                                  *)
StopReconciled ==
  urgentPumpStopPending ~> ~urgentPumpStopPending /\ ~pumpRunning
===============================================================================
