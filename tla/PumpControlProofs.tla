-------------------------- MODULE PumpControlProofs ---------------------------
(***************************************************************************)
(* The safety of PumpControl, and of the status in PumpStatus, for every   *)
(* value of the constants: any queue sizes, any set of inbound commands,   *)
(* any OTA events.                                                         *)
(***************************************************************************)
EXTENDS PumpControl, PumpStatus, PumpControlRefinement, FiniteSetTheorems, TLAPS

(* The text of a command is what trimCommandBuffer() left of it.           *)
NoPadding == \A c \in Inbound : ~c.padded

-------------------------------------------------------------------------------
(* The inductive invariant.                                                *)

Starting == {"startNotice", "starting", "startStatus"}
Returns  == {"pump1", "pump2", "pumpS", "pumpM", "wifi", "cmd", "notify",
             "sense", "moPublish", "urgent1", "pump3"}

(* What is known where: stopPump() returns to a service point of the loop; *)
(* a start is in hand exactly inside startPump(), with the pump off and,   *)
(* unless the link was just lost, with a session; the stop is half done    *)
(* only with the pump off.                                                 *)
PlaceInv ==
  /\ ret \in Returns
  /\ pc \in Starting => ~pumpRunning /\ item # <<>>
                        /\ (isConnected => mqttSessionReady)
  /\ pc = "started" => pumpRunning
  /\ pc \in {"stopping", "stopLog", "stopped"} => ~pumpRunning

(* The start in hand is fresh, or a stop is waiting that will cancel it.   *)
FreshItem ==
  item # <<>> =>
    /\ pc \in Starting \cup {"started"}
    /\ Head(item).stopEpoch = pumpStopEpoch \/ urgentPumpStopPending

LinkInv == conn = "disconnected" => outbox = <<>>

Core ==
  /\ RelayFollowsIntent
  /\ CrashRemembered
  /\ PlaceInv
  /\ LinkInv
  /\ PumpHasSession
  /\ PumpRunsQuiet
  /\ NoStaleOn

IInv == TypeOK /\ Core

(* No ON waits in the outbox.                                              *)
NoOnQueued == \A i \in DOMAIN outbox : outbox[i] # "ON"

-------------------------------------------------------------------------------
(* Queues.                                                                 *)

(* A packet more.                                                          *)
LEMMA Appended ==
  ASSUME NEW q \in Seq(Packets), NEW p \in Packets
  PROVE  /\ Append(q, p) \in Seq(Packets)
         /\ \A i \in DOMAIN Append(q, p) :
              Append(q, p)[i] = p \/ (i \in DOMAIN q /\ Append(q, p)[i] = q[i])
  OBVIOUS

(* A packet less.                                                          *)
LEMMA Shortened ==
  ASSUME NEW q \in Seq(Packets), q # <<>>
  PROVE  /\ Tail(q) \in Seq(Packets)
         /\ \A i \in DOMAIN Tail(q) : i + 1 \in DOMAIN q /\ Tail(q)[i] = q[i + 1]
  OBVIOUS

(* enqueueCommand() keeps the FIFO well formed and within its size.        *)
LEMMA Enqueued ==
  ASSUME NEW q \in Seq(Entries), Len(q) <= COMMAND_QUEUE_SIZE, NEW e \in Entries
  PROVE  LET kept == IF Len(q) >= COMMAND_QUEUE_SIZE THEN Tail(q) ELSE q
         IN  /\ Append(kept, e) \in Seq(Entries)
             /\ Len(Append(kept, e)) <= COMMAND_QUEUE_SIZE
  <1>1. CASE Len(q) >= COMMAND_QUEUE_SIZE
    BY <1>1, QueueAssumption
  <1>2. CASE Len(q) < COMMAND_QUEUE_SIZE
    BY <1>2, QueueAssumption
  <1> QED BY <1>1, <1>2, QueueAssumption

(* The head of the FIFO is an entry, the rest is a shorter FIFO.           *)
LEMMA Dequeued ==
  ASSUME NEW q \in Seq(Entries), Len(q) <= COMMAND_QUEUE_SIZE, q # <<>>
  PROVE  /\ Tail(q) \in Seq(Entries)
         /\ Len(Tail(q)) <= COMMAND_QUEUE_SIZE
         /\ Head(q) \in Entries
  BY QueueAssumption

(* The service functions of the pump are called from places of the loop    *)
(* only.                                                                   *)
LEMMA ReturnLabels ==
  /\ DOMAIN AfterUrgent = {"urgent1", "urgent2", "urgentS", "urgentM"}
  /\ DOMAIN AfterPump = {"pump1", "pump2", "pump3", "pumpS", "pumpM", "pumpE"}
  /\ \A l \in DOMAIN AfterUrgent : AfterUrgent[l] \in Returns
  /\ \A l \in DOMAIN AfterPump : AfterPump[l] \in Returns
  BY DEF AfterUrgent, AfterPump, Returns

(* Those places are no client calls and lie outside startPump() and        *)
(* stopPump().                                                             *)
LEMMA Labels ==
  /\ Returns \subseteq Plain
  /\ Returns \cap (Starting \cup {"started", "stopping", "stopLog", "stopped"}) = {}
  BY DEF Returns, Starting, Plain

-------------------------------------------------------------------------------
(* The building blocks of the actions.                                     *)

(* A closing connection keeps what is known of the link.                   *)
LEMMA Closing ==
  ASSUME TypeOK, LinkInv, ForceDisconnect
  PROVE  /\ conn' \in {"disconnected", "transitioning"}
         /\ session' \in {"idle", session}
         /\ outbox' \in {<<>>, outbox} /\ outbox' \in Seq(Packets)
         /\ LinkInv'
<1>1. outbox' \in {<<>>, outbox}
  BY DEF ForceDisconnect, Disconnected
<1>2. outbox' \in Seq(Packets)
  <2>1. <<>> \in Seq(Packets) /\ outbox \in Seq(Packets)
    BY DEF TypeOK
  <2> QED BY <1>1, <2>1
<1>3. /\ conn' \in {"disconnected", "transitioning"}
      /\ session' \in {"idle", session}
      /\ LinkInv'
  BY DEF LinkInv, ForceDisconnect, Disconnected
<1> QED BY <1>1, <1>2, <1>3

(* A best-effort publish adds at most one packet and moves the task to its *)
(* window.                                                                 *)
LEMMA Publishing ==
  ASSUME NEW STATE allowed, NEW STATE packet, packet \in Packets,
         NEW window, NEW STATE otherwise,
         TypeOK, LinkInv, conn' = conn,
         PublishBestEffort(allowed, packet, window, otherwise)
  PROVE  /\ pc' \in {window, otherwise}
         /\ outbox' \in Seq(Packets)
         /\ LinkInv'
         /\ pc' = window /\ window # otherwise => allowed /\ isConnected
         /\ packet # "ON" /\ NoOnQueued => NoOnQueued'
  <1> USE DEF PublishBestEffort
  <1>1. CASE /\ allowed /\ isConnected
             /\ pc' = window
             /\ outbox' = Append(outbox, packet)
    BY <1>1, Appended DEF TypeOK, isConnected, LinkInv, NoOnQueued
  <1>2. CASE pc' = otherwise /\ outbox' = outbox
    BY <1>2 DEF TypeOK, LinkInv, NoOnQueued
  <1> QED BY <1>1, <1>2

(* stopPump(), from wherever it is called, keeps the invariant.            *)
LEMMA StopPumpCore ==
  ASSUME NEW STATE returnTo, returnTo \in Returns,
         IInv, StopPump(returnTo), pumpRunning, pc # "startStatus",
         urgentPumpStopPending' \in BOOLEAN,
         commandQueue' \in Seq(Entries), Len(commandQueue') <= COMMAND_QUEUE_SIZE,
         item' \in {item, <<>>}
  PROVE  IInv'
<1> USE DEF IInv, Core
<1>1. /\ relay' = "OFF" /\ pumpRunning' = FALSE /\ pc' = "stopping"
      /\ ret' = returnTo /\ notifyPumpDone' = (notifyPumpDone \/ pumpRunning)
      /\ UNCHANGED <<rtcPumpWasRunning, pumpStopEpoch, pumpWasRunningAtBoot, conn,
                     session, outbox, tracked, retained>>
  BY DEF StopPump, netVars, linkVars
<1>2. outbox' \in Seq(Packets) /\ LinkInv' /\ (NoOnQueued => NoOnQueued')
  BY <1>1 DEF TypeOK, LinkInv, NoOnQueued
<1>3. notifyPumpDone' \in BOOLEAN
  BY <1>1
<1>4. TypeOK'
  <2>1. pc' \in Plain \cup Windows /\ ret' \in Plain
    BY <1>1, Labels DEF Plain
  <2>2. /\ commandQueue' \in Seq(Entries) /\ Len(commandQueue') <= COMMAND_QUEUE_SIZE
        /\ item' \in {<<>>} \cup {<<entry>> : entry \in Entries}
    BY DEF TypeOK
  <2>3. pumpStopEpoch' \in 0 .. MaxEpoch /\ rtcPumpWasRunning' \in BOOLEAN
    BY <1>1 DEF TypeOK
  <2> QED BY <1>1, <1>2, <1>3, <2>1, <2>2, <2>3 DEF TypeOK
<1>5. RelayFollowsIntent' /\ CrashRemembered' /\ PumpHasSession' /\ PumpRunsQuiet'
  BY <1>1 DEF RelayFollowsIntent, CrashRemembered, PumpHasSession, PumpRunsQuiet
<1>6. PlaceInv'
  BY <1>1 DEF PlaceInv, Starting
<1>7. NoStaleOn'
  BY <1>1, <1>2 DEF NoStaleOn, NoOnQueued, isConnected
<1> QED BY <1>2, <1>4, <1>5, <1>6, <1>7

(* A step that leaves the pump alone and is not part of a start or a stop. *)
LEMMA PumpLeftAlone ==
  ASSUME IInv, UNCHANGED <<pumpVars, urgentPumpStopPending>>,
         pc \notin {"started", "stopping"}, ret' \in Returns,
         pc' \notin Starting \cup {"started", "stopping", "stopLog", "stopped"},
         LinkInv', PumpHasSession', PumpRunsQuiet', NoStaleOn'
  PROVE  Core'
<1> USE DEF IInv, Core, pumpVars
<1>1. RelayFollowsIntent' /\ CrashRemembered'
  BY DEF RelayFollowsIntent, CrashRemembered
<1>2. PlaceInv'
  BY DEF PlaceInv, Starting
<1> QED BY <1>1, <1>2

(* ... and only closes the connection or does not touch it.                *)
LEMMA OnlyCloses ==
  ASSUME IInv, UNCHANGED <<pumpVars, urgentPumpStopPending>>,
         pc \notin {"started", "stopping"}, ret' \in Returns,
         pc' \notin Starting \cup {"started", "stopping", "stopLog", "stopped"},
         \/ ForceDisconnect
         \/ UNCHANGED <<conn, session, outbox>> /\ pc # "startStatus",
         tracked' = "inFlight" => tracked = "inFlight"
  PROVE  /\ Core'
         /\ conn' \in {"disconnected", "transitioning", "connected", "halfOpen"}
         /\ session' \in {"idle", "subscribing", "pumpStatus", "logging", "done"}
         /\ outbox' \in Seq(Packets)
<1>0. TypeOK /\ LinkInv /\ PumpHasSession /\ PumpRunsQuiet /\ NoStaleOn
  BY DEF IInv, Core
<1>1. CASE ForceDisconnect
  <2>1. /\ conn' \in {"disconnected", "transitioning"}
        /\ session' \in {"idle", session}
        /\ outbox' \in {<<>>, outbox} /\ outbox' \in Seq(Packets)
        /\ LinkInv'
    BY <1>0, <1>1, Closing
  <2>2. PumpHasSession' /\ NoStaleOn'
    BY <2>1 DEF PumpHasSession, NoStaleOn, isConnected
  <2>3. PumpRunsQuiet'
    BY <1>0, <2>1 DEF PumpRunsQuiet, pumpVars
  <2>4. Core'
    BY <2>1, <2>2, <2>3, PumpLeftAlone
  <2>5. session' \in {"idle", "subscribing", "pumpStatus", "logging", "done"}
    BY <1>0, <2>1 DEF TypeOK
  <2> QED BY <2>1, <2>4, <2>5
<1>2. CASE UNCHANGED <<conn, session, outbox>> /\ pc # "startStatus"
  <2>1. LinkInv' /\ PumpHasSession' /\ PumpRunsQuiet' /\ NoStaleOn'
    BY <1>0, <1>2 DEF LinkInv, PumpHasSession, PumpRunsQuiet, NoStaleOn, isConnected,
                      mqttSessionReady, pumpVars
  <2>2. Core'
    BY <2>1, PumpLeftAlone
  <2> QED BY <1>0, <1>2, <2>2 DEF TypeOK
<1> QED BY <1>1, <1>2

-------------------------------------------------------------------------------
(* The invariant holds initially and every action keeps it.                *)

(* setup() establishes the invariant.                                      *)
LEMMA InitInvariant == Init => IInv
<1> SUFFICES ASSUME Init PROVE IInv
  OBVIOUS
<1> USE DEF Init
<1>1. TypeOK
  <2>1. /\ commandQueue \in Seq(Entries) /\ Len(commandQueue) <= COMMAND_QUEUE_SIZE
        /\ outbox \in Seq(Packets)
    BY QueueAssumption
  <2>2. pumpStopEpoch \in 0 .. MaxEpoch
    BY QueueAssumption
  <2> QED BY <2>1, <2>2 DEF TypeOK, Plain
<1>2. Core
  BY DEF Core, RelayFollowsIntent, CrashRemembered, PlaceInv, Starting, Returns,
         LinkInv, PumpHasSession, PumpRunsQuiet, NoStaleOn, isConnected
<1> QED BY <1>1, <1>2 DEF IInv

(* One lemma for each action of LoopStep: it keeps the invariant. First the*)
(* stops.                                                                  *)
LEMMA ServiceUrgentPumpStopKeeps == ASSUME IInv, ServiceUrgentPumpStop PROVE IInv'
<1>0. TypeOK /\ Core
  BY DEF IInv
<1>1. /\ pc \in DOMAIN AfterUrgent /\ urgentPumpStopPending' = FALSE
      /\ UNCHANGED <<commandQueue, item>>
      /\ AfterUrgent[pc] \in Returns
      /\ pc \notin Starting \cup {"started", "stopping"}
  BY ReturnLabels DEF ServiceUrgentPumpStop, cmdVars, Starting
<1>2. CASE urgentPumpStopPending /\ pumpRunning
  <2>1. StopPump(AfterUrgent[pc])
    BY <1>2 DEF ServiceUrgentPumpStop
  <2>2. commandQueue' \in Seq(Entries) /\ Len(commandQueue') <= COMMAND_QUEUE_SIZE
    BY <1>0, <1>1 DEF TypeOK
  <2> QED BY <1>1, <1>2, <2>1, <2>2, StopPumpCore DEF Starting
<1>3. CASE ~(urgentPumpStopPending /\ pumpRunning)
  <2>1. /\ UNCHANGED <<pumpRunning, rtcPumpWasRunning, pumpStopEpoch, notifyPumpDone,
                       pumpWasRunningAtBoot, conn, session, retained>>
        /\ ret' \in {ret, AfterUrgent[pc]}
        /\ tracked' \in {tracked, "staged"}
    BY <1>3, <1>0 DEF ServiceUrgentPumpStop, noticeVars, linkVars, TgSend, TypeOK
  <2>2. /\ relay' = relay \/ relay' = "OFF"
        /\ pc' \in {"urgentStatus", AfterUrgent[pc]}
        /\ outbox' \in Seq(Packets)
        /\ LinkInv'
        /\ NoOnQueued => NoOnQueued'
        /\ ~urgentPumpStopPending => outbox' = outbox
    <3>1. CASE urgentPumpStopPending
      <4>1. relay' = "OFF"
            /\ PublishBestEffort(pumpStatusAllowed, "OFF", "urgentStatus", AfterUrgent[pc])
        BY <1>3, <3>1 DEF ServiceUrgentPumpStop
      <4> QED BY <1>0, <2>1, <3>1, <4>1, Publishing DEF Packets, Core
    <3>2. CASE ~urgentPumpStopPending
      BY <1>0, <1>3, <3>2, <2>1
         DEF ServiceUrgentPumpStop, TypeOK, Core, LinkInv, NoOnQueued
    <3> QED BY <3>1, <3>2
  <2>3. RelayFollowsIntent' /\ CrashRemembered' /\ PlaceInv' 
    BY <1>0, <1>1, <2>1, <2>2, Labels
       DEF Core, RelayFollowsIntent, CrashRemembered, PlaceInv, Starting, TypeOK
  <2>4. PumpHasSession' /\ NoStaleOn'
    BY <1>0, <1>1, <2>1, <2>2
       DEF Core, PumpHasSession, NoStaleOn, NoOnQueued, isConnected,
           mqttSessionReady, Starting
  <2>5. PumpRunsQuiet'
    BY <1>0, <1>3, <2>1, <2>2 DEF Core, PumpRunsQuiet
  <2>6. TypeOK'
    <3>1. pc' \in Plain \cup Windows /\ ret' \in Plain
      BY <1>0, <1>1, <2>1, <2>2, Labels DEF TypeOK, Windows
    <3>2. relay' \in {"ON", "OFF"} /\ tracked' \in {"empty", "staged", "inFlight"}
      BY <1>0, <2>1, <2>2 DEF TypeOK
    <3> QED BY <1>0, <1>1, <2>1, <2>2, <3>1, <3>2 DEF TypeOK
  <2> QED BY <2>2, <2>3, <2>4, <2>5, <2>6 DEF IInv, Core
<1> QED BY <1>2, <1>3

(* servicePump(): nothing, or stopPump().                                  *)
LEMMA ServicePumpKeeps == ASSUME IInv, ServicePump PROVE IInv'
<1>1. /\ pc \in DOMAIN AfterPump
      /\ UNCHANGED <<urgentPumpStopPending, commandQueue, item>>
      /\ AfterPump[pc] \in Returns
      /\ pc # "startStatus"
  BY ReturnLabels DEF ServicePump, cmdVars
<1>2. CASE pumpRunning /\ StopPump(AfterPump[pc])
  <2>1. /\ commandQueue' \in Seq(Entries) /\ Len(commandQueue') <= COMMAND_QUEUE_SIZE
        /\ urgentPumpStopPending' \in BOOLEAN
    BY <1>1 DEF IInv, TypeOK
  <2> QED BY <1>1, <1>2, <2>1, StopPumpCore
<1>3. CASE /\ pc' = AfterPump[pc]
           /\ UNCHANGED <<ret, pumpVars, pumpStopEpoch, noticeVars, netVars>>
  <2>1. Core'
    <3>1. /\ pc \notin {"started", "stopping"} /\ ret' \in Returns
          /\ pc' \notin Starting \cup {"started", "stopping", "stopLog", "stopped"}
      BY <1>1, <1>3, Labels, ReturnLabels DEF IInv, Core, PlaceInv
    <3> QED BY <1>1, <1>3, <3>1, OnlyCloses DEF netVars, linkVars
  <2>2. TypeOK'
    BY <1>1, <1>3, Labels
       DEF IInv, TypeOK, pumpVars, noticeVars, netVars, linkVars
  <2> QED BY <2>1, <2>2 DEF IInv
<1> QED BY <1>2, <1>3 DEF ServicePump

(* serviceWiFi(): may close the link.                                      *)
LEMMA ServiceWiFiKeeps == ASSUME IInv, ServiceWiFi PROVE IInv'
<1>1. /\ pc = "wifi" /\ pc' = "ota" /\ ret' \in Returns
      /\ UNCHANGED <<pumpVars, stopVars, noticeVars, cmdVars, ret, tracked, retained>>
  BY DEF ServiceWiFi, IInv, Core, PlaceInv
<1>2. ForceDisconnect \/ (UNCHANGED <<conn, session, outbox>> /\ pc # "startStatus")
  BY <1>1 DEF ServiceWiFi, linkVars
<1>3. /\ Core'
      /\ conn' \in {"disconnected", "transitioning", "connected", "halfOpen"}
      /\ session' \in {"idle", "subscribing", "pumpStatus", "logging", "done"}
      /\ outbox' \in Seq(Packets)
  BY <1>1, <1>2, OnlyCloses DEF stopVars, Starting
<1>4. TypeOK'
  BY <1>1, <1>3 DEF IInv, TypeOK, Plain, pumpVars, stopVars, noticeVars, cmdVars
<1> QED BY <1>3, <1>4 DEF IInv

(* An OTA event forces the pump off with its RTC flag.                     *)
LEMMA OtaHandleKeeps == ASSUME IInv, OtaHandle PROVE IInv'
<1>1. /\ pc = "ota" /\ pc' \in {"mqtt", "otaTransfer"}
      /\ UNCHANGED <<ret, urgentPumpStopPending, noticeVars, cmdVars, netVars>>
  BY DEF OtaHandle
<1>2. CASE UNCHANGED <<pumpVars, pumpStopEpoch>>
  BY <1>1, <1>2 DEF IInv, TypeOK, Core, RelayFollowsIntent, CrashRemembered, PlaceInv,
     Starting, LinkInv, PumpHasSession, PumpRunsQuiet, NoStaleOn, isConnected,
     mqttSessionReady, Plain, pumpVars, noticeVars, cmdVars, netVars, linkVars
<1>3. CASE forcePumpOffForOtaSafety
  <2>1. /\ relay' = "OFF" /\ pumpRunning' = FALSE /\ rtcPumpWasRunning' = FALSE
    BY <1>3 DEF forcePumpOffForOtaSafety
  <2>2. pumpStopEpoch' \in 0 .. MaxEpoch
    BY <1>3, QueueAssumption DEF forcePumpOffForOtaSafety, IInv, TypeOK
  <2>3. TypeOK'
    <3>1. /\ commandQueue' \in Seq(Entries) /\ Len(commandQueue') <= COMMAND_QUEUE_SIZE
          /\ item' \in {<<>>} \cup {<<entry>> : entry \in Entries}
          /\ outbox' \in Seq(Packets)
      BY <1>1 DEF IInv, TypeOK, cmdVars, netVars
    <3>2. /\ urgentPumpStopPending' \in BOOLEAN
          /\ notifyPumpDone' \in BOOLEAN /\ pumpWasRunningAtBoot' \in BOOLEAN
          /\ pumpRunning' \in BOOLEAN /\ rtcPumpWasRunning' \in BOOLEAN
      BY <1>1, <2>1 DEF IInv, TypeOK, noticeVars
    <3>3. /\ pc' \in Plain \cup Windows /\ ret' \in Plain
          /\ conn' \in {"disconnected", "transitioning", "connected", "halfOpen"}
          /\ session' \in {"idle", "subscribing", "pumpStatus", "logging", "done"}
          /\ tracked' \in {"empty", "staged", "inFlight"}
          /\ retained' \in {"ON", "OFF"}
      BY <1>1 DEF IInv, TypeOK, Plain, netVars, linkVars
    <3> QED BY <2>1, <2>2, <3>1, <3>2, <3>3 DEF TypeOK
  <2>4. Core'
    BY <1>1, <2>1 DEF IInv, Core, RelayFollowsIntent, CrashRemembered, PlaceInv,
       Starting, LinkInv, PumpHasSession, PumpRunsQuiet, NoStaleOn, isConnected,
       netVars, linkVars
  <2> QED BY <2>3, <2>4 DEF IInv
<1> QED BY <1>2, <1>3 DEF OtaHandle

(* setup() after a reset.                                                  *)
LEMMA RestartKeeps == ASSUME IInv, Restart PROVE IInv'
<1>1. TypeOK'
  <2>1. /\ commandQueue' \in Seq(Entries) /\ Len(commandQueue') <= COMMAND_QUEUE_SIZE
        /\ outbox' \in Seq(Packets) /\ pumpStopEpoch' \in 0 .. MaxEpoch
    BY QueueAssumption DEF Restart, Disconnected
  <2> QED BY <2>1 DEF IInv, TypeOK, Restart, Disconnected, Plain
<1>2. /\ relay' = "OFF" /\ pumpRunning' = FALSE /\ rtcPumpWasRunning' = FALSE
      /\ pc' = "urgent1" /\ ret' = "pump1" /\ conn' = "disconnected" /\ outbox' = <<>>
  BY DEF Restart, Disconnected
<1>3. Core'
  BY <1>2 DEF Core, RelayFollowsIntent, CrashRemembered, PlaceInv, Starting, Returns,
     LinkInv, PumpHasSession, PumpRunsQuiet, NoStaleOn, isConnected
<1> QED BY <1>1, <1>3 DEF IInv

(* A session begins only while the pump is off.                            *)
LEMMA ServiceMQTTKeeps == ASSUME IInv, ServiceMQTT PROVE IInv'
<1>0. TypeOK /\ Core
  BY DEF IInv
<1>1. /\ pc = "mqtt" /\ pc' \in {"mqttLoop", "urgent2"} /\ ret' \in Returns
      /\ UNCHANGED <<ret, pumpVars, stopVars, noticeVars, cmdVars, tracked, retained>>
  BY <1>0 DEF ServiceMQTT, Core, PlaceInv
<1>2. /\ Core'
      /\ conn' \in {"disconnected", "transitioning", "connected", "halfOpen"}
      /\ session' \in {"idle", "subscribing", "pumpStatus", "logging", "done"}
      /\ outbox' \in Seq(Packets)
  <2>1. CASE ForceDisconnect \/ UNCHANGED <<conn, session, outbox>>
    BY <1>1, <2>1, OnlyCloses DEF stopVars, Starting
  <2>2. CASE /\ conn = "disconnected" /\ ~pumpRunning
             /\ conn' \in {"connected", "transitioning"}
             /\ session' \in {"subscribing", session} /\ UNCHANGED outbox
    <3>1. LinkInv' /\ PumpHasSession' /\ PumpRunsQuiet' /\ NoStaleOn'
      BY <1>0, <1>1, <2>2 DEF Core, LinkInv, PumpHasSession, PumpRunsQuiet, NoStaleOn,
                              pumpVars
    <3>2. Core'
      BY <1>1, <3>1, PumpLeftAlone DEF stopVars, Starting
    <3> QED BY <1>0, <2>2, <3>2 DEF TypeOK
  <2> QED BY <2>1, <2>2 DEF ServiceMQTT, shouldAttemptMqttReconnect,
                                 linkVars
<1>3. TypeOK'
  BY <1>0, <1>1, <1>2
     DEF TypeOK, Plain, Windows, pumpVars, stopVars, noticeVars, cmdVars
<1> QED BY <1>2, <1>3 DEF IInv

(* serviceMQTT() after its client pass.                                    *)
LEMMA FinishMqttLoopKeeps == ASSUME IInv, FinishMqttLoop PROVE IInv'
<1>1. TypeOK'
  BY DEF IInv, TypeOK, FinishMqttLoop, Plain, pumpVars, stopVars, noticeVars,
         cmdVars, netVars, linkVars
<1>2. Core'
  BY DEF IInv, Core, RelayFollowsIntent, CrashRemembered, PlaceInv, Starting, LinkInv,
         PumpHasSession, PumpRunsQuiet, NoStaleOn, isConnected, mqttSessionReady,
         FinishMqttLoop, pumpVars, stopVars, netVars, linkVars
<1> QED BY <1>1, <1>2 DEF IInv

(* The session makes a step, or closes the link if the pump is off.        *)
LEMMA ServiceMqttSessionInitKeeps == ASSUME IInv, ServiceMqttSessionInit PROVE IInv'
<1>0. TypeOK /\ Core
  BY DEF IInv
<1>1. /\ pc = "session" /\ pc' \in {"urgent2", "sessionPub"} /\ ret' \in Returns
      /\ UNCHANGED <<ret, pumpVars, stopVars, notifyPumpDone, cmdVars, retained>>
  <2>1. pc' \in {"urgent2", "sessionPub"}
    BY DEF ServiceMqttSessionInit, PublishBestEffort
  <2> QED BY <1>0, <2>1 DEF ServiceMqttSessionInit, Core, PlaceInv
<1>2. /\ tracked' \in {tracked, "staged"}
      /\ pumpWasRunningAtBoot' \in {pumpWasRunningAtBoot, FALSE}
  BY <1>0 DEF ServiceMqttSessionInit, TgSend, TypeOK
<1>3. /\ Core'
      /\ conn' \in {"disconnected", "transitioning", "connected", "halfOpen"}
      /\ session' \in {"idle", "subscribing", "pumpStatus", "logging", "done"}
      /\ outbox' \in Seq(Packets)
  <2>1. CASE ForceDisconnect \/ UNCHANGED <<conn, session, outbox>>
    BY <1>1, <1>2, <2>1, OnlyCloses DEF stopVars, Starting
  <2>2. CASE /\ isConnected /\ session # "done"
             /\ session' \in {"pumpStatus", "done"} /\ UNCHANGED <<conn, outbox>>
    <3>1. ~pumpRunning
      BY <1>0, <2>2 DEF Core, PumpHasSession, mqttSessionReady
    <3>2. LinkInv' /\ PumpHasSession' /\ PumpRunsQuiet' /\ NoStaleOn'
      BY <1>0, <1>1, <2>2, <3>1
         DEF Core, LinkInv, PumpHasSession, PumpRunsQuiet, NoStaleOn, isConnected,
             pumpVars
    <3>3. Core'
      BY <1>1, <3>2, PumpLeftAlone DEF stopVars, Starting
    <3> QED BY <1>0, <2>2, <3>3 DEF TypeOK
  <2>3. ASSUME NEW STATE packet, packet \in Packets, pumpRunning \/ packet # "ON",
               isConnected, session # "done", UNCHANGED <<conn, session>>,
               PublishBestEffort(TRUE, packet, "sessionPub", "urgent2")
        PROVE  Core' /\ outbox' \in Seq(Packets)
    <3>1. ~pumpRunning
      BY <1>0, <2>3 DEF Core, PumpHasSession, mqttSessionReady
    <3>2. /\ outbox' \in Seq(Packets)
          /\ LinkInv'
          /\ packet # "ON" /\ NoOnQueued => NoOnQueued'
      BY <1>0, <2>3, Publishing DEF Core
    <3>3. packet # "ON"
      BY <2>3, <3>1
    <3>4. PumpHasSession' /\ PumpRunsQuiet' /\ NoStaleOn'
      BY <1>0, <1>1, <2>3, <3>1, <3>2, <3>3
         DEF Core, PumpHasSession, PumpRunsQuiet, NoStaleOn, NoOnQueued, isConnected,
             pumpVars
    <3>5. Core'
      BY <1>1, <3>2, <3>4, PumpLeftAlone DEF stopVars, Starting
    <3> QED BY <3>2, <3>5
  <2>4. CASE /\ isConnected /\ session \in {"subscribing", "logging"}
             /\ PublishBestEffort(TRUE, "app", "sessionPub", "urgent2")
             /\ UNCHANGED <<conn, session>>
    BY <1>0, <2>3, <2>4 DEF TypeOK, Packets
  <2>5. CASE /\ isConnected /\ session = "pumpStatus"
             /\ PublishBestEffort(TRUE, IF pumpRunning THEN "ON" ELSE "OFF",
                                  "sessionPub", "urgent2")
             /\ UNCHANGED <<conn, session>>
    <3>1. (IF pumpRunning THEN "ON" ELSE "OFF") \in Packets
      BY DEF Packets
    <3>2. pumpRunning \/ (IF pumpRunning THEN "ON" ELSE "OFF") # "ON"
      OBVIOUS
    <3>3. Core' /\ outbox' \in Seq(Packets)
      BY <2>3, <2>5, <3>1, <3>2
    <3> QED BY <1>0, <2>5, <3>3 DEF TypeOK
  <2> QED BY <2>1, <2>2, <2>4, <2>5 DEF ServiceMqttSessionInit, linkVars
<1>4. TypeOK'
  <2>1. /\ tracked' \in {"empty", "staged", "inFlight"}
        /\ pumpWasRunningAtBoot' \in BOOLEAN
    BY <1>0, <1>2 DEF TypeOK
  <2> QED BY <1>0, <1>1, <1>3, <2>1
             DEF TypeOK, Plain, Windows, pumpVars, stopVars, cmdVars
<1> QED BY <1>3, <1>4 DEF IInv

(* The status was published: the session goes on.                          *)
LEMMA FinishSessionPubKeeps == ASSUME IInv, FinishSessionPub PROVE IInv'
<1>1. TypeOK'
  BY DEF IInv, TypeOK, FinishSessionPub, Plain, pumpVars, stopVars, noticeVars, cmdVars
<1>2. Core'
  BY DEF IInv, Core, RelayFollowsIntent, CrashRemembered, PlaceInv, Starting, LinkInv,
         PumpHasSession, PumpRunsQuiet, NoStaleOn, isConnected, mqttSessionReady,
         FinishSessionPub, pumpVars, stopVars
<1> QED BY <1>1, <1>2 DEF IInv

(* The effect of one command, the FIFO already shortened.                  *)
LEMMA ProcessCommandKeeps ==
  ASSUME IInv, pc = "cmd", NEW STATE entry, entry \in Entries, ProcessCommand(entry),
         commandQueue' \in Seq(Entries), Len(commandQueue') <= COMMAND_QUEUE_SIZE,
         UNCHANGED <<stopVars, pumpWasRunningAtBoot, linkVars, retained>>
  PROVE  IInv'
<1>0. TypeOK /\ Core
  BY DEF IInv
<1>1. CASE pumpRunning /\ StopPump("pump3") /\ item' = <<>>
  <2>1. "pump3" \in Returns
    BY DEF Returns
  <2>2. urgentPumpStopPending' \in BOOLEAN
    BY <1>0 DEF TypeOK, stopVars
  <2> QED BY <1>1, <2>1, <2>2, StopPumpCore
<1>2. CASE /\ pc' \in {"pump3", "sense"} /\ item' = <<>>
           /\ UNCHANGED <<pumpVars, ret, notifyPumpDone, outbox>>
           /\ tracked' \in {tracked, "staged"}
  <2>1. Core'
    <3>1. ret' \in Returns /\ UNCHANGED <<conn, session, urgentPumpStopPending>>
      BY <1>0, <1>2 DEF Core, PlaceInv, linkVars, stopVars
    <3> QED BY <1>2, <3>1, OnlyCloses DEF Starting
  <2>2. TypeOK'
    BY <1>0, <1>2 DEF TypeOK, Plain, pumpVars, stopVars, linkVars
  <2> QED BY <2>1, <2>2 DEF IInv
<1>3. CASE /\ ~pumpRunning /\ ~StartPumpRefused
           /\ item' = <<entry>>
           /\ PublishBestEffort(TRUE, "app", "startNotice", "starting")
           /\ UNCHANGED <<pumpVars, ret, notifyPumpDone, tracked>>
  <2>1. /\ pc' \in {"startNotice", "starting"}
        /\ outbox' \in Seq(Packets)
        /\ LinkInv'
        /\ NoOnQueued => NoOnQueued'
    BY <1>0, <1>3, Publishing DEF Core, Packets, linkVars
  <2>2. RelayFollowsIntent' /\ CrashRemembered' /\ PumpHasSession' /\ PumpRunsQuiet'
    BY <1>0, <1>3 DEF Core, RelayFollowsIntent, CrashRemembered, PumpHasSession,
                      PumpRunsQuiet, pumpVars, stopVars
  <2>3. PlaceInv'
    <3>1. mqttSessionReady'
      BY <1>3 DEF StartPumpRefused, mqttSessionReady, linkVars
    <3>2. ~pumpRunning' /\ item' # <<>>
      BY <1>3 DEF pumpVars
    <3> QED BY <1>0, <1>3, <2>1, <3>1, <3>2 DEF Core, PlaceInv, Starting
  <2>4. NoStaleOn'
    BY <1>0, <2>1 DEF Core, NoStaleOn, NoOnQueued, isConnected, linkVars
  <2>5. TypeOK'
    <3>1. item' \in {<<>>} \cup {<<e>> : e \in Entries}
      BY <1>3
    <3> QED BY <1>0, <1>3, <2>1, <3>1
            DEF TypeOK, Plain, Windows, pumpVars, stopVars, linkVars
  <2> QED BY <2>1, <2>2, <2>3, <2>4, <2>5 DEF IInv, Core
<1> QED
  <2>1. CASE asksForPump(entry.cmd) /\ ~pumpRunning /\ StartPump(entry)
             /\ UNCHANGED <<pumpVars, ret, notifyPumpDone, tracked>>
    BY <1>2, <1>3, <2>1 DEF StartPump
  <2> QED BY <1>0, <1>1, <1>2, <2>1 DEF ProcessCommand, TgSend, TypeOK

(* Defer, drop as stale, or process the head of the FIFO.                  *)
LEMMA ProcessCommandQueueKeeps == ASSUME IInv, ProcessCommandQueue PROVE IInv'
<1>0. TypeOK /\ Core
  BY DEF IInv
<1>1. /\ pc = "cmd"
      /\ UNCHANGED <<stopVars, pumpWasRunningAtBoot, linkVars, retained>>
  BY DEF ProcessCommandQueue
<1>2. CASE /\ pc' = "pump3"
           /\ UNCHANGED <<pumpVars, ret, notifyPumpDone, cmdVars, tracked, outbox>>
  <2>1. Core'
    <3>1. ret' \in Returns /\ UNCHANGED <<conn, session, urgentPumpStopPending>>
      BY <1>0, <1>1, <1>2 DEF Core, PlaceInv, linkVars, stopVars
    <3> QED BY <1>1, <1>2, <3>1, OnlyCloses DEF Starting
  <2>2. TypeOK'
    BY <1>0, <1>1, <1>2 DEF TypeOK, Plain, pumpVars, stopVars, cmdVars, linkVars
  <2> QED BY <2>1, <2>2 DEF IInv
<1>3. CASE ~(\/ commandQueue = <<>>
             \/ shouldDeferQueuedPumpStartForNetwork(Head(commandQueue)))
  <2>0. commandQueue' = Tail(commandQueue)
    BY <1>3 DEF ProcessCommandQueue
  <2>1. /\ commandQueue' \in Seq(Entries) /\ Len(commandQueue') <= COMMAND_QUEUE_SIZE
        /\ Head(commandQueue) \in Entries
    BY <1>0, <1>3, <2>0, Dequeued DEF TypeOK
  <2>2. CASE ProcessCommand(Head(commandQueue))
    BY <1>1, <2>1, <2>2, ProcessCommandKeeps
  <2>3. CASE /\ PublishBestEffort(mqttDiagnosticPublishAllowed(pumpRunning),
                                  "app", "staleLog", "pump3")
             /\ UNCHANGED <<pumpVars, ret, notifyPumpDone, item, tracked>>
    <3>1. /\ pc' \in {"staleLog", "pump3"}
          /\ outbox' \in Seq(Packets)
          /\ LinkInv'
          /\ NoOnQueued => NoOnQueued'
      <4>1. LinkInv /\ conn' = conn /\ "app" \in Packets
        BY <1>0, <1>1 DEF Core, Packets, linkVars
      <4> QED BY <1>0, <2>3, <4>1, Publishing DEF Packets
    <3>2. pumpRunning => outbox' = outbox
      BY <2>3 DEF PublishBestEffort, mqttDiagnosticPublishAllowed
    <3>3. PumpHasSession' /\ NoStaleOn'
      BY <1>0, <1>1, <2>3, <3>1 DEF Core, PumpHasSession, NoStaleOn, NoOnQueued,
         isConnected, mqttSessionReady, linkVars, pumpVars
    <3>4. PumpRunsQuiet'
      BY <1>0, <2>3, <3>2 DEF Core, PumpRunsQuiet, pumpVars
    <3>5. ret' \in Returns /\ UNCHANGED urgentPumpStopPending
      BY <1>0, <1>1, <2>3 DEF Core, PlaceInv, stopVars
    <3>6. Core'
      BY <1>1, <2>3, <3>1, <3>3, <3>4, <3>5, PumpLeftAlone DEF Starting
    <3>7. TypeOK'
      BY <1>0, <1>1, <2>1, <2>3, <3>1
         DEF TypeOK, Plain, Windows, pumpVars, stopVars, linkVars
    <3> QED BY <3>6, <3>7 DEF IInv
  <2> QED BY <1>3, <2>2, <2>3 DEF ProcessCommandQueue
<1> QED BY <1>2, <1>3 DEF ProcessCommandQueue

(* After the log of a stale start.                                         *)
LEMMA FinishStaleLogKeeps == ASSUME IInv, FinishStaleLog PROVE IInv'
<1>1. TypeOK'
  BY DEF IInv, TypeOK, FinishStaleLog, Plain, pumpVars, stopVars, noticeVars,
         cmdVars, netVars, linkVars
<1>2. Core'
  BY DEF IInv, Core, RelayFollowsIntent, CrashRemembered, PlaceInv, Starting, LinkInv,
         PumpHasSession, PumpRunsQuiet, NoStaleOn, isConnected, mqttSessionReady,
         FinishStaleLog, pumpVars, stopVars, netVars, linkVars
<1> QED BY <1>1, <1>2 DEF IInv

(* The ON is queued in startPump() only, with the relay off.               *)
LEMMA PublishOnKeeps == ASSUME IInv, PublishOn PROVE IInv'
<1>0. TypeOK /\ Core
  BY DEF IInv
<1>1. /\ pc \in {"startNotice", "starting"} /\ pc \in Starting /\ ret' \in Returns
      /\ ~pumpRunning /\ item # <<>> /\ (isConnected => mqttSessionReady)
      /\ UNCHANGED <<ret, pumpVars, stopVars, noticeVars, commandQueue, tracked,
                     retained>>
      /\ item' = IF pc' = "startStatus" THEN item ELSE <<>>
  BY <1>0 DEF PublishOn, Core, PlaceInv, Starting
<1>2. /\ Core'
      /\ pc' \in {"startStatus", "pump3"}
      /\ conn' \in {"disconnected", "transitioning", "connected", "halfOpen"}
      /\ session' \in {"idle", "subscribing", "pumpStatus", "logging", "done"}
      /\ outbox' \in Seq(Packets)
  <2>1. CASE ForceDisconnect /\ pc' = "pump3"
    BY <1>1, <2>1, OnlyCloses DEF stopVars, Starting
  <2>2. CASE /\ UNCHANGED linkVars
             /\ PublishBestEffort(~urgentPumpStopPending /\ pumpStatusAllowed,
                                  "ON", "startStatus", "pump3")
    <3>1. /\ outbox' \in Seq(Packets)
          /\ LinkInv'
      <4>1. LinkInv /\ conn' = conn /\ "ON" \in Packets
        BY <1>0, <2>2 DEF Core, Packets, linkVars
      <4> QED BY <1>0, <2>2, <4>1, Publishing
    <3>2. \/ pc' = "startStatus"
          \/ pc' = "pump3" /\ outbox' = outbox
      BY <2>2 DEF PublishBestEffort
    <3>3. RelayFollowsIntent' /\ CrashRemembered' /\ PumpHasSession' /\ PumpRunsQuiet'
      BY <1>0, <1>1, <2>2, <3>2 DEF Core, RelayFollowsIntent, CrashRemembered, PumpHasSession,
         PumpRunsQuiet, pumpVars, stopVars
    <3>4. NoStaleOn'
      BY <1>0, <1>1, <2>2, <3>2 DEF Core, NoStaleOn, isConnected, linkVars
    <3>5. PlaceInv'
      BY <1>0, <1>1, <2>2, <3>2
         DEF Core, PlaceInv, Starting, isConnected, mqttSessionReady, linkVars, pumpVars
    <3>6. /\ conn' \in {"disconnected", "transitioning", "connected", "halfOpen"}
          /\ session' \in {"idle", "subscribing", "pumpStatus", "logging", "done"}
      BY <1>0, <2>2 DEF TypeOK, linkVars
    <3> QED BY <3>1, <3>2, <3>3, <3>4, <3>5, <3>6 DEF Core
  <2> QED BY <2>1, <2>2 DEF PublishOn
<1>3. TypeOK'
  BY <1>0, <1>1, <1>2 DEF TypeOK, Plain, Windows, pumpVars, stopVars, noticeVars
<1> QED BY <1>2, <1>3 DEF IInv

(* A cancelled start that leaves its ON behind closes the link.            *)
LEMMA CancelStartKeeps == ASSUME IInv, CancelStart PROVE IInv'
<1>0. TypeOK /\ Core
  BY DEF IInv
<1>1. /\ pc = "startStatus" /\ pc' = "pump3" /\ item' = <<>> /\ ret' \in Returns
      /\ ~pumpRunning
      /\ UNCHANGED <<ret, pumpVars, stopVars, noticeVars, commandQueue, tracked,
                     retained>>
  BY <1>0 DEF CancelStart, Core, PlaceInv, Starting
<1>2. /\ Core'
      /\ conn' \in {"disconnected", "transitioning", "connected", "halfOpen"}
      /\ session' \in {"idle", "subscribing", "pumpStatus", "logging", "done"}
      /\ outbox' \in Seq(Packets)
  <2>1. CASE ForceDisconnect
    BY <1>1, <2>1, OnlyCloses DEF stopVars, Starting
  <2>2. CASE queueSize = 0 /\ UNCHANGED <<conn, session, outbox>>
    <3>1. outbox = <<>>
      BY <1>0, <2>2 DEF TypeOK, queueSize
    <3>2. LinkInv' /\ PumpHasSession' /\ PumpRunsQuiet' /\ NoStaleOn'
      BY <1>0, <1>1, <2>2, <3>1
         DEF Core, LinkInv, PumpHasSession, PumpRunsQuiet, NoStaleOn, pumpVars
    <3>3. Core'
      BY <1>1, <3>2, PumpLeftAlone DEF stopVars, Starting
    <3> QED BY <1>0, <2>2, <3>3 DEF TypeOK
  <2> QED BY <2>1, <2>2 DEF CancelStart, linkVars
<1>3. TypeOK'
  BY <1>0, <1>1, <1>2 DEF TypeOK, Plain, pumpVars, stopVars, noticeVars
<1> QED BY <1>2, <1>3 DEF IInv

(* The relay goes on with an empty outbox and no stop pending.             *)
LEMMA EnergiseRelayKeeps == ASSUME IInv, EnergiseRelay PROVE IInv'
<1>0. TypeOK /\ Core
  BY DEF IInv
<1>1. /\ pc = "startStatus" /\ pc' = "started"
      /\ relay' = "ON" /\ pumpRunning' = TRUE /\ ~urgentPumpStopPending
      /\ queueSize = 0
      /\ UNCHANGED <<ret, rtcPumpWasRunning, stopVars, noticeVars, cmdVars, netVars>>
  BY DEF EnergiseRelay
<1>2. outbox = <<>> /\ tracked # "inFlight"
  BY <1>0, <1>1 DEF TypeOK, queueSize
<1>3. TypeOK'
  BY <1>0, <1>1 DEF TypeOK, Plain, stopVars, noticeVars, cmdVars, netVars, linkVars
<1>4. Core'
  BY <1>0, <1>1, <1>2
     DEF Core, RelayFollowsIntent, CrashRemembered, PlaceInv, Starting, LinkInv,
         PumpHasSession, PumpRunsQuiet, NoStaleOn, isConnected, mqttSessionReady,
         stopVars, cmdVars, netVars, linkVars
<1> QED BY <1>3, <1>4 DEF IInv

(* The RTC flag catches up with the relay.                                 *)
LEMMA RememberRunKeeps == ASSUME IInv, RememberRun PROVE IInv'
<1>1. TypeOK'
  BY DEF IInv, TypeOK, RememberRun, Plain, stopVars, noticeVars, netVars, linkVars
<1>2. Core'
  BY DEF IInv, Core, RelayFollowsIntent, CrashRemembered, PlaceInv, Starting, LinkInv,
         PumpHasSession, PumpRunsQuiet, NoStaleOn, isConnected, mqttSessionReady,
         RememberRun, stopVars, netVars, linkVars
<1> QED BY <1>1, <1>2 DEF IInv

(* A report between two sensors.                                           *)
LEMMA SenseForReportKeeps == ASSUME IInv, SenseForReport PROVE IInv'
<1>0. TypeOK /\ Core
  BY DEF IInv
<1>1. /\ pc = "sense" /\ pc' \in {"senseLoop", "urgentS", "pump3"} /\ ret' \in Returns
      /\ UNCHANGED <<ret, pumpVars, stopVars, noticeVars, cmdVars, retained>>
      /\ tracked' \in {tracked, "staged"}
      /\ ForceDisconnect \/ UNCHANGED <<conn, session, outbox>>
  BY <1>0 DEF SenseForReport, TgSend, TypeOK, Core, PlaceInv, linkVars
<1>2. /\ Core'
      /\ conn' \in {"disconnected", "transitioning", "connected", "halfOpen"}
      /\ session' \in {"idle", "subscribing", "pumpStatus", "logging", "done"}
      /\ outbox' \in Seq(Packets)
  BY <1>1, OnlyCloses DEF stopVars, Starting
<1>3. TypeOK'
  BY <1>0, <1>1, <1>2
     DEF TypeOK, Plain, Windows, pumpVars, stopVars, noticeVars, cmdVars
<1> QED BY <1>2, <1>3 DEF IInv

(* The announcement of a finished run.                                     *)
LEMMA NotifyDoneKeeps == ASSUME IInv, NotifyDone PROVE IInv'
<1>0. TypeOK /\ Core
  BY DEF IInv
<1>1. /\ pc = "notify" /\ pc' = "telegram" /\ notifyPumpDone' = FALSE
      /\ ret' \in Returns
      /\ UNCHANGED <<ret, pumpVars, stopVars, pumpWasRunningAtBoot, cmdVars, linkVars,
                     outbox, retained>>
      /\ tracked' \in {tracked, "staged"}
  BY <1>0 DEF NotifyDone, TgSend, TypeOK, Core, PlaceInv
<1>2. Core'
  BY <1>1, OnlyCloses DEF stopVars, linkVars, Starting
<1>3. TypeOK'
  <2>1. tracked' \in {"empty", "staged", "inFlight"} /\ notifyPumpDone' \in BOOLEAN
    BY <1>0, <1>1 DEF TypeOK
  <2> QED BY <1>0, <1>1, <2>1 DEF TypeOK, Plain, pumpVars, stopVars, cmdVars, linkVars
<1> QED BY <1>2, <1>3 DEF IInv

(* A tracked publish takes off only while the pump is off.                 *)
LEMMA ServiceTelegramDeliveryKeeps == ASSUME IInv, ServiceTelegramDelivery PROVE IInv'
<1>1. TypeOK'
  BY DEF IInv, TypeOK, ServiceTelegramDelivery, Plain, Windows, pumpVars, stopVars,
         noticeVars, cmdVars, linkVars
<1>2. Core'
  BY DEF IInv, Core, RelayFollowsIntent, CrashRemembered, PlaceInv, Starting, LinkInv,
         PumpHasSession, PumpRunsQuiet, NoStaleOn, isConnected, mqttSessionReady,
         ServiceTelegramDelivery, telegramMayGo,
         pumpVars, stopVars, linkVars
<1> QED BY <1>1, <1>2 DEF IInv

(* Telemetry starts only while the pump is off.                            *)
LEMMA ServiceMoisturePublishKeeps == ASSUME IInv, ServiceMoisturePublish PROVE IInv'
<1>1. TypeOK'
  BY DEF IInv, TypeOK, ServiceMoisturePublish, Plain, Windows, pumpVars, stopVars,
         noticeVars, cmdVars, netVars, linkVars
<1>2. Core'
  BY DEF IInv, Core, RelayFollowsIntent, CrashRemembered, PlaceInv, Starting, LinkInv,
         PumpHasSession, PumpRunsQuiet, NoStaleOn, isConnected, mqttSessionReady,
         ServiceMoisturePublish, pumpVars, stopVars, netVars, linkVars
<1> QED BY <1>1, <1>2 DEF IInv

(* A telemetry value goes out only while the pump is off.                  *)
LEMMA PublishMoistureKeeps == ASSUME IInv, PublishMoisture PROVE IInv'
<1>0. TypeOK /\ Core
  BY DEF IInv
<1>1. /\ pc = "moPublish" /\ ret' \in Returns
      /\ UNCHANGED <<ret, pumpVars, stopVars, noticeVars, cmdVars, linkVars, tracked,
                     retained>>
  BY <1>0 DEF PublishMoisture, Core, PlaceInv
<1>2. /\ Core'
      /\ pc' \in {"urgent1", "moPub", "pumpE"}
      /\ outbox' \in Seq(Packets)
  <2>1. CASE pc' = "urgent1" /\ UNCHANGED outbox
    <3>1. Core'
      BY <1>1, <2>1, OnlyCloses DEF stopVars, linkVars, Starting
    <3> QED BY <1>0, <2>1, <3>1 DEF TypeOK
  <2>2. CASE /\ ~pumpRunning
             /\ PublishBestEffort(TRUE, "app", "moPub", "pumpE")
    <3>1. /\ pc' \in {"moPub", "pumpE"}
          /\ outbox' \in Seq(Packets)
          /\ LinkInv'
          /\ NoOnQueued => NoOnQueued'
      <4>1. LinkInv /\ conn' = conn /\ "app" \in Packets
        BY <1>0, <1>1 DEF Core, Packets, linkVars
      <4> QED BY <1>0, <2>2, <4>1, Publishing DEF Packets
    <3>2. PumpHasSession' /\ PumpRunsQuiet' /\ NoStaleOn'
      BY <1>0, <1>1, <2>2, <3>1 DEF Core, PumpHasSession, PumpRunsQuiet, NoStaleOn,
         NoOnQueued, isConnected, linkVars, pumpVars
    <3>3. Core'
      BY <1>1, <3>1, <3>2, PumpLeftAlone DEF stopVars, Starting
    <3> QED BY <3>1, <3>3
  <2> QED BY <2>1, <2>2 DEF PublishMoisture
<1>3. TypeOK'
  BY <1>0, <1>1, <1>2
     DEF TypeOK, Plain, Windows, pumpVars, stopVars, noticeVars, cmdVars, linkVars
<1> QED BY <1>2, <1>3 DEF IInv

(* stopPump() clears the RTC flag.                                         *)
LEMMA ForgetRunKeeps == ASSUME IInv, ForgetRun PROVE IInv'
<1>0. TypeOK /\ Core
  BY DEF IInv
<1>1. /\ pc = "stopping" /\ ~pumpRunning /\ rtcPumpWasRunning' = FALSE
      /\ UNCHANGED <<ret, relay, pumpRunning, stopVars, noticeVars, cmdVars, linkVars,
                     tracked, retained>>
  BY <1>0 DEF ForgetRun, Core, PlaceInv
<1>2. /\ pc' \in {"stopLog", "stopped"}
      /\ outbox' \in Seq(Packets)
      /\ LinkInv'
      /\ NoOnQueued => NoOnQueued'
  <2>1. LinkInv /\ conn' = conn /\ "app" \in Packets
    BY <1>0, <1>1 DEF Core, Packets, linkVars
  <2>2. PublishBestEffort(mqttDiagnosticPublishAllowed(FALSE), "app", "stopLog", "stopped")
    BY DEF ForgetRun
  <2> QED BY <1>0, <2>1, <2>2, Publishing DEF Packets
<1>3. RelayFollowsIntent' /\ CrashRemembered' /\ PlaceInv'
  BY <1>0, <1>1, <1>2
     DEF Core, RelayFollowsIntent, CrashRemembered, PlaceInv, Starting, stopVars
<1>4. PumpHasSession' /\ PumpRunsQuiet' /\ NoStaleOn'
  BY <1>0, <1>1, <1>2 DEF Core, PumpHasSession, PumpRunsQuiet, NoStaleOn, NoOnQueued,
     isConnected, linkVars
<1>5. TypeOK'
  <2>1. /\ pc' \in Plain \cup Windows /\ ret' \in Plain
        /\ rtcPumpWasRunning' \in BOOLEAN /\ pumpRunning' \in BOOLEAN
    BY <1>0, <1>1, <1>2 DEF TypeOK, Plain, Windows
  <2> QED BY <1>0, <1>1, <1>2, <2>1 DEF TypeOK, stopVars, noticeVars, cmdVars, linkVars
<1> QED BY <1>2, <1>3, <1>4, <1>5 DEF IInv, Core

(* The OFF of stopPump().                                                  *)
LEMMA FinishStopKeeps == ASSUME IInv, FinishStop PROVE IInv'
<1>0. TypeOK /\ Core
  BY DEF IInv
<1>1. /\ pc \in {"stopLog", "stopped"} /\ ret' \in Returns /\ ret \in Returns
      /\ ~pumpRunning
      /\ UNCHANGED <<ret, pumpVars, stopVars, noticeVars, cmdVars, linkVars, tracked,
                     retained>>
  BY <1>0 DEF FinishStop, Core, PlaceInv
<1>2. /\ pc' \in {"stopStatus", ret}
      /\ outbox' \in Seq(Packets)
      /\ LinkInv'
      /\ NoOnQueued => NoOnQueued'
  <2>1. LinkInv /\ conn' = conn /\ "OFF" \in Packets
    BY <1>0, <1>1 DEF Core, Packets, linkVars
  <2>2. PublishBestEffort(pumpStatusAllowed, "OFF", "stopStatus", ret)
    BY DEF FinishStop
  <2> QED BY <1>0, <2>1, <2>2, Publishing DEF Packets
<1>3. PumpHasSession' /\ PumpRunsQuiet' /\ NoStaleOn'
  BY <1>0, <1>1, <1>2 DEF Core, PumpHasSession, PumpRunsQuiet, NoStaleOn, NoOnQueued,
     isConnected, linkVars, pumpVars
<1>4. Core'
  BY <1>1, <1>2, <1>3, Labels, PumpLeftAlone DEF stopVars, Starting
<1>5. TypeOK'
  BY <1>0, <1>1, <1>2
     DEF TypeOK, Plain, Windows, pumpVars, stopVars, noticeVars, cmdVars, linkVars
<1> QED BY <1>4, <1>5 DEF IInv

(* The answer of serviceUrgentPumpStop().                                  *)
LEMMA FinishUrgentKeeps == ASSUME IInv, FinishUrgent PROVE IInv'
<1>0. TypeOK /\ Core
  BY DEF IInv
<1>1. /\ pc = "urgentStatus" /\ pc' = ret /\ ret \in Returns /\ ret' \in Returns
      /\ UNCHANGED <<ret, pumpVars, stopVars, noticeVars, cmdVars, linkVars, outbox,
                     retained>>
      /\ tracked' \in {tracked, "staged"}
  BY <1>0 DEF FinishUrgent, TgSend, TypeOK, Core, PlaceInv
<1>2. Core'
  BY <1>1, Labels, OnlyCloses DEF stopVars, linkVars
<1>3. TypeOK'
  BY <1>0, <1>1
     DEF TypeOK, pumpVars, stopVars, noticeVars, cmdVars, linkVars
<1> QED BY <1>2, <1>3 DEF IInv

(* A client call returns.                                                  *)
LEMMA ReturnFromCallKeeps == ASSUME IInv, ReturnFromCall PROVE IInv'
<1>0. TypeOK /\ Core
  BY DEF IInv
<1>1. /\ pc \in {"stopStatus", "senseLoop", "tgPump", "moLoop", "moPub"}
      /\ pc' \in {ret, "urgentS", "moisture", "urgentM", "pumpE"}
      /\ ret \in Returns /\ ret' \in Returns
      /\ UNCHANGED <<ret, pumpVars, stopVars, noticeVars, cmdVars, netVars>>
  BY <1>0 DEF ReturnFromCall, AfterCall, Core, PlaceInv
<1>2. Core'
  BY <1>1, Labels, OnlyCloses DEF stopVars, netVars, linkVars, Starting
<1>3. TypeOK'
  BY <1>0, <1>1
     DEF TypeOK, Plain, pumpVars, stopVars, noticeVars, cmdVars, netVars, linkVars
<1> QED BY <1>2, <1>3 DEF IInv

(* A command arrives inside a client call.                                 *)
LEMMA DeliverKeeps ==
  ASSUME IInv, NEW c \in Inbound, NEW qos \in Qos, Deliver(c, qos) PROVE IInv'
<1>0. TypeOK /\ Core
  BY DEF IInv
<1>1. /\ pc \in Windows /\ pc # "started" /\ conn = "connected"
      /\ UNCHANGED <<pc, ret, pumpRunning, rtcPumpWasRunning, noticeVars, item,
                     linkVars, tracked, retained>>
  BY DEF Deliver, Windows
<1>2. /\ outbox' \in Seq(Packets)
      /\ outbox' = outbox \/ outbox' = Append(outbox, "ack")
      /\ \A i \in DOMAIN outbox' :
           outbox'[i] = "ack" \/ (i \in DOMAIN outbox /\ outbox'[i] = outbox[i])
  <2>1. "ack" \in Packets /\ outbox \in Seq(Packets)
    BY <1>0 DEF TypeOK, Packets
  <2>2. outbox' = outbox \/ outbox' = Append(outbox, "ack")
    BY DEF Deliver
  <2> QED BY <2>1, <2>2, Appended
<1>3. /\ \/ UNCHANGED <<relay, urgentPumpStopPending>>
         \/ relay' = "OFF" /\ urgentPumpStopPending' = TRUE
      /\ pumpStopEpoch' \in 0 .. MaxEpoch
      /\ commandQueue' \in Seq(Entries) /\ Len(commandQueue') <= COMMAND_QUEUE_SIZE
  <2>1. CASE isUrgentStop(c)
    <3>1. requestUrgentPumpStop
      BY <2>1 DEF Deliver
    <3>2. pumpStopEpoch' \in 0 .. MaxEpoch
      BY <1>0, <3>1, QueueAssumption DEF requestUrgentPumpStop, TypeOK
    <3>3. commandQueue' \in Seq(Entries) /\ Len(commandQueue') <= COMMAND_QUEUE_SIZE
      BY <1>0, <3>1 DEF requestUrgentPumpStop, TypeOK
    <3> QED BY <3>1, <3>2, <3>3 DEF requestUrgentPumpStop
  <2>2. CASE ~isUrgentStop(c)
    <3>1. enqueueCommand(c)
      BY <2>2 DEF Deliver
    <3>2. [cmd |-> c, stopEpoch |-> pumpStopEpoch] \in Entries
      BY <1>0 DEF TypeOK, Entries
    <3>3. commandQueue' \in Seq(Entries) /\ Len(commandQueue') <= COMMAND_QUEUE_SIZE
      <4>1. commandQueue \in Seq(Entries) /\ Len(commandQueue) <= COMMAND_QUEUE_SIZE
        BY <1>0 DEF TypeOK
      <4> QED BY <3>1, <3>2, <4>1, Enqueued DEF enqueueCommand
    <3>4. pumpStopEpoch' \in 0 .. MaxEpoch
      BY <1>0, <3>1 DEF enqueueCommand, stopVars, TypeOK
    <3> QED BY <3>1, <3>3, <3>4 DEF enqueueCommand, stopVars
  <2> QED BY <2>1, <2>2
<1>4. TypeOK'
  <2>1. relay' \in {"ON", "OFF"} /\ urgentPumpStopPending' \in BOOLEAN
    BY <1>0, <1>3 DEF TypeOK
  <2> QED BY <1>0, <1>1, <1>2, <1>3, <2>1 DEF TypeOK, noticeVars, linkVars
<1>5. RelayFollowsIntent' /\ CrashRemembered' /\ PlaceInv'
  BY <1>0, <1>1, <1>3
     DEF Core, RelayFollowsIntent, CrashRemembered, PlaceInv, isConnected,
         mqttSessionReady, linkVars
<1>6. LinkInv' /\ PumpHasSession' /\ PumpRunsQuiet' /\ NoStaleOn'
  BY <1>0, <1>1, <1>2
     DEF Core, LinkInv, PumpHasSession, PumpRunsQuiet, NoStaleOn, isConnected,
         mqttSessionReady, linkVars
<1> QED BY <1>4, <1>5, <1>6 DEF IInv, Core

(* The socket takes a packet.                                              *)
LEMMA SendKeeps == ASSUME IInv, Send PROVE IInv'
<1>0. TypeOK /\ Core
  BY DEF IInv
<1>1. /\ isConnected
      /\ retained' \in {"ON", "OFF"}
      /\ UNCHANGED <<pc, ret, pumpVars, stopVars, noticeVars, cmdVars, linkVars,
                     tracked>>
  BY <1>0 DEF Send, TypeOK
<1>2. /\ outbox' \in Seq(Packets)
      /\ \A i \in DOMAIN outbox' : i + 1 \in DOMAIN outbox /\ outbox'[i] = outbox[i + 1]
  BY <1>0, Shortened DEF Send, TypeOK
<1>3. TypeOK'
  BY <1>0, <1>1, <1>2 DEF TypeOK, pumpVars, stopVars, noticeVars, cmdVars, linkVars
<1>4. RelayFollowsIntent' /\ CrashRemembered' /\ PlaceInv' /\ PumpHasSession'
  BY <1>0, <1>1 DEF Core, RelayFollowsIntent, CrashRemembered, PlaceInv, PumpHasSession,
     isConnected, mqttSessionReady, pumpVars, stopVars, cmdVars, linkVars
<1>5. LinkInv' /\ PumpRunsQuiet' /\ NoStaleOn'
  BY <1>0, <1>1, <1>2 DEF Core, LinkInv, PumpRunsQuiet, NoStaleOn, isConnected,
     pumpVars, linkVars
<1> QED BY <1>3, <1>4, <1>5 DEF IInv, Core

(* The tracked publish is acknowledged.                                    *)
LEMMA PubAckKeeps == ASSUME IInv, PubAck PROVE IInv'
<1>1. TypeOK'
  BY DEF IInv, TypeOK, PubAck, pumpVars, stopVars, noticeVars, cmdVars, linkVars
<1>2. Core'
  BY DEF IInv, Core, RelayFollowsIntent, CrashRemembered, PlaceInv, LinkInv,
         PumpHasSession, PumpRunsQuiet, NoStaleOn, isConnected, mqttSessionReady,
         PubAck, pumpVars, stopVars, cmdVars, linkVars
<1> QED BY <1>1, <1>2 DEF IInv

(* The path breaks unnoticed.                                              *)
LEMMA LinkBreaksKeeps == ASSUME IInv, LinkBreaks PROVE IInv'
<1>1. TypeOK'
  BY DEF IInv, TypeOK, LinkBreaks, pumpVars, stopVars, noticeVars, cmdVars
<1>2. Core'
  BY DEF IInv, Core, RelayFollowsIntent, CrashRemembered, PlaceInv, LinkInv,
         PumpHasSession, PumpRunsQuiet, NoStaleOn, isConnected, mqttSessionReady,
         LinkBreaks, pumpVars, stopVars, cmdVars
<1> QED BY <1>1, <1>2 DEF IInv

(* The client notices.                                                     *)
LEMMA ConnectionLostKeeps == ASSUME IInv, ConnectionLost PROVE IInv'
<1>1. TypeOK'
  BY DEF IInv, TypeOK, ConnectionLost, pumpVars, stopVars, noticeVars, cmdVars
<1>2. Core'
  BY DEF IInv, Core, RelayFollowsIntent, CrashRemembered, PlaceInv, LinkInv,
         PumpHasSession, PumpRunsQuiet, NoStaleOn, isConnected, mqttSessionReady,
         ConnectionLost, pumpVars, stopVars, cmdVars
<1> QED BY <1>1, <1>2 DEF IInv

(* The invariant is inductive.                                             *)
LEMMA StepInvariant == IInv /\ [Next]_vars => IInv'
<1> SUFFICES ASSUME IInv, [Next]_vars PROVE IInv'
  OBVIOUS
<1>1. CASE LoopStep
  BY <1>1, ServiceUrgentPumpStopKeeps, ServicePumpKeeps, ServiceWiFiKeeps,
     OtaHandleKeeps, RestartKeeps, ServiceMQTTKeeps, FinishMqttLoopKeeps,
     ServiceMqttSessionInitKeeps, FinishSessionPubKeeps, ProcessCommandQueueKeeps,
     FinishStaleLogKeeps, PublishOnKeeps, CancelStartKeeps, EnergiseRelayKeeps,
     RememberRunKeeps, SenseForReportKeeps, NotifyDoneKeeps,
     ServiceTelegramDeliveryKeeps, ServiceMoisturePublishKeeps, PublishMoistureKeeps,
     ForgetRunKeeps, FinishStopKeeps, FinishUrgentKeeps, ReturnFromCallKeeps
     DEF LoopStep, OtaEnd
<1>2. CASE Environment
  BY <1>2, DeliverKeeps, SendKeeps, PubAckKeeps, LinkBreaksKeeps, ConnectionLostKeeps,
     RestartKeeps DEF Environment
<1>3. CASE UNCHANGED vars
  <2>1. UNCHANGED <<pc, ret, pumpVars, stopVars, noticeVars, cmdVars, netVars>>
    BY <1>3 DEF vars
  <2>2. TypeOK'
    BY <2>1 DEF IInv, TypeOK, pumpVars, stopVars, noticeVars, cmdVars, netVars, linkVars
  <2>3. Core'
    BY <2>1 DEF IInv, Core, RelayFollowsIntent, CrashRemembered, PlaceInv, LinkInv,
       PumpHasSession, PumpRunsQuiet, NoStaleOn, isConnected, mqttSessionReady,
       pumpVars, stopVars, cmdVars, netVars, linkVars
  <2> QED BY <2>2, <2>3 DEF IInv
<1> QED BY <1>1, <1>2, <1>3 DEF Next

(* Every reachable state satisfies the inductive invariant.                *)
THEOREM Invariant == Spec => []IInv
<1>1. Init => IInv
  BY InitInvariant
<1>2. IInv /\ [Next]_vars => IInv'
  BY StepInvariant
<1> QED BY <1>1, <1>2, PTL DEF Spec

-------------------------------------------------------------------------------
(* Every variable of the control core keeps its type: the queue never      *)
(* exceeds COMMAND_QUEUE_SIZE, no packet or command is invented.           *)
THEOREM TypeCorrect == Spec => []TypeOK
<1>1. IInv => TypeOK
  BY DEF IInv
<1> QED BY <1>1, Invariant, PTL

(* A powered relay belongs to a running session with no stop outstanding.  *)
THEOREM RelayIsIntended == Spec => []RelayFollowsIntent
<1>1. IInv => RelayFollowsIntent
  BY DEF IInv, Core
<1> QED BY <1>1, Invariant, PTL

(* main.cpp:742-744: no ON of a refused start can still be sent.           *)
THEOREM RefusedStartLeavesNoOn == Spec => []NoStaleOn
<1>1. IInv => NoStaleOn
  BY DEF IInv, Core
<1> QED BY <1>1, Invariant, PTL

(* While the pump runs over a live link the session is initialised, so a   *)
(* STOP is subscribed to.                                                  *)
THEOREM PumpKeepsTheLink == Spec => []PumpHasSession
<1>1. IInv => PumpHasSession
  BY DEF IInv, Core
<1> QED BY <1>1, Invariant, PTL

(* And the firmware itself writes nothing then, so a STOP finds its way in.*)
THEOREM PumpKeepsTheLinkFree == Spec => []PumpRunsQuiet
<1>1. IInv => PumpRunsQuiet
  BY DEF IInv, Core
<1> QED BY <1>1, Invariant, PTL

(* A reset during watering is told from any other by the RTC flag; in the  *)
(* gap of a start it can only be missed, in that of a stop only reported   *)
(* for a run that had just ended.                                          *)
THEOREM ResetIsRemembered == Spec => []CrashRemembered
<1>1. IInv => CrashRemembered
  BY DEF IInv, Core
<1> QED BY <1>1, Invariant, PTL

-------------------------------------------------------------------------------
(* Freshness: what was queued before a stop does not start the pump.       *)

(* processCommandQueue() hands only fresh starts to startPump().           *)
LEMMA StartIsFresh ==
  ASSUME NoPadding, TypeOK, item = <<>>, ProcessCommandQueue
  PROVE  FreshItem'
<1>1. UNCHANGED stopVars
  BY DEF ProcessCommandQueue
<1>2. CASE item' = item
  BY <1>2 DEF FreshItem
<1>3. CASE item' # item
  <2>1. /\ commandQueue # <<>>
        /\ ~shouldSuppressQueuedPumpStart(Head(commandQueue))
        /\ asksForPump(Head(commandQueue).cmd)
        /\ item' = <<Head(commandQueue)>>
        /\ pc' \in {"startNotice", "starting"}
    BY <1>3 DEF ProcessCommandQueue, ProcessCommand, StartPump, PublishBestEffort, cmdVars
  <2>2. Head(commandQueue) \in Entries
    BY <2>1, Dequeued DEF TypeOK
  <2>3. isPumpStartCommand(Head(commandQueue).cmd)
    BY <2>1, <2>2 DEF NoPadding, Entries, asksForPump, isPumpStartCommand
  <2>4. Head(item').stopEpoch = pumpStopEpoch
    BY <2>1, <2>3 DEF shouldSuppressQueuedPumpStart
  <2> QED BY <1>1, <2>1, <2>4 DEF FreshItem, Starting, stopVars
<1> QED BY <1>2, <1>3

(* A start in hand stays fresh, or the stop that overtakes it stays        *)
(* pending.                                                                *)
LEMMA FreshStep ==
  ASSUME NoPadding, IInv, FreshItem, [Next]_vars PROVE FreshItem'
<1>1. CASE ProcessCommandQueue
  <2>1. item = <<>>
    BY <1>1 DEF ProcessCommandQueue, FreshItem, Starting
  <2> QED BY <1>1, <2>1, StartIsFresh DEF IInv
<1>2. CASE OtaEnd \/ Restart
  BY <1>2 DEF OtaEnd, Restart, FreshItem
<1>3. ASSUME NEW c \in Inbound, NEW qos \in Qos, Deliver(c, qos) PROVE FreshItem'
  <2>1. /\ UNCHANGED <<pc, item>>
        /\ urgentPumpStopPending' = TRUE \/ UNCHANGED stopVars
    BY <1>3 DEF Deliver, requestUrgentPumpStop, enqueueCommand
  <2> QED BY <2>1 DEF FreshItem, stopVars
<1>4. CASE PublishOn \/ CancelStart \/ EnergiseRelay \/ RememberRun
  <2>1. /\ UNCHANGED stopVars
        /\ \/ item' = <<>>
           \/ item' = item /\ pc' \in Starting \cup {"started"}
    BY <1>4 DEF PublishOn, CancelStart, EnergiseRelay, RememberRun, Starting, cmdVars
  <2> QED BY <2>1 DEF FreshItem, stopVars
<1>5. CASE /\ item' = item
           /\ \/ pc' = pc /\ UNCHANGED stopVars
              \/ pc \notin Starting \cup {"started"}
  BY <1>5 DEF FreshItem, stopVars
<1>6. CASE Send \/ PubAck \/ LinkBreaks \/ ConnectionLost \/ UNCHANGED vars
  BY <1>5, <1>6 DEF Send, PubAck, LinkBreaks, ConnectionLost, vars, cmdVars
<1>7. CASE \/ ServiceUrgentPumpStop \/ ServicePump \/ ServiceWiFi \/ OtaHandle
           \/ ServiceMQTT \/ FinishMqttLoop \/ ServiceMqttSessionInit
           \/ FinishSessionPub \/ FinishStaleLog
  BY <1>5, <1>7, ReturnLabels DEF ServiceUrgentPumpStop, ServicePump, ServiceWiFi, OtaHandle,
     ServiceMQTT, FinishMqttLoop, ServiceMqttSessionInit, FinishSessionPub,
     FinishStaleLog, Starting, cmdVars
<1>8. CASE \/ SenseForReport \/ NotifyDone \/ ServiceTelegramDelivery
           \/ ServiceMoisturePublish \/ PublishMoisture
           \/ ForgetRun \/ FinishStop \/ FinishUrgent \/ ReturnFromCall
  BY <1>5, <1>8 DEF SenseForReport, NotifyDone, ServiceTelegramDelivery,
     ServiceMoisturePublish, PublishMoisture, ForgetRun, FinishStop, FinishUrgent,
     ReturnFromCall, AfterCall, Starting, cmdVars
<1> QED BY <1>1, <1>2, <1>3, <1>4, <1>6, <1>7, <1>8 DEF Next, LoopStep, Environment

(* The relay goes from OFF to ON in one place only.                        *)
LEMMA OnlyEnergiseRelay ==
  ASSUME IInv, [Next]_vars, relay = "OFF", relay' = "ON" PROVE EnergiseRelay
<1>1. ~(\E c \in Inbound, qos \in Qos : Deliver(c, qos))
  BY DEF Deliver, requestUrgentPumpStop, enqueueCommand
<1>2. ~(Send \/ PubAck \/ LinkBreaks \/ ConnectionLost \/ Restart \/ UNCHANGED vars)
  BY DEF Send, PubAck, LinkBreaks, ConnectionLost, Restart, vars, pumpVars
<1>3. ~(\/ ServiceUrgentPumpStop \/ ServicePump \/ ServiceWiFi \/ OtaHandle \/ OtaEnd
        \/ ServiceMQTT \/ FinishMqttLoop \/ ServiceMqttSessionInit
        \/ FinishSessionPub \/ FinishStaleLog)
  BY DEF ServiceUrgentPumpStop, ServicePump, StopPump, ServiceWiFi, OtaHandle,
     forcePumpOffForOtaSafety, OtaEnd, Restart, ServiceMQTT, FinishMqttLoop,
     ServiceMqttSessionInit, FinishSessionPub, FinishStaleLog, pumpVars
<1>4. ~(ProcessCommandQueue \/ PublishOn \/ CancelStart \/ RememberRun)
  BY DEF ProcessCommandQueue, ProcessCommand, StopPump, PublishOn, CancelStart,
     RememberRun, pumpVars
<1>5. ~(\/ SenseForReport \/ NotifyDone \/ ServiceTelegramDelivery
        \/ ServiceMoisturePublish \/ PublishMoisture
        \/ ForgetRun \/ FinishStop \/ FinishUrgent \/ ReturnFromCall)
  BY DEF SenseForReport, NotifyDone, ServiceTelegramDelivery, ServiceMoisturePublish,
     PublishMoisture, ForgetRun, FinishStop, FinishUrgent, ReturnFromCall, pumpVars
<1> QED BY <1>1, <1>2, <1>3, <1>4, <1>5 DEF Next, LoopStep, Environment

(* main.cpp:224-227, for commands without padding: no start that was       *)
(* queued before a STOP/OFF powers the relay after it.                     *)
THEOREM NoStartIsStale == NoPadding /\ Spec => NoStaleStart
<1> DEFINE Fresh == relay = "OFF" /\ relay' = "ON" =>
                      item # <<>> /\ Head(item).stopEpoch = pumpStopEpoch
<1>1. Init => IInv /\ FreshItem
  BY InitInvariant DEF Init, FreshItem
<1>2. NoPadding /\ (IInv /\ FreshItem) /\ [Next]_vars => (IInv /\ FreshItem)'
  BY StepInvariant, FreshStep
<1>3. IInv /\ FreshItem /\ [Next]_vars => [Fresh]_vars
  <2> SUFFICES ASSUME IInv, FreshItem, [Next]_vars, relay = "OFF", relay' = "ON"
               PROVE  item # <<>> /\ Head(item).stopEpoch = pumpStopEpoch
    OBVIOUS
  <2>1. pc = "startStatus" /\ ~urgentPumpStopPending
    BY OnlyEnergiseRelay DEF EnergiseRelay
  <2> QED BY <2>1 DEF FreshItem, IInv, Core, PlaceInv, Starting
<1>4. ASSUME NoPadding PROVE Spec => [][Fresh]_vars
  <2>1. (IInv /\ FreshItem) /\ [Next]_vars => (IInv /\ FreshItem)'
    BY <1>2, <1>4
  <2> QED BY <1>1, <2>1, <1>3, PTL DEF Spec
<1> QED BY <1>4 DEF NoStaleStart

-------------------------------------------------------------------------------
(* The refinement of PumpContract.  How many starts a FIFO holds for an    *)
(* epoch.                                                                  *)

StartsAt(q, epoch) ==
  {i \in DOMAIN q : asksForPump(q[i].cmd) /\ q[i].stopEpoch = epoch}

CountAt(q, epoch) == Cardinality(StartsAt(q, epoch))

IsStartAt(entry, epoch) == asksForPump(entry.cmd) /\ entry.stopEpoch = epoch

(* There are finitely many.                                                *)
LEMMA StartsAreFinite ==
  ASSUME NEW q \in Seq(Entries), NEW epoch
  PROVE  IsFiniteSet(StartsAt(q, epoch)) /\ CountAt(q, epoch) \in Nat
<1>1. IsFiniteSet(1 .. Len(q))
  BY FS_Interval
<1>2. StartsAt(q, epoch) \in SUBSET (1 .. Len(q))
  BY DEF StartsAt
<1>3. IsFiniteSet(StartsAt(q, epoch))
  BY <1>1, <1>2, FS_Subset
<1> QED BY <1>3, FS_CardinalityType DEF CountAt

(* No entry of that epoch, no start.                                       *)
LEMMA NoneCounted ==
  ASSUME NEW q, NEW epoch, \A i \in DOMAIN q : q[i].stopEpoch # epoch
  PROVE  CountAt(q, epoch) = 0
<1>1. StartsAt(q, epoch) = {}
  BY DEF StartsAt
<1> QED BY <1>1, FS_EmptySet DEF CountAt

(* An entry more.                                                          *)
LEMMA CountAppended ==
  ASSUME NEW q \in Seq(Entries), NEW e \in Entries, NEW epoch
  PROVE  CountAt(Append(q, e), epoch)
           = CountAt(q, epoch) + IF IsStartAt(e, epoch) THEN 1 ELSE 0
<1> DEFINE n == Len(q) + 1
<1>1. /\ DOMAIN Append(q, e) = DOMAIN q \cup {n} /\ n \notin DOMAIN q
      /\ Append(q, e)[n] = e
      /\ \A i \in DOMAIN q : Append(q, e)[i] = q[i]
  OBVIOUS
<1>2. CASE IsStartAt(e, epoch)
  <2>1. StartsAt(Append(q, e), epoch) = StartsAt(q, epoch) \cup {n}
    BY <1>1, <1>2 DEF StartsAt, IsStartAt
  <2>2. n \notin StartsAt(q, epoch)
    BY <1>1 DEF StartsAt
  <2> QED BY <1>2, <2>1, <2>2, StartsAreFinite, FS_AddElement DEF CountAt
<1>3. CASE ~IsStartAt(e, epoch)
  <2>1. StartsAt(Append(q, e), epoch) = StartsAt(q, epoch)
    BY <1>1, <1>3 DEF StartsAt, IsStartAt
  <2> QED BY <1>3, <2>1, StartsAreFinite DEF CountAt
<1> QED BY <1>2, <1>3

(* The oldest entry less: the others move up by one.                       *)
LEMMA CountShortened ==
  ASSUME NEW q \in Seq(Entries), q # <<>>, NEW epoch
  PROVE  CountAt(q, epoch)
           = CountAt(Tail(q), epoch) + IF IsStartAt(Head(q), epoch) THEN 1 ELSE 0
<1> DEFINE rest == StartsAt(q, epoch) \ {1}
           up == [i \in StartsAt(Tail(q), epoch) |-> i + 1]
<1>1. /\ Tail(q) \in Seq(Entries) /\ Len(q) \in Nat /\ 1 \in DOMAIN q /\ q[1] = Head(q)
      /\ DOMAIN q = 1 .. Len(q) /\ DOMAIN Tail(q) = 1 .. Len(q) - 1
      /\ \A i \in DOMAIN Tail(q) : Tail(q)[i] = q[i + 1]
  OBVIOUS
<1>2. \A i \in StartsAt(Tail(q), epoch) : i \in Nat /\ i + 1 \in rest
  BY <1>1 DEF StartsAt
<1>3. \A j \in rest : j - 1 \in StartsAt(Tail(q), epoch) /\ (j - 1) + 1 = j
  <2> SUFFICES ASSUME NEW j \in rest
               PROVE  j - 1 \in StartsAt(Tail(q), epoch) /\ (j - 1) + 1 = j
    OBVIOUS
  <2>1. j \in 2 .. Len(q) /\ asksForPump(q[j].cmd) /\ q[j].stopEpoch = epoch
    BY <1>1 DEF StartsAt
  <2>2. j - 1 \in 1 .. Len(q) - 1 /\ (j - 1) + 1 = j
    BY <1>1, <2>1
  <2>3. Tail(q)[j - 1] = q[j]
    BY <1>1, <2>2
  <2> QED BY <1>1, <2>1, <2>2, <2>3 DEF StartsAt
<1>4. up \in Bijection(StartsAt(Tail(q), epoch), rest)
  <2>1. up \in Injection(StartsAt(Tail(q), epoch), rest)
    BY <1>2 DEF Injection, IsInjective
  <2>2. up \in Surjection(StartsAt(Tail(q), epoch), rest)
    BY <1>2, <1>3 DEF Surjection
  <2> QED BY <2>1, <2>2 DEF Bijection
<1>5. Cardinality(rest) = CountAt(Tail(q), epoch)
  <2>1. IsFiniteSet(StartsAt(Tail(q), epoch))
    BY <1>1, StartsAreFinite
  <2>2. ExistsBijection(StartsAt(Tail(q), epoch), rest)
    BY <1>4 DEF ExistsBijection
  <2> HIDE DEF rest, up
  <2> QED BY <2>1, <2>2, FS_Bijection DEF CountAt
<1>6. 1 \in StartsAt(q, epoch) <=> IsStartAt(Head(q), epoch)
  BY <1>1 DEF StartsAt, IsStartAt
<1>7. Cardinality(rest)
        = IF 1 \in StartsAt(q, epoch) THEN CountAt(q, epoch) - 1 ELSE CountAt(q, epoch)
  BY StartsAreFinite, FS_RemoveElement DEF CountAt
<1> QED BY <1>1, <1>5, <1>6, <1>7, StartsAreFinite

(* Nothing and one entry.                                                  *)
LEMMA CountSmall ==
  ASSUME NEW e \in Entries, NEW epoch
  PROVE  /\ CountAt(<<>>, epoch) = 0
         /\ CountAt(<<e>>, epoch) = IF IsStartAt(e, epoch) THEN 1 ELSE 0
<1>1. CountAt(<<>>, epoch) = 0
  BY NoneCounted
<1>2. <<>> \in Seq(Entries) /\ <<e>> = Append(<<>>, e)
  OBVIOUS
<1>3. CountAt(Append(<<>>, e), epoch)
        = CountAt(<<>>, epoch) + IF IsStartAt(e, epoch) THEN 1 ELSE 0
  BY <1>2, CountAppended
<1> QED BY <1>1, <1>2, <1>3

(* freshStarts in these terms, before and after a step.                    *)
LEMMA FreshCounted ==
  /\ freshStarts = CountAt(commandQueue, pumpStopEpoch) + CountAt(inHand, pumpStopEpoch)
  /\ freshStarts' = CountAt(commandQueue', pumpStopEpoch') + CountAt(inHand', pumpStopEpoch')
BY DEF freshStarts, CountAt, StartsAt, CanStart

-------------------------------------------------------------------------------
(* What a step may do to the commands in the FIFO and in hand: nothing, or *)
(* let go of the one in hand; take the head of the FIFO; add one; overtake *)
(* them all; lose them all.                                                *)

Keeps ==
  UNCHANGED <<commandQueue, pumpStopEpoch>> /\ item' \in {item, <<>>}

Takes ==
  /\ pc = "cmd" /\ commandQueue # <<>>
  /\ commandQueue' = Tail(commandQueue) /\ UNCHANGED pumpStopEpoch
  /\ \/ UNCHANGED <<relay, item>>
     \/ UNCHANGED relay /\ item' = <<>>
     \/ /\ relay' = "OFF" /\ item' = <<>>
        /\ ~asksForPump(Head(commandQueue).cmd)
     \/ /\ UNCHANGED relay /\ item' = <<Head(commandQueue)>> /\ pc' # "started"
        /\ asksForPump(Head(commandQueue).cmd)

Adds(c) ==
  /\ commandQueue' =
       Append(IF Len(commandQueue) >= COMMAND_QUEUE_SIZE THEN Tail(commandQueue)
                                                         ELSE commandQueue,
              [cmd |-> c, stopEpoch |-> pumpStopEpoch])
  /\ UNCHANGED <<pc, relay, pumpStopEpoch, item>>

Overtakes ==
  /\ relay' = "OFF" /\ pumpStopEpoch' = pumpStopEpoch + 1
  /\ UNCHANGED <<commandQueue, item>>

Loses == relay' = "OFF" /\ commandQueue' = <<>> /\ item' = <<>>

(* What a step does to the commands that wait and to the one in hand:      *)
(* nothing, one taken, one added, all overtaken, all lost.                 *)
LEMMA CommandSteps ==
  ASSUME [Next]_vars
  PROVE  Keeps \/ Takes \/ (\E c \in Inbound : Adds(c)) \/ Overtakes \/ Loses
<1>1. ASSUME NEW c \in Inbound, NEW qos \in Qos, Deliver(c, qos)
      PROVE  Adds(c) \/ Overtakes
  BY <1>1 DEF Deliver, requestUrgentPumpStop, enqueueCommand, Adds, Overtakes, stopVars
<1>2. CASE Send \/ PubAck \/ LinkBreaks \/ ConnectionLost \/ UNCHANGED vars
  BY <1>2 DEF Send, PubAck, LinkBreaks, ConnectionLost, vars, cmdVars, stopVars, Keeps
<1>3. CASE OtaEnd \/ Restart
  BY <1>3 DEF OtaEnd, Restart, Loses
<1>4. CASE ServiceUrgentPumpStop \/ ServicePump
  BY <1>4 DEF ServiceUrgentPumpStop, ServicePump, StopPump, cmdVars, Keeps
<1>5. CASE \/ ServiceWiFi \/ ServiceMQTT \/ FinishMqttLoop \/ ServiceMqttSessionInit
           \/ FinishSessionPub \/ FinishStaleLog
  BY <1>5 DEF ServiceWiFi, ServiceMQTT, FinishMqttLoop, ServiceMqttSessionInit,
     FinishSessionPub, FinishStaleLog, cmdVars, stopVars, Keeps
<1>6. CASE OtaHandle
  BY <1>6 DEF OtaHandle, forcePumpOffForOtaSafety, cmdVars, Keeps, Overtakes
<1>7. CASE PublishOn \/ CancelStart \/ EnergiseRelay \/ RememberRun
  BY <1>7 DEF PublishOn, CancelStart, EnergiseRelay, RememberRun, cmdVars, stopVars, Keeps
<1>8. CASE \/ SenseForReport \/ NotifyDone \/ ServiceTelegramDelivery
           \/ ServiceMoisturePublish \/ PublishMoisture
           \/ ForgetRun \/ FinishStop \/ FinishUrgent \/ ReturnFromCall
  BY <1>8 DEF SenseForReport, NotifyDone, ServiceTelegramDelivery, ServiceMoisturePublish,
     PublishMoisture, ForgetRun, FinishStop, FinishUrgent, ReturnFromCall, cmdVars,
     stopVars, Keeps
<1>9. CASE ProcessCommandQueue
  <2>1. pc = "cmd" /\ UNCHANGED pumpStopEpoch
    BY <1>9 DEF ProcessCommandQueue, stopVars
  <2>2. CASE UNCHANGED cmdVars
    BY <2>1, <2>2 DEF cmdVars, Keeps
  <2>3. CASE commandQueue # <<>> /\ commandQueue' = Tail(commandQueue)
             /\ UNCHANGED <<pumpVars, item>>
    BY <2>1, <2>3 DEF Takes, pumpVars
  <2>4. CASE commandQueue # <<>> /\ commandQueue' = Tail(commandQueue)
             /\ ProcessCommand(Head(commandQueue))
    <3>1. CASE /\ asksForPump(Head(commandQueue).cmd)
               /\ StartPump(Head(commandQueue)) /\ UNCHANGED pumpVars
      <4>1. item' = <<>> \/ (item' = <<Head(commandQueue)>> /\ pc' # "started")
        BY <3>1 DEF StartPump, PublishBestEffort
      <4> QED BY <2>1, <2>4, <3>1, <4>1 DEF Takes, pumpVars
    <3>2. CASE asksForStop(Head(commandQueue).cmd) /\ StopPump("pump3") /\ item' = <<>>
      <4>1. ~asksForPump(Head(commandQueue).cmd)
        BY <3>2 DEF asksForStop, asksForPump
      <4> QED BY <2>1, <2>4, <3>2, <4>1 DEF Takes, StopPump
    <3>3. CASE item' = <<>> /\ UNCHANGED pumpVars
      BY <2>1, <2>4, <3>3 DEF Takes, pumpVars
    <3> QED BY <2>4, <3>1, <3>2, <3>3 DEF ProcessCommand
  <2> QED BY <1>9, <2>2, <2>3, <2>4 DEF ProcessCommandQueue
<1> QED BY <1>1, <1>2, <1>3, <1>4, <1>5, <1>6, <1>7, <1>8, <1>9
        DEF Next, LoopStep, Environment

(* No command is younger than the last stop.                               *)
EpochInv ==
  /\ \A i \in DOMAIN commandQueue : commandQueue[i].stopEpoch <= pumpStopEpoch
  /\ item # <<>> => Head(item).stopEpoch <= pumpStopEpoch

(* Only a start is ever in hand.                                           *)
HandInv == item # <<>> => asksForPump(Head(item).cmd)

ContractInv == IInv /\ FreshItem /\ EpochInv /\ HandInv

(* stopEpoch is stamped from pumpStopEpoch, which only grows.              *)
LEMMA EpochStep ==
  ASSUME IInv, EpochInv, HandInv, [Next]_vars PROVE EpochInv' /\ HandInv'
<1>0. /\ commandQueue \in Seq(Entries) /\ Len(commandQueue) <= COMMAND_QUEUE_SIZE
      /\ pumpStopEpoch \in Nat
      /\ item \in {<<>>} \cup {<<entry>> : entry \in Entries}
  BY QueueAssumption DEF IInv, TypeOK
<1>1. CASE Keeps
  BY <1>1 DEF Keeps, EpochInv, HandInv
<1>2. CASE Takes
  <2>1. \A i \in DOMAIN commandQueue' :
           i + 1 \in DOMAIN commandQueue /\ commandQueue'[i] = commandQueue[i + 1]
    BY <1>0, <1>2 DEF Takes
  <2>2. Head(commandQueue) = commandQueue[1] /\ 1 \in DOMAIN commandQueue
    BY <1>0, <1>2 DEF Takes
  <2>3. \/ item' \in {item, <<>>}
        \/ item' = <<Head(commandQueue)>> /\ asksForPump(Head(commandQueue).cmd)
    BY <1>2 DEF Takes
  <2> QED BY <1>2, <2>1, <2>2, <2>3 DEF Takes, EpochInv, HandInv
<1>3. ASSUME NEW c \in Inbound, Adds(c) PROVE EpochInv' /\ HandInv'
  <2> DEFINE kept == IF Len(commandQueue) >= COMMAND_QUEUE_SIZE THEN Tail(commandQueue)
                                                                ELSE commandQueue
             new == [cmd |-> c, stopEpoch |-> pumpStopEpoch]
  <2>1. kept \in Seq(Entries) /\ \A i \in DOMAIN kept : kept[i].stopEpoch <= pumpStopEpoch
    <3>1. CASE Len(commandQueue) >= COMMAND_QUEUE_SIZE
      <4>1. /\ Tail(commandQueue) \in Seq(Entries)
            /\ \A i \in DOMAIN Tail(commandQueue) :
                 i + 1 \in DOMAIN commandQueue
                   /\ Tail(commandQueue)[i] = commandQueue[i + 1]
        BY <1>0, <3>1, QueueAssumption
      <4> QED BY <3>1, <4>1 DEF EpochInv
    <3>2. CASE ~(Len(commandQueue) >= COMMAND_QUEUE_SIZE)
      BY <1>0, <3>2 DEF EpochInv
    <3> QED BY <3>1, <3>2
  <2>2. commandQueue' = Append(kept, new) /\ new.stopEpoch <= pumpStopEpoch
        /\ pumpStopEpoch' = pumpStopEpoch /\ item' = item
    BY <1>0, <1>3 DEF Adds
  <2> HIDE DEF kept, new
  <2>3. \A i \in DOMAIN Append(kept, new) :
          Append(kept, new)[i] = new \/ (i \in DOMAIN kept /\ Append(kept, new)[i] = kept[i])
    BY <2>1
  <2> QED BY <2>1, <2>2, <2>3 DEF EpochInv, HandInv
<1>4. CASE Overtakes
  <2>1. \A i \in DOMAIN commandQueue : commandQueue[i].stopEpoch \in Int
    <3>1. \A e \in Entries : e.stopEpoch \in Int
      BY QueueAssumption DEF Entries
    <3>2. \A i \in DOMAIN commandQueue : commandQueue[i] \in Entries
      BY <1>0
    <3> QED BY <3>1, <3>2
  <2>2. item # <<>> => Head(item).stopEpoch \in Int
    BY <1>0, QueueAssumption DEF Entries
  <2> QED BY <1>0, <1>4, <2>1, <2>2 DEF Overtakes, EpochInv, HandInv
<1>5. CASE Loses
  BY <1>5 DEF Loses, EpochInv, HandInv
<1> QED BY <1>1, <1>2, <1>3, <1>4, <1>5, CommandSteps

(* The invariant of the refinement.                                        *)
LEMMA ContractInvariance ==
  /\ Init => ContractInv
  /\ NoPadding /\ ContractInv /\ [Next]_vars => ContractInv'
<1>1. Init => EpochInv /\ HandInv /\ FreshItem
  BY DEF Init, EpochInv, HandInv, FreshItem
<1> QED BY <1>1, InitInvariant, StepInvariant, FreshStep, EpochStep DEF ContractInv

-------------------------------------------------------------------------------
(* The types that the refinement speaks of.                                *)
LEMMA HandTypes ==
  ASSUME ContractInv
  PROVE  /\ commandQueue \in Seq(Entries) /\ Len(commandQueue) <= COMMAND_QUEUE_SIZE
         /\ pumpStopEpoch \in Nat /\ pumpStopEpoch \in 0 .. MaxEpoch
         /\ item \in {<<>>} \cup {<<entry>> : entry \in Entries}
         /\ inHand \in {<<>>} \cup {<<entry>> : entry \in Entries}
         /\ inHand \in Seq(Entries)
         /\ CountAt(commandQueue, pumpStopEpoch) \in Nat
         /\ CountAt(inHand, pumpStopEpoch) \in Nat
<1>1. /\ commandQueue \in Seq(Entries) /\ Len(commandQueue) <= COMMAND_QUEUE_SIZE
      /\ pumpStopEpoch \in Nat /\ pumpStopEpoch \in 0 .. MaxEpoch
      /\ item \in {<<>>} \cup {<<entry>> : entry \in Entries}
  BY QueueAssumption DEF ContractInv, IInv, TypeOK
<1>2. inHand \in {<<>>} \cup {<<entry>> : entry \in Entries}
  BY <1>1 DEF inHand
<1>3. inHand \in Seq(Entries)
  <2>1. <<>> \in Seq(Entries) /\ \A e \in Entries : <<e>> \in Seq(Entries)
    OBVIOUS
  <2> QED BY <1>2, <2>1
<1> QED BY <1>1, <1>2, <1>3, StartsAreFinite

(* A step that keeps the FIFO and the command in hand.                     *)
LEMMA SameFresh ==
  ASSUME UNCHANGED <<commandQueue, pumpStopEpoch>>, inHand' = inHand
  PROVE  freshStarts' = freshStarts
BY FreshCounted

(* startPump() lets go of its command.                                     *)
LEMMA HandEmptied ==
  ASSUME ContractInv, UNCHANGED <<relay, commandQueue, pumpStopEpoch>>,
         inHand' = <<>>
  PROVE  [Contract!Next]_(Contract!vars)
<1>1. CountAt(<<>>, pumpStopEpoch) = 0
  BY NoneCounted
<1>2. CASE inHand = <<>>
  BY <1>2, SameFresh DEF Contract!vars
<1>3. CASE inHand # <<>>
  <2>1. PICK e \in Entries : inHand = <<e>>
    BY <1>3, HandTypes
  <2>2. CountAt(inHand, pumpStopEpoch) \in {0, 1}
    BY <2>1, CountSmall
  <2>3. freshStarts' = freshStarts \/ (freshStarts > 0 /\ freshStarts' = freshStarts - 1)
    BY <1>1, <2>2, HandTypes, FreshCounted
  <2> QED BY <2>3 DEF Contract!Next, Contract!Discard, Contract!vars
<1> QED BY <1>2, <1>3

(* processCommandQueue() takes a command.                                  *)
LEMMA TakesRefines ==
  ASSUME ContractInv, Takes
  PROVE  [Contract!Next]_(Contract!vars)
<1> DEFINE first == Head(commandQueue)
           one == IF IsStartAt(first, pumpStopEpoch) THEN 1 ELSE 0
<1>1. /\ item = <<>> /\ inHand = <<>> /\ pumpStopEpoch' = pumpStopEpoch
      /\ commandQueue # <<>> /\ commandQueue' = Tail(commandQueue)
  BY DEF Takes, ContractInv, FreshItem, Starting, inHand
<1>2. first \in Entries /\ Tail(commandQueue) \in Seq(Entries)
  BY <1>1, HandTypes, Dequeued
<1>3. /\ CountAt(commandQueue, pumpStopEpoch) = CountAt(Tail(commandQueue), pumpStopEpoch) + one
      /\ CountAt(Tail(commandQueue), pumpStopEpoch) \in Nat
      /\ CountAt(<<>>, pumpStopEpoch) = 0
      /\ CountAt(<<first>>, pumpStopEpoch) = one
  BY <1>1, <1>2, HandTypes, CountShortened, StartsAreFinite, CountSmall
<1>4. CASE UNCHANGED relay /\ item' = <<>>
  <2>1. inHand' = <<>>
    BY <1>4 DEF inHand
  <2>2. freshStarts = freshStarts' + one /\ freshStarts' \in Nat
    BY <1>1, <1>3, <2>1, FreshCounted
  <2>3. freshStarts' = freshStarts \/ (freshStarts > 0 /\ freshStarts' = freshStarts - 1)
    <3>1. \A n \in Nat : n + 0 = n /\ n + 1 > 0 /\ n = (n + 1) - 1
      OBVIOUS
    <3>2. freshStarts = freshStarts' + 0 \/ freshStarts = freshStarts' + 1
      BY <2>2
    <3> QED BY <2>2, <3>1, <3>2
  <2> QED BY <1>4, <2>3 DEF Contract!Next, Contract!Discard, Contract!vars
<1>5. CASE relay' = "OFF" /\ item' = <<>> /\ ~asksForPump(first.cmd)
  <2>1. inHand' = <<>>
    BY <1>5 DEF inHand
  <2>2. one = 0
    BY <1>5 DEF IsStartAt
  <2>3. freshStarts' = freshStarts
    BY <1>1, <1>3, <2>1, <2>2, FreshCounted
  <2> QED BY <1>5, <2>3 DEF Contract!Next, Contract!TimeUp
<1>6. CASE UNCHANGED relay /\ item' = <<first>> /\ pc' # "started"
  <2>1. inHand' = <<first>>
    BY <1>6 DEF inHand
  <2>2. freshStarts' = freshStarts
    BY <1>1, <1>3, <2>1, FreshCounted
  <2> QED BY <1>6, <2>2 DEF Contract!vars
<1> QED BY <1>1, <1>4, <1>5, <1>6 DEF Takes

(* enqueueCommand(): one start more, one less for a full queue, or both.   *)
LEMMA AddsRefines ==
  ASSUME ContractInv, NEW c \in Inbound, Adds(c)
  PROVE  [Contract!Next]_(Contract!vars)
<1> DEFINE full == Len(commandQueue) >= COMMAND_QUEUE_SIZE
           kept == IF full THEN Tail(commandQueue) ELSE commandQueue
           new == [cmd |-> c, stopEpoch |-> pumpStopEpoch]
<1>1. /\ commandQueue' = Append(kept, new)
      /\ UNCHANGED <<relay, pumpStopEpoch>> /\ inHand' = inHand
  BY DEF Adds, inHand
<1>2. new \in Entries
  BY HandTypes DEF Entries
<1>3. /\ kept \in Seq(Entries)
      /\ \/ CountAt(kept, pumpStopEpoch) = CountAt(commandQueue, pumpStopEpoch)
         \/ CountAt(kept, pumpStopEpoch) + 1 = CountAt(commandQueue, pumpStopEpoch)
  <2>1. CASE full
    <3>1. commandQueue # <<>>
      BY <2>1, HandTypes, QueueAssumption
    <3>2. kept = Tail(commandQueue) /\ Tail(commandQueue) \in Seq(Entries)
      BY <2>1, <3>1, HandTypes, Dequeued
    <3>3. CountAt(commandQueue, pumpStopEpoch)
            = CountAt(Tail(commandQueue), pumpStopEpoch)
              + IF IsStartAt(Head(commandQueue), pumpStopEpoch) THEN 1 ELSE 0
      BY <3>1, HandTypes, CountShortened
    <3>4. CountAt(Tail(commandQueue), pumpStopEpoch) \in Nat
      BY <3>2, StartsAreFinite
    <3> QED BY <3>2, <3>3, <3>4
  <2>2. CASE ~full
    BY <2>2, HandTypes
  <2> QED BY <2>1, <2>2
<1> HIDE DEF kept, new
<1>4. CountAt(commandQueue', pumpStopEpoch)
        \in {CountAt(kept, pumpStopEpoch), CountAt(kept, pumpStopEpoch) + 1}
  <2>1. CountAt(Append(kept, new), pumpStopEpoch)
          = CountAt(kept, pumpStopEpoch)
            + IF IsStartAt(new, pumpStopEpoch) THEN 1 ELSE 0
    BY <1>2, <1>3, CountAppended
  <2>2. CountAt(kept, pumpStopEpoch) \in Nat
    BY <1>3, StartsAreFinite
  <2> QED BY <1>1, <2>1, <2>2
<1>5. CountAt(kept, pumpStopEpoch) \in Nat
  BY <1>3, StartsAreFinite
<1>6. \/ freshStarts' = freshStarts
      \/ freshStarts' = freshStarts + 1
      \/ freshStarts > 0 /\ freshStarts' = freshStarts - 1
  <2>1. freshStarts = CountAt(commandQueue, pumpStopEpoch) + CountAt(inHand, pumpStopEpoch)
        /\ freshStarts' = CountAt(commandQueue', pumpStopEpoch) + CountAt(inHand, pumpStopEpoch)
    BY <1>1, FreshCounted
  <2> QED BY <1>3, <1>4, <1>5, <2>1, HandTypes
<1> QED BY <1>1, <1>6 DEF Contract!Next, Contract!Receive, Contract!Discard, Contract!vars

(* A stop, an OTA event: every start received before it is overtaken.      *)
LEMMA OvertakesRefines ==
  ASSUME ContractInv, Overtakes
  PROVE  [Contract!Next]_(Contract!vars)
<1>1. \A e \in Entries : e.stopEpoch \in Int
  BY QueueAssumption DEF Entries
<1>2. \A i \in DOMAIN commandQueue' : commandQueue'[i].stopEpoch # pumpStopEpoch'
  <2> SUFFICES ASSUME NEW i \in DOMAIN commandQueue
               PROVE  commandQueue[i].stopEpoch # pumpStopEpoch + 1
    BY DEF Overtakes
  <2>1. commandQueue[i].stopEpoch \in Int
    BY <1>1, HandTypes
  <2>2. commandQueue[i].stopEpoch <= pumpStopEpoch
    BY DEF ContractInv, EpochInv
  <2> QED BY <2>1, <2>2, HandTypes
<1>3. \A i \in DOMAIN inHand' : inHand'[i].stopEpoch # pumpStopEpoch'
  <2>1. CASE item = <<>>
    <3>1. inHand' = <<>>
      BY <2>1 DEF Overtakes, inHand
    <3> QED BY <3>1
  <2>2. CASE item # <<>>
    <3>1. PICK e \in Entries : item = <<e>>
      BY <2>2, HandTypes
    <3>2. e.stopEpoch <= pumpStopEpoch /\ e.stopEpoch \in Int
      BY <1>1, <3>1 DEF ContractInv, EpochInv
    <3>3. inHand' \in {<<>>, <<e>>} /\ pumpStopEpoch' = pumpStopEpoch + 1
      BY <3>1 DEF Overtakes, inHand
    <3>4. e.stopEpoch # pumpStopEpoch'
      BY <3>2, <3>3, HandTypes
    <3> QED BY <3>3, <3>4
  <2> QED BY <2>1, <2>2
<1>4. freshStarts' = 0
  BY <1>2, <1>3, NoneCounted, FreshCounted
<1> QED BY <1>4 DEF Overtakes, Contract!Next, Contract!Stop

(* A reset: the commands are gone.                                         *)
LEMMA LosesRefines ==
  ASSUME Loses
  PROVE  [Contract!Next]_(Contract!vars)
<1>1. commandQueue' = <<>> /\ inHand' = <<>>
  BY DEF Loses, inHand
<1>2. freshStarts' = 0
  BY <1>1, NoneCounted, FreshCounted
<1> QED BY <1>2 DEF Loses, Contract!Next, Contract!Stop

(* The relay goes on: with the fresh start in hand, which is thereby spent.*)
LEMMA EnergiseRelayRefines ==
  ASSUME ContractInv, EnergiseRelay
  PROVE  Contract!PowerOn
<1>1. /\ pc = "startStatus" /\ pc' = "started" /\ ~urgentPumpStopPending
      /\ relay' = "ON"
      /\ UNCHANGED <<commandQueue, item, pumpStopEpoch>>
  BY DEF EnergiseRelay, stopVars, cmdVars
<1>2. item # <<>> /\ relay = "OFF"
  BY <1>1 DEF ContractInv, IInv, TypeOK, Core, PlaceInv, RelayFollowsIntent, Starting
<1>3. PICK e \in Entries : item = <<e>>
  BY <1>2, HandTypes
<1>4. IsStartAt(e, pumpStopEpoch)
  BY <1>1, <1>3 DEF ContractInv, FreshItem, HandInv, IsStartAt
<1>5. inHand = <<e>> /\ inHand' = <<>>
  BY <1>1, <1>3 DEF inHand
<1>6. freshStarts > 0 /\ freshStarts' = freshStarts - 1
  <2>1. CountAt(<<e>>, pumpStopEpoch) = 1 /\ CountAt(<<>>, pumpStopEpoch) = 0
    BY <1>4, CountSmall
  <2> QED BY <1>1, <1>5, <2>1, HandTypes, FreshCounted
<1> QED BY <1>1, <1>2, <1>6 DEF Contract!PowerOn

(* Apart from that, the command in hand stays, or startPump() ends.        *)
LEMMA HandSteps ==
  ASSUME ContractInv, [Next]_vars, item' \in {item, <<>>}, ~EnergiseRelay, ~Loses
  PROVE  inHand' = inHand \/ (inHand' = <<>> /\ relay' = relay)
<1>1. CASE item = <<>>
  BY <1>1 DEF inHand
<1>2. CASE item # <<>>
  <2>1. pc \in Starting \cup {"started"}
    BY <1>2 DEF ContractInv, FreshItem
  <2>2. CASE UNCHANGED <<pc, item>>
    BY <2>2 DEF inHand
  <2>3. ASSUME NEW c \in Inbound, NEW qos \in Qos, Deliver(c, qos)
        PROVE  UNCHANGED <<pc, item>>
    BY <2>3 DEF Deliver
  <2>4. CASE Send \/ PubAck \/ LinkBreaks \/ ConnectionLost \/ UNCHANGED vars
    BY <2>2, <2>4 DEF Send, PubAck, LinkBreaks, ConnectionLost, vars, cmdVars
  <2>5. ~(Restart \/ OtaEnd)
    BY DEF OtaEnd, Restart, Loses
  <2>6. CASE PublishOn
    <3>1. UNCHANGED relay /\ pc # "started" /\ pc' # "started"
          /\ item' \in {item, <<>>}
      BY <2>6 DEF PublishOn, PublishBestEffort, pumpVars
    <3> QED BY <3>1 DEF inHand
  <2>7. CASE CancelStart \/ RememberRun
    BY <2>7 DEF CancelStart, RememberRun, pumpVars, inHand
  <2>8. ~(\/ ServiceUrgentPumpStop \/ ServicePump \/ ServiceWiFi \/ OtaHandle
          \/ ServiceMQTT \/ FinishMqttLoop \/ ServiceMqttSessionInit
          \/ FinishSessionPub \/ ProcessCommandQueue \/ FinishStaleLog)
    BY <2>1, ReturnLabels DEF ServiceUrgentPumpStop, ServicePump, ServiceWiFi, OtaHandle,
       ServiceMQTT, FinishMqttLoop, ServiceMqttSessionInit, FinishSessionPub,
       ProcessCommandQueue, FinishStaleLog, Starting
  <2>9. ~(\/ SenseForReport \/ NotifyDone \/ ServiceTelegramDelivery
          \/ ServiceMoisturePublish \/ PublishMoisture
          \/ ForgetRun \/ FinishStop \/ FinishUrgent \/ ReturnFromCall)
    BY <2>1 DEF SenseForReport, NotifyDone, ServiceTelegramDelivery,
       ServiceMoisturePublish, PublishMoisture, ForgetRun, FinishStop, FinishUrgent,
       ReturnFromCall, AfterCall, Starting
  <2> QED BY <2>2, <2>3, <2>4, <2>5, <2>6, <2>7, <2>8, <2>9
             DEF Next, LoopStep, Environment
<1> QED BY <1>1, <1>2

(* Every step of the control core is one of the contract, or changes       *)
(* nothing that it speaks of.                                              *)
LEMMA NextRefines ==
  ASSUME NoPadding, ContractInv, [Next]_vars
  PROVE  [Contract!Next]_(Contract!vars)
<1>1. CASE EnergiseRelay
  BY <1>1, EnergiseRelayRefines DEF Contract!Next
<1>2. CASE Keeps /\ ~EnergiseRelay /\ ~Loses
  <2>1. UNCHANGED <<commandQueue, pumpStopEpoch>> /\ item' \in {item, <<>>}
    BY <1>2 DEF Keeps
  <2>2. relay' = relay \/ relay' = "OFF"
    <3>1. relay \in {"ON", "OFF"} /\ relay' \in {"ON", "OFF"}
      BY StepInvariant DEF ContractInv, IInv, TypeOK
    <3>2. ~(relay = "OFF" /\ relay' = "ON")
      BY <1>2, OnlyEnergiseRelay DEF ContractInv
    <3> QED BY <3>1, <3>2
  <2>3. inHand' = inHand \/ (inHand' = <<>> /\ relay' = relay)
    BY <1>2, <2>1, HandSteps
  <2>4. CASE inHand' = inHand
    <3>1. freshStarts' = freshStarts
      BY <2>1, <2>4, SameFresh
    <3> QED BY <2>2, <3>1 DEF Contract!Next, Contract!TimeUp, Contract!vars
  <2> QED BY <2>1, <2>3, <2>4, HandEmptied
<1> QED BY <1>1, <1>2, CommandSteps, TakesRefines, AddsRefines, OvertakesRefines,
           LosesRefines

(* The firmware keeps the promise of PumpContract, if no command starts    *)
(* with \v or \f: every power-on uses up one start command that no stop    *)
(* has overtaken (main.cpp:224-227), and a stop acts at once.              *)
THEOREM ContractKept == NoPadding /\ Spec => ImplementsContract
<1>1. ASSUME Init PROVE Contract!Init
  <2>1. relay = "OFF" /\ commandQueue = <<>> /\ inHand = <<>>
    BY <1>1 DEF Init, inHand
  <2>2. freshStarts = 0
    BY <2>1, NoneCounted, FreshCounted
  <2> QED BY <2>1, <2>2 DEF Contract!Init
<1>2. ASSUME NoPadding PROVE Spec => ImplementsContract
  <2>1. Init => ContractInv
    BY ContractInvariance
  <2>2. ContractInv /\ [Next]_vars => ContractInv'
    BY <1>2, ContractInvariance
  <2>3. ContractInv /\ [Next]_vars => [Contract!Next]_(Contract!vars)
    BY <1>2, NextRefines
  <2> QED BY <1>1, <2>1, <2>2, <2>3, PTL DEF Spec, ImplementsContract, Contract!Spec
<1> QED BY <1>2

-------------------------------------------------------------------------------
(* The retained status, with the history of PumpStatus.                    *)
Status == {"ON", "OFF"}
Silent(q) == \A i \in DOMAIN q : q[i] \notin Status

(* The status that the broker retains once it has the packets q, if it     *)
(* retains r now.                                                          *)
LastWord(q, r, s) ==
  \/ r = s /\ Silent(q)
  \/ \E i \in DOMAIN q :
       q[i] = s /\ \A j \in DOMAIN q : j > i => q[j] \notin Status

Announced(s) == LastWord(outbox, retained, s)
pumpStatus == IF pumpRunning THEN "ON" ELSE "OFF"

(* A start was cancelled for a stop: its ON may be out, and the service of *)
(* that stop will answer it.                                               *)
StatusOwed ==
  /\ urgentPumpStopPending /\ ~pumpRunning /\ session = "done"
  /\ pc \in {"pump3", "notify", "telegram", "tgPump", "moisture", "moLoop",
             "urgentM", "urgent1"}

(* A stop had refused its OFF, or left it out.                             *)
OffMissing == unsaid /\ ~pumpRunning

StopInProgress == pc \in {"stopping", "stopLog", "stopped"}

(* stopPump() may publish its status when there is a connection.           *)
AllowedInv == StopInProgress => (isConnected => session = "done")

(* Over a live connection that has once said it, the last word on the pump *)
(* is true, but for an OFF refused, and for the steps in which start and   *)
(* stop are half done.                                                     *)
SaidInv ==
  conn = "connected" =>
    /\ pc = "sessionPub" /\ session = "pumpStatus" => Announced("OFF")
    /\ pc = "startStatus" => Announced("ON")
    /\ session \in {"logging", "done"} =>
         \/ Announced(pumpStatus)
         \/ StatusOwed \/ OffMissing
         \/ StopInProgress \/ pc \in {"startStatus", "otaTransfer"}

StatusInv == AllowedInv /\ SaidInv

-------------------------------------------------------------------------------
(* A packet more in the outbox: a status is the last word, another packet  *)
(* is none.                                                                *)
LEMMA WordQueued ==
  ASSUME NEW q \in Seq(Packets), NEW p \in Packets, NEW r
  PROVE  /\ p \in Status => LastWord(Append(q, p), r, p)
         /\ \A s : p \notin Status /\ LastWord(q, r, s) => LastWord(Append(q, p), r, s)
<1> DEFINE n == Len(q) + 1
<1>1. /\ DOMAIN Append(q, p) = DOMAIN q \cup {n} /\ Append(q, p)[n] = p
      /\ \A i \in DOMAIN q : Append(q, p)[i] = q[i] /\ i < n /\ i \in Nat
      /\ n \in Nat
  OBVIOUS
<1>2. p \in Status => LastWord(Append(q, p), r, p)
  BY <1>1 DEF LastWord
<1>3. ASSUME NEW s, p \notin Status, LastWord(q, r, s)
      PROVE  LastWord(Append(q, p), r, s)
  <2>1. CASE r = s /\ Silent(q)
    BY <1>1, <1>3, <2>1 DEF LastWord, Silent
  <2>2. CASE \E i \in DOMAIN q :
               q[i] = s /\ \A j \in DOMAIN q : j > i => q[j] \notin Status
    <3>1. PICK i \in DOMAIN q :
               q[i] = s /\ \A j \in DOMAIN q : j > i => q[j] \notin Status
      BY <2>2
    <3>2. \A j \in DOMAIN Append(q, p) : j > i => Append(q, p)[j] \notin Status
      BY <1>1, <1>3, <3>1
    <3>3. i \in DOMAIN Append(q, p) /\ Append(q, p)[i] = s
      BY <1>1, <3>1
    <3> QED BY <3>2, <3>3 DEF LastWord
  <2> QED BY <1>3, <2>1, <2>2 DEF LastWord
<1> QED BY <1>2, <1>3

(* The oldest packet gets to the broker: the last word is the same.        *)
LEMMA WordSent ==
  ASSUME NEW q \in Seq(Packets), q # <<>>, NEW r, NEW s \in Status, LastWord(q, r, s)
  PROVE  LastWord(Tail(q), IF Head(q) \in Status THEN Head(q) ELSE r, s)
<1>1. /\ 1 \in DOMAIN q /\ q[1] = Head(q)
      /\ \A i \in DOMAIN q : i \in Nat /\ (i = 1 \/ (i - 1 \in DOMAIN Tail(q) /\ i > 1))
      /\ \A i \in DOMAIN Tail(q) :
           i \in Nat /\ i + 1 \in DOMAIN q /\ Tail(q)[i] = q[i + 1] /\ i + 1 > 1
  OBVIOUS
<1>2. CASE r = s /\ Silent(q)
  BY <1>1, <1>2 DEF LastWord, Silent
<1>3. CASE \E i \in DOMAIN q :
             q[i] = s /\ \A j \in DOMAIN q : j > i => q[j] \notin Status
  <2>1. PICK i \in DOMAIN q :
             q[i] = s /\ \A j \in DOMAIN q : j > i => q[j] \notin Status
    BY <1>3
  <2>2. CASE i = 1
    <3>1. Silent(Tail(q))
      BY <1>1, <2>1, <2>2 DEF Silent
    <3> QED BY <1>1, <2>1, <2>2, <3>1 DEF LastWord
  <2>3. CASE i # 1
    <3>1. /\ i - 1 \in DOMAIN Tail(q) /\ Tail(q)[i - 1] = s
          /\ \A j \in DOMAIN Tail(q) : j > i - 1 => Tail(q)[j] \notin Status
      BY <1>1, <2>1, <2>3
    <3> QED BY <3>1 DEF LastWord
  <2> QED BY <2>2, <2>3
<1> QED BY <1>2, <1>3 DEF LastWord

(* Nothing waits, nothing but the last word is retained.                   *)
LEMMA WordRetained ==
  ASSUME NEW q, NEW r, NEW s \in Status, LastWord(q, r, s), Silent(q)
  PROVE  r = s
BY DEF LastWord, Silent

(* The places of these invariants.                                         *)
Halfway == {"stopping", "stopLog", "stopped", "startStatus", "otaTransfer"}
Owing == {"pump3", "notify", "telegram", "tgPump", "moisture", "moLoop",
          "urgentM", "urgent1"}

(* The steps in which a status is half said, and those that owe one, are   *)
(* no steps of a call from elsewhere.                                      *)
LEMMA Places ==
  /\ Owing \cap (Halfway \cup {"sessionPub"}) = {}
  /\ Returns \cap (Halfway \cup {"sessionPub"}) = {}
  BY DEF Owing, Halfway, Returns

(* What is missing stays so until a status is queued.                      *)
LEMMA StaysMissing ==
  ASSUME TypeOK, RememberStatus, unsaid,
         \/ outbox' = outbox \/ outbox' = <<>>
         \/ outbox # <<>> /\ outbox' = Tail(outbox)
         \/ \E p \in Packets \ Status : outbox' = Append(outbox, p)
  PROVE  unsaid'
<1>1. outbox \in Seq(Packets)
  BY DEF TypeOK
<1>2. ~StatusSaid
  <2> SUFFICES ASSUME NEW s \in {"ON", "OFF"}, outbox' = Append(outbox, s) PROVE FALSE
    BY DEF StatusSaid
  <2>1. /\ Len(outbox') = Len(outbox) + 1 /\ Len(outbox) \in Nat
        /\ outbox'[Len(outbox) + 1] = s
    BY <1>1 DEF Packets
  <2>2. outbox # <<>> => Len(Tail(outbox)) = Len(outbox) - 1
    BY <1>1
  <2>3. CASE \E p \in Packets \ Status : outbox' = Append(outbox, p)
    <3>1. PICK p \in Packets \ Status : outbox' = Append(outbox, p)
      BY <2>3
    <3>2. Append(outbox, p)[Len(outbox) + 1] = p
      BY <1>1, <3>1
    <3> QED BY <2>1, <3>1, <3>2 DEF Status
  <2>4. CASE outbox' = outbox \/ outbox' = <<>>
    BY <2>1, <2>4
  <2>5. CASE outbox # <<>> /\ outbox' = Tail(outbox)
    BY <2>1, <2>2, <2>5
  <2> QED BY <2>3, <2>4, <2>5
<1> QED BY <1>2 DEF RememberStatus

(* The OFF of a live session is queued, or goes missing.                   *)
LEMMA SaidOrMissing ==
  ASSUME TypeOK, RememberStatus, pumpStatusAllowed, isConnected, UNCHANGED retained,
         FinishStop \/ (ServiceUrgentPumpStop /\ urgentPumpStopPending /\ ~pumpRunning),
         NEW window, NEW STATE otherwise,
         PublishBestEffort(pumpStatusAllowed, "OFF", window, otherwise)
  PROVE  Announced("OFF")' \/ unsaid'
<1>1. CASE outbox' = Append(outbox, "OFF")
  <2>1. LastWord(Append(outbox, "OFF"), retained, "OFF")
    BY WordQueued DEF TypeOK, Packets, Status
  <2> QED BY <1>1, <2>1 DEF Announced
<1>2. CASE outbox' = outbox /\ (~canQueueBestEffort \/ LibraryRefuses)
  <2>1. StatusDropped
    BY <1>2 DEF StatusDropped
  <2> QED BY <2>1 DEF RememberStatus
<1> QED BY <1>1, <1>2 DEF PublishBestEffort

(* Over no live connection nothing is claimed but the right to publish.    *)
LEMMA Unclaimed ==
  ASSUME AllowedInv', conn' # "connected" PROVE StatusInv'
BY DEF StatusInv, SaidInv

(* A step that leaves status, session and outbox alone, between two places *)
(* outside start and stop.                                                 *)
LEMMA StatusUntouched ==
  ASSUME TypeOK, StatusInv, RememberStatus,
         UNCHANGED <<pumpRunning, conn, session, outbox, retained>>,
         pc \notin Halfway, pc' \notin Halfway \cup {"sessionPub"},
         pc \in Owing /\ urgentPumpStopPending
           => pc' \in Owing /\ urgentPumpStopPending'
  PROVE  StatusInv'
<1>1. AllowedInv'
  BY DEF StatusInv, AllowedInv, StopInProgress, Halfway
<1>2. unsaid => unsaid'
  BY StaysMissing
<1>3. SaidInv'
  BY <1>2 DEF StatusInv, SaidInv, StatusOwed, OffMissing, Announced, pumpStatus,
              StopInProgress, Halfway, Owing
<1> QED BY <1>1, <1>3 DEF StatusInv

(* A connection that closes, with the pump as it is.                       *)
LEMMA StatusClosed ==
  ASSUME ForceDisconnect, pc' \notin Halfway PROVE StatusInv'
<1>1. conn' # "connected"
  BY DEF ForceDisconnect, Disconnected
<1>2. AllowedInv'
  BY DEF AllowedInv, StopInProgress, Halfway
<1> QED BY <1>1, <1>2, Unclaimed

(* Something else is published with the pump off, or is dropped.           *)
LEMMA OtherPublished ==
  ASSUME TypeOK, StatusInv, RememberStatus, ~pumpRunning, NEW STATE allowed, NEW window, NEW STATE otherwise,
         PublishBestEffort(allowed, "app", window, otherwise),
         UNCHANGED <<pumpRunning, conn, session, retained>>,
         pc \notin Halfway \cup Owing, pc' \notin Halfway,
         pc' = "sessionPub" => session # "pumpStatus"
  PROVE  StatusInv'
<1>1. AllowedInv'
  BY DEF AllowedInv, StopInProgress, Halfway
<1>2. (\A s : Announced(s) => Announced(s)') /\ (unsaid => unsaid')
  <2>1. outbox \in Seq(Packets) /\ "app" \in Packets /\ "app" \notin Status
    BY DEF TypeOK, Packets, Status
  <2>2. outbox' = outbox \/ outbox' = Append(outbox, "app")
    BY DEF PublishBestEffort
  <2>3. unsaid => unsaid'
    BY <2>1, <2>2, StaysMissing
  <2> QED BY <2>1, <2>2, <2>3, WordQueued DEF Announced
<1>3. SaidInv'
  BY <1>2 DEF StatusInv, SaidInv, StatusOwed, OffMissing, pumpStatus, StopInProgress,
              Halfway, Owing
<1> QED BY <1>1, <1>3 DEF StatusInv

(* stopPump() of a running pump will be allowed to publish.                *)
LEMMA StatusAfterStop ==
  ASSUME IInv, pumpRunning, NEW STATE returnTo, StopPump(returnTo) PROVE StatusInv'
<1>1. pc' = "stopping" /\ UNCHANGED <<conn, session>>
  BY DEF StopPump, netVars, linkVars
<1>2. isConnected => session = "done"
  BY DEF IInv, Core, PumpHasSession, mqttSessionReady
<1> QED BY <1>1, <1>2 DEF StatusInv, AllowedInv, SaidInv, StopInProgress, isConnected

-------------------------------------------------------------------------------
(* Nothing is connected yet.                                               *)
LEMMA NothingClaimed == Init => StatusInv
BY DEF Init, StatusInv, AllowedInv, SaidInv, StopInProgress

(* serviceUrgentPumpStop() stops a running pump, or says OFF for a start   *)
(* that it overtook, or waits.                                             *)
LEMMA UrgentStatus ==
  ASSUME IInv, StatusInv, RememberStatus, ServiceUrgentPumpStop PROVE StatusInv'
<1>0. TypeOK /\ pc \in {"urgent1", "urgent2", "urgentS", "urgentM"}
      /\ AfterUrgent[pc] \in Returns
  BY ReturnLabels DEF IInv, ServiceUrgentPumpStop
<1>1. CASE urgentPumpStopPending /\ pumpRunning
  BY <1>1, StatusAfterStop DEF ServiceUrgentPumpStop
<1>2. CASE ~urgentPumpStopPending
  <2>1. pc' = AfterUrgent[pc] /\ UNCHANGED <<pumpRunning, conn, session, outbox, retained>>
    BY <1>2 DEF ServiceUrgentPumpStop, linkVars
  <2> QED BY <1>0, <1>2, <2>1, Places, StatusUntouched DEF Halfway
<1>3. CASE urgentPumpStopPending /\ ~pumpRunning
  <2>1. /\ PublishBestEffort(pumpStatusAllowed, "OFF", "urgentStatus", AfterUrgent[pc])
        /\ UNCHANGED <<pumpRunning, conn, session, retained>>
    BY <1>3 DEF ServiceUrgentPumpStop, linkVars
  <2>2. pc' \notin Halfway \cup {"sessionPub"}
    BY <1>0, <2>1, Places DEF PublishBestEffort, Halfway
  <2>3. AllowedInv'
    BY <1>3, <2>1, <2>2 DEF AllowedInv, StopInProgress, Halfway
  <2>4. CASE conn = "connected" /\ session = "done"
    <3>1. Announced("OFF")' \/ unsaid'
      BY <1>0, <1>3, <2>1, <2>4, SaidOrMissing DEF pumpStatusAllowed, isConnected
    <3> QED BY <1>3, <2>1, <2>2, <2>3, <2>4, <3>1
            DEF StatusInv, SaidInv, OffMissing, pumpStatus, Halfway
  <2>5. CASE conn = "connected" /\ session # "done"
    <3>1. outbox' = outbox \/ outbox' = Append(outbox, "OFF")
      BY <2>1 DEF PublishBestEffort
    <3>2. Announced("OFF") => Announced("OFF")'
      <4>1. outbox \in Seq(Packets) /\ "OFF" \in Packets /\ "OFF" \in Status
        BY <1>0 DEF TypeOK, Packets, Status
      <4> QED BY <2>1, <3>1, <4>1, WordQueued DEF Announced
    <3>3. unsaid => unsaid' \/ Announced("OFF")'
      <4>1. LastWord(Append(outbox, "OFF"), retained, "OFF")
        BY <1>0, WordQueued DEF TypeOK, Packets, Status
      <4> QED BY <1>0, <2>1, <3>1, <4>1, StaysMissing DEF Announced
    <3>4. session = "logging" => Announced("OFF") \/ unsaid
      BY <1>0, <1>3, <2>5
         DEF StatusInv, SaidInv, StatusOwed, OffMissing, pumpStatus, StopInProgress
    <3> QED BY <1>3, <2>1, <2>2, <2>3, <2>5, <3>2, <3>3, <3>4
            DEF StatusInv, SaidInv, OffMissing, pumpStatus, Halfway
  <2>6. CASE conn # "connected"
    BY <2>1, <2>3, <2>6, Unclaimed
  <2> QED BY <2>4, <2>5, <2>6
<1> QED BY <1>1, <1>2, <1>3

(* servicePump() stops the pump or leaves it.                              *)
LEMMA ServicePumpStatus ==
  ASSUME IInv, StatusInv, RememberStatus, ServicePump PROVE StatusInv'
<1>1. CASE pumpRunning /\ StopPump(AfterPump[pc])
  BY <1>1, StatusAfterStop
<1>2. CASE /\ pc' = AfterPump[pc]
           /\ UNCHANGED <<ret, pumpVars, pumpStopEpoch, noticeVars, netVars>>
  <2>1. /\ pc \in {"pump1", "pump2", "pump3", "pumpS", "pumpM", "pumpE"}
        /\ AfterPump[pc] \in Returns /\ (pc = "pump3" => pc' = "notify")
        /\ UNCHANGED urgentPumpStopPending
    BY <1>2, ReturnLabels DEF ServicePump, AfterPump
  <2> QED BY <1>2, <2>1, Places, StatusUntouched
          DEF pumpVars, netVars, linkVars, Halfway, Owing, IInv
<1> QED BY <1>1, <1>2 DEF ServicePump

(* The actions that only look at the connection, or close it.              *)
LEMMA LinkStatus ==
  ASSUME IInv, StatusInv, RememberStatus, ServiceWiFi \/ FinishMqttLoop \/ SenseForReport
  PROVE  StatusInv'
<1>1. /\ pc \in {"wifi", "mqttLoop", "sense"}
      /\ pc' \in {"ota", "session", "urgent2", "senseLoop", "urgentS", "pump3"}
      /\ UNCHANGED <<pumpRunning, retained>>
      /\ ForceDisconnect \/ UNCHANGED <<conn, session, outbox>>
  BY DEF ServiceWiFi, FinishMqttLoop, SenseForReport, pumpVars, linkVars, netVars
<1>2. CASE ForceDisconnect
  BY <1>1, <1>2, StatusClosed DEF Halfway
<1>3. CASE UNCHANGED <<conn, session, outbox>>
  BY <1>1, <1>3, StatusUntouched DEF Halfway, Owing, IInv
<1> QED BY <1>1, <1>2, <1>3

(* An error ends the run without a word; from a transfer only a reset leads*)
(* on.                                                                     *)
LEMMA OtaStatus ==
  ASSUME IInv, StatusInv, RememberStatus, OtaHandle PROVE StatusInv'
<1>1. /\ pc = "ota" /\ pc' \in {"mqtt", "otaTransfer"}
      /\ UNCHANGED <<urgentPumpStopPending, conn, session, outbox, retained>>
  BY DEF OtaHandle, netVars, linkVars
<1>2. CASE pc' = "otaTransfer"
  BY <1>1, <1>2 DEF StatusInv, AllowedInv, SaidInv, StopInProgress
<1>3. CASE pc' = "mqtt" /\ UNCHANGED pumpRunning
  BY <1>1, <1>3, StatusUntouched DEF Halfway, Owing, IInv
<1>4. CASE pc' = "mqtt" /\ pumpRunning /\ ~pumpRunning'
  <2>1. StatusForgotten
    BY <1>4 DEF StatusForgotten
  <2>2. unsaid'
    BY <2>1 DEF RememberStatus
  <2> QED BY <1>1, <1>4, <2>2 DEF StatusInv, AllowedInv, SaidInv, StopInProgress, OffMissing
<1>5. UNCHANGED pumpRunning \/ (pumpRunning /\ ~pumpRunning')
  BY DEF OtaHandle, forcePumpOffForOtaSafety, pumpVars, IInv, TypeOK
<1> QED BY <1>1, <1>2, <1>3, <1>4, <1>5

(* A reset: no connection, no pump.                                        *)
LEMMA RestartStatus == ASSUME Restart PROVE StatusInv'
<1>1. pumpRunning' = FALSE /\ pc' = "urgent1" /\ conn' = "disconnected"
  BY DEF Restart, Disconnected
<1> QED BY <1>1 DEF StatusInv, AllowedInv, SaidInv, StopInProgress

(* serviceMQTT(): a new connection starts over with its session.           *)
LEMMA MqttStatus ==
  ASSUME IInv, StatusInv, RememberStatus, ServiceMQTT PROVE StatusInv'
<1>1. /\ pc = "mqtt" /\ pc' \in {"mqttLoop", "urgent2"}
      /\ UNCHANGED <<pumpRunning, tracked, retained>>
  BY DEF ServiceMQTT, pumpVars
<1>2. CASE ForceDisconnect
  BY <1>1, <1>2, StatusClosed DEF Halfway
<1>3. CASE UNCHANGED <<conn, session, outbox>>
  BY <1>1, <1>3, StatusUntouched DEF Halfway, Owing, IInv
<1>4. CASE /\ conn' = "connected" /\ session' = "subscribing" /\ UNCHANGED outbox
  BY <1>1, <1>4 DEF StatusInv, AllowedInv, SaidInv, StopInProgress
<1>5. CASE conn' = "transitioning" /\ UNCHANGED <<session, outbox>>
  <2>1. AllowedInv'
    BY <1>1, <1>5 DEF StatusInv, AllowedInv, StopInProgress
  <2> QED BY <1>5, <2>1, Unclaimed
<1> QED BY <1>2, <1>3, <1>4, <1>5 DEF ServiceMQTT, linkVars

(* The session initialisation says "OFF" before it is through.             *)
LEMMA SessionStatus ==
  ASSUME IInv, StatusInv, RememberStatus, ServiceMqttSessionInit PROVE StatusInv'
<1>0. TypeOK
  BY DEF IInv
<1>1. /\ pc = "session" /\ pc' \in {"urgent2", "sessionPub"}
      /\ UNCHANGED <<pumpRunning, retained, urgentPumpStopPending>>
  BY DEF ServiceMqttSessionInit, PublishBestEffort, pumpVars, stopVars
<1>2. isConnected /\ session # "done" => ~pumpRunning
  BY DEF IInv, Core, PumpHasSession, mqttSessionReady
<1>3. CASE ForceDisconnect /\ pc' = "urgent2"
  BY <1>0, <1>1, <1>3, StatusClosed DEF Halfway
<1>4. CASE UNCHANGED <<conn, session, outbox>> /\ pc' = "urgent2"
  BY <1>0, <1>1, <1>4, StatusUntouched DEF Halfway, Owing
<1>5. CASE /\ session = "subscribing" /\ session' = "pumpStatus" /\ pc' = "urgent2"
           /\ UNCHANGED <<conn, outbox>>
  BY <1>1, <1>5 DEF StatusInv, AllowedInv, SaidInv, StopInProgress
<1>6. CASE /\ session = "logging" /\ session' = "done" /\ pc' = "urgent2"
           /\ UNCHANGED <<conn, outbox>>
  <2>1. unsaid => unsaid'
    BY <1>0, <1>6, StaysMissing
  <2> QED BY <1>1, <1>6, <2>1 DEF StatusInv, AllowedInv, SaidInv, StopInProgress, StatusOwed,
                                  OffMissing, Announced, pumpStatus
<1>7. CASE /\ isConnected /\ session \in {"subscribing", "logging"}
           /\ PublishBestEffort(TRUE, "app", "sessionPub", "urgent2")
           /\ UNCHANGED <<conn, session>>
  BY <1>0, <1>1, <1>2, <1>7, OtherPublished DEF Halfway, Owing
<1>8. CASE /\ isConnected /\ session = "pumpStatus"
           /\ PublishBestEffort(TRUE, IF pumpRunning THEN "ON" ELSE "OFF",
                                "sessionPub", "urgent2")
           /\ UNCHANGED <<conn, session>>
  <2>1. ~pumpRunning
    BY <1>2, <1>8
  <2>2. PublishBestEffort(TRUE, "OFF", "sessionPub", "urgent2")
    BY <1>8, <2>1
  <2>3. pc' = "sessionPub" => Announced("OFF")'
    <3>1. pc' = "sessionPub" => outbox' = Append(outbox, "OFF")
      BY <2>2 DEF PublishBestEffort
    <3>2. LastWord(Append(outbox, "OFF"), retained, "OFF")
      BY <1>0, WordQueued DEF TypeOK, Packets, Status
    <3> QED BY <1>1, <3>1, <3>2 DEF Announced
  <2> QED BY <1>1, <1>8, <2>1, <2>3 DEF StatusInv, AllowedInv, SaidInv, StopInProgress
<1> QED BY <1>3, <1>4, <1>5, <1>6, <1>7, <1>8 DEF ServiceMqttSessionInit, linkVars

(* The OFF of the session initialisation is queued before the session goes *)
(* on to the event log.                                                    *)
LEMMA SessionPubStatus ==
  ASSUME IInv, StatusInv, RememberStatus, FinishSessionPub PROVE StatusInv'
<1>1. /\ pc = "sessionPub" /\ pc' = "urgent2"
      /\ UNCHANGED <<pumpRunning, conn, outbox, retained, tracked>>
      /\ session' = IF session = "pumpStatus" THEN "logging" ELSE session
  BY DEF FinishSessionPub, pumpVars
<1>2. isConnected /\ session # "done" => ~pumpRunning
  BY DEF IInv, Core, PumpHasSession, mqttSessionReady
<1>3. AllowedInv'
  BY <1>1 DEF StatusInv, AllowedInv, StopInProgress
<1>4. unsaid => unsaid'
  BY <1>1, StaysMissing DEF IInv
<1>5. SaidInv'
  BY <1>1, <1>2, <1>4 DEF StatusInv, SaidInv, StopInProgress, StatusOwed, OffMissing,
                          Announced, pumpStatus, isConnected
<1> QED BY <1>3, <1>5 DEF StatusInv

(* A command that does not stop the pump writes with the pump off only.    *)
LEMMA CommandStatus ==
  ASSUME IInv, StatusInv, RememberStatus, ProcessCommandQueue PROVE StatusInv'
<1>0. TypeOK
  BY DEF IInv
<1>1. pc = "cmd" /\ UNCHANGED <<conn, session, retained, urgentPumpStopPending>>
  BY DEF ProcessCommandQueue, linkVars, stopVars
<1>2. CASE UNCHANGED <<pumpVars, outbox>> /\ pc' \in {"pump3", "sense"}
  BY <1>0, <1>1, <1>2, StatusUntouched DEF pumpVars, Halfway, Owing
<1>3. CASE /\ PublishBestEffort(mqttDiagnosticPublishAllowed(pumpRunning),
                                "app", "staleLog", "pump3")
           /\ UNCHANGED pumpVars
  <2>1. CASE pumpRunning
    <3>1. pc' = "pump3" /\ UNCHANGED outbox
      BY <1>3, <2>1 DEF PublishBestEffort, mqttDiagnosticPublishAllowed
    <3> QED BY <1>2, <1>3, <3>1
  <2>2. CASE ~pumpRunning
    <3>1. pc' \in {"staleLog", "pump3"} /\ pumpRunning' = pumpRunning
      BY <1>3 DEF PublishBestEffort, pumpVars
    <3> QED BY <1>0, <1>1, <1>3, <2>2, <3>1, OtherPublished DEF Halfway, Owing
  <2> QED BY <2>1, <2>2
<1>4. CASE ProcessCommand(Head(commandQueue))
  <2>1. CASE ~pumpRunning /\ StartPump(Head(commandQueue)) /\ UNCHANGED pumpVars
    <3>1. CASE pc' = "pump3" /\ UNCHANGED outbox
      BY <1>2, <2>1, <3>1
    <3>2. CASE PublishBestEffort(TRUE, "app", "startNotice", "starting")
      <4>1. pc' \in {"startNotice", "starting"} /\ pumpRunning' = pumpRunning
        BY <2>1, <3>2 DEF PublishBestEffort, pumpVars
      <4> QED BY <1>0, <1>1, <2>1, <3>2, <4>1, OtherPublished DEF Halfway, Owing
    <3> QED BY <2>1, <3>1, <3>2 DEF StartPump
  <2>2. CASE pumpRunning /\ StopPump("pump3")
    BY <2>2, StatusAfterStop
  <2>3. CASE UNCHANGED <<pumpVars, outbox>> /\ pc' \in {"pump3", "sense"}
    BY <1>2, <2>3
  <2> QED BY <1>4, <2>1, <2>2, <2>3 DEF ProcessCommand
<1>5. CASE pc' = "pump3" /\ UNCHANGED <<pumpVars, outbox>>
  BY <1>2, <1>5
<1> QED BY <1>3, <1>4, <1>5 DEF ProcessCommandQueue

(* startPump(): the ON is the last word once it is queued.                 *)
LEMMA PublishOnStatus ==
  ASSUME IInv, StatusInv, RememberStatus, PublishOn PROVE StatusInv'
<1>0. TypeOK
  BY DEF IInv
<1>1. /\ pc \in {"startNotice", "starting"} /\ ~pumpRunning
      /\ UNCHANGED <<pumpRunning, retained, urgentPumpStopPending>>
  BY DEF PublishOn, IInv, Core, PlaceInv, Starting, pumpVars, stopVars
<1>2. CASE ForceDisconnect /\ pc' = "pump3"
  BY <1>0, <1>1, <1>2, StatusClosed DEF Halfway
<1>3. CASE UNCHANGED <<linkVars, outbox>> /\ pc' = "pump3"
  BY <1>0, <1>1, <1>3, StatusUntouched DEF Halfway, Owing, linkVars
<1>4. CASE UNCHANGED linkVars /\ pc' = "startStatus" /\ outbox' = Append(outbox, "ON")
  <2>1. LastWord(Append(outbox, "ON"), retained, "ON")
    BY <1>0, WordQueued DEF TypeOK, Packets, Status
  <2>2. Announced("ON")'
    BY <1>1, <1>4, <2>1 DEF Announced
  <2> QED BY <1>1, <1>4, <2>2 DEF StatusInv, AllowedInv, SaidInv, StopInProgress
<1> QED BY <1>2, <1>3, <1>4 DEF PublishOn, PublishBestEffort

(* A cancelled start closes the connection, or its stop will answer.       *)
LEMMA CancelStatus ==
  ASSUME IInv, StatusInv, RememberStatus, CancelStart PROVE StatusInv'
<1>0. TypeOK
  BY DEF IInv
<1>1. /\ pc = "startStatus" /\ pc' = "pump3" /\ ~pumpRunning
      /\ isConnected => session = "done"
      /\ UNCHANGED <<pumpRunning, retained, urgentPumpStopPending>>
  BY DEF CancelStart, IInv, Core, PlaceInv, Starting, pumpVars, stopVars, mqttSessionReady
<1>2. CASE ForceDisconnect
  BY <1>0, <1>1, <1>2, StatusClosed DEF Halfway
<1>3. CASE queueSize = 0 /\ UNCHANGED <<linkVars, outbox>>
  <2>1. urgentPumpStopPending
    BY <1>3 DEF CancelStart
  <2>2. conn = "connected" => StatusOwed'
    BY <1>1, <1>3, <2>1 DEF StatusOwed, isConnected, linkVars
  <2> QED BY <1>1, <1>3, <2>2 DEF StatusInv, AllowedInv, SaidInv, StopInProgress, linkVars
<1> QED BY <1>2, <1>3 DEF CancelStart

(* The relay goes on after the ON, in an empty outbox.                     *)
LEMMA EnergiseStatus ==
  ASSUME IInv, StatusInv, RememberStatus, EnergiseRelay PROVE StatusInv'
<1>1. /\ pc = "startStatus" /\ pc' = "started" /\ queueSize = 0 /\ pumpRunning' = TRUE
      /\ UNCHANGED <<conn, session, outbox, retained, urgentPumpStopPending>>
  BY DEF EnergiseRelay, netVars, linkVars, stopVars
<1>2. conn = "connected" => Announced(pumpStatus)'
  BY <1>1 DEF StatusInv, SaidInv, Announced, pumpStatus
<1> QED BY <1>1, <1>2 DEF StatusInv, AllowedInv, SaidInv, StopInProgress

(* stopPump() on its way to its status.                                    *)
LEMMA ForgetRunStatus ==
  ASSUME IInv, StatusInv, ForgetRun PROVE StatusInv'
<1>1. /\ pc = "stopping" /\ pc' \in {"stopLog", "stopped"} /\ UNCHANGED <<conn, session>>
  BY DEF ForgetRun, PublishBestEffort, linkVars
<1> QED BY <1>1 DEF StatusInv, AllowedInv, SaidInv, StopInProgress, isConnected

(* The status of stopPump() is the last word, if it is not refused.        *)
LEMMA FinishStopStatus ==
  ASSUME IInv, StatusInv, RememberStatus, FinishStop PROVE StatusInv'
<1>0. TypeOK
  BY DEF IInv
<1>1. /\ StopInProgress /\ ~pumpRunning /\ ret \in Returns
      /\ PublishBestEffort(pumpStatusAllowed, "OFF", "stopStatus", ret)
      /\ UNCHANGED <<pumpRunning, conn, session, retained>>
  BY DEF FinishStop, StopInProgress, IInv, Core, PlaceInv, pumpVars, linkVars
<1>2. pc' \notin Halfway \cup {"sessionPub"}
  BY <1>1, Places DEF PublishBestEffort, Halfway
<1>3. AllowedInv'
  BY <1>1, <1>2 DEF AllowedInv, StopInProgress, Halfway
<1>4. CASE conn = "connected"
  <2>1. isConnected /\ pumpStatusAllowed
    BY <1>1, <1>4 DEF StatusInv, AllowedInv, isConnected, pumpStatusAllowed
  <2>2. Announced("OFF")' \/ unsaid'
    BY <1>0, <1>1, <2>1, SaidOrMissing
  <2> QED BY <1>1, <1>2, <1>3, <2>2
          DEF StatusInv, SaidInv, OffMissing, pumpStatus, Halfway
<1>5. CASE conn # "connected"
  BY <1>1, <1>3, <1>5, Unclaimed
<1> QED BY <1>4, <1>5

(* A moisture report is no status.                                         *)
LEMMA MoistureStatus ==
  ASSUME IInv, StatusInv, RememberStatus, PublishMoisture PROVE StatusInv'
<1>1. /\ pc = "moPublish" /\ UNCHANGED <<pumpRunning, conn, session, retained>>
  BY DEF PublishMoisture, pumpVars, linkVars
<1>2. CASE pc' = "urgent1" /\ UNCHANGED outbox
  BY <1>1, <1>2, StatusUntouched DEF Halfway, Owing, IInv
<1>3. CASE ~pumpRunning /\ PublishBestEffort(TRUE, "app", "moPub", "pumpE")
  <2>1. pc' \in {"moPub", "pumpE"}
    BY <1>3 DEF PublishBestEffort
  <2> QED BY <1>1, <1>3, <2>1, OtherPublished DEF IInv, Halfway, Owing
<1> QED BY <1>2, <1>3 DEF PublishMoisture

(* The steps that say nothing about the pump.                              *)
LEMMA OtherStatus ==
  ASSUME IInv, StatusInv, RememberStatus,
         \/ FinishStaleLog \/ RememberRun \/ NotifyDone \/ ServiceTelegramDelivery
         \/ ServiceMoisturePublish \/ FinishUrgent \/ ReturnFromCall
  PROVE  StatusInv'
<1>1. /\ UNCHANGED <<pumpRunning, conn, session, outbox, retained, urgentPumpStopPending>>
      /\ pc \in {"staleLog", "started", "notify", "telegram", "moisture", "urgentStatus",
                 "stopStatus", "senseLoop", "tgPump", "moLoop", "moPub"}
      /\ \/ pc \notin Owing /\ pc' \in {"pump3", "urgentS", "pumpE", ret}
         \/ pc' \in Owing
  BY DEF FinishStaleLog, RememberRun, NotifyDone, ServiceTelegramDelivery,
     ServiceMoisturePublish, FinishUrgent, ReturnFromCall, AfterCall, pumpVars, stopVars,
     netVars, linkVars, Owing
<1>2. ret \in Returns
  BY DEF IInv, Core, PlaceInv
<1> QED BY <1>1, <1>2, Places, StatusUntouched DEF Halfway, Owing, IInv

(* A delivered command may leave an acknowledgment, which is no status.    *)
LEMMA DeliverStatus ==
  ASSUME IInv, StatusInv, RememberStatus, NEW c \in Inbound, NEW qos \in Qos,
         Deliver(c, qos)
  PROVE  StatusInv'
<1>1. /\ UNCHANGED <<pc, pumpRunning, conn, session, retained>>
      /\ urgentPumpStopPending => urgentPumpStopPending'
      /\ outbox' = outbox \/ outbox' = Append(outbox, "ack")
  BY DEF Deliver, requestUrgentPumpStop, enqueueCommand, linkVars, stopVars
<1>2. (\A s : Announced(s) => Announced(s)') /\ (unsaid => unsaid')
  <2>1. outbox \in Seq(Packets) /\ "ack" \in Packets /\ "ack" \notin Status
    BY DEF IInv, TypeOK, Packets, Status
  <2>2. unsaid => unsaid'
    BY <1>1, <2>1, StaysMissing DEF IInv
  <2> QED BY <1>1, <2>1, <2>2, WordQueued DEF Announced
<1>3. AllowedInv'
  BY <1>1 DEF StatusInv, AllowedInv, StopInProgress, isConnected
<1>4. SaidInv'
  BY <1>1, <1>2 DEF StatusInv, SaidInv, StatusOwed, OffMissing, pumpStatus, StopInProgress
<1> QED BY <1>3, <1>4 DEF StatusInv

(* A packet gets to the broker: the last word is what it was.              *)
LEMMA SendStatus ==
  ASSUME IInv, StatusInv, RememberStatus, Send PROVE StatusInv'
<1>1. /\ UNCHANGED <<pc, pumpRunning, urgentPumpStopPending, conn, session>>
      /\ outbox # <<>> /\ outbox' = Tail(outbox)
      /\ retained' = IF conn = "connected" /\ Head(outbox) \in {"ON", "OFF"}
                     THEN Head(outbox) ELSE retained
  BY DEF Send, linkVars, pumpVars, stopVars
<1>2. outbox \in Seq(Packets)
  BY DEF IInv, TypeOK
<1>3. unsaid => unsaid'
  BY <1>1, StaysMissing DEF IInv
<1>4. conn = "connected" => \A s \in Status : Announced(s) => Announced(s)'
  BY <1>1, <1>2, WordSent DEF Announced, Status
<1>5. AllowedInv'
  BY <1>1 DEF StatusInv, AllowedInv, StopInProgress, isConnected
<1>6. SaidInv'
  <2> SUFFICES ASSUME conn = "connected" PROVE SaidInv'
    BY <1>1 DEF SaidInv
  <2>1. Announced("ON") => Announced("ON")'
    BY <1>4 DEF Status
  <2>2. Announced("OFF") => Announced("OFF")'
    BY <1>4 DEF Status
  <2>3. Announced(pumpStatus) => Announced(pumpStatus)'
    BY <1>1, <2>1, <2>2 DEF pumpStatus, Announced
  <2>4. (StatusOwed => StatusOwed') /\ (OffMissing => OffMissing')
    BY <1>1, <1>3 DEF StatusOwed, OffMissing
  <2> QED BY <1>1, <2>1, <2>2, <2>3, <2>4 DEF StatusInv, SaidInv, StopInProgress
<1> QED BY <1>5, <1>6 DEF StatusInv

(* The broker and the link change no packet that waits.                    *)
LEMMA NetworkStatus ==
  ASSUME StatusInv, PubAck \/ LinkBreaks \/ ConnectionLost \/ UNCHANGED vars,
         unsaid => unsaid'
  PROVE  StatusInv'
<1>1. /\ UNCHANGED <<pc, pumpRunning, urgentPumpStopPending, session, outbox, retained>>
      /\ conn' # "connected" \/ conn' = conn
      /\ isConnected' => isConnected
  BY DEF PubAck, LinkBreaks, ConnectionLost, vars, pumpVars, stopVars, netVars, linkVars,
         isConnected
<1>2. AllowedInv'
  BY <1>1 DEF StatusInv, AllowedInv, StopInProgress
<1>3. SaidInv'
  BY <1>1 DEF StatusInv, SaidInv, StatusOwed, OffMissing, Announced, pumpStatus,
     StopInProgress
<1> QED BY <1>2, <1>3 DEF StatusInv

(* Every step.                                                             *)
LEMMA StatusStep ==
  ASSUME IInv, StatusInv, [StatusNext]_statusVars PROVE StatusInv'
<1>1. CASE LoopStep /\ RememberStatus
  BY <1>1, UrgentStatus, ServicePumpStatus, LinkStatus, OtaStatus, RestartStatus,
     MqttStatus, SessionStatus, SessionPubStatus, CommandStatus, PublishOnStatus,
     CancelStatus, EnergiseStatus, ForgetRunStatus, FinishStopStatus, MoistureStatus,
     OtherStatus DEF LoopStep, OtaEnd
<1>2. CASE Environment /\ RememberStatus
  <2>1. CASE PubAck \/ LinkBreaks \/ ConnectionLost
    <3>1. outbox' = outbox
      BY <2>1 DEF PubAck, LinkBreaks, ConnectionLost
    <3>2. unsaid => unsaid'
      BY <1>2, <3>1, StaysMissing DEF IInv
    <3> QED BY <2>1, <3>2, NetworkStatus
  <2> QED BY <1>2, <2>1, DeliverStatus, SendStatus, RestartStatus DEF Environment
<1>3. CASE UNCHANGED statusVars
  BY <1>3, NetworkStatus DEF statusVars
<1> QED BY <1>1, <1>2, <1>3 DEF StatusNext, Next

(* main.cpp:748-749, stopPump(), serviceUrgentPumpStop(): at the end of    *)
(* every pass with a live session and no status to send, Home Assistant    *)
(* sees a running pump as ON, and a stopped one as OFF unless its OFF was  *)
(* refused or omitted and no status has been sent since.  For every outbox *)
(* and every library: nothing is assumed of either.                        *)
THEOREM StatusIsTrue == StatusSpec => []StatusErrsOnOnly
<1>1. IInv /\ StatusInv => StatusErrsOnOnly
  <2> SUFFICES ASSUME IInv, StatusInv, pc = "telegram", conn = "connected",
                      mqttSessionReady, ~urgentPumpStopPending, Silent(outbox),
                      ~OffMissing
               PROVE  retained = pumpStatus
    BY DEF StatusErrsOnOnly, StatusSettled, Silent, Status, pumpStatus, OffMissing
  <2>1. Announced(pumpStatus)
    BY DEF StatusInv, SaidInv, StatusOwed, StopInProgress, mqttSessionReady
  <2>2. pumpStatus \in Status
    BY DEF pumpStatus, Status
  <2> QED BY <2>1, <2>2, WordRetained DEF Announced
<1>2. StatusInit => IInv /\ StatusInv
  BY InitInvariant, NothingClaimed DEF StatusInit
<1>3. (IInv /\ StatusInv) /\ [StatusNext]_statusVars => (IInv /\ StatusInv)'
  <2> SUFFICES ASSUME IInv, StatusInv, [StatusNext]_statusVars PROVE (IInv /\ StatusInv)'
    OBVIOUS
  <2>1. [Next]_vars
    BY DEF StatusNext, statusVars
  <2> QED BY <2>1, StepInvariant, StatusStep
<1> QED BY <1>1, <1>2, <1>3, PTL DEF StatusSpec

-------------------------------------------------------------------------------
(* A start waits in the FIFO until it will not be refused.                 *)

(* Commands leave the FIFO in processCommandQueue() only, but for a reset: *)
(* an arrival that overwrites the oldest adds one in its place.            *)
LEMMA OnlyQueueTakes ==
  ASSUME TypeOK, [Next]_vars, ~Restart, commandQueue # <<>>,
         commandQueue' = Tail(commandQueue)
  PROVE  ProcessCommandQueue
<1>1. commandQueue' # commandQueue /\ Len(commandQueue') < Len(commandQueue)
  <2>1. commandQueue \in Seq(Entries)
    BY DEF TypeOK
  <2> QED BY <2>1
<1>2. ASSUME NEW c \in Inbound, NEW qos \in Qos, Deliver(c, qos) PROVE FALSE
  <2>1. enqueueCommand(c)
    BY <1>1, <1>2 DEF Deliver, requestUrgentPumpStop
  <2>2. commandQueue \in Seq(Entries) /\ Tail(commandQueue) \in Seq(Entries)
        /\ Len(Tail(commandQueue)) = Len(commandQueue) - 1
        /\ [cmd |-> c, stopEpoch |-> pumpStopEpoch] \in Entries
    BY DEF TypeOK, Entries
  <2>3. Len(commandQueue') >= Len(commandQueue)
    BY <2>1, <2>2 DEF enqueueCommand
  <2>4. Len(commandQueue) \in Nat /\ Len(commandQueue') \in Nat
    BY <2>2
  <2> QED BY <1>1, <2>3, <2>4
<1>3. ~(Send \/ PubAck \/ LinkBreaks \/ ConnectionLost \/ UNCHANGED vars)
  BY <1>1 DEF Send, PubAck, LinkBreaks, ConnectionLost, vars, cmdVars
<1>4. ~(\/ ServiceUrgentPumpStop \/ ServicePump \/ ServiceWiFi \/ OtaHandle
        \/ ServiceMQTT \/ FinishMqttLoop \/ ServiceMqttSessionInit
        \/ FinishSessionPub \/ FinishStaleLog \/ PublishOn \/ CancelStart
        \/ EnergiseRelay \/ RememberRun)
  BY <1>1 DEF ServiceUrgentPumpStop, ServicePump, ServiceWiFi, OtaHandle, ServiceMQTT,
     FinishMqttLoop, ServiceMqttSessionInit, FinishSessionPub, FinishStaleLog, PublishOn,
     CancelStart, EnergiseRelay, RememberRun, cmdVars
<1>5. ~(\/ SenseForReport \/ NotifyDone \/ ServiceTelegramDelivery
        \/ ServiceMoisturePublish \/ PublishMoisture
        \/ ForgetRun \/ FinishStop \/ FinishUrgent \/ ReturnFromCall)
  BY <1>1 DEF SenseForReport, NotifyDone, ServiceTelegramDelivery, ServiceMoisturePublish,
     PublishMoisture, ForgetRun, FinishStop, FinishUrgent, ReturnFromCall, cmdVars
<1> QED BY <1>2, <1>3, <1>4, <1>5 DEF Next, LoopStep, Environment, OtaEnd

(* What processCommandQueue() takes with the pump off, fresh and unpadded, *)
(* startPump() accepts: the deferral has looked at all that it refuses for.*)
LEMMA TakenIsAccepted ==
  ASSUME TypeOK, ProcessCommandQueue, commandQueue # <<>>,
         commandQueue' = Tail(commandQueue), ~pumpRunning, ~urgentPumpStopPending,
         asksForPump(Head(commandQueue).cmd), ~Head(commandQueue).cmd.padded,
         Head(commandQueue).stopEpoch = pumpStopEpoch
  PROVE  item' = <<Head(commandQueue)>>
<1> DEFINE entry == Head(commandQueue)
<1>1. commandQueue' # commandQueue
  <2>1. commandQueue \in Seq(Entries)
    BY DEF TypeOK
  <2> QED BY <2>1
<1>2. isPumpStartCommand(entry.cmd)
  BY DEF asksForPump, isPumpStartCommand
<1>3. ~StartPumpRefused
  <2>1. ~shouldDeferQueuedPumpStartForNetwork(entry)
    BY <1>1 DEF ProcessCommandQueue, cmdVars
  <2>2. queueSize \in Nat
    BY DEF TypeOK, queueSize
  <2> QED BY <1>2, <2>1, <2>2 DEF shouldDeferQueuedPumpStartForNetwork, StartPumpRefused
<1>4. ProcessCommand(entry)
  BY <1>1 DEF ProcessCommandQueue, shouldSuppressQueuedPumpStart, cmdVars
<1>5. ~asksForReport(entry.cmd)
  BY DEF asksForPump, asksForReport
<1>6. StartPump(entry)
  BY <1>4, <1>5 DEF ProcessCommand
<1> QED BY <1>3, <1>6 DEF StartPump

(* main.cpp:2778-2793: a start that is taken from the FIFO with the pump   *)
(* off, and that no STOP has overtaken, is not lost to the network: it is  *)
(* taken only when startPump() accepts it.                                 *)
THEOREM StartsAreNotRefused == Spec => StartsWait
<1> DEFINE Taken == /\ ~Restart
                    /\ commandQueue # <<>> /\ commandQueue' = Tail(commandQueue)
                    /\ LET entry == Head(commandQueue)
                       IN  /\ asksForPump(entry.cmd) /\ ~entry.cmd.padded
                           /\ entry.stopEpoch = pumpStopEpoch
                    /\ ~pumpRunning /\ ~urgentPumpStopPending
                    => item' = <<Head(commandQueue)>>
<1>1. IInv /\ [Next]_vars => [Taken]_vars
  BY OnlyQueueTakes, TakenIsAccepted DEF IInv
<1>2. Spec => [][Taken]_vars
  <2>1. Init => IInv
    BY InitInvariant
  <2>2. IInv /\ [Next]_vars => IInv'
    BY StepInvariant
  <2> QED BY <1>1, <2>1, <2>2, PTL DEF Spec
<1> QED BY <1>2 DEF StartsWait

-------------------------------------------------------------------------------
(* The run of RunContract and the session of SessionContract.              *)

(* stopPump() ends a run, for an urgent stop or not.                       *)
LEMMA StopPumpRefines ==
  ASSUME NEW STATE returnTo, StopPump(returnTo), pumpRunning,
         urgentPumpStopPending' \in {urgentPumpStopPending, FALSE}
  PROVE  [Run!Next]_(Run!vars)
BY DEF StopPump, Run!Next, Run!EndRun

(* Every step of the control core is one of RunContract, or changes        *)
(* nothing that it speaks of.                                              *)
LEMMA NextRefinesRun ==
  ASSUME IInv, [Next]_vars PROVE [Run!Next]_(Run!vars)
<1> USE DEF Run!Next, Run!vars, pumpVars, stopVars, noticeVars
<1>0. TypeOK /\ RelayFollowsIntent /\ PlaceInv
  BY DEF IInv, Core
<1>1. ASSUME NEW c \in Inbound, NEW qos \in Qos, Deliver(c, qos)
      PROVE  [Run!Next]_(Run!vars)
  BY <1>1 DEF Deliver, requestUrgentPumpStop, enqueueCommand, Run!RequestStop
<1>2. CASE ServiceUrgentPumpStop
  <2>1. CASE urgentPumpStopPending /\ pumpRunning
    BY <1>2, <2>1, StopPumpRefines DEF ServiceUrgentPumpStop
  <2>2. CASE ~(urgentPumpStopPending /\ pumpRunning)
    <3>1. /\ UNCHANGED <<pumpRunning, notifyPumpDone>>
          /\ urgentPumpStopPending' = FALSE
          /\ relay' = IF urgentPumpStopPending THEN "OFF" ELSE relay
      BY <1>2, <2>2 DEF ServiceUrgentPumpStop
    <3>2. relay' = relay
      BY <1>0, <3>1 DEF RelayFollowsIntent, TypeOK
    <3> QED BY <1>0, <2>2, <3>1, <3>2 DEF TypeOK, Run!NothingToStop
  <2> QED BY <2>1, <2>2
<1>3. CASE ServicePump
  BY <1>3, StopPumpRefines DEF ServicePump
<1>4. CASE OtaHandle
  BY <1>4 DEF OtaHandle, forcePumpOffForOtaSafety, Run!Abort
<1>5. CASE OtaEnd \/ Restart
  BY <1>5 DEF OtaEnd, Restart, Run!Reset
<1>6. CASE ProcessCommandQueue
  <2>1. UNCHANGED urgentPumpStopPending
    BY <1>6 DEF ProcessCommandQueue
  <2>2. CASE UNCHANGED <<pumpVars, notifyPumpDone>>
    BY <2>1, <2>2
  <2>3. CASE pumpRunning /\ StopPump("pump3")
    BY <2>1, <2>3, StopPumpRefines
  <2> QED BY <1>6, <2>2, <2>3 DEF ProcessCommandQueue, ProcessCommand
<1>7. CASE EnergiseRelay
  <2>1. ~pumpRunning /\ ~urgentPumpStopPending
    BY <1>0, <1>7 DEF EnergiseRelay, PlaceInv, Starting
  <2> QED BY <1>7, <2>1 DEF EnergiseRelay, Run!Start
<1>8. CASE NotifyDone
  BY <1>0, <1>8 DEF NotifyDone, TypeOK, Run!Announce
<1>9. CASE \/ Send \/ PubAck \/ LinkBreaks \/ ConnectionLost \/ UNCHANGED vars
           \/ ServiceWiFi \/ ServiceMQTT \/ FinishMqttLoop \/ ServiceMqttSessionInit
           \/ FinishSessionPub \/ FinishStaleLog
           \/ PublishOn \/ CancelStart \/ RememberRun
  BY <1>9 DEF Send, PubAck, LinkBreaks, ConnectionLost, vars, ServiceWiFi, ServiceMQTT,
     FinishMqttLoop, ServiceMqttSessionInit, FinishSessionPub, FinishStaleLog,
     PublishOn, CancelStart, RememberRun
<1>10. CASE \/ SenseForReport \/ ServiceTelegramDelivery
            \/ ServiceMoisturePublish \/ PublishMoisture
            \/ ForgetRun \/ FinishStop \/ FinishUrgent \/ ReturnFromCall
  BY <1>10 DEF SenseForReport, ServiceTelegramDelivery, ServiceMoisturePublish,
     PublishMoisture, ForgetRun, FinishStop, FinishUrgent, ReturnFromCall
<1> QED BY <1>1, <1>2, <1>3, <1>4, <1>5, <1>6, <1>7, <1>8, <1>9, <1>10
        DEF Next, LoopStep, Environment

(* The runs of the control core are those that PumpTimer times.            *)
THEOREM RunIsKept == Spec => ImplementsRunContract
<1>1. Init => IInv /\ Run!Init
  BY InitInvariant DEF Init, Run!Init
<1>2. IInv /\ [Next]_vars => IInv' /\ [Run!Next]_(Run!vars)
  BY StepInvariant, NextRefinesRun
<1> QED BY <1>1, <1>2, PTL DEF Spec, ImplementsRunContract, Run!Spec

-------------------------------------------------------------------------------
(* A closed connection has no session, a start in progress has one that is *)
(* through, even if the link was lost in it.                               *)
ThroughInv ==
  /\ conn = "disconnected" => session = "idle"
  /\ pc \in Starting => session = "done"

(* The ways of a connection.                                               *)
LinkKept   == UNCHANGED <<conn, session>>
LinkBroken == conn = "connected" /\ conn' = "halfOpen" /\ UNCHANGED session
LinkClosing == conn # "disconnected" /\ conn' = "transitioning" /\ UNCHANGED session
LinkClosed == conn' = "disconnected" /\ session' = "idle"
LinkOpened ==
  /\ conn = "disconnected" /\ ~pumpRunning
  /\ \/ conn' = "connected" /\ session' = "subscribing"
     \/ conn' = "transitioning" /\ UNCHANGED session
PhaseOver ==
  /\ conn # "disconnected"
  /\ \/ session = "subscribing" /\ session' = "pumpStatus"
     \/ session = "pumpStatus" /\ session' = "logging"
     \/ session = "logging" /\ session' = "done"
  /\ UNCHANGED conn

(* Every step goes one of these ways; into startPump() lead only its own   *)
(* steps.                                                                  *)
LEMMA LinkSteps ==
  ASSUME TypeOK, PlaceInv, ThroughInv, [Next]_vars
  PROVE  /\ \/ LinkKept \/ LinkBroken \/ LinkClosing \/ LinkClosed
            \/ LinkOpened /\ pc = "mqtt"
            \/ PhaseOver /\ pc \in {"session", "sessionPub"}
         /\ pc' \in Starting =>
              /\ session' = session
              /\ pc \in Starting \/ mqttSessionReady
<1> USE DEF LinkKept, linkVars, netVars
<1>0. ASSUME ForceDisconnect PROVE LinkClosing \/ LinkClosed
  BY <1>0 DEF ForceDisconnect, Disconnected, LinkClosing, LinkClosed
<1>1. CASE Environment \/ UNCHANGED vars
  <2>1. CASE Restart
    BY <2>1 DEF Restart, Disconnected, LinkClosed, Starting
  <2>2. CASE ~Restart
    <3>1. UNCHANGED <<pc, session>>
      BY <1>1, <2>2 DEF Environment, Deliver, Send, PubAck, LinkBreaks, ConnectionLost, vars
    <3>2. LinkKept \/ LinkBroken \/ LinkClosing
      BY <1>1, <2>2 DEF Environment, Deliver, Send, PubAck, LinkBreaks, ConnectionLost,
         vars, isConnected, LinkBroken, LinkClosing
    <3> QED BY <3>1, <3>2
  <2> QED BY <2>1, <2>2
<1>2. CASE ServiceUrgentPumpStop \/ ServicePump
  <2>1. UNCHANGED <<conn, session>>
    BY <1>2 DEF ServiceUrgentPumpStop, ServicePump, StopPump
  <2>2. pc' \notin Starting
    BY <1>2, ReturnLabels, Labels DEF ServiceUrgentPumpStop, ServicePump, StopPump,
       PublishBestEffort, Starting
  <2> QED BY <2>1, <2>2
<1>3. CASE ServiceWiFi
  BY <1>0, <1>3 DEF ServiceWiFi, Starting
<1>4. CASE OtaHandle \/ FinishMqttLoop
  BY <1>4 DEF OtaHandle, FinishMqttLoop, Starting
<1>5. CASE OtaEnd
  BY <1>5 DEF OtaEnd, Restart, Disconnected, LinkClosed, Starting
<1>6. CASE ServiceMQTT
  <2>1. pc = "mqtt" /\ pc' \notin Starting
    BY <1>6 DEF ServiceMQTT, Starting
  <2>2. \/ LinkKept \/ ForceDisconnect
        \/ LinkOpened
    BY <1>6 DEF ServiceMQTT, LinkOpened, shouldAttemptMqttReconnect
  <2> QED BY <1>0, <2>1, <2>2
<1>7. CASE ServiceMqttSessionInit
  <2>1. pc = "session" /\ pc' \notin Starting
    BY <1>7 DEF ServiceMqttSessionInit, PublishBestEffort, Starting
  <2>2. LinkKept \/ ForceDisconnect \/ PhaseOver
    BY <1>7 DEF ServiceMqttSessionInit, PhaseOver, isConnected
  <2> QED BY <1>0, <2>1, <2>2
<1>8. CASE FinishSessionPub
  <2>1. pc = "sessionPub" /\ pc' \notin Starting /\ UNCHANGED conn
    BY <1>8 DEF FinishSessionPub, Starting
  <2>2. LinkKept \/ PhaseOver
    BY <1>8, <2>1 DEF FinishSessionPub, PhaseOver, ThroughInv
  <2> QED BY <2>1, <2>2
<1>9. CASE ProcessCommandQueue
  <2>1. UNCHANGED <<conn, session>>
    BY <1>9 DEF ProcessCommandQueue
  <2>2. pc' \in Starting => mqttSessionReady
    BY <1>9 DEF ProcessCommandQueue, ProcessCommand, StartPump, StartPumpRefused, StopPump,
       PublishBestEffort, Starting
  <2> QED BY <2>1, <2>2
<1>10. CASE PublishOn
  <2>1. pc \in Starting
    BY <1>10 DEF PublishOn, Starting
  <2>2. (ForceDisconnect /\ pc' = "pump3") \/ UNCHANGED <<conn, session>>
    BY <1>10 DEF PublishOn
  <2> QED BY <1>0, <2>1, <2>2 DEF Starting
<1>11. CASE CancelStart
  BY <1>0, <1>11 DEF CancelStart, Starting
<1>12. CASE SenseForReport
  BY <1>0, <1>12 DEF SenseForReport, Starting
<1>13. CASE \/ FinishStaleLog \/ EnergiseRelay \/ RememberRun \/ NotifyDone
            \/ ServiceTelegramDelivery \/ ServiceMoisturePublish
  BY <1>13 DEF FinishStaleLog, EnergiseRelay, RememberRun, NotifyDone,
     ServiceTelegramDelivery, ServiceMoisturePublish, Starting
<1>14. CASE \/ PublishMoisture \/ ForgetRun \/ FinishStop \/ FinishUrgent
            \/ ReturnFromCall
  <2>1. UNCHANGED <<conn, session>>
    BY <1>14 DEF PublishMoisture, ForgetRun, FinishStop, FinishUrgent, ReturnFromCall
  <2>2. PublishMoisture \/ ForgetRun => pc' \notin Starting
    BY DEF PublishMoisture, ForgetRun, PublishBestEffort, Starting
  <2>3. FinishStop \/ FinishUrgent \/ ReturnFromCall => pc' \notin Starting
    BY Labels DEF FinishStop, FinishUrgent, ReturnFromCall, AfterCall,
       PublishBestEffort, Starting, PlaceInv
  <2> QED BY <1>14, <2>1, <2>2, <2>3
<1> QED BY <1>1, <1>2, <1>3, <1>4, <1>5, <1>6, <1>7, <1>8, <1>9, <1>10, <1>11, <1>12,
           <1>13, <1>14 DEF Next, LoopStep

(* The pump starts at the end of startPump(); it stops with the link as it *)
(* was, or in a reset.                                                     *)
LEMMA PumpSteps ==
  ASSUME TypeOK, PlaceInv, [Next]_vars
  PROVE  \/ UNCHANGED pumpRunning
         \/ LinkKept /\ ~pumpRunning /\ pumpRunning' = TRUE /\ pc = "startStatus"
         \/ LinkKept /\ pumpRunning /\ pumpRunning' = FALSE
         \/ LinkClosed /\ pumpRunning' = FALSE
<1> USE DEF LinkKept, linkVars, netVars, pumpVars
<1>1. CASE Environment \/ OtaEnd \/ UNCHANGED vars
  BY <1>1 DEF Environment, OtaEnd, Deliver, Send, PubAck, LinkBreaks, ConnectionLost,
     Restart, Disconnected, LinkClosed, vars
<1>2. CASE ServiceUrgentPumpStop \/ ServicePump \/ ProcessCommandQueue
  <2>1. UNCHANGED <<conn, session>>
    BY <1>2 DEF ServiceUrgentPumpStop, ServicePump, ProcessCommandQueue, StopPump
  <2>2. UNCHANGED pumpRunning \/ (pumpRunning /\ pumpRunning' = FALSE)
    BY <1>2 DEF ServiceUrgentPumpStop, ServicePump, ProcessCommandQueue, ProcessCommand,
       StopPump
  <2> QED BY <2>1, <2>2
<1>3. CASE OtaHandle
  BY <1>3 DEF OtaHandle, forcePumpOffForOtaSafety, TypeOK
<1>4. CASE EnergiseRelay
  BY <1>4 DEF EnergiseRelay, PlaceInv, Starting
<1>5. CASE \/ ServiceWiFi \/ ServiceMQTT \/ FinishMqttLoop \/ ServiceMqttSessionInit
           \/ FinishSessionPub \/ FinishStaleLog \/ PublishOn \/ CancelStart
           \/ RememberRun
  BY <1>5 DEF ServiceWiFi, ServiceMQTT, FinishMqttLoop, ServiceMqttSessionInit,
     FinishSessionPub, FinishStaleLog, PublishOn, CancelStart, RememberRun
<1>6. CASE \/ SenseForReport \/ NotifyDone \/ ServiceTelegramDelivery
           \/ ServiceMoisturePublish \/ PublishMoisture
           \/ ForgetRun \/ FinishStop \/ FinishUrgent \/ ReturnFromCall
  BY <1>6 DEF SenseForReport, NotifyDone, ServiceTelegramDelivery,
     ServiceMoisturePublish, PublishMoisture, ForgetRun, FinishStop, FinishUrgent,
     ReturnFromCall
<1> QED BY <1>1, <1>2, <1>3, <1>4, <1>5, <1>6 DEF Next, LoopStep

(* A start in progress keeps its session.                                  *)
LEMMA ThroughStep ==
  ASSUME TypeOK, PlaceInv, ThroughInv, [Next]_vars PROVE ThroughInv'
<1>1. pc' \in Starting => session' = "done"
  BY LinkSteps DEF ThroughInv, mqttSessionReady
<1>2. conn' = "disconnected" => session' = "idle"
  BY LinkSteps DEF ThroughInv, LinkKept, LinkBroken, LinkClosing, LinkClosed, LinkOpened,
     PhaseOver
<1> QED BY <1>1, <1>2 DEF ThroughInv

(* Every step of the control core is one of SessionContract, or changes    *)
(* nothing that it speaks of.                                              *)
LEMMA NextRefinesSession ==
  ASSUME TypeOK, PlaceInv, ThroughInv, [Next]_vars
  PROVE  [Session!Next]_(Session!vars)
<1> USE DEF Session!Next, Session!vars
<1>1. CASE UNCHANGED pumpRunning
  <2>1. CASE LinkKept \/ LinkBroken
    BY <1>1, <2>1 DEF LinkKept, LinkBroken
  <2>2. CASE LinkClosing
    BY <1>1, <2>2 DEF LinkClosing, TypeOK, Session!StartToClose
  <2>3. CASE LinkClosed
    BY <1>1, <2>3 DEF LinkClosed, ThroughInv, Session!Close
  <2>4. CASE LinkOpened
    BY <1>1, <2>4 DEF LinkOpened, Session!Connect
  <2>5. CASE PhaseOver
    BY <1>1, <2>5 DEF PhaseOver, Session!Proceed, Session!Following
  <2> QED BY <2>1, <2>2, <2>3, <2>4, <2>5, LinkSteps
<1>2. CASE LinkKept /\ ~pumpRunning /\ pumpRunning' = TRUE /\ pc = "startStatus"
  BY <1>2 DEF LinkKept, ThroughInv, Starting, Session!StartPump
<1>3. CASE LinkKept /\ pumpRunning /\ pumpRunning' = FALSE
  BY <1>3 DEF LinkKept, Session!StopPump
<1>4. CASE LinkClosed /\ pumpRunning' = FALSE
  BY <1>4 DEF LinkClosed, Session!Reset
<1> QED BY <1>1, <1>2, <1>3, <1>4, PumpSteps

(* What the control core takes a session for is what MqttSession does      *)
(* (SessionIsKept of MqttSessionProofs).                                   *)
THEOREM SessionIsKept == Spec => ImplementsSessionContract
<1>1. Init => (IInv /\ ThroughInv) /\ Session!Init
  <2>1. Init => ThroughInv /\ Session!Init
    BY DEF Init, ThroughInv, Starting, Session!Init
  <2> QED BY <2>1, InitInvariant
<1>2. (IInv /\ ThroughInv) /\ [Next]_vars => (IInv /\ ThroughInv)'
  BY StepInvariant, ThroughStep DEF IInv, Core
<1>3. (IInv /\ ThroughInv) /\ [Next]_vars => [Session!Next]_(Session!vars)
  BY NextRefinesSession DEF IInv, Core
<1> QED BY <1>1, <1>2, <1>3, PTL DEF Spec, ImplementsSessionContract, Session!Spec

-------------------------------------------------------------------------------
(* The slot of the tracked publish.  Only what the loop does elsewhere can *)
(* fill it, so the start in hand still finds it as free as the check did.  *)
SlotFreeInStart == pc \in Starting => tracked = "empty"

(* The four ways in which a step treats the slot.                          *)
Stages   == tracked = "empty" /\ tracked' = "staged"
Hands    == ~pumpRunning /\ tracked # "inFlight" /\ tracked' = "inFlight"
Releases == tracked = "inFlight" /\ tracked' = "empty"

LEMMA TgSendStages ==
  ASSUME TgSend PROVE tracked' = tracked \/ Stages
BY DEF TgSend, Stages

(* Whatever touches the slot leaves the pump alone, but for a reset, and   *)
(* nothing fills it on the way to the relay.                               *)
LEMMA SlotSteps ==
  ASSUME TypeOK, PlaceInv, [Next]_vars
  PROVE  /\ \/ tracked' = tracked
            \/ UNCHANGED pumpRunning /\ (Stages \/ Hands \/ Releases)
            \/ tracked' = "empty" /\ pumpRunning' = FALSE
         /\ pc' \in Starting =>
              \/ pc \in Starting /\ (tracked' = tracked \/ tracked' = "empty")
              \/ tracked' = tracked /\ tracked = "empty"
<1> USE DEF netVars, pumpVars
<1>1. CASE Environment \/ OtaEnd \/ UNCHANGED vars
  <2>1. CASE Restart \/ OtaEnd
    BY <2>1 DEF OtaEnd, Restart, Starting
  <2>2. CASE PubAck
    BY <2>2 DEF PubAck, Releases
  <2>3. CASE Environment /\ ~Restart /\ ~PubAck
    <3>1. UNCHANGED <<pc, tracked>>
      BY <2>3 DEF Environment, Deliver, Send, LinkBreaks, ConnectionLost, vars
    <3> QED BY <3>1
  <2>4. CASE UNCHANGED vars
    BY <2>4 DEF vars
  <2> QED BY <1>1, <2>1, <2>2, <2>3, <2>4
<1>2. CASE ServiceUrgentPumpStop \/ ServicePump
  <2>1. \/ tracked' = tracked
        \/ UNCHANGED pumpRunning /\ Stages
    BY <1>2, TgSendStages DEF ServiceUrgentPumpStop, ServicePump, StopPump
  <2>2. pc' \notin Starting
    BY <1>2, ReturnLabels, Labels DEF ServiceUrgentPumpStop, ServicePump, StopPump,
       PublishBestEffort, Starting
  <2> QED BY <2>1, <2>2
<1>3. CASE ProcessCommandQueue
  <2>1. \/ tracked' = tracked
        \/ UNCHANGED pumpRunning /\ Stages
    BY <1>3, TgSendStages DEF ProcessCommandQueue, ProcessCommand, StopPump
  <2>2. pc' \in Starting => tracked' = tracked /\ tracked = "empty"
    BY <1>3 DEF ProcessCommandQueue, ProcessCommand, StartPump, StartPumpRefused,
       trackedPublishBusy, StopPump, PublishBestEffort, Starting
  <2> QED BY <2>1, <2>2
<1>4. CASE PublishOn \/ CancelStart \/ EnergiseRelay
  BY <1>4 DEF PublishOn, CancelStart, EnergiseRelay, Starting
<1>5. CASE ServiceMqttSessionInit
  <2>1. tracked' = tracked \/ (UNCHANGED pumpRunning /\ Stages)
    BY <1>5, TgSendStages DEF ServiceMqttSessionInit
  <2>2. pc' \notin Starting
    BY <1>5 DEF ServiceMqttSessionInit, PublishBestEffort, Starting
  <2> QED BY <2>1, <2>2
<1>6. CASE ServiceTelegramDelivery
  BY <1>6 DEF ServiceTelegramDelivery, telegramMayGo, Stages, Hands, Starting
<1>7. CASE NotifyDone \/ FinishUrgent
  <2>1. tracked' = tracked \/ (UNCHANGED pumpRunning /\ Stages)
    BY <1>7, TgSendStages DEF NotifyDone, FinishUrgent
  <2>2. pc' \notin Starting
    BY <1>7, Labels DEF NotifyDone, FinishUrgent, PlaceInv, Starting
  <2> QED BY <2>1, <2>2
<1>8. CASE SenseForReport
  <2>1. tracked' = tracked \/ (UNCHANGED pumpRunning /\ Stages)
    BY <1>8, TgSendStages DEF SenseForReport
  <2>2. pc' \notin Starting
    BY <1>8 DEF SenseForReport, Starting
  <2> QED BY <2>1, <2>2
<1>9. CASE \/ ServiceWiFi \/ OtaHandle \/ ServiceMQTT \/ FinishMqttLoop
           \/ FinishSessionPub \/ FinishStaleLog \/ RememberRun
  BY <1>9 DEF ServiceWiFi, OtaHandle, ServiceMQTT, FinishMqttLoop,
     FinishSessionPub, FinishStaleLog, RememberRun, Starting
<1>10. CASE \/ ServiceMoisturePublish \/ PublishMoisture \/ ForgetRun \/ FinishStop
            \/ ReturnFromCall
  <2>1. tracked' = tracked
    BY <1>10 DEF ServiceMoisturePublish, PublishMoisture, ForgetRun, FinishStop,
       ReturnFromCall
  <2>2. ServiceMoisturePublish \/ PublishMoisture \/ ForgetRun => pc' \notin Starting
    BY DEF ServiceMoisturePublish, PublishMoisture, ForgetRun, PublishBestEffort, Starting
  <2>3. FinishStop \/ ReturnFromCall => pc' \notin Starting
    BY Labels DEF FinishStop, ReturnFromCall, AfterCall, PublishBestEffort, Starting,
       PlaceInv
  <2> QED BY <1>10, <2>1, <2>2, <2>3
<1> QED BY <1>1, <1>2, <1>3, <1>4, <1>5, <1>6, <1>7, <1>8, <1>9, <1>10 DEF Next, LoopStep

(* Every step of the control core is one of SlotContract, or changes       *)
(* nothing that it speaks of.                                              *)
LEMMA NextRefinesSlot ==
  ASSUME TypeOK, PlaceInv, SlotFreeInStart, [Next]_vars
  PROVE  [Slot!Next]_(Slot!vars)
<1> USE DEF Slot!Next, Slot!vars
<1>1. CASE tracked' = tracked
  <2>1. CASE UNCHANGED pumpRunning
    BY <1>1, <2>1
  <2>2. CASE ~pumpRunning /\ pumpRunning' = TRUE /\ pc = "startStatus"
    BY <1>1, <2>2 DEF SlotFreeInStart, Starting, Slot!StartPump
  <2>3. CASE pumpRunning /\ pumpRunning' = FALSE
    BY <1>1, <2>3 DEF Slot!StopPump
  <2>4. pumpRunning \in BOOLEAN
    BY DEF TypeOK
  <2> QED BY <2>1, <2>2, <2>3, <2>4, PumpSteps
<1>2. CASE UNCHANGED pumpRunning /\ (Stages \/ Hands \/ Releases)
  BY <1>2 DEF Stages, Hands, Releases, Slot!Stage, Slot!Hand, Slot!Acknowledge
<1>3. CASE tracked' = "empty" /\ pumpRunning' = FALSE
  BY <1>3 DEF Slot!Reset
<1> QED BY <1>1, <1>2, <1>3, SlotSteps

(* What the control core takes the slot for is what TelegramDelivery makes *)
(* of it (SlotIsKept of TelegramDeliveryProofs): its pump starts with the  *)
(* slot free, though startPump() looks at it two calls earlier.            *)
THEOREM SlotIsKept == Spec => ImplementsSlotContract
<1>1. Init => (IInv /\ SlotFreeInStart) /\ Slot!Init
  <2>1. Init => SlotFreeInStart /\ Slot!Init
    BY DEF Init, SlotFreeInStart, Starting, Slot!Init
  <2> QED BY <2>1, InitInvariant
<1>2. (IInv /\ SlotFreeInStart) /\ [Next]_vars => (IInv /\ SlotFreeInStart)'
  BY StepInvariant, SlotSteps DEF IInv, Core, SlotFreeInStart
<1>3. (IInv /\ SlotFreeInStart) /\ [Next]_vars => [Slot!Next]_(Slot!vars)
  BY NextRefinesSlot DEF IInv, Core
<1> QED BY <1>1, <1>2, <1>3, PTL DEF Spec, ImplementsSlotContract, Slot!Spec

(* The three of them: the views fit together.                              *)
THEOREM SharedContractsAreKept == Spec => ImplementsSharedContracts
BY RunIsKept, SessionIsKept, SlotIsKept, PTL DEF ImplementsSharedContracts

-------------------------------------------------------------------------------
(* An accepted stop is reconciled, if the loop task goes on.  How many     *)
(* steps are at most ahead of the next serviceUrgentPumpStop().            *)
Ahead(l) ==
  CASE l \in {"urgent1", "urgent2", "urgentS", "urgentM"}         -> 0
    [] l \in {"moLoop", "senseLoop", "sessionPub", "otaTransfer"}  -> 1
    [] l \in {"moisture", "session"}                               -> 2
    [] l \in {"tgPump", "mqttLoop"}                                -> 3
    [] l \in {"pumpE", "telegram", "mqtt"}                         -> 4
    [] l \in {"moPub", "notify", "ota"}                            -> 5
    [] l \in {"moPublish", "wifi"}                                 -> 6
    [] l = "pump3"                                                 -> 9
    [] l \in {"pumpM", "pump1", "started", "staleLog", "sense"}    -> 10
    [] l = "startStatus"                                           -> 11
    [] l \in {"startNotice", "starting"}                           -> 12
    [] l = "cmd"                                                   -> 13
    [] l = "pumpS"                                                 -> 14
    [] l = "pump2"                                                 -> 17

toService ==
  CASE pc = "stopping"                        -> Ahead(ret) + 3
    [] pc \in {"stopLog", "stopped"}          -> Ahead(ret) + 2
    [] pc \in {"stopStatus", "urgentStatus"}  -> Ahead(ret) + 1
    [] OTHER                                  -> Ahead(pc)

Reconciled == ~urgentPumpStopPending /\ ~pumpRunning

Near(k) == urgentPumpStopPending /\ toService <= k

(* The way of the loop, but for stopPump() and serviceUrgentPumpStop().    *)
Onward(from, to) ==
  \/ from = "pump1"       /\ to = "wifi"
  \/ from = "wifi"        /\ to = "ota"
  \/ from = "ota"         /\ to \in {"mqtt", "otaTransfer"}
  \/ from = "mqtt"        /\ to \in {"mqttLoop", "urgent2"}
  \/ from = "mqttLoop"    /\ to \in {"session", "urgent2"}
  \/ from = "session"     /\ to \in {"sessionPub", "urgent2"}
  \/ from = "sessionPub"  /\ to = "urgent2"
  \/ from = "pump2"       /\ to = "cmd"
  \/ from = "cmd"         /\ to \in {"staleLog", "startNotice", "starting", "sense", "pump3"}
  \/ from = "staleLog"    /\ to = "pump3"
  \/ from = "startNotice" /\ to \in {"startStatus", "pump3"}
  \/ from = "starting"    /\ to \in {"startStatus", "pump3"}
  \/ from = "startStatus" /\ to \in {"started", "pump3"}
  \/ from = "started"     /\ to = "pump3"
  \/ from = "sense"       /\ to \in {"senseLoop", "urgentS", "pump3"}
  \/ from = "senseLoop"   /\ to = "urgentS"
  \/ from = "pumpS"       /\ to = "sense"
  \/ from = "pump3"       /\ to = "notify"
  \/ from = "notify"      /\ to = "telegram"
  \/ from = "telegram"    /\ to \in {"tgPump", "moisture"}
  \/ from = "tgPump"      /\ to = "moisture"
  \/ from = "moisture"    /\ to \in {"moLoop", "urgent1"}
  \/ from = "moLoop"      /\ to = "urgentM"
  \/ from = "pumpM"       /\ to = "moPublish"
  \/ from = "moPublish"   /\ to \in {"moPub", "pumpE", "urgent1"}
  \/ from = "moPub"       /\ to = "pumpE"
  \/ from = "pumpE"       /\ to = "urgent1"

InStop == {"stopping", "stopLog", "stopped", "stopStatus", "urgentStatus"}

(* It leads closer to the service point.                                   *)
LEMMA WayLeadsOn ==
  ASSUME NEW from, NEW to, Onward(from, to)
  PROVE  {from, to} \cap InStop = {} /\ Ahead(to) \in Int /\ Ahead(to) < Ahead(from)
BY DEF Onward, InStop, Ahead

(* stopPump() returns to the way.                                          *)
LEMMA ReturnsAhead ==
  \A l \in Returns : l \notin InStop /\ Ahead(l) \in 0 .. 17
BY DEF Returns, InStop, Ahead

(* No place is further away than that.                                     *)
LEMMA ServiceIsNear ==
  ASSUME IInv PROVE toService \in 0 .. 20
<1>1. /\ ret \in Returns /\ pc \in Plain \cup Windows
  BY DEF IInv, Core, PlaceInv, TypeOK
<1>2. Ahead(ret) \in 0 .. 17
  BY <1>1, ReturnsAhead
<1>3. pc \notin InStop => Ahead(pc) \in 0 .. 17
  BY <1>1 DEF Plain, Windows, Ahead, InStop
<1> QED BY <1>2, <1>3 DEF toService, InStop

LEMMA ServiceStaysNear ==
  ASSUME IInv' PROVE toService' \in 0 .. 20
<1>1. ret' \in Returns /\ pc' \in Plain \cup Windows
  BY DEF IInv, Core, PlaceInv, TypeOK
<1>2. Ahead(ret') \in 0 .. 17
  BY <1>1, ReturnsAhead
<1>3. pc' \notin InStop => Ahead(pc') \in 0 .. 17
  BY <1>1 DEF Plain, Windows, Ahead, InStop
<1> QED BY <1>2, <1>3 DEF toService, InStop

(* stopPump() is no more than four steps longer than to go straight on.   *)
LEMMA StopAhead ==
  ASSUME NEW STATE returnTo, StopPump(returnTo), Ahead(returnTo) \in Int
  PROVE  toService' = Ahead(returnTo) + 3
BY DEF StopPump, toService, Ahead

(* What the others do takes the loop no further, but for a reset, which    *)
(* leaves no stop to reconcile.                                            *)
LEMMA NotDelayed ==
  ASSUME urgentPumpStopPending, Environment \/ UNCHANGED vars
  PROVE  Reconciled' \/ (urgentPumpStopPending' /\ toService' = toService)
<1>1. CASE Restart
  BY <1>1 DEF Restart, Reconciled
<1>2. CASE ~Restart
  <2>1. UNCHANGED <<pc, ret>> /\ urgentPumpStopPending'
    BY <1>2 DEF Environment, Deliver, requestUrgentPumpStop, enqueueCommand, Send, PubAck,
       LinkBreaks, ConnectionLost, stopVars, vars
  <2> QED BY <2>1 DEF toService
<1> QED BY <1>1, <1>2

(* Every step of the loop comes closer to the service point; there it      *)
(* reconciles.                                                             *)
LEMMA Closer ==
  ASSUME IInv, urgentPumpStopPending, LoopStep
  PROVE  Reconciled' \/ (urgentPumpStopPending' /\ toService' < toService)
<1> DEFINE GoesOn == Onward(pc, pc') /\ urgentPumpStopPending'
<1> USE DEF stopVars
<1>0. ret \in Returns
  BY DEF IInv, Core, PlaceInv
<1>1. CASE GoesOn
  BY <1>1, WayLeadsOn DEF toService, InStop
<1>2. CASE ServiceUrgentPumpStop
  BY <1>2 DEF ServiceUrgentPumpStop, StopPump, Reconciled
<1>3. CASE ServicePump
  <2>1. pc \in DOMAIN AfterPump /\ urgentPumpStopPending'
    BY <1>3 DEF ServicePump
  <2>2. CASE StopPump(AfterPump[pc])
    <3>1. Ahead(AfterPump[pc]) + 3 < toService
      BY <2>1 DEF AfterPump, Ahead, toService
    <3>2. Ahead(AfterPump[pc]) \in Int
      BY <2>1 DEF AfterPump, Ahead
    <3> QED BY <2>1, <2>2, <3>1, <3>2, StopAhead
  <2>3. CASE pc' = AfterPump[pc]
    <3>1. GoesOn
      BY <2>1, <2>3 DEF AfterPump, Onward
    <3> QED BY <1>1, <3>1
  <2> QED BY <1>3, <2>2, <2>3 DEF ServicePump
<1>4. CASE OtaEnd
  BY <1>4 DEF OtaEnd, Restart, Reconciled
<1>5. CASE ServiceWiFi \/ OtaHandle \/ ServiceMQTT \/ FinishMqttLoop
  <2>1. CASE ServiceWiFi \/ OtaHandle
    BY <1>1, <2>1 DEF ServiceWiFi, OtaHandle, Onward
  <2>2. CASE ServiceMQTT \/ FinishMqttLoop
    BY <1>1, <2>2 DEF ServiceMQTT, FinishMqttLoop, Onward
  <2> QED BY <1>5, <2>1, <2>2
<1>6. CASE ServiceMqttSessionInit \/ FinishSessionPub
  <2>1. GoesOn
    BY <1>6 DEF ServiceMqttSessionInit, PublishBestEffort, FinishSessionPub, Onward
  <2> QED BY <1>1, <2>1
<1>7. CASE ProcessCommandQueue
  <2>1. pc = "cmd" /\ urgentPumpStopPending'
    BY <1>7 DEF ProcessCommandQueue
  <2>2. CASE StopPump("pump3")
    <3>1. toService' = Ahead("pump3") + 3
      BY <2>2, StopAhead DEF Ahead
    <3>2. Ahead("pump3") + 3 < toService
      BY <2>1 DEF toService, Ahead
    <3> QED BY <2>1, <3>1, <3>2
  <2>3. CASE pc' \in {"pump3", "staleLog", "sense", "startNotice", "starting"}
    <3>1. GoesOn
      BY <2>1, <2>3 DEF Onward
    <3> QED BY <1>1, <3>1
  <2> QED BY <1>7, <2>2, <2>3
          DEF ProcessCommandQueue, ProcessCommand, StartPump, PublishBestEffort
<1>8. CASE FinishStaleLog \/ PublishOn \/ CancelStart \/ EnergiseRelay \/ RememberRun
  <2>1. GoesOn
    BY <1>8 DEF FinishStaleLog, PublishOn, PublishBestEffort, CancelStart, EnergiseRelay,
       RememberRun, Onward
  <2> QED BY <1>1, <2>1
<1>9. CASE \/ SenseForReport \/ NotifyDone \/ ServiceTelegramDelivery
           \/ ServiceMoisturePublish \/ PublishMoisture
  <2>1. GoesOn
    BY <1>9 DEF SenseForReport, NotifyDone, ServiceTelegramDelivery,
       ServiceMoisturePublish, PublishMoisture, PublishBestEffort, Onward
  <2> QED BY <1>1, <2>1
<1>10. CASE ForgetRun
  <2>1. /\ pc = "stopping" /\ pc' \in {"stopLog", "stopped"}
        /\ UNCHANGED <<ret, urgentPumpStopPending>>
    BY <1>10 DEF ForgetRun, PublishBestEffort
  <2>2. toService = Ahead(ret) + 3 /\ Ahead(ret) \in Int
    BY <1>0, <2>1, ReturnsAhead DEF toService
  <2>3. toService' = Ahead(ret) + 2
    BY <2>1, <2>2 DEF toService
  <2> QED BY <2>1, <2>2, <2>3
<1>11. CASE FinishStop
  <2>1. /\ pc \in {"stopLog", "stopped"} /\ pc' \in {"stopStatus", ret}
        /\ UNCHANGED <<ret, urgentPumpStopPending>>
    BY <1>11 DEF FinishStop, PublishBestEffort
  <2>2. toService = Ahead(ret) + 2 /\ Ahead(ret) \in Int /\ ret \notin InStop
    BY <1>0, <2>1, ReturnsAhead DEF toService
  <2>3. toService' = Ahead(ret) + 1 \/ toService' = Ahead(ret)
    BY <2>1, <2>2 DEF toService, InStop
  <2> QED BY <2>1, <2>2, <2>3
<1>12. CASE FinishUrgent \/ ReturnFromCall
  <2>1. UNCHANGED <<ret, urgentPumpStopPending>>
    BY <1>12 DEF FinishUrgent, ReturnFromCall
  <2>2. CASE pc \in {"stopStatus", "urgentStatus"} /\ pc' = ret
    <3>1. toService = Ahead(ret) + 1 /\ Ahead(ret) \in Int /\ ret \notin InStop
      BY <1>0, <2>2, ReturnsAhead DEF toService
    <3>2. toService' = Ahead(ret)
      BY <2>1, <2>2, <3>1 DEF toService, InStop
    <3> QED BY <2>1, <3>1, <3>2
  <2>3. CASE pc \in DOMAIN AfterCall \ {"stopStatus"} /\ pc' = AfterCall[pc]
    <3>1. GoesOn
      BY <2>1, <2>3 DEF AfterCall, Onward
    <3> QED BY <1>1, <3>1
  <2>4. CASE FinishUrgent
    BY <2>2, <2>4 DEF FinishUrgent
  <2>5. CASE ReturnFromCall /\ pc = "stopStatus"
    <3>1. pc' = ret
      BY <2>5 DEF ReturnFromCall, AfterCall
    <3> QED BY <2>2, <2>5, <3>1
  <2>6. CASE ReturnFromCall /\ pc # "stopStatus"
    BY <2>3, <2>6 DEF ReturnFromCall
  <2> QED BY <1>12, <2>4, <2>5, <2>6
<1> HIDE DEF GoesOn
<1> QED BY <1>2, <1>3, <1>4, <1>5, <1>6, <1>7, <1>8, <1>9, <1>10, <1>11, <1>12
        DEF LoopStep

(* So at a distance of k steps, a step of the loop leads to k - 1.         *)
Nearer(k) == Reconciled \/ Near(k)

LEMMA Approach ==
  ASSUME NEW k \in 0 .. 19, IInv, Near(k + 1), [Next]_vars
  PROVE  Nearer(k + 1)' /\ (<<LoopStep>>_vars => Nearer(k)')
<1>1. toService \in Int /\ toService' \in Int
  <2>1. IInv'
    BY StepInvariant
  <2> QED BY <2>1, ServiceIsNear, ServiceStaysNear
<1>2. CASE LoopStep
  BY <1>1, <1>2, Closer DEF Near, Nearer
<1>3. CASE ~LoopStep
  BY <1>1, <1>3, NotDelayed DEF Near, Nearer, Next
<1> QED BY <1>2, <1>3

(* At the service point itself, it reconciles.                             *)
LEMMA Arrival ==
  ASSUME IInv, Near(0), [Next]_vars
  PROVE  Nearer(0)' /\ (<<LoopStep>>_vars => Reconciled')
<1>1. toService \in 0 .. 20 /\ toService' \in 0 .. 20
  <2>1. IInv'
    BY StepInvariant
  <2> QED BY <2>1, ServiceIsNear, ServiceStaysNear
<1>2. CASE LoopStep
  BY <1>1, <1>2, Closer DEF Near, Nearer
<1>3. CASE ~LoopStep
  BY <1>1, <1>3, NotDelayed DEF Near, Nearer, Next
<1> QED BY <1>2, <1>3

(* main.cpp, serviceUrgentPumpStop(): an accepted STOP is reconciled, the  *)
(* whole session closed.  All it takes is that the loop task goes on; no   *)
(* answer of the network, the broker or the library is needed.             *)
THEOREM StopIsReconciled == Spec /\ LoopGoesOn => StopReconciled
<1>1. Init => IInv
  BY InitInvariant
<1>2. IInv /\ [Next]_vars => IInv'
  BY StepInvariant
<1>3. IInv /\ urgentPumpStopPending => Near(20)
  BY ServiceIsNear DEF Near
<1>4. IInv /\ Near(0) /\ [Next]_vars => Nearer(0)' /\ (<<LoopStep>>_vars => Reconciled')
  BY Arrival
<1>5. IInv /\ Near(1) /\ [Next]_vars => Nearer(1)' /\ (<<LoopStep>>_vars => Nearer(0)')
  BY Approach, 0 \in 0 .. 19, 0 + 1 = 1
<1>6. IInv /\ Near(2) /\ [Next]_vars => Nearer(2)' /\ (<<LoopStep>>_vars => Nearer(1)')
  BY Approach, 1 \in 0 .. 19, 1 + 1 = 2
<1>7. IInv /\ Near(3) /\ [Next]_vars => Nearer(3)' /\ (<<LoopStep>>_vars => Nearer(2)')
  BY Approach, 2 \in 0 .. 19, 2 + 1 = 3
<1>8. IInv /\ Near(4) /\ [Next]_vars => Nearer(4)' /\ (<<LoopStep>>_vars => Nearer(3)')
  BY Approach, 3 \in 0 .. 19, 3 + 1 = 4
<1>9. IInv /\ Near(5) /\ [Next]_vars => Nearer(5)' /\ (<<LoopStep>>_vars => Nearer(4)')
  BY Approach, 4 \in 0 .. 19, 4 + 1 = 5
<1>10. IInv /\ Near(6) /\ [Next]_vars => Nearer(6)' /\ (<<LoopStep>>_vars => Nearer(5)')
  BY Approach, 5 \in 0 .. 19, 5 + 1 = 6
<1>11. IInv /\ Near(7) /\ [Next]_vars => Nearer(7)' /\ (<<LoopStep>>_vars => Nearer(6)')
  BY Approach, 6 \in 0 .. 19, 6 + 1 = 7
<1>12. IInv /\ Near(8) /\ [Next]_vars => Nearer(8)' /\ (<<LoopStep>>_vars => Nearer(7)')
  BY Approach, 7 \in 0 .. 19, 7 + 1 = 8
<1>13. IInv /\ Near(9) /\ [Next]_vars => Nearer(9)' /\ (<<LoopStep>>_vars => Nearer(8)')
  BY Approach, 8 \in 0 .. 19, 8 + 1 = 9
<1>14. IInv /\ Near(10) /\ [Next]_vars => Nearer(10)' /\ (<<LoopStep>>_vars => Nearer(9)')
  BY Approach, 9 \in 0 .. 19, 9 + 1 = 10
<1>15. IInv /\ Near(11) /\ [Next]_vars => Nearer(11)' /\ (<<LoopStep>>_vars => Nearer(10)')
  BY Approach, 10 \in 0 .. 19, 10 + 1 = 11
<1>16. IInv /\ Near(12) /\ [Next]_vars => Nearer(12)' /\ (<<LoopStep>>_vars => Nearer(11)')
  BY Approach, 11 \in 0 .. 19, 11 + 1 = 12
<1>17. IInv /\ Near(13) /\ [Next]_vars => Nearer(13)' /\ (<<LoopStep>>_vars => Nearer(12)')
  BY Approach, 12 \in 0 .. 19, 12 + 1 = 13
<1>18. IInv /\ Near(14) /\ [Next]_vars => Nearer(14)' /\ (<<LoopStep>>_vars => Nearer(13)')
  BY Approach, 13 \in 0 .. 19, 13 + 1 = 14
<1>19. IInv /\ Near(15) /\ [Next]_vars => Nearer(15)' /\ (<<LoopStep>>_vars => Nearer(14)')
  BY Approach, 14 \in 0 .. 19, 14 + 1 = 15
<1>20. IInv /\ Near(16) /\ [Next]_vars => Nearer(16)' /\ (<<LoopStep>>_vars => Nearer(15)')
  BY Approach, 15 \in 0 .. 19, 15 + 1 = 16
<1>21. IInv /\ Near(17) /\ [Next]_vars => Nearer(17)' /\ (<<LoopStep>>_vars => Nearer(16)')
  BY Approach, 16 \in 0 .. 19, 16 + 1 = 17
<1>22. IInv /\ Near(18) /\ [Next]_vars => Nearer(18)' /\ (<<LoopStep>>_vars => Nearer(17)')
  BY Approach, 17 \in 0 .. 19, 17 + 1 = 18
<1>23. IInv /\ Near(19) /\ [Next]_vars => Nearer(19)' /\ (<<LoopStep>>_vars => Nearer(18)')
  BY Approach, 18 \in 0 .. 19, 18 + 1 = 19
<1>24. IInv /\ Near(20) /\ [Next]_vars => Nearer(20)' /\ (<<LoopStep>>_vars => Nearer(19)')
  BY Approach, 19 \in 0 .. 19, 19 + 1 = 20
<1> QED BY <1>1, <1>2, <1>3, <1>4, <1>5, <1>6, <1>7, <1>8, <1>9, <1>10, <1>11, <1>12,
           <1>13, <1>14, <1>15, <1>16, <1>17, <1>18, <1>19, <1>20, <1>21, <1>22, <1>23,
           <1>24, PTL DEF Spec, LoopGoesOn, StopReconciled, Reconciled, Nearer
===============================================================================
