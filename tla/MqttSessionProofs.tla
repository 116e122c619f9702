-------------------------- MODULE MqttSessionProofs ---------------------------
(***************************************************************************)
(* The SUBACK gate of MqttSession for every value of the constants: any    *)
(* counter width, budgets, set of packet ids and answers of the broker.    *)
(***************************************************************************)
EXTENDS MqttSession, TLAPS

-------------------------------------------------------------------------------
(* The inductive invariant.                                                *)

(* The slot is taken from the call that subscribes to the accepted answer. *)
SlotTaken == session \in Awaiting \/ (pc = "call" /\ session \in Subscribing)

PumpPart == {"SubscribePump", "AwaitPumpSuback"}
CmdPart  == {"SubscribeCmd", "AwaitCmdSuback"}

CurrentTopic == IF session \in PumpPart THEN "T_PUMP_CMD" ELSE "T_CMD"

SlotInv ==
  /\ tracker.state # "idle" <=> SlotTaken
  /\ SlotTaken => [topic |-> CurrentTopic, packetId |-> tracker.packetId] \in asked

(* A call belongs to a step of the initialisation that publishes.          *)
CallInv ==
  /\ pc = "call" => session \notin Awaiting \cup {"Idle", "Done"}
  /\ pc = "call" /\ session = "DiscoverySensors" => sensorIndex < SENSOR_COUNT
  /\ conn = "disconnected" => session = "Idle" /\ pc \notin {"call", "service"}

(* An id tells which SUBSCRIBE of this connection an answer is for.        *)
AskedInv == \A a, b \in asked : a.packetId = b.packetId => a = b

Granted(topic) ==
  verdict[topic] = "acceptedQos1" /\ \E a \in asked : a.topic = topic

GateInv ==
  /\ tracker.state = "accepted" => verdict[CurrentTopic] = "acceptedQos1"
  /\ session \in CmdPart \cup AfterGate => Granted("T_PUMP_CMD")
  /\ session \in AfterGate => Granted("T_CMD")

(* The clock was looked at once in the last pass, so that millis() cannot  *)
(* have lapped the budget.                                                 *)
SinceLook == sincePass + IF pc \in {"loop", "service"} THEN PassMs + 1 ELSE 0

ClockInv ==
  tracker.state = "awaitingAck" =>
    LET elapsed == elapsedMs(millis, tracker.startedAt)
    IN  elapsed <= SubackBudgetMs + SinceLook /\ age = AtMost(elapsed, SubackBudgetMs)

IInv == TypeOK /\ SlotInv /\ CallInv /\ AskedInv /\ GateInv /\ ClockInv

-------------------------------------------------------------------------------
(* Time.                                                                   *)

(* Unsigned subtraction stays in the range of the counter.                 *)
LEMMA ElapsedRange ==
  ASSUME NEW t \in UInt32, NEW start \in UInt32
  PROVE  /\ elapsedMs(t, start) \in UInt32
         /\ elapsedMs(t, t) = 0
         /\ NextMillis(t) \in UInt32
         /\ elapsedMs(t, start) + 1 < Millis =>
              elapsedMs(NextMillis(t), start) = elapsedMs(t, start) + 1
  BY MillisAssumption DEF elapsedMs, UInt32, NextMillis

(* The budgets are numbers.                                                *)
LEMMA Budgets ==
  /\ SubackBudgetMs \in Nat /\ SubackBudgetMs > 0
  /\ PassMs \in Nat /\ Millis \in Nat /\ Millis > 0
  /\ SubackBudgetMs + 3 * PassMs + 2 < Millis
  BY BudgetAssumption, MillisAssumption

-------------------------------------------------------------------------------
(* The building blocks of the actions.                                     *)

(* A closed connection knows nothing of the last one.                      *)
LEMMA DisconnectedKeeps ==
  ASSUME IInv, Disconnected,
         pc' \in {"loop", "rest"}, now' \in UInt32,
         pumpRunning' \in BOOLEAN, wifiMissed' \in BOOLEAN,
         millis' \in UInt32, sincePass' \in 0 .. PassMs, age' \in 0 .. SubackBudgetMs
  PROVE  IInv'
<1>1. 0 \in UInt32
  BY Budgets DEF UInt32
<1>2. TypeOK'
  BY <1>1, SessionAssumption
  DEF IInv, TypeOK, Disconnected, idleTracker, States, Windows
<1>3. SlotInv' /\ CallInv' /\ AskedInv' /\ GateInv' /\ ClockInv'
  BY DEF Disconnected, idleTracker, SlotInv, SlotTaken, CallInv, AskedInv, GateInv,
         ClockInv, Awaiting, Subscribing, CmdPart, AfterGate
<1> QED BY <1>2, <1>3 DEF IInv

(* A step that leaves the session, its slot and its clock alone: within a  *)
(* place of the loop, or between two places with the same look behind.     *)
LEMMA SessionLeftAlone ==
  ASSUME IInv, UNCHANGED <<stepVars, tracker, brokerVars, timeVars, age>>,
         now' \in UInt32, pumpRunning' \in BOOLEAN, wifiMissed' \in BOOLEAN,
         \/ pc' = pc
         \/ pc \in {"session", "rest"} /\ pc' \in {"session", "rest"}
         \/ pc = "loop" /\ pc' = "service" /\ conn' # "disconnected",
         conn' \in {"disconnected", "transitioning", "connected"},
         conn' = "disconnected" => conn = "disconnected"
  PROVE  IInv'
<1> USE DEF stepVars, brokerVars, timeVars
<1>1. TypeOK'
  BY DEF IInv, TypeOK, Windows
<1>2. SlotInv' /\ CallInv' /\ AskedInv' /\ GateInv'
  BY DEF IInv, SlotInv, SlotTaken, CurrentTopic, CallInv, AskedInv, GateInv, Granted
<1>3. ClockInv'
  BY DEF IInv, ClockInv, SinceLook
<1> QED BY <1>1, <1>2, <1>3 DEF IInv

(* forceDisconnect() in a step of the session or in the rest of loop().    *)
LEMMA ForceDisconnectKeeps ==
  ASSUME IInv, ForceDisconnect, UNCHANGED <<timeVars, age, pumpRunning, wifiMissed, now>>,
         pc \in {"session", "rest"}, pc' = "rest"
  PROVE  IInv'
<1>1. CASE Disconnected
  BY <1>1, DisconnectedKeeps DEF IInv, TypeOK, timeVars
<1>2. CASE conn' = "transitioning" /\ UNCHANGED <<stepVars, tracker, brokerVars>>
  BY <1>2, SessionLeftAlone DEF IInv, TypeOK
<1> QED BY <1>1, <1>2 DEF ForceDisconnect

(* The latch turns an awaited answer into a refused one, nothing else.     *)
LEMMA Latched ==
  ASSUME TypeOK
  PROVE  LET t == latchTrackedSubscriptionTimeout(tracker)
         IN  /\ t \in [state : {"idle", "awaitingAck", "accepted", "rejected"},
                       packetId : PacketId \cup {0}, startedAt : UInt32]
             /\ t.packetId = tracker.packetId /\ t.startedAt = tracker.startedAt
             /\ t.state = "idle" <=> tracker.state = "idle"
             /\ t.state = "accepted" <=> tracker.state = "accepted"
             /\ t.state = "awaitingAck" =>
                  /\ t = tracker
                  /\ elapsedMs(millis, tracker.startedAt) < SubackBudgetMs
<1>1. elapsedMs(millis, tracker.startedAt) \in Int
  BY ElapsedRange DEF TypeOK, UInt32
<1> QED BY <1>1, Budgets DEF TypeOK, latchTrackedSubscriptionTimeout, hasElapsed

(* service() looks at the clock, wherever it is called.                    *)
LEMMA LatchKeeps ==
  ASSUME IInv, UNCHANGED <<stepVars, brokerVars, timeVars, age, pumpRunning, now>>,
         tracker' = latchTrackedSubscriptionTimeout(tracker),
         wifiMissed' \in BOOLEAN,
         pc \in {"loop", "service", "rest"}, pc' \in {"session", "rest"},
         conn' \in {"transitioning", "connected"}
  PROVE  IInv'
<1> USE DEF stepVars, brokerVars, timeVars
<1>0. TypeOK
  BY DEF IInv
<1>1. TypeOK'
  BY <1>0, Latched DEF TypeOK, Windows
<1>2. SlotInv' /\ CallInv' /\ AskedInv' /\ GateInv'
  BY <1>0, Latched
  DEF IInv, SlotInv, SlotTaken, CurrentTopic, CallInv, AskedInv, GateInv, Granted
<1>3. ClockInv'
  <2>1. CASE tracker'.state # "awaitingAck"
    BY <2>1 DEF ClockInv
  <2>2. CASE tracker'.state = "awaitingAck"
    <3>1. /\ tracker' = tracker /\ tracker.state = "awaitingAck"
          /\ elapsedMs(millis, tracker.startedAt) < SubackBudgetMs
      BY <1>0, <2>2, Latched
    <3>2. elapsedMs(millis, tracker.startedAt) \in UInt32
      BY <1>0, ElapsedRange DEF TypeOK
    <3>3. elapsedMs(millis, tracker.startedAt) <= SubackBudgetMs + sincePass
      BY <1>0, <3>1, <3>2, Budgets DEF TypeOK, UInt32
    <3>4. SinceLook' = sincePass
      BY <1>0, Budgets DEF TypeOK, SinceLook
    <3>5. age = AtMost(elapsedMs(millis, tracker.startedAt), SubackBudgetMs)
      BY <3>1 DEF IInv, ClockInv
    <3> QED BY <3>1, <3>3, <3>4, <3>5 DEF ClockInv
  <2> QED BY <2>1, <2>2
<1> QED BY <1>1, <1>2, <1>3 DEF IInv

(* One unit of time passes in a place of the loop, or a pass ends.         *)
LEMMA PassTimeKeeps ==
  ASSUME IInv, PassTime, UNCHANGED <<linkVars, now, pumpRunning, wifiMissed>>,
         \/ pc' = pc /\ sincePass < PassMs /\ sincePass' = sincePass + 1
         \/ pc = "rest" /\ pc' = "loop" /\ sincePass' = 0
  PROVE  IInv'
<1> USE DEF linkVars, stepVars, brokerVars
<1>0. TypeOK
  BY DEF IInv
<1>1. millis' \in UInt32 /\ age' \in 0 .. SubackBudgetMs /\ sincePass' \in 0 .. PassMs
  BY <1>0, ElapsedRange, Budgets DEF TypeOK, PassTime, AtMost
<1>2. TypeOK'
  BY <1>0, <1>1 DEF TypeOK, Windows
<1>3. SlotInv' /\ CallInv' /\ AskedInv' /\ GateInv'
  BY DEF IInv, SlotInv, SlotTaken, CurrentTopic, CallInv, AskedInv, GateInv, Granted
<1>4. ClockInv'
  <2> DEFINE e == elapsedMs(millis, tracker.startedAt)
  <2> SUFFICES ASSUME tracker.state = "awaitingAck"
               PROVE  /\ elapsedMs(millis', tracker.startedAt) <= SubackBudgetMs + SinceLook'
                      /\ age' = AtMost(elapsedMs(millis', tracker.startedAt), SubackBudgetMs)
    BY DEF ClockInv
  <2>1. e \in Nat /\ e <= SubackBudgetMs + SinceLook /\ age = AtMost(e, SubackBudgetMs)
    BY <1>0, ElapsedRange DEF IInv, ClockInv, TypeOK, UInt32
  <2>2. sincePass \in 0 .. PassMs
    BY <1>0 DEF TypeOK
  <2>3. SinceLook \in Nat /\ SinceLook <= 2 * PassMs + 1
    BY <2>2, Budgets DEF SinceLook
  <2>4. e + 1 < Millis
    BY <2>1, <2>3, Budgets
  <2>5. elapsedMs(millis', tracker.startedAt) = e + 1
    BY <1>0, <2>4, ElapsedRange DEF TypeOK, PassTime
  <2>6. SinceLook' >= SinceLook + 1 /\ SinceLook' \in Nat
    BY <2>2, Budgets DEF SinceLook
  <2>7. e + 1 <= SubackBudgetMs + SinceLook'
    BY <2>1, <2>3, <2>6, Budgets
  <2>8. age' = AtMost(e + 1, SubackBudgetMs)
    BY <2>1, Budgets DEF PassTime, AtMost
  <2> QED BY <2>5, <2>7, <2>8
<1> QED BY <1>2, <1>3, <1>4 DEF IInv

-------------------------------------------------------------------------------
(* The invariant holds initially and every action keeps it.                *)

(* Nothing is known and nothing asked.                                     *)
LEMMA InitInvariant == Init => IInv
<1> SUFFICES ASSUME Init PROVE IInv
  OBVIOUS
<1>1. 0 \in UInt32
  BY Budgets DEF UInt32
<1>2. TypeOK
  <2>1. /\ sincePass \in 0 .. PassMs /\ age \in 0 .. SubackBudgetMs
        /\ sensorIndex \in 0 .. SENSOR_COUNT
    BY SessionAssumption, Budgets DEF Init
  <2> QED BY <1>1, <2>1 DEF Init, TypeOK, idleTracker, States, Windows
<1>3. SlotInv /\ CallInv /\ AskedInv /\ GateInv /\ ClockInv
  BY DEF Init, idleTracker, SlotInv, SlotTaken, CallInv, AskedInv, GateInv,
         ClockInv, Awaiting, Subscribing, CmdPart, AfterGate
<1> QED BY <1>2, <1>3 DEF IInv

(* A reset forgets everything.                                             *)
LEMMA RestartKeeps == ASSUME IInv, Restart PROVE IInv'
<1>1. 0 \in UInt32 /\ 0 \in 0 .. PassMs /\ 0 \in 0 .. SubackBudgetMs
  BY Budgets DEF UInt32
<1> QED BY <1>1, DisconnectedKeeps DEF Restart

(* An answer resolves the slot only if it is for the SUBSCRIBE in the slot *)
(* and in time.                                                            *)
LEMMA SubscribeAckKeeps ==
  ASSUME IInv, SubscribeAck
  PROVE  /\ IInv'
         /\ tracker'.state = "accepted" /\ tracker.state # "accepted" =>
              tracker.state = "awaitingAck" /\ age < SubackBudgetMs
<1> USE DEF stepVars, brokerVars, otherVars, timeVars
<1> DEFINE t == latchTrackedSubscriptionTimeout(tracker)
<1>0. TypeOK
  BY DEF IInv
<1>1. PICK ack \in asked : tracker' = resolved(t, ack.packetId, verdict[ack.topic])
  BY DEF SubscribeAck, handleSubscribeAck
<1>2. UNCHANGED <<pc, conn, stepVars, now, brokerVars, otherVars>>
  BY DEF SubscribeAck
<1>3. /\ t \in [state : {"idle", "awaitingAck", "accepted", "rejected"},
                packetId : PacketId \cup {0}, startedAt : UInt32]
      /\ t.packetId = tracker.packetId /\ t.startedAt = tracker.startedAt
      /\ t.state = "idle" <=> tracker.state = "idle"
      /\ t.state = "accepted" <=> tracker.state = "accepted"
      /\ t.state = "awaitingAck" =>
           /\ t = tracker
           /\ elapsedMs(millis, tracker.startedAt) < SubackBudgetMs
  BY <1>0, Latched
<1> HIDE DEF t
<1>4. /\ tracker' \in [state : {"idle", "awaitingAck", "accepted", "rejected"},
                       packetId : PacketId \cup {0}, startedAt : UInt32]
      /\ tracker'.packetId = tracker.packetId
      /\ tracker'.startedAt = tracker.startedAt
      /\ tracker'.state = "idle" <=> tracker.state = "idle"
      /\ tracker'.state = "awaitingAck" => tracker' = tracker
      /\ tracker'.state = "accepted" /\ tracker.state # "accepted" =>
           /\ tracker.state = "awaitingAck"
           /\ ack.packetId = tracker.packetId
           /\ verdict[ack.topic] = "acceptedQos1"
           /\ elapsedMs(millis, tracker.startedAt) < SubackBudgetMs
  BY <1>1, <1>3 DEF resolved
<1>5. TypeOK'
  BY <1>0, <1>2, <1>4 DEF TypeOK
<1>6. SlotInv' /\ CallInv' /\ AskedInv'
  BY <1>2, <1>4 DEF IInv, SlotInv, SlotTaken, CurrentTopic, CallInv, AskedInv
<1>7. GateInv'
  <2>1. tracker'.state = "accepted" /\ tracker.state # "accepted"
          => verdict[CurrentTopic] = "acceptedQos1"
    <3> SUFFICES ASSUME tracker'.state = "accepted", tracker.state # "accepted"
                 PROVE  verdict[CurrentTopic] = "acceptedQos1"
      OBVIOUS
    <3>1. [topic |-> CurrentTopic, packetId |-> tracker.packetId] \in asked
      BY <1>4 DEF IInv, SlotInv
    <3>2. ack = [topic |-> CurrentTopic, packetId |-> tracker.packetId]
      BY <1>4, <3>1 DEF IInv, AskedInv
    <3> QED BY <1>4, <3>2
  <2> QED BY <1>2, <2>1 DEF IInv, GateInv, Granted, CurrentTopic
<1>8. ClockInv'
  BY <1>2, <1>4 DEF IInv, ClockInv, SinceLook
<1>9. tracker'.state = "accepted" /\ tracker.state # "accepted" =>
        tracker.state = "awaitingAck" /\ age < SubackBudgetMs
  <2>1. elapsedMs(millis, tracker.startedAt) \in UInt32
    BY <1>0, ElapsedRange DEF TypeOK
  <2> QED BY <1>4, <2>1, Budgets DEF IInv, ClockInv, AtMost, UInt32
<1> QED BY <1>5, <1>6, <1>7, <1>8, <1>9 DEF IInv

(* The client notices a loss; the session is as it was.                    *)
LEMMA ConnectionLostKeeps == ASSUME IInv, ConnectionLost PROVE IInv'
  BY SessionLeftAlone DEF ConnectionLost, IInv, TypeOK, otherVars, timeVars

(* The connection is serviced, closed, opened or left alone.               *)
LEMMA ServiceMQTTKeeps == ASSUME IInv, ServiceMQTT PROVE IInv'
<1> USE DEF otherVars, timeVars
<1>0. /\ TypeOK /\ pc = "loop"
      /\ UNCHANGED <<now, otherVars>>
  BY DEF IInv, ServiceMQTT
<1>1. CASE pc' = "service" /\ conn = "connected" /\ UNCHANGED linkVars
  BY <1>0, <1>1, SessionLeftAlone DEF linkVars, TypeOK
<1>2. CASE pc' = "rest" /\ Disconnected
  BY <1>0, <1>2, DisconnectedKeeps DEF TypeOK
<1>3. CASE /\ pc' = "rest" /\ conn' = "transitioning"
           /\ tracker' = latchTrackedSubscriptionTimeout(tracker)
           /\ UNCHANGED <<stepVars, brokerVars>>
  BY <1>0, <1>3, LatchKeeps DEF TypeOK
<1>4. CASE pc' = "rest" /\ Connected
  <2>1. 0 \in UInt32
    BY Budgets DEF UInt32
  <2>2. TypeOK'
    BY <1>0, <1>4, <2>1, SessionAssumption
    DEF TypeOK, Connected, idleTracker, States, Subscribing, Windows
  <2>3. SlotInv' /\ CallInv' /\ AskedInv' /\ GateInv' /\ ClockInv'
    BY <1>4 DEF Connected, idleTracker, SlotInv, SlotTaken, CallInv, AskedInv,
                GateInv, ClockInv, Awaiting, CmdPart, AfterGate
  <2> QED BY <2>2, <2>3 DEF IInv
<1>5. CASE /\ pc' = "rest" /\ conn = "disconnected"
           /\ conn' \in {"disconnected", "transitioning"}
           /\ UNCHANGED <<stepVars, tracker, brokerVars>>
  <2>1. tracker' = latchTrackedSubscriptionTimeout(tracker)
    BY <1>5 DEF IInv, CallInv, SlotInv, SlotTaken, Awaiting, Subscribing,
                latchTrackedSubscriptionTimeout
  <2>2. CASE conn' = "transitioning"
    <3>1. UNCHANGED <<stepVars, brokerVars, timeVars, age, pumpRunning, now>>
      BY <1>0, <1>5
    <3>2. wifiMissed' \in BOOLEAN
      BY <1>0 DEF TypeOK
    <3> QED BY <1>0, <1>5, <2>1, <2>2, <3>1, <3>2, LatchKeeps
  <2>3. CASE conn' = "disconnected"
    <3>1. tracker.state = "idle"
      BY <1>5 DEF IInv, CallInv, SlotInv, SlotTaken, Awaiting, Subscribing
    <3>2. TypeOK'
      BY <1>0, <1>5, <2>3 DEF TypeOK, Windows, stepVars, brokerVars
    <3>3. SlotInv' /\ CallInv' /\ AskedInv' /\ GateInv'
      BY <1>0, <1>5, <2>3
      DEF IInv, SlotInv, SlotTaken, CurrentTopic, CallInv, AskedInv, GateInv,
          Granted, stepVars, brokerVars
    <3>4. ClockInv'
      BY <1>5, <3>1 DEF ClockInv
    <3> QED BY <3>2, <3>3, <3>4 DEF IInv
  <2> QED BY <1>5, <2>2, <2>3
<1> QED BY <1>1, <1>2, <1>3, <1>4, <1>5 DEF ServiceMQTT, linkVars

(* The clock is looked at.                                                 *)
LEMMA FinishServiceKeeps == ASSUME IInv, FinishService PROVE IInv'
<1>1. conn # "disconnected" /\ TypeOK
  BY DEF FinishService, IInv, CallInv
<1> QED BY <1>1, LatchKeeps DEF FinishService, TypeOK, timeVars

(* The session goes from the pump's topic to the other one to the rest.    *)
LEMMA NextStates ==
  /\ NextState["SubscribePump"] = "AwaitPumpSuback"
  /\ NextState["AwaitPumpSuback"] = "SubscribeCmd"
  /\ NextState["SubscribeCmd"] = "AwaitCmdSuback"
  /\ NextState["AwaitCmdSuback"] = "Online"
  /\ \A s \in AfterGate \ {"Done"} : NextState[s] \in AfterGate
<1>1. /\ NextState["SubscribePump"] = "AwaitPumpSuback"
      /\ NextState["AwaitPumpSuback"] = "SubscribeCmd"
      /\ NextState["SubscribeCmd"] = "AwaitCmdSuback"
      /\ NextState["AwaitCmdSuback"] = "Online"
  BY DEF NextState
<1>2. \A s \in AfterGate \ {"Done"} : NextState[s] \in AfterGate
  BY DEF NextState, AfterGate
<1> QED BY <1>1, <1>2

(* Nothing is left to do, or no connection to do it on.                    *)
LEMMA NothingToInitKeeps == ASSUME IInv, NothingToInit PROVE IInv'
  BY SessionLeftAlone DEF NothingToInit, IInv, TypeOK, linkVars, otherVars, timeVars

(* The slot takes an id that tells the SUBSCRIBE from the others.          *)
LEMMA StartTrackedSubscriptionKeeps ==
  ASSUME IInv, StartTrackedSubscription PROVE IInv'
<1> USE DEF stepVars, timeVars
<1>0. TypeOK /\ session \in Subscribing /\ pc = "session" /\ conn = "connected"
  BY DEF IInv, StartTrackedSubscription, InStep
<1>1. PICK id \in PacketId \ {a.packetId : a \in asked} :
        /\ tracker' = [state |-> "awaitingAck", packetId |-> id, startedAt |-> millis]
        /\ asked' = asked \cup {[topic |-> TopicOf[session], packetId |-> id]}
  BY DEF StartTrackedSubscription
<1>2. /\ age' = 0 /\ now' = millis /\ pc' = "call"
      /\ UNCHANGED <<conn, stepVars, pumpRunning, timeVars, verdict, wifiMissed>>
  BY DEF StartTrackedSubscription
<1>3. TopicOf[session] = CurrentTopic /\ CurrentTopic \in Topics
  BY <1>0 DEF TopicOf, CurrentTopic, Subscribing, PumpPart, Topics
<1>4. TypeOK'
  <2>1. 0 \in 0 .. SubackBudgetMs
    BY Budgets
  <2>2. [topic |-> TopicOf[session], packetId |-> id] \in [topic : Topics, packetId : PacketId]
    BY <1>1, <1>3
  <2>3. [state |-> "awaitingAck", packetId |-> id, startedAt |-> millis]
          \in [state : {"idle", "awaitingAck", "accepted", "rejected"},
               packetId : PacketId \cup {0}, startedAt : UInt32]
    BY <1>0, <1>1 DEF TypeOK
  <2> QED BY <1>0, <1>1, <1>2, <2>1, <2>2, <2>3 DEF TypeOK, Windows
<1>5. SlotInv'
  BY <1>0, <1>1, <1>2, <1>3 DEF SlotInv, SlotTaken, CurrentTopic
<1>6. CallInv'
  BY <1>0, <1>2 DEF CallInv, Subscribing, Awaiting
<1>7. AskedInv'
  <2>1. \A a \in asked : a.packetId # id
    BY <1>1
  <2> QED BY <1>1, <2>1 DEF IInv, AskedInv
<1>8. GateInv'
  BY <1>0, <1>1, <1>2 DEF IInv, GateInv, Granted, Subscribing, CmdPart, AfterGate
<1>9. ClockInv'
  <2>1. elapsedMs(millis, millis) = 0
    BY <1>0, ElapsedRange DEF TypeOK
  <2>2. SinceLook' \in Nat
    BY <1>0, <1>2, Budgets DEF TypeOK, SinceLook
  <2> QED BY <1>1, <1>2, <2>1, <2>2, Budgets DEF ClockInv, AtMost
<1> QED BY <1>4, <1>5, <1>6, <1>7, <1>8, <1>9 DEF IInv

(* The call is over; what it subscribed to is in the slot.                 *)
LEMMA FinishSubscribeKeeps == ASSUME IInv, FinishSubscribe PROVE IInv'
<1> USE DEF brokerVars, otherVars, timeVars
<1> DEFINE t == latchTrackedSubscriptionTimeout(tracker)
<1>0. /\ TypeOK /\ session \in Subscribing /\ pc = "call" /\ pc' = "rest"
      /\ session' = NextState[session] /\ stepStartedAt' = now /\ tracker' = t
      /\ now' = 0
      /\ UNCHANGED <<conn, discoveryStartedAt, sensorIndex, brokerVars, otherVars>>
  BY DEF IInv, FinishSubscribe
<1>1. /\ t \in [state : {"idle", "awaitingAck", "accepted", "rejected"},
                packetId : PacketId \cup {0}, startedAt : UInt32]
      /\ t.packetId = tracker.packetId /\ t.startedAt = tracker.startedAt
      /\ t.state = "idle" <=> tracker.state = "idle"
      /\ t.state = "accepted" <=> tracker.state = "accepted"
      /\ t.state = "awaitingAck" => t = tracker
  BY <1>0, Latched
<1> HIDE DEF t
<1>2. \/ session = "SubscribePump" /\ session' = "AwaitPumpSuback"
      \/ session = "SubscribeCmd" /\ session' = "AwaitCmdSuback"
  BY <1>0, NextStates DEF Subscribing
<1>3. TypeOK'
  <2>1. 0 \in UInt32
    BY Budgets DEF UInt32
  <2> QED BY <1>0, <1>1, <1>2, <2>1 DEF TypeOK, States, Awaiting, Windows
<1>4. CurrentTopic' = CurrentTopic
  BY <1>2 DEF CurrentTopic, PumpPart
<1>5. SlotInv'
  BY <1>0, <1>1, <1>2, <1>4 DEF IInv, SlotInv, SlotTaken, Awaiting, Subscribing
<1>6. CallInv' /\ AskedInv'
  BY <1>0, <1>2 DEF IInv, CallInv, AskedInv
<1>7. GateInv'
  BY <1>0, <1>1, <1>2, <1>4 DEF IInv, GateInv, Granted, CmdPart, AfterGate
<1>8. ClockInv'
  BY <1>0, <1>1 DEF IInv, ClockInv, SinceLook
<1> QED BY <1>3, <1>5, <1>6, <1>7, <1>8 DEF IInv

(* A failure of a critical step closes the connection, or waits.           *)
LEMMA CriticalFailureKeeps ==
  ASSUME IInv, pc = "session", pc' = "rest", UNCHANGED <<now, otherVars>>,
         handleCriticalMqttSessionInitFailure \/ UNCHANGED linkVars
  PROVE  IInv'
<1>1. CASE ForceDisconnect
  BY <1>1, ForceDisconnectKeeps DEF otherVars
<1>2. CASE UNCHANGED linkVars
  BY <1>2, SessionLeftAlone DEF linkVars, otherVars, timeVars, IInv, TypeOK
<1> QED BY <1>1, <1>2 DEF handleCriticalMqttSessionInitFailure

(* A critical step that finds no room.                                     *)
LEMMA CriticalStepRefusedKeeps == ASSUME IInv, CriticalStepRefused PROVE IInv'
  BY CriticalFailureKeeps DEF CriticalStepRefused, InStep

(* The answer is not there, or not the one that is needed.                 *)
LEMMA SubackNotAcceptedKeeps == ASSUME IInv, SubackNotAccepted PROVE IInv'
  BY CriticalFailureKeeps DEF SubackNotAccepted, InStep

(* The accepted answer is the broker's word on the current topic.          *)
LEMMA SubackAcceptedKeeps == ASSUME IInv, SubackAccepted PROVE IInv'
<1> USE DEF brokerVars, otherVars, timeVars
<1>0. /\ TypeOK /\ session \in Awaiting /\ tracker.state = "accepted"
      /\ pc = "session" /\ pc' = "rest" /\ conn = "connected"
      /\ tracker' = idleTracker /\ session' = NextState[session]
      /\ stepStartedAt' = millis
      /\ UNCHANGED <<conn, discoveryStartedAt, sensorIndex, now, brokerVars, otherVars>>
  BY DEF IInv, SubackAccepted, InStep
<1>1. \/ session = "AwaitPumpSuback" /\ session' = "SubscribeCmd"
      \/ session = "AwaitCmdSuback" /\ session' = "Online"
  BY <1>0, NextStates DEF Awaiting
<1>2. Granted(CurrentTopic)
  <2>1. [topic |-> CurrentTopic, packetId |-> tracker.packetId] \in asked
    BY <1>0 DEF IInv, SlotInv, SlotTaken
  <2>2. verdict[CurrentTopic] = "acceptedQos1"
    BY <1>0 DEF IInv, GateInv
  <2> QED BY <2>1, <2>2 DEF Granted
<1>3. TypeOK'
  <2>1. 0 \in UInt32
    BY Budgets DEF UInt32
  <2> QED BY <1>0, <1>1, <2>1
          DEF TypeOK, idleTracker, States, Subscribing, AfterGate, Windows
<1>4. SlotInv' /\ CallInv' /\ AskedInv' /\ ClockInv'
  BY <1>0, <1>1 DEF IInv, SlotInv, SlotTaken, CallInv, AskedInv, ClockInv, idleTracker, Awaiting
<1>5. GateInv'
  <2>1. Granted("T_PUMP_CMD")
    BY <1>1, <1>2 DEF IInv, GateInv, CurrentTopic, PumpPart, CmdPart
  <2>2. session = "AwaitCmdSuback" => Granted("T_CMD")
    BY <1>2 DEF CurrentTopic, PumpPart
  <2> QED BY <1>0, <1>1, <2>1, <2>2 DEF GateInv, Granted, idleTracker, AfterGate
<1> QED BY <1>3, <1>4, <1>5 DEF IInv

(* A step after the gate: the slot is free and stays so.                   *)
LEMMA AfterGateKeeps ==
  ASSUME IInv, session \in AfterGate, session' \in AfterGate,
         pc \in {"session", "call"}, conn # "disconnected",
         pc' = "rest", UNCHANGED <<conn, tracker, brokerVars, otherVars>>,
         now' \in UInt32, stepStartedAt' \in UInt32, discoveryStartedAt' \in UInt32,
         sensorIndex' \in 0 .. SENSOR_COUNT
  PROVE  IInv'
<1> USE DEF brokerVars, otherVars, timeVars
<1>1. TypeOK'
  BY DEF IInv, TypeOK, States, Windows
<1>2. tracker.state = "idle" /\ tracker'.state = "idle"
  BY DEF IInv, SlotInv, SlotTaken, AfterGate, Awaiting, Subscribing
<1>3. SlotInv' /\ CallInv' /\ AskedInv' /\ GateInv' /\ ClockInv'
  BY <1>2 DEF IInv, SlotInv, SlotTaken, CallInv, AskedInv, GateInv, Granted,
              ClockInv, AfterGate, Awaiting, CmdPart
<1> QED BY <1>1, <1>3 DEF IInv

(* Discovery is given up, or complete.                                     *)
LEMMA SkipDiscoveryKeeps == ASSUME IInv, SkipDiscovery PROVE IInv'
<1>1. /\ session \in AfterGate \ {"Done"}
      /\ pc = "session" /\ conn = "connected" /\ pc' = "rest"
      /\ session' = NextState[session]
      /\ stepStartedAt' \in {millis, stepStartedAt}
      /\ UNCHANGED <<conn, discoveryStartedAt, sensorIndex, now, tracker, brokerVars,
                     otherVars>>
  BY DEF SkipDiscovery, InStep, AfterGate
<1>2. /\ stepStartedAt' \in UInt32 /\ discoveryStartedAt' \in UInt32 /\ now' \in UInt32
      /\ sensorIndex' \in 0 .. SENSOR_COUNT
  BY <1>1 DEF IInv, TypeOK
<1> QED BY <1>1, <1>2, NextStates, AfterGateKeeps

(* Discovery is tried again in the next pass.                              *)
LEMMA DiscoveryRefusedKeeps == ASSUME IInv, DiscoveryRefused PROVE IInv'
  BY SessionLeftAlone
  DEF DiscoveryRefused, InStep, IInv, TypeOK, linkVars, otherVars, timeVars

(* A log is passed over.                                                   *)
LEMMA SkipLogKeeps == ASSUME IInv, SkipLog PROVE IInv'
<1>1. /\ session \in AfterGate \ {"Done"}
      /\ pc = "session" /\ conn = "connected" /\ pc' = "rest"
      /\ session' = NextState[session]
      /\ UNCHANGED <<conn, stepStartedAt, discoveryStartedAt, sensorIndex, now, tracker,
                     brokerVars, otherVars>>
  BY DEF SkipLog, InStep, AfterGate
<1>2. /\ stepStartedAt' \in UInt32 /\ discoveryStartedAt' \in UInt32 /\ now' \in UInt32
      /\ sensorIndex' \in 0 .. SENSOR_COUNT
  BY <1>1 DEF IInv, TypeOK
<1> QED BY <1>1, <1>2, NextStates, AfterGateKeeps

(* A publication is handed to the client.                                  *)
LEMMA PublishStepKeeps == ASSUME IInv, PublishStep PROVE IInv'
<1> USE DEF linkVars, stepVars, brokerVars, otherVars, timeVars
<1>1. /\ session \in AfterGate \ {"Done"}
      /\ pc = "session" /\ conn = "connected" /\ pc' = "call" /\ now' = millis
      /\ UNCHANGED <<linkVars, otherVars>>
      /\ session = "DiscoverySensors" => ~allSensorsAnnounced
  BY DEF PublishStep, InStep, AfterGate
<1>2. TypeOK'
  BY <1>1 DEF IInv, TypeOK, Windows
<1>3. CallInv'
  <2>1. session = "DiscoverySensors" => sensorIndex < SENSOR_COUNT
    BY <1>1, SessionAssumption DEF allSensorsAnnounced, IInv, TypeOK
  <2> QED BY <1>1, <2>1 DEF CallInv, AfterGate, Awaiting
<1>4. SlotInv' /\ AskedInv' /\ GateInv' /\ ClockInv'
  BY <1>1 DEF IInv, SlotInv, SlotTaken, CurrentTopic, AskedInv, GateInv, Granted,
              ClockInv, SinceLook, AfterGate, Awaiting, Subscribing
<1> QED BY <1>2, <1>3, <1>4 DEF IInv

(* The publication is out.                                                 *)
LEMMA FinishPublishKeeps == ASSUME IInv, FinishPublish PROVE IInv'
<1>1. /\ session \in AfterGate \ {"Done"} /\ conn # "disconnected" /\ TypeOK
      /\ pc = "call" /\ pc' = "rest"
      /\ session = "DiscoverySensors" => sensorIndex < SENSOR_COUNT
      /\ UNCHANGED <<conn, tracker, brokerVars, otherVars>>
  BY DEF FinishPublish, IInv, CallInv, TypeOK, States
<1>2. session' \in AfterGate
  BY <1>1, NextStates DEF FinishPublish
<1>3. stepStartedAt' \in UInt32 /\ discoveryStartedAt' \in UInt32 /\ now' \in UInt32
  <2>1. 0 \in UInt32
    BY Budgets DEF UInt32
  <2> QED BY <1>1, <2>1 DEF FinishPublish, TypeOK
<1>4. sensorIndex' \in 0 .. SENSOR_COUNT
  <2>1. \/ session = "DiscoverySensors" /\ sensorIndex' = sensorIndex + 1
        \/ session = "Online" /\ sensorIndex' = 0
        \/ sensorIndex' = sensorIndex
    BY DEF FinishPublish
  <2> QED BY <1>1, <2>1, SessionAssumption DEF TypeOK
<1> QED BY <1>1, <1>2, <1>3, <1>4, AfterGateKeeps

(* The pump runs, or cannot and the connection goes.                       *)
LEMMA StartPumpKeeps == ASSUME IInv, StartPump PROVE IInv'
<1>1. /\ pc = "rest" /\ pc' = "rest"
      /\ UNCHANGED <<now, timeVars, age, wifiMissed>>
  BY DEF StartPump
<1>2. CASE pumpRunning' = TRUE /\ UNCHANGED linkVars
  BY <1>1, <1>2, SessionLeftAlone DEF linkVars, timeVars, IInv, TypeOK
<1>3. CASE ForceDisconnect /\ UNCHANGED pumpRunning
  BY <1>1, <1>3, ForceDisconnectKeeps
<1> QED BY <1>2, <1>3 DEF StartPump

(* The pump stops.                                                         *)
LEMMA StopPumpKeeps == ASSUME IInv, StopPump PROVE IInv'
  BY SessionLeftAlone DEF StopPump, linkVars, timeVars, IInv, TypeOK

(* The clock is looked at, or the client is done with closing.             *)
LEMMA ServicePumpCriticalKeeps == ASSUME IInv, ServicePumpCritical PROVE IInv'
<1> USE DEF otherVars, timeVars
<1>1. /\ TypeOK /\ pc = "rest" /\ pc' = "rest" /\ conn # "disconnected"
      /\ UNCHANGED <<now, otherVars>>
  BY DEF ServicePumpCritical, IInv
<1>2. CASE /\ tracker' = latchTrackedSubscriptionTimeout(tracker)
           /\ UNCHANGED <<conn, stepVars, brokerVars>>
  BY <1>1, <1>2, LatchKeeps DEF TypeOK
<1>3. CASE Disconnected
  BY <1>1, <1>3, DisconnectedKeeps DEF TypeOK
<1> QED BY <1>2, <1>3 DEF ServicePumpCritical

(* Time passes.                                                            *)
LEMMA TickKeeps == ASSUME IInv, LoopEnd \/ Tick PROVE IInv'
  BY PassTimeKeeps DEF LoopEnd, Tick

-------------------------------------------------------------------------------
(* The theorems.                                                           *)

(* Every step of the loop, the broker, the network and time keeps IInv.    *)
LEMMA StepInvariant == IInv /\ [Next]_vars => IInv'
<1> SUFFICES ASSUME IInv, [Next]_vars PROVE IInv'
  OBVIOUS
<1>1. CASE LoopStep
  BY <1>1, ServiceMQTTKeeps, FinishServiceKeeps, NothingToInitKeeps,
     StartTrackedSubscriptionKeeps, FinishSubscribeKeeps, CriticalStepRefusedKeeps,
     SubackAcceptedKeeps, SubackNotAcceptedKeeps, SkipDiscoveryKeeps,
     DiscoveryRefusedKeeps, SkipLogKeeps, PublishStepKeeps, FinishPublishKeeps,
     TickKeeps
  DEF LoopStep
<1>2. CASE \/ StartPump \/ StopPump \/ ServicePumpCritical
           \/ SubscribeAck \/ ConnectionLost \/ Tick \/ Restart
  BY <1>2, StartPumpKeeps, StopPumpKeeps, ServicePumpCriticalKeeps,
     SubscribeAckKeeps, ConnectionLostKeeps, TickKeeps, RestartKeeps
<1>3. CASE UNCHANGED vars
  BY <1>3, SessionLeftAlone
  DEF vars, linkVars, stepVars, brokerVars, otherVars, timeVars, IInv, TypeOK
<1> QED BY <1>1, <1>2, <1>3 DEF Next

(* IInv is an invariant of the firmware's session.                         *)
THEOREM Invariant == Spec => []IInv
  BY InitInvariant, StepInvariant, PTL DEF Spec

(* The variables keep their types; in particular no pass indexes a sensor  *)
(* that does not exist.                                                    *)
THEOREM TypeCorrect == Spec => []TypeOK
<1>1. IInv => TypeOK
  BY DEF IInv
<1> QED BY <1>1, Invariant, PTL

(* A session past the gate has both command topics granted at QoS 1 on     *)
(* this connection (docs/MQTT_RUNTIME_BOUNDED_TRANSPORT.md:137-140).       *)
THEOREM GateHolds == Spec => []SessionGate
<1>1. IInv => SessionGate
  BY DEF IInv, GateInv, Granted, SessionGate, Topics
<1> QED BY <1>1, Invariant, PTL

(* The slot is free when a subscription is to start, taken when its answer *)
(* is awaited.                                                             *)
THEOREM SlotIsConsistent == Spec => []SlotFollowsSession
<1>1. IInv => SlotFollowsSession
  BY DEF IInv, SlotInv, SlotTaken, SlotFollowsSession
<1> QED BY <1>1, Invariant, PTL

(* Nothing but an answer makes a subscription accepted.                    *)
LEMMA OnlyAnAnswer ==
  ASSUME IInv, Next, tracker'.state = "accepted", tracker.state # "accepted"
  PROVE  SubscribeAck
<1>0. TypeOK /\ idleTracker.state = "idle"
  BY DEF IInv, idleTracker
<1>1. tracker' # tracker /\ tracker' # idleTracker
  BY <1>0
<1>2. tracker' # latchTrackedSubscriptionTimeout(tracker)
  BY <1>0, Latched
<1>3. ~Disconnected /\ ~Connected
  BY <1>1 DEF Disconnected, Connected
<1>4. ~ForceDisconnect
  BY <1>1, <1>3 DEF ForceDisconnect
<1>5. ~ServiceMQTT /\ ~FinishService /\ ~FinishSubscribe /\ ~ServicePumpCritical
  BY <1>1, <1>2, <1>3
  DEF ServiceMQTT, FinishService, FinishSubscribe, ServicePumpCritical, linkVars
<1>6. ~StartTrackedSubscription
  BY DEF StartTrackedSubscription
<1>7. ~NothingToInit /\ ~CriticalStepRefused /\ ~SubackNotAccepted
  BY <1>1, <1>4 DEF NothingToInit, CriticalStepRefused, SubackNotAccepted,
                    handleCriticalMqttSessionInitFailure, linkVars
<1>8. ~SubackAccepted /\ ~SkipDiscovery /\ ~DiscoveryRefused /\ ~SkipLog
  BY <1>1 DEF SubackAccepted, SkipDiscovery, DiscoveryRefused, SkipLog, linkVars
<1>9. ~PublishStep /\ ~FinishPublish /\ ~LoopEnd /\ ~Tick
  BY <1>1 DEF PublishStep, FinishPublish, LoopEnd, Tick, linkVars
<1>10. ~StartPump /\ ~StopPump /\ ~ConnectionLost /\ ~Restart
  BY <1>1, <1>3, <1>4 DEF StartPump, StopPump, ConnectionLost, Restart, linkVars
<1> QED BY <1>5, <1>6, <1>7, <1>8, <1>9, <1>10 DEF Next, LoopStep

(* A SUBACK that comes when the budget is spent is never the acceptance,   *)
(* whoever looked at the clock before and across a wrap of millis().       *)
THEOREM AcceptedOnlyInTime == Spec => AcceptedInTime
<1>1. IInv /\ [Next]_vars =>
        [tracker'.state = "accepted" /\ tracker.state # "accepted" =>
           tracker.state = "awaitingAck" /\ age < SubackBudgetMs]_vars
  BY OnlyAnAnswer, SubscribeAckKeeps
<1> QED BY <1>1, Invariant, PTL DEF Spec, AcceptedInTime

-------------------------------------------------------------------------------
(* The session is that of SessionContract.                                 *)

(* Phases and the ways of the connection.                                  *)
LEMMA Phases ==
  /\ \A s \in DOMAIN NextState : s \in States \ {"Idle", "Done"}
  /\ session = "Idle" => phase = "idle"
  /\ session = "Done" => phase = "done"
  /\ session \in Subscribing \cup Awaiting
               \cup {"Online", "DiscoverySensors", "DiscoveryPump"}
       => phase = "subscribing"
  /\ session = "PumpStatus" => phase = "pumpStatus"
  /\ session \in {"ConnectedLog", "StartupLog", "StartupPumpWarning",
                  "WifiRestoredLog"} => phase = "logging"
BY DEF NextState, States, phase, Subscribing, Awaiting, AfterGate

(* The next state is in the same phase or in the one that follows.         *)
LEMMA PhaseProceeds ==
  ASSUME session \in DOMAIN NextState, session' = NextState[session],
         conn # "disconnected", UNCHANGED <<conn, pumpRunning>>
  PROVE  [Session!Next]_(Session!vars)
<1>1. CASE phase' = phase
  BY <1>1 DEF Session!vars
<1>2. CASE /\ phase \in DOMAIN Session!Following
           /\ phase' = Session!Following[phase]
  BY <1>2 DEF Session!Next, Session!Proceed
<1> QED BY <1>1, <1>2 DEF NextState, phase, Session!Following

(* forceDisconnect() of an open connection, or its end.                    *)
LEMMA ClosingRefines ==
  ASSUME conn # "disconnected", Disconnected \/ ForceDisconnect,
         conn \in {"transitioning", "connected"}, UNCHANGED pumpRunning
  PROVE  [Session!Next]_(Session!vars)
<1>1. CASE Disconnected
  BY <1>1 DEF Disconnected, phase, Session!Next, Session!Close
<1>2. CASE conn' = "transitioning" /\ UNCHANGED session
  BY <1>2 DEF phase, Session!Next, Session!StartToClose, Session!vars
<1> QED BY <1>1, <1>2 DEF ForceDisconnect, stepVars

(* Every step of MqttSession is one of the contract, or changes nothing    *)
(* that it speaks of.                                                      *)
LEMMA NextRefinesSession ==
  ASSUME IInv, [Next]_vars PROVE [Session!Next]_(Session!vars)
<1>0. TypeOK /\ (conn = "disconnected" => session = "Idle" /\ pc # "call")
  BY DEF IInv, CallInv
<1> USE <1>0 DEF linkVars, stepVars, otherVars
<1>1. CASE ServiceMQTT
  <2>1. UNCHANGED pumpRunning
    BY <1>1 DEF ServiceMQTT
  <2>2. CASE conn = "disconnected" /\ ~pumpRunning /\ Connected
    BY <2>1, <2>2, <1>0 DEF Connected, phase, Session!Next, Session!Connect
  <2>3. CASE /\ conn = "disconnected" /\ ~pumpRunning
             /\ conn' = "transitioning" /\ UNCHANGED session
    BY <2>1, <2>3 DEF phase, Session!Next, Session!Connect
  <2>4. CASE UNCHANGED <<conn, session>>
    BY <2>1, <2>4 DEF phase, Session!vars
  <2>5. CASE conn # "disconnected" /\ Disconnected
    BY <2>1, <2>5, ClosingRefines DEF TypeOK
  <2>6. CASE conn # "disconnected" /\ conn' = "transitioning" /\ UNCHANGED session
    BY <2>1, <2>6 DEF phase, TypeOK, Session!Next, Session!StartToClose, Session!vars
  <2> QED BY <1>1, <2>2, <2>3, <2>4, <2>5, <2>6 DEF ServiceMQTT
<1>2. CASE FinishSubscribe
  <2>1. session \in DOMAIN NextState
    BY <1>2 DEF FinishSubscribe, NextState, Subscribing
  <2>2. conn # "disconnected"
    BY <1>2 DEF FinishSubscribe
  <2> QED BY <1>2, <2>1, <2>2, PhaseProceeds DEF FinishSubscribe
<1>3. CASE SubackAccepted \/ SkipDiscovery \/ SkipLog
  <2>1. /\ session \in DOMAIN NextState /\ session' = NextState[session]
        /\ conn = "connected" /\ UNCHANGED <<conn, pumpRunning>>
    BY <1>3 DEF SubackAccepted, SkipDiscovery, SkipLog, InStep, NextState, Awaiting
  <2> QED BY <2>1, PhaseProceeds
<1>4. CASE FinishPublish
  <2>1. conn # "disconnected" /\ UNCHANGED <<conn, pumpRunning>>
    BY <1>4 DEF FinishPublish
  <2>2. CASE session' = session
    BY <2>1, <2>2 DEF phase, Session!vars
  <2>3. CASE session # "DiscoverySensors" /\ session' = NextState[session]
    <3>1. session \in DOMAIN NextState
      BY <1>4 DEF FinishPublish, IInv, CallInv, TypeOK, States, AfterGate, NextState,
                  Awaiting, Subscribing
    <3> QED BY <2>1, <2>3, <3>1, PhaseProceeds
  <2> QED BY <1>4, <2>2, <2>3 DEF FinishPublish
<1>5. CASE CriticalStepRefused \/ SubackNotAccepted
  <2>1. conn = "connected" /\ UNCHANGED pumpRunning
        /\ (ForceDisconnect \/ UNCHANGED <<conn, session>>)
    BY <1>5 DEF CriticalStepRefused, SubackNotAccepted, InStep,
                handleCriticalMqttSessionInitFailure
  <2> QED BY <2>1, ClosingRefines DEF phase, Session!vars
<1>6. CASE StartPump
  <2>1. CASE pumpRunning' = TRUE /\ UNCHANGED linkVars
    BY <1>6, <2>1 DEF StartPump, phase, Session!Next, Session!StartPump
  <2>2. CASE ForceDisconnect /\ UNCHANGED pumpRunning
    BY <1>6, <2>2, ClosingRefines DEF StartPump
  <2> QED BY <1>6, <2>1, <2>2 DEF StartPump
<1>7. CASE StopPump
  BY <1>7 DEF StopPump, phase, Session!Next, Session!StopPump
<1>8. CASE ServicePumpCritical \/ ConnectionLost
  <2>1. UNCHANGED pumpRunning /\ conn # "disconnected"
    BY <1>8 DEF ServicePumpCritical, ConnectionLost
  <2>2. CASE Disconnected
    BY <2>1, <2>2, ClosingRefines DEF TypeOK
  <2>3. CASE UNCHANGED <<conn, session>>
    BY <2>1, <2>3 DEF phase, Session!vars
  <2>4. CASE conn = "connected" /\ conn' = "transitioning" /\ UNCHANGED session
    BY <2>1, <2>4 DEF phase, Session!Next, Session!StartToClose
  <2> QED BY <1>8, <2>2, <2>3, <2>4 DEF ServicePumpCritical, ConnectionLost
<1>9. CASE Restart
  BY <1>9 DEF Restart, Disconnected, phase, Session!Next, Session!Reset
<1>10. CASE \/ FinishService \/ NothingToInit \/ StartTrackedSubscription
            \/ DiscoveryRefused \/ PublishStep \/ LoopEnd
            \/ SubscribeAck \/ Tick \/ UNCHANGED vars
  BY <1>10 DEF FinishService, NothingToInit, StartTrackedSubscription, DiscoveryRefused,
     PublishStep, LoopEnd, SubscribeAck, Tick, vars, phase, Session!vars
<1> QED BY <1>1, <1>2, <1>3, <1>4, <1>5, <1>6, <1>7, <1>8, <1>9, <1>10 DEF Next, LoopStep

(* What PumpControl takes a session for is what MqttSession does; the      *)
(* other half is SessionIsKept of PumpControlProofs.                       *)
THEOREM SessionIsKept == Spec => ImplementsSessionContract
<1>1. Init => Session!Init
  BY DEF Init, phase, Session!Init
<1>2. IInv /\ [Next]_vars => [Session!Next]_(Session!vars)
  BY NextRefinesSession
<1> QED BY <1>1, <1>2, Invariant, PTL DEF Spec, ImplementsSessionContract, Session!Spec

(* The contract itself: no session begins while the pump runs.             *)
LEMMA ContractSettled ==
  Session!Spec => []Session!NoInitialisationWhileRunning
<1> DEFINE Inv == /\ Session!NoInitialisationWhileRunning
                  /\ conn = "disconnected" => phase = "idle"
<1>1. Session!Init => Inv
  BY DEF Session!Init, Session!NoInitialisationWhileRunning
<1>2. Inv /\ [Session!Next]_(Session!vars) => Inv'
  BY DEF Session!Next, Session!vars, Session!NoInitialisationWhileRunning,
         Session!Connect, Session!StartToClose, Session!Close, Session!Proceed,
         Session!StartPump, Session!StopPump, Session!Reset, Session!Following
<1> QED BY <1>1, <1>2, PTL DEF Session!Spec

(* So a failing initialisation never finds the pump running: the test for  *)
(* it in handleCriticalMqttSessionInitFailure() is a second barrier.       *)
THEOREM NoSessionBeginsInARun ==
  Spec => []Session!NoInitialisationWhileRunning
BY SessionIsKept, ContractSettled, PTL DEF ImplementsSessionContract
===============================================================================
