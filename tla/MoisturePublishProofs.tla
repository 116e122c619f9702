------------------------- MODULE MoisturePublishProofs ------------------------
(***************************************************************************)
(* The safety of MoisturePublish for any sensors, any of them enabled, any *)
(* interval and width of the counter.                                      *)
(***************************************************************************)
EXTENDS MoisturePublish, TLAPS

-------------------------------------------------------------------------------
(* The inductive invariant.                                                *)

(* A sweep belongs to a session and has measured what lies behind it.      *)
SweepInv ==
  active => ready /\ measured = {s \in Enabled : s < nextSensor}

(* A sensor just read belongs to the sweep, which only a lost session can  *)
(* have ended since.                                                       *)
ReadingInv ==
  pc = "input" => reading.sensor \in measured /\ (ready => active)

(* The counter tells how long ago the sweep began, as long as it matters.  *)
ClockInv ==
  fresh \/ age = IntervalMs \/ age = elapsedMs(millis, lastPublish)

IInv == TypeOK /\ SweepInv /\ ReadingInv /\ ClockInv

-------------------------------------------------------------------------------
(* Time.                                                                   *)

(* Unsigned subtraction stays in range, and a tick adds one to it.         *)
LEMMA ElapsedRange ==
  ASSUME NEW t \in UInt32, NEW start \in UInt32
  PROVE  /\ elapsedMs(t, start) \in UInt32
         /\ elapsedMs(t, t) = 0
         /\ NextMillis(t) \in UInt32
         /\ elapsedMs(t, start) + 1 < Millis =>
              elapsedMs(NextMillis(t), start) = elapsedMs(t, start) + 1
  BY MillisAssumption DEF elapsedMs, UInt32, NextMillis

(* The interval is a value of the counter.                                 *)
LEMMA Interval == IntervalMs \in UInt32 /\ IntervalMs \in Nat /\ IntervalMs < Millis
  BY IntervalAssumption, MillisAssumption DEF UInt32

(* A unit of time: the ghost and the counter go on together.               *)
LEMMA PassTimeKeeps ==
  ASSUME IInv, PassTime, UNCHANGED <<linkVars, sweepVars, lastPublish, fresh>>,
         \/ pc' = pc /\ sincePass < PassMs /\ sincePass' = sincePass + 1
         \/ pc = "end" /\ pc' = "pass" /\ sincePass' = 0
  PROVE  IInv'
<1> USE DEF linkVars, sweepVars
<1>0. TypeOK
  BY DEF IInv
<1>1. millis' \in UInt32 /\ age' \in 0 .. IntervalMs /\ sincePass' \in 0 .. PassMs
  BY <1>0, ElapsedRange, IntervalAssumption DEF TypeOK, PassTime, AtMost
<1>2. TypeOK'
  BY <1>0, <1>1 DEF TypeOK
<1>3. SweepInv' /\ ReadingInv'
  BY DEF IInv, SweepInv, ReadingInv
<1>4. ClockInv'
  <2> SUFFICES ASSUME ~fresh, age' # IntervalMs
               PROVE  age' = elapsedMs(millis', lastPublish)
    BY DEF ClockInv
  <2>1. age \in Nat /\ age' = age + 1 /\ age + 1 < IntervalMs
    BY <1>0, Interval DEF TypeOK, PassTime, AtMost
  <2>2. age = elapsedMs(millis, lastPublish)
    BY <2>1, Interval DEF IInv, ClockInv
  <2>3. elapsedMs(millis, lastPublish) + 1 < Millis
    BY <2>1, <2>2, Interval, MillisAssumption
  <2> QED BY <1>0, <2>1, <2>2, <2>3, ElapsedRange DEF TypeOK, PassTime
<1> QED BY <1>2, <1>3, <1>4 DEF IInv

-------------------------------------------------------------------------------
(* The invariant holds initially and every action keeps it.                *)

(* A reset, and so the beginning.                                          *)
LEMMA InitInvariant == Init => IInv
<1> SUFFICES ASSUME Init PROVE IInv
  OBVIOUS
<1>1. 0 \in UInt32 /\ 0 \in 0 .. PassMs /\ 0 \in 0 .. IntervalMs /\ 0 \in 0 .. SENSOR_COUNT
  BY MillisAssumption, IntervalAssumption, SensorAssumption DEF UInt32
<1> QED BY <1>1, ElapsedRange
        DEF Init, IInv, TypeOK, SweepInv, ReadingInv, ClockInv, noReading

LEMMA RestartKeeps == Restart => IInv'
<1> SUFFICES ASSUME Restart PROVE IInv'
  OBVIOUS
<1>1. 0 \in UInt32 /\ 0 \in 0 .. PassMs /\ 0 \in 0 .. IntervalMs /\ 0 \in 0 .. SENSOR_COUNT
  BY MillisAssumption, IntervalAssumption, SensorAssumption DEF UInt32
<1> QED BY <1>1, ElapsedRange
        DEF Restart, resetMoisturePublish, IInv, TypeOK, SweepInv, ReadingInv, ClockInv,
            noReading

(* The environment leaves the sweep alone.                                 *)
LEMMA EnvironmentKeeps ==
  ASSUME IInv, KeepsSweep, ready' = ready, pumpRunning' \in BOOLEAN,
         conn' \in {"disconnected", "transitioning", "connected"},
         waiting' \subseteq {"command", "telegram", "tracked"}
  PROVE  IInv'
BY DEF IInv, TypeOK, SweepInv, ReadingInv, ClockInv, KeepsSweep, sweepVars, timeVars

LEMMA WaitingKeeps ==
  ASSUME IInv,
         CommandArrives \/ CommandsProcessed \/ TgSend \/ PubAck
           \/ ServiceTelegramDelivery
  PROVE  IInv'
BY EnvironmentKeeps
   DEF IInv, TypeOK, CommandArrives, CommandsProcessed, TgSend, PubAck,
       ServiceTelegramDelivery

LEMMA LinkKeeps ==
  ASSUME IInv, StartPump \/ StopPump \/ Connect \/ ConnectionLost
  PROVE  IInv'
BY EnvironmentKeeps
   DEF IInv, TypeOK, StartPump, StopPump, Connect, ConnectionLost

(* A new session makes a sweep due: the past does not count.               *)
LEMMA SessionDoneKeeps == ASSUME IInv, SessionDone PROVE IInv'
<1>1. elapsedMs(millis, IntervalMs) \in UInt32
  BY ElapsedRange, Interval DEF IInv, TypeOK
<1> QED BY <1>1
        DEF SessionDone, IInv, TypeOK, SweepInv, ReadingInv, ClockInv, sweepVars, timeVars

(* The handler of a lost connection ends the sweep, also in a measurement. *)
LEMMA DisconnectedKeeps == ASSUME IInv, Disconnected PROVE IInv'
<1>1. 0 \in 0 .. SENSOR_COUNT
  BY SensorAssumption
<1> QED BY <1>1
        DEF Disconnected, resetMoisturePublish, IInv, TypeOK, SweepInv, ReadingInv,
            ClockInv, timeVars

LEMMA StartMoisturePublishKeeps == ASSUME IInv, StartMoisturePublish PROVE IInv'
<1>1. 0 \in 0 .. IntervalMs /\ 0 \in 0 .. SENSOR_COUNT
  BY Interval, SensorAssumption
<1>2. elapsedMs(millis, millis) = 0
  BY ElapsedRange DEF IInv, TypeOK
<1>3. {s \in Enabled : s < 0} = {}
  <2>1. \A s \in Enabled : s \in Nat /\ ~(s < 0)
    BY SensorAssumption
  <2> QED BY <2>1, Zenon
<1> QED BY <1>1, <1>2, <1>3
        DEF StartMoisturePublish, sessionUsable, IInv, TypeOK, SweepInv, ReadingInv,
            ClockInv, linkVars

(* A step of the sweep that measures nothing: it goes on or is reset.      *)
LEMMA PauseKeeps ==
  ASSUME IInv, pc' \in {"service", "publish", "end"},
         UNCHANGED <<active, nextSensor>> \/ resetMoisturePublish,
         UNCHANGED <<linkVars, measured, lastPublish, fresh, timeVars>>,
         reading' = reading \/ reading' = noReading
  PROVE  IInv'
<1>1. TypeOK'
  <2>1. 0 \in 0 .. SENSOR_COUNT
    BY SensorAssumption
  <2>2. noReading \in [sensor : Enabled \cup {-1}, usable : BOOLEAN]
    BY DEF noReading
  <2> QED BY <2>1, <2>2 DEF IInv, TypeOK, resetMoisturePublish, linkVars, timeVars
<1>2. SweepInv' /\ ReadingInv'
  BY DEF IInv, SweepInv, ReadingInv, resetMoisturePublish, linkVars
<1>3. ClockInv'
  BY DEF IInv, ClockInv, timeVars
<1> QED BY <1>1, <1>2, <1>3 DEF IInv

LEMMA PausesKeep ==
  ASSUME IInv,
         NoNewSweep \/ ServiceWithoutReading \/ DropReading \/ PublishReading
           \/ FinishReading
  PROVE  IInv'
<1>1. CASE NoNewSweep
  BY <1>1, PauseKeeps DEF NoNewSweep, sweepVars
<1>2. CASE ServiceWithoutReading
  BY <1>2, PauseKeeps
     DEF ServiceWithoutReading, NothingActive, GiveWay, GiveUp, SweepDone
<1>3. CASE DropReading
  BY <1>3, PauseKeeps DEF DropReading, EndOfChannels
<1>4. CASE PublishReading
  BY <1>4, PauseKeeps DEF PublishReading, sweepVars
<1>5. CASE FinishReading
  BY <1>5, PauseKeeps DEF FinishReading, EndOfChannels
<1> QED BY <1>1, <1>2, <1>3, <1>4, <1>5

(* What was left before the sensor is what is left after it, but for it.   *)
LEMMA NextEnabled ==
  ASSUME IInv, active, NEW s \in 0 .. SENSOR_COUNT - 1, nextEnabled(s)
  PROVE  /\ s \in Enabled \ measured
         /\ s + 1 \in 0 .. SENSOR_COUNT
         /\ measured \cup {s} = {r \in Enabled : r < s + 1}
<1>1. /\ measured = {r \in Enabled : r < nextSensor}
      /\ s \in Enabled /\ s >= nextSensor
      /\ \A r \in Enabled : r >= nextSensor => s <= r
  BY DEF IInv, SweepInv, nextEnabled, remaining
<1>2. nextSensor \in Nat /\ \A r \in Enabled : r \in Nat
  BY SensorAssumption DEF IInv, TypeOK
<1>3. s \notin measured
  BY <1>1, <1>2
<1>4. ASSUME NEW r \in Enabled PROVE r \in measured \cup {s} <=> r < s + 1
  BY <1>1, <1>2, SensorAssumption
<1>5. measured \cup {s} \subseteq Enabled
  BY <1>1
<1>6. s + 1 \in 0 .. SENSOR_COUNT
  BY SensorAssumption
<1> QED BY <1>1, <1>3, <1>4, <1>5, <1>6

LEMMA ReadSensorKeeps == ASSUME IInv, ReadSensor PROVE IInv'
<1>1. PICK s \in 0 .. SENSOR_COUNT - 1, usable \in BOOLEAN :
         /\ nextEnabled(s)
         /\ nextSensor' = s + 1
         /\ reading' = [sensor |-> s, usable |-> usable]
         /\ measured' = measured \cup {s}
  BY DEF ReadSensor
<1>2. /\ s \in Enabled /\ s + 1 \in 0 .. SENSOR_COUNT
      /\ measured' = {r \in Enabled : r < nextSensor'}
  BY <1>1, NextEnabled DEF ReadSensor
<1>3. measured' \subseteq Enabled /\ reading'.sensor \in measured'
  BY <1>1, <1>2
<1> QED BY <1>1, <1>2, <1>3
        DEF ReadSensor, IInv, TypeOK, SweepInv, ReadingInv, ClockInv, linkVars, timeVars

LEMMA TimeKeeps == ASSUME IInv, LoopEnd \/ Tick PROVE IInv'
BY PassTimeKeeps DEF LoopEnd, Tick

LEMMA StepInvariant == IInv /\ [Next]_vars => IInv'
<1> SUFFICES ASSUME IInv, [Next]_vars PROVE IInv'
  OBVIOUS
<1>1. CASE LoopStep
  BY <1>1, StartMoisturePublishKeeps, PausesKeep, ReadSensorKeeps, TimeKeeps DEF LoopStep
<1>2. CASE UNCHANGED vars
  BY <1>2 DEF vars, linkVars, sweepVars, timeVars, IInv, TypeOK, SweepInv, ReadingInv,
              ClockInv
<1> QED BY <1>1, <1>2, WaitingKeeps, LinkKeeps, SessionDoneKeeps, DisconnectedKeeps,
           TimeKeeps, RestartKeeps DEF Next

-------------------------------------------------------------------------------
(* The theorems.                                                           *)

(* The invariant of the sweep, its reading and its clock.                  *)
THEOREM Invariant == Spec => []IInv
BY InitInvariant, StepInvariant, PTL DEF Spec

(* Type correctness: every index is that of a channel, every reading that  *)
(* of an enabled sensor.                                                   *)
THEOREM TypeCorrect == Spec => []TypeOK
<1>1. IInv => TypeOK
  BY DEF IInv
<1> QED BY <1>1, Invariant, PTL

(* Sensors are measured only in ReadSensor, and a sweep that ends with     *)
(* link and pump as it needs them has left none out.                       *)
LEMMA StepIsWhole ==
  ASSUME IInv, [Next]_vars
  PROVE  /\ measured' # {} /\ pc' = "input" /\ pc = "service" =>
              reading'.sensor \in Enabled \ measured
         /\ active /\ ~active' =>
              measured = Enabled \/ pumpRunning \/ conn # "connected" \/ ~ready'
<1>1. ASSUME measured' # {}, pc' = "input", pc = "service"
      PROVE  reading'.sensor \in Enabled \ measured
  <2>1. ReadSensor
    BY <1>1
       DEF Next, LoopStep, StartMoisturePublish, NoNewSweep, ServiceWithoutReading,
           DropReading, PublishReading, FinishReading, LoopEnd, CommandArrives,
           CommandsProcessed, TgSend, PubAck, ServiceTelegramDelivery, StartPump,
           StopPump, Connect, SessionDone, ConnectionLost, Disconnected, Tick, Restart,
           KeepsSweep, InClient, vars
  <2> QED BY <2>1, NextEnabled DEF ReadSensor
<1>2. ASSUME active, ~active', conn = "connected", ready', ~pumpRunning
      PROVE  measured = Enabled
  <2>1. /\ ready /\ nextSensor \in 0 .. SENSOR_COUNT
        /\ measured = {s \in Enabled : s < nextSensor}
    BY <1>2 DEF IInv, TypeOK, SweepInv
  <2>2. remaining = {} \/ nextSensor >= SENSOR_COUNT
    BY <1>2, <2>1
       DEF Next, LoopStep, StartMoisturePublish, NoNewSweep, ServiceWithoutReading,
           NothingActive, GiveWay, GiveUp, SweepDone, ReadSensor, DropReading,
           PublishReading, FinishReading, EndOfChannels, LoopEnd, CommandArrives,
           CommandsProcessed, TgSend, PubAck, ServiceTelegramDelivery, StartPump,
           StopPump, Connect, SessionDone, ConnectionLost, Disconnected, Tick, Restart,
           KeepsSweep, vars, sweepVars, linkVars, sessionUsable
  <2>3. \A s \in Enabled : s \in Nat /\ s < SENSOR_COUNT
    BY SensorAssumption
  <2>4. \A s \in Enabled : s < nextSensor
    BY <2>1, <2>2, <2>3, SensorAssumption DEF remaining
  <2>5. {s \in Enabled : s < nextSensor} = Enabled
    BY <2>4, Zenon
  <2> QED BY <2>1, <2>5, Zenon
<1> QED BY <1>1, <1>2 DEF IInv, TypeOK

(* A sweep measures every enabled sensor, none twice, unless the pump or a *)
(* lost link ends it.                                                      *)
THEOREM SweepsAreWhole == Spec => SweepIsWhole
BY Invariant, StepIsWhole, PTL DEF Spec, SweepIsWhole

(* Only PublishReading hands a value to the client, and it looks again.    *)
LEMMA StepYields ==
  ASSUME IInv, [Next]_vars, pc = "input", pc' = "publish"
  PROVE  /\ waiting = {} /\ ~pumpRunning
         /\ active /\ reading.sensor \in measured
<1>1. PublishReading
  BY DEF Next, LoopStep, StartMoisturePublish, NoNewSweep, ServiceWithoutReading,
         ReadSensor, DropReading, FinishReading, LoopEnd, CommandArrives,
         CommandsProcessed, TgSend, PubAck, ServiceTelegramDelivery, StartPump, StopPump,
         Connect, SessionDone, ConnectionLost, Disconnected, Tick, Restart, KeepsSweep, vars
<1> QED BY <1>1 DEF PublishReading, sessionUsable, IInv, ReadingInv

(* Telemetry gives way to commands, notifications and the pump, also when  *)
(* they turn up in the middle of a measurement.                            *)
THEOREM TelemetryGivesWay == Spec => TelemetryYields
<1>1. IInv /\ [Next]_vars =>
        [pc' = "publish" /\ pc = "input" =>
           /\ waiting = {} /\ ~pumpRunning
           /\ active /\ reading.sensor \in measured]_vars
  BY StepYields
<1> QED BY <1>1, Invariant, PTL DEF Spec, TelemetryYields

(* A sweep begins when its time has come, which the clock tells truly.     *)
LEMMA StepSpaced ==
  ASSUME IInv, [Next]_vars, active', ~active
  PROVE  fresh \/ age >= IntervalMs
<1>1. StartMoisturePublish
  BY DEF Next, LoopStep, NoNewSweep, ServiceWithoutReading, NothingActive, GiveWay, GiveUp,
         SweepDone, ReadSensor, DropReading, PublishReading, FinishReading, EndOfChannels,
         resetMoisturePublish, LoopEnd, CommandArrives, CommandsProcessed, TgSend, PubAck,
         ServiceTelegramDelivery, StartPump, StopPump, Connect, SessionDone,
         ConnectionLost, Disconnected, Tick, Restart, KeepsSweep, vars, sweepVars
<1>2. elapsedMs(millis, lastPublish) >= IntervalMs
  BY <1>1 DEF StartMoisturePublish, due, hasElapsed
<1> QED BY <1>2, Interval DEF IInv, ClockInv

(* Sweeps of a session begin at least an interval apart.                   *)
THEOREM SweepsAreSpaced == Spec => SpacedSweeps
<1>1. IInv /\ [Next]_vars => [active' /\ ~active => fresh \/ age >= IntervalMs]_vars
  BY StepSpaced
<1> QED BY <1>1, Invariant, PTL DEF Spec, SpacedSweeps
===============================================================================
