# Verification of the balcony irrigation firmware

TLA+ models of the firmware in this repository (an ESP32 that waters a balcony
on command from MQTT/Home Assistant or a Telegram bridge), TLC runs that check
them on small instances, and TLAPS proofs of the properties that matter most
for every value of the constants. The reference is the source: mostly
`src/main.cpp`, `src/mqtt_runtime_adapter.cpp` and the policy headers in
`include/`. `PROJECT.json` maps every definition to the lines it models.

- [The system](#the-system)
- [The modules](#the-modules)
- [What the runs check](#what-the-runs-check)
- [What is proved](#what-is-proved)
- [Disagreements found](#disagreements-found)
- [What is only model-checked, and what is not modelled](#limits)
- [Plan](#plan)

## The system

One Arduino task runs `setup()` and then `loop()` for ever. There is no second
thread of application code. What makes the program hard is that *almost every
call into the MQTT client may run the client*, which sends, receives and calls
back into `main.cpp` in the middle of a handler, and that such a call may block
for seconds while a relay is powered.

One pass of `loop()`:

```
feedWatchdog  serviceUrgentPumpStop  servicePump  serviceWiFi  ArduinoOTA.handle
serviceMQTT (connect | abortTransition | service + serviceMqttSessionInit)
serviceUrgentPumpStop  servicePump  processCommandQueue  servicePump
[announce finished run]  serviceTelegramDelivery  serviceMoisturePublish  delay(1)
```

| Component | State | Operations | Talks to |
|---|---|---|---|
| **Pump session timer, watchdog** | `pumpRunning`, `pumpSessionStartMs`, `pumpPlannedDurationMs`, `watchdogSubscribed` | `startPump`, `extendPump`, `stopPump`, `servicePump`, `feedWatchdog`, `setupWatchdog` | relay GPIO; looked at only between blocking calls |
| **Pump control core** | relay, `urgentPumpStopPending`, `pumpStopEpoch`, `commandQueue[8]`, `rtcPumpWasRunning`, `notifyPumpDone` | `mqttMessageHandler`, `requestUrgentPumpStop`, `enqueueCommand`, `processCommandQueue`, `processHACommand`, `processCommand`, `startPump`, `stopPump`, `serviceUrgentPumpStop` | the MQTT client, from inside which STOP/OFF arrives |
| **MQTT session** | `mqttSessionInitState`, the tracked-subscription slot and its 6500 ms latch | `serviceMqttSessionInit`, `startTrackedSubscription`, `handleSubscribeAck` | runtime adapter; gates starts, reports and Telegram |
| **MQTT runtime adapter** | connection state, outbox depth, one tracked QoS 1 publish | `connectBlocking`, `service`, `publishBestEffort`, tracked publish, `forceDisconnect`, `abortTransition` | espMqttClient (external) |
| **Command envelope** | fragment assembly buffer | `handleIncoming`, `resetAssembly`, envelope and chunk policies | MQTT handler |
| **Telegram queue** | eight messages, one staged | `tgSend`, `serviceTelegramDelivery` | tracked publish |
| **Command texts** | none | `trimCommandBuffer`, `parsePositiveDecimal` | command handlers |
| **Wi-Fi** | interval, status | `serviceWiFi` | closes the MQTT connection |
| **OTA** | `otaTransferStarted`, rollback | `onStart`, `onError`, `onEnd` | forces the pump off |
| **Moisture telemetry** | `moisturePublishActive`, `moisturePublishSensor`, `lastMqttPublish` | `startMoisturePublish`, `serviceMoisturePublish`, reports | calls `servicePumpCriticalNetworkInput()` after a sensor |
| **Discovery, event log, syslog, NTP, texts** | none that control reads | formatted best-effort output | MQTT client |
| **Build scripts** | none | render and check the sources; OTA upload | build only |

What makes each correct, and where it is hard:

- *Timer.* A run ends. It is bounded by its plan and by the hard limit, across
  a wrap of `millis()`, however often it is extended, whatever blocks. The
  timer is looked at between blocking calls only; the task watchdog is the
  only bound on a call, and its set-up may fail.
- *Control core.* The relay is powered only in a session that nobody has asked
  to stop. A start that a STOP has overtaken never powers it. A start that is
  cancelled leaves no retained `ON` to be sent later. While the pump runs the
  link stays free for a STOP. Hard: a STOP lands inside any of a dozen client
  calls, among them two inside `startPump()` itself; the outbox may be full; a
  half-open link loses packets; a reset falls between the relay and its RTC flag.
- *MQTT session.* "Done" means both command subscriptions were granted at
  QoS 1; a late SUBACK does not undo a timeout; a failed initialisation does not
  cut the link under a running pump.
- *Adapter.* A best-effort packet is queued or dropped, never both; a tracked
  message keeps its slot until its own PUBACK, across reconnects.
- *Command envelope.* A command is assembled from consecutive fragments of one
  message or not at all.
- *Telegram queue.* A notification is held until the broker has it, by the queue,
  the slot or the client, and by no two of them; only a full queue or a reset
  loses one. Hard: lost connections, repeated publishes, late answers.
- *Command texts.* `laist_X` asks for X minutes, within the limit, or for nothing;
  no overflow at the bound.
- *Telemetry.* A sweep reads every enabled sensor once, an interval after the last
  one began; it never writes in front of a command or while the pump runs. Hard:
  all of that may change, and the sweep be reset, inside a measurement.
- *OTA.* The relay is off from the first sign of a transfer to the restart.

The hazards this gives, each at its line, are listed under `hazards` in
`PROJECT.json` with the properties that cover them or the reason none does.

## The modules

| Module | Models |
|---|---|
| `Uint32Time` | `millis()` and the unsigned elapsed time that every timer uses |
| `PumpTiming` | the rest of `include/pump_timing_policy.h` as operators: normalised request, bounded extension |
| `PumpTimer` | the session timer, `loop()`'s blocking parts, the watchdog, real time |
| `PumpControl` | one pass of `loop()`: urgent stop, command FIFO, `startPump()`/`stopPump()`, MQTT client, session phases, OTA, Wi-Fi, Telegram slot, telemetry |
| `PumpStatus` | what Home Assistant sees of the pump: the retained status against the pump, with the history of refused ones |
| `PumpContract` | abstract: what a sender of commands is promised |
| `RunContract` | abstract: a run of the pump, as timer and control core both have it |
| `SessionContract` | abstract: the MQTT session, as `MqttSession` and the control core both have it |
| `SlotContract` | abstract: the slot of the tracked publish, as `TelegramDelivery` and the control core both have it |
| `PumpControlRefinement` | `PumpControl` implements these four contracts |
| `MqttSession` | `serviceMqttSessionInit()`, the tracked-subscription slot with its latch, the broker's answers, time |
| `RingQueue` | the ring that `main.cpp` keeps twice, as `commandQueue` and `telegramQueue`, as operators |
| `TelegramDelivery` | `tgSend()`, `serviceTelegramDelivery()`, the tracked publish, the client that repeats it, the broker's acknowledgements |
| `TelegramContract` | abstract: what becomes of a notification |
| `TelegramDeliveryRefinement` | `TelegramDelivery` implements `TelegramContract` and `SlotContract`; its liveness |
| `CommandAssembly` | `handleIncoming()`: fragments, buffer, rejection |
| `CommandParse` | `parsePositiveDecimal()` and the request `laist_X` makes of it |
| `MoisturePublish` | the periodic telemetry: interval, sweep, sensor by sensor |
| `MC*` | instances for TLC |
| `*Proofs` | theorems and proofs |

`PumpTimer` and `PumpControl` are two views of the same loop. The first has
time and no network, the second has the network and lets the timer be due at
any moment. Every behaviour of the timer is therefore allowed in
`PumpControl`, and what `PumpControl` proves does not depend on time.
`MqttSession` is the third view: the session in full and with time, the pump
as a flag that goes up only in a ready session and down at any service point.
`PumpControl` has the session as five phases, whose calls, failures and guards
are those of the steps `MqttSession` spells out.

What two views share is stated once, as a contract that both implement:
`RunContract` (relay, session of the pump, stop flag, announcement) by
`PumpTimer` and `PumpControl`; `SessionContract` (client, five phases, pump)
by `MqttSession`, where a phase is a set of states, and `PumpControl`, where a
half-open connection counts as connected; `SlotContract` (phase of the tracked
publish, pump) by `TelegramDelivery` and `PumpControl`. So what one view
assumes of the pump, the session or the slot the other does: the
pump starts only in a session that is through and with the slot free, no
session begins and nothing is handed over while it runs, and no stop is
forgotten. A contract has no fairness; it says what may happen, and not when.

### PumpTimer

`pc` names where the loop task is; code between two blocking calls takes no
time and is one action. Time passes

- in the blocking parts: `"net"` (Wi-Fi, OTA, MQTT service), `"sense"` (the
  sensor reads of a report), `"tail"` (Telegram, telemetry, `delay(1)`);
- anywhere while the relay is off, so that the writes of `stopPump()` and
  `startPump()`, which happen before the relay is powered or after it is
  released, are covered without a location of their own.

`millis` is a counter modulo `Millis` that starts anywhere (2^32 on the
device). `sinceFeed` is the watchdog's own timer. `onTime` (true on-time of
the run, saturated at `Millis`) is a ghost: nothing in the model reads it but the
properties. An OTA transfer is a `Restart` here: the relay is off from `onStart`
on. The OTA error before `onStart`, which returns into the loop, is an action;
so is the STOP that reaches `processCommand()` or `processHACommand()` by the
queue since its padding hid it from the callback (`StopCommand`).

`OneNoticePerRun` is about every step that ends a run (`RunEnds`), whichever
code it is: it must make a notice due that was not due before, nothing else may,
and only the announcement in `loop()` may settle it. Two ends are exempt,
both in the property's own words: a reset, and the OTA error before the transfer,
whose run the code never announces (finding 2).

### PumpControl

Every call into the MQTT client is a value of `pc` in `Windows`. While `pc` is
there, and only then, the client delivers commands (`Deliver`, which is
`mqttMessageHandler()` with the urgent path or the FIFO), sends (`Send`),
acknowledges (`PubAck`) and notices a lost connection (`ConnectionLost`).
The link may break unseen at any time (`LinkBreaks`: `conn = "halfOpen"`), and
a reset may come at any time (`Restart`). What the code does between two calls
is one action.

`publishBestEffort()` is the operator `PublishBestEffort(allowed, packet,
window, otherwise)`: the packet is queued and the client serviced (continue in
`window`), or it is dropped (continue at `otherwise`). So `startPump()` is

```
ProcessCommandQueue -> startNotice -> PublishOn -> startStatus
                                                     |-> CancelStart
                                                     |-> EnergiseRelay -> RememberRun
```

with a STOP possible in both windows. `stopPump()` is `StopPump` (relay and
session), `ForgetRun` (RTC flag, event log), `FinishStop` (retained `OFF`).
`EnergiseRelay` / `RememberRun` and `StopPump` / `ForgetRun` are apart because a
reset between relay and RTC flag is told wrongly at the next boot.
`CrashRemembered` says how: at `"started"` a run can only be missed, at
`"stopping"` one that is over can only be reported, and nowhere else do flag and
pump differ. In `forcePumpOffForOtaSafety()` the two are one action: nobody but a
reset looks at the flag there, and a reset in the middle leaves what one just
before it leaves. `ret` is the return address of `stopPump()` and of the urgent stop.

A start waits at the head of the queue until the link is up, the slot free
and the outbox empty (`shouldDeferQueuedPumpStartForNetwork`), its own PUBACK
included. `StartsWait` says what that is for: a start that leaves the queue with
the pump off, and that no STOP has overtaken, is not refused by `startPump()`.

A `Command` is what the core tells apart: origin, kind, and whether the payload
starts with a character that `trimCommandBuffer()` keeps and `String::trim()`
drops (`padded`). `retained` is what the broker holds for the pump status
topic. `outbox` is the client's send queue, `tracked` the slot of the tracked
publish; an inbound QoS 1 command leaves its `"ack"` in the outbox.

The client library is external: its sending, receiving and clean-up on
disconnect (only an unacknowledged QoS 1 publish survives) are modelled as the
adapter and `docs/MQTT_RUNTIME_BOUNDED_TRANSPORT.md` use them.

`PumpStatus` adds the history variable `unsaid`: the pump has stopped, its `OFF`
was not queued (the client refused it for a full outbox or want of memory, or
an OTA error omitted it), and no status has been queued since.
`publishPumpStatus()` is not repeated by the code, so the plain promise,
`StatusSettled`, does not hold. `StatusErrsOnOnly` does: in a settled session
(live, initialised, no status left to send, no stop outstanding, the commands of
the pass done) a running
pump is seen as `ON` always, and a stopped one as `OFF` unless `unsaid`.

Left open, so that any choice is allowed: when the timer is due, Wi-Fi status,
the reconnect, session and telemetry intervals, the length of the Telegram
backlog, how many sensors a report reads.

### MqttSession

`session` is `mqttSessionInitState`, one action per kind of step and one step a
pass. A step that hands a packet to the client is two actions (`PublishStep` /
`FinishPublish`, `StartTrackedSubscription` / `FinishSubscribe`) with a call
between them, in which answers arrive, the connection is lost and time passes;
the same happens in `mqtt.service()` (`pc = "service"`) and in the rest of
`loop()` (`pc = "rest"`). `tracker` is the adapter's slot. `handleSubscribeAck`
latches before it matches the packet id, as the code does; the other places
that latch are `FinishService`, `FinishSubscribe`, `ServicePumpCritical` (the
sensor reads of a report) and the service of a closing connection.

The broker is external: it may answer any SUBSCRIBE of this connection
(`asked`) at any time and repeatedly, because the client repeats one after
`kMqttAckTimeoutSeconds`; its `verdict` on a topic is chosen per connection. A
SUBSCRIBE gets an id that no other of its connection has, which is what the
library promises. `wifiMissed` lets Wi-Fi fail between `serviceWiFi()`'s look
and `serviceMQTT()`'s in one pass but not in two in a row, because a Wi-Fi that
stays down closes the connection. `age` is a ghost: the true time since the
slot was taken, up to the budget.

`TelegramDelivery`, `CommandAssembly` and `CommandParse` stand before and after
`PumpControl`: assembly and parsing yield the commands it receives, its notices
go to the slot and the queue. What passes between them is a command or a
notification and a busy slot, so they are checked apart. `MoisturePublish` is the
last part of a pass in full; what it gives way to is left open there.

### TelegramDelivery and RingQueue

`pc = "client"` stands for every call into the client, in which packets are sent
and callbacks run; the code between two calls is one action. `slot` is the
adapter's tracked publish with its phase and packet id. `library` is what the
client holds for sending: a QoS 1 publish stays there until its PUBACK, and a
reconnect keeps it (the client cleans up the rest), so that `BrokerReceives`
may happen any number of times to the same publish, on later connections too.
`acks` are the answers under way on this connection; `Copies` bounds how many
per publish. A packet id is taken that nothing under way on the connection has,
which the library has 65535 of.

`TgSend` takes the slot if it is free and the queue otherwise, so it may
overtake; `ServiceTelegramDelivery` moves the head of the queue to the slot
and pumps it, in one pass. `pumpTrackedPublish` may find no room in the
outbox (left open). `delivered` and `handed` are ghosts: what the broker has
received, what the client was given. A message is a name that is used again
only when nothing of the old one is left in slot or queue.

`queue` is the ring itself, slots, head, tail and count. What it stands for,
`Contents(queue)`, is a sequence; `TelegramContract` knows only that.
`commandQueue` is the same ring, and `PumpControl` has the sequence.

### CommandAssembly

One call of `handleIncoming()` is one action; `begun`, `checked`, `stored` are
its parts, in order. `Fragments` is any set of fragments with index, length,
total, metadata and payload, a null payload included, and each comes at any time.
`Reset` is what a lost connection does. The buffer is `commandBuffer_` and some
memory behind it, `Untouched` if nothing was written there. `std::size_t` wraps
at `SizeRange`. (`index + len` cannot wrap in a call from MQTT, whose remaining
length is below 2^28; the sizes that do are in the model because
`isChunkSequenceValid()` is written for any.) `received` (the fragments of the current message, from a first
one or from a stray one) and `reports` are ghosts. A message is `Whole` by its
fragments alone: nothing of the code's own bookkeeping is in that definition.

### CommandParse

`parsePositiveDecimal()` reads a character a step, in arithmetic modulo
`Modulus`. The text is not known in advance, and when the code has given up, the
rest is read on by the ghosts (`length`, `plain`, `exact`), so that the answer is
compared with the whole text. `maxSeconds` is any limit; `laist_X` asks for
`minutes * 60`.

### MoisturePublish

`pc = "pass"` is the rest of `loop()`. From the test of the interval to the
measurement no code of others runs (`"service"`); in `"input"`, after the
measurement, and in `"publish"` the client calls back. `waiting` is what the sweep
gives way to: commands, queued notifications, the busy slot. It pauses for those
and is reset by a pump run or a lost connection, in this order of looking, as
in the code: a sweep may sleep through a whole pump run whose notification
waits. `measured`, `age` and `fresh` (no sweep yet in this session, whose first
is due at once) are ghosts. A measurement is `usable` or not.

### Mutants

An operator whose comment starts with "Mutant" is not part of a model. It is
the operator after it with a plausible mistake: a dropped guard, a missing
reset, a swapped order. Every property of every passing run has one with which
TLC finds it violated (`mutants` in `PROJECT.json`), so no property holds
whatever the code does.

## What the runs check

| Run | Instance | Properties | Shows |
|---|---|---|---|
| `timer` | 12-tick counter, 2 ticks a second, hard limit 4, watchdog 3, requests of 0, 2 and 5 s, watchdog armed or not, fair | `TypeOK` `TimerIsTrue` `PlannedRun` `OneNoticePerRun` `ImplementsRunContract` `PumpStops` | the timer is true across a wrap; a run outlasts neither its plan nor the limit by a watchdog period; every finished run but that of finding 2 is announced exactly once; with the watchdog armed a powered relay is always switched off; its runs are those of `RunContract` |
| `session` | 9-tick counter, SUBACK budget 2, critical budget 1, discovery window 3, passes of up to 1 tick more than their `delay(1)`, one sensor, two packet ids, an accepting and a refusing broker, fair | `TypeOK` `SessionGate` `SlotFollowsSession` `AcceptedInTime` `ImplementsSessionContract` `SessionSettles` | nothing counts as subscribed that the broker has not granted in time on this connection; every initialisation ends; its phases are those of `SessionContract` |
| `telegram` | queue of 2, four messages, two packet ids, two answers to a publish, fair | `TypeOK` `InFlightIsHeld` `PublishedOnce` `ImplementsContracts` `QueueDrains` | no notification is lost but by a full queue or a reset, none is published twice by the firmware, none in a run, and the queue empties |
| `assembly` | buffer of 2 bytes and 2 behind it, sizes modulo 8, 47 fragments: every cut of messages of up to two bytes, oversized, retained, QoS 2, null payloads, wrapping sums; messages of up to 3 fragments | `TypeOK` `HandedOnWhole` `ReportedOnce` `BufferIsEnough` | only whole messages are handed on, with their own bytes |
| `parse` | integers modulo 48, every limit, texts of up to 4 of six digits and a letter | `TypeOK` `ParsedExactly` | no text is taken for another number |
| `timer_hard_limit` | as `timer`, watchdog armed | `ExactHardLimit` *(violated)* | the limit alone is not a bound |
| `control` | FIFO of 2, outbox limit 2, start and stop, both QoS, allocation failures, both OTA events, 2 stops | `TypeOK` `RelayFollowsIntent` `NoStaleOn` `PumpRunsQuiet` `CrashRemembered` `NoStaleStart` `StartsWait` `ImplementsSharedContracts` | the core is safe in every interleaving; a start is not lost to the network; run, session and slot are those of the contracts |
| `control_kinds` | every kind of command | `ImplementsContract` | the core implements `PumpContract` |
| `control_settles` | `MCPumpStatus`: FIFO of 2, outbox limit 2, both QoS, both OTA events, 1 stop, no allocation failures, fair | `StatusErrsOnOnly` `LoopGoesOn` `StopReconciled` | the loop waits for nobody; an accepted STOP is reconciled; a settled session shows a wrong status only as an `ON` whose `OFF` was refused or omitted |
| `moisture` | four channels, two enabled, interval 3 on a 7-tick counter, passes of up to 1 tick more than their `delay(1)`, fair | `TypeOK` `SweepIsWhole` `TelemetryYields` `SpacedSweeps` `TelemetryGoesOn` | sweeps are complete, spaced, out of the way, and go on |
| `control_ota_status` | one start, OTA errors | `StatusSettled` *(violated)* | a finding |
| `control_padded` | a padded start, a stop | `NoStaleStart` *(violated)* | a finding |

No run repeats what another property already implies; the theorems say it all the
same. `BoundedRun` follows from `TypeOK` (no plan is longer than the limit) and
`PlannedRun`; the timer's `RelayFollowsIntent` from `RunContract`, where a
run starts with no stop outstanding and every stop takes the relay off; `PumpHasSession`
from `SessionContract`; `RequestWithinLimit`, that sixty times the accepted value is asked for
and no more than the limit, from the exact value of `ParsedExactly`.

**Bounds.** `Millis = 12` exceeds limit plus watchdog (7) as 2^32 ms exceeds
210 s, and the counter starts anywhere, so each run also wraps. Two ticks a second
keep a second and a tick apart. Requests cover "default", "within" and "above
the limit"; since a session may be extended any number of times, the limit is
reached by one request and by several. A FIFO of two overflows, and holds a
start before and after a stop. `MaxEpoch` bounds urgent stops and OTA events
between two resets (two: one stop before a start and one after it; a reset
brings both back). `MaxOutbox` bounds acknowledgements only; the firmware's
own packets are bounded by `MaxBestEffortPackets`. With a limit of two in
`control_settles` one acknowledgement and the event log of a stop fill the outbox, so
that its `OFF` is refused; without the exemption of `unsaid` that run finds the stale `ON`,
with no OTA error needed. Allocation failures, which refuse it as well, are in `control` and in
the proof. Each of the limits is reached in its run. No bound is needed on time or on the number of runs.
In `telegram` a queue of two fills, drops and wraps; four messages are one more
than slot and queue hold, and two ids let an old answer meet a new publish. In
`assembly` three fragments are a first, a middle and a last one; a sequence of
messages has no bound. In `parse` the integers wrap within two digits more than
the limit has, which a width of 32 bits does with nine; the proofs have any width.
In `moisture` a disabled channel comes before an enabled one, and the last is
enabled, so a sweep ends both at once and, after a dropped value, a pass later.
In `session` the counter wraps many times; the budgets differ so that each can
run out first, and two ids are as many as a connection uses. All refusals lead
to the same state, so one stands for the five.

**Fairness.** `WF_vars(LoopStep)`: the loop task keeps running and every
blocking call returns. The calls have timeouts (`connectBlocking`, socket, SUBACK,
`forceDisconnect` budget); where one fails to return, `PumpTimer` has the
watchdog reset, which is fair too (`WF_vars(WatchdogReset)`) because it is
hardware. Nothing is assumed of the network, the broker or the sender:
`PumpStops`, `StopReconciled` and
`SessionSettles` need none of them, and `TelemetryGoesOn` only that from some time
on the session is up and there is nothing to give way to. The code does not guarantee that a
deferred start is ever taken, so no property says so.

`QueueDrains` is the exception, since delivery takes two: it says what the
firmware does *if* the network works. Its premise is that from some time on the
session is ready, the pump off and nothing new is sent; `FairNetwork` adds that
what the client holds reaches the broker, that answers get back, and that
the outbox has room time and again. `FairLoop` is the loop going round.
Without the first half of the premise the code itself does not write, and without
the last a stream of new messages may overtake the queue for ever.

**Deadlock** is checked in every run: the loop never blocks for good, and the
assembly and the parser always take another fragment or text.

## What is proved

TLAPS checks every proof, for all values of the constants: any counter width,
limits, watchdog period, queue sizes, sets of commands and OTA events.

**PumpTimerProofs.** `TypeCorrect`, `RelayIsIntended`, `TimerTellsTheTruth`,
`RunsAreBounded`, `PlansAreKept` and `NoticesAreExact`, from
the invariant `IInv`. Assumed: positive limits (`PumpSecondsAssumption`) and
that limit plus watchdog period stay below the counter's range
(`WatchdogAssumption`, 210 s against 49.7 days).

`BoundedRun` is not inductive: it says nothing about how far the timer check
is away. `LagInv` does. While the relay is on and the watchdog armed, the
computed elapsed time *is* the true on-time, and that is behind the planned end
by less than the time since the last feed, because every code path that
feeds the watchdog also looks at the timer; only between the feed that opens
`loop()` and the look that follows it the slack is a whole watchdog period.
`PlannedInv` (a session always has a plan) makes the look effective.
`SavedRunInv` is what makes notices exact: a run may start while the last one
is unannounced only if no time passes before the announcement, so it cannot end
before it and lose a notice of its own. `NoticesAreExact` is about every end of a
run but the two the property exempts.

`RunIsKept` is the refinement of `RunContract`. From the contract alone follows
`StopsAreNotForgotten`, and from both `AcceptedStopsAreNotForgotten`: the flag of
a stop goes down only with the pump off.

**PumpControlProofs.** `TypeCorrect`, `RelayIsIntended`,
`RefusedStartLeavesNoOn`, `PumpKeepsTheLink` (`PumpHasSession`),
`PumpKeepsTheLinkFree` (`PumpRunsQuiet`), `ResetIsRemembered`, `NoStartIsStale`,
`StartsAreNotRefused`, the refinements `ContractKept`, `RunIsKept`, `SessionIsKept` and `SlotIsKept`,
`StatusIsTrue`, and the liveness of `StopIsReconciled`.

The inductive invariant is `TypeOK /\ Core`. `Core` joins the safety
properties, which need each other, with two facts: `PlaceInv` (inside
`startPump()` the pump is off, a start is in hand, and a live link has its
session; after the relay the pump runs; `stopPump()` returns to a service
point of the loop) and `LinkInv` (a closed connection has no outbox). The
argument for the link: `EnergiseRelay` requires an empty outbox and no tracked
packet, nothing the firmware does while the pump runs writes or reconnects, and
a callback adds acknowledgements only. `NoStaleOn` holds since the one place
that queues an `ON` either finds the outbox empty afterwards or closes the
connection. There is one lemma per action; `PumpLeftAlone` and `OnlyCloses`
carry the many actions that touch neither pump nor stop flag.

`NoStartIsStale` adds `FreshItem`: the start in hand has the current epoch, or
a stop is waiting that will cancel it. It assumes `NoPadding` (no command
starts with `\v` or `\f`), without which it is false: run `control_padded`.

`ContractKept` (`PumpContract`, under `NoPadding`, too) counts the fresh starts in
FIFO and hand. `CountAt` says what the count does when a sequence loses its head
or gains a last entry, and every step then has one of five shapes: `Keeps`,
`Takes`, `Adds`, `Overtakes`, `Loses`. `EpochInv` (no entry is newer than the
epoch) makes a stop overtake all of them; `HandInv` makes what is in hand one
start at most.

`StatusIsTrue` is `StatusErrsOnOnly`, and assumes nothing: any outbox, any number
of acknowledgements, a library that refuses memory, OTA errors, padded commands.
`SaidInv` says that the last word said about the pump (`LastWord`: the last
status in the outbox, or what is retained if none is there) is the true one, or
that the loop stands in front of saying it (`StatusOwed`), or that the pump is off
and its `OFF` is missing, which `unsaid` remembers (`OffMissing`). The step that
refuses an `OFF` goes over from the second to the third (`SaidOrMissing`); an `ON`
that is refused makes no run, since `startPump()` returns.

`StartsAreNotRefused` goes through the refusals of `startPump()` one by one
(`TakenIsAccepted`): pump and stop flag are premises, the rest is what the
deferral looked at, in the same step.

`RunIsKept`, `SessionIsKept` and `SlotIsKept`, together `SharedContractsAreKept`,
are the other halves of what
PumpTimerProofs, MqttSessionProofs and TelegramDeliveryProofs show.
`startPump()` looks at the session and at the slot two calls before it powers the relay;
`ThroughInv` and `SlotFreeInStart` say that both are still as they were then
(the link may be gone, but its session is not over and no other has begun).

`StopIsReconciled` is `StopReconciled` for every instance. It assumes
`LoopGoesOn`, that the loop task makes a step again and again, instead of
weak fairness; run `control_settles` checks that the one follows from the other
(the loop is never blocked, which is a matter of `ENABLED` and out of the
prover's reach). `Ahead` counts the steps from a place of the loop to the next
`serviceUrgentPumpStop()`, `toService` adds the rest of a `stopPump()` in
progress, and the proof is that every step of the loop makes it smaller
(`Closer`), that nobody else makes it larger, but for a reset, which stops the pump
(`NotDelayed`) and that it is never above 20 (`ServiceIsNear`). So the
argument is finite, and an accepted stop is reconciled within 21 steps
of the loop, whatever network, broker, library and sender do.

**MqttSessionProofs.** `TypeCorrect`, `GateHolds`, `SlotIsConsistent` and
`AcceptedOnlyInTime`, for any budgets, pass length, sets of packet ids and
answers. Assumed: `BudgetAssumption`, a budget plus three passes stays below
the counter's range (with passes that the
task watchdog bounds, under two minutes against 49.7 days). `SessionIsKept` is
the refinement of `SessionContract`; from the contract follows
`NoSessionBeginsInARun`: while the pump runs the session is through or gone, so
a failing initialisation never finds the pump running. The branch at main.cpp:1578-1581,
which keeps the link for a running pump, is therefore never taken; the model
has it, and the runs show it is not needed.

The gate is not inductive: it says nothing of how the session got there.
`SlotInv` ties the slot to the state and its packet id to the topic now asked
for, `AskedInv` makes ids tell one SUBSCRIBE of the connection from another, and
so an answer that resolves the slot is the broker's word on the current topic
(`GateInv`), which each of the two steps carries past the gate. For the
deadline, `ClockInv` says that the elapsed time computed from `millis()` is the
true one up to the budget. It can lag behind the latch, since the clock is
looked at once a pass only: `SinceLook` bounds how long ago that was, by which
`millis()` cannot have lapped the budget unseen.

**RingQueueProofs.** `DequeueIsTail` and `EnqueueIsAppend`: for any size, the
ring's operations are those of a bounded sequence that gives up its oldest
entry. The argument is index arithmetic modulo the size: `IsRing` says that the
tail is head plus count, so the next free slot is none of those in use.

**TelegramDeliveryProofs.** `TypeCorrect`, `InFlightIsAlwaysHeld`, `HandedOnce`
and `ContractKept`, the refinement, for any size, messages, ids and copies.
Assumed: the free mark is no message and 0 no packet id. `InFlightIsHeld` and
types alone do not show that a slot is released only for what the broker has:
the invariant adds that an answer under way is for something delivered, or for a
publish that is gone, whose id no new one has (`FreshId`), and that
what was handed to the client is not waiting again. The refinement step then
splits by action, and `DequeueIsTail` and `EnqueueIsAppend` turn each
step of the ring into one of the contract's sequence. `SlotIsKept` is the refinement
of `SlotContract`; from the contract follows `NothingInFlightInARun`.

**CommandAssemblyProofs.** `TypeCorrect`, `CommandsAreWhole`,
`RejectionsReportedOnce` and `BufferNeverOverrun`, for any buffer, any range of
`std::size_t` and any set of fragments. Assumed: a payload is as long as its
length says or null, and 0 is a packet id (`FragmentAssumption`,
`AssemblyAssumption`). The invariant says that a message is refused exactly if
its fragments are out of order (`AssemblyInv`), and that until then the buffer
holds their bytes, all of them before the next index (`ProgressInv`).
`HandledIsJudged` joins the three ways a fragment can come: first, stray, later.

**CommandParseProofs.** `TypeCorrect`, `TextsAreParsedExactly` and
`RequestsStayWithinLimit`, for texts of any length, any limit and any width.
The value is the exact one while the code reads, since the test before a digit
is equivalent to the sum not exceeding the limit (`TooLargeIsExact`); once it has
refused, what has been read is already no number up to the limit, and no
rest can change that (`ReadingInv`).

**MoisturePublishProofs.** `TypeCorrect`, `SweepsAreWhole`, `TelemetryGivesWay` and
`SweepsAreSpaced`, for any channels, any of them enabled, any interval and width.
Assumed: interval and pass stay below the counter's range (`IntervalAssumption`).
`SweepInv` says that a sweep belongs to a session and has measured just what lies
behind its index. `ReadingInv` is what makes the second look at the session enough
after a callback: between a measurement and its publication a session that
is ready is the one the sweep began in, for it cannot become ready there.
`ClockInv` ties the computed interval to true time as long as it matters.

## Disagreements found

1. **The hard limit is not absolute** (`timer_hard_limit`). `docs/SAFETY.md:8`
   says 180 s is the absolute hard limit of a session. `servicePump()` compares
   only between blocking calls. What holds is `BoundedRun`: the limit plus one
   watchdog period, if the watchdog is armed.
2. **An OTA error before the transfer leaves a retained `ON`**
   (`control_ota_status`). `forcePumpOffForOtaSafety()` ends the run outside
   `stopPump()`: no status, no notice. Without a restart the broker keeps `ON`.
3. **A padded start is no start for the stale suppression**
   (`control_padded`). `trimCommandBuffer()` and `String::trim()` differ in
   `\v` and `\f`; the epoch check looks at the first, the handler at the second.

One more, static and without a run: `docs/MQTT_HOME_ASSISTANT.md` speaks of
twelve active sensors, `include/sensor_enable_policy.h` enables ten.

<a name="limits"></a>
## What is only model-checked, and what is not modelled

Every invariant and action property of a passing run is proved for all values of
the constants, and so is every refinement. Only model-checked: the liveness of
`PumpStops`, `SessionSettles`, `QueueDrains` and `TelemetryGoesOn`, whose
arguments count down a time or a queue length that is a constant of the model (an
induction under a temporal operator, which the prover does not have), and
`LoopGoesOn` from fairness (`ENABLED`). `NoStaleStart` and
`ImplementsContract` are proved without padded commands, as said above. `StatusSettled`
is not a property of the code (finding 2, and a refused `OFF`); `StatusErrsOnOnly`
is what is left of it.

Not promised, since the code does not: that a refused `OFF` is said later in the
same session, that a deferred start is ever taken, and that a boot warning
survives a second reset.

Not modelled, for a reason: discovery, event log, syslog, NTP and status texts
(output only; where they write to the client the write is there); multiplexer and ADC average (hardware and plain arithmetic); the
ArduinoOTA transfer itself, which ends in a restart with the relay off; build
scripts and the OTA uploader (sequential, no state). What the relay pin shows
before `setup()` has written it is electrical.

## Plan

What is left: `PumpControl` with the assembly and the parser before it in one
run. The commands it takes now are all they can yield, so nothing new can
happen; the run would show it.
