# XDK MQTT firmware: specification, model checking and proofs

This directory holds a TLA+ model of the firmware in `src/`: an MQTT publisher
for the Bosch XDK (FreeRTOS on a Cortex-M with a hardware watchdog). It joins a
WLAN, connects to an MQTT broker, subscribes to a command topic, publishes the
values of five sensors every three seconds and reacts to remote commands.
Paths below are relative to `src/`.

* [1. The system](#1-the-system): components, state, operations, hazards
* [2. The modules](#2-the-modules): what models what, and how
* [3. The runs](#3-the-runs): what is model-checked, within which bounds
* [4. Where code and documentation disagree](#4-where-code-and-documentation-disagree)
* [5. The proofs](#5-the-proofs)
* [6. What is not modelled](#6-what-is-not-modelled)
* [7. The plan](#7-the-plan)

## 1. The system

### 1.1 Components

| component | source | state it keeps | operations |
|---|---|---|---|
| task life cycle, watchdog | `src/tasks.c`, `src/main.c` | five task handles (never assigned), `killTick`, `wifiConnected`, `enabledSensors`; the watchdog counter | `appInitSystem`, `WifiConnectInit`, `WifiReconnect`, `MqttConnectInit`, `MqttConnectionTask`, `MqttSubscriptionInit`, `MqttSubscriptionTask`, `TickInit`, `Tick`, `TickKill`, `CommandHandlerInit`, `Restart`, `ButtonOneCallback` |
| WLAN | `src/wifi.c` | `wifiInitDone`, the callback | `WiFiInit`, `WiFiDeinit` |
| MQTT session | `src/mqtt.c` | the client object, its two buffers, `deletePolling`, `pollingPeriod` | `MqttInit`, `MqttConnect`, `MqttSubscribe`, `MqttSendData`, `MqttYield`, `MqttStopPolling`, `MqttSetPollingPeriod` |
| MQTT client | `src/MQTTClient.c` | `next_packetid`, `isconnected`, `ping_outstanding`, `ping_timer`, `messageHandlers`, `buf`, `readbuf` | the API of `inc/MQTTClient.h`; inside it `sendPacket`, `readPacket`, `cycle`, `keepalive`, `waitfor`, `deliverMessage` |
| transport and timers | `src/MQTTXDK.c` | `MilliTimer`, `end_time` per timer, the socket | `sysTickIntHandler`, `countdown`, `expired`, `left_ms`, `xdk_read`, `xdk_write`, `ConnectNetwork` |
| remote commands | `src/controls.c` | the token array | `CommandConfigHandler`, `LedControl`, `PeriodControl`, `SensorControl` |
| LEDs, button | `src/leds.c`, `src/xdkbutton.c` | handles | `LedSet`, `ButtonOneInit` |
| sensors | `src/*data.c` | the shared `SensorData` | five getters |

The JSON parser (jsmn), the MQTT packet library (paho), FreeRTOS and the
drivers of the SDK are external and absent from the repository.

### 1.2 How they interact

`appInitSystem` switches the watchdog on, tries the WLAN once (creating
`WifiReconnect` if that failed) and creates `MqttConnectionTask`, which polls
`wifiConnected`, opens the connection and creates `MqttSubscriptionTask`, which
subscribes and creates `Tick` (the publisher, priority 2) and `MqttYield` (the
poller, priority 4). From then on two tasks use one MQTT client object and its
buffers without a lock. Received commands run in the poller and change
`enabledSensors`, which `Tick` reads, the LEDs, which `Tick` and the button
write too, and `pollingPeriod`. Tasks are stopped through two flags, `killTick`
and `deletePolling`, that the tasks poll. Every loop but the poller's feeds the
watchdog, which resets the chip after eight seconds without a feed.

One fact decides all of the recovery. The task handles are passed to
`OS_taskCreate` **by value** and never assigned, so they are `NULL`, and
`OS_taskDelete(NULL)` deletes its caller. `Restart` therefore ends the task
that calls it in its second statement: nothing after `tasks.c:101` is ever
executed, and it is the watchdog that restarts the device.

### 1.3 What is hard, and what makes it correct

`PROJECT.json` lists each hazard at its line. In groups:

* **Life cycle** (`tasks.c`, `main.c`, `mqtt.c`): tasks that create each other
  and stop each other by flags, a button that fires at any moment, task
  creation that fails unnoticed. Correct: one user of the client while a
  command waits for its answer, service only over the one connection that was
  opened, at most one context in the WLAN driver, no poller left behind except
  by the button, no reset of a device whose tasks merely sleep, and after any
  failure a reset and measurements sent again.
* **The client** (`MQTTClient.c`): `waitfor` is made for one thread, no
  packet identifier is ever compared, the send buffer is shared, `cycle` turns
  failures into packet types, and a write that fails half way leaves a fragment
  on a link that stays in use. Correct: pings and their flag agree, packets are
  sent in an order the broker accepts, an answer belongs to its request, a wait
  ends unless the socket holds it, a message reaches the handlers whose filters
  match it.
* **Time** (`MQTTXDK.c`, `keepalive`): counters that wrap, compared through a
  signed difference; only the poller looks at the ping timer, and its period is
  set by remote commands. Correct: a timer expires exactly when its timeout has
  passed, and the device is silent no longer than its periods and failing
  writes explain, which keeps the link if the broker waits for that long.
* **Transport** (`MQTTXDK.c`, `sendPacket`, `readPacket`): short reads and
  writes, timeouts in the middle of a packet, a failing `sl_Recv`. Correct: the
  reader stays in step with the broker, and a send that is reported successful
  put the packet on the wire, whole and once.
* **Commands** (`controls.c`): fields in any order, repeated, nested or missing;
  the handler reads a token behind each key even where there is none. Correct:
  a documented command does what is documented and nothing else. (That one
  without a value of its own does nothing is not so, section 4.)
* **Sensors** (`*data.c`, `Tick`): one `SensorData` for all, never initialised;
  commands switch sensors while `Tick` walks over them. Correct: what is sent
  was measured just now, nothing measured is left out, a sensor that is switched
  off stops, and none is starved by others.

## 2. The modules

| module | models | extends |
|---|---|---|
| `Tasks` | the task level of the firmware with the watchdog | |
| `Supervisor` | an abstract specification of the task level: starting, serving, halted | |
| `ClientUse` | another: who may call the one MQTT client object, and when | |
| `TasksProofs` | theorems about `Tasks`, and that it implements `Supervisor` and `ClientUse` | `Tasks` |
| `MQTTClient` | the client library, the link and the broker | |
| `DeviceClient` | the client as the four tasks of the device use it | `MQTTClient` |
| `MQTTClientProofs`, `DeviceClientProofs` | theorems about the two | `MQTTClient`, `DeviceClient` |
| `Topics`, `TopicsProofs` | `deliverMessage`, `isTopicMatched`; theorems about them | |
| `Transport` | packets as bytes: `sendPacket`, `readPacket`, `xdk_read`, `xdk_write` | |
| `PacketLink` | an abstract specification of the link: whole packets, read in order, written whole or reported as failed | |
| `TransportProofs` | theorems about `Transport`, and that it implements `PacketLink` | `Transport` |
| `Timers` | the millisecond timers | |
| `Keepalive` | the ping timer with the tasks that look at it and restart it | `Timers` |
| `KeepaliveProofs` | theorems about the two | `Keepalive` |
| `Controls`, `ControlsProofs` | the command handlers and the settings they change; theorems about them | |
| `Sensors`, `SensorsProofs` | the getters, the shared `SensorData`, the loop of `Tick`; theorems about them | |
| `MCTasks`, `MCMQTTClient`, `MCDeviceClient`, `MCControls`, `MCTopics`, `MCTransport` | constants for TLC | the module they are named after |

A `...Proofs` module extends the module it is about and `TLAPS`;
`DeviceClientProofs` also extends `MQTTClientProofs`, whose lemmas on the types
of single operations it uses again.

The modules are composed in two ways. `DeviceClient` and `Keepalive` extend
the component they use. `Tasks` and `DeviceClient` meet in `ClientUse`:
`DeviceClient` lets a task call the client when `ClientUse!Allowed` permits it,
and `Tasks` is shown, and proved, to implement `ClientUse`. Likewise `Transport` and
`MQTTClient` meet in `PacketLink`: `Transport` is shown, and proved, to implement
it, and the ways a write may end in `MQTTClient` are the ones it allows.

### 2.1 Tasks

`pc[t]` says where each of the seven contexts is: the five that feed the
watchdog (`Feeders`), the poller and the button callback. A step ends where the
code blocks (`OS_taskDelay`, a call of the SDK or of the client) or where
another task may see the difference. `delay[t]` is what remains of its
`OS_taskDelay`; `wdog` counts the seconds since the last feed; `spent[t]` is a
history variable, the time the task has been awake or in blocking calls since
its last feed. `conn` stands for the connection (`closed`, `open`, `lost`), and
`Tick`'s loop over sensors and measurements is kept in `sensor` and `left`.

Each action bears the name of the function it models; a blocking call has one
action per outcome (`MqttInitOk`, `MqttInitFail`). `Restart` is the two
statements of the source that are executed. `Second` lets time pass: only when
no feeding task is ready to run, since computation takes no time on this scale, or
while the poller spins in `xdk_read`. `Reset` is the watchdog; once it has
expired (`~On`) nothing else happens.

`Device == INSTANCE Supervisor WITH phase <- Phase` relates the tasks to the
promise: `Phase` is `serving` while `Tick` exists, `starting` while it does not
exist yet and some feeding task does, and `halted` otherwise.

`Client == INSTANCE ClientUse WITH calls <- Calls` relates them to the
discipline of the client: `Calls` is, for each of the four tasks that use it,
whether it is in a call, may make one (`idle`), has made its only one
successfully (`ok`) or is gone.

### 2.2 MQTTClient and DeviceClient

Any thread may be inside any function of the client; `at[t]` is the place, with
one place before each write (`send`, `ack`, `ping`) and each read (`wait`),
since these are where the code blocks in `sl_Select`. Between serialising into
`buf` and writing, other threads run. What is written is whatever `buf` then
holds; if another thread has overwritten it, the broker gets `GARBLED`, for the
length written is that of another packet. A write succeeds (`Writes`) or fails
(`FailsToWrite`), and what fails may have put nothing, a part of the packet, or
the whole packet and bytes from behind it on the wire; `PacketLink` says that
these are the cases, and `Transport` implements it. `toServer` and `toClient` are the
packets under way, `session` and `subs` are the broker's. A timer is running or
expired and may expire at any moment: this contains every timing the
milliseconds of the source allow. The broker answers each packet as the
protocol says, accepting or refusing, as late as it likes or never.

`cycle` is followed step by step: `ReadPacket` (the switch over the packet
type, with the replies of `PUBLISH` and `PUBREC`), `ReadNothing` (a failed read
becomes the type 65535, not a failure), `ReadHangs` (the loop of `xdk_read` on
a dead socket, or `sl_Recv` on an open one that waits for the rest of a packet
without a timeout), `keepalive`, then `CycleGoesOn` or one of the endings
`Connected`, `Subscribed`, `Acknowledged`, `WaitEnds`.

`MQTTConnect` stands for `MqttConnect` of `mqtt.c` with all it calls: a new
socket and a client object set up anew, which is why the test of `isconnected`
in the library never fails there. It may be called again at any time;
`ConnectNetworkFails` then leaves a client without a link. `keepalive` looks at
its timer only, so `PingTimerExpires` asks for no more than a `CONNECT` that
started it: a client that polls after a `CONNECT` that was refused or timed out
sends a ping, and the broker, which takes nothing but a `CONNECT` from a client
it has not accepted, does not answer it.

`DeviceClient` restricts who calls what and when (`MayCall`), as `tasks.c`
does: connect, then subscribe, then publish and poll at the same time, each
task ending with its first failure (but the poller, which ignores what
`MQTTYield` returns). `MqttConnect` has `MqttInit` as its only living caller,
and that runs once between two resets. The order is that of `ClientUse`, the one `Tasks`
implements. `Reset` is the watchdog, at any moment.

### 2.3 Timers and Keepalive

`MilliTimer` and `end_time` count modulo `2 * Half`; `left` is their difference
read as a signed number. The history variables `rest` and `age` hold the
timeout and how long ago the timer was set, so that the property can speak of
real time rather than of the counters.

`Keepalive` is about `ping_timer`, for which `age` is how long the device has
been silent. `MqttYield` polls when its delay ends: the last cycle of
`MQTTYield` reads what has arrived and calls `keepalive`, commands it executes
may set `pollingPeriod` and switch sensors off, and then it sleeps. `Tick`
publishes every `PUBLISH_PERIOD`, or not, if no sensor is enabled or none can
be read; sending restarts the timer, and if it fails `Tick` gives the link up
(`TickFails`). A ping that cannot be written (`PingFails`) leaves everything as
it is, for nobody looks at what `keepalive` returns; the history variable
`tried` remembers how old the silence then was. `Time` never passes a delay that is due.
The broker answers a ping within `ANSWER` and drops the link once it has heard
nothing for `GRACE`.

### 2.4 Controls

A message is the sequence of its JSON tokens in document order, or
`Unparsable`. The handler looks at the odd positions and reads the token behind
each key, the last occurrence winning. Behind the last token of a message lies
a token of an earlier message: `Stale` chooses what it points at. A text is a
member of a small set; `Number` is what `sscanf("%d")` leaves. `settings` are
the LEDs, the enabled sensors and the two periods; `Tick` and the button, the
other writers of LEDs, are actions of their own. `last` is the message just
handled, for the action properties to refer to. What `Stale` chooses from are
all texts of all messages: the offset of a left-over token lies within the
payload at hand or in what an earlier one has left behind it in the buffer.

### 2.5 Transport

The broker sends a fixed `stream` of packets; `arrived` and `pos` are how much
of it can be and has been received. `Streams` holds the streams it may choose
from; each is given as its bytes with the place and length of each packet in
them, and `WellFormed` says how these belong together: a header byte, the
length in one to four bytes of which all but the last have the continuation
bit, the payload. `MCTransport` encodes the packets for TLC. One thread reads or writes at a time. The
place `at` is the byte or bytes a call of `xdk_read` is for (`header`,
`length`, `rest`) and `need` what its loop still asks `sl_Recv` for. The loop
takes any part of that (`RecvPart`) until the last (`Received`); an error of
`sl_Recv`, -1, is added to the count as if a byte had been taken back, and one
byte too many is read in the end (`RecvFails`). `torn` records that a packet
was left before its end: after a timeout in its middle, or after such an error.
The remaining length is encoded to the base `BASE`, 128 in MQTT; TLC takes 2,
so that lengths of up to four bytes stay small, the proofs take any.

`xdk_write` is repeated with `length` bytes each time, as in the source, and
takes any number of them; `wire` records the positions in `buf` of what went
out. One call of `sendPacket` ends (`Sent`) at any moment, for its timer or an
error may end it.

`Link == INSTANCE PacketLink WITH come <- Cardinality(Whole), read <- packets,
out <- Out` relates the bytes to the packets: `Whole` are the packets all of
whose bytes have arrived, `Out` is what the bytes on the wire are of the packet
in `buf` (nothing, a part, the packet, more). Receiving a byte in the middle of
a packet is a stutter there, the last byte is `Read`, a timeout or an error in
the middle is `Tear`. A tear is where the two models part: `MQTTClient` reads
whole packets, and what a client makes of the rest of a torn one is only in
`Transport`.

### 2.6 Topics

Filters and topics are sequences of characters and `curf`, `curn` positions in
them. `Advance` is one turn of the loop of `isTopicMatched`, in which a
wildcard skips the rest of its level or of the topic. `Decided`, `Compares` and
`Compared` are `deliverMessage` at one slot.

### 2.7 Sensors

`Tick` is followed through its two loops: the test of a sensor's flag, the call
of its getter, which clears `data` and then blocks in the driver, its two
outcomes, and one step per send. `SensorControl`, in the poller, which has the
higher priority, may happen between any two of them. A measurement is its name;
the history variables `wanted`, `fresh` and `late` hold which sensors the
commands left switched on, what the getter measured that is still to be sent,
and how often a sensor has measured since it was switched off.

## 3. The runs

| run | question | size |
|---|---|---|
| `tasks` | the task level: types, single-threaded commands, own connection, one join, orphans only by the button, a patient watchdog; does it implement `Supervisor`, liveness included, and `ClientUse`; does a broken connection end in a reset; does it send measurements again and again? | 59 000 states |
| `client_publishing` | pings and their flag, the order of packets on the link, with new connections and writes that fail half way | 1 106 000 |
| `client_commands` | does every wait end that the socket does not hold? | 191 000 |
| `device_client` | answers, handlers, subscriptions, refusals and what is sent before the answer to CONNECT, as the device uses the client | 40 000 |
| `keepalive` | expiry on time across every wrap; how long the device may be silent, with pings that fail | 95 000 |
| `transport` | is the reader in step with the broker, is every packet read, is a successful send a whole one; does it implement `PacketLink`? | 584 000 |
| `topics` | does matching by characters agree with matching by levels? | 302 000 |
| `controls` | documented, mistaken and incomplete commands in every order | 5 200 |
| `sensors` | is what is sent fresh and complete, does a sensor that is switched off stop, and does each get its turn? | 22 000 |
| `tasks_retry`, `device_ping`, `controls_publish` | a sentence of the documentation the code does not keep (section 4) | |

What the properties say is written above each of them. Those worth a remark:

* `NoSpuriousReset` relates the watchdog to the history of every task: when it
  expires, each living feeding task was held up (in calls or without the processor)
  for all but its own sleeping period. With the 4 s of `RECONNECT_PERIOD` and
  the 8 s of the watchdog the margin is one blocking call of 4 s.
* `OrphanPollerOnlyByButton` is about two flags set at different times:
  `MqttInit` clears `deletePolling` but nothing clears `killTick`, so a button
  press before the connection is up stops the publisher later and leaves the
  poller.
* `AnswerIsOwn` does not hold for the client as such (a late answer is taken by
  the next call) but holds for the device, because the task that
  timed out never calls again. If it tried again, as its message says
  (the mutant `MayCall_Retries`), the property fails.
* `ServesWhatWasGranted` is about a chain of three: the broker's answer, which
  is a positive code when it refuses; the call that returns it; and the task
  that creates the next one only for `SUCCESS`. The header of the client says
  that failures are negative; a test for that (the mutant `Stage_Negative`)
  would have the device publish on a session it was refused.
* `PingAccounted` and `ProtocolOrder` speak of what the broker can still read:
  behind a write that failed half way it reads nothing more. The code does not
  notice that (the result of `keepalive` is ignored), but the order of what was
  sent before stands. `ProtocolOrder` excepts the ping, which the library sends
  on a session nobody has accepted if it is polled then; `NothingBeforeAnswer`
  says that the device does not get there, for its poller begins only after the
  connection has succeeded.
* `AlwaysServesAgain` is about measurements that are sent, not about tasks that
  exist: `Tick` may well exist and feed the watchdog for ever over a lost
  connection, if no sensor is left that it could read. Its hypotheses are below.
* `KeptAlive` has two parts. The device is never silent for longer than one
  sleep of the poller and one call of `MQTTYield` after its keepalive interval,
  or after the last ping that could not be written; and if the broker waits
  longer than that, it does not drop the link. With the values of the source
  (10 s, 1 s, 50 ms) and pings that can be written it does not; a command that
  sets a polling period beyond the broker's patience, with all sensors off,
  loses it, and so do writes that go on failing. The instance has all of these.
* `InStep` is about the reader while no packet was left in its middle. Once one
  was, nothing brings it back: the rest is taken for packets, and if a length
  is misread `xdk_read` may wait for bytes that never come.
* `SuccessIsWhole`: a short write is followed by one of `length` bytes again.
  If the socket takes more than the rest, the packet went out with bytes behind
  it and the send is reported as a failure; it is never reported as a success.
* `ImplementsPacketLink` says of the reader what `InStep` says of its place in
  the stream: no packet is counted before its last byte has come, twice or out
  of its order. Of the writer it says that what is on the wire begins with
  the packet whatever the socket takes, which is all `MQTTClient` reckons with.
* `DeliveredByLevels` compares with a definition by levels in which `+` and `#`
  stand for at least one character. That is where the code differs from MQTT:
  `a/+` does not match `a/`, and `a/#` does not match `a`. The one filter of
  the device has no wildcard.
* `StopsWhenSwitchedOff` allows one measurement after the command: the poller
  may switch a sensor off when `Tick` has tested its flag and not yet called
  its getter. It fails if the place a command writes and the place `Tick` tests
  before it calls that sensor's getter are not the same; the two are in
  different files (`controls.c`, `main.c`).
* `EverySensorHasItsTurn` is liveness under commands that come at any time:
  only a sensor that stays wanted, and a `Tick` that does not end, count.

### Bounds

* `Tasks`: the periods are the real ones in seconds (3, 4, 8); finer units
  would only interleave more of the same. Two sensors instead of five, one with
  two measurements and one with one: the loop has a first, a last, a skipped
  and a failing sensor, and a first and a further measurement. The theorems of
  section 5 lift all of this.
* `MQTTClient`: `QueueBound` packets under way in one direction (2, and 1 in
  `client_commands`), enough for an answer beside a ping or a late answer
  beside a new one; a write waits while the queue is full, as it does at a full
  socket. `MAX_PACKET_ID` is 1 in the runs of one thread, where identifiers
  wrap at once, and one or two handler slots run out. One topic: handlers and
  subscriptions are told apart by slot. In so small a space identifiers repeat,
  as they do after 65535 calls; nothing is claimed about their being distinct.
* `DeviceClient`: QoS 0 as in `mqtt.c`, one filter.
* `Keepalive`: a counter of 32 values with a tick of 3, which does not divide
  it: every alignment of the wrap to a timer occurs. An interval of 12, commands that
  ask for a polling period of 0 (rejected) or of 1 to 14, a broker that waits 18 and answers within 9: the timer
  may expire between any two polls, before or after the answer. Timers are
  looked at until half the range has passed, which is the limit of the signed
  comparison and proved to suffice in general.
* `MCTransport`: base 2 and payloads of 0, 2 and 8 bytes: remaining lengths of
  one, two and four bytes and no payload. Two packets, so that what is left of
  one meets the next; one error of `sl_Recv`; sends of two bytes, the shortest
  packet that can be cut.
* `Topics`: filters of up to five characters and topics of up to four: three
  levels, empty ones, and wildcards in front, between, behind and alone.
* `Sensors`: no bounds; the five sensors and their measurements as they are.
* `Controls`: `MAX_TOKENS` 9 instead of the 20 of the source, and a message just above it. All six
  orders of the fields of fifteen commands, their prefixes, and messages with
  repeated, unknown or nested fields and with a key at the end.

Deadlock is checked wherever the system cannot stop. In the instances of
`MQTTClient` the only thread may hang in `xdk_read` for good and nothing is
left to happen, and in `Transport` a reader out of step may wait for ever, so
there it is not. `Topics` ends in a step that changes nothing.

### Fairness

* `KernelFairness` (Tasks): FreeRTOS runs a ready task in the end, the clock of
  the watchdog never stops. No blocking call is assumed to return, and `Tick`
  is not assumed to run beside a poller that spins with a higher priority.
* `ReachableServer` and `MemorySuffices` (the hypotheses of
  `AlwaysServesAgain`): of the attempts to join, connect and subscribe that are
  made again and again, some succeed (strong fairness), and no task on the way
  to `Tick` was lost for want of memory: without a `WifiReconnect` task the
  connecting task would wait and feed for ever. `SendingIsPossible`, the third,
  is about the time after that: in the end the connection stays up and the
  button is left alone, some sensor stays switched on, and of its reads and
  sends that are tried again and again some succeed.
* `LossIsNoticed` (the hypothesis of `LossEndsInReset`): over a lost connection a send that is tried
  again and again fails some time, and an enabled sensor can be read some time. The
  property needs both: nothing else in the firmware notices the loss.
* `FairSpec` (MQTTClient): the thread gets the processor and its timer runs on.
  No write and no read is assumed to end: `xdk_write` repeats `sl_Select` until
  the socket is writable, `xdk_read` and `sl_Recv` may wait for ever.
  `WaitsEnd` has as its hypothesis that the thread is not held for good in one
  of them; that its timer then ends the wait, whatever number of packets arrives
  and whatever `cycle` makes of its failures, is what it says.
* `FairSpec` (Transport): what the broker sent arrives in the end, a read and a
  send that can go on do so, and the thread, which also writes, reads again and
  again (strong fairness; `MqttYield` does).
* `FairSpec` (Sensors): `Tick` runs and its calls return; commands may come or
  not.

## 4. Where code and documentation disagree

Each of these runs checks one property taken from a comment, a message or the
README, and TLC produces the behaviour that contradicts it.

| run | what the text says | what the code does |
|---|---|---|
| `tasks_retry` | "Connection to MQTT server failed. Retrying in %d ms" (`src/tasks.c:222`) | `Restart` deletes the task; the watchdog resets the chip |
| `device_ping` | "send the ping packet" (`src/MQTTClient.c:210`) | `Tick` overwrites the serialised PINGREQ while `MqttYield` waits for the socket |
| `controls_publish` | "pub - publish period" (`README.md:39`) | the period of `Tick` never changes |

More are visible in the sources and have no run. The identifier in UNSUBACK
"should be the same as the packetid above" (`src/MQTTClient.c:434`), but it is
never compared; the device does not unsubscribe. "All failure return codes must
be negative" (`inc/MQTTClient.h:29`), but a refused CONNECT or SUBSCRIBE is
returned as the positive code of the broker; the callers compare with 0.
"Message handlers are indexed by subscription topic" (`inc/MQTTClient.h:83`),
but subscribing again to a topic takes a second slot; the device subscribes
once, and `device_client` shows that `HandlersIndexedByTopic` holds for it. A
period may be "0 - MAXINT32" (`README.md:38`), but 0 is rejected
(`src/controls.c:130`).

One is a fault of the code that `Controls` has in its transitions and that no
property of a run is about. "Token names are odd, values are even"
(`src/controls.c:38`) does not hold of a message with a nested field: in
`{"path":"sensor","command":"env","other":["value"]}` the last of seven tokens
is taken for the name `value`, and the handler is given the token behind it
(`src/controls.c:68`), which an earlier message has left there. Where its offset
points decides whether the sensor is switched. Documented commands are not
affected (`SwitchesAsDocumented`).

## 5. The proofs

`TasksProofs` holds for all periods (`PeriodAssumption`: naturals, a positive
watchdog period), any number of sensors with any positive number of
measurements (`SensorAssumption`), and with or without failing task creation
(`MemoryAssumption`).

* `TypeCorrect`, `CommandsAreSingleThreaded`, `ServesOverOwnConnection`,
  `WifiJoinedOnce`, `OrphanedOnlyByButton`, `WatchdogIsPatient`: each safety
  invariant that `tasks` checks.
* `Supervised`: `Spec => Device!Safety`, every step of the task level is a step
  of `Supervisor` or a stutter (`PhaseStep`).
* `ClientIsUsedInOrder`: `Spec => ImplementsClientUse`.
  One lemma per group of actions shows which user moves and how
  (`StartSteps` ... `PollerSteps`); that the others stay, and that a call begins
  only when it is allowed, comes from `Chain`.

None of these invariants is inductive. Their common strengthening `IInv` is a
conjunction of named parts, each with a lemma that one step preserves it
(`InitIInv`, `NextIInv`, `Inductive`):

* `ControlOK`: the places each task can be in, which `TypeOK` leaves open.
* `HoldsData`: while `Tick` sends it holds data of an existing sensor; needed
  for `left` and `sensor` to stay in their types.
* `Chain`: each task exists only after its predecessor did its work. That is
  why no second connection can be opened and nobody else uses the client while
  a command waits; the single-threaded, connection and join properties follow.
* `StoppedByButton`: a request to stop the publisher, and a publisher that ended
  without stopping the poller, come from the button.
* `FedInTime`: the watchdog has counted no more than each living task has slept
  and spent since its own feed (`Slept`, `spent`); at expiry this is
  `NoSpuriousReset`. It needs that a task created by another starts with the
  unfed time of its creator.

`MQTTClientProofs` holds for any set of topics, number of handler slots,
identifiers and packets under way (`BoundAssumption`), any calls a thread may
make (`CallsAssumption`) and any filters (`FilterAssumption`).

* `PacketsInOrder`: `Spec => []ProtocolOrder` for one thread (`OneThread`) that
  may connect as often as it likes. (With two, one may poll while the other
  connects anew.) Its invariant `OrderInv` says what is still to come of
  CONNECT: on a closed link nothing is under way (`Closed`), and a thread that
  is in no call has read nothing (`Rests`); before the broker has accepted only
  CONNECT, DISCONNECT and pings are on their way (`Unaccepted`), nothing comes
  back before it has answered and only refusals after a refusal
  (`Unanswered`, `Refused`); CONNECT is first in the queue (`ConnectIsFirst`)
  and only one thread is about to send one, with nobody else about to send
  anything while the buffer holds it (`ConnectsOnce`).
* `ClientTypeCorrect` and `PingsAccounted`: `Spec => []TypeOK` and
  `Spec => []PingAccounted` for one thread (`OneThread`), which is what the
  library is made for. With several, a thread would find the buffer
  overwritten; `device_ping` shows it. The invariant `PingInv` has three parts:
  what the thread serialised is still in the buffer when it writes
  (`BufferIsOwn`), a ping is begun only while none is outstanding (`OnePing`),
  and the flag counts the pings under way as long as the stream is whole
  (`Accounted`).

`DeviceClientProofs` is about the same client as the tasks of the device use
it, over any number of resets: `DevicePacketsInOrder`, `DeviceTypeCorrect`,
`AnswersAreOwn`, `SubscriptionsAreHandled`, `HandlersAreIndexed`,
`NothingGoesBeforeAnswer`, `ServesOnlyWhatWasGranted`. `DeviceInv` has, beside
the types:

* `OwnCalls` and `InTurn`: which task makes which call, and that publisher and
  poller call only once CONNECT and SUBSCRIBE have come to an end. These come
  from `ClientUse`, which `Tasks` is proved to implement.
* `Requests`, `Held` and `OneId`: CONNECT has no identifier and a SUBSCRIBE asks
  for one of the topics; a task whose cycle ended in an answer has that answer
  in its buffer; every SUBSCRIBE and SUBACK anywhere (`Around`: in the buffers and on
  the link in either direction) has the identifier of the one call that asks
  for it. That is why `AnswerIsOwn` holds although no identifier is compared.
* `OneHandler`, `SubscriptionIsHandled` and `ResultTypes`: at most one slot has
  a handler, none has one before the answer to SUBSCRIBE is there, and every
  call returns a result of its own kind.

`ServesOnlyWhatWasGranted` adds `GrantInv`. `Truthful` relates what is under
way to what the broker has decided: an acceptance anywhere (`Around`) means
that the session is accepted, a granted SUBACK that the topic of the one
SUBSCRIBE is among the broker's subscriptions, and nobody unsubscribes or
connects again. `Granted` carries that over from the packet to the result of
the call; since nothing takes a session or a subscription back before the
reset (`SessionStays`), it still holds when publisher and poller run.
`NothingGoesBeforeAnswer` adds `Quiet`: before the broker has answered only the
connecting task is within the client, to send its CONNECT or to wait, and the
keepalive timer has not expired.

A step of the system either preserves the invariant or is `Reset`, after which
the initial predicate holds again (`ResetIsInit`).

`KeepaliveProofs` proves `TimerTypeCorrect` and `TimersExpireOnTime` for a
counter of any width and any tick, if timeouts are below half the range and a
timer is looked at within half the range after its end (`TimerAssumption`). The
inductive part is `Distance`: the counters differ by what remains of the
timeout, give or take one turn. For the firmware half the range is 24 days; the
timeouts are at most 10 seconds. Since the steps of `Keepalive` are steps of
the timer or leave it alone, the same holds of the ping timer as the client
uses it: `PingTimerTypeCorrect`, `PingTimerExpiresOnTime`.

For all intervals, periods and ticks that `KeepaliveAssumption` admits (a
broker that answers within one keepalive interval, a polling period that is not
0 to begin with) and any numbers in commands it then proves
`KeepaliveTypeCorrect` and `LinkIsKeptAlive`. `KInductive` adds to
`Distance` and the types `KBounds`: silence and the time until the next poll
are together at most `Silence`, which a ping that fails at the age `tried`
puts off by one more sleep, and an answer under way comes before the timer
can expire again. The poller preserves it because a timer that has expired is
at least `KEEPALIVE` old (`ExpiredIsLate`) and then no ping is outstanding
without its answer.

`TransportProofs` holds for every base, every well-formed stream, any lengths
the client sends and any number of errors (`TransportAssumption`).

* `TransportTypeCorrect`. `Decoding` is why the value stays within four bytes:
  the value so far is below the weight of the next digit (`OneDigitMore`).
* `ReaderInStep`: `Spec => []InStep`. `Synchronised` says where the reader is
  as long as nothing was torn: before the header, at byte `len` of the length
  with the value of the digits before it (`Decoded`), or in the payload with as
  many bytes to go as there are to its end. `LengthIsDecoded` is the lemma on
  the encoding: the continuation bits lead to the end of the length and no
  further, and what the digits count is the length.
* `SuccessMeansWhole`: `Spec => SuccessIsWhole`, an action property. The bytes
  on the wire are the first `sent` of `buf` (`Writes`), so their number tells.
* `TransportIsPacketLink`: `Spec => ImplementsPacketLink`, from the three
  invariants above (`TransportInvariant`), with one lemma per step of
  `PacketLink`: a byte that arrives completes at most one packet
  (`ArriveIsCome`), since packets end one behind the other (`BeginsGrow`, for
  which the first counterexample is taken by well-foundedness); the last byte
  read is that of a packet which has come whole (`ReadIsRead`, from
  `WholeFromFirst`: the whole packets are the first ones); what a write adds
  turns nothing into a part, the packet or more and never goes back
  (`WriteIsPut`); and what a call reports is what is out (`SentIsReturn`).

`TopicsProofs` holds for any topics without wildcards and any filters in the
format the comment at `src/MQTTClient.c:128` assumes (`NameAssumption`,
`FilterAssumption`).

* `TopicsTypeCorrect`: nothing behind a filter, a topic or the last slot is
  read.
* `DeliveredWhereLevelsMatch`: `Spec => []DeliveredByLevels`. The invariant
  `LevelsReached` says which level of both the loop is in: as many separators
  lie before it in the filter as in the topic, the levels before that match,
  and within this one the characters so far agree or were taken by `+`
  (`Reached`); or `#` has taken the rest. `MatchGoesOn` is why the comparison
  may stop at the first level that differs. The n-th level is what lies
  between the n-th separator and the next, and a separator's number is how
  many are before it: numbered by `Cardinality`, without sorting or recursion,
  the levels can be reasoned about (`BoundsAreNumbered`, `TheLevel`).

`SensorsProofs` has no parameters: `SensorsTypeCorrect`, `SentIsMeasured`,
`AllIsSent`, `StoppedMeasuring`, each for commands in any number and order.
Their invariant relates the shared record to the getter that was called last
(`Between`, `Calling`, `Within`, `ToSend`), and the flags of the five sensors to
the commands (`Switched`). `Lateness` is why one measurement is all: from the
test of its flag to the call of its getter a sensor has not been late yet, and
after that the flag is tested again.

`ControlsProofs` holds for every set of messages: `ControlsTypeCorrect` and the
action property `CommandsSwitchAsDocumented`. The latter needs room for the
seven tokens of a command (`MAX_TOKENS >= 7`; the source has 20). It rests on
what `Keys` finds in a documented command (`KeyOfCommand`), whatever token an
earlier message left behind it.

### What is only model-checked

* Liveness: `ImplementsSupervisor` beyond its safety part,
  `AlwaysServesAgain`, `LossEndsInReset`, `WaitsEnd`, `EveryPacketIsRead`,
  `EverySensorHasItsTurn`. The prover has no rules for fairness and `ENABLED`.
* `PingAccounted` for several threads is false, see above. `TypeOK` of
  `MQTTClient` is proved for one thread and, in `DeviceClient`, for the four of
  the device.

## 6. What is not modelled

* Packets of the broker that are not MQTT, and the bytes inside a payload. The
  default message handler, which is never set.
* `ConnectNetwork` beyond its success or failure: the socket it leaves open when the timer
  cannot be started goes with the reset that follows, and the address it uses when the DNS query
  failed leads to another failure. Errors of `sl_Recv` other than -1, which
  would take back more than one byte.
* The values of measurements and their formatting; the initialisation of the
  sensor drivers and the creation of LED handles, whose results nobody reads.
* `WiFiDeinit`, `MqttDeinit` and the creation of new tasks in `Restart`: they
  stand behind `tasks.c:101`. `MqttReconnect` and `WifiConnectedCallback` have
  no caller. No execution reaches them.
* Which task of the SDK runs `appInitSystem`, the button callback and the
  timers: it is outside the repository. The callback is a context of its own
  here, which allows every interleaving. If it shared the task of the software
  timers, ending that task would also stop `MilliTimer`.
* External libraries, `Makefile`, `gencredentials.py`.

## 7. The plan

Done: `Tasks` with `Supervisor` and `ClientUse`; `MQTTClient` with
`DeviceClient`; `Timers` and `Keepalive`; `Controls`; `Transport` with
`PacketLink`; `Topics`, `Sensors`. Each safety property of a passing run is
proved for all values of the constants.

Left, in the order of their worth:

1. A client that goes on over a torn link: packets of the broker that are not
   MQTT in `MQTTClient`, as `PacketLink` allows them behind a `Tear`.
2. `Tasks` with the button callback in the task of the software timers, as far
   as the SDK's documentation allows it to be settled (section 6).
