-------------------------------- MODULE Tasks --------------------------------
(***************************************************************************)
(* The task level of the firmware: src/src/tasks.c with the callers and    *)
(* callees that decide which FreeRTOS task runs, sleeps or is gone         *)
(* (main.c, wifi.c, the task-level half of mqtt.c), the flags they share,  *)
(* and the hardware watchdog that appInitSystem switches on.               *)
(*                                                                         *)
(* Task handles.  tasks.c passes its five OS_taskHandle_tp statics to      *)
(* OS_taskCreate BY VALUE and no statement of the program assigns them, so *)
(* they keep their initial value NULL and every OS_taskDelete(handle) is   *)
(* OS_taskDelete(NULL): it deletes the task that calls it ("deletes [...]  *)
(* __current__ thread", tasks.c:80; "This kills the thread", mqtt.c:83).   *)
(* Restart therefore ends its caller on its first OS_taskDelete.           *)
(*                                                                         *)
(* Time.  The unit is one second; computation takes none, a blocking call  *)
(* of the SDK any amount.  Time passes only when no task that feeds the    *)
(* watchdog could run, or while the top-priority poller spins.             *)
(***************************************************************************)
EXTENDS Integers

CONSTANTS
    PUBLISH_PERIOD,    \* seconds Tick sleeps between two rounds
    RECONNECT_PERIOD,  \* seconds the connecting tasks sleep between tries
    WDOG_PERIOD,       \* seconds without a feed after which the chip resets
    NUM_SENSORS,
    NumMeas,           \* NumMeas[s]: measurements of a successful read of s
    MemoryMayRunOut    \* may OS_taskCreate fail for want of memory?

ASSUME PeriodAssumption ==
    /\ PUBLISH_PERIOD \in Nat
    /\ RECONNECT_PERIOD \in Nat
    /\ WDOG_PERIOD \in Nat \ {0}
ASSUME SensorAssumption ==
    /\ NUM_SENSORS \in Nat
    /\ NumMeas \in [0 .. NUM_SENSORS - 1 -> Nat \ {0}]
ASSUME MemoryAssumption == MemoryMayRunOut \in BOOLEAN

VARIABLES
    pc,             \* where each task is; "none" before creation
    delay,          \* seconds of OS_taskDelay each task still has to sleep
    spent,          \* seconds awake or in calls since the task's last feed
    wdog,           \* seconds since the watchdog was fed
    killTick,       \* tasks.c: ask Tick to delete itself
    deletePolling,  \* mqtt.c: ask MqttYield to delete itself
    wifiConnected,  \* tasks.c
    conn,           \* the MQTT connection: "closed", "open" or "lost"
    enabledSensors, \* main.c: the sensors whose flag is true
    sensor,         \* Tick's loop variable
    left            \* measurements of data Tick has still to send

flags   == <<killTick, deletePolling, wifiConnected>>
sensing == <<enabledSensors, sensor, left>>
timing  == <<delay, spent, wdog>>
vars    == <<pc, timing, flags, conn, sensing>>

(***************************************************************************)
(* The contexts the code runs in, named after their functions.  The first  *)
(* five call WDOG_Feed on their normal path; MqttYield never does and the  *)
(* button callback runs once at most.                                      *)
(***************************************************************************)
Feeders == {"appInitSystem", "WifiReconnect", "MqttConnectionTask",
            "MqttSubscriptionTask", "Tick"}
Contexts == Feeders \cup {"MqttYield", "ButtonOneCallback"}

Alive(t) == pc[t] \notin {"none", "ended"}

\* A task that needs only the processor to go on.
Ready(t) == \/ pc[t] \in {"start", "top", "handoff", "tickInit",
                          "commandInit", "sense"}
            \/ pc[t] = "sleep" /\ delay[t] = 0

Sensors == 0 .. NUM_SENSORS - 1

Init ==
    /\ pc = [t \in Contexts |-> IF t = "appInitSystem" THEN "start"
                                                       ELSE "none"]
    /\ delay = [t \in Contexts |-> 0]
    /\ spent = [t \in Contexts |-> 0]
    /\ wdog = 0
    /\ killTick = FALSE
    /\ deletePolling = FALSE
    /\ wifiConnected = FALSE
    /\ conn = "closed"
    /\ enabledSensors = Sensors
    /\ sensor = 0
    /\ left = 0

(***************************************************************************)
(* The RTOS and watchdog calls.                                            *)
(***************************************************************************)
Goto(t, from, to) ==
    /\ pc[t] = from
    /\ pc' = [pc EXCEPT ![t] = to]

\* The states of a task after OS_taskCreate was called for it.
OS_taskCreate == {"top"} \cup (IF MemoryMayRunOut THEN {"none"} ELSE {})

\* t leaves `from' for `to' and calls OS_taskCreate for the new task u.
Create(t, from, to, u) ==
    /\ pc[t] = from
    /\ \E created \in OS_taskCreate :
          pc' = [pc EXCEPT ![t] = to, ![u] = created]

WDOG_Feed(t) ==
    /\ wdog' = 0
    /\ spent' = [spent EXCEPT ![t] = 0]

OS_taskDelay(t, from, period) ==
    /\ Goto(t, from, "sleep")
    /\ delay' = [delay EXCEPT ![t] = period]

Wake(t, to) ==
    /\ delay[t] = 0
    /\ Goto(t, "sleep", to)

\* Restart: feed, then OS_taskDelete(commandTaskHandle) with a NULL handle.
\* What follows that call in the source is never reached.
Restart(t, from) ==
    /\ Goto(t, from, "ended")
    /\ WDOG_Feed(t)

(***************************************************************************)
(* appInitSystem: peripherals, watchdog, WifiConnectInit, MqttConnectInit. *)
(***************************************************************************)
\* The callback can run, or the button driver could not be set up: a handle
\* that was not created, an enabling that failed, are only reported.
ButtonOneInit == {"idle", "none"}

\* A mutant: WifiReconnect is created before WiFiInit instead of after it.
StartSystem_WithReconnect ==
    /\ pc["appInitSystem"] = "start"
    /\ \E b \in ButtonOneInit :
          pc' = [pc EXCEPT !["appInitSystem"] = "join",
                           !["WifiReconnect"] = "top",
                           !["ButtonOneCallback"] = b]
    /\ WDOG_Feed("appInitSystem")
    /\ UNCHANGED <<delay, flags, conn, sensing>>

\* Up to the blocking WLI_connectWPA.
StartSystem ==
    /\ pc["appInitSystem"] = "start"
    /\ \E b \in ButtonOneInit :
          pc' = [pc EXCEPT !["appInitSystem"] = "join",
                           !["ButtonOneCallback"] = b]
    /\ WDOG_Feed("appInitSystem")
    /\ UNCHANGED <<delay, flags, conn, sensing>>

\* WiFiInit returns 0: it has fed, and its callback has set wifiConnected.
WifiConnectInitOk ==
    /\ Goto("appInitSystem", "join", "handoff")
    /\ WDOG_Feed("appInitSystem")
    /\ wifiConnected' = TRUE
    /\ UNCHANGED <<delay, killTick, deletePolling, conn, sensing>>

\* WiFiInit returns -1 (WLI_init or WLI_connectWPA failed).
\* The new task starts with the time its creator has spent unfed.
WifiConnectInitFail ==
    /\ Create("appInitSystem", "join", "handoff", "WifiReconnect")
    /\ spent' = [spent EXCEPT !["WifiReconnect"] = spent["appInitSystem"]]
    /\ UNCHANGED <<delay, wdog, flags, conn, sensing>>

MqttConnectInit ==
    /\ Create("appInitSystem", "handoff", "ended", "MqttConnectionTask")
    /\ WDOG_Feed("appInitSystem")
    /\ UNCHANGED <<delay, flags, conn, sensing>>

(***************************************************************************)
(* WifiReconnect.                                                          *)
(***************************************************************************)
WifiReconnectTop ==
    /\ IF wifiConnected
         THEN Goto("WifiReconnect", "top", "ended") /\ UNCHANGED delay
         ELSE OS_taskDelay("WifiReconnect", "top", RECONNECT_PERIOD)
    /\ WDOG_Feed("WifiReconnect")
    /\ UNCHANGED <<flags, conn, sensing>>

WifiReconnectJoin ==
    /\ Wake("WifiReconnect", "join")
    /\ WDOG_Feed("WifiReconnect")
    /\ UNCHANGED <<delay, flags, conn, sensing>>

WifiReconnectOk ==
    /\ Goto("WifiReconnect", "join", "ended")
    /\ WDOG_Feed("WifiReconnect")
    /\ wifiConnected' = TRUE
    /\ UNCHANGED <<delay, killTick, deletePolling, conn, sensing>>

WifiReconnectFail ==
    /\ Goto("WifiReconnect", "join", "top")
    /\ UNCHANGED <<timing, flags, conn, sensing>>

\* A mutant: the flag is not polled.
AwaitWifi_Unchecked(t, call) ==
    /\ Goto(t, "top", call)
    /\ WDOG_Feed(t)
    /\ UNCHANGED <<delay, flags, conn, sensing>>

(***************************************************************************)
(* MqttConnectionTask and MqttSubscriptionTask share the shape of their    *)
(* loop: poll wifiConnected, then make one blocking call.                  *)
(***************************************************************************)
AwaitWifi(t, call) ==
    /\ IF wifiConnected
         THEN Goto(t, "top", call) /\ UNCHANGED delay
         ELSE OS_taskDelay(t, "top", RECONNECT_PERIOD)
    /\ WDOG_Feed(t)
    /\ UNCHANGED <<flags, conn, sensing>>

AwaitedWifi(t) ==
    /\ Wake(t, "top")
    /\ UNCHANGED <<timing, flags, conn, sensing>>

\* A mutant: the poller is started as soon as the connection is open.
MqttInitOk_StartsPolling ==
    /\ pc["MqttConnectionTask"] = "connect"
    /\ \E created \in OS_taskCreate :
          pc' = [pc EXCEPT !["MqttConnectionTask"] = "ended",
                           !["MqttSubscriptionTask"] = created,
                           !["MqttYield"] = created]
    /\ conn' = "open"
    /\ deletePolling' = FALSE
    /\ WDOG_Feed("MqttConnectionTask")
    /\ UNCHANGED <<delay, killTick, wifiConnected, sensing>>

\* MqttInit returns 0; MqttSubscriptionInit follows and the task ends.
MqttInitOk ==
    /\ Create("MqttConnectionTask", "connect", "ended",
              "MqttSubscriptionTask")
    /\ conn' = "open"
    /\ deletePolling' = FALSE
    /\ WDOG_Feed("MqttConnectionTask")
    /\ UNCHANGED <<delay, killTick, wifiConnected, sensing>>

MqttInitFail ==
    /\ Restart("MqttConnectionTask", "connect")
    /\ UNCHANGED <<delay, flags, conn, sensing>>

MqttSubscribeOk ==
    /\ Goto("MqttSubscriptionTask", "subscribe", "tickInit")
    /\ UNCHANGED <<timing, flags, conn, sensing>>

\* A mutant: the task tries again, as its message says.
MqttSubscribeFail_Retries ==
    /\ OS_taskDelay("MqttSubscriptionTask", "subscribe", RECONNECT_PERIOD)
    /\ UNCHANGED <<spent, wdog, flags, conn, sensing>>

MqttSubscribeFail ==
    /\ Restart("MqttSubscriptionTask", "subscribe")
    /\ UNCHANGED <<delay, flags, conn, sensing>>

TickInit ==
    /\ Create("MqttSubscriptionTask", "tickInit", "commandInit", "Tick")
    /\ WDOG_Feed("MqttSubscriptionTask")
    /\ UNCHANGED <<delay, flags, conn, sensing>>

CommandHandlerInit ==
    /\ Create("MqttSubscriptionTask", "commandInit", "ended", "MqttYield")
    /\ WDOG_Feed("MqttSubscriptionTask")
    /\ UNCHANGED <<delay, flags, conn, sensing>>

(***************************************************************************)
(* Tick, the publisher.                                                    *)
(***************************************************************************)
\* A mutant: the loop does not feed the watchdog.
TickTop_Unfed ==
    /\ Goto("Tick", "top", IF killTick THEN "ended" ELSE "sense")
    /\ killTick' = FALSE
    /\ sensor' = 0
    /\ UNCHANGED <<timing, deletePolling, wifiConnected, conn,
                   enabledSensors, left>>

TickTop ==
    /\ Goto("Tick", "top", IF killTick THEN "ended" ELSE "sense")
    /\ killTick' = FALSE
    /\ sensor' = 0
    /\ WDOG_Feed("Tick")
    /\ UNCHANGED <<delay, deletePolling, wifiConnected, conn,
                   enabledSensors, left>>

\* A mutant: the loop has no bound.
TickSkip_Unbounded ==
    /\ pc["Tick"] = "sense"
    /\ sensor' = sensor + 1
    /\ UNCHANGED <<pc, timing, flags, conn, enabledSensors, left>>

\* The loop passes a sensor that is disabled or whose read failed: the
\* getter then leaves numMeas = 0.
TickSkip ==
    /\ pc["Tick"] = "sense"
    /\ sensor < NUM_SENSORS
    /\ sensor' = sensor + 1
    /\ UNCHANGED <<pc, timing, flags, conn, enabledSensors, left>>

\* An enabled sensor is read; its first measurement is handed to the client.
TickRead ==
    /\ sensor \in enabledSensors
    /\ Goto("Tick", "sense", "send")
    /\ left' = NumMeas[sensor]
    /\ WDOG_Feed("Tick")
    /\ UNCHANGED <<delay, flags, conn, enabledSensors, sensor>>

\* MqttSendData returned 0; the next measurement or the next sensor follows.
MqttSendDataOk ==
    /\ left' = left - 1
    /\ IF left > 1
         THEN /\ Goto("Tick", "send", "send")
              /\ WDOG_Feed("Tick")
              /\ UNCHANGED sensor
         ELSE /\ Goto("Tick", "send", "sense")
              /\ sensor' = sensor + 1
              /\ UNCHANGED <<spent, wdog>>
    /\ UNCHANGED <<delay, flags, conn, enabledSensors>>

\* Mutants: the poller is not stopped; the failure is ignored.
MqttSendDataFail_KeepsPolling ==
    /\ Restart("Tick", "send")
    /\ UNCHANGED <<delay, flags, conn, sensing>>

MqttSendDataFail_Ignored ==
    /\ Goto("Tick", "send", "sense")
    /\ sensor' = sensor + 1
    /\ UNCHANGED <<timing, flags, conn, enabledSensors, left>>

\* MqttSendData failed: MqttStopPolling, then Restart.
MqttSendDataFail ==
    /\ Restart("Tick", "send")
    /\ deletePolling' = TRUE
    /\ UNCHANGED <<delay, killTick, wifiConnected, conn, sensing>>

TickRoundDone ==
    /\ sensor = NUM_SENSORS
    /\ OS_taskDelay("Tick", "sense", PUBLISH_PERIOD)
    /\ UNCHANGED <<spent, wdog, flags, conn, sensing>>

TickWake ==
    /\ Wake("Tick", "top")
    /\ UNCHANGED <<timing, flags, conn, sensing>>

(***************************************************************************)
(* MqttYield, the poller.  Its sleep is not timed: pollingPeriod is set by *)
(* remote commands to any positive number of milliseconds.                 *)
(***************************************************************************)
\* A mutant: the poller feeds the watchdog.
MqttYieldTop_Feeds ==
    /\ Goto("MqttYield", "top", IF deletePolling THEN "ended" ELSE "poll")
    /\ WDOG_Feed("MqttYield")
    /\ UNCHANGED <<delay, flags, conn, sensing>>

MqttYieldTop ==
    /\ Goto("MqttYield", "top", IF deletePolling THEN "ended" ELSE "poll")
    /\ UNCHANGED <<timing, flags, conn, sensing>>

\* A sensor command arrives within MQTTYield and CommandConfigHandler runs.
SensorCommand ==
    /\ pc["MqttYield"] = "poll"
    /\ conn = "open"
    /\ \E s \in Sensors :
          enabledSensors' \in {enabledSensors \cup {s}, enabledSensors \ {s}}
    /\ UNCHANGED <<pc, timing, flags, conn, sensor, left>>

MQTTYieldReturns ==
    /\ Goto("MqttYield", "poll", "sleep")
    /\ UNCHANGED <<timing, flags, conn, sensing>>

\* sl_Recv keeps returning 0 or an error and xdk_read never leaves its loop.
XdkReadSpins ==
    /\ conn = "lost"
    /\ Goto("MqttYield", "poll", "spin")
    /\ UNCHANGED <<timing, flags, conn, sensing>>

MqttYieldWake ==
    /\ Goto("MqttYield", "sleep", "top")
    /\ UNCHANGED <<timing, flags, conn, sensing>>

(***************************************************************************)
(* The button: on release MqttStopPolling, TickKill and Restart, which     *)
(* deletes the task that runs the callback.                                *)
(***************************************************************************)
ButtonOneCallback ==
    /\ Restart("ButtonOneCallback", "idle")
    /\ deletePolling' = TRUE
    /\ killTick' = TRUE
    /\ UNCHANGED <<delay, wifiConnected, conn, sensing>>

(***************************************************************************)
(* The environment: the connection breaks, a second passes, the watchdog   *)
(* resets the chip and with it every variable.                             *)
(***************************************************************************)
LoseConnection ==
    /\ conn = "open"
    /\ conn' = "lost"
    /\ UNCHANGED <<pc, timing, flags, sensing>>

Sleeping(t) == pc[t] = "sleep" /\ delay[t] > 0

Second ==
    /\ pc["MqttYield"] = "spin" \/ \A t \in Feeders : ~Ready(t)
    /\ wdog' = wdog + 1
    /\ delay' = [t \in Contexts |-> IF Sleeping(t) THEN delay[t] - 1
                                                   ELSE delay[t]]
    /\ spent' = [t \in Contexts |->
                    IF t \in Feeders /\ Alive(t) /\ ~Sleeping(t)
                         /\ spent[t] < WDOG_PERIOD
                      THEN spent[t] + 1 ELSE spent[t]]
    /\ UNCHANGED <<pc, flags, conn, sensing>>

\* A mutant: the watchdog interrupts instead of resetting.
Reset_Interrupts ==
    /\ wdog = WDOG_PERIOD
    /\ wdog' = 0
    /\ UNCHANGED <<pc, delay, spent, flags, conn, sensing>>

Reset ==
    /\ wdog = WDOG_PERIOD
    /\ pc' = [t \in Contexts |-> IF t = "appInitSystem" THEN "start"
                                                        ELSE "none"]
    /\ delay' = [t \in Contexts |-> 0]
    /\ spent' = [t \in Contexts |-> 0]
    /\ wdog' = 0
    /\ killTick' = FALSE
    /\ deletePolling' = FALSE
    /\ wifiConnected' = FALSE
    /\ conn' = "closed"
    /\ enabledSensors' = Sensors
    /\ sensor' = 0
    /\ left' = 0

------------------------------------------------------------------------------
Boot == StartSystem \/ WifiConnectInitOk \/ WifiConnectInitFail
        \/ MqttConnectInit
Wifi == WifiReconnectTop \/ WifiReconnectJoin \/ WifiReconnectOk
        \/ WifiReconnectFail
Connection ==
    \/ AwaitWifi("MqttConnectionTask", "connect")
    \/ MqttInitOk \/ MqttInitFail
Subscription ==
    \/ AwaitWifi("MqttSubscriptionTask", "subscribe")
    \/ MqttSubscribeOk \/ MqttSubscribeFail
    \/ TickInit \/ CommandHandlerInit
Waiting ==
    \E t \in {"MqttConnectionTask", "MqttSubscriptionTask"} : AwaitedWifi(t)
Publisher == TickTop \/ TickSkip \/ TickRead \/ MqttSendDataOk
             \/ MqttSendDataFail \/ TickRoundDone \/ TickWake
Poller == MqttYieldTop \/ SensorCommand \/ MQTTYieldReturns \/ XdkReadSpins
          \/ MqttYieldWake

\* No software runs once the watchdog has expired.
On == wdog < WDOG_PERIOD

Running ==
    /\ On
    /\ \/ Boot \/ Wifi \/ Connection \/ Waiting \/ Subscription
       \/ Publisher \/ Poller \/ ButtonOneCallback \/ LoseConnection \/ Second

Next == Running \/ Reset

Spec == Init /\ [][Next]_vars

(***************************************************************************)
(* Fairness.  FreeRTOS runs every ready task in the end, except that a     *)
(* poller that spins has the highest priority and may keep Tick from the   *)
(* processor for ever.  The tick interrupt and the clock of the watchdog   *)
(* never stop.  No blocking call is assumed to return.                     *)
(***************************************************************************)
KernelFairness ==
    /\ WF_vars(On /\ (StartSystem \/ MqttConnectInit))
    /\ WF_vars(On /\ (WifiReconnectTop \/ WifiReconnectJoin))
    /\ WF_vars(On /\ (AwaitWifi("MqttConnectionTask", "connect")
                       \/ AwaitedWifi("MqttConnectionTask")))
    /\ WF_vars(On /\ (AwaitWifi("MqttSubscriptionTask", "subscribe")
                       \/ TickInit \/ CommandHandlerInit))
    /\ WF_vars(/\ On /\ pc["MqttYield"] # "spin"
               /\ TickTop \/ TickSkip \/ TickRead \/ TickRoundDone \/ TickWake)
    /\ WF_vars(On /\ Second)
    /\ WF_vars(Reset)

FairSpec == Spec /\ KernelFairness

\* The world is kind often enough: of the attempts to join the WLAN, connect
\* and subscribe that are made again and again, some succeed.
ReachableServer ==
    /\ SF_vars(On /\ (WifiConnectInitOk \/ WifiReconnectOk))
    /\ SF_vars(On /\ MqttInitOk)
    /\ SF_vars(On /\ MqttSubscribeOk)

\* A broken connection is noticed by some send in the end, and a sensor that
\* is enabled for ever is read successfully some time.
LossIsNoticed ==
    /\ SF_vars(On /\ conn = "lost" /\ MqttSendDataFail)
    /\ SF_vars(On /\ TickRead)

------------------------------------------------------------------------------
(***************************************************************************)
(* Properties.                                                             *)
(***************************************************************************)
TimingType ==
    /\ pc \in [Contexts -> {"none", "ended", "idle", "start", "join",
                            "handoff", "top", "sleep", "connect",
                            "subscribe", "tickInit", "commandInit",
                            "sense", "send", "poll", "spin"}]
    /\ delay \in [Contexts -> Nat]
    /\ spent \in [Contexts -> Nat]
    /\ wdog \in 0 .. WDOG_PERIOD
FlagsType ==
    /\ killTick \in BOOLEAN
    /\ deletePolling \in BOOLEAN
    /\ wifiConnected \in BOOLEAN
    /\ conn \in {"closed", "open", "lost"}
SensingType ==
    /\ enabledSensors \in SUBSET Sensors
    /\ sensor \in 0 .. NUM_SENSORS
    /\ left \in Nat

\* The type invariant.
TypeOK == TimingType /\ FlagsType /\ SensingType

\* waitfor is "only used in single-threaded mode where one command at a time
\* is in process" (MQTTClient.c:305): while MqttInit or MqttSubscribe waits
\* for its answer, no other task that uses the MQTT client exists.
SingleThreadedCommands ==
    /\ pc["MqttConnectionTask"] = "connect" =>
          \A t \in {"MqttSubscriptionTask", "Tick", "MqttYield"} : ~Alive(t)
    /\ pc["MqttSubscriptionTask"] = "subscribe" =>
          \A t \in {"MqttConnectionTask", "Tick", "MqttYield"} : ~Alive(t)

\* The publisher and the poller are started only over a connection that
\* MqttInit opened, after the WLAN was joined, and no task that could open
\* another one (and reinitialise the shared client) is left beside them.
ServedOverOwnConnection ==
    Alive("Tick") \/ Alive("MqttYield") =>
        /\ wifiConnected
        /\ conn # "closed"
        /\ \A t \in {"appInitSystem", "WifiReconnect",
                      "MqttConnectionTask"} : ~Alive(t)

\* Only one context at a time is inside WiFiInit, and none once the WLAN is
\* joined: WifiReconnect does not look at wifiConnected after its delay.
JoinsOnce ==
    /\ ~(pc["appInitSystem"] = "join" /\ pc["WifiReconnect"] = "join")
    /\ wifiConnected => /\ pc["appInitSystem"] # "join"
                        /\ pc["WifiReconnect"] # "join"

\* A poller that outlives the publisher without having been told to stop
\* owes it to the button: Tick's own failure path stops the poller first, but
\* MqttInit clears deletePolling and leaves a killTick set before it.
OrphanPollerOnlyByButton ==
    Alive("MqttYield") /\ pc["Tick"] = "ended" /\ ~deletePolling =>
        pc["ButtonOneCallback"] = "ended"

\* How long the loop of each feeding task may sleep between two feeds.
Period(t) == CASE t = "appInitSystem" -> 0
               [] t = "Tick" -> PUBLISH_PERIOD
               [] OTHER -> RECONNECT_PERIOD

\* The watchdog never bites a task that is merely sleeping its period: when
\* it expires, every task that should have fed it was held up, in blocking
\* calls or for want of the processor, for all the rest of the time.
NoSpuriousReset ==
    wdog = WDOG_PERIOD =>
        \A t \in Feeders : Alive(t) => spent[t] + Period(t) >= WDOG_PERIOD

\* The part of its period a task has slept since it last fed the watchdog.
Slept(t) == CASE pc[t] = "sleep" -> Period(t) - delay[t]
              [] pc[t] = "top" -> Period(t)
              [] OTHER -> 0

\* The strengthening of NoSpuriousReset that every step preserves: the
\* watchdog has counted no more than each task has slept and spent.
FedInTime ==
    \A t \in Feeders : Alive(t) =>
        /\ wdog <= spent[t] + Slept(t)
        /\ pc[t] = "sleep" => delay[t] <= Period(t)

\* The states each task can be in.
ControlOK ==
    /\ pc["appInitSystem"] \in {"start", "join", "handoff", "ended"}
    /\ pc["WifiReconnect"] \in {"none", "top", "sleep", "join", "ended"}
    /\ pc["MqttConnectionTask"] \in
          {"none", "top", "sleep", "connect", "ended"}
    /\ pc["MqttSubscriptionTask"] \in
          {"none", "top", "sleep", "subscribe", "tickInit", "commandInit",
           "ended"}
    /\ pc["Tick"] \in {"none", "top", "sense", "send", "sleep", "ended"}
    /\ pc["MqttYield"] \in {"none", "top", "poll", "spin", "sleep", "ended"}
    /\ pc["ButtonOneCallback"] \in {"none", "idle", "ended"}

\* While Tick sends, it holds data of a sensor that exists.
HoldsData == pc["Tick"] = "send" => left >= 1 /\ sensor \in Sensors

\* The tasks follow each other: each link of the chain exists only after the
\* one before it has done its work and created it.
Chain ==
    /\ pc["MqttConnectionTask"] # "none" => pc["appInitSystem"] = "ended"
    /\ pc["MqttSubscriptionTask"] # "none" =>
          pc["MqttConnectionTask"] = "ended" /\ conn # "closed"
    /\ pc["Tick"] # "none" =>
          pc["MqttSubscriptionTask"] \in {"commandInit", "ended"}
    /\ pc["MqttYield"] # "none" => pc["MqttSubscriptionTask"] = "ended"
    /\ conn # "closed" => pc["MqttConnectionTask"] = "ended"
    /\ conn # "closed" \/ pc["MqttConnectionTask"] = "connect" =>
          wifiConnected
    /\ pc["appInitSystem"] \in {"start", "join"} =>
          ~wifiConnected /\ pc["WifiReconnect"] = "none"
    /\ wifiConnected => ~Alive("WifiReconnect")
    /\ pc["appInitSystem"] = "start" => pc["ButtonOneCallback"] = "none"

\* A request to stop the publisher, and a publisher that ended without
\* stopping the poller, both come from the button.
StoppedByButton ==
    killTick \/ (pc["Tick"] = "ended" /\ ~deletePolling) =>
        pc["ButtonOneCallback"] = "ended"

\* The inductive invariant: its parts are preserved together, and the safety
\* invariants above follow from it.
IInv == /\ TypeOK /\ ControlOK /\ HoldsData
        /\ Chain /\ StoppedByButton /\ FedInTime

\* How far each user of the MQTT client is.  The connecting and the
\* subscribing task end with the success or failure of their one call.
Connecting ==
    CASE pc["MqttConnectionTask"] = "connect" -> "in"
      [] pc["MqttConnectionTask"] = "ended" ->
           IF conn = "closed" THEN "gone" ELSE "ok"
      [] OTHER -> "idle"
Subscribing ==
    CASE pc["MqttSubscriptionTask"] = "subscribe" -> "in"
      [] pc["MqttSubscriptionTask"] \in {"tickInit", "commandInit"} -> "ok"
      [] pc["MqttSubscriptionTask"] = "ended" ->
           IF pc["Tick"] = "none" /\ pc["MqttYield"] = "none" THEN "gone"
                                                            ELSE "ok"
      [] OTHER -> "idle"
Publishing == CASE pc["Tick"] = "send" -> "in"
                [] pc["Tick"] = "ended" -> "gone"
                [] OTHER -> "idle"
Polling == CASE pc["MqttYield"] \in {"poll", "spin"} -> "in"
             [] pc["MqttYield"] = "ended" -> "gone"
             [] OTHER -> "idle"
Stage(u) == CASE u = "connecting"  -> Connecting
              [] u = "subscribing" -> Subscribing
              [] u = "publishing"  -> Publishing
              [] u = "polling"     -> Polling
Calls == [u \in {"connecting", "subscribing", "publishing", "polling"} |->
            Stage(u)]

\* Once the last feeding task is gone nothing but the watchdog brings the
\* device back, and it does; until then service comes only after a start.
Phase ==
    IF Alive("Tick") THEN "serving"
    ELSE IF pc["Tick"] = "none" /\ \E t \in Feeders : Alive(t)
         THEN "starting" ELSE "halted"
Device == INSTANCE Supervisor WITH phase <- Phase
ImplementsSupervisor == Device!Spec

\* The four tasks use the client as ClientUse demands, which is what its use
\* from several threads without a lock depends on (MQTTClient.c:305).
Client == INSTANCE ClientUse WITH calls <- Calls
ImplementsClientUse == Client!Spec

\* No task that the way to Tick needs was lost for want of memory.
MemorySuffices ==
    /\ pc["appInitSystem"] = "handoff" =>
          wifiConnected \/ pc["WifiReconnect"] # "none"
    /\ pc["appInitSystem"] = "ended" => pc["MqttConnectionTask"] # "none"
    /\ pc["MqttConnectionTask"] = "ended" =>
          conn = "closed" \/ pc["MqttSubscriptionTask"] # "none"
    /\ pc["MqttSubscriptionTask"] = "commandInit" => pc["Tick"] # "none"

\* In the end the network is left alone, nobody presses the button any more
\* and some sensor is left switched on, can be read and its data be sent.
SendingIsPossible ==
    /\ <>[][~LoseConnection /\ ~ButtonOneCallback]_vars
    /\ \E s \in Sensors : <>[](s \in enabledSensors)
    /\ SF_vars(On /\ TickRead)
    /\ SF_vars(On /\ MqttSendDataOk)

\* Whatever failed, was lost or was pressed before, and however many resets it
\* took, the device sends measurements again and again, as long as there is
\* memory for its tasks, the server can be reached and sending is possible.
AlwaysServesAgain ==
    []MemorySuffices /\ ReachableServer /\ SendingIsPossible
        => []<><<MqttSendDataOk>>_vars

\* A broken connection ends in a reset as long as one sensor is enabled and
\* sends fail: Tick's failing send is the only thing that notices the loss.
LossEndsInReset ==
    LossIsNoticed => (conn = "lost" /\ enabledSensors # {} ~> conn = "closed")

\* "Connection to MQTT server failed. Retrying in %d ms" (tasks.c:222): the
\* connection task does not end before there is a connection.
FailedConnectionIsRetried ==
    pc["MqttConnectionTask"] = "ended" => conn # "closed"
==============================================================================
