----------------------------- MODULE TasksProofs -----------------------------
(***************************************************************************)
(* Proofs about Tasks, for all periods, any number of sensors, any number  *)
(* of measurements per sensor, and with or without failing task creation.  *)
(***************************************************************************)
EXTENDS Tasks, TLAPS

\* The names of the tasks, so that Contexts need not be expanded below.
LEMMA Names ==
    /\ Feeders \subseteq Contexts
    /\ "appInitSystem" \in Feeders /\ "WifiReconnect" \in Feeders
    /\ "MqttConnectionTask" \in Feeders /\ "MqttSubscriptionTask" \in Feeders
    /\ "Tick" \in Feeders
    /\ "MqttYield" \in Contexts /\ "ButtonOneCallback" \in Contexts
BY DEF Contexts, Feeders

\* Neither the poller nor the button callback feeds the watchdog in a loop.
LEMMA NonFeeders ==
    "MqttYield" \notin Feeders /\ "ButtonOneCallback" \notin Feeders
BY DEF Feeders

\* OS_taskCreate makes a task ready or fails to make it.
LEMMA Created == \A c \in OS_taskCreate : c = "top" \/ c = "none"
BY DEF OS_taskCreate

\* Every step keeps the types of the program counters and of the clocks.
LEMMA TimingStep ==
    ASSUME TimingType, [Next]_vars
    PROVE  TimingType'
<1> USE Names, Created, PeriodAssumption DEF TimingType, timing
<1>1. CASE StartSystem
  BY <1>1 DEF StartSystem, ButtonOneInit, WDOG_Feed
<1>2. CASE WifiConnectInitOk
  BY <1>2 DEF WifiConnectInitOk, Goto, WDOG_Feed
<1>3. CASE WifiConnectInitFail
  BY <1>3 DEF WifiConnectInitFail, Create, OS_taskCreate
<1>4. CASE MqttConnectInit
  BY <1>4 DEF MqttConnectInit, Create, OS_taskCreate, WDOG_Feed
<1>5. CASE WifiReconnectTop
  BY <1>5 DEF WifiReconnectTop, Goto, OS_taskDelay, WDOG_Feed
<1>6. CASE WifiReconnectJoin
  BY <1>6 DEF WifiReconnectJoin, Wake, Goto, WDOG_Feed
<1>7. CASE WifiReconnectOk
  BY <1>7 DEF WifiReconnectOk, Goto, WDOG_Feed
<1>8. CASE WifiReconnectFail
  BY <1>8 DEF WifiReconnectFail, Goto
<1>9. CASE AwaitWifi("MqttConnectionTask", "connect")
  BY <1>9 DEF AwaitWifi, Goto, OS_taskDelay, WDOG_Feed
<1>10. CASE MqttInitOk
  BY <1>10 DEF MqttInitOk, Create, OS_taskCreate, WDOG_Feed
<1>11. CASE MqttInitFail
  BY <1>11 DEF MqttInitFail, Restart, Goto, WDOG_Feed
<1>12. CASE Waiting
  BY <1>12 DEF Waiting, AwaitedWifi, Wake, Goto
<1>13. CASE AwaitWifi("MqttSubscriptionTask", "subscribe")
  BY <1>13 DEF AwaitWifi, Goto, OS_taskDelay, WDOG_Feed
<1>14. CASE MqttSubscribeOk
  BY <1>14 DEF MqttSubscribeOk, Goto
<1>15. CASE MqttSubscribeFail
  BY <1>15 DEF MqttSubscribeFail, Restart, Goto, WDOG_Feed
<1>16. CASE TickInit
  BY <1>16 DEF TickInit, Create, OS_taskCreate, WDOG_Feed
<1>17. CASE CommandHandlerInit
  BY <1>17 DEF CommandHandlerInit, Create, OS_taskCreate, WDOG_Feed
<1>18. CASE TickTop
  BY <1>18 DEF TickTop, Goto, WDOG_Feed
<1>19. CASE TickSkip
  BY <1>19 DEF TickSkip
<1>20. CASE TickRead
  BY <1>20 DEF TickRead, Goto, WDOG_Feed
<1>21. CASE MqttSendDataOk
  BY <1>21 DEF MqttSendDataOk, Goto, WDOG_Feed
<1>22. CASE MqttSendDataFail
  BY <1>22 DEF MqttSendDataFail, Restart, Goto, WDOG_Feed
<1>23. CASE TickRoundDone
  BY <1>23 DEF TickRoundDone, OS_taskDelay, Goto
<1>24. CASE TickWake
  BY <1>24 DEF TickWake, Wake, Goto
<1>25. CASE MqttYieldTop
  BY <1>25 DEF MqttYieldTop, Goto
<1>26. CASE SensorCommand
  BY <1>26 DEF SensorCommand
<1>27. CASE MQTTYieldReturns
  BY <1>27 DEF MQTTYieldReturns, Goto
<1>28. CASE XdkReadSpins
  BY <1>28 DEF XdkReadSpins, Goto
<1>29. CASE MqttYieldWake
  BY <1>29 DEF MqttYieldWake, Goto
<1>30. CASE ButtonOneCallback
  BY <1>30 DEF ButtonOneCallback, Restart, Goto, WDOG_Feed
<1>31. CASE LoseConnection
  BY <1>31 DEF LoseConnection
<1>32. CASE Second /\ On
  BY <1>32 DEF Second, Sleeping, On
<1>33. CASE Reset
  BY <1>33 DEF Reset
<1>34. CASE UNCHANGED vars
  BY <1>34 DEF vars
<1> QED
  BY <1>1, <1>2, <1>3, <1>4, <1>5, <1>6, <1>7, <1>8, <1>9, <1>10, <1>11,
     <1>12, <1>13, <1>14, <1>15, <1>16, <1>17, <1>18, <1>19, <1>20, <1>21,
     <1>22, <1>23, <1>24, <1>25, <1>26, <1>27, <1>28, <1>29, <1>30, <1>31,
     <1>32, <1>33, <1>34
  DEF Next, Running, On, Boot, Wifi, Connection, Subscription, Publisher,
      Poller

\* Every step keeps the types of the shared flags and of the connection.
LEMMA FlagsStep ==
    ASSUME FlagsType, [Next]_vars
    PROVE  FlagsType'
<1> USE DEF FlagsType, flags
<1>1. CASE Boot
  BY <1>1 DEF Boot, StartSystem, ButtonOneInit, WifiConnectInitOk,
      WifiConnectInitFail, MqttConnectInit
<1>2. CASE Wifi
  BY <1>2 DEF Wifi, WifiReconnectTop, WifiReconnectJoin, WifiReconnectOk,
      WifiReconnectFail
<1>3. CASE Connection
  BY <1>3 DEF Connection, AwaitWifi, MqttInitOk, MqttInitFail
<1>4. CASE Waiting
  BY <1>4 DEF Waiting, AwaitedWifi
<1>5. CASE Subscription
  BY <1>5 DEF Subscription, AwaitWifi, MqttSubscribeOk, MqttSubscribeFail,
      TickInit, CommandHandlerInit
<1>6. CASE Publisher
  BY <1>6 DEF Publisher, TickTop, TickSkip, TickRead, MqttSendDataOk,
      MqttSendDataFail, TickRoundDone, TickWake
<1>7. CASE Poller
  BY <1>7 DEF Poller, MqttYieldTop, SensorCommand, MQTTYieldReturns,
      XdkReadSpins, MqttYieldWake
<1>8. CASE ButtonOneCallback
  BY <1>8 DEF ButtonOneCallback
<1>9. CASE LoseConnection
  BY <1>9 DEF LoseConnection
<1>10. CASE Second
  BY <1>10 DEF Second
<1>11. CASE Reset
  BY <1>11 DEF Reset
<1>12. CASE UNCHANGED vars
  BY <1>12 DEF vars
<1> QED
  BY <1>1, <1>2, <1>3, <1>4, <1>5, <1>6, <1>7, <1>8, <1>9, <1>10, <1>11,
     <1>12
  DEF Next, Running

\* Every step keeps the types of Tick's loop variables, provided Tick is
\* only ever sending with a measurement left and an index in range.
LEMMA SensingStep ==
    ASSUME SensingType, HoldsData, [Next]_vars
    PROVE  SensingType'
<1> USE SensorAssumption DEF SensingType, Sensors, sensing
<1>1. CASE Boot
  BY <1>1 DEF Boot, StartSystem, ButtonOneInit, WifiConnectInitOk,
      WifiConnectInitFail, MqttConnectInit
<1>2. CASE Wifi
  BY <1>2 DEF Wifi, WifiReconnectTop, WifiReconnectJoin, WifiReconnectOk,
      WifiReconnectFail
<1>3. CASE Connection
  BY <1>3 DEF Connection, AwaitWifi, MqttInitOk, MqttInitFail
<1>4. CASE Waiting
  BY <1>4 DEF Waiting, AwaitedWifi
<1>5. CASE Subscription
  BY <1>5 DEF Subscription, AwaitWifi, MqttSubscribeOk, MqttSubscribeFail,
      TickInit, CommandHandlerInit
<1>6. CASE Publisher
  <2>1. CASE TickTop
    BY <2>1 DEF TickTop
  <2>2. CASE TickSkip
    BY <2>2 DEF TickSkip
  <2>3. CASE TickRead
    <3>1. NumMeas[sensor] \in Nat
      BY <2>3 DEF TickRead
    <3>2. QED
      BY <2>3, <3>1 DEF TickRead
  <2>4. CASE MqttSendDataOk
    <3>1. left >= 1 /\ sensor \in Sensors
      BY <2>4 DEF MqttSendDataOk, Goto, HoldsData
    <3>2. left' \in Nat
      BY <2>4, <3>1 DEF MqttSendDataOk
    <3>3. sensor' \in 0 .. NUM_SENSORS
      BY <2>4, <3>1 DEF MqttSendDataOk
    <3>4. enabledSensors' = enabledSensors
      BY <2>4 DEF MqttSendDataOk
    <3>5. QED
      BY <3>2, <3>3, <3>4
  <2>5. CASE MqttSendDataFail \/ TickRoundDone \/ TickWake
    BY <2>5 DEF MqttSendDataFail, TickRoundDone, TickWake
  <2>6. QED
    BY <1>6, <2>1, <2>2, <2>3, <2>4, <2>5 DEF Publisher
<1>7. CASE Poller
  BY <1>7 DEF Poller, MqttYieldTop, SensorCommand, MQTTYieldReturns,
      XdkReadSpins, MqttYieldWake
<1>8. CASE ButtonOneCallback
  BY <1>8 DEF ButtonOneCallback
<1>9. CASE LoseConnection
  BY <1>9 DEF LoseConnection
<1>10. CASE Second
  BY <1>10 DEF Second
<1>11. CASE Reset
  BY <1>11 DEF Reset
<1>12. CASE UNCHANGED vars
  BY <1>12 DEF vars
<1> QED
  BY <1>1, <1>2, <1>3, <1>4, <1>5, <1>6, <1>7, <1>8, <1>9, <1>10, <1>11,
     <1>12
  DEF Next, Running

\* Every step keeps each task within its own control points.
LEMMA ControlStep ==
    ASSUME TimingType, ControlOK, [Next]_vars
    PROVE  ControlOK'
<1> USE Created DEF TimingType, ControlOK, Contexts, Feeders
<1>1. CASE StartSystem
  BY <1>1 DEF StartSystem, ButtonOneInit
<1>2. CASE WifiConnectInitOk
  BY <1>2 DEF WifiConnectInitOk, Goto
<1>3. CASE WifiConnectInitFail
  BY <1>3 DEF WifiConnectInitFail, Create, OS_taskCreate
<1>4. CASE MqttConnectInit
  BY <1>4 DEF MqttConnectInit, Create, OS_taskCreate
<1>5. CASE WifiReconnectTop
  BY <1>5 DEF WifiReconnectTop, Goto, OS_taskDelay
<1>6. CASE WifiReconnectJoin
  BY <1>6 DEF WifiReconnectJoin, Wake, Goto
<1>7. CASE WifiReconnectOk
  BY <1>7 DEF WifiReconnectOk, Goto
<1>8. CASE WifiReconnectFail
  BY <1>8 DEF WifiReconnectFail, Goto
<1>9. CASE AwaitWifi("MqttConnectionTask", "connect")
  BY <1>9 DEF AwaitWifi, Goto, OS_taskDelay
<1>10. CASE MqttInitOk
  BY <1>10 DEF MqttInitOk, Create, OS_taskCreate
<1>11. CASE MqttInitFail
  BY <1>11 DEF MqttInitFail, Restart, Goto
<1>12. CASE Waiting
  BY <1>12 DEF Waiting, AwaitedWifi, Wake, Goto
<1>13. CASE AwaitWifi("MqttSubscriptionTask", "subscribe")
  BY <1>13 DEF AwaitWifi, Goto, OS_taskDelay
<1>14. CASE MqttSubscribeOk
  BY <1>14 DEF MqttSubscribeOk, Goto
<1>15. CASE MqttSubscribeFail
  BY <1>15 DEF MqttSubscribeFail, Restart, Goto
<1>16. CASE TickInit
  BY <1>16 DEF TickInit, Create, OS_taskCreate
<1>17. CASE CommandHandlerInit
  BY <1>17 DEF CommandHandlerInit, Create, OS_taskCreate
<1>18. CASE TickTop
  BY <1>18 DEF TickTop, Goto
<1>19. CASE TickSkip
  BY <1>19 DEF TickSkip
<1>20. CASE TickRead
  BY <1>20 DEF TickRead, Goto
<1>21. CASE MqttSendDataOk
  BY <1>21 DEF MqttSendDataOk, Goto
<1>22. CASE MqttSendDataFail
  BY <1>22 DEF MqttSendDataFail, Restart, Goto
<1>23. CASE TickRoundDone
  BY <1>23 DEF TickRoundDone, OS_taskDelay, Goto
<1>24. CASE TickWake
  BY <1>24 DEF TickWake, Wake, Goto
<1>25. CASE MqttYieldTop
  BY <1>25 DEF MqttYieldTop, Goto
<1>26. CASE SensorCommand
  BY <1>26 DEF SensorCommand
<1>27. CASE MQTTYieldReturns
  BY <1>27 DEF MQTTYieldReturns, Goto
<1>28. CASE XdkReadSpins
  BY <1>28 DEF XdkReadSpins, Goto
<1>29. CASE MqttYieldWake
  BY <1>29 DEF MqttYieldWake, Goto
<1>30. CASE ButtonOneCallback
  BY <1>30 DEF ButtonOneCallback, Restart, Goto
<1>31. CASE LoseConnection
  BY <1>31 DEF LoseConnection
<1>32. CASE Second
  BY <1>32 DEF Second
<1>33. CASE Reset
  BY <1>33 DEF Reset
<1>34. CASE UNCHANGED vars
  BY <1>34 DEF vars
<1> QED
  BY <1>1, <1>2, <1>3, <1>4, <1>5, <1>6, <1>7, <1>8, <1>9, <1>10, <1>11,
     <1>12, <1>13, <1>14, <1>15, <1>16, <1>17, <1>18, <1>19, <1>20, <1>21,
     <1>22, <1>23, <1>24, <1>25, <1>26, <1>27, <1>28, <1>29, <1>30, <1>31,
     <1>32, <1>33, <1>34
  DEF Next, Running, Boot, Wifi, Connection, Subscription, Publisher,
      Poller

\* Every step leaves Tick sending only what it read.
LEMMA HoldsDataStep ==
    ASSUME TimingType, SensingType, HoldsData, [Next]_vars
    PROVE  HoldsData'
<1> DEFINE tick == pc["Tick"]
<1>1. CASE TickRead
  <2>1. sensor \in Sensors /\ sensor' = sensor
    BY <1>1 DEF TickRead, SensingType
  <2>2. NumMeas[sensor] \in Nat \ {0}
    BY <2>1, SensorAssumption DEF Sensors
  <2>3. left' >= 1
    BY <1>1, <2>2 DEF TickRead
  <2>4. QED
    BY <2>1, <2>3 DEF HoldsData, Sensors
<1>2. CASE MqttSendDataOk
  <2>1. left >= 1 /\ sensor \in Sensors
    BY <1>2 DEF MqttSendDataOk, Goto, HoldsData
  <2>2. CASE left > 1
    <3>1. left' >= 1 /\ sensor' = sensor
      BY <1>2, <2>2 DEF MqttSendDataOk, SensingType
    <3>2. QED
      BY <2>1, <3>1 DEF HoldsData, Sensors
  <2>3. CASE ~(left > 1)
    <3>1. tick' = "sense"
      BY <1>2, <2>3 DEF MqttSendDataOk, Goto, TimingType, Contexts, Feeders
    <3>2. QED
      BY <3>1 DEF HoldsData
  <2>4. QED
    BY <2>2, <2>3
<1>3. CASE tick' # "send"
  BY <1>3 DEF HoldsData
<1>4. CASE UNCHANGED <<tick, sensor, left>>
  BY <1>4 DEF HoldsData, Sensors
<1>5. tick' # "send" \/ UNCHANGED <<tick, sensor, left>>
      \/ TickRead \/ MqttSendDataOk
  <2> USE Created DEF TimingType, Contexts, Feeders, sensing
  <2>1. CASE Boot
    BY <2>1 DEF Boot, StartSystem, ButtonOneInit, WifiConnectInitOk,
        WifiConnectInitFail, MqttConnectInit, Create, Goto
  <2>2. CASE Wifi
    BY <2>2 DEF Wifi, WifiReconnectTop, WifiReconnectJoin, WifiReconnectOk,
        WifiReconnectFail, Goto, OS_taskDelay, Wake
  <2>3. CASE Connection
    BY <2>3 DEF Connection, AwaitWifi, MqttInitOk, MqttInitFail, Create,
        Goto, OS_taskDelay, Restart
  <2>4. CASE Waiting
    BY <2>4 DEF Waiting, AwaitedWifi, Wake, Goto
  <2>5. CASE Subscription
    BY <2>5 DEF Subscription, AwaitWifi, MqttSubscribeOk,
        MqttSubscribeFail, TickInit, CommandHandlerInit, Create, Goto,
        OS_taskDelay, Restart
  <2>6. CASE Publisher
    BY <2>6 DEF Publisher, TickTop, TickSkip, MqttSendDataFail,
        TickRoundDone, TickWake, Goto, OS_taskDelay, Restart, Wake
  <2>7. CASE Poller
    BY <2>7 DEF Poller, MqttYieldTop, SensorCommand, MQTTYieldReturns,
        XdkReadSpins, MqttYieldWake, Goto
  <2>8. CASE ButtonOneCallback
    BY <2>8 DEF ButtonOneCallback, Restart, Goto
  <2>9. CASE LoseConnection \/ Second
    BY <2>9 DEF LoseConnection, Second
  <2>10. CASE Reset
    BY <2>10 DEF Reset
  <2>11. CASE UNCHANGED vars
    BY <2>11 DEF vars
  <2>12. QED
    BY <2>1, <2>2, <2>3, <2>4, <2>5, <2>6, <2>7, <2>8, <2>9, <2>10, <2>11
    DEF Next, Running
<1>6. QED
  BY <1>1, <1>2, <1>3, <1>4, <1>5

\* Every step keeps the order in which the tasks create each other.
LEMMA ChainStep ==
    ASSUME TimingType, FlagsType, ControlOK, Chain, [Next]_vars
    PROVE  Chain'
<1> USE Created
    DEF TimingType, FlagsType, ControlOK, Chain, Contexts, Feeders, Alive,
        flags
<1>1. CASE StartSystem
  BY <1>1 DEF StartSystem, ButtonOneInit
<1>2. CASE WifiConnectInitOk
  BY <1>2 DEF WifiConnectInitOk, Goto
<1>3. CASE WifiConnectInitFail
  BY <1>3 DEF WifiConnectInitFail, Create, OS_taskCreate
<1>4. CASE MqttConnectInit
  BY <1>4 DEF MqttConnectInit, Create, OS_taskCreate
<1>5. CASE WifiReconnectTop
  BY <1>5 DEF WifiReconnectTop, Goto, OS_taskDelay
<1>6. CASE WifiReconnectJoin
  BY <1>6 DEF WifiReconnectJoin, Wake, Goto
<1>7. CASE WifiReconnectOk
  BY <1>7 DEF WifiReconnectOk, Goto
<1>8. CASE WifiReconnectFail
  BY <1>8 DEF WifiReconnectFail, Goto
<1>9. CASE AwaitWifi("MqttConnectionTask", "connect")
  BY <1>9 DEF AwaitWifi, Goto, OS_taskDelay
<1>10. CASE MqttInitOk
  BY <1>10 DEF MqttInitOk, Create, OS_taskCreate
<1>11. CASE MqttInitFail
  BY <1>11 DEF MqttInitFail, Restart, Goto
<1>12. CASE Waiting
  BY <1>12 DEF Waiting, AwaitedWifi, Wake, Goto
<1>13. CASE AwaitWifi("MqttSubscriptionTask", "subscribe")
  BY <1>13 DEF AwaitWifi, Goto, OS_taskDelay
<1>14. CASE MqttSubscribeOk
  BY <1>14 DEF MqttSubscribeOk, Goto
<1>15. CASE MqttSubscribeFail
  BY <1>15 DEF MqttSubscribeFail, Restart, Goto
<1>16. CASE TickInit
  BY <1>16 DEF TickInit, Create, OS_taskCreate
<1>17. CASE CommandHandlerInit
  BY <1>17 DEF CommandHandlerInit, Create, OS_taskCreate
<1>18. CASE TickTop
  BY <1>18 DEF TickTop, Goto
<1>19. CASE TickSkip
  BY <1>19 DEF TickSkip
<1>20. CASE TickRead
  BY <1>20 DEF TickRead, Goto
<1>21. CASE MqttSendDataOk
  BY <1>21 DEF MqttSendDataOk, Goto
<1>22. CASE MqttSendDataFail
  BY <1>22 DEF MqttSendDataFail, Restart, Goto
<1>23. CASE TickRoundDone
  BY <1>23 DEF TickRoundDone, OS_taskDelay, Goto
<1>24. CASE TickWake
  BY <1>24 DEF TickWake, Wake, Goto
<1>25. CASE MqttYieldTop
  BY <1>25 DEF MqttYieldTop, Goto
<1>26. CASE SensorCommand
  BY <1>26 DEF SensorCommand
<1>27. CASE MQTTYieldReturns
  BY <1>27 DEF MQTTYieldReturns, Goto
<1>28. CASE XdkReadSpins
  BY <1>28 DEF XdkReadSpins, Goto
<1>29. CASE MqttYieldWake
  BY <1>29 DEF MqttYieldWake, Goto
<1>30. CASE ButtonOneCallback
  BY <1>30 DEF ButtonOneCallback, Restart, Goto
<1>31. CASE LoseConnection
  BY <1>31 DEF LoseConnection
<1>32. CASE Second
  BY <1>32 DEF Second
<1>33. CASE Reset
  BY <1>33 DEF Reset
<1>34. CASE UNCHANGED vars
  BY <1>34 DEF vars
<1> QED
  BY <1>1, <1>2, <1>3, <1>4, <1>5, <1>6, <1>7, <1>8, <1>9, <1>10, <1>11,
     <1>12, <1>13, <1>14, <1>15, <1>16, <1>17, <1>18, <1>19, <1>20, <1>21,
     <1>22, <1>23, <1>24, <1>25, <1>26, <1>27, <1>28, <1>29, <1>30, <1>31,
     <1>32, <1>33, <1>34
  DEF Next, Running, Boot, Wifi, Connection, Subscription, Publisher,
      Poller

\* Every step leaves a publisher that ended with a running poller to the
\* button: MqttInit clears deletePolling only before Tick exists.
LEMMA StoppedStep ==
    ASSUME TimingType, FlagsType, ControlOK, Chain, StoppedByButton,
           [Next]_vars
    PROVE  StoppedByButton'
<1> USE Created
    DEF TimingType, FlagsType, ControlOK, StoppedByButton, Contexts,
        Feeders, flags
<1>1. CASE StartSystem
  BY <1>1 DEF StartSystem, ButtonOneInit, Chain
<1>2. CASE WifiConnectInitOk
  BY <1>2 DEF WifiConnectInitOk, Goto
<1>3. CASE WifiConnectInitFail
  BY <1>3 DEF WifiConnectInitFail, Create, OS_taskCreate
<1>4. CASE MqttConnectInit
  BY <1>4 DEF MqttConnectInit, Create, OS_taskCreate
<1>5. CASE WifiReconnectTop
  BY <1>5 DEF WifiReconnectTop, Goto, OS_taskDelay
<1>6. CASE WifiReconnectJoin
  BY <1>6 DEF WifiReconnectJoin, Wake, Goto
<1>7. CASE WifiReconnectOk
  BY <1>7 DEF WifiReconnectOk, Goto
<1>8. CASE WifiReconnectFail
  BY <1>8 DEF WifiReconnectFail, Goto
<1>9. CASE AwaitWifi("MqttConnectionTask", "connect")
  BY <1>9 DEF AwaitWifi, Goto, OS_taskDelay
<1>10. CASE MqttInitOk
  BY <1>10 DEF MqttInitOk, Create, OS_taskCreate, Chain
<1>11. CASE MqttInitFail
  BY <1>11 DEF MqttInitFail, Restart, Goto
<1>12. CASE Waiting
  BY <1>12 DEF Waiting, AwaitedWifi, Wake, Goto
<1>13. CASE AwaitWifi("MqttSubscriptionTask", "subscribe")
  BY <1>13 DEF AwaitWifi, Goto, OS_taskDelay
<1>14. CASE MqttSubscribeOk
  BY <1>14 DEF MqttSubscribeOk, Goto
<1>15. CASE MqttSubscribeFail
  BY <1>15 DEF MqttSubscribeFail, Restart, Goto
<1>16. CASE TickInit
  BY <1>16 DEF TickInit, Create, OS_taskCreate
<1>17. CASE CommandHandlerInit
  BY <1>17 DEF CommandHandlerInit, Create, OS_taskCreate
<1>18. CASE TickTop
  BY <1>18 DEF TickTop, Goto
<1>19. CASE TickSkip
  BY <1>19 DEF TickSkip
<1>20. CASE TickRead
  BY <1>20 DEF TickRead, Goto
<1>21. CASE MqttSendDataOk
  BY <1>21 DEF MqttSendDataOk, Goto
<1>22. CASE MqttSendDataFail
  BY <1>22 DEF MqttSendDataFail, Restart, Goto
<1>23. CASE TickRoundDone
  BY <1>23 DEF TickRoundDone, OS_taskDelay, Goto
<1>24. CASE TickWake
  BY <1>24 DEF TickWake, Wake, Goto
<1>25. CASE MqttYieldTop
  BY <1>25 DEF MqttYieldTop, Goto
<1>26. CASE SensorCommand
  BY <1>26 DEF SensorCommand
<1>27. CASE MQTTYieldReturns
  BY <1>27 DEF MQTTYieldReturns, Goto
<1>28. CASE XdkReadSpins
  BY <1>28 DEF XdkReadSpins, Goto
<1>29. CASE MqttYieldWake
  BY <1>29 DEF MqttYieldWake, Goto
<1>30. CASE ButtonOneCallback
  BY <1>30 DEF ButtonOneCallback, Restart, Goto
<1>31. CASE LoseConnection
  BY <1>31 DEF LoseConnection
<1>32. CASE Second
  BY <1>32 DEF Second
<1>33. CASE Reset
  BY <1>33 DEF Reset
<1>34. CASE UNCHANGED vars
  BY <1>34 DEF vars
<1> QED
  BY <1>1, <1>2, <1>3, <1>4, <1>5, <1>6, <1>7, <1>8, <1>9, <1>10, <1>11,
     <1>12, <1>13, <1>14, <1>15, <1>16, <1>17, <1>18, <1>19, <1>20, <1>21,
     <1>22, <1>23, <1>24, <1>25, <1>26, <1>27, <1>28, <1>29, <1>30, <1>31,
     <1>32, <1>33, <1>34
  DEF Next, Running, Boot, Wifi, Connection, Subscription, Publisher,
      Poller

\* Every step keeps the watchdog's count within what each task accounts for.
LEMMA FedStep ==
    ASSUME TimingType, ControlOK, FedInTime, [Next]_vars
    PROVE  FedInTime'
<1> USE Names, NonFeeders, Created, PeriodAssumption
    DEF TimingType, ControlOK, FedInTime, Period, Slept, Alive, timing
<1>1. CASE StartSystem
  BY <1>1 DEF StartSystem, ButtonOneInit, WDOG_Feed
<1>2. CASE WifiConnectInitOk
  BY <1>2 DEF WifiConnectInitOk, Goto, WDOG_Feed
<1>3. CASE WifiConnectInitFail
  BY <1>3 DEF WifiConnectInitFail, Create, OS_taskCreate
<1>4. CASE MqttConnectInit
  BY <1>4 DEF MqttConnectInit, Create, OS_taskCreate, WDOG_Feed
<1>5. CASE WifiReconnectTop
  BY <1>5 DEF WifiReconnectTop, Goto, OS_taskDelay, WDOG_Feed
<1>6. CASE WifiReconnectJoin
  BY <1>6 DEF WifiReconnectJoin, Wake, Goto, WDOG_Feed
<1>7. CASE WifiReconnectOk
  BY <1>7 DEF WifiReconnectOk, Goto, WDOG_Feed
<1>8. CASE WifiReconnectFail
  BY <1>8 DEF WifiReconnectFail, Goto
<1>9. CASE AwaitWifi("MqttConnectionTask", "connect")
  BY <1>9 DEF AwaitWifi, Goto, OS_taskDelay, WDOG_Feed
<1>10. CASE MqttInitOk
  BY <1>10 DEF MqttInitOk, Create, OS_taskCreate, WDOG_Feed
<1>11. CASE MqttInitFail
  BY <1>11 DEF MqttInitFail, Restart, Goto, WDOG_Feed
<1>12. CASE Waiting
  BY <1>12 DEF Waiting, AwaitedWifi, Wake, Goto
<1>13. CASE AwaitWifi("MqttSubscriptionTask", "subscribe")
  BY <1>13 DEF AwaitWifi, Goto, OS_taskDelay, WDOG_Feed
<1>14. CASE MqttSubscribeOk
  BY <1>14 DEF MqttSubscribeOk, Goto
<1>15. CASE MqttSubscribeFail
  BY <1>15 DEF MqttSubscribeFail, Restart, Goto, WDOG_Feed
<1>16. CASE TickInit
  BY <1>16 DEF TickInit, Create, OS_taskCreate, WDOG_Feed
<1>17. CASE CommandHandlerInit
  BY <1>17 DEF CommandHandlerInit, Create, OS_taskCreate, WDOG_Feed
<1>18. CASE TickTop
  BY <1>18 DEF TickTop, Goto, WDOG_Feed
<1>19. CASE TickSkip
  BY <1>19 DEF TickSkip
<1>20. CASE TickRead
  BY <1>20 DEF TickRead, Goto, WDOG_Feed
<1>21. CASE MqttSendDataOk
  BY <1>21 DEF MqttSendDataOk, Goto, WDOG_Feed
<1>22. CASE MqttSendDataFail
  BY <1>22 DEF MqttSendDataFail, Restart, Goto, WDOG_Feed
<1>23. CASE TickRoundDone
  BY <1>23 DEF TickRoundDone, OS_taskDelay, Goto
<1>24. CASE TickWake
  BY <1>24 DEF TickWake, Wake, Goto
<1>25. CASE MqttYieldTop
  BY <1>25 DEF MqttYieldTop, Goto
<1>26. CASE SensorCommand
  BY <1>26 DEF SensorCommand
<1>27. CASE MQTTYieldReturns
  BY <1>27 DEF MQTTYieldReturns, Goto
<1>28. CASE XdkReadSpins
  BY <1>28 DEF XdkReadSpins, Goto
<1>29. CASE MqttYieldWake
  BY <1>29 DEF MqttYieldWake, Goto
<1>30. CASE ButtonOneCallback
  BY <1>30 DEF ButtonOneCallback, Restart, Goto, WDOG_Feed
<1>31. CASE LoseConnection
  BY <1>31 DEF LoseConnection
<1>32. CASE Second /\ On
  <2> SUFFICES ASSUME NEW t \in Feeders, Alive(t)'
               PROVE  /\ wdog' <= spent'[t] + Slept(t)'
                      /\ pc'[t] = "sleep" => delay'[t] <= Period(t)
    OBVIOUS
  <2>1. /\ pc' = pc /\ wdog' = wdog + 1 /\ wdog + 1 <= WDOG_PERIOD
        /\ Alive(t) /\ t \in Contexts
    BY <1>32 DEF Second, On
  <2>2. /\ delay[t] \in Nat /\ spent[t] \in Nat /\ Period(t) \in Nat
        /\ wdog <= spent[t] + Slept(t)
        /\ pc[t] = "sleep" => delay[t] <= Period(t)
    BY <2>1
  <2>3. CASE Sleeping(t)
    <3>1. delay'[t] = delay[t] - 1 /\ spent'[t] = spent[t]
      BY <1>32, <2>1, <2>3 DEF Second
    <3>2. QED
      BY <2>1, <2>2, <2>3, <3>1 DEF Sleeping
  <2>4. CASE ~Sleeping(t)
    <3>1. /\ delay'[t] = delay[t]
          /\ spent'[t] = IF spent[t] < WDOG_PERIOD THEN spent[t] + 1
                                                   ELSE spent[t]
      BY <1>32, <2>1, <2>4 DEF Second
    <3>2. Slept(t)' = Slept(t) /\ Slept(t) \in Nat
      BY <2>1, <2>2, <3>1
    <3>3. QED
      BY <2>1, <2>2, <3>1, <3>2
  <2>5. QED
    BY <2>3, <2>4
<1>33. CASE Reset
  BY <1>33 DEF Reset
<1>34. CASE UNCHANGED vars
  BY <1>34 DEF vars
<1> QED
  BY <1>1, <1>2, <1>3, <1>4, <1>5, <1>6, <1>7, <1>8, <1>9, <1>10, <1>11,
     <1>12, <1>13, <1>14, <1>15, <1>16, <1>17, <1>18, <1>19, <1>20, <1>21,
     <1>22, <1>23, <1>24, <1>25, <1>26, <1>27, <1>28, <1>29, <1>30, <1>31,
     <1>32, <1>33, <1>34
  DEF Next, Running, On, Boot, Wifi, Connection, Subscription, Publisher,
      Poller

\* The initial states satisfy the inductive invariant.
LEMMA InitIInv == Init => IInv
<1> SUFFICES ASSUME Init PROVE IInv
  OBVIOUS
<1>1. TimingType
  BY PeriodAssumption DEF Init, TimingType
<1>2. FlagsType
  BY DEF Init, FlagsType
<1>3. SensingType
  BY SensorAssumption DEF Init, SensingType, Sensors
<1>4. ControlOK /\ HoldsData /\ Chain /\ StoppedByButton
  BY DEF Init, ControlOK, HoldsData, Chain, StoppedByButton, Contexts,
     Feeders, Alive
<1>5. FedInTime
  BY PeriodAssumption DEF Init, FedInTime, Alive, Slept, Period, Contexts
<1>6. QED
  BY <1>1, <1>2, <1>3, <1>4, <1>5 DEF IInv, TypeOK

\* Every step preserves the inductive invariant.
LEMMA NextIInv == IInv /\ [Next]_vars => IInv'
BY TimingStep, FlagsStep, SensingStep, ControlStep, HoldsDataStep,
   ChainStep, StoppedStep, FedStep
DEF IInv, TypeOK

\* Every reachable state satisfies the inductive invariant.
THEOREM Inductive == Spec => []IInv
BY InitIInv, NextIInv, PTL DEF Spec

\* The type invariant holds in every reachable state.
THEOREM TypeCorrect == Spec => []TypeOK
<1>1. IInv => TypeOK
  BY DEF IInv
<1>2. QED
  BY Inductive, <1>1, PTL

\* While MqttInit or MqttSubscribe waits for its answer, no other task that
\* uses the MQTT client exists: MQTTConnect and MQTTSubscribe may use the
\* shared buffers and waitfor without a lock.
THEOREM CommandsAreSingleThreaded == Spec => []SingleThreadedCommands
<1>1. IInv => SingleThreadedCommands
  BY DEF IInv, TypeOK, ControlOK, Chain, SingleThreadedCommands, Alive
<1>2. QED
  BY Inductive, <1>1, PTL

\* The publisher and the poller live only over the connection MqttInit made,
\* and nothing that could replace it is left.
THEOREM ServesOverOwnConnection == Spec => []ServedOverOwnConnection
<1>1. IInv => ServedOverOwnConnection
  BY DEF IInv, TypeOK, ControlOK, Chain, ServedOverOwnConnection, Alive
<1>2. QED
  BY Inductive, <1>1, PTL

\* WiFiInit is never entered by two contexts, nor again after it succeeded.
THEOREM WifiJoinedOnce == Spec => []JoinsOnce
<1>1. IInv => JoinsOnce
  BY DEF IInv, Chain, JoinsOnce, Alive
<1>2. QED
  BY Inductive, <1>1, PTL

\* A running poller whose publisher has ended has been told to stop, unless
\* the button ended the publisher.
THEOREM OrphanedOnlyByButton == Spec => []OrphanPollerOnlyByButton
<1>1. IInv => OrphanPollerOnlyByButton
  BY DEF IInv, StoppedByButton, OrphanPollerOnlyByButton
<1>2. QED
  BY Inductive, <1>1, PTL

\* Whatever the periods are, the watchdog bites only when every task that
\* should have fed it was held up for the rest of its period.
THEOREM WatchdogIsPatient == Spec => []NoSpuriousReset
<1>1. IInv => NoSpuriousReset
  <2> SUFFICES ASSUME IInv, wdog = WDOG_PERIOD, NEW t \in Feeders, Alive(t)
               PROVE  spent[t] + Period(t) >= WDOG_PERIOD
    BY DEF NoSpuriousReset
  <2>1. /\ delay[t] \in Nat /\ spent[t] \in Nat /\ Period(t) \in Nat
    BY Names, PeriodAssumption DEF IInv, TypeOK, TimingType, Period
  <2>2. Slept(t) <= Period(t)
    BY <2>1 DEF Slept
  <2>3. Slept(t) \in Int
    BY <2>1 DEF Slept
  <2>4. wdog <= spent[t] + Slept(t)
    BY DEF IInv, FedInTime
  <2>5. QED
    BY <2>1, <2>2, <2>3, <2>4, PeriodAssumption
<1>2. QED
  BY Inductive, <1>1, PTL

\* How the tasks that feed the watchdog come and go while the chip is on:
\* Tick is created at most once, and when no feeder is left none comes back.
LEMMA FeederLife ==
    ASSUME TimingType, ControlOK, Chain, Running
    PROVE  /\ pc["Tick"] = "ended" => pc'["Tick"] = "ended"
           /\ Alive("Tick") => pc'["Tick"] # "none"
           /\ (\A t \in Feeders : ~Alive(t)) =>
                 \A t \in Feeders : pc'[t] = pc[t]
<1> USE Created DEF TimingType, ControlOK, Contexts, Feeders, Alive
<1>1. CASE Boot
  BY <1>1 DEF Boot, StartSystem, ButtonOneInit, WifiConnectInitOk,
      WifiConnectInitFail, MqttConnectInit, Create, Goto
<1>2. CASE Wifi
  BY <1>2 DEF Wifi, WifiReconnectTop, WifiReconnectJoin, WifiReconnectOk,
      WifiReconnectFail, Goto, OS_taskDelay, Wake
<1>3. CASE Connection
  BY <1>3 DEF Connection, AwaitWifi, MqttInitOk, MqttInitFail, Create,
      Goto, OS_taskDelay, Restart
<1>4. CASE Waiting
  BY <1>4 DEF Waiting, AwaitedWifi, Wake, Goto
<1>5. CASE Subscription
  <2>1. CASE AwaitWifi("MqttSubscriptionTask", "subscribe")
    BY <2>1 DEF AwaitWifi, Goto, OS_taskDelay
  <2>2. CASE MqttSubscribeOk \/ MqttSubscribeFail
    BY <2>2 DEF MqttSubscribeOk, MqttSubscribeFail, Goto, Restart
  <2>3. CASE TickInit
    BY <2>3 DEF TickInit, Create, Chain
  <2>4. CASE CommandHandlerInit
    BY <2>4 DEF CommandHandlerInit, Create
  <2>5. QED
    BY <1>5, <2>1, <2>2, <2>3, <2>4 DEF Subscription
<1>6. CASE Publisher
  BY <1>6 DEF Publisher, TickTop, TickSkip, TickRead, MqttSendDataOk,
      MqttSendDataFail, TickRoundDone, TickWake, Goto, OS_taskDelay,
      Restart, Wake
<1>7. CASE Poller
  BY <1>7 DEF Poller, MqttYieldTop, SensorCommand, MQTTYieldReturns,
      XdkReadSpins, MqttYieldWake, Goto
<1>8. CASE ButtonOneCallback
  BY <1>8 DEF ButtonOneCallback, Restart, Goto
<1>9. CASE LoseConnection \/ Second
  BY <1>9 DEF LoseConnection, Second
<1>10. QED
  BY <1>1, <1>2, <1>3, <1>4, <1>5, <1>6, <1>7, <1>8, <1>9 DEF Running

\* Every step of the tasks is a step of the supervisor or leaves its phase.
LEMMA PhaseStep ==
    ASSUME IInv, IInv', [Next]_vars
    PROVE  [Device!Next]_Phase
<1> DEFINE fed == \E t \in Feeders : Alive(t)
<1>1. CASE Running
  <2>1. CASE Alive("Tick")
    <3>1. pc'["Tick"] # "none"
      BY <1>1, <2>1, FeederLife DEF IInv, TypeOK
    <3>2. Phase = "serving" /\ Phase' \in {"serving", "halted"}
      BY <2>1, <3>1 DEF Phase, Alive
    <3>3. QED
      BY <3>2 DEF Device!Next, Device!Halt
  <2>2. CASE pc["Tick"] = "ended"
    <3>1. pc'["Tick"] = "ended"
      BY <1>1, <2>2, FeederLife DEF IInv, TypeOK
    <3>2. Phase = "halted" /\ Phase' = "halted"
      BY <2>2, <3>1 DEF Phase, Alive
    <3>3. QED
      BY <3>2
  <2>3. CASE pc["Tick"] = "none" /\ fed
    <3>1. Phase = "starting" /\ Phase' \in {"starting", "serving", "halted"}
      BY <2>3 DEF Phase, Alive
    <3>2. QED
      BY <3>1 DEF Device!Next, Device!Serve, Device!Halt
  <2>4. CASE pc["Tick"] = "none" /\ ~fed
    <3>1. \A t \in Feeders : pc'[t] = pc[t]
      BY <1>1, <2>4, FeederLife DEF IInv, TypeOK
    <3>2. ~fed' /\ pc'["Tick"] = "none"
      BY <2>4, <3>1, Names DEF Alive
    <3>3. Phase = "halted" /\ Phase' = "halted"
      BY <2>4, <3>2 DEF Phase, Alive
    <3>4. QED
      BY <3>3
  <2>5. QED
    BY <2>1, <2>2, <2>3, <2>4 DEF Alive
<1>2. CASE Reset
  <2>1. pc'["appInitSystem"] = "start" /\ pc'["Tick"] = "none"
    BY <1>2 DEF Reset, Contexts, Feeders
  <2>2. Phase' = "starting"
    BY <2>1, Names DEF Phase, Alive
  <2>3. Phase \in {"starting", "serving", "halted"}
    BY DEF Phase
  <2>4. QED
    BY <2>2, <2>3 DEF Device!Next, Device!Reset
<1>3. CASE UNCHANGED vars
  BY <1>3 DEF vars, Phase, Alive
<1>4. QED
  BY <1>1, <1>2, <1>3 DEF Next

\* The task level implements the safety part of the supervisor: publishing
\* starts only from a start of the device and a halted device stays halted
\* until the reset.  (That the reset comes is liveness, left to TLC.)
THEOREM Supervised == Spec => Device!Safety
<1>1. Init => Device!Init
  BY Names DEF Init, Device!Init, Phase, Alive, Contexts, Feeders
<1>2. IInv /\ IInv' /\ [Next]_vars => [Device!Next]_Phase
  BY PhaseStep
<1>3. QED
  BY Inductive, <1>1, <1>2, PTL DEF Spec, Device!Safety

------------------------------------------------------------------------------
(***************************************************************************)
(* The tasks use the MQTT client as ClientUse demands: the refinement that *)
(* DeviceClient builds on.                                                 *)
(***************************************************************************)
ClientUsers == {"connecting", "subscribing", "publishing", "polling"}

\* If a step changes the stage of one user only, it changes calls there only.
LEMMA OneUserMoves ==
    ASSUME NEW u \in ClientUsers, NEW to, Stage(u)' = to,
           \A v \in ClientUsers \ {u} : Stage(v)' = Stage(v)
    PROVE  Calls' = [Calls EXCEPT ![u] = to]
BY Zenon DEF Calls, ClientUsers

\* If it changes no stage, calls does not change.
LEMMA NobodyMoves ==
    ASSUME UNCHANGED <<Connecting, Subscribing, Publishing, Polling>>
    PROVE  Calls' = Calls
BY DEF Calls, Stage

\* The moves of one user, each told by the stages of the four.  The connecting
\* task goes first.
LEMMA ConnectingMoves ==
    ASSUME UNCHANGED <<Subscribing, Publishing, Polling>>,
           \/ Connecting = "idle" /\ Connecting' = "in"
           \/ Connecting = "in" /\ Connecting' \in {"ok", "gone"}
    PROVE  Client!Next
<1>1. Calls' = [Calls EXCEPT !["connecting"] = Connecting']
  BY OneUserMoves DEF ClientUsers, Stage
<1>2. Calls["connecting"] = Connecting
  BY DEF Calls, Stage
<1>3. QED
  BY <1>1, <1>2 DEF Client!Next, Client!Users, Client!Begin, Client!Allowed,
     Client!End, Client!Leave, Client!Steps

\* The subscribing task needs the connection, and may be done.
LEMMA SubscribingMoves ==
    ASSUME UNCHANGED <<Connecting, Publishing, Polling>>,
           \/ /\ Connecting = "ok"
              /\ Subscribing = "idle" /\ Subscribing' = "in"
           \/ Subscribing = "in" /\ Subscribing' \in {"ok", "gone"}
           \/ Subscribing = "ok" /\ Subscribing' = "gone"
    PROVE  Client!Next
<1>1. Calls' = [Calls EXCEPT !["subscribing"] = Subscribing']
  BY OneUserMoves DEF ClientUsers, Stage
<1>2. Calls["subscribing"] = Subscribing /\ Calls["connecting"] = Connecting
  BY DEF Calls, Stage
<1>3. QED
  BY <1>1, <1>2 DEF Client!Next, Client!Users, Client!Begin, Client!Allowed,
     Client!End, Client!Leave, Client!Steps

\* The publisher needs the subscription and comes back for more.
LEMMA PublishingMoves ==
    ASSUME UNCHANGED <<Connecting, Subscribing, Polling>>,
           \/ /\ Subscribing = "ok"
              /\ Publishing = "idle" /\ Publishing' = "in"
           \/ Publishing = "in" /\ Publishing' \in {"idle", "gone"}
           \/ Publishing = "idle" /\ Publishing' = "gone"
    PROVE  Client!Next
<1>1. Calls' = [Calls EXCEPT !["publishing"] = Publishing']
  BY OneUserMoves DEF ClientUsers, Stage
<1>2. Calls["publishing"] = Publishing /\ Calls["subscribing"] = Subscribing
  BY DEF Calls, Stage
<1>3. QED
  BY <1>1, <1>2 DEF Client!Next, Client!Users, Client!Begin, Client!Allowed,
     Client!End, Client!Leave, Client!Steps

\* So does the poller.
LEMMA PollingMoves ==
    ASSUME UNCHANGED <<Connecting, Subscribing, Publishing>>,
           \/ /\ Subscribing = "ok"
              /\ Polling = "idle" /\ Polling' = "in"
           \/ Polling = "in" /\ Polling' \in {"idle", "gone"}
           \/ Polling = "idle" /\ Polling' = "gone"
    PROVE  Client!Next
<1>1. Calls' = [Calls EXCEPT !["polling"] = Polling']
  BY OneUserMoves DEF ClientUsers, Stage
<1>2. Calls["polling"] = Polling /\ Calls["subscribing"] = Subscribing
  BY DEF Calls, Stage
<1>3. QED
  BY <1>1, <1>2 DEF Client!Next, Client!Users, Client!Begin, Client!Allowed,
     Client!End, Client!Leave, Client!Steps

\* The steps of the start-up and of what no user takes part in.
LEMMA StartSteps ==
    ASSUME TimingType, ControlOK, Chain,
           \/ Boot \/ Wifi \/ Waiting \/ ButtonOneCallback
           \/ LoseConnection \/ Second
    PROVE  UNCHANGED <<Connecting, Subscribing, Publishing, Polling>>
<1> USE DEF TimingType, Contexts, Feeders, Connecting, Subscribing,
            Publishing, Polling
<1>1. CASE Boot
  BY <1>1, Created DEF Boot, StartSystem, ButtonOneInit, WifiConnectInitOk,
      WifiConnectInitFail, MqttConnectInit, Create, Goto, Chain
<1>2. CASE Wifi
  BY <1>2 DEF Wifi, WifiReconnectTop, WifiReconnectJoin, WifiReconnectOk,
      WifiReconnectFail, Goto, OS_taskDelay, Wake
<1>3. CASE Waiting
  BY <1>3 DEF Waiting, AwaitedWifi, Wake, Goto
<1>4. CASE ButtonOneCallback
  BY <1>4 DEF ButtonOneCallback, Restart, Goto
<1>5. CASE LoseConnection \/ Second
  BY <1>5 DEF LoseConnection, Second
<1>6. QED
  BY <1>1, <1>2, <1>3, <1>4, <1>5

\* The steps of the connecting task.
LEMMA ConnectionSteps ==
    ASSUME TimingType, ControlOK, Chain, Connection
    PROVE  Client!Next \/ UNCHANGED Calls
<1> USE DEF TimingType, Contexts, Feeders, Chain, Connecting, Subscribing,
            Publishing, Polling
<1>1. CASE AwaitWifi("MqttConnectionTask", "connect")
  <2>1. /\ UNCHANGED <<Subscribing, Publishing, Polling>>
        /\ \/ UNCHANGED Connecting
           \/ Connecting = "idle" /\ Connecting' = "in"
    BY <1>1 DEF AwaitWifi, Goto, OS_taskDelay
  <2>2. QED
    BY <2>1, ConnectingMoves, NobodyMoves
<1>2. CASE MqttInitOk
  <2>1. /\ UNCHANGED <<Subscribing, Publishing, Polling>>
        /\ Connecting = "in" /\ Connecting' = "ok"
    BY <1>2, Created DEF MqttInitOk, Create
  <2>2. QED
    BY <2>1, ConnectingMoves
<1>3. CASE MqttInitFail
  <2>1. /\ UNCHANGED <<Subscribing, Publishing, Polling>>
        /\ Connecting = "in" /\ Connecting' = "gone"
    BY <1>3 DEF MqttInitFail, Restart, Goto
  <2>2. QED
    BY <2>1, ConnectingMoves
<1>4. QED
  BY <1>1, <1>2, <1>3 DEF Connection

\* The steps of the subscribing task, which needs the connection.
LEMMA SubscriptionSteps ==
    ASSUME TimingType, ControlOK, Chain, Subscription
    PROVE  Client!Next \/ UNCHANGED Calls
<1> USE DEF TimingType, Contexts, Feeders, Chain, Connecting, Subscribing,
            Publishing, Polling
<1>1. CASE AwaitWifi("MqttSubscriptionTask", "subscribe")
  <2>1. /\ UNCHANGED <<Connecting, Publishing, Polling>>
        /\ \/ UNCHANGED Subscribing
           \/ /\ Connecting = "ok"
              /\ Subscribing = "idle" /\ Subscribing' = "in"
    BY <1>1 DEF AwaitWifi, Goto, OS_taskDelay
  <2>2. QED
    BY <2>1, SubscribingMoves, NobodyMoves
<1>2. CASE MqttSubscribeOk
  <2>1. /\ UNCHANGED <<Connecting, Publishing, Polling>>
        /\ Subscribing = "in" /\ Subscribing' = "ok"
    BY <1>2 DEF MqttSubscribeOk, Goto
  <2>2. QED
    BY <2>1, SubscribingMoves
<1>3. CASE MqttSubscribeFail
  <2>1. /\ UNCHANGED <<Connecting, Publishing, Polling>>
        /\ Subscribing = "in" /\ Subscribing' = "gone"
    BY <1>3 DEF MqttSubscribeFail, Restart, Goto
  <2>2. QED
    BY <2>1, SubscribingMoves
<1>4. CASE TickInit
  <2>1. UNCHANGED <<Connecting, Subscribing, Publishing, Polling>>
    BY <1>4, Created DEF TickInit, Create
  <2>2. QED
    BY <2>1, NobodyMoves
\* If neither Tick nor MqttYield could be created nobody goes on.
<1>5. CASE CommandHandlerInit
  <2>1. /\ UNCHANGED <<Connecting, Publishing, Polling>>
        /\ Subscribing = "ok" /\ Subscribing' \in {"ok", "gone"}
    BY <1>5, Created DEF CommandHandlerInit, Create
  <2>2. QED
    BY <2>1, SubscribingMoves, NobodyMoves
<1>6. QED
  BY <1>1, <1>2, <1>3, <1>4, <1>5 DEF Subscription

\* The steps of Tick, which exists only after the subscription.
LEMMA PublisherSteps ==
    ASSUME TimingType, ControlOK, Chain, Publisher
    PROVE  Client!Next \/ UNCHANGED Calls
<1>1. UNCHANGED <<Connecting, Subscribing, Polling>>
  BY DEF TimingType, Contexts, Feeders, Connecting, Subscribing, Polling,
     Publisher, TickTop, TickSkip, TickRead, MqttSendDataOk,
     MqttSendDataFail, TickRoundDone, TickWake, Goto, OS_taskDelay, Restart,
     Wake
<1>2. Subscribing = "ok"
  BY DEF ControlOK, Chain, Subscribing,
     Publisher, TickTop, TickSkip, TickRead, MqttSendDataOk,
     MqttSendDataFail, TickRoundDone, TickWake, Goto, OS_taskDelay, Restart,
     Wake
<1>3. \/ UNCHANGED Publishing
      \/ Publishing = "idle" /\ Publishing' \in {"in", "gone"}
      \/ Publishing = "in" /\ Publishing' \in {"idle", "gone"}
  BY DEF TimingType, Contexts, Feeders, Publishing,
     Publisher, TickTop, TickSkip, TickRead, MqttSendDataOk,
     MqttSendDataFail, TickRoundDone, TickWake, Goto, OS_taskDelay, Restart,
     Wake
<1>4. QED
  BY <1>1, <1>2, <1>3, PublishingMoves, NobodyMoves

\* The steps of MqttYield, which exists only after the subscription.
LEMMA PollerSteps ==
    ASSUME TimingType, ControlOK, Chain, Poller
    PROVE  Client!Next \/ UNCHANGED Calls
<1> USE DEF Poller, MqttYieldTop, SensorCommand, MQTTYieldReturns,
            XdkReadSpins, MqttYieldWake, Goto
<1>1. UNCHANGED <<Connecting, Subscribing, Publishing>>
  BY DEF TimingType, Contexts, Feeders, Connecting, Subscribing, Publishing
<1>2. Subscribing = "ok"
  BY DEF ControlOK, Chain, Subscribing
<1>3. \/ UNCHANGED Polling
      \/ Polling = "idle" /\ Polling' \in {"in", "gone"}
      \/ Polling = "in" /\ Polling' = "idle"
  BY DEF TimingType, Contexts, Feeders, Polling
<1>4. QED
  BY <1>1, <1>2, <1>3, PollingMoves, NobodyMoves

\* Every step of the tasks is a step of ClientUse or leaves calls alone.
LEMMA ClientUseStep ==
    ASSUME IInv, [Next]_vars
    PROVE  [Client!Next]_Calls
<1> USE DEF IInv, TypeOK
<1>1. CASE Boot \/ Wifi \/ Waiting \/ ButtonOneCallback \/ LoseConnection
           \/ Second
  BY <1>1, StartSteps, NobodyMoves
<1>2. CASE Connection
  BY <1>2, ConnectionSteps
<1>3. CASE Subscription
  BY <1>3, SubscriptionSteps
<1>4. CASE Publisher
  BY <1>4, PublisherSteps
<1>5. CASE Poller
  BY <1>5, PollerSteps
<1>6. CASE Reset
  <2>1. /\ Connecting' = "idle" /\ Subscribing' = "idle"
        /\ Publishing' = "idle" /\ Polling' = "idle"
    BY <1>6 DEF Reset, Contexts, Feeders, Connecting, Subscribing,
       Publishing, Polling
  <2>2. QED
    BY <2>1 DEF Calls, Stage, Client!Next, Client!Restart, Client!Users
<1>7. CASE UNCHANGED vars
  BY <1>7, NobodyMoves DEF vars, Connecting, Subscribing, Publishing, Polling
<1>8. QED
  BY <1>1, <1>2, <1>3, <1>4, <1>5, <1>6, <1>7 DEF Next, Running

\* The four tasks share the client in the order ClientUse demands: one
\* connection, then one subscription, then publishing and polling, and no
\* call of a task whose call has failed.
THEOREM ClientIsUsedInOrder == Spec => ImplementsClientUse
<1>1. Init => Client!Init
  BY DEF Init, Contexts, Feeders, Client!Init, Client!Users, Calls, Stage,
     Connecting, Subscribing, Publishing, Polling
<1>2. IInv /\ [Next]_vars => [Client!Next]_Calls
  BY ClientUseStep
<1>3. QED
  BY Inductive, <1>1, <1>2, PTL DEF Spec, ImplementsClientUse, Client!Spec
==============================================================================
