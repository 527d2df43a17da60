---------------------------- MODULE SensorsProofs ----------------------------
(***************************************************************************)
(* Proofs about Sensors, for any number of rounds and resets and whatever  *)
(* the commands switch in between.                                         *)
(***************************************************************************)
EXTENDS Sensors, SequenceTheorems, TLAPS

\* The getter at a sensor's place, and what it fills data with.
Getter(name) == sensors[Place[name] + 1]
Fill == [env |-> FillEnvData, acc |-> FillAccelData, lgt |-> FillLightData,
         gyr |-> FillGyroData, mag |-> FillMagnetoData]

Distinct(s) == \A i, j \in DOMAIN s : s[i] = s[j] => i = j

(***************************************************************************)
(* The inductive invariant.                                                *)
(***************************************************************************)

\* The switches in the table are those of the commands.
Switched == \A name \in Names :
    enabledSensors[Place[name]] <=> name \in wanted

\* Between two sensors nothing is left; a getter works on cleared data.
Between == step = "sensor" => meas = 0 /\ fresh = {}
Calling == step = "call" => sensor < NUM_SENSORS /\ meas = 0 /\ fresh = {}
Within == \A name \in Names : step = Getter(name) =>
    /\ sensor = Place[name] /\ meas = 0
    /\ data = <<>> /\ fresh = {}

\* What is still to be sent is what is fresh, each measurement once.
ToSend == step = "send" =>
    /\ sensor < NUM_SENSORS
    /\ fresh = {data[i] : i \in meas + 1 .. Len(data)}
    /\ Distinct(data)

\* Where Tick has found a sensor's flag set and has not yet measured with it.
Tested(name) == sensor = Place[name] /\ step \in {"call", Getter(name)}

\* Only a sensor that is switched off is late, and at most once: not while it
\* may still measure.
Lateness == \A name \in Names :
    /\ late[name] \in {0, 1}
    /\ name \in wanted \/ Tested(name) => late[name] = 0

IInv == /\ TypeOK /\ Switched /\ Between /\ Calling /\ Within /\ ToSend
        /\ Lateness

------------------------------------------------------------------------------
\* Each name has a place of its own in the table.
LEMMA Places ==
    /\ Names = {"env", "acc", "lgt", "gyr", "mag"}
    /\ \A name \in Names : Place[name] \in 0 .. NUM_SENSORS - 1
    /\ \A i \in 0 .. NUM_SENSORS - 1 : \E name \in Names : i = Place[name]
    /\ \A m, n \in Names : Place[m] = Place[n] => m = n
BY DEF Names, Place, NUM_SENSORS

\* The getter at the place of a name fills data with the measurements of that
\* name and of no other, each once.
LEMMA Table ==
    /\ \A name \in Names :
          /\ Getter(name) \in ToSet(sensors)
          /\ Getter(name) \notin {"sensor", "call", "send", "ended"}
          /\ Fill[name] \in Seq(Measurements \cup {"garbage"})
          /\ ToSet(Fill[name]) = Measures[name]
          /\ Distinct(Fill[name])
    /\ \A m, n \in Names : Getter(m) = Getter(n) => m = n
    /\ \A m, n \in Names : Measures[m] \cap Measures[n] # {} => m = n
<1>1. DOMAIN sensors = 1 .. NUM_SENSORS
  BY DEF sensors, NUM_SENSORS
<1>2. \A name \in Names : Getter(name) \in ToSet(sensors)
  BY <1>1, Places DEF Getter, ToSet, NUM_SENSORS
<1>3. /\ \A name \in Names :
            Getter(name) \notin {"sensor", "call", "send", "ended"}
      /\ \A m, n \in Names : Getter(m) = Getter(n) => m = n
  BY DEF Getter, sensors, Names, Place
<1>4. \A m, n \in Names : Measures[m] \cap Measures[n] # {} => m = n
  BY DEF Measures, Names, Place
<1>5. /\ Fill["env"] = <<"temperature", "pressure", "humidity">>
      /\ Fill["acc"] = <<"acceleration">> /\ Fill["lgt"] = <<"light">>
      /\ Fill["gyr"] = <<"gyro">> /\ Fill["mag"] = <<"magnetometer">>
  BY DEF Fill, FillEnvData, FillAccelData, FillLightData, FillGyroData,
     FillMagnetoData
<1>6. \A name \in Names : Distinct(Fill[name])
  BY <1>5, Places DEF Distinct
<1>7. \A name \in Names : ToSet(Fill[name]) = Measures[name]
  <2>1. ToSet(Fill["env"]) = Measures["env"]
    BY <1>5 DEF ToSet, Measures
  <2>2. \A name \in Names \ {"env"} : ToSet(Fill[name]) = Measures[name]
    BY <1>5, Places DEF ToSet, Measures
  <2>3. QED
    BY <2>1, <2>2
<1>8. \A name \in Names : Fill[name] \in Seq(Measurements \cup {"garbage"})
  <2>1. \A name \in Names : Measures[name] \subseteq Measurements
    BY DEF Measurements
  <2>2. /\ {"temperature", "pressure", "humidity"} \subseteq Measurements
        /\ {"acceleration", "light", "gyro", "magnetometer"} \subseteq
              Measurements
    BY <2>1, Places DEF Measures
  <2> DEFINE T == Measurements \cup {"garbage"}
  <2> HIDE DEF T
  <2>3. /\ "temperature" \in T /\ "pressure" \in T /\ "humidity" \in T
        /\ "acceleration" \in T /\ "light" \in T /\ "gyro" \in T
        /\ "magnetometer" \in T
    BY <2>2 DEF T
  <2>4. /\ Fill["env"] \in Seq(T) /\ Fill["acc"] \in Seq(T)
        /\ Fill["lgt"] \in Seq(T) /\ Fill["gyr"] \in Seq(T)
        /\ Fill["mag"] \in Seq(T)
    BY <1>5, <2>3
  <2>5. QED
    BY <2>4, Places DEF T
<1>9. QED
  BY <1>2, <1>3, <1>4, <1>6, <1>7, <1>8

\* The five getters are the five of the table.
LEMMA GetterSteps ==
    ASSUME Getters
    PROVE  \E name \in Names : GetData(Getter(name), Fill[name])
<1>1. /\ Getter("env") = "EnvSensorGetData" /\ Getter("acc") = "AccelGetData"
      /\ Getter("lgt") = "LightGetData" /\ Getter("gyr") = "GyroGetData"
      /\ Getter("mag") = "MagnetoGetData"
  BY DEF Getter, sensors, Place
<1>2. QED
  BY <1>1, Places DEF Getters, EnvSensorGetData, AccelGetData, LightGetData,
     GyroGetData, MagnetoGetData, Fill

\* Uninitialised data is of the type.
LEMMA UninitialisedTypes ==
    Uninitialised \subseteq Seq(Measurements \cup {"garbage"})
BY DEF Uninitialised

\* The initial states, and those after a reset.
LEMMA InitIInv == Init => IInv
<1> SUFFICES ASSUME Init PROVE IInv
  OBVIOUS
<1>1. Len(data) \in Nat /\ data \in Seq(Measurements \cup {"garbage"})
  BY UninitialisedTypes, LenProperties DEF Init
<1>2. TypeOK
  BY <1>1 DEF Init, TypeOK, NUM_SENSORS
<1>3. Switched
  BY Places DEF Init, Switched
<1>4. Between /\ Calling /\ Within /\ ToSend
  BY Table DEF Init, Between, Calling, Within, ToSend
<1>5. Lateness
  BY Table DEF Init, Lateness, Tested
<1>6. QED
  BY <1>2, <1>3, <1>4, <1>5 DEF IInv

\* After a reset everything is as in the beginning.
LEMMA ResetIsInit == Reset => Init'
BY DEF Reset, Init

\* A flag is found set: its sensor is wanted, and thus not late.
LEMMA EnabledStep ==
    ASSUME IInv, Enabled
    PROVE  IInv'
<1>1. /\ step = "sensor" /\ step' = "call" /\ sensor < NUM_SENSORS
      /\ enabledSensors[sensor]
      /\ UNCHANGED <<enabledSensors, wanted, sensor, meas, data, fresh, late>>
  BY DEF Enabled, switches
<1>2. meas = 0 /\ fresh = {}
  BY <1>1 DEF IInv, Between
<1>3. (TypeOK /\ Switched /\ Between /\ Calling /\ Within /\ ToSend)'
  BY <1>1, <1>2, Table
  DEF IInv, TypeOK, Switched, Between, Calling, Within, ToSend
<1>4. Lateness'
  <2> SUFFICES ASSUME NEW name \in Names
               PROVE  /\ late[name] \in {0, 1}
                      /\ name \in wanted \/ sensor = Place[name]
                           => late[name] = 0
    BY <1>1 DEF Lateness, Tested
  <2>1. /\ late[name] \in {0, 1}
        /\ name \in wanted => late[name] = 0
    BY DEF IInv, Lateness
  <2>2. sensor = Place[name] => name \in wanted
    BY <1>1 DEF IInv, Switched
  <2>3. QED
    BY <2>1, <2>2
<1>5. QED
  BY <1>3, <1>4 DEF IInv

\* The getter at the place is called: it is that of the sensor whose flag was
\* tested.
LEMMA CallStep ==
    ASSUME IInv, NEW name \in Names, Calls(Getter(name))
    PROVE  IInv'
<1>1. /\ step = "call" /\ step' = Getter(name) /\ data' = <<>>
      /\ sensors[sensor + 1] = Getter(name) /\ fresh' = {}
      /\ UNCHANGED <<enabledSensors, wanted, sensor, meas, late>>
  BY DEF Calls, SensorDataClear, switches
<1>2. sensor \in 0 .. NUM_SENSORS - 1 /\ meas = 0
  BY <1>1 DEF IInv, TypeOK, Calling, NUM_SENSORS
<1>3. sensor = Place[name]
  <2>1. PICK n \in Names : sensor = Place[n]
    BY <1>2, Places
  <2>2. n = name
    BY <1>1, <2>1, Table DEF Getter
  <2>3. QED
    BY <2>1, <2>2
<1>4. TypeOK'
  BY <1>1, <1>2, Table DEF IInv, TypeOK
<1>5. (Switched /\ Between /\ Calling /\ Within /\ ToSend)'
  BY <1>1, <1>2, <1>3, Table
  DEF IInv, Switched, Between, Calling, Within, ToSend
<1>6. Lateness'
  <2> SUFFICES ASSUME NEW n \in Names
               PROVE  /\ late[n] \in {0, 1}
                      /\ n \in wanted \/ sensor = Place[n] => late[n] = 0
    BY <1>1 DEF Lateness, Tested
  <2>1. QED
    BY <1>1 DEF IInv, Lateness, Tested
<1>7. QED
  BY <1>4, <1>5, <1>6 DEF IInv

\* Its conversion succeeds: data holds its measurements, and all are fresh.
LEMMA OkStep ==
    ASSUME IInv, NEW name \in Names, ConversionOk(Getter(name), Fill[name])
    PROVE  IInv'
<1>1. /\ step' = "send" /\ data' = Fill[name] /\ meas' = 0
      /\ fresh' = Measures[name]
      /\ step = Getter(name) /\ sensor = Place[name] /\ sensor < NUM_SENSORS
      /\ UNCHANGED <<enabledSensors, wanted, sensor>>
  BY Table, Places DEF ConversionOk, IInv, Within, switches, NUM_SENSORS
<1>2. late' = [n \in Names |-> IF n \notin wanted /\ n = name
                                 THEN late[n] + 1 ELSE late[n]]
  <2>1. \A n \in Names : Measures[name] \cap Measures[n] # {} <=> n = name
    <3>1. Measures[name] # {}
      BY Places DEF Measures
    <3>2. QED
      BY <3>1, Table
  <2>2. ToSet(Fill[name]) = Measures[name]
    BY Table
  <2>3. QED
    BY <2>1, <2>2 DEF ConversionOk
<1>3. TypeOK'
  <2>1. Measures[name] \subseteq Measurements
    BY DEF Measurements
  <2>2. Len(data') \in Nat /\ data' \in Seq(Measurements \cup {"garbage"})
    BY <1>1, Table, LenProperties
  <2>3. late' \in [Names -> Nat]
    BY <1>2 DEF IInv, TypeOK
  <2>4. QED
    BY <1>1, <2>1, <2>2, <2>3 DEF IInv, TypeOK
<1>4. ToSend'
  <2>1. DOMAIN data' = 1 .. Len(data')
    BY <1>1, Table, LenProperties
  <2>2. fresh' = {data'[i] : i \in 1 .. Len(data')}
    BY <1>1, <2>1, Table DEF ToSet
  <2>3. QED
    BY <1>1, <2>2, Table DEF ToSend
<1>5. (Switched /\ Between /\ Calling /\ Within)'
  BY <1>1, Table DEF IInv, Switched, Between, Calling, Within
<1>6. Lateness'
  <2> SUFFICES ASSUME NEW n \in Names
               PROVE  /\ late'[n] \in {0, 1}
                      /\ n \in wanted => late'[n] = 0
    <3>1. \A n \in Names : step' \notin {"call", Getter(n)}
      BY <1>1, Table
    <3>2. QED
      BY <1>1, <3>1 DEF Lateness, Tested
  <2>1. /\ late[n] \in {0, 1}
        /\ n \in wanted => late[n] = 0
        /\ n = name => late[n] = 0
    BY <1>1 DEF IInv, Lateness, Tested
  <2>2. QED
    BY <1>2, <2>1
<1>7. QED
  BY <1>3, <1>4, <1>5, <1>6 DEF IInv

\* Its conversion fails: data is still cleared and nothing is fresh.
LEMMA FailStep ==
    ASSUME IInv, NEW name \in Names, ConversionFails(Getter(name))
    PROVE  IInv'
<1>1. /\ step' = "send" /\ data' = <<>> /\ meas' = 0 /\ fresh' = {}
      /\ sensor < NUM_SENSORS
      /\ UNCHANGED <<enabledSensors, wanted, sensor, late>>
  BY Places DEF ConversionFails, IInv, Within, switches, NUM_SENSORS
<1>2. QED
  BY <1>1, Table DEF IInv, TypeOK, Switched, Between, Calling, Within, ToSend,
     Distinct, Lateness, Tested

\* A measurement is sent: it is the first of those left, and no other equals
\* it.
LEMMA SendStep ==
    ASSUME IInv, MqttSendData
    PROVE  IInv'
<1>1. /\ step = "send" /\ step' = step /\ data' = data /\ meas' = meas + 1
      /\ meas < Len(data) /\ fresh' = fresh \ {data[meas + 1]}
      /\ UNCHANGED <<enabledSensors, wanted, sensor, late>>
  BY DEF MqttSendData, switches
<1>2. meas \in Nat /\ Len(data) \in Nat /\ DOMAIN data = 1 .. Len(data)
  BY LenProperties DEF IInv, TypeOK
<1>3. TypeOK'
  BY <1>1, <1>2 DEF IInv, TypeOK
<1>4. ToSend'
  <2>1. /\ sensor < NUM_SENSORS
        /\ fresh = {data[i] : i \in meas + 1 .. Len(data)}
        /\ \A i, j \in 1 .. Len(data) : data[i] = data[j] => i = j
    BY <1>1, <1>2 DEF IInv, ToSend, Distinct
  <2>2. fresh' = {data[i] : i \in meas + 2 .. Len(data)}
    BY <1>1, <1>2, <2>1
  <2>3. QED
    BY <1>1, <1>2, <2>1, <2>2 DEF ToSend, Distinct
<1>5. (Switched /\ Between /\ Calling /\ Within /\ Lateness)'
  BY <1>1, Table
  DEF IInv, Switched, Between, Calling, Within, Lateness, Tested
<1>6. QED
  BY <1>3, <1>4, <1>5 DEF IInv

\* Everything has been sent and the next sensor's turn comes.
LEMMA AllSentStep ==
    ASSUME IInv, AllSent
    PROVE  IInv'
<1>1. /\ step = "send" /\ step' = "sensor" /\ data' = data /\ meas' = 0
      /\ meas = Len(data) /\ sensor' = sensor + 1 /\ fresh' = fresh
      /\ UNCHANGED <<enabledSensors, wanted, late>>
  BY DEF AllSent, switches
<1>2. fresh = {} /\ sensor + 1 \in 0 .. NUM_SENSORS
  BY <1>1, LenProperties DEF IInv, TypeOK, ToSend, NUM_SENSORS
<1>3. QED
  BY <1>1, <1>2, LenProperties, Table
  DEF IInv, TypeOK, Switched, Between, Calling, Within, ToSend, Lateness,
      Tested

\* A command throws a switch and remembers that it did.
LEMMA SwitchStep ==
    ASSUME IInv, NEW name \in Names, NEW value \in BOOLEAN,
           SensorControl(name, value)
    PROVE  IInv'
<1>1. /\ enabledSensors' = [enabledSensors EXCEPT ![Place[name]] = value]
      /\ wanted' = IF value THEN wanted \cup {name} ELSE wanted \ {name}
      /\ late' = IF value THEN [late EXCEPT ![name] = 0] ELSE late
      /\ UNCHANGED <<sensor, meas, step, data, fresh>>
  BY DEF SensorControl
<1>2. /\ enabledSensors \in [0 .. NUM_SENSORS - 1 -> BOOLEAN]
      /\ \A n \in Names : enabledSensors[Place[n]] <=> n \in wanted
  BY DEF IInv, TypeOK, Switched
<1>3. enabledSensors' \in [0 .. NUM_SENSORS - 1 -> BOOLEAN]
  BY <1>1, <1>2
<1>4. wanted' \subseteq Names
  BY <1>1 DEF IInv, TypeOK
<1>5. Switched'
  <2> SUFFICES ASSUME NEW n \in Names
               PROVE  enabledSensors'[Place[n]] <=> n \in wanted'
    BY DEF Switched
  <2>1. CASE n = name
    BY <1>1, <1>2, <2>1, Places
  <2>2. CASE n # name
    BY <1>1, <1>2, <2>2, Places
  <2>3. QED
    BY <2>1, <2>2
<1>6. TypeOK'
  BY <1>1, <1>3, <1>4 DEF IInv, TypeOK
<1>7. (Between /\ Calling /\ Within /\ ToSend)'
  BY <1>1 DEF IInv, Between, Calling, Within, ToSend, Distinct
<1>8. Lateness'
  <2> SUFFICES ASSUME NEW n \in Names
               PROVE  /\ late'[n] \in {0, 1}
                      /\ n \in wanted' \/ Tested(n) => late'[n] = 0
    BY <1>1 DEF Lateness, Tested
  <2>1. /\ late \in [Names -> Nat] /\ late[n] \in {0, 1}
        /\ n \in wanted \/ Tested(n) => late[n] = 0
    BY DEF IInv, TypeOK, Lateness
  <2>2. QED
    BY <1>1, <2>1
<1>9. QED
  BY <1>5, <1>6, <1>7, <1>8 DEF IInv

\* The other steps of Tick: a sensor is skipped, a send fails, a round ends.
LEMMA OtherSteps ==
    ASSUME IInv, Disabled \/ MqttSendDataFail \/ NextRound \/ UNCHANGED vars
    PROVE  IInv'
<1>1. CASE Disabled
  <2>1. sensor + 1 \in 0 .. NUM_SENSORS
    BY <1>1 DEF Disabled, IInv, TypeOK, NUM_SENSORS
  <2>2. QED
    BY <1>1, <2>1, Table DEF Disabled, switches, IInv, TypeOK, Switched,
       Between, Calling, Within, ToSend, Lateness, Tested
<1>2. CASE MqttSendDataFail
  BY <1>2, Table DEF MqttSendDataFail, switches, IInv, TypeOK, Switched,
     Between, Calling, Within, ToSend, Lateness, Tested
<1>3. CASE NextRound
  <2>1. /\ step = "sensor" /\ meas = 0 /\ meas' = 0 /\ sensor' = 0
        /\ data' \in Seq(Measurements \cup {"garbage"})
        /\ UNCHANGED <<enabledSensors, wanted, step, fresh, late>>
    BY <1>3, UninitialisedTypes
    DEF NextRound, switches, IInv, TypeOK, Between
  <2>2. Len(data') \in Nat
    BY <2>1, LenProperties
  <2>3. QED
    BY <2>1, <2>2, Table DEF IInv, TypeOK, Switched, Between, Calling, Within,
       ToSend, Lateness, Tested, NUM_SENSORS
<1>4. CASE UNCHANGED vars
  BY <1>4 DEF vars, switches, IInv, TypeOK, Switched, Between, Calling,
     Within, ToSend, Distinct, Lateness, Tested
<1>5. QED
  BY <1>1, <1>2, <1>3, <1>4

\* Every step preserves the invariant.
LEMMA NextIInv ==
    ASSUME IInv, [Next]_vars
    PROVE  IInv'
<1>1. CASE Getters
  <2>1. PICK name \in Names : GetData(Getter(name), Fill[name])
    BY <1>1, GetterSteps
  <2>2. QED
    BY <2>1, CallStep, OkStep, FailStep DEF GetData
<1>2. CASE Reset
  <2>1. Init'
    BY <1>2, ResetIsInit
  <2>2. QED
    BY <2>1, InitIInv, PTL
<1>3. ASSUME NEW name \in Names, NEW value \in BOOLEAN,
             SensorControl(name, value)
      PROVE  IInv'
  BY <1>3, SwitchStep
<1>4. QED
  BY <1>1, <1>2, <1>3, EnabledStep, SendStep, AllSentStep, OtherSteps
  DEF Next, Tick

\* The invariant holds in every run.
LEMMA SensorsInvariant == Spec => []IInv
BY InitIInv, NextIInv, PTL DEF Spec

------------------------------------------------------------------------------
\* The types; in particular the loops stay within the table and within data.
THEOREM SensorsTypeCorrect == Spec => []TypeOK
<1>1. IInv => TypeOK
  BY DEF IInv
<1>2. QED
  BY <1>1, SensorsInvariant, PTL

\* Only what its getter has just measured is handed to the client, and only
\* once, although one uninitialised variable serves all sensors in turn.
THEOREM SentIsMeasured == Spec => []SendsWhatWasMeasured
<1>1. IInv => SendsWhatWasMeasured
  <2> SUFFICES ASSUME IInv, step = "send", meas < Len(data)
               PROVE  data[meas + 1] \in fresh
    BY DEF SendsWhatWasMeasured
  <2>1. meas \in Nat /\ Len(data) \in Nat
    BY LenProperties DEF IInv, TypeOK
  <2>2. fresh = {data[i] : i \in meas + 1 .. Len(data)}
    BY DEF IInv, ToSend
  <2>3. meas + 1 \in meas + 1 .. Len(data)
    BY <2>1
  <2>4. QED
    BY <2>2, <2>3
<1>2. QED
  BY <1>1, SensorsInvariant, PTL

\* Every measurement is handed over before another sensor's turn comes.
THEOREM AllIsSent == Spec => []NothingIsLeftOut
<1>1. IInv => NothingIsLeftOut
  BY DEF IInv, Between, NothingIsLeftOut
<1>2. QED
  BY <1>1, SensorsInvariant, PTL

\* A sensor that was switched off, at whatever moment the command comes,
\* measures at most once before it is switched on again.
THEOREM StoppedMeasuring == Spec => []StopsWhenSwitchedOff
<1>1. IInv => StopsWhenSwitchedOff
  BY DEF IInv, Lateness, StopsWhenSwitchedOff
<1>2. QED
  BY <1>1, SensorsInvariant, PTL
==============================================================================
