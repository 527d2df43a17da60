------------------------------- MODULE Sensors -------------------------------
(***************************************************************************)
(* What Tick publishes: the five getters of src/src/*data.c, the one       *)
(* SensorData they share, the loop of Tick (src/src/tasks.c) over the      *)
(* table of getters, and the remote command that switches sensors, which   *)
(* MqttYield executes at any moment.                                       *)
(*                                                                         *)
(* Of a measurement only its name is kept; where it comes from is kept in  *)
(* history variables.  The first data.numMeas measurements are a sequence. *)
(***************************************************************************)
EXTENDS Naturals, SequencesExt

VARIABLES
    enabledSensors,  \* main.c: a flag for each place of the table
    sensor, meas,    \* the loop variables of Tick
    step,            \* where Tick is
    data,            \* Tick's local SensorData
    wanted,          \* history: the sensors the commands left switched on
    fresh,           \* history: what was just measured and is not yet sent
    late             \* history: how often a sensor measured since it was off

switches == <<enabledSensors, wanted>>
vars == <<switches, sensor, meas, step, data, fresh, late>>

NUM_SENSORS == 5

\* A mutant: two getters have changed places in the table.
sensors_Swapped == <<"EnvSensorGetData", "LightGetData", "AccelGetData",
                     "GyroGetData", "MagnetoGetData">>

sensors == <<"EnvSensorGetData", "AccelGetData", "LightGetData",
             "GyroGetData", "MagnetoGetData">>

\* The places that SensorControl gives to the names in commands.
Place == [env |-> 0, acc |-> 1, lgt |-> 2, gyr |-> 3, mag |-> 4]
Names == DOMAIN Place

\* The measurements of the sensor with that name (README.md:44).
Measures == [env |-> {"temperature", "pressure", "humidity"},
             acc |-> {"acceleration"}, lgt |-> {"light"},
             gyr |-> {"gyro"}, mag |-> {"magnetometer"}]
Measurements == UNION {Measures[name] : name \in Names}

\* data is a local variable of Tick's loop that nothing initialises.
Uninitialised == {<<>>, <<"garbage">>}

Init ==
    /\ enabledSensors = [i \in 0 .. NUM_SENSORS - 1 |-> TRUE]
    /\ sensor = 0 /\ meas = 0
    /\ step = "sensor"
    /\ data \in Uninitialised
    /\ wanted = Names /\ fresh = {} /\ late = [name \in Names |-> 0]

(***************************************************************************)
(* The getters.                                                            *)
(***************************************************************************)
\* A mutant: the number of measurements is not reset.
SensorDataClear_Kept == UNCHANGED data

SensorDataClear == data' = <<>>

FillEnvData     == <<"temperature", "pressure", "humidity">>
FillAccelData   == <<"acceleration">>
FillLightData   == <<"light">>
FillGyroData    == <<"gyro">>
FillMagnetoData == <<"magnetometer">>

\* The getter clears data and reads the sensor twice.  The first result is
\* only printed; the second one, if there is one, fills data.
Calls(getter) ==
    /\ step = "call"
    /\ sensors[sensor + 1] = getter
    /\ SensorDataClear
    /\ step' = getter
    /\ fresh' = {}
    /\ UNCHANGED <<switches, sensor, meas, late>>

ConversionOk(getter, measured) ==
    /\ step = getter
    /\ data' = measured
    /\ fresh' = ToSet(measured)
    /\ late' = [name \in Names |->
                  IF name \notin wanted
                     /\ ToSet(measured) \cap Measures[name] # {}
                    THEN late[name] + 1 ELSE late[name]]
    /\ step' = "send"
    /\ UNCHANGED <<switches, sensor, meas>>

ConversionFails(getter) ==
    /\ step = getter
    /\ step' = "send"
    /\ UNCHANGED <<switches, sensor, meas, data, fresh, late>>

GetData(getter, measured) ==
    Calls(getter) \/ ConversionOk(getter, measured) \/ ConversionFails(getter)

EnvSensorGetData == GetData("EnvSensorGetData", FillEnvData)
AccelGetData     == GetData("AccelGetData", FillAccelData)
LightGetData     == GetData("LightGetData", FillLightData)
GyroGetData      == GetData("GyroGetData", FillGyroData)
MagnetoGetData   == GetData("MagnetoGetData", FillMagnetoData)

(***************************************************************************)
(* Tick.                                                                   *)
(***************************************************************************)
\* The poller may run between the test of the flag and the call of the getter.
Enabled ==
    /\ step = "sensor"
    /\ sensor < NUM_SENSORS
    /\ enabledSensors[sensor]
    /\ step' = "call"
    /\ UNCHANGED <<switches, sensor, meas, data, fresh, late>>

Disabled ==
    /\ step = "sensor"
    /\ sensor < NUM_SENSORS
    /\ ~enabledSensors[sensor]
    /\ sensor' = sensor + 1
    /\ UNCHANGED <<switches, meas, step, data, fresh, late>>

MqttSendData ==
    /\ step = "send"
    /\ meas < Len(data)
    /\ meas' = meas + 1
    /\ fresh' = fresh \ {data[meas + 1]}
    /\ UNCHANGED <<switches, sensor, step, data, late>>

\* MqttSendData fails and Tick ends in Restart.
MqttSendDataFail ==
    /\ step = "send"
    /\ meas < Len(data)
    /\ step' = "ended"
    /\ UNCHANGED <<switches, sensor, meas, data, fresh, late>>

\* Mutants: the loop ends one measurement early; it stays at a sensor that
\* measured nothing; its body advances it as well.
AllSent_Early ==
    /\ step = "send"
    /\ meas + 1 >= Len(data)
    /\ sensor' = sensor + 1
    /\ step' = "sensor" /\ meas' = 0
    /\ UNCHANGED <<switches, data, fresh, late>>

AllSent_Retries ==
    /\ step = "send"
    /\ meas = Len(data)
    /\ sensor' = IF data = <<>> THEN sensor ELSE sensor + 1
    /\ step' = "sensor" /\ meas' = 0
    /\ UNCHANGED <<switches, data, fresh, late>>

AllSent_Twice ==
    /\ step = "send"
    /\ meas = Len(data)
    /\ sensor' = sensor + 2
    /\ step' = "sensor" /\ meas' = 0
    /\ UNCHANGED <<switches, data, fresh, late>>

AllSent ==
    /\ step = "send"
    /\ meas = Len(data)
    /\ sensor' = sensor + 1
    /\ step' = "sensor" /\ meas' = 0
    /\ UNCHANGED <<switches, data, fresh, late>>

\* The sleep, and the next turn with an uninitialised data.
NextRound ==
    /\ step = "sensor"
    /\ sensor = NUM_SENSORS
    /\ sensor' = 0
    /\ data' \in Uninitialised \cup {data}
    /\ UNCHANGED <<switches, meas, step, fresh, late>>

(***************************************************************************)
(* The poller, and the reset of the chip after Tick has ended.             *)
(***************************************************************************)
SensorControl(name, value) ==
    /\ enabledSensors' = [enabledSensors EXCEPT ![Place[name]] = value]
    /\ wanted' = IF value THEN wanted \cup {name} ELSE wanted \ {name}
    /\ late' = IF value THEN [late EXCEPT ![name] = 0] ELSE late
    /\ UNCHANGED <<sensor, meas, step, data, fresh>>

Reset ==
    /\ step = "ended"
    /\ enabledSensors' = [i \in 0 .. NUM_SENSORS - 1 |-> TRUE]
    /\ sensor' = 0 /\ meas' = 0
    /\ step' = "sensor"
    /\ data' \in Uninitialised
    /\ wanted' = Names /\ fresh' = {} /\ late' = [name \in Names |-> 0]

------------------------------------------------------------------------------
Getters == EnvSensorGetData \/ AccelGetData \/ LightGetData \/ GyroGetData
           \/ MagnetoGetData
Tick == Getters \/ Enabled \/ Disabled \/ MqttSendData \/ MqttSendDataFail
        \/ AllSent \/ NextRound

Next == \/ Tick
        \/ \E name \in Names, value \in BOOLEAN : SensorControl(name, value)
        \/ Reset

Spec == Init /\ [][Next]_vars

\* FreeRTOS runs Tick in the end, and the drivers and the client return.
FairSpec == Spec /\ WF_vars(Tick)

------------------------------------------------------------------------------
(***************************************************************************)
(* Properties.                                                             *)
(***************************************************************************)
\* The type invariant.
TypeOK ==
    /\ enabledSensors \in [0 .. NUM_SENSORS - 1 -> BOOLEAN]
    /\ sensor \in 0 .. NUM_SENSORS
    /\ meas \in 0 .. Len(data)
    /\ step \in {"sensor", "call", "send", "ended"} \cup ToSet(sensors)
    /\ data \in Seq(Measurements \cup {"garbage"})
    /\ wanted \subseteq Names /\ fresh \subseteq Measurements
    /\ late \in [Names -> Nat]

\* "Clear data so that a failed sensor read will not be reported"
\* (envdata.c:45): what Tick hands to the client was measured by the getter it
\* has just called and was not sent before, although data is reused from
\* sensor to sensor and never initialised.
SendsWhatWasMeasured ==
    step = "send" /\ meas < Len(data) => data[meas + 1] \in fresh

\* Before Tick turns to another sensor, each measurement has been sent.
NothingIsLeftOut == step = "sensor" => fresh = {}

\* A sensor that was switched off measures at most once more until it is
\* switched on again: the poller may do so after Tick has tested the flag, but
\* it is then the flag that Tick tests for this sensor in every later round.
\* The names of the commands and the table of getters lie in different files.
StopsWhenSwitchedOff == \A name \in Names : late[name] <= 1

\* A sensor that stays switched on is read again and again, although others
\* fail, unless a send fails and ends Tick.
EverySensorHasItsTurn ==
    \A name \in Names :
        <>[](name \in wanted /\ step # "ended")
            => []<>(step = sensors[Place[name] + 1])
==============================================================================
