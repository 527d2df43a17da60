--------------------------- MODULE ControlsProofs ---------------------------
(***************************************************************************)
(* Proofs about Controls, for any set of messages: of any length, with any *)
(* texts in any order.                                                     *)
(***************************************************************************)
EXTENDS Controls, TLAPS

\* A handler, whatever command and value it is given, keeps the settings in
\* their types.
LEMMA HandlerTypes ==
    ASSUME TypeOK, NEW command, NEW text,
           \/ LedControl(command, Number(text))
           \/ PeriodControl(command, Number(text))
           \/ SensorControl(command, Number(text))
    PROVE  /\ leds' \subseteq Leds /\ enabledSensors' \subseteq Sensors
           /\ publishPeriod' \in Nat /\ pollingPeriod' \in Nat \ {0}
<1>1. Number(text) \in {-1, 0, 1, 2, 5000}
  BY DEF Number
<1>2. CASE LedControl(command, Number(text))
  BY <1>2 DEF LedControl, LedSet, TypeOK
<1>3. CASE PeriodControl(command, Number(text))
  BY <1>1, <1>3 DEF PeriodControl, TypeOK
<1>4. CASE SensorControl(command, Number(text))
  BY <1>4 DEF SensorControl, TypeOK
<1>5. QED
  BY <1>2, <1>3, <1>4

\* A message leaves the settings alone or is handed to a handler.
LEMMA Handled ==
    ASSUME NEW m, CommandConfigHandler(m)
    PROVE  \/ UNCHANGED settings
           \/ \E command, text :
                 \/ LedControl(command, Number(text))
                 \/ PeriodControl(command, Number(text))
                 \/ SensorControl(command, Number(text))
BY DEF CommandConfigHandler

\* Every step preserves the types.
LEMMA NextTypes ==
    ASSUME TypeOK, [Next]_vars
    PROVE  TypeOK'
<1>1. ASSUME NEW m \in Messages \cup {Unparsable}, CommandConfigHandler(m)
      PROVE  TypeOK'
  <2>1. last' \in Messages \cup {Unparsable, <<>>}
    BY <1>1 DEF CommandConfigHandler
  <2>2. CASE UNCHANGED settings
    BY <2>1, <2>2 DEF settings, TypeOK
  <2>3. CASE \E command, text :
                \/ LedControl(command, Number(text))
                \/ PeriodControl(command, Number(text))
                \/ SensorControl(command, Number(text))
    BY <2>1, <2>3, HandlerTypes DEF TypeOK
  <2>4. QED
    BY <1>1, <2>2, <2>3, Handled
<1>2. CASE DataSent \/ ButtonOneCallback
  BY <1>2 DEF DataSent, ButtonOneCallback, LedSet, Leds, TypeOK
<1>3. CASE UNCHANGED vars
  BY <1>3 DEF vars, settings, TypeOK
<1>4. QED
  BY <1>1, <1>2, <1>3 DEF Next

\* The types of the settings, whatever messages arrive and whatever stale
\* token the handler reads.
THEOREM ControlsTypeCorrect == Spec => []TypeOK
<1>1. Init => TypeOK
  BY DEF Init, TypeOK, Leds
<1>2. QED
  BY <1>1, NextTypes, PTL DEF Spec

------------------------------------------------------------------------------
\* In a command as it is documented, each of the three keys is at one place,
\* whatever their order, and its value follows it.
LEMMA KeyOfCommand ==
    ASSUME NEW m \in Messages, IsCommand(m),
           NEW key \in {"path", "command", "value"}
    PROVE  /\ \E k \in {1, 3, 5} :
                 Keys(m, key) = {k} /\ Field(m, key) = m[k + 1]
           /\ \A stale :
                 Token(m, stale, LastOf(Keys(m, key)) + 1) = Field(m, key)
<1>1. m \in Seq(STRING) /\ Len(m) = 6
  BY MessageAssumption DEF IsCommand
<1>2. DOMAIN m = 1 .. 6
  BY <1>1
<1>3. {m[1], m[3], m[5]} = {"path", "command", "value"}
  BY DEF IsCommand
<1>4. \A i, j \in {1, 3, 5} : m[i] = m[j] => i = j
  BY <1>3
<1>5. PICK k \in {1, 3, 5} : m[k] = key
  BY <1>3
<1>6. Keys(m, key) = {k}
  <2>1. \A i \in 1 .. 6 : i % 2 = 1 <=> i \in {1, 3, 5}
    OBVIOUS
  <2>2. QED
    BY <1>2, <1>4, <1>5, <2>1 DEF Keys
<1>7. (CHOOSE i \in {1, 3, 5} : m[i] = key) = k
  BY <1>4, <1>5
<1>8. LastOf({k}) = k
  BY DEF LastOf
<1>9. k + 1 \in DOMAIN m
  BY <1>2
<1>10. QED
  BY <1>5, <1>6, <1>7, <1>8, <1>9 DEF Field, Token

\* A documented command reaches its handler with its command and its value.
LEMMA CommandReachesHandler ==
    ASSUME MAX_TOKENS >= 7, NEW m \in Messages, IsCommand(m),
           CommandConfigHandler(m),
           Field(m, "path") \in {"led", "per", "sensor"}
    PROVE  \/ /\ Field(m, "path") = "led"
              /\ LedControl(Field(m, "command"), Number(Field(m, "value")))
           \/ /\ Field(m, "path") = "per"
              /\ PeriodControl(Field(m, "command"), Number(Field(m, "value")))
           \/ /\ Field(m, "path") = "sensor"
              /\ SensorControl(Field(m, "command"), Number(Field(m, "value")))
<1>1. m # Unparsable /\ Len(m) = 6
  BY DEF IsCommand
<1>2. Keys(m, "command") # {} /\ Keys(m, "value") # {}
  BY KeyOfCommand
<1>3. PICK k \in {1, 3, 5} :
         Keys(m, "path") = {k} /\ Field(m, "path") = m[k + 1]
  BY KeyOfCommand
<1>4. \A stale : Token(m, stale, k + 1) = Field(m, "path")
  <2>1. LastOf({k}) = k
    BY DEF LastOf
  <2>2. QED
    BY <1>3, <2>1, KeyOfCommand
<1>5. \A stale : Paths(m, stale) = Keys(m, "path")
  BY <1>3, <1>4 DEF Paths
<1>6. \A stale :
         /\ Paths(m, stale) # {}
         /\ Token(m, stale, LastOf(Paths(m, stale)) + 1) = Field(m, "path")
  BY <1>3, <1>5, KeyOfCommand
<1>7. \A stale :
         /\ Token(m, stale, LastOf(Keys(m, "command")) + 1) =
               Field(m, "command")
         /\ Token(m, stale, LastOf(Keys(m, "value")) + 1) = Field(m, "value")
  BY KeyOfCommand
<1>8. ~(Len(m) + 1 > MAX_TOKENS)
  BY <1>1, TokensAssumption
<1>9. QED
  BY <1>1, <1>2, <1>6, <1>7, <1>8 DEF CommandConfigHandler

\* What each handler does with a documented value.
LEMMA LedHandler ==
    ASSUME NEW led \in Leds, NEW text \in {"0", "1", "2"},
           LedControl(led, Number(text))
    PROVE  /\ leds' = (leds \ {led}) \cup
                 (IF text = "1" \/ (text = "2" /\ led \notin leds)
                    THEN {led} ELSE {})
           /\ UNCHANGED <<enabledSensors, publishPeriod, pollingPeriod>>
<1>1. /\ LedOps[Number("0") + 1] = "off" /\ LedOps[Number("1") + 1] = "on"
      /\ LedOps[Number("2") + 1] = "toggle"
      /\ Number(text) \in 0 .. 2
  BY DEF LedOps, Number
<1>2. leds' = LedSet(led, LedOps[Number(text) + 1])
  BY <1>1 DEF LedControl
<1>3. QED
  BY <1>1, <1>2 DEF LedSet, LedControl

\* The same for the sensors.
LEMMA SensorHandler ==
    ASSUME NEW sensor \in Sensors, NEW text \in {"0", "1"},
           SensorControl(sensor, Number(text))
    PROVE  /\ sensor \in enabledSensors' <=> text = "1"
           /\ enabledSensors' \ {sensor} = enabledSensors \ {sensor}
           /\ UNCHANGED <<leds, publishPeriod, pollingPeriod>>
<1>1. Number("0") = 0 /\ Number("1") = 1
  BY DEF Number
<1>2. QED
  BY <1>1 DEF SensorControl

\* Each documented command for LEDs and sensors has its documented effect and
\* no other, whatever the order of its fields and whatever came before.  The
\* array must hold the seven tokens of a command, which 20 do.
THEOREM CommandsSwitchAsDocumented ==
    ASSUME MAX_TOKENS >= 7
    PROVE  Spec => SwitchesAsDocumented
<1> DEFINE Effect(m) ==
       /\ Command(m, "led", Leds, {"0", "1", "2"}) =>
            LET led == Field(m, "command")
                on  == \/ Field(m, "value") = "1"
                       \/ Field(m, "value") = "2" /\ led \notin leds
            IN  /\ leds' = (leds \ {led}) \cup (IF on THEN {led} ELSE {})
                /\ UNCHANGED <<enabledSensors, publishPeriod, pollingPeriod>>
       /\ Command(m, "sensor", Sensors, {"0", "1"}) =>
            LET sensor == Field(m, "command")
                on == Field(m, "value") = "1"
            IN  /\ (sensor \in enabledSensors') <=> on
                /\ enabledSensors' \ {sensor} = enabledSensors \ {sensor}
                /\ UNCHANGED <<leds, publishPeriod, pollingPeriod>>
<1>1. ASSUME NEW m \in Messages, CommandConfigHandler(m)
      PROVE  Effect(m)
  <2>1. CASE Command(m, "led", Leds, {"0", "1", "2"})
    <3>1. LedControl(Field(m, "command"), Number(Field(m, "value")))
      BY <1>1, <2>1, CommandReachesHandler DEF Command
    <3>2. ~Command(m, "sensor", Sensors, {"0", "1"})
      BY <2>1 DEF Command
    <3>3. QED
      BY <2>1, <3>1, <3>2, LedHandler DEF Command
  <2>2. CASE Command(m, "sensor", Sensors, {"0", "1"})
    <3>1. SensorControl(Field(m, "command"), Number(Field(m, "value")))
      BY <1>1, <2>2, CommandReachesHandler DEF Command
    <3>2. ~Command(m, "led", Leds, {"0", "1", "2"})
      BY <2>2 DEF Command
    <3>3. QED
      BY <2>2, <3>1, <3>2, SensorHandler DEF Command
  <2>3. QED
    BY <2>1, <2>2
<1>2. ASSUME NEW m, ~IsCommand(m)
      PROVE  Effect(m)
  BY <1>2 DEF Command
<1>3. ~IsCommand(Unparsable) /\ ~IsCommand(<<>>)
  BY DEF IsCommand
<1>4. ASSUME Next PROVE Effect(last')
  <2>1. CASE DataSent \/ ButtonOneCallback
    <3>1. last' = <<>>
      BY <2>1 DEF DataSent, ButtonOneCallback
    <3>2. QED
      BY <1>2, <1>3, <3>1
  <2>2. ASSUME NEW m \in Messages \cup {Unparsable}, CommandConfigHandler(m)
        PROVE  Effect(last')
    <3>1. last' = m
      BY <2>2 DEF CommandConfigHandler
    <3>2. CASE m = Unparsable
      BY <1>2, <1>3, <3>1, <3>2
    <3>3. CASE m \in Messages
      BY <1>1, <2>2, <3>1, <3>3
    <3>4. QED
      BY <2>2, <3>2, <3>3
  <2>3. QED
    BY <1>4, <2>1, <2>2 DEF Next
<1>5. [Next]_vars => [Effect(last')]_vars
  BY <1>4
<1>6. QED
  BY <1>5, PTL DEF Spec, SwitchesAsDocumented
==============================================================================
