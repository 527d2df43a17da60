------------------------------ MODULE Controls ------------------------------
(***************************************************************************)
(* The remote commands, src/src/controls.c, with the settings they change  *)
(* and the other writers of the LEDs (Tick and the button).                *)
(*                                                                         *)
(* A message is the sequence of its JSON tokens in document order, without *)
(* the enclosing object, or it does not parse.  A token is the text that   *)
(* starts at its offset, up to what IsName compares: "led" stands for every *)
(* text that begins with led.                                              *)
(***************************************************************************)
EXTENDS Integers, SequencesExt

CONSTANTS
    Messages,     \* the messages that may arrive: sequences of texts
    Unparsable,   \* a payload for which jsmn_parse returns an error
    MAX_TOKENS

ASSUME MessageAssumption ==
    Messages \subseteq Seq(STRING) /\ Unparsable \notin Messages
ASSUME TokensAssumption == MAX_TOKENS \in Nat \ {0}

VARIABLES
    leds,            \* the set of lit LEDs
    enabledSensors,
    publishPeriod, pollingPeriod,
    last             \* the message the last step handled, <<>> for none

settings == <<leds, enabledSensors, publishPeriod, pollingPeriod>>
vars     == <<settings, last>>

Leds    == {"red", "yellow", "orange"}
Sensors == {"env", "acc", "lgt", "gyr", "mag"}

Init ==
    /\ leds = {}
    /\ enabledSensors = Sensors
    /\ publishPeriod = 3000
    /\ pollingPeriod = 1000
    /\ last = <<>>

\* sscanf("%d"): what is no number leaves the value at -1.
Number(text) == CASE text = "0" -> 0
                  [] text = "1" -> 1
                  [] text = "2" -> 2
                  [] text = "5000" -> 5000
                  [] OTHER -> -1

(***************************************************************************)
(* The handlers.                                                           *)
(***************************************************************************)
\* The LEDs that are lit after LedSet.
LedSet(led, op) ==
    IF op = "off" \/ (op = "toggle" /\ led \in leds) THEN leds \ {led}
                                                    ELSE leds \cup {led}

LedOps == <<"off", "on", "toggle">>

LedControl(command, value) ==
    /\ leds' = IF command \in Leds /\ value \in 0 .. 2
                 THEN LedSet(command, LedOps[value + 1]) ELSE leds
    /\ UNCHANGED <<enabledSensors, publishPeriod, pollingPeriod>>

\* For "pub" the code calls OS_timerChangePeriod on tickTaskHandle, which is
\* no timer and NULL: Tick goes on sleeping PUBLISH_PERIOD.
PeriodControl(command, value) ==
    /\ pollingPeriod' = IF command = "sub" /\ value > 0
                          THEN value ELSE pollingPeriod
    /\ UNCHANGED <<leds, enabledSensors, publishPeriod>>

\* A mutant: the name is not looked up.
SensorControl_AnyName(command, value) ==
    /\ enabledSensors' = CASE value = 0 -> enabledSensors \ {command}
                           [] value = 1 -> enabledSensors \cup {command}
                           [] OTHER -> enabledSensors
    /\ UNCHANGED <<leds, publishPeriod, pollingPeriod>>

SensorControl(command, value) ==
    /\ enabledSensors' =
         IF command \notin Sensors THEN enabledSensors
         ELSE CASE value = 0 -> enabledSensors \ {command}
                [] value = 1 -> enabledSensors \cup {command}
                [] OTHER -> enabledSensors
    /\ UNCHANGED <<leds, publishPeriod, pollingPeriod>>

(***************************************************************************)
(* CommandConfigHandler.                                                   *)
(***************************************************************************)
\* tokens[i] of the parsed message; the one behind its last token is left
\* over from an earlier message (or lies behind the array): its offset then
\* points anywhere into this payload or into what an earlier one left behind
\* it in the buffer.  A message of an even number of tokens has none of its
\* keys last, and leaves no choice.
Texts == UNION {ToSet(m) : m \in Messages}
Stale(m) == IF Len(m) % 2 = 0 THEN {"junk"} ELSE Texts \cup {"junk"}
Token(m, stale, i) == IF i \in DOMAIN m THEN m[i] ELSE stale

\* A mutant: the loop over the tokens ends one key early.
Keys_ShortLoop(m, key) ==
    {i \in DOMAIN m : i % 2 = 1 /\ i < Len(m) - 1 /\ m[i] = key}

\* The odd positions, where the keys of a flat object are.
Keys(m, key) == {i \in DOMAIN m : i % 2 = 1 /\ m[i] = key}

LastOf(positions) ==
    CHOOSE i \in positions : \A j \in positions : j <= i

\* The path keys whose value selects a handler; others do not deselect it.
Paths(m, stale) == {i \in Keys(m, "path") :
                      Token(m, stale, i + 1) \in {"led", "per", "sensor"}}

CommandConfigHandler(m) ==
    /\ last' = m
    /\ IF m = Unparsable THEN UNCHANGED settings
       ELSE IF Len(m) + 1 > MAX_TOKENS THEN UNCHANGED settings
       ELSE \E stale \in Stale(m) :
         IF \/ Paths(m, stale) = {}
            \/ Keys(m, "command") = {}
            \/ Keys(m, "value") = {}
           THEN UNCHANGED settings
           ELSE LET path == Token(m, stale, LastOf(Paths(m, stale)) + 1)
                    command ==
                        Token(m, stale, LastOf(Keys(m, "command")) + 1)
                    value == Number(
                        Token(m, stale, LastOf(Keys(m, "value")) + 1))
                IN  \/ path = "led" /\ LedControl(command, value)
                    \/ path = "per" /\ PeriodControl(command, value)
                    \/ path = "sensor" /\ SensorControl(command, value)

(***************************************************************************)
(* The other writers of the LEDs.                                          *)
(***************************************************************************)
\* Tick has sent a measurement.
DataSent ==
    /\ leds' = LedSet("orange", "toggle")
    /\ last' = <<>>
    /\ UNCHANGED <<enabledSensors, publishPeriod, pollingPeriod>>

ButtonOneCallback ==
    /\ leds' \in {LedSet("red", "on"), LedSet("red", "off")}
    /\ last' = <<>>
    /\ UNCHANGED <<enabledSensors, publishPeriod, pollingPeriod>>

Next ==
    \/ \E m \in Messages \cup {Unparsable} : CommandConfigHandler(m)
    \/ DataSent
    \/ ButtonOneCallback

Spec == Init /\ [][Next]_vars

------------------------------------------------------------------------------
(***************************************************************************)
(* Properties.                                                             *)
(***************************************************************************)
\* The type invariant.
TypeOK ==
    /\ leds \subseteq Leds
    /\ enabledSensors \subseteq Sensors
    /\ publishPeriod \in Nat
    /\ pollingPeriod \in Nat \ {0}
    /\ last \in Messages \cup {Unparsable, <<>>}

\* A message as README.md:31-42 writes it: the three fields in any order.
Field(m, key) == m[(CHOOSE i \in {1, 3, 5} : m[i] = key) + 1]
IsCommand(m) ==
    /\ m # Unparsable /\ Len(m) = 6
    /\ {m[1], m[3], m[5]} = {"path", "command", "value"}
Command(m, path, commands, values) ==
    /\ IsCommand(m)
    /\ Field(m, "path") = path
    /\ Field(m, "command") \in commands
    /\ Field(m, "value") \in values

\* Each documented command for LEDs and sensors, whatever the order of its
\* fields and whatever came before, has its documented effect (value 0 - off,
\* 1 - on, 2 - toggle) and no other.
SwitchesAsDocumented ==
    [][LET m == last' IN
       /\ Command(m, "led", Leds, {"0", "1", "2"}) =>
            LET led == Field(m, "command")
                on  == \/ Field(m, "value") = "1"
                       \/ Field(m, "value") = "2" /\ led \notin leds
            IN  /\ leds' = (leds \ {led}) \cup (IF on THEN {led} ELSE {})
                /\ UNCHANGED <<enabledSensors, publishPeriod, pollingPeriod>>
       /\ Command(m, "sensor", Sensors, {"0", "1"}) =>
            LET sensor == Field(m, "command")
                on == Field(m, "value") = "1"
            IN  /\ (sensor \in enabledSensors') <=> on
                /\ enabledSensors' \ {sensor} = enabledSensors \ {sensor}
                /\ UNCHANGED <<leds, publishPeriod, pollingPeriod>>]_vars

\* "pub - publish period" (README.md:39): the command changes the period with
\* which the sensors are published.
PublishPeriodIsSet ==
    [][Command(last', "per", {"pub"}, {"5000"}) => publishPeriod' = 5000]_vars
==============================================================================
