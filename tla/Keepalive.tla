----------------------------- MODULE Keepalive -----------------------------
(***************************************************************************)
(* Who keeps the connection alive, and how long the device may be silent:  *)
(* ping_timer (src/src/MQTTClient.c, the timer of Timers), the poller that *)
(* looks at it (MqttYield of src/src/mqtt.c), the publisher whose packets  *)
(* restart it, and the remote commands that set the poller's period and    *)
(* silence the publisher.                                                  *)
(*                                                                         *)
(* age, the history variable of Timers, is how long ago the last packet    *)
(* went out.  The broker drops the link GRACE after it last heard of the   *)
(* device, one and a half times the keepalive interval, and answers a ping *)
(* within ANSWER.  A delay ends with the tick that would overrun it.       *)
(***************************************************************************)
EXTENDS Timers

CONSTANTS
    KEEPALIVE,       \* keepAliveInterval of MqttConnect
    GRACE, ANSWER,
    PUBLISH_PERIOD,  \* of Tick
    POLLING_PERIOD,  \* initial value of pollingPeriod
    Values,          \* the numbers commands give as polling period
    YIELD            \* how long MQTTYield may take

ASSUME KeepaliveAssumption ==
    /\ KEEPALIVE \in Nat \ {0} /\ Timeouts = {KEEPALIVE}
    /\ GRACE \in Nat /\ GRACE < KEEPALIVE + MaxAge
    /\ ANSWER \in 0 .. KEEPALIVE
    /\ PUBLISH_PERIOD \in Nat /\ YIELD \in Nat
    /\ Values \subseteq Int /\ POLLING_PERIOD \in Nat \ {0}

VARIABLES
    link,              \* "open", "dropped" by the broker or "left" by Tick
    publishing,        \* is some sensor enabled?
    pollingPeriod,
    pollDelay,         \* until MqttYield has polled again, at the latest
    tickDelay,         \* until Tick publishes again, at the latest
    ping_outstanding,
    answer,            \* time left to the broker to answer a ping; -1 when
                       \* no ping is under way to it
    tried              \* history: the age at which a ping could not be
                       \* written; 0 when none since the last packet

timer == <<MilliTimer, end_time, rest, age>>
tasks == <<publishing, pollingPeriod, pollDelay, tickDelay>>
pings == <<ping_outstanding, answer, tried>>
all   == <<timer, link, tasks, pings>>

\* MqttConnect has sent CONNECT; MqttYield and Tick are about to run.
Connected ==
    /\ link = "open"
    /\ publishing = TRUE
    /\ pollingPeriod = POLLING_PERIOD
    /\ pollDelay = 0 /\ tickDelay = 0
    /\ ping_outstanding = FALSE /\ answer = -1 /\ tried = 0

KInit ==
    /\ MilliTimer \in unsigned
    /\ end_time = Plus(MilliTimer, KEEPALIVE)
    /\ rest = KEEPALIVE /\ age = 0
    /\ Connected

Due(delay) == delay < TIMER_TICK_PERIOD

\* Time passes; nobody oversleeps, and the broker is as fast as promised.
Time ==
    /\ link = "open" /\ age <= GRACE
    /\ ~Due(pollDelay) /\ ~Due(tickDelay)
    /\ answer >= 0 => ~Due(answer)
    /\ sysTickIntHandler
    /\ pollDelay' = pollDelay - TIMER_TICK_PERIOD
    /\ tickDelay' = tickDelay - TIMER_TICK_PERIOD
    /\ answer' = IF answer >= 0 THEN answer - TIMER_TICK_PERIOD ELSE answer
    /\ UNCHANGED <<link, publishing, pollingPeriod, ping_outstanding, tried>>

\* PINGRESP arrives; the poller reads it before it last looks at the timer.
PingAnswered ==
    /\ answer >= 0
    /\ answer' = -1
    /\ ping_outstanding' = FALSE
    /\ UNCHANGED <<timer, link, tasks, tried>>

(***************************************************************************)
(* The poller: MQTTYield, whose last cycle reads what has arrived and      *)
(* calls keepalive, with the commands it executes, and the sleep.          *)
(***************************************************************************)
PingGoesOut ==
    /\ countdown_ms(KEEPALIVE)
    /\ ping_outstanding' = TRUE
    /\ answer' = ANSWER
    /\ tried' = 0

\* sendPacket fails and nobody looks at what keepalive returns.  What it may
\* have put on the wire is no packet the broker has heard.
PingFails ==
    /\ tried' = age
    /\ UNCHANGED <<timer, ping_outstanding, answer>>

\* A mutant: the flag is set although the ping was not written.
keepalive_FlagAnyway ==
    IF expired /\ ~ping_outstanding
      THEN \/ PingGoesOut
           \/ /\ ping_outstanding' = TRUE
              /\ tried' = age
              /\ UNCHANGED <<timer, answer>>
      ELSE UNCHANGED <<timer, pings>>

keepalive ==
    IF expired /\ ~ping_outstanding THEN PingGoesOut \/ PingFails
                                    ELSE UNCHANGED <<timer, pings>>

\* A mutant: a command may set a period of 0.
MqttYield_AcceptsZero ==
    /\ link = "open" /\ Due(pollDelay)
    /\ keepalive
    /\ \E value \in Values :
          pollingPeriod' = IF value >= 0 THEN value ELSE pollingPeriod
    /\ publishing' \in BOOLEAN
    /\ pollDelay' \in pollingPeriod' .. pollingPeriod' + YIELD
    /\ UNCHANGED <<link, tickDelay>>

MqttYield ==
    /\ link = "open" /\ Due(pollDelay)
    /\ keepalive
    /\ \E value \in Values :
          pollingPeriod' = IF value > 0 THEN value ELSE pollingPeriod
    /\ publishing' \in BOOLEAN
    /\ pollDelay' \in pollingPeriod' .. pollingPeriod' + YIELD
    /\ UNCHANGED <<link, tickDelay>>

(***************************************************************************)
(* The publisher: sendPacket restarts the timer, if a read brought data.   *)
(* When it fails Tick stops the poller and ends.                           *)
(***************************************************************************)
Tick ==
    /\ link = "open" /\ Due(tickDelay)
    /\ tickDelay' = PUBLISH_PERIOD
    /\ \/ publishing /\ countdown_ms(KEEPALIVE) /\ tried' = 0
       \/ UNCHANGED <<timer, tried>>
    /\ UNCHANGED <<link, publishing, pollingPeriod, pollDelay,
                   ping_outstanding, answer>>

TickFails ==
    /\ link = "open" /\ Due(tickDelay) /\ publishing
    /\ link' = "left"
    /\ UNCHANGED <<timer, tasks, pings>>

(***************************************************************************)
(* The broker, and the watchdog: after the link is dropped a send fails or *)
(* the poller hangs, if the device notices at all.                         *)
(***************************************************************************)
Drop ==
    /\ link = "open" /\ age > GRACE
    /\ link' = "dropped"
    /\ UNCHANGED <<timer, tasks, pings>>

Reset ==
    /\ link # "open"
    /\ link' = "open"
    /\ MilliTimer' = 0 /\ end_time' = Plus(0, KEEPALIVE)
    /\ rest' = KEEPALIVE /\ age' = 0
    /\ publishing' = TRUE /\ pollingPeriod' = POLLING_PERIOD
    /\ pollDelay' = 0 /\ tickDelay' = 0
    /\ ping_outstanding' = FALSE /\ answer' = -1 /\ tried' = 0

KNext == \/ Time \/ PingAnswered \/ MqttYield \/ Tick \/ TickFails
         \/ Drop \/ Reset

KSpec == KInit /\ [][KNext]_all

------------------------------------------------------------------------------
(***************************************************************************)
(* Properties.                                                             *)
(***************************************************************************)
\* The types of what Timers does not declare.
KFlags ==
    /\ link \in {"open", "dropped", "left"}
    /\ publishing \in BOOLEAN
    /\ ping_outstanding \in BOOLEAN
KDelays ==
    /\ pollingPeriod \in Nat \ {0}
    /\ pollDelay \in Nat /\ tickDelay \in 0 .. PUBLISH_PERIOD
    /\ answer \in -1 .. ANSWER
    /\ tried \in Nat
KTypeOK == KFlags /\ KDelays

\* Whatever the commands do, the device is never silent for longer than
\* Silence: the poller tries a ping one sleep after the end of the interval at
\* the latest, or one sleep after the last that could not be written, and none
\* is withheld because one before it, lost or late, still counts as
\* unanswered.  While that is short enough for the broker it keeps the link,
\* even if no sensor is left to publish.  (Nothing keeps a command from
\* setting a period, or writes from failing for so long, that it does not.)
Silence == (IF tried > KEEPALIVE THEN tried ELSE KEEPALIVE)
           + pollingPeriod + YIELD
KeptAlive ==
    /\ link = "open" => age <= Silence
    /\ Silence <= GRACE => link # "dropped"

\* The poller will have looked before Silence is over, and an answer that is
\* still under way comes before the timer can expire again.
KBounds ==
    /\ rest = KEEPALIVE /\ tried <= age
    /\ link = "open" => age + pollDelay <= Silence
    /\ link = "dropped" => GRACE < Silence
    /\ answer >= 0 => answer + age <= ANSWER
    /\ ping_outstanding => answer >= 0

\* What every step preserves, and KeptAlive follows from.
KInductive == TypeOK /\ Distance /\ KTypeOK /\ KBounds
==============================================================================
