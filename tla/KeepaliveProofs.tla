--------------------------- MODULE KeepaliveProofs ---------------------------
(***************************************************************************)
(* Proofs about Timers and Keepalive: for a counter of any width, any tick *)
(* period, any timeouts below half the range of the counter, and every     *)
(* interval that KeepaliveAssumption allows.                               *)
(***************************************************************************)
EXTENDS Keepalive, TLAPS

(***************************************************************************)
(* The timer.                                                              *)
(***************************************************************************)
IInv == TypeOK /\ Distance

\* The initial states satisfy the inductive invariant.
LEMMA InitIInv == Init => IInv
BY TimerAssumption DEF Init, IInv, TypeOK, Distance, unsigned

\* Counting down and ticking preserve it.
LEMMA NextIInv ==
    ASSUME IInv, [Next]_vars
    PROVE  IInv'
<1> USE TimerAssumption DEF IInv, TypeOK, Distance, unsigned, Plus
<1>1. CASE sysTickIntHandler
  BY <1>1 DEF sysTickIntHandler
<1>2. ASSUME NEW timeout \in Timeouts, countdown_ms(timeout)
      PROVE  IInv'
  BY <1>2 DEF countdown_ms
<1>3. CASE UNCHANGED vars
  BY <1>3 DEF vars
<1>4. QED
  BY <1>1, <1>2, <1>3 DEF Next

\* The counter and the end of the timer are as far apart as the timeout says,
\* up to one wrap of the counter.
THEOREM TimerTypeCorrect == Spec => []TypeOK
<1>1. IInv => TypeOK
  BY DEF IInv
<1>2. QED
  BY InitIInv, NextIInv, <1>1, PTL DEF Spec

\* The signed difference is what remains of the timeout, wherever the counter
\* has wrapped.
LEMMA DistanceTells == IInv => ExpiresOnTime
BY TimerAssumption
DEF IInv, TypeOK, Distance, ExpiresOnTime, expired, left_ms, left, Signed,
    Minus, unsigned

\* A timer expires exactly when its timeout has passed, wherever the counter
\* wraps, provided it is looked at within half the range of the counter.
THEOREM TimersExpireOnTime == Spec => []ExpiresOnTime
BY InitIInv, NextIInv, DistanceTells, PTL DEF Spec

------------------------------------------------------------------------------
(***************************************************************************)
(* The keepalive of the client, driven by that timer.                      *)
(***************************************************************************)
\* The initial states satisfy the inductive invariant.
LEMMA InitKInductive == KInit => KInductive
<1> SUFFICES ASSUME KInit PROVE KInductive
  OBVIOUS
<1>1. TypeOK /\ Distance
  BY TimerAssumption, KeepaliveAssumption
  DEF KInit, TypeOK, Distance, unsigned, Plus
<1>2. KFlags
  BY Zenon DEF KInit, Connected, KFlags
<1>3. KDelays
  BY KeepaliveAssumption DEF KInit, Connected, KDelays
<1>4. QED
  BY <1>1, <1>2, <1>3, KeepaliveAssumption
  DEF KInit, Connected, KInductive, KTypeOK, KDelays, KBounds, Silence

\* The steps of Keepalive but Reset are steps of Timers or leave the timer
\* alone, so that what NextIInv says of them holds here.
LEMMA TimerSteps ==
    ASSUME TypeOK, Distance, [KNext]_all
    PROVE  TypeOK' /\ Distance'
<1> USE KeepaliveAssumption
<1>1. CASE [Next]_vars
  BY <1>1, NextIInv DEF IInv
<1>2. CASE Reset
  BY <1>2, TimerAssumption
  DEF Reset, TypeOK, Distance, unsigned, Plus
<1>3. CASE Time
  BY <1>1, <1>3 DEF Time, Next
<1>4. CASE MqttYield \/ Tick
  BY <1>1, <1>4 DEF MqttYield, keepalive, PingGoesOut, PingFails, Tick, Next,
     timer, vars
<1>5. CASE PingAnswered \/ TickFails \/ Drop \/ UNCHANGED all
  BY <1>1, <1>5 DEF PingAnswered, TickFails, Drop, all, timer, vars
<1>6. QED
  BY <1>2, <1>3, <1>4, <1>5 DEF KNext

\* The flags stay flags.
LEMMA FlagSteps ==
    ASSUME KFlags, [KNext]_all
    PROVE  KFlags'
<1> USE DEF KFlags
<1>1. CASE Time \/ PingAnswered
  BY <1>1, Zenon DEF Time, PingAnswered, tasks
<1>2. CASE MqttYield
  BY <1>2, Zenon DEF MqttYield, keepalive, PingGoesOut, PingFails, pings
<1>3. CASE Tick \/ TickFails \/ Drop \/ Reset
  BY <1>3, Zenon DEF Tick, TickFails, Drop, Reset, tasks, pings
<1>4. CASE UNCHANGED all
  BY <1>4, Zenon DEF all, tasks, pings
<1>5. QED
  BY <1>1, <1>2, <1>3, <1>4 DEF KNext

\* A timer that was set for KEEPALIVE has expired when it is older than that.
LEMMA ExpiredIsLate ==
    ASSUME TypeOK, Distance
    PROVE  expired <=> age > rest
BY TimerAssumption
DEF TypeOK, Distance, expired, left, Signed, Minus, unsigned

\* Silence has room for a sleep that begins within the interval or with a
\* ping that failed.
LEMMA SleepIsSilence ==
    ASSUME NEW period \in Nat, NEW sleep \in period .. period + YIELD,
           NEW begin \in Nat, NEW failed \in Nat,
           begin <= KEEPALIVE \/ begin <= failed
    PROVE  begin + sleep <= (IF failed > KEEPALIVE THEN failed ELSE KEEPALIVE)
                            + period + YIELD
<1>1. KEEPALIVE \in Nat /\ YIELD \in Nat
  BY KeepaliveAssumption
<1>2. sleep \in Nat /\ sleep <= period + YIELD
  BY <1>1
<1>3. QED
  BY <1>1, <1>2

\* Delays stay in their types and the bounds hold.
LEMMA BoundSteps ==
    ASSUME TypeOK, Distance, KDelays, KBounds, [KNext]_all
    PROVE  KDelays' /\ KBounds'
<1>1. /\ TIMER_TICK_PERIOD \in Nat \ {0} /\ KEEPALIVE \in Nat /\ YIELD \in Nat
      /\ ANSWER \in 0 .. KEEPALIVE /\ PUBLISH_PERIOD \in Nat
      /\ POLLING_PERIOD \in Nat \ {0}
  BY TimerAssumption, KeepaliveAssumption
<1>2. age \in Nat
  BY TimerAssumption DEF TypeOK
<1>3. expired <=> age > rest
  BY ExpiredIsLate
<1> USE <1>1, <1>2 DEF KDelays, KBounds, Silence
<1>4. CASE Time
  BY <1>4 DEF Time, Due, sysTickIntHandler
<1>5. CASE PingAnswered
  BY <1>5 DEF PingAnswered, timer, tasks
<1>6. CASE MqttYield
  <2>1. /\ link = "open" /\ UNCHANGED <<link, tickDelay>>
        /\ pollDelay' \in pollingPeriod' .. pollingPeriod' + YIELD
        /\ pollingPeriod' \in Nat /\ pollingPeriod' > 0
    <3>1. PICK value \in Values :
             pollingPeriod' = IF value > 0 THEN value ELSE pollingPeriod
      BY <1>6 DEF MqttYield
    <3>2. pollingPeriod' \in Nat /\ pollingPeriod' > 0
      BY <3>1, KeepaliveAssumption
    <3>3. QED
      BY <1>6, <3>2, Zenon DEF MqttYield
  \* If the timer has expired, an answer still to come would be overdue.
  <2>2. \/ /\ age' = 0 /\ rest' = KEEPALIVE /\ answer' = ANSWER /\ tried' = 0
        \/ /\ age > KEEPALIVE /\ tried' = age
           /\ UNCHANGED <<age, rest, answer, ping_outstanding>>
        \/ /\ age <= KEEPALIVE
           /\ UNCHANGED <<age, rest, answer, tried, ping_outstanding>>
    <3>1. CASE expired
      <4>1. ~ping_outstanding /\ age > KEEPALIVE
        BY <1>3, <3>1
      <4>2. PingGoesOut \/ PingFails
        BY <1>6, <3>1, <4>1, Zenon DEF MqttYield, keepalive
      <4>3. QED
        BY <4>1, <4>2, Zenon DEF PingGoesOut, PingFails, countdown_ms, timer
    <3>2. CASE ~expired
      <4>1. age <= KEEPALIVE
        BY <1>3, <3>2
      <4>2. QED
        BY <1>6, <3>2, <4>1, Zenon DEF MqttYield, keepalive, timer, pings
    <3>3. QED
      BY <3>1, <3>2
  <2>3. KDelays'
    BY <2>1, <2>2
  <2>4. rest' = KEEPALIVE /\ tried' <= age'
    BY <2>2
  <2>5. /\ age' <= KEEPALIVE \/ age' <= tried'
        /\ age' \in Nat /\ tried' \in Nat
    BY <2>2
  <2>6. age' + pollDelay' <= Silence'
    BY <2>1, <2>5, SleepIsSilence, Zenon DEF Silence
  <2>7. QED
    BY <2>1, <2>2, <2>3, <2>4, <2>6
<1>7. CASE Tick
  <2>1. /\ tickDelay' = PUBLISH_PERIOD
        /\ UNCHANGED <<link, pollingPeriod, pollDelay>>
        /\ UNCHANGED <<answer, ping_outstanding>>
    BY <1>7 DEF Tick
  <2>2. \/ age' = 0 /\ rest' = KEEPALIVE /\ tried' = 0
        \/ UNCHANGED <<age, rest, tried>>
    BY <1>7, Zenon DEF Tick, countdown_ms, timer
  <2>3. CASE age' = 0 /\ rest' = KEEPALIVE /\ tried' = 0
    <3>1. link = "open" => pollDelay <= KEEPALIVE + pollingPeriod + YIELD
      OBVIOUS
    <3>2. KDelays'
      BY <2>1, <2>3
    <3>3. /\ link' = "open" => age' + pollDelay' <= Silence'
          /\ link' = "dropped" => GRACE < Silence'
      BY <1>7, <2>1, <2>3, <3>1 DEF Tick
    <3>4. QED
      BY <2>1, <2>3, <3>2, <3>3
  <2>4. CASE UNCHANGED <<age, rest, tried>>
    BY <2>1, <2>4
  <2>5. QED
    BY <2>2, <2>3, <2>4
<1>8. CASE Drop \/ TickFails
  <2>1. /\ link = "open"
        /\ \/ link' = "dropped" /\ age > GRACE
           \/ link' = "left"
        /\ UNCHANGED <<age, rest, answer, tried, ping_outstanding>>
        /\ UNCHANGED <<pollingPeriod, pollDelay, tickDelay>>
    BY <1>8, Zenon DEF Drop, TickFails, timer, tasks, pings
  <2>2. GRACE \in Nat
    BY KeepaliveAssumption
  <2>3. QED
    BY <2>1, <2>2
<1>9. CASE Reset
  <2>1. /\ link' = "open" /\ rest' = KEEPALIVE /\ age' = 0 /\ tried' = 0
        /\ pollingPeriod' = POLLING_PERIOD
        /\ pollDelay' = 0 /\ tickDelay' = 0
        /\ answer' = -1 /\ ping_outstanding' = FALSE
    BY <1>9, Zenon DEF Reset
  <2>2. QED
    BY <2>1
<1>10. CASE UNCHANGED all
  BY <1>10 DEF all, timer, tasks, pings
<1>11. QED
  BY <1>4, <1>5, <1>6, <1>7, <1>8, <1>9, <1>10 DEF KNext

\* Every step preserves the inductive invariant.
LEMMA NextKInductive == KInductive /\ [KNext]_all => KInductive'
BY TimerSteps, FlagSteps, BoundSteps DEF KInductive, KTypeOK

\* The types of keepalive.
THEOREM KeepaliveTypeCorrect == KSpec => []KTypeOK
<1>1. KInductive => KTypeOK
  BY DEF KInductive
<1>2. QED
  BY InitKInductive, NextKInductive, <1>1, PTL DEF KSpec

\* The types of the ping timer, over every reset.
THEOREM PingTimerTypeCorrect == KSpec => []TypeOK
<1>1. KInductive => TypeOK
  BY DEF KInductive
<1>2. QED
  BY InitKInductive, NextKInductive, <1>1, PTL DEF KSpec

\* The ping timer expires when KEEPALIVE has passed since the last packet, not
\* earlier and not later, wherever the counter wraps and whatever periods the
\* commands set: the broker drops a silent link before the counter has run
\* through half its range (KeepaliveAssumption bounds GRACE).
THEOREM PingTimerExpiresOnTime == KSpec => []ExpiresOnTime
<1>1. KInductive => ExpiresOnTime
  BY DistanceTells DEF KInductive, IInv
<1>2. QED
  BY InitKInductive, NextKInductive, <1>1, PTL DEF KSpec

\* Whatever polling periods the commands set, however often the write of a
\* ping fails and whether or not sensors are left to publish, the device is
\* silent for Silence at most, and keeps its link as long as that is short
\* enough for the broker.
THEOREM LinkIsKeptAlive == KSpec => []KeptAlive
<1>1. KInductive => KeptAlive
  BY KeepaliveAssumption, TimerAssumption
  DEF KInductive, TypeOK, KTypeOK, KFlags, KDelays, KBounds, KeptAlive,
      Silence
<1>2. QED
  BY InitKInductive, NextKInductive, <1>1, PTL DEF KSpec
==============================================================================
