------------------------------- MODULE Timers -------------------------------
(***************************************************************************)
(* The millisecond timers of src/src/MQTTXDK.c: one free-running counter,  *)
(* MilliTimer, and for each timer the value of the counter at its end.     *)
(* Both are unsigned long and wrap; their difference is read as a signed   *)
(* long.  The variables rest and age are not in the code: they hold what   *)
(* a caller of countdown_ms asked for and how long ago that was.           *)
(***************************************************************************)
EXTENDS Integers

CONSTANTS
    Half,               \* 2^31: the counters are taken modulo 2 * Half
    TIMER_TICK_PERIOD,
    Timeouts,           \* the timeouts the callers of countdown_ms pass
    MaxAge              \* bound: how late a timer is still looked at

ASSUME TimerAssumption ==
    /\ Half \in Nat \ {0}
    /\ TIMER_TICK_PERIOD \in 1 .. Half
    /\ Timeouts \subseteq 0 .. Half - 1
    /\ MaxAge \in Nat
    /\ MaxAge <= Half

VARIABLES MilliTimer, end_time, rest, age
vars == <<MilliTimer, end_time, rest, age>>

unsigned == 0 .. 2 * Half - 1

\* Addition and subtraction of two unsigned numbers, and the conversion of
\* an unsigned long to a long.
Plus(a, b)  == IF a + b < 2 * Half THEN a + b ELSE a + b - 2 * Half
Minus(a, b) == IF a >= b THEN a - b ELSE a - b + 2 * Half
Signed(a)   == IF a < Half THEN a ELSE a - 2 * Half

left    == Signed(Minus(end_time, MilliTimer))
expired == left < 0
left_ms == IF left < 0 THEN 0 ELSE left

\* InitTimer, when the program starts.  (A timer that is made later is counted
\* down before anybody looks at it.)
Init ==
    /\ MilliTimer = 0
    /\ end_time = 0
    /\ rest = 0
    /\ age = 0

\* A mutant: the end is kept in a wider variable.
countdown_ms_Unwrapped(timeout) ==
    /\ end_time' = MilliTimer + timeout
    /\ rest' = timeout
    /\ age' = 0
    /\ UNCHANGED MilliTimer

countdown_ms(timeout) ==
    /\ end_time' = Plus(MilliTimer, timeout)
    /\ rest' = timeout
    /\ age' = 0
    /\ UNCHANGED MilliTimer

\* A mutant: the counter starts again at 0 instead of wrapping.
sysTickIntHandler_Restarts ==
    /\ age + TIMER_TICK_PERIOD <= rest + MaxAge
    /\ MilliTimer' = IF MilliTimer + TIMER_TICK_PERIOD < 2 * Half
                       THEN MilliTimer + TIMER_TICK_PERIOD ELSE 0
    /\ age' = age + TIMER_TICK_PERIOD
    /\ UNCHANGED <<end_time, rest>>

\* Every TIMER_TICK_PERIOD milliseconds, as long as somebody still looks.
sysTickIntHandler ==
    /\ age + TIMER_TICK_PERIOD <= rest + MaxAge
    /\ MilliTimer' = Plus(MilliTimer, TIMER_TICK_PERIOD)
    /\ age' = age + TIMER_TICK_PERIOD
    /\ UNCHANGED <<end_time, rest>>

Next == sysTickIntHandler \/ \E timeout \in Timeouts : countdown_ms(timeout)

Spec == Init /\ [][Next]_vars

------------------------------------------------------------------------------
\* The type invariant.
TypeOK ==
    /\ MilliTimer \in unsigned
    /\ end_time \in unsigned
    /\ rest \in 0 .. Half - 1
    /\ age \in 0 .. rest + MaxAge

\* A timer expires when more than its timeout has passed, never earlier and
\* never later, wherever the counter wraps in between; until then left_ms is
\* what remains of the timeout.
ExpiresOnTime ==
    /\ expired <=> age > rest
    /\ left_ms = IF age > rest THEN 0 ELSE rest - age

\* The strengthening of ExpiresOnTime that every step preserves.
Distance ==
    \/ end_time - MilliTimer = rest - age
    \/ end_time - MilliTimer = rest - age - 2 * Half
    \/ end_time - MilliTimer = rest - age + 2 * Half
==============================================================================
