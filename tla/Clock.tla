------------------------------- MODULE Clock -------------------------------
(***************************************************************************)
(* The millisecond clock of the kernel (src/src/kernel.cpp) and the time   *)
(* stamps the modules keep.                                                *)
(*                                                                         *)
(* FC_systick_millis_count is a uint32_t that the systick interrupt        *)
(* increments every millisecond; it starts again at zero after about 50    *)
(* days.  The modules remember when they last did something and ask        *)
(* FC_elapsed_millis how long ago that was.  The answer must not depend on *)
(* whether the counter wrapped in between.                                 *)
(***************************************************************************)
EXTENDS Integers

CONSTANTS Period,  \* number of values of the counter: 2^32 in the code
          Stamp    \* the time stamps that modules keep, by name

ASSUME PeriodAssumption == Period \in Nat /\ Period > 1

VARIABLES FC_systick_millis_count,
          timestamp,      \* the value of each time stamp
          ticks           \* history: interrupts since it was taken, up to Period

clock == <<FC_systick_millis_count, timestamp, ticks>>

\* Mutant: a counter of half the width of the time stamps.
NarrowWrap(n) == n % (Period \div 2)

\* uint32_t arithmetic.
Wrap(n) == n % Period

\* Mutant: the wrap-around branch without its + 1.
ElapsedWithoutPlusOne(stamp) ==
    IF FC_systick_millis_count >= stamp
    THEN Wrap(FC_systick_millis_count - stamp)
    ELSE Wrap(Wrap((Period - 1) - stamp) + FC_systick_millis_count)

\* The two branches of the code; 0xFFFFFFFF is Period - 1.
FC_elapsed_millis(stamp) ==
    IF FC_systick_millis_count >= stamp
    THEN Wrap(FC_systick_millis_count - stamp)
    ELSE Wrap(Wrap((Period - 1) - stamp) + FC_systick_millis_count + 1)

\* How long ago a time stamp was taken, as the modules ask.
Elapsed(s) == FC_elapsed_millis(timestamp[s])

ClockInit ==
    /\ FC_systick_millis_count = 0        \* setup_core_system
    /\ timestamp = [s \in Stamp |-> 0]
    /\ ticks = [s \in Stamp |-> 0]

\* The interrupt.
Systick ==
    /\ FC_systick_millis_count' = Wrap(FC_systick_millis_count + 1)
    /\ ticks' = [s \in Stamp |-> IF ticks[s] < Period THEN ticks[s] + 1 ELSE Period]
    /\ UNCHANGED timestamp

\* A module remembers the time: last_time = FC_time_now().
TakeStamp(s) ==
    /\ timestamp' = [timestamp EXCEPT ![s] = FC_systick_millis_count]
    /\ ticks' = [ticks EXCEPT ![s] = 0]
    /\ UNCHANGED FC_systick_millis_count

ClockNext == Systick \/ \E s \in Stamp : TakeStamp(s)

ClockSpec == ClockInit /\ [][ClockNext]_clock
-----------------------------------------------------------------------------
\* The counter and every stamp taken from it are uint32_t values.
ClockTypeOK ==
    /\ FC_systick_millis_count \in 0 .. Period - 1
    /\ timestamp \in [Stamp -> 0 .. Period - 1]
    /\ ticks \in [Stamp -> 0 .. Period]

\* The elapsed time that FC_elapsed_millis returns is the number of interrupts
\* since the stamp was taken, wherever the counter has wrapped meanwhile
\* (FC_elapsed_millis, src/src/kernel.cpp:17-25).  Only a stamp that is a whole
\* period old (50 days) cannot be told from a fresh one.
ElapsedIsTicks ==
    \A s \in Stamp : ticks[s] < Period => FC_elapsed_millis(timestamp[s]) = ticks[s]

\* What the proof of ElapsedIsTicks needs: the counter is the stamp plus the
\* interrupts since, less one period once it has wrapped.
CounterFollowsStamp ==
    \A s \in Stamp : ticks[s] < Period =>
        FC_systick_millis_count =
            IF timestamp[s] + ticks[s] < Period
            THEN timestamp[s] + ticks[s]
            ELSE timestamp[s] + ticks[s] - Period

ClockInv == ClockTypeOK /\ CounterFollowsStamp
=============================================================================
