------------------------------- MODULE Blink -------------------------------
(***************************************************************************)
(* The blinking LED (src/src/blink.cpp).  The interrupt compares the time  *)
(* since the LED was switched on with the on-time and with the period, and *)
(* schedules switch_off and switch_on on every tick until they have run.   *)
(***************************************************************************)
EXTENDS Clock, Scheduler

CONSTANTS OnTime,        \* ticks the LED stays on: 50
          BlinkPeriod    \* ticks between two flashes: 500 (2 Hz)

VARIABLES led,           \* pin 13 is high
          state_on

blink == <<led, state_on>>

BlinkStamps  == {"last_on_time"}
BlinkEntries == {"switch_on", "switch_off"}

BlinkInit == led = FALSE /\ state_on = FALSE

\* Blink::interrupt(), after the counter has been incremented.
BlinkRequests ==
    (IF state_on /\ Elapsed("last_on_time") >= OnTime THEN <<"switch_off">> ELSE <<>>)
    \o (IF Elapsed("last_on_time") >= BlinkPeriod THEN <<"switch_on">> ELSE <<>>)

\* Mutant: the LED counts as on before the time is taken.
SwitchOnStampLast ==
    \/ /\ at = "switch_on"
       /\ led' = TRUE
       /\ state_on' = TRUE
       /\ GoTo("lit")
       /\ UNCHANGED clock
    \/ /\ at = "lit"
       /\ TakeStamp("last_on_time")
       /\ Return
       /\ UNCHANGED blink

\* switch_on(): the time is taken, the pin set, the state noted.
SwitchOn ==
    \/ /\ at = "switch_on"
       /\ TakeStamp("last_on_time")
       /\ GoTo("light")
       /\ UNCHANGED blink
    \/ /\ at = "light"
       /\ led' = TRUE
       /\ GoTo("lit")
       /\ UNCHANGED <<clock, state_on>>
    \/ /\ at = "lit"
       /\ state_on' = TRUE
       /\ Return
       /\ UNCHANGED <<clock, led>>

SwitchOff ==
    \/ /\ at = "switch_off"
       /\ led' = FALSE
       /\ GoTo("dark")
       /\ UNCHANGED <<clock, state_on>>
    \/ /\ at = "dark"
       /\ state_on' = FALSE
       /\ Return
       /\ UNCHANGED <<clock, led>>

BlinkTask == SwitchOn \/ SwitchOff
-----------------------------------------------------------------------------
\* No task that was scheduled for the flash before cuts the next one short: the
\* LED goes dark only when it has been on for the on-time (blink.cpp:29, 35-46).
FlashesLongEnough ==
    [][led /\ ~led' => ticks["last_on_time"] >= OnTime]_blink

\* The LED flashes again and again.
KeepsBlinking == []<>led /\ []<>~led
=============================================================================
