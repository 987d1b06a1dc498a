------------------------------- MODULE System -------------------------------
(***************************************************************************)
(* The motion sensor and the display, wired by two streams, as             *)
(* src/src/system.cpp builds them: their interrupts run one after the      *)
(* other on every tick, their tasks share the kernel's list, and the       *)
(* display fetches in its interrupt what the tasks of the sensor push.     *)
(***************************************************************************)
EXTENDS Motion, Display

\* The display is all the others there are for the sensor.
ASSUME SystemAssumption ==
    /\ OtherNames = DisplayEntries
    /\ {<<>>, <<"redraw">>} \subseteq Others

vars == <<scheduling, imu, stream, display>>

Init == MotionInit /\ StreamInit /\ DisplayInit

\* One millisecond; the display comes before the sensor in the module list.
Tick ==
    /\ at \notin {"setup", "set up"}
    /\ lag < MaxLag
    /\ DisplayInterrupt
    /\ ImuInterrupt
    /\ Enlist(DisplayRequests \o ImuRequests, ImuEntries \union DisplayEntries)

\* The stream that this half of the sensor's loop sends.
Sending == IF query_state = 3 THEN "ahrs" ELSE "gyro"

\* transmit() to every receiver in turn.
Transmit ==
    /\ at = "transmit"
    /\ \/ (BeginTransmit \/ PushBack(Sending)) /\ UNCHANGED <<scheduling, imu>>
       \/ EndTransmit /\ Sent
    /\ UNCHANGED display

Task ==
    \/ Dispatch /\ UNCHANGED <<imu, stream, display>>
    \/ ImuTask /\ UNCHANGED <<stream, display>>
    \/ Transmit
    \/ DisplayTask /\ UNCHANGED <<imu, stream>>

Transfer == Bus /\ UNCHANGED <<stream, display>>

Next == Tick \/ Task \/ Transfer

\* The main context once setup() has got past the loop around begin().
TaskAfterSetup == Task /\ at # "setup"

\* The timer runs and the kernel loop never stops.  Neither does the loop around
\* begin() have to end (motion.cpp:61-66), nor a transfer on the bus.
Spec == /\ Init /\ [][Next]_vars
        /\ WF_vars(Tick) /\ WF_vars(TaskAfterSetup)
-----------------------------------------------------------------------------
\* The composition keeps the sensor's own specification, to which the proof of
\* BusExclusive applies.
ImplementsMotion == MotionSpec

\* Once the sensor is operational, attitude and gyro data are sent again and again
\* although transfers fail or are late and tasks are dropped (motion.cpp:216-349).  The
\* one thing that stops this, and then for good, is a transfer that never ends:
\* read_sensor waits for it without a time-out (motion.cpp:235, 249, 290, 304).  This is
\* about streams whose receivers all exist, other than in system.cpp:137-138.
KeepsMeasuring ==
    \/ []<>(imu_runlevel # "operational")
    \/ <>[]InFlight
    \/ /\ []<>(at = "transmit" /\ query_state = 3)
       /\ []<>(at = "transmit" /\ query_state = 7)
=============================================================================
