------------------------------ MODULE Routine ------------------------------
(***************************************************************************)
(* The modules that follow a schedule of their own, in the systems of the  *)
(* repository that contain them: main (src/src/system.cpp) has the         *)
(* commander and the GPS, system_timing (src/test/system_timing) the LED   *)
(* and the commander, servo_test the servo driver; logfile stands for a    *)
(* system with a file writer, logging for one with a requester.  The other *)
(* modules of these systems appear as the lateness of the tasks.           *)
(*                                                                         *)
(* FC_systick_isr calls the interrupt of every module in the module list;  *)
(* all tasks go through the one task list of the kernel.                   *)
(***************************************************************************)
EXTENDS Gps, Commander, Blink, FileWriter, Servo, Requester

CONSTANT SetupTimes \* ticks the set-up of the system may take

ASSUME RoutineAssumption ==
    /\ SetupTimes \subseteq 0 .. Period - 1
    /\ GpsStamps \union BlinkStamps \union FileStamps \union RequesterStamps \subseteq Stamp
    /\ {UpdatePeriod, TelemetryPeriod, RequestPeriod} \subseteq Nat

VARIABLE built      \* the system that was built; "none" during the set-up

vars == <<clock, scheduling, gps, commander, blink, fileWriter, servo,
          request_pending, built>>

Systems == {"main", "system_timing", "logfile", "servo_test", "logging"}

Entries == GpsEntries \union CommanderEntries \union BlinkEntries
           \union FileEntries \union ServoEntries \union RequesterEntries

Init == /\ built = "none"
        /\ ClockInit
        /\ SchedulerInit
        /\ GpsInit
        /\ CommanderInit
        /\ BlinkInit
        /\ FileInit
        /\ ServoInit
        /\ RequesterInit

\* The modules have been created and are being set up; the clock runs, the module
\* interrupts are not yet called.
SetUp ==
    /\ built = "none"
    /\ \E t \in SetupTimes : FC_systick_millis_count < t
    /\ Systick
    /\ UNCHANGED <<scheduling, gps, commander, blink, fileWriter, servo,
                   request_pending, built>>

\* FC_module_interrupts_activate(): the system is complete.
ActivateInterrupts ==
    /\ built = "none"
    /\ FC_systick_millis_count \in SetupTimes
    /\ built' \in IF file_runlevel = "link_open" \/ inputs # <<"MSG">>
                  THEN {"logfile"} ELSE Systems
    /\ UNCHANGED <<clock, scheduling, gps, commander, blink, fileWriter, servo,
                   request_pending>>

\* What the interrupts schedule, in the order of the module list.
Requests ==
    CASE built = "main"          -> CommanderRequests \o GpsRequests
      [] built = "system_timing" -> BlinkRequests \o CommanderRequests
      [] built = "logfile"       -> FileRequests
      [] built = "servo_test"    -> ServoRequests
      [] built = "logging"       -> RequesterRequests

\* One millisecond: FC_systick_isr with the interrupts of the modules.
Tick ==
    /\ built # "none"
    /\ lag < MaxLag
    /\ Systick
    /\ IF built = "main" THEN GpsInterrupt ELSE UNCHANGED gps
    /\ IF built = "logging" THEN RequesterInterrupt ELSE UNCHANGED request_pending
    /\ UNCHANGED <<commander, blink, fileWriter, servo, built>>
    /\ Enlist(Requests', Entries)

\* The tasks, one step at a time, in the main context.
Task ==
    \/ Dispatch /\ UNCHANGED <<clock, gps, commander, blink, fileWriter, servo,
                              request_pending, built>>
    \/ GpsTask /\ UNCHANGED <<commander, blink, fileWriter, servo, request_pending, built>>
    \/ Activate /\ UNCHANGED <<gps, blink, fileWriter, servo, request_pending, built>>
    \/ BlinkTask /\ UNCHANGED <<gps, commander, fileWriter, servo, request_pending, built>>
    \/ FileTask /\ UNCHANGED <<gps, commander, blink, servo, request_pending, built>>
    \/ HandleMessage /\ UNCHANGED <<gps, commander, blink, fileWriter, request_pending, built>>
    \/ RequesterTask /\ UNCHANGED <<gps, commander, blink, fileWriter, servo, built>>

\* Other modules send messages.
Send ==
    \/ /\ built = "logfile"
       /\ LogMessage
       /\ UNCHANGED <<gps, commander, blink, servo, request_pending, built>>
    \/ /\ built = "servo_test"
       /\ Steer
       /\ UNCHANGED <<gps, commander, blink, fileWriter, request_pending, built>>

Next == SetUp \/ ActivateInterrupts \/ Tick \/ Task \/ Send

\* The systick timer runs and the kernel loop never stops (src/src/kernel.cpp);
\* nothing obliges a module to send a message.
Spec == /\ Init /\ [][Next]_vars
        /\ WF_vars(SetUp \/ ActivateInterrupts) /\ WF_vars(Tick) /\ WF_vars(Task)
-----------------------------------------------------------------------------
\* Late and repeated tasks do not make the simulated GPS or the requester work
\* faster than their periods allow (dummy_gps.cpp:34-45, logger.cpp:48-54).
RatesKept == GpsKeepsItsRate /\ RequesterKeepsItsRate

\* Although the list may drop tasks: the commander takes command for good, the
\* GPS acquires its lock for good and goes on measuring, the LED keeps blinking, the
\* requester sends its messages (commander.cpp:34, dummy_gps.cpp:97, blink.cpp:31,
\* logger.cpp:52).
WorkGetsDone ==
    /\ <>(built \in {"main", "system_timing"})
           => <>[](com_runlevel = "pilot in command")
    /\ <>(built = "main")
           => <>[](gps_runlevel = "link_open") /\ []<>(at = "stamp_update")
    /\ <>(built = "system_timing") => KeepsBlinking
    /\ <>(built = "logging") => []<>(at = "answer")

\* A log file and the servos take all that is sent to them (file_writer.cpp:36,
\* servo.cpp:40).
MessagesGetHandled ==
    /\ FileReachesCard
    /\ ServoHandlesAll

\* The inductive invariant: the task list holds entries of modules only, and each
\* module keeps its own.
RoutineInv ==
    /\ built \in Systems \union {"none"}
    /\ tasks \in Seq(Entries)
    /\ ClockInv
    /\ GpsInv
    /\ RequesterInv
    /\ FileInv
    /\ ServoInv
=============================================================================
