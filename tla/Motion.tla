------------------------------- MODULE Motion -------------------------------
(***************************************************************************)
(* The motion sensor (src/src/motion.cpp): it waits until the BNO055 has   *)
(* calibrated itself, then reads quaternion and gyro data in a loop of     *)
(* small steps, one read_sensor task each.                                 *)
(*                                                                         *)
(* Both use the one I2C bus: check_calibration with calls that wait for    *)
(* the end of a transfer (src/lib/bno055.cpp, readReg), read_sensor with   *)
(* transfers that go on in the background (NonBlockingRead).  To read, the *)
(* register's address is written first; the sensor then sends what its     *)
(* pointer is at and moves the pointer on.                                 *)
(*                                                                         *)
(* cycle_count, which only decides about a warning, is left out.           *)
(***************************************************************************)
EXTENDS Scheduler

CONSTANTS CalibPeriod,  \* ticks between two looks at the calibration: 1000
          OtherNames,   \* the tasks of the other modules,
          Others,       \* and what these may schedule in one tick
          Faults        \* the transfers that may fail: "write", "read", "check"

VARIABLES imu_runlevel, \* runlevel_
          query_state,
          calib_age,    \* FC_elapsed_millis(last_calib_check), up to CalibPeriod + 1
          bus,          \* "idle", the transfer in the background, or "hung":
                        \* a transfer for which a waiting call gave up waiting
          pointer,      \* the register the sensor would send next
          received,     \* what the last read brought: a register, or "short"
          sample,       \* history: the register the data to be sent came from
          errors        \* history: "address", the sensor did not get the address
                        \* they are at; "reported", a size mismatch was reported

imu == <<imu_runlevel, query_state, calib_age, bus, pointer, received, sample, errors>>

ImuEntries == {"check_calibration", "read_sensor"}
Internal   == {"setup", "set up", "check", "transmit"}
ImuSteps   == Internal \union ImuEntries
TaskNames  == ImuEntries \union OtherNames
Registers  == {"quaternion", "gyro", "calibration", "elsewhere"}

ASSUME MotionAssumption ==
    /\ CalibPeriod \in Nat
    /\ OtherNames \intersect ImuSteps = {}
    /\ Others \subseteq Seq(OtherNames)

\* A transfer in the background is going on.
InFlight == bus \in {"write", "read"}

\* NonBlockingRead_finished()
Finished == ~InFlight /\ bus # "hung"

\* The register this half of the loop is about.
Wanted == IF query_state < 4 THEN "quaternion" ELSE "gyro"

ImuInit ==
    /\ imu_runlevel = "stop"
    /\ query_state = 0
    /\ calib_age = 0
    /\ bus = "idle"
    /\ pointer = "elsewhere"
    /\ received = "short"
    /\ sample = "old"
    /\ errors = {}
-----------------------------------------------------------------------------
(* check_calibration()                                                     *)

\* getCalibrationStatus(): the call waits until the bus is free again.  If the
\* transfer fails, the value is whatever the memory held; if it takes longer
\* than 200 ms, the call gives up and leaves the bus as it is.  A hung transfer is
\* aborted by the next one, which is not carried out.
ReadCalibration ==
    IF bus # "idle"
    THEN bus' = "idle" /\ UNCHANGED pointer
    ELSE \/ bus' = "idle" /\ pointer' = "elsewhere"
         \/ "check" \in Faults /\ bus' \in {"idle", "hung"} /\ UNCHANGED pointer

\* The check_calibration of setup(), which overwrites the run level that it sets.
\* It comes when begin() has succeeded, which is tried again for ever
\* (motion.cpp:61-66): nothing says that this step is ever taken.
SetupCheck ==
    /\ at = "setup"
    /\ ReadCalibration
    /\ imu_runlevel' \in {"stop", "operational"}
    /\ GoTo("set up")
    /\ UNCHANGED <<query_state, calib_age, received, sample, errors>>

\* The end of setup(): the module is in the module list, the interrupts start.
SetupEnd ==
    /\ at = "set up"
    /\ imu_runlevel' = "setup_ok"
    /\ pointer' = "elsewhere"
    /\ bus' = "idle"
    /\ GoTo("kernel")
    /\ UNCHANGED <<query_state, calib_age, received, sample, errors>>

\* The time is noted first: no further check is scheduled from here on.
CheckStart ==
    /\ at = "check_calibration"
    /\ calib_age' = 0
    /\ GoTo("check")
    /\ UNCHANGED <<imu_runlevel, query_state, bus, pointer, received, sample, errors>>

CheckEnd ==
    /\ at = "check"
    /\ ReadCalibration
    /\ imu_runlevel' \in {imu_runlevel, "operational"}
    /\ Return
    /\ UNCHANGED <<query_state, calib_age, received, sample, errors>>
-----------------------------------------------------------------------------
(* read_sensor()                                                           *)

\* NonBlockingRead_init(): the address of the register is sent.  A transfer that
\* is still going on is aborted, and this one not carried out.
ReadInit ==
    /\ at = "read_sensor"
    /\ query_state \in {0, 4}
    /\ IF bus = "idle"
       THEN bus' = "write" /\ errors' = {}
       ELSE bus' = "idle" /\ errors' = {"address"}
    /\ query_state' = query_state + 1
    /\ sample' = "old"
    /\ Return
    /\ UNCHANGED <<imu_runlevel, calib_age, pointer, received>>

\* Mutant: the data are requested without waiting for the address.
RequestAtOnce ==
    /\ at = "read_sensor"
    /\ query_state \in {1, 5}
    /\ bus' = "read"
    /\ query_state' = query_state + 1
    /\ Return
    /\ UNCHANGED <<imu_runlevel, calib_age, pointer, received, sample, errors>>

\* NonBlockingRead_request(), once the address is out.
ReadRequest ==
    /\ at = "read_sensor"
    /\ query_state \in {1, 5}
    /\ IF Finished
       THEN bus' = "read" /\ query_state' = query_state + 1
       ELSE UNCHANGED <<bus, query_state>>
    /\ Return
    /\ UNCHANGED <<imu_runlevel, calib_age, pointer, received, sample, errors>>

\* Mutant: the data are taken without waiting for them.
FetchAtOnce ==
    /\ at = "read_sensor"
    /\ query_state \in {2, 6}
    /\ query_state' = query_state + 1
    /\ sample' = received
    /\ Return
    /\ UNCHANGED <<imu_runlevel, calib_age, bus, pointer, received, errors>>

\* The data are copied if there are enough of them; otherwise this is reported
\* and the data of an earlier loop used.
ReadFetch ==
    /\ at = "read_sensor"
    /\ query_state \in {2, 6}
    /\ IF Finished
       THEN /\ query_state' = query_state + 1
            /\ IF received # "short"
               THEN sample' = received /\ UNCHANGED errors
               ELSE errors' = errors \union {"reported"} /\ UNCHANGED sample
       ELSE UNCHANGED <<query_state, sample, errors>>
    /\ Return
    /\ UNCHANGED <<imu_runlevel, calib_age, bus, pointer, received>>

\* AHRS_out.transmit(data), GYRO_out.transmit(data)
Send ==
    /\ at = "read_sensor"
    /\ query_state \in {3, 7}
    /\ GoTo("transmit")
    /\ UNCHANGED imu

Sent ==
    /\ at = "transmit"
    /\ query_state' = query_state + 1
    /\ Return
    /\ UNCHANGED <<imu_runlevel, calib_age, bus, pointer, received, sample, errors>>

\* Mutant: the loop is not closed.
CloseLate ==
    /\ at = "read_sensor"
    /\ query_state \in {8, 9}
    /\ query_state' = 9
    /\ Return
    /\ UNCHANGED <<imu_runlevel, calib_age, bus, pointer, received, sample, errors>>

\* Two steps in which the length of the loop is judged.
CloseLoop ==
    /\ at = "read_sensor"
    /\ query_state \in {8, 9}
    /\ query_state' = IF query_state = 9 THEN 0 ELSE query_state + 1
    /\ Return
    /\ UNCHANGED <<imu_runlevel, calib_age, bus, pointer, received, sample, errors>>

ImuTask ==
    \/ SetupCheck \/ SetupEnd \/ CheckStart \/ CheckEnd \/ ReadInit \/ ReadRequest
    \/ ReadFetch \/ Send \/ CloseLoop
-----------------------------------------------------------------------------
(* The bus, in the background.  A transfer may also go on for ever: after  *)
(* an error the driver asks for a STOP only while it controls the bus      *)
(* (imx_rt1060_i2c_driver.cpp:228-231 and 371-378), and then nothing but   *)
(* the STOP ends the transfer (235-238).  No step here is assumed to come. *)

\* The address has been sent, or the sensor did not acknowledge it.
WriteEnds ==
    /\ bus = "write"
    /\ bus' = "idle"
    /\ \/ pointer' = Wanted /\ UNCHANGED errors
       \/ "write" \in Faults /\ errors' = errors \union {"address"} /\ UNCHANGED pointer
    /\ UNCHANGED <<scheduling, imu_runlevel, query_state, calib_age, received, sample>>

\* The data have come, or not all of them.
ReadEnds ==
    /\ bus = "read"
    /\ bus' = "idle"
    /\ \/ received' = pointer /\ pointer' = "elsewhere"
       \/ "read" \in Faults /\ received' = "short" /\ pointer' \in {pointer, "elsewhere"}
    /\ UNCHANGED <<scheduling, imu_runlevel, query_state, calib_age, sample, errors>>

Bus == WriteEnds \/ ReadEnds
-----------------------------------------------------------------------------
(* MotionSensor::interrupt()                                               *)

CalibAge == IF calib_age > CalibPeriod THEN calib_age ELSE calib_age + 1

ImuInterrupt ==
    /\ calib_age' = CalibAge
    /\ UNCHANGED <<imu_runlevel, query_state, bus, pointer, received, sample, errors>>

\* Mutant: the calibration is looked at in any run level.
RequestsWithoutElse ==
    (IF imu_runlevel = "operational" THEN <<"read_sensor">> ELSE <<>>)
    \o (IF CalibAge > CalibPeriod THEN <<"check_calibration">> ELSE <<>>)

ImuRequests ==
    IF imu_runlevel = "operational" THEN <<"read_sensor">>
    ELSE IF imu_runlevel = "setup_ok" /\ CalibAge > CalibPeriod
    THEN <<"check_calibration">> ELSE <<>>
-----------------------------------------------------------------------------
(* The module among others that share the task list with it.               *)

MotionInit == /\ tasks = <<>> /\ at = "setup" /\ lag = 0 /\ drops = 0
              /\ ImuInit

MotionTick ==
    /\ at \notin {"setup", "set up"}
    /\ ImuInterrupt
    /\ UNCHANGED at
    /\ \/ \E o \in Others : tasks' = tasks \o (o \o ImuRequests)
       \/ UNCHANGED tasks

\* A task of another module.
OtherTask ==
    /\ at \notin ImuSteps \union {"kernel"}
    /\ at' \notin ImuSteps
    /\ UNCHANGED <<tasks, imu>>

MotionNext ==
    \/ MotionTick
    \/ Dispatch /\ UNCHANGED imu
    \/ ImuTask
    \/ Sent
    \/ Bus
    \/ OtherTask

motionVars == <<tasks, at, imu>>

MotionSpec == MotionInit /\ [][MotionNext]_motionVars
-----------------------------------------------------------------------------
\* Neither a waiting call nor a new read comes while a transfer of read_sensor is
\* going on, which it would cut off: although check_calibration is scheduled on
\* every tick until it has run, all of these tasks come before the first
\* read_sensor (motion.cpp:164-196 and 226, 281).
BusExclusive ==
    /\ at \in {"check", "check_calibration"} => ~InFlight
    /\ at = "read_sensor" /\ query_state \in {0, 4} => ~InFlight

\* What the proof of BusExclusive needs: the tasks of the two phases do not mix.
Checks == {i \in DOMAIN tasks : tasks[i] = "check_calibration"}
Reads  == {i \in DOMAIN tasks : tasks[i] = "read_sensor"}

Reading == query_state # 0 \/ InFlight \/ at \in {"read_sensor", "transmit"}

ChecksBeforeReads == \A i \in Checks, j \in Reads : i < j

PhasesApart ==
    /\ imu_runlevel # "operational" \/ at \in {"setup", "set up"} =>
           Reads = {} /\ ~Reading
    /\ at \in {"setup", "set up"} => Checks = {}
    /\ Reading => Checks = {}
    /\ at \in {"check", "check_calibration"} => ~Reading

BusInUse ==
    /\ InFlight => query_state \in {1, 2, 5, 6}
    /\ at = "transmit" => query_state \in {3, 7}

MotionTypeOK ==
    /\ tasks \in Seq(TaskNames)
    /\ query_state \in 0 .. 9

BusInv == MotionTypeOK /\ ChecksBeforeReads /\ PhasesApart /\ BusInUse

\* The data of this half of the loop come from the register they are taken for.
Genuine == sample = Wanted

\* "In case of errors tasks are scheduled to do the reporting." (motion.h:60)
ErrorsReported == at = "transmit" => Genuine \/ "reported" \in errors

\* The one error that goes unnoticed is that of the address (motion.cpp:235 asks
\* whether the transfer has finished, not how): if the sensor did get it, what is
\* sent are the data at this address, or a size mismatch has been reported.
OnlyAddressErrorsUnnoticed ==
    at = "transmit" => Genuine \/ errors # {}

\* What its proof needs: a transfer belongs to its steps of the loop, and unless there
\* was an error, what is wanted is at the pointer, then received, then the sample.
LoopTraced ==
    /\ bus = "write" => query_state \in {1, 5}
    /\ bus = "read" => query_state \in {2, 6}
    /\ errors = {} =>
          /\ query_state \in {1, 5} => bus = "write" \/ pointer = Wanted
          /\ query_state \in {2, 6} =>
                IF bus = "read" THEN pointer = Wanted ELSE received \in {Wanted, "short"}
          /\ query_state \in {3, 7} => Genuine

MotionInv == BusInv /\ LoopTraced
=============================================================================
