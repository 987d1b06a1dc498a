-------------------------------- MODULE Gps --------------------------------
(***************************************************************************)
(* The simulated GPS receiver (src/src/dummy_gps.cpp).  Its interrupt      *)
(* works out on every tick what is due and schedules run as long as        *)
(* anything is, so several run tasks may be waiting for one cause.         *)
(***************************************************************************)
EXTENDS Clock, Scheduler

CONSTANTS UpdatePeriod,     \* ticks between two updates: 200 (5 Hz)
          TelemetryPeriod,  \* ticks between two telemetry messages
          LockAfter         \* ticks after which a lock is acquired: 5000

VARIABLES gps_runlevel,            \* runlevel_
          flag_state_change, flag_update_pending, flag_telemetry_pending,
          status_lock,
          gps_reports              \* history: the state changes sent to the log

gps == <<gps_runlevel, flag_state_change, flag_update_pending,
         flag_telemetry_pending, status_lock, gps_reports>>

GpsStamps  == {"startup_time", "last_update", "last_telemetry"}
GpsEntries == {"run"}

GpsInit ==
    /\ gps_runlevel = "operational"
    /\ flag_state_change = TRUE
    /\ flag_update_pending = FALSE
    /\ flag_telemetry_pending = FALSE
    /\ status_lock = FALSE
    /\ gps_reports = <<>>

\* DummyGPS::interrupt(), after the counter has been incremented.
GpsInterrupt ==
    /\ flag_update_pending' = (Elapsed("last_update")' >= UpdatePeriod)
    /\ flag_telemetry_pending' = (Elapsed("last_telemetry")' >= TelemetryPeriod)
    /\ UNCHANGED <<gps_runlevel, flag_state_change, status_lock, gps_reports>>

GpsRequests ==
    IF flag_state_change \/ flag_update_pending \/ flag_telemetry_pending
    THEN <<"run">> ELSE <<>>

\* run(): is an update of the position due?
Update ==
    /\ at = "run"
    /\ GoTo(IF flag_update_pending THEN "stamp_update" ELSE "telemetry")
    /\ UNCHANGED <<clock, gps>>

\* Mutant: the flag is lowered before the time is taken.
StampUpdateLast ==
    \/ /\ at = "stamp_update"
       /\ flag_update_pending' = FALSE
       /\ GoTo("clear_update")
       /\ UNCHANGED <<clock, gps_runlevel, flag_state_change,
                      flag_telemetry_pending, status_lock, gps_reports>>
    \/ /\ at = "clear_update"
       /\ TakeStamp("last_update")
       /\ GoTo("telemetry")
       /\ UNCHANGED gps

\* The position has moved: last_update is taken, then the flag lowered.
StampUpdate ==
    \/ /\ at = "stamp_update"
       /\ TakeStamp("last_update")
       /\ GoTo("clear_update")
       /\ UNCHANGED gps
    \/ /\ at = "clear_update"
       /\ flag_update_pending' = FALSE
       /\ GoTo("telemetry")
       /\ UNCHANGED <<clock, gps_runlevel, flag_state_change,
                      flag_telemetry_pending, status_lock, gps_reports>>

Telemetry ==
    /\ at = "telemetry"
    /\ GoTo(IF flag_telemetry_pending THEN "stamp_telemetry" ELSE "lock")
    /\ UNCHANGED <<clock, gps>>

\* The three telemetry messages are out: the same for last_telemetry.
StampTelemetry ==
    \/ /\ at = "stamp_telemetry"
       /\ TakeStamp("last_telemetry")
       /\ GoTo("clear_telemetry")
       /\ UNCHANGED gps
    \/ /\ at = "clear_telemetry"
       /\ flag_telemetry_pending' = FALSE
       /\ GoTo("lock")
       /\ UNCHANGED <<clock, gps_runlevel, flag_state_change,
                      flag_update_pending, status_lock, gps_reports>>

\* Mutant: the lock raises the flag on every run.
LockAgain ==
    /\ at = "lock"
    /\ IF Elapsed("startup_time") > LockAfter
       THEN /\ status_lock' = TRUE
            /\ flag_state_change' = TRUE
            /\ gps_runlevel' = "operational"
       ELSE UNCHANGED <<status_lock, flag_state_change, gps_runlevel>>
    /\ GoTo("report")
    /\ UNCHANGED <<clock, flag_update_pending, flag_telemetry_pending, gps_reports>>

\* A lock is acquired once the receiver has been up for long enough.
Lock ==
    /\ at = "lock"
    /\ IF ~status_lock /\ Elapsed("startup_time") > LockAfter
       THEN /\ status_lock' = TRUE
            /\ flag_state_change' = TRUE
            /\ gps_runlevel' = "operational"
       ELSE UNCHANGED <<status_lock, flag_state_change, gps_runlevel>>
    /\ GoTo("report")
    /\ UNCHANGED <<clock, flag_update_pending, flag_telemetry_pending, gps_reports>>

\* A change of state is sent to the log.
ReportState ==
    /\ at = "report"
    /\ IF flag_state_change
       THEN /\ gps_runlevel' = IF status_lock THEN "link_open" ELSE "operational"
            /\ gps_reports' = Append(gps_reports, IF status_lock THEN "acquired lock"
                                                  ELSE "up and running")
       ELSE UNCHANGED <<gps_runlevel, gps_reports>>
    /\ flag_state_change' = FALSE
    /\ Return
    /\ UNCHANGED <<clock, flag_update_pending, flag_telemetry_pending, status_lock>>

GpsTask == Update \/ StampUpdate \/ Telemetry \/ StampTelemetry \/ Lock \/ ReportState
-----------------------------------------------------------------------------
\* However late run is and however often it was scheduled for one cause, the
\* position moves, and telemetry is sent, only when the period has passed since
\* the time before: the interrupt cannot raise a flag again between the two
\* assignments of run (dummy_gps.cpp:74-75, 93-94).
GpsKeepsItsRate ==
    /\ at = "stamp_update"    => ticks["last_update"] >= UpdatePeriod
    /\ at = "stamp_telemetry" => ticks["last_telemetry"] >= TelemetryPeriod

\* Each change of state is sent once, in order; the run level is that of the
\* last one, outside run.  The lock can come before the first report if the
\* set-up of the modules took that long.
StateReportedOnce ==
    /\ gps_reports \in {<<>>, <<"up and running">>, <<"acquired lock">>,
                        <<"up and running", "acquired lock">>}
    /\ at = "kernel" => (gps_runlevel = "link_open" <=> status_lock)

\* A flag is up only when its period has passed; between the two assignments of run
\* the interrupt may find it up, or put it up, for the time that was just taken.
FlagsAreDue ==
    /\ flag_update_pending /\ at # "clear_update"
           => ticks["last_update"] >= UpdatePeriod
    /\ flag_telemetry_pending /\ at # "clear_telemetry"
           => ticks["last_telemetry"] >= TelemetryPeriod

\* What was reported follows from the lock and the flag; the lock raises the flag for
\* the report behind it.
ReportsFollowLock ==
    /\ {status_lock, flag_state_change} \subseteq BOOLEAN
    /\ ~status_lock =>
           /\ gps_runlevel = "operational"
           /\ gps_reports = IF flag_state_change THEN <<>> ELSE <<"up and running">>
    /\ status_lock /\ flag_state_change =>
           /\ at = "report"
           /\ gps_reports \in {<<>>, <<"up and running">>}
    /\ status_lock /\ ~flag_state_change =>
           /\ gps_runlevel = "link_open"
           /\ gps_reports \in {<<"acquired lock">>, <<"up and running", "acquired lock">>}

GpsInv == FlagsAreDue /\ GpsKeepsItsRate /\ ReportsFollowLock
=============================================================================
