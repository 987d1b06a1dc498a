--------------------------- MODULE RoutineProofs ---------------------------
(***************************************************************************)
(* The modules with a schedule of their own, for any periods, lateness and *)
(* number of drops: time stamps survive the wrap-around of the millisecond *)
(* counter, whatever its width; hence no flag is raised before its period  *)
(* has passed; state changes, log files and servos follow what was sent,   *)
(* and no flash of the LED is cut short.                                   *)
(***************************************************************************)
EXTENDS Routine, SeqLemmas

\* Adding one to a counter value either stays below Period or starts at zero.
LEMMA WrapSuccessor ==
    ASSUME NEW n \in 0 .. Period - 1
    PROVE  Wrap(n + 1) = IF n = Period - 1 THEN 0 ELSE n + 1
<1> USE PeriodAssumption DEF Wrap
<1>1. CASE n = Period - 1
  BY <1>1
<1>2. CASE n # Period - 1
  BY <1>2
<1> QED BY <1>1, <1>2

\* A value that is already below Period is left alone.
LEMMA WrapSmall ==
    ASSUME NEW n \in 0 .. Period - 1
    PROVE  Wrap(n) = n
BY PeriodAssumption DEF Wrap

\* The interrupt keeps the counter at its distance from every stamp.
LEMMA SystickKeepsInv ==
    ASSUME ClockInv, Systick PROVE ClockInv'
<1> USE PeriodAssumption DEF ClockInv, ClockTypeOK
<1>1. FC_systick_millis_count' = IF FC_systick_millis_count = Period - 1
                                 THEN 0 ELSE FC_systick_millis_count + 1
  BY WrapSuccessor DEF Systick
<1>2. timestamp' = timestamp
  BY DEF Systick
<1>3. ASSUME NEW s \in Stamp
      PROVE  /\ ticks'[s] = IF ticks[s] < Period THEN ticks[s] + 1 ELSE Period
             /\ ticks[s] \in 0 .. Period
             /\ timestamp[s] \in 0 .. Period - 1
  BY DEF Systick
<1>4. ClockTypeOK'
  BY <1>1, <1>2 DEF Systick
<1>5. CounterFollowsStamp'
  <2> SUFFICES ASSUME NEW s \in Stamp, ticks'[s] < Period
               PROVE  FC_systick_millis_count' =
                          IF timestamp[s] + ticks'[s] < Period
                          THEN timestamp[s] + ticks'[s]
                          ELSE timestamp[s] + ticks'[s] - Period
    BY <1>2 DEF CounterFollowsStamp
  <2>1. ticks[s] < Period /\ ticks'[s] = ticks[s] + 1
    BY <1>3
  <2>2. FC_systick_millis_count = IF timestamp[s] + ticks[s] < Period
                                  THEN timestamp[s] + ticks[s]
                                  ELSE timestamp[s] + ticks[s] - Period
    BY <2>1 DEF CounterFollowsStamp
  <2> QED BY <1>1, <1>3, <2>1, <2>2
<1> QED BY <1>4, <1>5

\* A fresh stamp is the counter itself; the other stamps are left alone.
LEMMA TakeStampKeepsInv ==
    ASSUME ClockInv, NEW s \in Stamp, TakeStamp(s) PROVE ClockInv'
<1> USE PeriodAssumption DEF ClockInv, ClockTypeOK
<1>1. ClockTypeOK'
  BY DEF TakeStamp
<1>2. ASSUME NEW r \in Stamp, ticks'[r] < Period
      PROVE  FC_systick_millis_count =
                 IF timestamp'[r] + ticks'[r] < Period
                 THEN timestamp'[r] + ticks'[r]
                 ELSE timestamp'[r] + ticks'[r] - Period
  <2>1. CASE r = s
    BY <2>1 DEF TakeStamp
  <2>2. CASE r # s
    <3>1. timestamp'[r] = timestamp[r] /\ ticks'[r] = ticks[r]
      BY <2>2 DEF TakeStamp
    <3> QED BY <1>2, <3>1 DEF CounterFollowsStamp
  <2> QED BY <2>1, <2>2
<1>3. CounterFollowsStamp'
  BY <1>2 DEF CounterFollowsStamp, TakeStamp
<1> QED BY <1>1, <1>3

LEMMA ClockStepKeepsInv == ClockInv /\ [ClockNext]_clock => ClockInv'
<1> SUFFICES ASSUME ClockInv, [ClockNext]_clock PROVE ClockInv'
  OBVIOUS
<1>1. CASE Systick
  BY <1>1, SystickKeepsInv
<1>2. CASE \E s \in Stamp : TakeStamp(s)
  BY <1>2, TakeStampKeepsInv
<1>3. CASE UNCHANGED clock
  BY <1>3 DEF clock, ClockInv, ClockTypeOK, CounterFollowsStamp
<1> QED BY <1>1, <1>2, <1>3 DEF ClockNext

\* The counter is always any stamp plus the interrupts since, modulo Period
\* (FC_systick_isr and the time stamps of the modules).
THEOREM ClockInvariant == ClockSpec => []ClockInv
<1>1. ClockInit => ClockInv
  BY PeriodAssumption
     DEF ClockInit, ClockInv, ClockTypeOK, CounterFollowsStamp
<1> QED BY <1>1, ClockStepKeepsInv, PTL DEF ClockSpec

\* Both branches of FC_elapsed_millis count the interrupts since the stamp was taken.
LEMMA ElapsedRight == ClockInv => ElapsedIsTicks
<1> SUFFICES ASSUME ClockInv, NEW s \in Stamp, ticks[s] < Period
             PROVE  FC_elapsed_millis(timestamp[s]) = ticks[s]
  BY DEF ElapsedIsTicks
<1> DEFINE stamp == timestamp[s]
<1> DEFINE count == FC_systick_millis_count
<1>1. /\ stamp \in 0 .. Period - 1 /\ count \in 0 .. Period - 1
      /\ ticks[s] \in 0 .. Period - 1
      /\ count = IF stamp + ticks[s] < Period THEN stamp + ticks[s]
                 ELSE stamp + ticks[s] - Period
  BY PeriodAssumption DEF ClockInv, ClockTypeOK, CounterFollowsStamp
<1>2. FC_elapsed_millis(stamp) =
          IF count >= stamp THEN Wrap(count - stamp)
          ELSE Wrap(Wrap((Period - 1) - stamp) + count + 1)
  BY DEF FC_elapsed_millis
<1> HIDE DEF stamp, count
<1> USE PeriodAssumption
<1>3. CASE count >= stamp
  <2>1. count - stamp = ticks[s]
    BY <1>1, <1>3
  <2> QED BY <1>1, <1>2, <1>3, <2>1, WrapSmall DEF stamp
<1>4. CASE ~(count >= stamp)
  <2>1. /\ (Period - 1) - stamp \in 0 .. Period - 1
        /\ ((Period - 1) - stamp) + count + 1 = ticks[s]
    BY <1>1, <1>4
  <2>2. Wrap((Period - 1) - stamp) = (Period - 1) - stamp
    BY <2>1, WrapSmall
  <2>3. Wrap(Wrap((Period - 1) - stamp) + count + 1) = ticks[s]
    BY <1>1, <2>1, <2>2, WrapSmall
  <2> QED BY <1>2, <1>4, <2>3 DEF stamp
<1> QED BY <1>3, <1>4

\* FC_elapsed_millis returns the number of interrupts since the time stamp was
\* taken, whichever of its branches runs (src/src/kernel.cpp:17-25).
THEOREM ElapsedCorrect == ClockSpec => []ElapsedIsTicks
BY ClockInvariant, ElapsedRight, PTL
-----------------------------------------------------------------------------
\* The clock in the system: every step is one of the clock or leaves it alone.
LEMMA StepsClock == [Next]_vars => [ClockNext]_clock
<1> SUFFICES ASSUME [Next]_vars PROVE ClockNext \/ UNCHANGED clock
  OBVIOUS
<1> USE RoutineAssumption DEF GpsStamps, BlinkStamps, FileStamps, RequesterStamps, ClockNext
<1>1. CASE SetUp
  BY <1>1 DEF SetUp
<1>2. CASE ActivateInterrupts
  BY <1>2 DEF ActivateInterrupts
<1>3. CASE Tick
  BY <1>3 DEF Tick
<1>4. CASE Dispatch /\ UNCHANGED <<clock, gps, commander, blink, fileWriter, servo,
                                   request_pending, built>>
  BY <1>4
<1>5. CASE GpsTask
  <2>1. CASE StampUpdate
    <3>1. TakeStamp("last_update") \/ UNCHANGED clock
      BY <2>1 DEF StampUpdate, clock
    <3> QED BY <3>1
  <2>2. CASE StampTelemetry
    <3>1. TakeStamp("last_telemetry") \/ UNCHANGED clock
      BY <2>2 DEF StampTelemetry, clock
    <3> QED BY <3>1
  <2>3. CASE Update \/ Telemetry \/ Lock \/ ReportState
    BY <2>3 DEF Update, Telemetry, Lock, ReportState
  <2> QED BY <1>5, <2>1, <2>2, <2>3 DEF GpsTask
<1>6. CASE Activate
  BY <1>6 DEF Activate
<1>7. CASE BlinkTask
  <2>1. TakeStamp("last_on_time") \/ UNCHANGED clock
    BY <1>7 DEF BlinkTask, SwitchOn, SwitchOff, clock
  <2> QED BY <2>1
<1>8. CASE FileTask
  <2>1. TakeStamp("last_flush") \/ UNCHANGED clock
    BY <1>8 DEF FileTask, Handle, Flush, clock
  <2> QED BY <2>1
<1>9. CASE HandleMessage
  BY <1>9 DEF HandleMessage
<1>10. CASE RequesterTask
  <2>1. TakeStamp("last_request") \/ UNCHANGED clock
    BY <1>10 DEF RequesterTask, Request, Answer, StampRequest, clock
  <2> QED BY <2>1
<1>11. CASE Send
  BY <1>11 DEF Send, LogMessage, Steer
<1>12. CASE UNCHANGED vars
  BY <1>12 DEF vars
<1> QED BY <1>1, <1>2, <1>3, <1>4, <1>5, <1>6, <1>7, <1>8, <1>9, <1>10, <1>11, <1>12
        DEF Next, Task

\* The modules take their stamps from the clock (kernel.cpp:17-25): what is proved of the
\* clock holds in the system.
THEOREM RoutineRefinesClock == Spec => ClockSpec
<1>1. Init => ClockInit
  BY DEF Init
<1> QED BY <1>1, StepsClock, PTL DEF Spec, ClockSpec

\* FC_elapsed_millis is right for every module, whenever it asks.
THEOREM ElapsedCorrectInRoutine == Spec => []ElapsedIsTicks
BY RoutineRefinesClock, ElapsedCorrect, PTL

\* A stamp is at least as old as FC_elapsed_millis says.
NeverTooOld ==
    \A s \in Stamp : {ticks[s], Elapsed(s)} \subseteq Nat /\ ticks[s] >= Elapsed(s)

LEMMA ClockNeverTooOld == ClockInv => NeverTooOld
<1> SUFFICES ASSUME ClockInv, NEW s \in Stamp
             PROVE  {ticks[s], Elapsed(s)} \subseteq Nat /\ ticks[s] >= Elapsed(s)
  BY DEF NeverTooOld
<1> USE PeriodAssumption
<1>1. ticks[s] \in 0 .. Period /\ Elapsed(s) \in 0 .. Period - 1
  BY DEF ClockInv, ClockTypeOK, Elapsed, FC_elapsed_millis, Wrap
<1>2. ticks[s] < Period => Elapsed(s) = ticks[s]
  BY ElapsedRight DEF ElapsedIsTicks, Elapsed
<1> QED BY <1>1, <1>2

\* The next state's clock is in order too, and stamps only grow older with a tick.
LEMMA ClockAges ==
    ASSUME ClockInv, [Next]_vars
    PROVE  /\ ClockInv'
           /\ \A s \in Stamp : /\ {ticks'[s], Elapsed(s)'} \subseteq Nat
                               /\ ticks'[s] >= Elapsed(s)'
           /\ Systick => \A s \in Stamp : ticks'[s] >= ticks[s]
<1>1. ClockInv'
  BY StepsClock, ClockStepKeepsInv
<1>2. NeverTooOld'
  BY <1>1, ClockNeverTooOld, PTL
<1>3. Systick => \A s \in Stamp : ticks'[s] >= ticks[s]
  BY PeriodAssumption DEF Systick, ClockInv, ClockTypeOK
<1> QED BY <1>1, <1>2, <1>3 DEF NeverTooOld
-----------------------------------------------------------------------------
\* What the interrupts schedule are entries of modules.
AskForEntries == built \in Systems => Requests \in Seq(Entries)

LEMMA RequestsAreEntries == AskForEntries
<1>1. {"run", "activate", "switch_on", "switch_off", "handle_MSG", "handle_AHRS",
       "handle_GYRO", "flush", "handle_message", "request"} \subseteq Entries
  BY DEF Entries, GpsEntries, CommanderEntries, BlinkEntries, FileEntries, ServoEntries,
         RequesterEntries
<1> HIDE DEF Entries
<1>2. /\ <<>> \in Seq(Entries)
      /\ \A e \in Entries : <<e>> \in Seq(Entries)
  OBVIOUS
<1>3. /\ GpsRequests \in Seq(Entries) /\ CommanderRequests \in Seq(Entries)
      /\ ServoRequests \in Seq(Entries) /\ RequesterRequests \in Seq(Entries)
  BY <1>1, <1>2 DEF GpsRequests, CommanderRequests, ServoRequests, RequesterRequests
<1>4. BlinkRequests \in Seq(Entries)
  <2> DEFINE off == IF state_on /\ Elapsed("last_on_time") >= OnTime
                    THEN <<"switch_off">> ELSE <<>>
             on  == IF Elapsed("last_on_time") >= BlinkPeriod THEN <<"switch_on">> ELSE <<>>
  <2>1. off \in Seq(Entries) /\ on \in Seq(Entries)
    BY <1>1, <1>2
  <2> HIDE DEF off, on
  <2>2. off \o on \in Seq(Entries)
    BY <2>1, ConcatProperties
  <2> QED BY <2>2 DEF BlinkRequests, off, on
<1>5. FileRequests \in Seq(Entries)
  <2>1. \A p \in {"MSG", "AHRS", "GYRO"} : Handler[p] \in Entries
    BY <1>1 DEF Handler
  <2>2. /\ HandlerRequest("MSG") \in Seq(Entries)
        /\ HandlerRequest("AHRS") \in Seq(Entries)
        /\ HandlerRequest("GYRO") \in Seq(Entries)
    BY <1>2, <2>1 DEF HandlerRequest
  <2>3. FlushRequest \in Seq(Entries)
    BY <1>1, <1>2 DEF FlushRequest
  <2>4. HandlerRequest("MSG") \o HandlerRequest("AHRS") \in Seq(Entries)
    BY <2>2, ConcatProperties
  <2>5. HandlerRequest("MSG") \o HandlerRequest("AHRS") \o HandlerRequest("GYRO")
           \in Seq(Entries)
    BY <2>2, <2>4, ConcatProperties
  <2>6. HandlerRequest("MSG") \o HandlerRequest("AHRS") \o HandlerRequest("GYRO")
           \o FlushRequest \in Seq(Entries)
    BY <2>3, <2>5, ConcatProperties
  <2> QED BY <1>2, <2>6 DEF FileRequests
<1>6. /\ CommanderRequests \o GpsRequests \in Seq(Entries)
      /\ BlinkRequests \o CommanderRequests \in Seq(Entries)
  BY <1>3, <1>4, ConcatProperties
<1> QED BY <1>3, <1>4, <1>5, <1>6 DEF AskForEntries, Requests, Systems

\* So the list holds only entries, and a task starts at one.
LEMMA TaskStartsAtEntry ==
    ASSUME tasks \in Seq(Entries), Dispatch
    PROVE  at' \in Entries /\ tasks' \in Seq(Entries)
<1>1. Head(tasks) \in Entries /\ Tail(tasks) \in Seq(Entries)
  BY TailFacts DEF Dispatch
<1> QED BY <1>1 DEF Dispatch

LEMMA ListHoldsEntries ==
    ASSUME built \in Systems \union {"none"}, tasks \in Seq(Entries), [Next]_vars
    PROVE  built' \in Systems \union {"none"} /\ tasks' \in Seq(Entries)
<1>1. CASE Tick
  <2>1. built' = built /\ built \in Systems
    BY <1>1 DEF Tick
  <2>2. AskForEntries'
    BY RequestsAreEntries, PTL
  <2>3. tasks \o Requests' \in Seq(Entries)
    BY <2>1, <2>2, ConcatProperties DEF AskForEntries
  <2> QED BY <1>1, <2>1, <2>3 DEF Tick, Enlist
<1>2. CASE SetUp \/ ActivateInterrupts
  BY <1>2 DEF SetUp, ActivateInterrupts, Systems, scheduling
<1>3. CASE Dispatch /\ UNCHANGED built
  BY <1>3, TaskStartsAtEntry
<1>4. CASE GpsTask /\ UNCHANGED built
  BY <1>4 DEF GpsTask, Update, StampUpdate, Telemetry, StampTelemetry, Lock,
              ReportState, GoTo, Return
<1>5. CASE (Activate \/ BlinkTask \/ HandleMessage \/ RequesterTask) /\ UNCHANGED built
  BY <1>5 DEF Activate, BlinkTask, SwitchOn, SwitchOff, HandleMessage, RequesterTask,
              Request, Answer, StampRequest, GoTo, Return, scheduling
<1>6. CASE (FileTask \/ Send \/ UNCHANGED vars) /\ UNCHANGED built
  BY <1>6 DEF FileTask, Handle, Flush, Send, LogMessage, Steer, vars, GoTo, Return,
              scheduling
<1> QED BY <1>1, <1>2, <1>3, <1>4, <1>5, <1>6 DEF Next, Task, Send, vars
-----------------------------------------------------------------------------
\* The GPS: its flags and its reports, step by step.
LEMMA GpsStep ==
    ASSUME RoutineInv, [Next]_vars PROVE GpsInv'
<1> USE DEF GpsInv, FlagsAreDue, GpsKeepsItsRate, ReportsFollowLock
<1>0. /\ GpsInv /\ ClockInv /\ tasks \in Seq(Entries)
      /\ {"last_update", "last_telemetry"} \subseteq Stamp
      /\ UpdatePeriod \in Nat /\ TelemetryPeriod \in Nat
  BY RoutineAssumption DEF RoutineInv, GpsStamps
<1>1. /\ ticks["last_update"] \in Nat /\ ticks["last_telemetry"] \in Nat
      /\ \A s \in Stamp : /\ {ticks'[s], Elapsed(s)'} \subseteq Nat
                          /\ ticks'[s] >= Elapsed(s)'
      /\ Systick => \A s \in Stamp : ticks'[s] >= ticks[s]
  BY <1>0, ClockAges, ClockNeverTooOld DEF NeverTooOld
<1> HIDE DEF GpsInv, FlagsAreDue, GpsKeepsItsRate, ReportsFollowLock
<1>2. CASE Systick /\ UNCHANGED <<gps, at>>
  <2>1. /\ ticks'["last_update"] >= ticks["last_update"]
        /\ ticks'["last_telemetry"] >= ticks["last_telemetry"]
    BY <1>0, <1>1, <1>2
  <2>2. FlagsAreDue' /\ GpsKeepsItsRate'
    BY <1>0, <1>1, <1>2, <2>1 DEF gps, GpsInv, FlagsAreDue, GpsKeepsItsRate
  <2> QED BY <1>0, <1>2, <2>2 DEF gps, GpsInv, ReportsFollowLock
<1>3. CASE Systick /\ GpsInterrupt /\ UNCHANGED at
  <2>1. /\ ticks'["last_update"] >= ticks["last_update"]
        /\ ticks'["last_telemetry"] >= ticks["last_telemetry"]
    BY <1>0, <1>1, <1>3
  <2>2. /\ flag_update_pending' <=> Elapsed("last_update")' >= UpdatePeriod
        /\ flag_telemetry_pending' <=> Elapsed("last_telemetry")' >= TelemetryPeriod
    BY <1>3 DEF GpsInterrupt
  <2>3. /\ Elapsed("last_update")' >= UpdatePeriod => ticks'["last_update"] >= UpdatePeriod
        /\ Elapsed("last_telemetry")' >= TelemetryPeriod
               => ticks'["last_telemetry"] >= TelemetryPeriod
    BY <1>0, <1>1
  <2>4. FlagsAreDue' /\ GpsKeepsItsRate'
    BY <1>0, <1>1, <1>3, <2>1, <2>2, <2>3 DEF GpsInv, FlagsAreDue, GpsKeepsItsRate
  <2> QED BY <1>0, <1>3, <2>4 DEF GpsInterrupt, GpsInv, ReportsFollowLock
<1>4. CASE GpsTask
  <2> USE <1>0, <1>1 DEF GpsInv, FlagsAreDue, GpsKeepsItsRate, ReportsFollowLock, GoTo, Return,
          gps, clock
  <2>1. CASE Update
    BY <2>1 DEF Update
  <2>0. ticks \in [Stamp -> 0 .. Period]
    BY DEF ClockInv, ClockTypeOK
  <2>2. CASE StampUpdate
    <3>1. CASE at = "stamp_update"
      <4>1. /\ ticks'["last_telemetry"] = ticks["last_telemetry"]
            /\ at' = "clear_update" /\ UNCHANGED gps
        BY <2>0, <2>2, <3>1 DEF StampUpdate, TakeStamp
      <4> QED BY <3>1, <4>1
    <3>2. CASE at = "clear_update"
      <4>1. /\ flag_update_pending' = FALSE /\ at' = "telemetry"
            /\ UNCHANGED <<ticks, gps_runlevel, flag_state_change, flag_telemetry_pending,
                           status_lock, gps_reports>>
        BY <2>2, <3>2 DEF StampUpdate
      <4>2. ReportsFollowLock'
        BY <3>2, <4>1
      <4>3. FlagsAreDue' /\ GpsKeepsItsRate'
        BY <3>2, <4>1
      <4> QED BY <4>2, <4>3
    <3> QED BY <2>2, <3>1, <3>2 DEF StampUpdate
  <2>3. CASE Telemetry
    BY <2>3 DEF Telemetry
  <2>4. CASE StampTelemetry
    <3>1. CASE at = "stamp_telemetry"
      <4>1. /\ ticks'["last_update"] = ticks["last_update"]
            /\ at' = "clear_telemetry" /\ UNCHANGED gps
        BY <2>0, <2>4, <3>1 DEF StampTelemetry, TakeStamp
      <4> QED BY <3>1, <4>1
    <3>2. CASE at = "clear_telemetry"
      <4>1. /\ flag_telemetry_pending' = FALSE /\ at' = "lock"
            /\ UNCHANGED <<ticks, gps_runlevel, flag_state_change, flag_update_pending,
                           status_lock, gps_reports>>
        BY <2>4, <3>2 DEF StampTelemetry
      <4>2. ReportsFollowLock'
        BY <3>2, <4>1
      <4>3. FlagsAreDue' /\ GpsKeepsItsRate'
        BY <3>2, <4>1
      <4> QED BY <4>2, <4>3
    <3> QED BY <2>4, <3>1, <3>2 DEF StampTelemetry
  <2>5. CASE Lock
    BY <2>5 DEF Lock
  <2>6. CASE ReportState
    <3>1. /\ Append(<<>>, "up and running") = <<"up and running">>
          /\ Append(<<>>, "acquired lock") = <<"acquired lock">>
          /\ Append(<<"up and running">>, "acquired lock")
                = <<"up and running", "acquired lock">>
      BY AppendToFew
    <3>2. FlagsAreDue' /\ GpsKeepsItsRate'
      BY <2>6 DEF ReportState
    <3>3. ReportsFollowLock'
      BY <2>6, <3>1 DEF ReportState
    <3> QED BY <3>2, <3>3
  <2> QED BY <1>4, <2>1, <2>2, <2>3, <2>4, <2>5, <2>6 DEF GpsTask
<1>5. ASSUME UNCHANGED gps,
             \/ UNCHANGED at
             \/ at' \notin {"stamp_update", "clear_update", "stamp_telemetry",
                            "clear_telemetry", "report"}
                /\ at \notin {"clear_update", "clear_telemetry", "report"},
             /\ ticks'["last_update"] = ticks["last_update"]
             /\ ticks'["last_telemetry"] = ticks["last_telemetry"]
      PROVE  GpsInv'
  BY <1>0, <1>5 DEF GpsInv, FlagsAreDue, GpsKeepsItsRate, ReportsFollowLock, gps
<1>6. CASE SetUp \/ Tick
  <2>1. Systick /\ UNCHANGED at /\ (UNCHANGED gps \/ GpsInterrupt)
    BY <1>6 DEF SetUp, Tick, Enlist, scheduling
  <2> QED BY <1>2, <1>3, <2>1
<1>7. CASE Dispatch /\ UNCHANGED <<clock, gps>>
  <2>1. at' \in Entries /\ at = "kernel"
    BY <1>0, <1>7, TaskStartsAtEntry DEF Dispatch
  <2> QED BY <1>5, <1>7, <2>1
          DEF clock, Entries, GpsEntries, CommanderEntries, BlinkEntries, FileEntries,
              ServoEntries, RequesterEntries
<1>8. CASE (Activate \/ HandleMessage) /\ UNCHANGED gps
  BY <1>5, <1>8 DEF Activate, HandleMessage, GoTo, Return, clock, scheduling
<1>9. CASE (BlinkTask \/ FileTask \/ RequesterTask) /\ UNCHANGED gps
  <2>1. /\ ticks'["last_update"] = ticks["last_update"]
        /\ ticks'["last_telemetry"] = ticks["last_telemetry"]
    BY <1>0, <1>9 DEF BlinkTask, SwitchOn, SwitchOff, FileTask, Handle, Flush, RequesterTask,
                Request, Answer, StampRequest, TakeStamp, clock, ClockInv, ClockTypeOK
  <2>2. at \notin {"clear_update", "clear_telemetry", "report"}
        /\ at' \notin {"stamp_update", "clear_update", "stamp_telemetry",
                       "clear_telemetry", "report"}
    <3>1. CASE BlinkTask \/ RequesterTask
      BY <3>1 DEF BlinkTask, SwitchOn, SwitchOff, RequesterTask, Request, Answer,
                  StampRequest, GoTo, Return
    <3>2. CASE FileTask
      BY <3>2 DEF FileTask, Handle, Handler, Flush, GoTo, Return
    <3> QED BY <1>9, <3>1, <3>2
  <2> QED BY <1>5, <1>9, <2>1, <2>2
<1>10. CASE (ActivateInterrupts \/ Send \/ UNCHANGED vars) /\ UNCHANGED gps
  BY <1>5, <1>10 DEF ActivateInterrupts, Send, LogMessage, Steer, vars, clock, scheduling
<1> QED BY <1>4, <1>6, <1>7, <1>8, <1>9, <1>10 DEF Next, Task, Send, ActivateInterrupts, vars
-----------------------------------------------------------------------------
LEMMA RequesterStep ==
    ASSUME RoutineInv, [Next]_vars PROVE RequesterInv'
<1>0. /\ RequesterInv /\ ClockInv /\ tasks \in Seq(Entries)
      /\ "last_request" \in Stamp /\ RequestPeriod \in Nat
      /\ ticks \in [Stamp -> 0 .. Period]
  BY RoutineAssumption DEF RoutineInv, RequesterStamps, ClockInv, ClockTypeOK
<1>1. /\ {ticks["last_request"], ticks'["last_request"], Elapsed("last_request")'} \subseteq Nat
      /\ ticks'["last_request"] >= Elapsed("last_request")'
      /\ Systick => ticks'["last_request"] >= ticks["last_request"]
  BY <1>0, ClockAges, ClockNeverTooOld DEF NeverTooOld
<1>2. CASE SetUp \/ Tick
  <2>1. /\ Systick /\ UNCHANGED at
        /\ UNCHANGED request_pending \/ RequesterInterrupt
    BY <1>2 DEF SetUp, Tick, Enlist, scheduling
  <2>2. CASE UNCHANGED request_pending
    BY <1>0, <1>1, <2>1, <2>2 DEF RequesterInv, RequesterKeepsItsRate
  <2>3. CASE RequesterInterrupt
    <3>1. request_pending' <=> Elapsed("last_request")' >= RequestPeriod
      BY <2>3 DEF RequesterInterrupt
    <3>2. request_pending' => ticks'["last_request"] >= RequestPeriod
      BY <1>0, <1>1, <3>1
    <3> QED BY <1>0, <1>1, <2>1, <3>2 DEF RequesterInv, RequesterKeepsItsRate
  <2> QED BY <2>1, <2>2, <2>3
<1>3. ASSUME UNCHANGED request_pending,
             \/ UNCHANGED at
             \/ at \notin {"answer", "clear_request"} /\ at' \notin {"answer", "clear_request"},
             ticks'["last_request"] = ticks["last_request"]
      PROVE  RequesterInv'
  BY <1>0, <1>3 DEF RequesterInv, RequesterKeepsItsRate
<1>4. CASE RequesterTask
  <2>1. CASE Request \/ Answer
    BY <1>0, <2>1 DEF Request, Answer, GoTo, clock, RequesterInv, RequesterKeepsItsRate
  <2>2. CASE StampRequest
    BY <1>0, <2>2 DEF StampRequest, GoTo, Return, RequesterInv, RequesterKeepsItsRate
  <2> QED BY <1>4, <2>1, <2>2 DEF RequesterTask
<1>5. CASE Dispatch /\ UNCHANGED <<clock, request_pending>>
  <2>1. at' \in Entries /\ at = "kernel"
    BY <1>0, <1>5, TaskStartsAtEntry DEF Dispatch
  <2> QED BY <1>3, <1>5, <2>1
          DEF clock, Entries, GpsEntries, CommanderEntries, BlinkEntries, FileEntries,
              ServoEntries, RequesterEntries
<1>6. CASE (Activate \/ HandleMessage) /\ UNCHANGED request_pending
  BY <1>3, <1>6 DEF Activate, HandleMessage, GoTo, Return, clock, scheduling
<1>7. CASE (GpsTask \/ BlinkTask \/ FileTask) /\ UNCHANGED request_pending
  <2>1. CASE GpsTask
    <3>1. ticks'["last_request"] = ticks["last_request"]
      BY <1>0, <2>1 DEF GpsTask, Update, StampUpdate, Telemetry, StampTelemetry, Lock,
                        ReportState, TakeStamp, clock
    <3> QED BY <1>3, <1>7, <2>1, <3>1
            DEF GpsTask, Update, StampUpdate, Telemetry, StampTelemetry, Lock, ReportState,
                GoTo, Return
  <2>2. CASE BlinkTask
    <3>1. ticks'["last_request"] = ticks["last_request"]
      BY <1>0, <2>2 DEF BlinkTask, SwitchOn, SwitchOff, TakeStamp, clock
    <3> QED BY <1>3, <1>7, <2>2, <3>1 DEF BlinkTask, SwitchOn, SwitchOff, GoTo, Return
  <2>3. CASE FileTask
    <3>1. ticks'["last_request"] = ticks["last_request"]
      BY <1>0, <2>3 DEF FileTask, Handle, Flush, TakeStamp, clock
    <3> QED BY <1>3, <1>7, <2>3, <3>1 DEF FileTask, Handle, Handler, Flush, GoTo, Return
  <2> QED BY <1>7, <2>1, <2>2, <2>3
<1>8. CASE (ActivateInterrupts \/ Send \/ UNCHANGED vars) /\ UNCHANGED request_pending
  BY <1>3, <1>8 DEF ActivateInterrupts, Send, LogMessage, Steer, vars, clock, scheduling
<1> QED BY <1>2, <1>4, <1>5, <1>6, <1>7, <1>8 DEF Next, Task, Send, ActivateInterrupts, vars
-----------------------------------------------------------------------------
LEMMA HandlerFacts == DOMAIN Handler = {"MSG", "AHRS", "GYRO"}
BY DEF Handler

\* A queue in order stays in order when a larger number is appended, and when its front
\* is taken.
Increasing(s) == \A m, n \in DOMAIN s : m < n => s[m] < s[n]

LEMMA AppendLarger ==
    ASSUME NEW s \in Seq(Nat), NEW b \in Nat, Increasing(s), \A n \in DOMAIN s : s[n] <= b
    PROVE  /\ Append(s, b + 1) \in Seq(Nat)
           /\ Increasing(Append(s, b + 1))
           /\ \A n \in DOMAIN Append(s, b + 1) :
                 /\ Append(s, b + 1)[n] <= b + 1
                 /\ \/ n \in DOMAIN s /\ Append(s, b + 1)[n] = s[n]
                    \/ Append(s, b + 1)[n] = b + 1
<1> DEFINE t == Append(s, b + 1)
<1>1. /\ Len(s) \in Nat /\ DOMAIN s = 1 .. Len(s) /\ t \in Seq(Nat)
      /\ DOMAIN t = 1 .. Len(s) + 1
      /\ \A n \in 1 .. Len(s) : t[n] = s[n]
      /\ t[Len(s) + 1] = b + 1
  BY AppendFacts, b + 1 \in Nat
<1>2. \A n \in 1 .. Len(s) : s[n] \in Nat
  BY ElementOfSeq
<1> HIDE DEF t
<1>3. \A n \in DOMAIN t : n \in 1 .. Len(s) \/ n = Len(s) + 1
  BY <1>1
<1>4. ASSUME NEW n \in DOMAIN t
      PROVE  t[n] <= b + 1 /\ ((n \in DOMAIN s /\ t[n] = s[n]) \/ t[n] = b + 1)
  <2>1. CASE n \in 1 .. Len(s)
    <3>1. t[n] = s[n] /\ s[n] \in Nat /\ s[n] <= b
      BY <1>1, <1>2, <2>1
    <3> QED BY <1>1, <2>1, <3>1
  <2>2. CASE n = Len(s) + 1
    BY <1>1, <2>2
  <2> QED BY <1>3, <2>1, <2>2
<1>5. ASSUME NEW m \in DOMAIN t, NEW n \in DOMAIN t, m < n PROVE t[m] < t[n]
  <2>1. m \in 1 .. Len(s) /\ s[m] \in Nat /\ t[m] = s[m] /\ s[m] <= b
    <3>1. m \in 1 .. Len(s)
      BY <1>1, <1>5
    <3> QED BY <1>1, <1>2, <3>1
  <2>2. CASE n \in 1 .. Len(s)
    <3>1. t[n] = s[n] /\ s[m] < s[n]
      BY <1>1, <1>5, <2>1, <2>2 DEF Increasing
    <3> QED BY <2>1, <3>1
  <2>3. CASE n = Len(s) + 1
    <3>1. t[n] = b + 1
      BY <1>1, <2>3
    <3> QED BY <2>1, <3>1
  <2> QED BY <1>3, <2>2, <2>3
<1> QED BY <1>1, <1>4, <1>5 DEF Increasing, t

LEMMA TailIncreasing ==
    ASSUME NEW s \in Seq(Nat), s # <<>>, Increasing(s)
    PROVE  /\ Tail(s) \in Seq(Nat) /\ Increasing(Tail(s))
           /\ Head(s) = s[1] /\ 1 \in DOMAIN s
           /\ \A n \in DOMAIN Tail(s) :
                 n + 1 \in DOMAIN s /\ Tail(s)[n] = s[n + 1] /\ Head(s) < Tail(s)[n]
<1>1. /\ Len(s) \in Nat \ {0} /\ DOMAIN s = 1 .. Len(s) /\ Head(s) = s[1]
      /\ Tail(s) \in Seq(Nat) /\ DOMAIN Tail(s) = 1 .. Len(s) - 1
      /\ \A n \in 1 .. Len(s) - 1 : Tail(s)[n] = s[n + 1]
  BY TailFacts
<1>2. /\ 1 \in DOMAIN s
      /\ \A n \in DOMAIN Tail(s) : n + 1 \in DOMAIN s /\ 1 < n + 1 /\ n \in Nat
  BY <1>1
<1>3. \A n \in DOMAIN Tail(s) : Tail(s)[n] = s[n + 1] /\ Head(s) < Tail(s)[n]
  BY <1>1, <1>2 DEF Increasing
<1>4. Increasing(Tail(s))
  <2> SUFFICES ASSUME NEW m \in DOMAIN Tail(s), NEW n \in DOMAIN Tail(s), m < n
               PROVE  Tail(s)[m] < Tail(s)[n]
    BY DEF Increasing
  <2>1. m + 1 < n + 1 /\ m + 1 \in DOMAIN s /\ n + 1 \in DOMAIN s
    BY <1>2
  <2>2. s[m + 1] < s[n + 1]
    BY <2>1 DEF Increasing
  <2> QED BY <1>3, <2>2
<1> QED BY <1>1, <1>2, <1>3, <1>4

\* FileInv in these terms.
LEMMA FileFacts ==
    ASSUME FileInv
    PROVE  /\ inputs \in Writers /\ logged \in Nat
           /\ in \in [DOMAIN Handler -> Seq(Nat)]
           /\ file \in Seq((DOMAIN Handler) \X Nat)
           /\ \A p \in DOMAIN Handler :
                 /\ in[p] \in Seq(Nat) /\ Increasing(in[p])
                 /\ \A n \in DOMAIN in[p] : in[p][n] <= logged
           /\ \A k \in DOMAIN file :
                 /\ file[k][1] \in DOMAIN Handler /\ file[k][2] \in Nat
                 /\ file[k][2] <= logged
                 /\ \A n \in DOMAIN in[file[k][1]] : file[k][2] < in[file[k][1]][n]
           /\ \A k, l \in DOMAIN file :
                 k < l /\ file[k][1] = file[l][1] => file[k][2] < file[l][2]
<1>1. \A k \in DOMAIN file : file[k][1] \in DOMAIN Handler /\ file[k][2] \in Nat
  <2>1. \A k \in DOMAIN file : file[k] \in (DOMAIN Handler) \X Nat
    BY DEF FileInv
  <2> QED BY <2>1
<1>2. \A p \in DOMAIN Handler : in[p] \in Seq(Nat) /\ Increasing(in[p])
  BY DEF FileInv, Increasing
<1> QED BY <1>1, <1>2 DEF FileInv, FileInOrder

\* A message sent is newer than all that are queued or in the file.
LEMMA LogMessageKeepsOrder ==
    ASSUME FileInv, LogMessage PROVE FileInv'
<1> DEFINE Ports == DOMAIN Handler
<1>0. /\ inputs \in Writers /\ logged \in Nat
      /\ in \in [Ports -> Seq(Nat)]
      /\ file \in Seq(Ports \X Nat)
      /\ \A p \in Ports : /\ in[p] \in Seq(Nat) /\ Increasing(in[p])
                          /\ \A n \in DOMAIN in[p] : in[p][n] <= logged
      /\ \A k \in DOMAIN file : /\ file[k][1] \in Ports /\ file[k][2] \in Nat
                                /\ file[k][2] <= logged
                                /\ \A n \in DOMAIN in[file[k][1]] :
                                      file[k][2] < in[file[k][1]][n]
      /\ \A k, l \in DOMAIN file :
            k < l /\ file[k][1] = file[l][1] => file[k][2] < file[l][2]
  BY FileFacts
<1>1. PICK i \in DOMAIN inputs : in' = [in EXCEPT ![inputs[i]] = Append(@, logged + 1)]
  BY DEF LogMessage
<1>2. PICK q \in Ports : in' = [in EXCEPT ![q] = Append(in[q], logged + 1)]
  <2>1. inputs[i] \in Ports
    <3>1. CASE inputs = <<"MSG">>
      <4>1. DOMAIN inputs = {1} /\ inputs[1] = "MSG"
        BY <3>1
      <4> QED BY <4>1, HandlerFacts
    <3>2. CASE inputs = <<"AHRS", "GYRO">>
      <4>1. DOMAIN inputs = {1, 2} /\ inputs[1] = "AHRS" /\ inputs[2] = "GYRO"
        BY <3>2
      <4> QED BY <4>1, HandlerFacts
    <3> QED BY <1>0, <3>1, <3>2 DEF Writers
  <2> QED BY <1>1, <2>1
<1>3. logged' = logged + 1 /\ UNCHANGED <<inputs, file>>
  BY DEF LogMessage
<1> HIDE DEF Ports
<1>4. /\ in'[q] = Append(in[q], logged + 1)
      /\ \A p \in Ports : p # q => in'[p] = in[p]
  BY <1>0, <1>2
<1>5. /\ in'[q] \in Seq(Nat) /\ Increasing(in'[q])
      /\ \A n \in DOMAIN in'[q] : /\ in'[q][n] <= logged + 1
                                  /\ \/ n \in DOMAIN in[q] /\ in'[q][n] = in[q][n]
                                     \/ in'[q][n] = logged + 1
  BY <1>0, <1>4, AppendLarger
<1>6. in' \in [Ports -> Seq(Nat)]
  <2>1. in' \in [Ports -> Seq(Nat) \union {in'[q]}]
    BY <1>0, <1>2, <1>4
  <2> QED BY <1>5, <2>1
<1>7. ASSUME NEW p \in Ports
      PROVE  Increasing(in'[p]) /\ \A n \in DOMAIN in'[p] : in'[p][n] <= logged'
  <2>1. CASE p = q
    BY <1>3, <1>5, <2>1
  <2>2. CASE p # q
    <3>1. in'[p] = in[p] /\ in[p] \in Seq(Nat) /\ Increasing(in[p])
      BY <1>0, <1>4, <2>2
    <3>2. \A n \in DOMAIN in[p] : in[p][n] \in Nat /\ in[p][n] <= logged
      BY <1>0, <3>1, ElementOfSeq
    <3>3. \A n \in DOMAIN in[p] : in[p][n] <= logged + 1
      BY <1>0, <3>2
    <3> QED BY <1>3, <3>1, <3>3
  <2> QED BY <2>1, <2>2
<1>8. ASSUME NEW k \in DOMAIN file
      PROVE  /\ file[k][2] <= logged'
             /\ \A n \in DOMAIN in'[file[k][1]] : file[k][2] < in'[file[k][1]][n]
  <2>1. file[k][1] \in Ports /\ file[k][2] \in Nat /\ file[k][2] <= logged
    BY <1>0
  <2>2. file[k][2] <= logged + 1 /\ file[k][2] < logged + 1
    BY <1>0, <2>1
  <2>3. CASE file[k][1] = q
    BY <1>0, <1>3, <1>5, <2>2, <2>3
  <2>4. CASE file[k][1] # q
    BY <1>0, <1>3, <1>4, <2>1, <2>2, <2>4
  <2> QED BY <2>3, <2>4
<1>9. FileInOrder'
  BY <1>0, <1>3, <1>8 DEF FileInOrder
<1>10. logged' \in Nat /\ inputs' \in Writers /\ file' \in Seq(Ports \X Nat)
  BY <1>0, <1>3
<1> QED BY <1>3, <1>6, <1>7, <1>8, <1>9, <1>10 DEF FileInv, Ports, Increasing

\* A handler takes the front of its queue, which is newer than what the file has of that
\* input, and writes it or loses it.
LEMMA HandleKeepsOrder ==
    ASSUME FileInv, NEW q \in DOMAIN Handler, Handle(q) PROVE FileInv'
<1> DEFINE Ports == DOMAIN Handler
<1>0. /\ inputs \in Writers /\ logged \in Nat
      /\ in \in [Ports -> Seq(Nat)]
      /\ file \in Seq(Ports \X Nat)
      /\ \A p \in Ports : /\ in[p] \in Seq(Nat) /\ Increasing(in[p])
                          /\ \A n \in DOMAIN in[p] : in[p][n] <= logged
      /\ \A k \in DOMAIN file : /\ file[k][1] \in Ports /\ file[k][2] \in Nat
                                /\ file[k][2] <= logged
                                /\ \A n \in DOMAIN in[file[k][1]] :
                                      file[k][2] < in[file[k][1]][n]
      /\ \A k, l \in DOMAIN file :
            k < l /\ file[k][1] = file[l][1] => file[k][2] < file[l][2]
      /\ q \in Ports
  BY FileFacts
<1>1. UNCHANGED <<inputs, logged>>
  BY DEF Handle
<1> HIDE DEF Ports
<1>2. CASE in[q] = <<>>
  <2>1. UNCHANGED <<in, file>>
    BY <1>2 DEF Handle
  <2> QED BY <1>1, <2>1 DEF FileInv, FileInOrder
<1>3. CASE in[q] # <<>>
  <2> DEFINE front == Head(in[q])
  <2>1. /\ in' = [in EXCEPT ![q] = Tail(in[q])]
        /\ file' = Append(file, <<q, front>>) \/ file' = file
    BY <1>3 DEF Handle
  <2>2. in'[q] = Tail(in[q]) /\ \A p \in Ports : p # q => in'[p] = in[p]
    BY <1>0, <2>1
  <2>3. /\ in'[q] \in Seq(Nat) /\ Increasing(in'[q])
        /\ front = in[q][1] /\ 1 \in DOMAIN in[q]
        /\ \A n \in DOMAIN in'[q] :
              n + 1 \in DOMAIN in[q] /\ in'[q][n] = in[q][n + 1] /\ front < in'[q][n]
    BY <1>0, <1>3, <2>2, TailIncreasing
  <2>4. front \in Nat /\ front <= logged
    BY <1>0, <2>3, ElementOfSeq
  <2> HIDE DEF front
  <2>5. in' \in [Ports -> Seq(Nat)]
    <3>1. in' \in [Ports -> Seq(Nat) \union {in'[q]}]
      BY <1>0, <2>1, <2>2
    <3> QED BY <2>3, <3>1
  <2>6. ASSUME NEW p \in Ports
        PROVE  Increasing(in'[p]) /\ \A n \in DOMAIN in'[p] : in'[p][n] <= logged
    <3>1. CASE p = q
      BY <1>0, <2>3, <3>1
    <3>2. CASE p # q
      BY <1>0, <2>2, <3>2
    <3> QED BY <3>1, <3>2
  <2>7. ASSUME NEW k \in DOMAIN file
        PROVE  /\ \A n \in DOMAIN in'[file[k][1]] : file[k][2] < in'[file[k][1]][n]
               /\ file[k][1] = q => file[k][2] < front
    <3>1. CASE file[k][1] = q
      BY <1>0, <2>3, <3>1
    <3>2. CASE file[k][1] # q
      BY <1>0, <2>2, <3>2
    <3> QED BY <3>1, <3>2
  <2>8. CASE file' = file
    <3>1. FileInOrder'
      BY <1>0, <2>7, <2>8 DEF FileInOrder
    <3> QED BY <1>0, <1>1, <2>5, <2>6, <2>8, <3>1 DEF FileInv, Ports, Increasing
  <2>9. CASE file' = Append(file, <<q, front>>)
    <3> DEFINE new == <<q, front>>
               S   == Ports \X Nat
    <3>1. new \in S /\ new[1] = q /\ new[2] = front
      BY <1>0, <2>4
    <3>2. file' = Append(file, new) /\ file \in Seq(S)
      BY <1>0, <2>9
    <3> HIDE DEF new, S
    <3>3. /\ Len(file) \in Nat /\ DOMAIN file = 1 .. Len(file)
          /\ file' \in Seq(S)
          /\ DOMAIN file' = 1 .. Len(file) + 1
          /\ \A k \in 1 .. Len(file) : file'[k] = file[k]
          /\ file'[Len(file) + 1] = new
      BY <3>1, <3>2, AppendFacts
    <3>4. \A k \in DOMAIN file' : k \in DOMAIN file \/ k = Len(file) + 1
      BY <3>3
    <3>5. ASSUME NEW k \in DOMAIN file'
          PROVE  /\ file'[k][2] <= logged
                 /\ \A n \in DOMAIN in'[file'[k][1]] : file'[k][2] < in'[file'[k][1]][n]
      <4>1. CASE k \in DOMAIN file
        BY <1>0, <2>7, <3>3, <4>1
      <4>2. CASE k = Len(file) + 1
        BY <2>3, <2>4, <3>1, <3>3, <4>2
      <4> QED BY <3>4, <4>1, <4>2
    <3>6. ASSUME NEW k \in DOMAIN file', NEW l \in DOMAIN file',
                 k < l, file'[k][1] = file'[l][1]
          PROVE  file'[k][2] < file'[l][2]
      <4>1. k \in DOMAIN file
        BY <3>3, <3>6
      <4>2. file'[k] = file[k]
        BY <3>3, <4>1
      <4>3. CASE l \in DOMAIN file
        <5>1. file'[l] = file[l]
          BY <3>3, <4>3
        <5> QED BY <1>0, <3>6, <4>1, <4>2, <4>3, <5>1
      <4>4. CASE l = Len(file) + 1
        <5>1. file'[l][1] = q /\ file'[l][2] = front
          BY <3>1, <3>3, <4>4
        <5> QED BY <2>7, <3>6, <4>1, <4>2, <5>1
      <4> QED BY <3>4, <4>3, <4>4
    <3>7. FileInOrder'
      BY <3>5, <3>6 DEF FileInOrder
    <3>8. file' \in Seq(Ports \X Nat)
      BY <3>3 DEF S
    <3> QED BY <1>0, <1>1, <2>5, <2>6, <3>5, <3>7, <3>8 DEF FileInv, Ports, Increasing
  <2> QED BY <2>1, <2>8, <2>9
<1> QED BY <1>2, <1>3

LEMMA FileStep ==
    ASSUME RoutineInv, [Next]_vars PROVE FileInv'
<1>0. FileInv
  BY DEF RoutineInv
<1>1. ASSUME UNCHANGED <<inputs, in, logged, file>> PROVE FileInv'
  BY <1>0, <1>1 DEF FileInv, FileInOrder
<1>2. CASE LogMessage
  BY <1>0, <1>2, LogMessageKeepsOrder
<1>3. CASE FileTask
  <2>1. CASE \E q \in DOMAIN Handler : Handle(q)
    BY <1>0, <2>1, HandleKeepsOrder
  <2>2. CASE Flush
    BY <1>1, <2>2 DEF Flush, fileWriter
  <2> QED BY <1>3, <2>1, <2>2 DEF FileTask
<1>4. CASE UNCHANGED fileWriter
  BY <1>1, <1>4 DEF fileWriter
<1>5. FileTask \/ LogMessage \/ UNCHANGED fileWriter
  BY DEF Next, Task, Send, SetUp, ActivateInterrupts, Tick, vars
<1> QED BY <1>2, <1>3, <1>4, <1>5
-----------------------------------------------------------------------------
\* The servos.  A message sent goes to the end of the queue and of the history, and does
\* not change which messages were handled.
LEMMA SteerKeepsServoInv ==
    ASSUME ServoInv, Steer PROVE ServoInv'
<1>1. PICK m \in ServoMessage : servo_in' = Append(servo_in, m) /\ steered' = Append(steered, m)
  BY DEF Steer
<1>2. /\ servo_in \in Seq(ServoMessage) /\ steered \in Seq(ServoMessage)
      /\ Len(servo_in) <= Len(steered)
      /\ \A n \in DOMAIN servo_in : servo_in[n] = steered[Len(steered) - Len(servo_in) + n]
      /\ UNCHANGED <<current_pos, output>>
  BY DEF ServoInv, Steer
<1>3. /\ Len(servo_in) \in Nat /\ DOMAIN servo_in = 1 .. Len(servo_in)
      /\ servo_in' \in Seq(ServoMessage) /\ Len(servo_in') = Len(servo_in) + 1
      /\ DOMAIN servo_in' = 1 .. Len(servo_in) + 1
      /\ \A i \in 1 .. Len(servo_in) : servo_in'[i] = servo_in[i]
      /\ servo_in'[Len(servo_in) + 1] = m
  BY <1>1, <1>2, AppendFacts
<1>4. /\ Len(steered) \in Nat
      /\ steered' \in Seq(ServoMessage) /\ Len(steered') = Len(steered) + 1
      /\ \A i \in 1 .. Len(steered) : steered'[i] = steered[i]
      /\ steered'[Len(steered) + 1] = m
  BY <1>1, <1>2, AppendFacts
<1> DEFINE done == Len(steered) - Len(servo_in)
<1>5. done \in Nat /\ done = Len(steered') - Len(servo_in') /\ done <= Len(steered)
  BY <1>2, <1>3, <1>4
<1>6. ASSUME NEW n \in DOMAIN servo_in' PROVE servo_in'[n] = steered'[done + n]
  <2>1. CASE n \in 1 .. Len(servo_in)
    <3>1. done + n \in 1 .. Len(steered)
      BY <1>3, <1>4, <1>5, <2>1
    <3> QED BY <1>2, <1>3, <1>4, <2>1, <3>1
  <2>2. CASE n = Len(servo_in) + 1
    <3>1. done + n = Len(steered) + 1
      BY <1>3, <1>4, <2>2
    <3> QED BY <1>3, <1>4, <2>2, <3>1
  <2> QED BY <1>3, <1>6, <2>1, <2>2
<1>7. \A c \in Channel : \A i \in 1 .. done : steered'[i] = steered[i]
  BY <1>4, <1>5
<1>8. \A c \in Channel : Obeyed(c)' = Obeyed(c)
  BY <1>5, <1>7 DEF Obeyed, Obeys
<1>9. \A c \in Channel : \A i \in Obeyed(c) : i \in 1 .. done
  BY DEF Obeyed
<1> HIDE DEF done
<1>10. ServoFollows'
  BY <1>2, <1>7, <1>8, <1>9 DEF ServoFollows, ServoInv
<1> QED BY <1>2, <1>3, <1>4, <1>5, <1>6, <1>10 DEF ServoInv, done

\* The message at the front is the next one of the history; a channel that obeys it
\* follows it, the others stay where they were put.
LEMMA HandleMessageKeepsServoInv ==
    ASSUME ServoInv, HandleMessage PROVE ServoInv'
<1>1. CASE servo_in = <<>>
  <2>1. UNCHANGED servo
    BY <1>1 DEF HandleMessage
  <2> QED BY <2>1 DEF servo, ServoInv, ServoFollows, Obeyed, Obeys
<1>2. CASE servo_in # <<>>
  <2> DEFINE m    == Head(servo_in)
             done == Len(steered) - Len(servo_in)
  <2>1. /\ servo_in \in Seq(ServoMessage) /\ steered \in Seq(ServoMessage)
        /\ Len(servo_in) <= Len(steered)
        /\ \A n \in DOMAIN servo_in : servo_in[n] = steered[done + n]
        /\ Len(steered) \in Nat
        /\ ServoFollows
    BY DEF ServoInv
  <2>2. /\ Len(servo_in) \in Nat \ {0} /\ DOMAIN servo_in = 1 .. Len(servo_in)
        /\ m = servo_in[1] /\ m \in ServoMessage
        /\ Tail(servo_in) \in Seq(ServoMessage)
        /\ Len(Tail(servo_in)) = Len(servo_in) - 1
        /\ DOMAIN Tail(servo_in) = 1 .. Len(servo_in) - 1
        /\ \A i \in 1 .. Len(servo_in) - 1 : Tail(servo_in)[i] = servo_in[i + 1]
    BY <1>2, <2>1, TailFacts
  <2>3. /\ servo_in' = Tail(servo_in) /\ steered' = steered
        /\ IF m.type = "other" THEN UNCHANGED <<current_pos, output>> ELSE SetPos(m)
    BY <1>2 DEF HandleMessage
  <2>4. /\ done \in Nat /\ Len(steered') - Len(servo_in') = done + 1
        /\ 1 \in DOMAIN servo_in /\ 1 .. done + 1 = 1 .. done \union {done + 1}
        /\ done + 1 \notin 1 .. done
        /\ \A i \in 1 .. done : i <= done + 1 /\ ~ (done + 1 <= i)
    BY <2>1, <2>2, <2>3
  <2>5. m = steered[done + 1]
    BY <2>1, <2>2, <2>4
  <2>6. ASSUME NEW n \in DOMAIN servo_in' PROVE servo_in'[n] = steered'[done + 1 + n]
    <3>1. n + 1 \in DOMAIN servo_in /\ done + (n + 1) = done + 1 + n /\ n \in 1 .. Len(servo_in) - 1
      BY <2>2, <2>3, <2>4
    <3>2. servo_in'[n] = servo_in[n + 1]
      BY <2>2, <2>3, <3>1
    <3> QED BY <2>1, <2>3, <3>1, <3>2
  <2> DEFINE obeys(c) == m.type = "servo" /\ Obeys(c, m)
  <2>7. \A c \in Channel :
           Obeyed(c)' = IF obeys(c) THEN Obeyed(c) \union {done + 1} ELSE Obeyed(c)
    BY <2>3, <2>4, <2>5 DEF Obeyed, Obeys
  <2>8. \A c \in Channel : Obeyed(c) \subseteq 1 .. done
    BY DEF Obeyed
  <2>9. m.type = "servo" \/ m.type = "other"
    BY <2>2 DEF ServoMessage
  <2>10. \A c \in Channel :
           /\ obeys(c) => output'[c] = m.pos[c] /\ current_pos'[c] = m.pos[c]
           /\ ~obeys(c) => output'[c] = output[c] /\ current_pos'[c] = current_pos[c]
           /\ obeys(c) => c \in Activated
    BY <2>3, <2>9 DEF SetPos, Obeys
  <2> HIDE DEF m, done, obeys
  <2>11. ServoFollows'
    <3> SUFFICES ASSUME NEW c \in Channel
                 PROVE  /\ c \notin Activated => output'[c] = "none"
                        /\ c \in Activated => output'[c] = current_pos'[c]
                        /\ c \in Activated /\ Obeyed(c)' = {} => output'[c] = "preset"
                        /\ \A i \in Obeyed(c)' :
                              (\A j \in Obeyed(c)' : j <= i) => output'[c] = steered[i].pos[c]
      BY <2>3 DEF ServoFollows
    <3>0. /\ c \notin Activated => output[c] = "none"
          /\ c \in Activated => output[c] = current_pos[c]
          /\ c \in Activated /\ Obeyed(c) = {} => output[c] = "preset"
          /\ \A i \in Obeyed(c) :
                (\A j \in Obeyed(c) : j <= i) => output[c] = steered[i].pos[c]
      BY <2>1 DEF ServoFollows
    <3>1. CASE obeys(c)
      <4>1. Obeyed(c)' = Obeyed(c) \union {done + 1}
        BY <2>7, <3>1
      <4>2. \A i \in Obeyed(c)' : (\A j \in Obeyed(c)' : j <= i) => i = done + 1
        BY <2>4, <2>8, <4>1
      <4> QED BY <2>5, <2>10, <3>1, <4>1, <4>2
    <3>2. CASE ~obeys(c)
      BY <2>7, <2>10, <3>0, <3>2
    <3> QED BY <3>1, <3>2
  <2>12. servo_in' \in Seq(ServoMessage) /\ steered' \in Seq(ServoMessage)
         /\ Len(servo_in') <= Len(steered')
    BY <2>1, <2>2, <2>3
  <2> QED BY <2>4, <2>6, <2>11, <2>12 DEF ServoInv
<1> QED BY <1>1, <1>2

LEMMA ServoStep ==
    ASSUME RoutineInv, [Next]_vars PROVE ServoInv'
<1>0. ServoInv
  BY DEF RoutineInv
<1>1. CASE Steer
  BY <1>0, <1>1, SteerKeepsServoInv
<1>2. CASE HandleMessage
  BY <1>0, <1>2, HandleMessageKeepsServoInv
<1>3. CASE UNCHANGED servo
  BY <1>0, <1>3 DEF servo, ServoInv, ServoFollows, Obeyed, Obeys
<1>4. Steer \/ HandleMessage \/ UNCHANGED servo
  BY DEF Next, Task, Send, SetUp, ActivateInterrupts, Tick, vars
<1> QED BY <1>1, <1>2, <1>3, <1>4
-----------------------------------------------------------------------------
LEMMA InitHolds == Init => RoutineInv
<1> SUFFICES ASSUME Init PROVE RoutineInv
  OBVIOUS
<1>1. built \in Systems \union {"none"} /\ tasks \in Seq(Entries) /\ at = "kernel"
  BY EmptyFacts DEF Init, SchedulerInit
<1>2. ClockInv
  BY PeriodAssumption DEF Init, ClockInit, ClockInv, ClockTypeOK, CounterFollowsStamp
<1>3. GpsInv
  <2>1. ReportsFollowLock
    BY DEF Init, GpsInit, ReportsFollowLock
  <2>2. FlagsAreDue /\ GpsKeepsItsRate
    BY <1>1 DEF Init, GpsInit, FlagsAreDue, GpsKeepsItsRate
  <2> QED BY <2>1, <2>2 DEF GpsInv
<1>4. RequesterInv
  BY <1>1 DEF Init, RequesterInit, RequesterInv, RequesterKeepsItsRate
<1>5. FileInv
  <2>1. /\ in = [p \in DOMAIN Handler |-> <<>>] /\ file = <<>> /\ logged = 0
        /\ inputs \in Writers
    BY DEF Init, FileInit
  <2>2. /\ \A p \in DOMAIN Handler : DOMAIN in[p] = {}
        /\ in \in [DOMAIN Handler -> Seq(Nat)]
        /\ DOMAIN file = {} /\ file \in Seq((DOMAIN Handler) \X Nat)
    BY <2>1, EmptyFacts
  <2>3. FileInOrder
    BY <2>2 DEF FileInOrder
  <2> QED BY <2>1, <2>2, <2>3 DEF FileInv
<1>6. ServoInv
  <2>1. servo_in = <<>> /\ steered = <<>>
    BY DEF Init, ServoInit
  <2>2. /\ servo_in \in Seq(ServoMessage) /\ steered \in Seq(ServoMessage)
        /\ Len(servo_in) = 0 /\ Len(steered) = 0 /\ DOMAIN servo_in = {}
    BY <2>1, EmptyFacts
  <2>3. \A c \in Channel : Obeyed(c) = {}
    BY <2>2 DEF Obeyed
  <2>4. ServoFollows
    BY <2>3 DEF Init, ServoInit, ServoFollows
  <2> QED BY <2>2, <2>4 DEF ServoInv
<1> QED BY <1>1, <1>2, <1>3, <1>4, <1>5, <1>6 DEF RoutineInv

\* In every system that contains these modules, whatever it is, the modules keep their
\* invariants: the list holds their entries only (kernel.cpp:141), the counter follows
\* the stamps (kernel.cpp:17-25), the flags are due when they are up
\* (dummy_gps.cpp:34-45), and queues, file and outputs follow what was sent.
THEOREM RoutineInvariant == Spec => []RoutineInv
<1>1. RoutineInv /\ [Next]_vars => RoutineInv'
  <2> SUFFICES ASSUME RoutineInv, [Next]_vars PROVE RoutineInv'
    OBVIOUS
  <2>1. ClockInv'
    BY ClockAges DEF RoutineInv
  <2>2. built' \in Systems \union {"none"} /\ tasks' \in Seq(Entries)
    BY ListHoldsEntries DEF RoutineInv
  <2>3. GpsInv' /\ RequesterInv' /\ FileInv' /\ ServoInv'
    BY GpsStep, RequesterStep, FileStep, ServoStep
  <2> HIDE DEF ClockInv, GpsInv, RequesterInv, FileInv, ServoInv
  <2>4. Entries' = Entries /\ Systems' = Systems
    BY DEF Entries, Systems
  <2> QED BY <2>1, <2>2, <2>3, <2>4 DEF RoutineInv
<1> QED BY <1>1, InitHolds, PTL DEF Spec

\* Late, repeated and dropped tasks do not make the GPS or the requester work faster
\* than their periods allow (dummy_gps.cpp:34-45, logger.cpp:48-54).
THEOREM RatesAreKept == Spec => []RatesKept
<1>1. RoutineInv => RatesKept
  BY DEF RoutineInv, GpsInv, RequesterInv, RatesKept
<1> QED BY <1>1, RoutineInvariant, PTL

\* Each change of the state of the GPS is sent once and in order, although the flag that
\* announces it is raised and lowered in different tasks (dummy_gps.cpp:97-120).
THEOREM StatesReportedOnce == Spec => []StateReportedOnce
<1>1. ReportsFollowLock => StateReportedOnce
  BY DEF ReportsFollowLock, StateReportedOnce
<1> QED BY <1>1, RoutineInvariant, PTL DEF RoutineInv, GpsInv

\* A log file has the messages of each input in the order of sending, also if some of
\* them could not be written (file_writer.cpp:36-57, 100-143).
THEOREM FilesInOrder == Spec => []FileInOrder
<1>1. RoutineInv => FileInOrder
  BY DEF RoutineInv, FileInv
<1> QED BY <1>1, RoutineInvariant, PTL

\* Every servo is where the last message that concerns it has put it, for any number of
\* channels, setpoints and messages (servo.cpp:44-74).
THEOREM ServosFollow == Spec => []ServoFollows
<1>1. RoutineInv => ServoFollows
  BY DEF RoutineInv, ServoInv
<1> QED BY <1>1, RoutineInvariant, PTL
-----------------------------------------------------------------------------
(* The LED.  No step but those of its own two tasks concerns it.           *)

\* The kernel loop catches up before the LED has been on for the on-time, and early
\* enough after it to have switched it off when the next flash is due, although the
\* list may have dropped what was to switch it off.
EnoughTime ==
    /\ {OnTime, BlinkPeriod} \subseteq Nat
    /\ MaxLag < OnTime
    /\ OnTime + MaxLag + MaxDrops <= BlinkPeriod
    /\ BlinkPeriod < Period

Age == ticks["last_on_time"]

\* The tasks that wait or run.
SwitchingOn  == at \in {"switch_on", "light", "lit"} \/ In("switch_on", tasks)
SwitchingOff == at \in {"switch_off", "dark"} \/ In("switch_off", tasks)

\* A task that switches off was asked for in time, before any that switches on again.
OffIsDue ==
    /\ at = "switch_off" \/ In("switch_off", tasks) =>
           Age >= OnTime /\ at \notin {"switch_on", "light", "lit"}
    /\ AllBehind("switch_on", "switch_off", tasks)

\* What still waits to switch on the LED that is on already was asked for together with
\* the task that did it.
StaleOn ==
    /\ at \in {"light", "lit"} => Age <= lag
    /\ state_on /\ SwitchingOn => Age <= lag \/ lag = MaxLag

\* From the on-time on the LED is being switched off, or the tasks of each tick since
\* then were dropped.
NotOnForLong ==
    state_on => IF SwitchingOff THEN Age <= OnTime + drops + lag ELSE Age < OnTime + drops

FlashInv ==
    /\ \A i \in DOMAIN tasks : tasks[i] \in {"switch_on", "switch_off", "activate"}
    /\ at \in {"kernel", "switch_on", "light", "lit", "switch_off", "dark", "activate",
               "pilot in command"}
    /\ OffIsDue /\ StaleOn /\ NotOnForLong

LedInv ==
    /\ lag \in 0 .. MaxLag /\ drops \in 0 .. MaxDrops
    /\ built = "none" => tasks = <<>> /\ at = "kernel" /\ ~state_on
    /\ built = "system_timing" => FlashInv
    /\ built # "system_timing" => ~SwitchingOn /\ ~SwitchingOff

\* What the interrupts of that system ask for, and that the others leave the LED alone.
AskForSwitches ==
    /\ built = "system_timing" =>
          /\ In("switch_off", Requests) <=> state_on /\ Elapsed("last_on_time") >= OnTime
          /\ In("switch_on", Requests) <=> Elapsed("last_on_time") >= BlinkPeriod
          /\ In("activate", Requests) <=> com_runlevel = "operational"
          /\ \A i \in DOMAIN Requests :
                Requests[i] \in {"switch_on", "switch_off", "activate"}
          /\ AllBehind("switch_on", "switch_off", Requests)
    /\ built \in Systems \ {"system_timing"} =>
          ~In("switch_on", Requests) /\ ~In("switch_off", Requests)

\* Only t, if anything.
Just(t, s) == \A i \in DOMAIN s : s[i] = t

LEMMA SwitchesAskedFor == AskForSwitches
<1> DEFINE S == Entries \union {"switch_on", "switch_off", "activate"}
           off == IF state_on /\ Elapsed("last_on_time") >= OnTime
                  THEN <<"switch_off">> ELSE <<>>
           on  == IF Elapsed("last_on_time") >= BlinkPeriod THEN <<"switch_on">> ELSE <<>>
           com == CommanderRequests
<1>1. /\ off \in Seq(S) /\ on \in Seq(S) /\ com \in Seq(S)
      /\ Just("switch_off", off) /\ Just("switch_on", on) /\ Just("activate", com)
      /\ In("switch_off", off) <=> state_on /\ Elapsed("last_on_time") >= OnTime
      /\ In("switch_on", on) <=> Elapsed("last_on_time") >= BlinkPeriod
      /\ In("activate", com) <=> com_runlevel = "operational"
  <2>1. \A t \in S : /\ <<>> \in Seq(S) /\ Just(t, <<>>) /\ ~In(t, <<>>)
                     /\ <<t>> \in Seq(S) /\ Just(t, <<t>>) /\ In(t, <<t>>)
    BY DEF Just, In
  <2>2. "switch_off" \in S /\ "switch_on" \in S /\ "activate" \in S
    OBVIOUS
  <2> HIDE DEF S
  <2>3. off = IF state_on /\ Elapsed("last_on_time") >= OnTime THEN <<"switch_off">> ELSE <<>>
    OBVIOUS
  <2>4. on = IF Elapsed("last_on_time") >= BlinkPeriod THEN <<"switch_on">> ELSE <<>>
    OBVIOUS
  <2>5. com = IF com_runlevel = "operational" THEN <<"activate">> ELSE <<>>
    BY DEF CommanderRequests
  <2> HIDE DEF off, on, com
  <2>6. /\ off \in Seq(S) /\ Just("switch_off", off)
        /\ In("switch_off", off) <=> state_on /\ Elapsed("last_on_time") >= OnTime
    BY <2>1, <2>2, <2>3
  <2>7. /\ on \in Seq(S) /\ Just("switch_on", on)
        /\ In("switch_on", on) <=> Elapsed("last_on_time") >= BlinkPeriod
    BY <2>1, <2>2, <2>4
  <2>8. /\ com \in Seq(S) /\ Just("activate", com)
        /\ In("activate", com) <=> com_runlevel = "operational"
    BY <2>1, <2>2, <2>5
  <2> QED BY <2>6, <2>7, <2>8
<1>2. BlinkRequests \o CommanderRequests = (off \o on) \o com
  BY DEF BlinkRequests
<1> HIDE DEF S, off, on, com
<1>3. ASSUME built = "system_timing"
      PROVE  /\ In("switch_off", Requests) <=> state_on /\ Elapsed("last_on_time") >= OnTime
             /\ In("switch_on", Requests) <=> Elapsed("last_on_time") >= BlinkPeriod
             /\ In("activate", Requests) <=> com_runlevel = "operational"
             /\ \A i \in DOMAIN Requests :
                   Requests[i] \in {"switch_on", "switch_off", "activate"}
             /\ AllBehind("switch_on", "switch_off", Requests)
  <2>1. Requests = (off \o on) \o com
    BY <1>2, <1>3 DEF Requests
  <2>2. /\ off \o on \in Seq(S)
        /\ \A t : In(t, off \o on) <=> In(t, off) \/ In(t, on)
    BY <1>1, InConcat
  <2>3. \A t : In(t, (off \o on) \o com) <=> In(t, off \o on) \/ In(t, com)
    <3> DEFINE both == off \o on
    <3>1. both \in Seq(S) /\ com \in Seq(S)
      BY <1>1, <2>2
    <3> HIDE DEF both
    <3>2. \A t : In(t, both \o com) <=> In(t, both) \/ In(t, com)
      BY <3>1, InConcat
    <3> QED BY <3>2 DEF both
  <2>4. \A t : In(t, Requests) <=> In(t, off) \/ In(t, on) \/ In(t, com)
    BY <2>1, <2>2, <2>3
  <2>5. /\ \A t : In(t, off) => t = "switch_off"
        /\ \A t : In(t, on) => t = "switch_on"
        /\ \A t : In(t, com) => t = "activate"
    BY <1>1 DEF Just, In
  <2>6. \A i \in DOMAIN Requests : Requests[i] \in {"switch_on", "switch_off", "activate"}
    BY <2>4, <2>5 DEF In
  <2>7. /\ AllBehind("switch_on", "switch_off", off)
        /\ AllBehind("switch_on", "switch_off", on)
        /\ AllBehind("switch_on", "switch_off", com)
        /\ ~In("switch_on", off) /\ ~In("switch_off", com)
    BY <2>5 DEF AllBehind, In
  <2>8. AllBehind("switch_on", "switch_off", off \o on)
    BY <1>1, <2>7, BehindConcat
  <2>9. AllBehind("switch_on", "switch_off", (off \o on) \o com)
    BY <1>1, <2>2, <2>7, <2>8, BehindConcat
  <2> QED BY <1>1, <2>1, <2>4, <2>5, <2>6, <2>9
<1>4. ASSUME built \in Systems \ {"system_timing"}
      PROVE  ~In("switch_on", Requests) /\ ~In("switch_off", Requests)
  <2> DEFINE T == Entries \ {"switch_on", "switch_off"}
             m == HandlerRequest("MSG")
             a == HandlerRequest("AHRS")
             g == HandlerRequest("GYRO")
             f == FlushRequest
  <2>1. /\ "run" \in T /\ "activate" \in T /\ "handle_message" \in T /\ "request" \in T
        /\ "flush" \in T /\ Handler["MSG"] \in T /\ Handler["AHRS"] \in T
        /\ Handler["GYRO"] \in T
    BY DEF Handler, Entries, GpsEntries, CommanderEntries, BlinkEntries, FileEntries,
           ServoEntries, RequesterEntries
  <2>2. "switch_on" \notin T /\ "switch_off" \notin T
    OBVIOUS
  <2> HIDE DEF T
  <2>3. /\ <<>> \in Seq(T)
        /\ \A t \in T : <<t>> \in Seq(T)
    OBVIOUS
  <2>4. /\ GpsRequests \in Seq(T) /\ CommanderRequests \in Seq(T)
        /\ ServoRequests \in Seq(T) /\ RequesterRequests \in Seq(T)
        /\ m \in Seq(T) /\ a \in Seq(T) /\ g \in Seq(T) /\ f \in Seq(T)
    BY <2>1, <2>3 DEF GpsRequests, CommanderRequests, ServoRequests, RequesterRequests,
                      HandlerRequest, FlushRequest
  <2>5. FileRequests = m \o a \o g \o f \/ FileRequests = <<>>
    BY DEF FileRequests
  <2> HIDE DEF m, a, g, f
  <2>6. CommanderRequests \o GpsRequests \in Seq(T)
    BY <2>4, ConcatProperties
  <2>7. m \o a \in Seq(T)
    BY <2>4, ConcatProperties
  <2>8. m \o a \o g \in Seq(T)
    BY <2>4, <2>7, ConcatProperties
  <2>9. m \o a \o g \o f \in Seq(T)
    BY <2>4, <2>8, ConcatProperties
  <2>10. Requests \in Seq(T)
    BY <1>4, <2>3, <2>4, <2>5, <2>6, <2>9 DEF Requests, Systems
  <2>11. \A i \in DOMAIN Requests : Requests[i] \in T
    BY <2>10
  <2> QED BY <2>2, <2>11 DEF In
<1> QED BY <1>3, <1>4 DEF AskForSwitches

LEMMA LagBounded ==
    ASSUME lag \in 0 .. MaxLag, drops \in 0 .. MaxDrops, [Next]_vars
    PROVE  lag' \in 0 .. MaxLag /\ drops' \in 0 .. MaxDrops
<1>0. MaxLag \in Nat /\ MaxDrops \in Nat
  BY SchedulerAssumption
<1>1. CASE Tick
  <2>1. /\ lag' \in {0, lag + 1} /\ lag < MaxLag
        /\ drops' = drops \/ (drops < MaxDrops /\ drops' = drops + 1)
    BY <1>1 DEF Tick, Enlist
  <2> QED BY <1>0, <2>1
<1>2. CASE ~Tick
  <2>1. lag' \in {0, lag} /\ drops' = drops
    <3>1. CASE SetUp \/ ActivateInterrupts \/ Send \/ UNCHANGED vars
      BY <3>1 DEF SetUp, ActivateInterrupts, Send, LogMessage, Steer, vars, scheduling
    <3>2. CASE Dispatch \/ GpsTask
      BY <3>2 DEF Dispatch, GpsTask, Update, StampUpdate, Telemetry, StampTelemetry, Lock,
                  ReportState, GoTo, Return
    <3>3. CASE Activate \/ BlinkTask \/ HandleMessage \/ RequesterTask
      BY <3>3 DEF Activate, BlinkTask, SwitchOn, SwitchOff, HandleMessage, RequesterTask,
                  Request, Answer, StampRequest, GoTo, Return, scheduling
    <3>4. CASE FileTask
      BY <3>4 DEF FileTask, Handle, Flush, GoTo, Return
    <3> QED BY <1>2, <3>1, <3>2, <3>3, <3>4 DEF Next, Task
  <2> QED BY <1>0, <2>1
<1> QED BY <1>1, <1>2

\* In the other systems no step leads to the two tasks of the LED.
LEMMA LedOnlyThere ==
    ASSUME RoutineInv, [Next]_vars,
           built \in Systems \ {"system_timing"}, ~SwitchingOn, ~SwitchingOff
    PROVE  built' = built /\ ~SwitchingOn' /\ ~SwitchingOff'
<1> DEFINE N == {"switch_on", "light", "lit", "switch_off", "dark"}
<1>1. /\ at \notin N /\ ~In("switch_on", tasks) /\ ~In("switch_off", tasks)
      /\ tasks \in Seq(Entries) /\ built # "none"
  BY DEF SwitchingOn, SwitchingOff, RoutineInv, Systems
<1>2. CASE Tick
  <2>1. at' = at /\ built' = built
    BY <1>2 DEF Tick, Enlist
  <2>2. AskForSwitches' /\ AskForEntries'
    BY SwitchesAskedFor, RequestsAreEntries, PTL
  <2>3. /\ ~In("switch_on", Requests') /\ ~In("switch_off", Requests')
        /\ Requests' \in Seq(Entries)
    BY <2>1, <2>2 DEF AskForSwitches, AskForEntries, Systems
  <2>4. ~In("switch_on", tasks \o Requests') /\ ~In("switch_off", tasks \o Requests')
    BY <1>1, <2>3, InConcat
  <2>5. ~In("switch_on", tasks') /\ ~In("switch_off", tasks')
    BY <1>1, <1>2, <2>4 DEF Tick, Enlist
  <2> QED BY <1>1, <2>1, <2>5 DEF SwitchingOn, SwitchingOff, In
<1>3. CASE Dispatch /\ UNCHANGED built
  <2>1. /\ at' = Head(tasks) /\ tasks' = Tail(tasks) /\ tasks # <<>>
        /\ at' \in Entries
    BY <1>1, <1>3, TaskStartsAtEntry DEF Dispatch
  <2>2. \A t : In(t, tasks) <=> Head(tasks) = t \/ In(t, Tail(tasks))
    BY <1>1, <2>1, InTail
  <2>3. at' \notin {"light", "lit", "dark"}
    BY <2>1 DEF Entries, GpsEntries, CommanderEntries, BlinkEntries, FileEntries,
                ServoEntries, RequesterEntries
  <2>4. at' \notin {"switch_on", "switch_off"}
    BY <1>1, <2>1, <2>2
  <2>5. ~In("switch_on", tasks') /\ ~In("switch_off", tasks')
    BY <1>1, <2>1, <2>2
  <2> QED BY <1>3, <2>3, <2>4, <2>5 DEF SwitchingOn, SwitchingOff, In
<1>4. ASSUME at' \notin N, tasks' = tasks, built' = built
      PROVE  built' = built /\ ~SwitchingOn' /\ ~SwitchingOff'
  BY <1>1, <1>4 DEF SwitchingOn, SwitchingOff, In
<1>5. CASE GpsTask /\ UNCHANGED built
  <2>1. at' \notin N /\ tasks' = tasks
    BY <1>5 DEF GpsTask, Update, StampUpdate, Telemetry, StampTelemetry, Lock,
              ReportState, GoTo, Return
  <2> QED BY <1>4, <1>5, <2>1
<1>6. CASE BlinkTask
  BY <1>1, <1>6 DEF BlinkTask, SwitchOn, SwitchOff
<1>7. CASE (Activate \/ HandleMessage \/ RequesterTask) /\ UNCHANGED built
  <2>1. at' \notin N /\ tasks' = tasks
    BY <1>1, <1>7 DEF Activate, HandleMessage, RequesterTask,
              Request, Answer, StampRequest, GoTo, Return, scheduling
  <2> QED BY <1>4, <1>7, <2>1
<1>8. CASE (FileTask \/ Send \/ UNCHANGED vars) /\ UNCHANGED built
  <2>1. at' \notin N /\ tasks' = tasks
    BY <1>1, <1>8 DEF FileTask, Handle, Flush, Send, LogMessage, Steer, vars, GoTo, Return,
              scheduling
  <2> QED BY <1>4, <1>8, <2>1
<1> QED BY <1>1, <1>2, <1>3, <1>5, <1>6, <1>7, <1>8
        DEF Next, Task, Send, vars, SetUp, ActivateInterrupts

\* A tick in the system with the LED: the requests of the interrupt come in time, or they
\* are dropped and counted.
LEMMA FlashTick ==
    ASSUME EnoughTime, RoutineInv, lag \in 0 .. MaxLag, drops \in 0 .. MaxDrops, FlashInv,
           built = "system_timing", Tick
    PROVE  FlashInv'
<1> DEFINE e1 == Elapsed("last_on_time")'
           idle == tasks = <<>> /\ at = "kernel"
<1>1. /\ {lag, MaxLag, OnTime, BlinkPeriod, Period, Age, Age', e1, lag', drops, MaxDrops}
             \subseteq Nat
      /\ lag < MaxLag /\ MaxLag < OnTime /\ OnTime + MaxLag + MaxDrops <= BlinkPeriod
      /\ BlinkPeriod < Period /\ drops <= MaxDrops
      /\ Age' >= Age /\ Age' <= Age + 1 /\ Age' >= e1
      /\ Age' < Period => Age' = e1
      /\ lag' = IF idle THEN 0 ELSE lag + 1
      /\ 0 < MaxLag
  <2>0. "last_on_time" \in Stamp
    BY RoutineAssumption DEF BlinkStamps
  <2>1. [Next]_vars
    BY DEF Next
  <2>2. ClockInv /\ Systick
    BY DEF RoutineInv, Tick
  <2>3. ClockInv' /\ {Age', e1} \subseteq Nat /\ Age' >= e1
    BY <2>0, <2>1, <2>2, ClockAges DEF Age
  <2>4. ElapsedIsTicks'
    BY <2>3, ElapsedRight, PTL
  <2>5. Age' < Period => Age' = e1
    BY <2>0, <2>4 DEF ElapsedIsTicks, Elapsed, Age
  <2>6. Age \in 0 .. Period /\ Age' = IF Age < Period THEN Age + 1 ELSE Period
    BY <2>0, <2>2 DEF ClockInv, ClockTypeOK, Systick, Age
  <2>7. lag < MaxLag /\ lag' = IF idle THEN 0 ELSE lag + 1
    BY DEF Tick, Enlist
  <2> HIDE DEF e1, idle
  <2>8. /\ MaxLag \in Nat \ {0} /\ Period \in Nat /\ lag \in Nat
        /\ MaxDrops \in Nat /\ drops \in Nat /\ drops <= MaxDrops
    BY SchedulerAssumption, PeriodAssumption
  <2> QED BY <2>3, <2>5, <2>6, <2>7, <2>8 DEF EnoughTime
<1>2. /\ UNCHANGED <<at, built, state_on>>
      /\ tasks \in Seq(Entries)
  BY DEF Tick, Enlist, blink, RoutineInv
<1>3. /\ In("switch_off", Requests') <=> state_on /\ e1 >= OnTime
      /\ In("switch_on", Requests') <=> e1 >= BlinkPeriod
      /\ \A i \in DOMAIN Requests' :
            Requests'[i] \in {"switch_on", "switch_off", "activate"}
      /\ AllBehind("switch_on", "switch_off", Requests')
      /\ Requests' \in Seq(Entries)
  <2>1. AskForSwitches' /\ AskForEntries'
    BY SwitchesAskedFor, RequestsAreEntries, PTL
  <2> QED BY <1>2, <2>1 DEF AskForSwitches, AskForEntries, Systems, AllBehind, In
<1> HIDE DEF e1
<1>4. /\ OnTime + drops \in Nat /\ OnTime + drops + MaxLag <= BlinkPeriod
      /\ OnTime <= OnTime + drops /\ OnTime + drops < BlinkPeriod
      /\ OnTime + drops < Period
      /\ OnTime + (drops + 1) = (OnTime + drops) + 1
  <2>1. \A l, m, o, b, p, d, q \in Nat :
           l < m /\ m < o /\ o + m + q <= b /\ b < p /\ 0 < m /\ d <= q
           => /\ o + d \in Nat /\ o + d + m <= b /\ o <= o + d /\ o + d < b /\ o + d < p
              /\ o + (d + 1) = (o + d) + 1
    OBVIOUS
  <2> QED BY ONLY <1>1, <2>1, SMTT(60)
<1>5. /\ lag # MaxLag
      /\ Age <= lag => ~(e1 >= OnTime) /\ Age' < OnTime
      /\ Age < OnTime + drops => /\ ~(e1 >= BlinkPeriod)
                                 /\ Age' <= OnTime + drops + lag'
                                 /\ Age' < OnTime + (drops + 1)
                                 /\ e1 >= OnTime \/ Age' < OnTime + drops
      /\ ~idle /\ Age <= lag => Age' <= lag'
      /\ ~idle /\ Age <= OnTime + drops + lag =>
            Age' <= OnTime + drops + lag' /\ Age' <= OnTime + (drops + 1) + lag'
      /\ ~idle /\ Age <= OnTime + drops + lag /\ e1 >= BlinkPeriod => lag' = MaxLag
      /\ Age >= OnTime \/ e1 >= OnTime => Age' >= OnTime
  <2> DEFINE late == OnTime + drops
  <2>1. /\ {lag, MaxLag, OnTime, BlinkPeriod, Period, Age, Age', e1, lag', late} \subseteq Nat
        /\ lag < MaxLag /\ MaxLag < OnTime /\ late + MaxLag <= BlinkPeriod
        /\ OnTime <= late /\ late < BlinkPeriod /\ late < Period
        /\ Age' >= Age /\ Age' <= Age + 1 /\ Age' >= e1
        /\ Age' < Period => Age' = e1
        /\ ~idle => lag' = lag + 1
        /\ OnTime + (drops + 1) = late + 1
    BY ONLY <1>1, <1>4
  <2> HIDE DEF late, idle
  <2>2. /\ lag # MaxLag
        /\ Age <= lag => ~(e1 >= OnTime) /\ Age' < OnTime
        /\ Age >= OnTime \/ e1 >= OnTime => Age' >= OnTime
    <3>1. \A l, m \in Nat : l < m => l # m
      OBVIOUS
    <3>2. \A a, a1, x1, l, m, o \in Nat :
             l < m /\ m < o /\ a1 <= a + 1 /\ a1 >= x1 /\ a <= l => ~(x1 >= o) /\ a1 < o
      OBVIOUS
    <3>3. \A a, a1, o \in Nat : a1 >= a /\ a >= o => a1 >= o
      OBVIOUS
    <3> QED BY ONLY <2>1, <3>1, <3>2, <3>3
  <2>3. Age < late => ~(e1 >= BlinkPeriod) /\ Age' <= late /\ Age' < late + 1
    <3>1. \A a, a1, x1, t, b \in Nat :
             t < b /\ a1 <= a + 1 /\ a1 >= x1 /\ a < t => ~(x1 >= b) /\ a1 <= t /\ a1 < t + 1
      OBVIOUS
    <3> QED BY ONLY <2>1, <3>1
  <2>4. Age' <= late => Age' <= late + lag' /\ (e1 >= OnTime \/ Age' < late)
    <3>1. \A a1, x1, o, t, p, l1 \in Nat :
             o <= t /\ t < p /\ a1 <= t /\ (a1 < p => a1 = x1)
             => a1 <= t + l1 /\ (x1 >= o \/ a1 < t)
      OBVIOUS
    <3> QED BY ONLY <2>1, <3>1
  <2>5. /\ ~idle /\ Age <= lag => Age' <= lag'
        /\ ~idle /\ Age <= late + lag => Age' <= late + lag' /\ Age' <= late + 1 + lag'
    <3>1. \A a, a1, l, l1, t \in Nat :
             a1 <= a + 1 /\ l1 = l + 1
             => /\ (a <= l => a1 <= l1)
                /\ (a <= t + l => a1 <= t + l1 /\ a1 <= t + 1 + l1)
      OBVIOUS
    <3> QED BY ONLY <2>1, <3>1
  <2>6. ~idle /\ Age <= late + lag /\ e1 >= BlinkPeriod => lag' = MaxLag
    <3>1. \A a, a1, x1, l, m, t, b \in Nat :
             l < m /\ t + m <= b /\ a1 <= a + 1 /\ a1 >= x1 /\ a <= t + l /\ x1 >= b => l + 1 = m
      OBVIOUS
    <3> QED BY ONLY <2>1, <3>1
  <2> QED BY ONLY <2>1, <2>2, <2>3, <2>4, <2>5, <2>6 DEF late
<1>6. /\ state_on /\ SwitchingOn => Age <= lag /\ ~In("switch_off", Requests')
      /\ SwitchingOn \/ SwitchingOff =>
            /\ Age <= lag => Age' <= lag'
            /\ Age <= OnTime + drops + lag =>
                  Age' <= OnTime + drops + lag' /\ Age' <= OnTime + (drops + 1) + lag'
            /\ Age <= OnTime + drops + lag /\ e1 >= BlinkPeriod => lag' = MaxLag
  <2>1. state_on /\ SwitchingOn => Age <= lag
    BY <1>5 DEF FlashInv, StaleOn
  <2>2. SwitchingOn \/ SwitchingOff => ~idle
    BY InEmpty DEF SwitchingOn, SwitchingOff
  <2> QED BY <1>3, <1>5, <2>1, <2>2
<1> HIDE DEF idle
<1>7. CASE tasks' = tasks \o Requests' /\ drops' = drops
  <2>1. \A t : In(t, tasks') <=> In(t, tasks) \/ In(t, Requests')
    BY <1>2, <1>3, <1>7, InConcat
  <2>2. /\ SwitchingOn' <=> SwitchingOn \/ e1 >= BlinkPeriod
        /\ SwitchingOff' <=> SwitchingOff \/ (state_on /\ e1 >= OnTime)
    BY <1>2, <1>3, <2>1 DEF SwitchingOn, SwitchingOff, In
  <2>3. \A i \in DOMAIN tasks' : tasks'[i] \in {"switch_on", "switch_off", "activate"}
    <3>1. \A t : In(t, tasks') => t \in {"switch_on", "switch_off", "activate"}
      BY <1>3, <2>1 DEF FlashInv, In
    <3> QED BY <3>1 DEF In
  <2>4. OffIsDue'
    <3>1. AllBehind("switch_on", "switch_off", tasks')
      <4>1. AllBehind("switch_on", "switch_off", tasks)
        BY DEF FlashInv, OffIsDue
      <4>2. In("switch_on", tasks) => ~In("switch_off", Requests')
        BY <1>3, <1>6 DEF SwitchingOn
      <4> QED BY <1>2, <1>3, <1>7, <4>1, <4>2, BehindConcat
    <3>2. In("switch_off", Requests') => at \notin {"switch_on", "light", "lit"}
      BY <1>3, <1>6 DEF SwitchingOn
    <3>3. at = "switch_off" \/ In("switch_off", tasks) =>
             Age' >= OnTime /\ at \notin {"switch_on", "light", "lit"}
      BY <1>5 DEF FlashInv, OffIsDue
    <3>4. at = "switch_off" \/ In("switch_off", tasks') =>
             Age' >= OnTime /\ at \notin {"switch_on", "light", "lit"}
      BY <1>3, <1>5, <2>1, <3>2, <3>3
    <3> QED BY <1>2, <3>1, <3>4 DEF OffIsDue, AllBehind, In
  <2>5. StaleOn'
    <3>1. ASSUME at \in {"light", "lit"} PROVE Age' <= lag'
      <4>1. Age <= lag /\ SwitchingOn
        BY <3>1 DEF FlashInv, StaleOn, SwitchingOn
      <4> QED BY <1>5, <1>6, <4>1
    <3>2. ASSUME state_on, SwitchingOn' PROVE Age' <= lag' \/ lag' = MaxLag
      <4>1. CASE SwitchingOn
        BY <1>5, <1>6, <3>2, <4>1
      <4>2. CASE e1 >= BlinkPeriod
        <5>1. ~(Age < OnTime + drops)
          BY <1>5, <4>2
        <5>2. SwitchingOff /\ Age <= OnTime + drops + lag
          BY <3>2, <5>1 DEF FlashInv, NotOnForLong
        <5> QED BY <1>5, <1>6, <4>2, <5>2
      <4> QED BY <2>2, <3>2, <4>1, <4>2
    <3> QED BY <1>2, <3>1, <3>2 DEF StaleOn
  <2>6. NotOnForLong'
    <3> SUFFICES ASSUME state_on
                 PROVE  IF SwitchingOff' THEN Age' <= OnTime + drops + lag'
                        ELSE Age' < OnTime + drops
      BY <1>2, <1>7 DEF NotOnForLong
    <3>1. CASE SwitchingOff
      <4>1. Age <= OnTime + drops + lag
        BY <3>1 DEF FlashInv, NotOnForLong
      <4> QED BY <1>5, <1>6, <2>2, <3>1, <4>1
    <3>2. CASE ~SwitchingOff
      <4>1. Age < OnTime + drops
        BY <3>2 DEF FlashInv, NotOnForLong
      <4>2. /\ Age' <= OnTime + drops + lag'
            /\ e1 >= OnTime \/ Age' < OnTime + drops
        BY <1>5, <4>1
      <4> QED BY <2>2, <3>2, <4>2
    <3> QED BY <3>1, <3>2
  <2> QED BY <1>2, <2>3, <2>4, <2>5, <2>6 DEF FlashInv
<1>8. CASE tasks' = tasks /\ tasks = <<>> /\ drops' = drops + 1
  <2>1. SwitchingOn' = SwitchingOn /\ SwitchingOff' = SwitchingOff
    BY <1>2, <1>8 DEF SwitchingOn, SwitchingOff, In
  <2>2. OffIsDue'
    BY <1>2, <1>5, <1>8 DEF FlashInv, OffIsDue, AllBehind, In
  <2>3. StaleOn'
    <3>1. ASSUME at \in {"light", "lit"} PROVE Age' <= lag'
      <4>1. Age <= lag /\ SwitchingOn
        BY <3>1 DEF FlashInv, StaleOn, SwitchingOn
      <4> QED BY <1>6, <4>1
    <3>2. ASSUME state_on, SwitchingOn PROVE Age' <= lag'
      BY <1>6, <3>2
    <3> QED BY <1>2, <2>1, <3>1, <3>2 DEF StaleOn
  <2>4. NotOnForLong'
    <3> SUFFICES ASSUME state_on
                 PROVE  IF SwitchingOff THEN Age' <= OnTime + (drops + 1) + lag'
                        ELSE Age' < OnTime + (drops + 1)
      BY <1>2, <1>8, <2>1 DEF NotOnForLong
    <3>1. CASE SwitchingOff
      <4>1. Age <= OnTime + drops + lag
        BY <3>1 DEF FlashInv, NotOnForLong
      <4> QED BY <1>6, <3>1, <4>1
    <3>2. CASE ~SwitchingOff
      <4>1. Age < OnTime + drops
        BY <3>2 DEF FlashInv, NotOnForLong
      <4> QED BY <1>5, <3>2, <4>1
    <3> QED BY <3>1, <3>2
  <2>5. /\ \A i \in DOMAIN tasks' : tasks'[i] \in {"switch_on", "switch_off", "activate"}
        /\ at' \in {"kernel", "switch_on", "light", "lit", "switch_off", "dark", "activate",
                    "pilot in command"}
    BY <1>2, <1>8 DEF FlashInv
  <2> QED BY <2>2, <2>3, <2>4, <2>5 DEF FlashInv
<1> QED BY <1>7, <1>8 DEF Tick, Enlist

\* The next task starts: what waited now runs.
LEMMA FlashDispatch ==
    ASSUME RoutineInv, FlashInv, Dispatch,
           UNCHANGED <<clock, commander, blink, built>>
    PROVE  FlashInv'
<1>1. /\ tasks \in Seq(Entries) /\ tasks # <<>> /\ at = "kernel"
      /\ tasks' = Tail(tasks) /\ at' = Head(tasks)
      /\ UNCHANGED <<ticks, state_on, lag, drops>>
  BY DEF RoutineInv, Dispatch, clock, blink
<1>2. \A t : In(t, tasks) <=> at' = t \/ In(t, tasks')
  BY <1>1, InTail
<1>3. /\ AllBehind("switch_on", "switch_off", tasks')
      /\ at' = "switch_on" => ~In("switch_off", tasks')
  BY <1>1, BehindTail DEF FlashInv, OffIsDue
<1>4. \A t : In(t, tasks) => t \in {"switch_on", "switch_off", "activate"}
  BY DEF FlashInv, In
<1>5. /\ at' \in {"switch_on", "switch_off", "activate"}
      /\ \A i \in DOMAIN tasks' : tasks'[i] \in {"switch_on", "switch_off", "activate"}
  BY <1>2, <1>4 DEF In
<1>6. /\ SwitchingOn' <=> SwitchingOn
      /\ SwitchingOff' <=> SwitchingOff
  BY <1>1, <1>2, <1>5 DEF SwitchingOn, SwitchingOff, In
<1>7. OffIsDue'
  <2>1. at' = "switch_off" \/ In("switch_off", tasks') =>
           Age >= OnTime /\ at' \notin {"switch_on", "light", "lit"}
    BY <1>2, <1>3, <1>5 DEF FlashInv, OffIsDue
  <2> QED BY <1>1, <1>3, <2>1 DEF OffIsDue, AllBehind, In, Age
<1>8. StaleOn' /\ NotOnForLong'
  BY <1>1, <1>5, <1>6 DEF FlashInv, StaleOn, NotOnForLong, Age
<1> QED BY <1>5, <1>7, <1>8 DEF FlashInv

\* The two tasks of the LED, and the commander's.
LEMMA FlashTask ==
    ASSUME EnoughTime, RoutineInv, lag \in 0 .. MaxLag, drops \in 0 .. MaxDrops, FlashInv,
           \/ BlinkTask /\ UNCHANGED commander
           \/ Activate /\ UNCHANGED blink
    PROVE  FlashInv'
<1>1. /\ "last_on_time" \in Stamp /\ ticks \in [Stamp -> 0 .. Period]
      /\ {lag, MaxLag, OnTime, Age, drops, 0} \subseteq Nat
      /\ MaxLag < OnTime /\ lag <= MaxLag
  BY RoutineAssumption, SchedulerAssumption, PeriodAssumption
     DEF BlinkStamps, EnoughTime, RoutineInv, ClockInv, ClockTypeOK, Age
<1>2. /\ 0 <= lag
      /\ \A a \in {0, Age} : a <= lag => a < OnTime + drops
  <2>1. \A a, l, m, o, d \in Nat : m < o /\ l <= m => 0 <= l /\ (a <= l => a < o + d)
    OBVIOUS
  <2> QED BY <1>1, <2>1
<1>3. /\ tasks' = tasks /\ drops' = drops
      /\ \A t : In(t, tasks) => tasks # <<>>
      /\ \A t : In(t, tasks') <=> In(t, tasks)
  BY InEmpty DEF BlinkTask, SwitchOn, SwitchOff, Activate, GoTo, Return, In
<1> DEFINE On  == {"switch_on", "light", "lit"}
           Off == {"switch_off", "dark"}
<1>4. ASSUME at' \in {"kernel", "light", "lit", "dark", "pilot in command"},
             In("switch_off", tasks) => Age' = Age /\ at' \notin On,
             StaleOn', NotOnForLong'
      PROVE  FlashInv'
  <2>1. OffIsDue'
    BY <1>3, <1>4 DEF FlashInv, OffIsDue, AllBehind
  <2> QED BY <1>3, <1>4, <2>1 DEF FlashInv
<1>5. /\ at \in On => ~In("switch_off", tasks)
      /\ at \in {"light", "lit"} => Age <= lag
      /\ state_on /\ SwitchingOn => Age <= lag \/ lag = MaxLag
      /\ state_on /\ SwitchingOff => Age <= OnTime + drops + lag
      /\ state_on /\ ~SwitchingOff => Age < OnTime + drops
  BY DEF FlashInv, OffIsDue, StaleOn, NotOnForLong
<1>6. /\ SwitchingOn' <=> at' \in On \/ In("switch_on", tasks)
      /\ SwitchingOff' <=> at' \in Off \/ In("switch_off", tasks)
      /\ SwitchingOn <=> at \in On \/ In("switch_on", tasks)
      /\ SwitchingOff <=> at \in Off \/ In("switch_off", tasks)
  BY <1>3 DEF SwitchingOn, SwitchingOff, In
<1>7. CASE SwitchOn
  <2>1. CASE at = "switch_on"
    <3>1. /\ at' = "light" /\ Age' = 0 /\ lag' = lag /\ state_on' = state_on
      BY <1>1, <1>7, <2>1 DEF SwitchOn, TakeStamp, GoTo, Age, blink
    <3>2. 0 <= lag' /\ 0 < OnTime + drops'
      BY <1>2, <1>3, <3>1
    <3>3. ~SwitchingOff'
      BY <1>5, <1>6, <2>1, <3>1
    <3>4. StaleOn' /\ NotOnForLong'
      BY <3>1, <3>2, <3>3 DEF StaleOn, NotOnForLong
    <3> QED BY <1>4, <1>5, <2>1, <3>1, <3>4
  <2>2. CASE at = "light"
    <3>1. /\ at' = "lit" /\ Age' = Age /\ lag' = lag /\ state_on' = state_on
      BY <1>7, <2>2 DEF SwitchOn, GoTo, Age, clock
    <3>2. /\ SwitchingOn' <=> SwitchingOn
          /\ SwitchingOff' <=> SwitchingOff
      BY <1>6, <2>2, <3>1
    <3>3. StaleOn' /\ NotOnForLong'
      BY <1>3, <1>5, <2>2, <3>1, <3>2 DEF StaleOn, NotOnForLong
    <3> QED BY <1>4, <1>5, <2>2, <3>1, <3>3
  <2>3. CASE at = "lit"
    <3>1. /\ at' = "kernel" /\ Age' = Age /\ (tasks # <<>> => lag' = lag)
      BY <1>7, <2>3 DEF SwitchOn, Return, Age, clock
    <3>2. Age <= lag /\ Age < OnTime + drops /\ ~SwitchingOff'
      BY <1>2, <1>5, <1>6, <2>3, <3>1
    <3>3. SwitchingOn' => lag' = lag
      BY <1>3, <1>6, <3>1
    <3>4. StaleOn' /\ NotOnForLong'
      BY <1>3, <3>1, <3>2, <3>3 DEF StaleOn, NotOnForLong
    <3> QED BY <1>4, <1>5, <2>3, <3>1, <3>4
  <2> QED BY <1>7, <2>1, <2>2, <2>3 DEF SwitchOn
<1>8. CASE SwitchOff
  <2>1. CASE at = "switch_off"
    <3>1. /\ at' = "dark" /\ Age' = Age /\ lag' = lag /\ state_on' = state_on
      BY <1>8, <2>1 DEF SwitchOff, GoTo, Age, clock
    <3>2. /\ SwitchingOn' <=> SwitchingOn
          /\ SwitchingOff' <=> SwitchingOff
      BY <1>6, <2>1, <3>1
    <3>3. StaleOn' /\ NotOnForLong'
      BY <1>3, <1>5, <2>1, <3>1, <3>2 DEF StaleOn, NotOnForLong
    <3> QED BY <1>4, <3>1, <3>3
  <2>2. CASE at = "dark"
    <3>1. at' = "kernel" /\ Age' = Age /\ state_on' = FALSE
      BY <1>8, <2>2 DEF SwitchOff, Return, Age, clock
    <3>2. StaleOn' /\ NotOnForLong'
      BY <3>1 DEF StaleOn, NotOnForLong
    <3> QED BY <1>4, <3>1, <3>2
  <2> QED BY <1>8, <2>1, <2>2 DEF SwitchOff
<1>9. CASE Activate /\ UNCHANGED blink
  <2>1. /\ at \in {"activate", "pilot in command"} /\ at' \in {"kernel", "pilot in command"}
        /\ Age' = Age /\ (tasks # <<>> => lag' = lag) /\ state_on' = state_on
    BY <1>9 DEF Activate, GoTo, Return, Age, clock, blink
  <2>2. /\ SwitchingOn' <=> SwitchingOn
        /\ SwitchingOff' <=> SwitchingOff
    BY <1>6, <2>1
  <2>3. SwitchingOn' \/ SwitchingOff' => lag' = lag
    BY <1>3, <1>6, <2>1
  <2>4. StaleOn' /\ NotOnForLong'
    BY <1>3, <1>5, <2>1, <2>2, <2>3 DEF StaleOn, NotOnForLong
  <2> QED BY <1>4, <2>1, <2>4
<1> QED BY <1>7, <1>8, <1>9 DEF BlinkTask

\* Every step keeps the invariant of the LED.
LEMMA LedStep ==
    ASSUME EnoughTime, RoutineInv, LedInv, [Next]_vars PROVE LedInv'
<1>1. lag' \in 0 .. MaxLag /\ drops' \in 0 .. MaxDrops
  BY LagBounded DEF LedInv
<1>2. CASE built = "none"
  <2>1. tasks = <<>> /\ at = "kernel" /\ ~state_on
    BY <1>2 DEF LedInv
  <2>2. ~FileTask
    BY <2>1 DEF FileTask, Handle, Flush, Handler
  <2>3. ~Task
    BY <2>1, <2>2 DEF Task, Dispatch, GpsTask, Update, StampUpdate, Telemetry, StampTelemetry,
                      Lock, ReportState, Activate, BlinkTask, SwitchOn, SwitchOff,
                      HandleMessage, RequesterTask, Request, Answer, StampRequest
  <2>4. UNCHANGED <<tasks, at, state_on>>
    BY <1>2, <2>3 DEF Next, SetUp, ActivateInterrupts, Tick, Send, scheduling, blink, vars
  <2>5. ~SwitchingOn' /\ ~SwitchingOff'
    BY <2>1, <2>4, InEmpty DEF SwitchingOn, SwitchingOff
  <2>6. FlashInv'
    BY <2>1, <2>4, <2>5, InEmpty DEF FlashInv, OffIsDue, AllBehind, StaleOn, NotOnForLong
  <2> QED BY <1>1, <2>1, <2>4, <2>5, <2>6 DEF LedInv
<1>3. CASE built \in Systems \ {"system_timing"}
  <2>1. built' = built /\ ~SwitchingOn' /\ ~SwitchingOff'
    BY <1>3, LedOnlyThere DEF LedInv
  <2> QED BY <1>1, <1>3, <2>1 DEF LedInv, Systems
<1>4. CASE built = "system_timing"
  <2>1. FlashInv /\ lag \in 0 .. MaxLag /\ drops \in 0 .. MaxDrops
    BY <1>4 DEF LedInv
  <2>2. at \in {"kernel", "switch_on", "light", "lit", "switch_off", "dark", "activate",
                "pilot in command"}
    BY <2>1 DEF FlashInv
  <2>3. ~FileTask /\ ~GpsTask /\ ~HandleMessage /\ ~RequesterTask
    <3>1. \A p \in DOMAIN Handler : Handler[p] \in {"handle_MSG", "handle_AHRS", "handle_GYRO"}
      BY DEF Handler
    <3>2. ~FileTask
      BY <2>2, <3>1 DEF FileTask, Handle, Flush
    <3>3. ~GpsTask
      BY <2>2 DEF GpsTask, Update, StampUpdate, Telemetry, StampTelemetry, Lock, ReportState
    <3>4. ~HandleMessage /\ ~RequesterTask
      BY <2>2 DEF HandleMessage, RequesterTask, Request, Answer, StampRequest
    <3> QED BY <3>2, <3>3, <3>4
  <2>4. built' = built
    BY <1>4 DEF Next, SetUp, ActivateInterrupts, Tick, Task, Send, vars
  <2>5. FlashInv'
    <3>1. CASE Tick
      BY <1>4, <2>1, <3>1, FlashTick
    <3>2. CASE Dispatch /\ UNCHANGED <<clock, commander, blink, built>>
      BY <2>1, <3>2, FlashDispatch
    <3>3. CASE (BlinkTask /\ UNCHANGED commander) \/ (Activate /\ UNCHANGED blink)
      BY <2>1, <3>3, FlashTask
    <3>4. CASE UNCHANGED vars
      <4>1. UNCHANGED <<tasks, at, lag, drops, ticks, state_on>>
        BY <3>4 DEF vars, clock, scheduling, blink
      <4>2. /\ SwitchingOn' = SwitchingOn /\ SwitchingOff' = SwitchingOff
            /\ Age' = Age
        BY <4>1 DEF SwitchingOn, SwitchingOff, In, Age
      <4>3. OffIsDue'
        BY <2>1, <4>1, <4>2 DEF FlashInv, OffIsDue, AllBehind, In
      <4>4. StaleOn' /\ NotOnForLong'
        BY <2>1, <4>1, <4>2 DEF FlashInv, StaleOn, NotOnForLong
      <4> QED BY <2>1, <4>1, <4>3, <4>4 DEF FlashInv
    <3>5. ~SetUp /\ ~ActivateInterrupts /\ ~Send
      BY <1>4 DEF SetUp, ActivateInterrupts, Send
    <3>6. Task => \/ Dispatch /\ UNCHANGED <<clock, commander, blink, built>>
                  \/ BlinkTask /\ UNCHANGED commander
                  \/ Activate /\ UNCHANGED blink
      BY <2>3 DEF Task
    <3>7. Tick \/ Task \/ UNCHANGED vars
      BY <3>5 DEF Next
    <3> QED BY <3>1, <3>2, <3>3, <3>4, <3>6, <3>7
  <2> QED BY <1>1, <1>4, <2>4, <2>5 DEF LedInv
<1> QED BY <1>2, <1>3, <1>4 DEF RoutineInv

LEMMA LedInit == Init => LedInv
<1> SUFFICES ASSUME Init PROVE LedInv
  OBVIOUS
<1>1. /\ built = "none" /\ tasks = <<>> /\ at = "kernel" /\ ~state_on /\ lag = 0
      /\ drops = 0
  BY DEF Init, SchedulerInit, BlinkInit
<1>2. ~SwitchingOn /\ ~SwitchingOff
  BY <1>1, InEmpty DEF SwitchingOn, SwitchingOff
<1> QED BY <1>1, <1>2, SchedulerAssumption DEF LedInv

\* If the kernel loop catches up before the on-time of the LED is over, and the off-time
\* leaves room for that too, no task scheduled for an earlier flash cuts a flash short,
\* although switch_off and switch_on are scheduled again on every tick until they have run
\* and the list may drop them (blink.cpp:27-46).
THEOREM FlashesLastLongEnough == EnoughTime => (Spec => FlashesLongEnough)
<1> SUFFICES ASSUME EnoughTime PROVE Spec => FlashesLongEnough
  OBVIOUS
<1>1. RoutineInv /\ LedInv /\ [Next]_vars => LedInv'
  BY LedStep
<1>2. RoutineInv /\ LedInv /\ [Next]_vars
         => [led /\ ~led' => ticks["last_on_time"] >= OnTime]_blink
  <2> SUFFICES ASSUME LedInv, [Next]_vars, led, ~led'
               PROVE  ticks["last_on_time"] >= OnTime
    BY DEF blink
  <2>1. BlinkTask
    BY DEF Next, SetUp, ActivateInterrupts, Tick, Task, Send, blink, vars
  <2>2. at = "switch_off"
    BY <2>1 DEF BlinkTask, SwitchOn, SwitchOff, blink
  <2>3. built = "system_timing"
    BY <2>2 DEF LedInv, SwitchingOff
  <2> QED BY <2>2, <2>3 DEF LedInv, FlashInv, OffIsDue, Age
<1> QED BY <1>1, <1>2, LedInit, RoutineInvariant, PTL DEF Spec, FlashesLongEnough
=============================================================================
