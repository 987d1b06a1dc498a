---------------------------- MODULE SystemProofs ----------------------------
(***************************************************************************)
(* The sensor keeps its inductive invariant, for whatever the other        *)
(* modules schedule and whatever transfers fail: no transfer of            *)
(* read_sensor is ever cut off, and what is sent can be traced.  The       *)
(* system of sensor and display implements the sensor among other modules, *)
(* whose theorems it inherits; the display's updates are drawn to their    *)
(* end; and the sizes of the streams stay right as long as the task list   *)
(* is empty at least every 10 ms.                                          *)
(***************************************************************************)
EXTENDS System, SeqLemmas, FiniteSetTheorems

\* What one interrupt asks for is one task at most, and a read only in the run level
\* operational.
LEMMA RequestFacts ==
    /\ ImuRequests \in Seq(TaskNames)
    /\ \A i \in DOMAIN ImuRequests :
          \/ imu_runlevel = "operational" /\ ImuRequests[i] = "read_sensor"
          \/ imu_runlevel = "setup_ok" /\ ImuRequests[i] = "check_calibration"
<1>0. "read_sensor" \in TaskNames /\ "check_calibration" \in TaskNames
  BY DEF TaskNames, ImuEntries
<1>1. CASE imu_runlevel = "operational"
  <2>1. ImuRequests = <<"read_sensor">>
    BY <1>1 DEF ImuRequests
  <2> QED BY <1>0, <1>1, <2>1
<1>2. CASE imu_runlevel = "setup_ok" /\ CalibAge > CalibPeriod
  <2>1. ImuRequests = <<"check_calibration">>
    BY <1>2 DEF ImuRequests
  <2> QED BY <1>0, <1>2, <2>1
<1>3. CASE ~(imu_runlevel = "operational" \/ (imu_runlevel = "setup_ok" /\ CalibAge > CalibPeriod))
  <2>1. ImuRequests = <<>>
    BY <1>3 DEF ImuRequests
  <2> QED BY <2>1
<1> QED BY <1>1, <1>2, <1>3

\* The initial states.
LEMMA InitInv == MotionInit => BusInv
BY DEF MotionInit, ImuInit, BusInv, MotionTypeOK, ChecksBeforeReads, PhasesApart,
       BusInUse, Checks, Reads, Reading, InFlight

\* What a tick appends: nothing of the other phase than the one the run level says.
LEMMA TickInv ==
    ASSUME BusInv, MotionTick
    PROVE  BusInv'
<1>0. /\ tasks \in Seq(TaskNames)
      /\ UNCHANGED <<imu_runlevel, query_state, bus, at>>
      /\ at \notin {"setup", "set up"}
  BY DEF BusInv, MotionTypeOK, MotionTick, ImuInterrupt
<1>1. CASE UNCHANGED tasks
  BY <1>0, <1>1 DEF BusInv, MotionTypeOK, ChecksBeforeReads, PhasesApart, BusInUse,
     Checks, Reads, Reading, InFlight
<1>2. ASSUME NEW o \in Others, tasks' = tasks \o (o \o ImuRequests)
      PROVE  BusInv'
  <2> DEFINE r == o \o ImuRequests
  <2>1. o \in Seq(TaskNames) /\ \A i \in DOMAIN o : o[i] \notin ImuEntries
    <3>1. o \in Seq(OtherNames) /\ \A n \in OtherNames : n \notin ImuEntries
      BY MotionAssumption DEF ImuSteps
    <3>2. \A i \in DOMAIN o : o[i] \in OtherNames
      BY <3>1
    <3> QED BY <3>1, <3>2 DEF TaskNames
  <2>2. /\ r \in Seq(TaskNames)
        /\ DOMAIN r = 1 .. Len(r) /\ Len(r) \in Nat
        /\ \A i \in DOMAIN r :
             \/ r[i] \notin ImuEntries
             \/ imu_runlevel = "operational" /\ r[i] = "read_sensor"
             \/ imu_runlevel = "setup_ok" /\ r[i] = "check_calibration"
    <3>1. DOMAIN o = 1 .. Len(o) /\ DOMAIN ImuRequests = 1 .. Len(ImuRequests)
      BY <2>1, RequestFacts
    <3>2. r \in Seq(TaskNames) /\ Len(r) = Len(o) + Len(ImuRequests) /\ DOMAIN r = 1 .. Len(r)
      BY <2>1, RequestFacts, ConcatProperties
    <3>3. ASSUME NEW i \in DOMAIN r
          PROVE  \/ r[i] \notin ImuEntries
                 \/ imu_runlevel = "operational" /\ r[i] = "read_sensor"
                 \/ imu_runlevel = "setup_ok" /\ r[i] = "check_calibration"
      <4>0. Len(o) \in Nat /\ Len(ImuRequests) \in Nat
        BY <2>1, RequestFacts
      <4>1. CASE i \in 1 .. Len(o)
        BY <2>1, <3>1, <4>1, RequestFacts, ConcatFacts
      <4>2. CASE i \in Len(o) + 1 .. Len(o) + Len(ImuRequests)
        <5>1. i - Len(o) \in DOMAIN ImuRequests /\ r[i] = ImuRequests[i - Len(o)]
          BY <2>1, <3>1, <4>2, RequestFacts, ConcatFacts
        <5> QED BY <5>1, RequestFacts
      <4> QED BY <3>2, <4>0, <4>1, <4>2
    <3>4. Len(r) \in Nat
      BY <3>2
    <3> QED BY <3>2, <3>3, <3>4
  <2> HIDE DEF r
  <2>3. tasks' = tasks \o r
    BY <1>2 DEF r
  <2>4. /\ tasks' \in Seq(TaskNames)
        /\ Len(tasks) \in Nat
        /\ DOMAIN tasks = 1 .. Len(tasks)
        /\ DOMAIN tasks' = 1 .. Len(tasks) + Len(r)
        /\ \A i \in 1 .. Len(tasks) : tasks'[i] = tasks[i]
        /\ \A i \in Len(tasks) + 1 .. Len(tasks) + Len(r) :
             \/ tasks'[i] \notin ImuEntries
             \/ imu_runlevel = "operational" /\ tasks'[i] = "read_sensor"
             \/ imu_runlevel = "setup_ok" /\ tasks'[i] = "check_calibration"
    <3>1. /\ tasks \o r \in Seq(TaskNames)
          /\ DOMAIN (tasks \o r) = 1 .. Len(tasks) + Len(r)
          /\ Len(tasks) \in Nat
          /\ \A i \in 1 .. Len(tasks) : (tasks \o r)[i] = tasks[i]
          /\ \A i \in Len(tasks) + 1 .. Len(tasks) + Len(r) :
                i - Len(tasks) \in 1 .. Len(r) /\ (tasks \o r)[i] = r[i - Len(tasks)]
      BY <1>0, <2>2, ConcatFacts, ZenonT(60)
    <3>2. DOMAIN tasks = 1 .. Len(tasks)
      <4>1. tasks \in Seq(TaskNames)
        BY <1>0
      <4> QED BY <4>1
    <3> QED BY <2>2, <2>3, <3>1, <3>2
  <2>5. /\ Checks' \subseteq Checks \union (Len(tasks) + 1 .. Len(tasks) + Len(r))
        /\ Reads' \subseteq Reads \union (Len(tasks) + 1 .. Len(tasks) + Len(r))
        /\ imu_runlevel # "setup_ok" => Checks' \subseteq Checks
        /\ imu_runlevel # "operational" => Reads' \subseteq Reads
    BY <2>4 DEF Checks, Reads, ImuEntries
  <2>6. Checks \subseteq 1 .. Len(tasks) /\ Reads \subseteq 1 .. Len(tasks)
    BY <2>4 DEF Checks, Reads
  <2>7. Reading' = Reading
    BY <1>0 DEF Reading, InFlight
  <2>8. MotionTypeOK'
    BY <1>0, <2>4 DEF BusInv, MotionTypeOK
  <2>9. ChecksBeforeReads'
    <3> SUFFICES ASSUME NEW i \in Checks', NEW j \in Reads' PROVE i < j
      BY DEF ChecksBeforeReads
    <3>1. CASE imu_runlevel = "operational"
      <4>1. i \in Checks
        BY <2>5, <3>1
      <4>2. CASE j \in Reads
        BY <4>1, <4>2 DEF BusInv, ChecksBeforeReads
      <4>3. CASE j \in Len(tasks) + 1 .. Len(tasks) + Len(r)
        BY <2>2, <2>4, <2>6, <4>1, <4>3
      <4> QED BY <2>5, <4>2, <4>3
    <3>2. CASE imu_runlevel # "operational"
      BY <2>5, <3>2 DEF BusInv, PhasesApart
    <3> QED BY <3>1, <3>2
  <2>10. PhasesApart'
    <3>1. Reading => imu_runlevel = "operational" /\ Checks = {}
      BY <1>0 DEF BusInv, PhasesApart
    <3>2. imu_runlevel # "operational" => Reads = {}
      BY DEF BusInv, PhasesApart
    <3>3. at \in {"check", "check_calibration"} => ~Reading
      BY DEF BusInv, PhasesApart
    <3> QED BY <1>0, <2>5, <2>7, <3>1, <3>2, <3>3 DEF PhasesApart
  <2>11. BusInUse'
    BY <1>0 DEF BusInv, BusInUse, InFlight
  <2> QED BY <2>8, <2>9, <2>10, <2>11 DEF BusInv
<1> QED BY <1>1, <1>2 DEF MotionTick

\* Taking the front task: a read can only come up once no check is left.
LEMMA DispatchInv ==
    ASSUME BusInv, Dispatch, UNCHANGED imu
    PROVE  BusInv'
<1>0. /\ tasks \in Seq(TaskNames) /\ tasks # <<>>
      /\ at = "kernel" /\ at' = Head(tasks) /\ tasks' = Tail(tasks)
      /\ UNCHANGED <<imu_runlevel, query_state, bus>>
  BY DEF BusInv, MotionTypeOK, Dispatch, imu
<1>1. /\ Len(tasks) \in Nat \ {0}
      /\ DOMAIN tasks = 1 .. Len(tasks)
      /\ Head(tasks) = tasks[1]
      /\ tasks' \in Seq(TaskNames)
      /\ DOMAIN tasks' = 1 .. Len(tasks) - 1
      /\ \A i \in 1 .. Len(tasks) - 1 : tasks'[i] = tasks[i + 1]
  BY <1>0, TailFacts
<1>2. /\ \A i \in Checks' : i + 1 \in Checks /\ i \in Nat \ {0}
      /\ \A i \in Reads' : i + 1 \in Reads /\ i \in Nat \ {0}
  BY <1>1 DEF Checks, Reads
<1>3. /\ at' = "check_calibration" => 1 \in Checks
      /\ at' = "read_sensor" => 1 \in Reads
  BY <1>0, <1>1 DEF Checks, Reads
<1>4. at' = "read_sensor" => Checks = {}
  <2> SUFFICES ASSUME at' = "read_sensor", NEW i \in Checks PROVE FALSE
    OBVIOUS
  <2>1. i < 1
    BY <1>3 DEF BusInv, ChecksBeforeReads
  <2>2. i >= 1
    BY <1>1 DEF Checks
  <2> QED BY <1>1, <2>1, <2>2 DEF Checks
<1>5. Head(tasks) \in TaskNames
  BY <1>0, <1>1
<1>6. at' \notin Internal
  BY <1>0, <1>5, MotionAssumption DEF TaskNames, ImuSteps, ImuEntries, Internal
<1>7. Reading' => at' = "read_sensor" \/ Reading
  BY <1>0, <1>6 DEF Reading, InFlight, Internal
<1>8. Reading => Checks = {}
  BY DEF BusInv, PhasesApart
<1>9. imu_runlevel # "operational" => Reads = {} /\ ~Reading
  BY DEF BusInv, PhasesApart
<1>10. MotionTypeOK'
  BY <1>0, <1>1 DEF BusInv, MotionTypeOK
<1>11. ChecksBeforeReads'
  <2> SUFFICES ASSUME NEW i \in Checks', NEW j \in Reads' PROVE i < j
    BY DEF ChecksBeforeReads
  <2>1. i + 1 < j + 1
    BY <1>2 DEF BusInv, ChecksBeforeReads
  <2> QED BY <1>2, <2>1
<1>12. PhasesApart'
  <2>1. at' \in {"check", "check_calibration"} => ~Reading'
    BY <1>3, <1>6, <1>7, <1>8 DEF Internal
  <2>2. Reading' => Checks' = {}
    BY <1>2, <1>4, <1>7, <1>8
  <2>3. imu_runlevel # "operational" => Reads' = {} /\ ~Reading'
    BY <1>2, <1>3, <1>7, <1>9
  <2> QED BY <1>0, <1>6, <2>1, <2>2, <2>3 DEF PhasesApart, Internal
<1>13. BusInUse'
  BY <1>0, <1>6 DEF BusInv, BusInUse, InFlight, Internal
<1> QED BY <1>10, <1>11, <1>12, <1>13 DEF BusInv

\* The steps of setup(), which runs before the interrupts do.
LEMMA SetupInv ==
    ASSUME BusInv, SetupCheck \/ SetupEnd
    PROVE  BusInv'
BY DEF BusInv, MotionTypeOK, ChecksBeforeReads, PhasesApart, BusInUse, Checks, Reads,
       Reading, InFlight, SetupCheck, SetupEnd, ReadCalibration, GoTo

\* check_calibration never runs while read_sensor is at work.
LEMMA CheckInv ==
    ASSUME BusInv, CheckStart \/ CheckEnd
    PROVE  BusInv'
BY DEF BusInv, MotionTypeOK, ChecksBeforeReads, PhasesApart, BusInUse, Checks, Reads,
       Reading, InFlight, CheckStart, CheckEnd, ReadCalibration, GoTo, Return

\* read_sensor: no check is left, and the state says whether the bus is in use.
LEMMA ReadInv ==
    ASSUME BusInv,
           ReadInit \/ ReadRequest \/ ReadFetch \/ Send \/ Sent \/ CloseLoop
    PROVE  BusInv'
<1> USE DEF BusInv, MotionTypeOK, ChecksBeforeReads, PhasesApart, BusInUse, Checks,
            Reads, Reading, InFlight, GoTo, Return, imu
<1>1. CASE ReadInit
  BY <1>1 DEF ReadInit
<1>2. CASE ReadRequest
  BY <1>2 DEF ReadRequest, Finished
<1>3. CASE ReadFetch
  BY <1>3 DEF ReadFetch, Finished
<1>4. CASE Send
  BY <1>4 DEF Send
<1>5. CASE Sent
  BY <1>5 DEF Sent
<1>6. CASE CloseLoop
  BY <1>6 DEF CloseLoop
<1> QED BY <1>1, <1>2, <1>3, <1>4, <1>5, <1>6

\* A transfer ends; a task of another module goes on; nothing happens.
LEMMA OtherInv ==
    ASSUME BusInv, Bus \/ OtherTask \/ UNCHANGED motionVars
    PROVE  BusInv'
<1> USE DEF BusInv, MotionTypeOK, ChecksBeforeReads, PhasesApart, BusInUse, Checks,
            Reads, Reading, InFlight
<1>1. CASE Bus
  BY <1>1 DEF Bus, WriteEnds, ReadEnds, scheduling
<1>2. CASE OtherTask
  BY <1>2 DEF OtherTask, imu, ImuSteps, Internal, ImuEntries
<1>3. CASE UNCHANGED motionVars
  BY <1>3 DEF motionVars, imu
<1> QED BY <1>1, <1>2, <1>3

\* The data of a loop: each step hands on what the one before has brought, unless an error
\* was recorded; only check_calibration would come in between.
LEMMA TraceStep ==
    ASSUME BusInv, LoopTraced, [MotionNext]_motionVars
    PROVE  LoopTraced'
<1>0. /\ at \in {"setup", "set up", "check", "check_calibration"} => query_state = 0
      /\ at = "transmit" => query_state \in {3, 7}
      /\ bus \in {"write", "read"} => query_state \in {1, 2, 5, 6}
  BY DEF BusInv, MotionTypeOK, PhasesApart, BusInUse, Reading, InFlight
<1>1. CASE SetupCheck \/ SetupEnd \/ CheckStart \/ CheckEnd
  <2>1. query_state = 0 /\ UNCHANGED query_state
    BY <1>0, <1>1 DEF SetupCheck, SetupEnd, CheckStart, CheckEnd
  <2>2. bus \notin {"write", "read"}
    BY <1>0, <2>1
  <2>3. bus' \notin {"write", "read"}
    BY <1>1, <2>2 DEF SetupCheck, SetupEnd, CheckStart, CheckEnd, ReadCalibration
  <2> QED BY <2>1, <2>3 DEF LoopTraced
<1>2. CASE ReadInit
  <2>1. /\ query_state' \in {1, 5}
        /\ \/ bus' = "write" /\ errors' = {}
           \/ bus' = "idle" /\ errors' = {"address"}
    BY <1>2 DEF ReadInit
  <2> QED BY <2>1 DEF LoopTraced
<1>3. CASE ReadRequest
  <2>1. CASE UNCHANGED <<bus, query_state>>
    BY <1>3, <2>1 DEF ReadRequest, LoopTraced, Wanted, Genuine
  <2>2. CASE /\ Finished /\ bus' = "read" /\ query_state' = query_state + 1
             /\ query_state \in {1, 5}
             /\ UNCHANGED <<pointer, received, sample, errors>>
    <3>1. Wanted' = Wanted /\ query_state' \in {2, 6} /\ bus \notin {"write", "read"}
      BY <2>2 DEF Finished, InFlight, Wanted
    <3> QED BY <2>2, <3>1 DEF LoopTraced
  <2> QED BY <1>3, <2>1, <2>2 DEF ReadRequest
<1>4. CASE ReadFetch
  <2>1. CASE UNCHANGED <<query_state, sample, errors>>
    BY <1>4, <2>1 DEF ReadFetch, LoopTraced, Wanted, Genuine
  <2>2. CASE /\ Finished /\ query_state' = query_state + 1 /\ query_state \in {2, 6}
             /\ \/ received # "short" /\ sample' = received /\ UNCHANGED errors
                \/ errors' = errors \union {"reported"}
             /\ UNCHANGED <<bus, pointer, received>>
    <3>1. Wanted' = Wanted /\ query_state' \in {3, 7} /\ bus \notin {"write", "read"}
      BY <2>2 DEF Finished, InFlight, Wanted
    <3> QED BY <2>2, <3>1 DEF LoopTraced, Genuine
  <2> QED BY <1>4, <2>1, <2>2 DEF ReadFetch
<1>5. CASE Sent \/ CloseLoop
  <2>1. query_state \in {3, 7, 8, 9} /\ bus' = bus
    <3>1. CASE Sent
      BY <1>0, <3>1 DEF Sent
    <3>2. CASE CloseLoop
      BY <3>2 DEF CloseLoop
    <3> QED BY <1>5, <3>1, <3>2
  <2>2. query_state' \notin {1, 2, 3, 5, 6, 7}
    BY <1>5, <2>1 DEF Sent, CloseLoop
  <2>3. bus \notin {"write", "read"}
    <3>1. query_state \notin {1, 2, 5, 6}
      BY <2>1
    <3> QED BY <1>0, <3>1
  <2> QED BY <2>1, <2>2, <2>3 DEF LoopTraced
<1>6. CASE WriteEnds
  <2>1. /\ query_state \in {1, 5} /\ UNCHANGED query_state /\ bus' = "idle"
        /\ \/ pointer' = Wanted
           \/ errors' = errors \union {"address"}
    BY <1>6 DEF WriteEnds, LoopTraced
  <2>2. Wanted' = Wanted
    BY <2>1 DEF Wanted
  <2> QED BY <2>1, <2>2 DEF LoopTraced
<1>7. CASE ReadEnds
  <2>1. /\ query_state \in {2, 6} /\ bus' = "idle"
        /\ UNCHANGED <<query_state, errors>>
        /\ received' = pointer \/ received' = "short"
    BY <1>7 DEF ReadEnds, LoopTraced
  <2>2. errors = {} => pointer = Wanted
    BY <1>7, <2>1 DEF ReadEnds, LoopTraced
  <2>3. Wanted' = Wanted
    BY <2>1 DEF Wanted
  <2> QED BY <2>1, <2>2, <2>3 DEF LoopTraced
<1>8. CASE UNCHANGED <<bus, query_state, pointer, received, sample, errors>>
  <2>1. Wanted' = Wanted
    BY <1>8 DEF Wanted
  <2>2. /\ bus' = bus /\ query_state' = query_state /\ pointer' = pointer
        /\ received' = received /\ sample' = sample /\ errors' = errors
    BY <1>8
  <2>3. LoopTraced
    OBVIOUS
  <2> QED BY <2>1, <2>2, <2>3, SMTT(30) DEF LoopTraced, Genuine
<1>9. CASE MotionTick \/ (Dispatch /\ UNCHANGED imu) \/ OtherTask \/ Send \/ UNCHANGED motionVars
  <2>1. UNCHANGED <<bus, query_state, pointer, received, sample, errors>>
    BY <1>9 DEF MotionTick, ImuInterrupt, OtherTask, Send, motionVars, imu
  <2> QED BY <1>8, <2>1
<1> QED BY <1>1, <1>2, <1>3, <1>4, <1>5, <1>6, <1>7, <1>9
        DEF MotionNext, ImuTask, Bus

LEMMA TraceInit == MotionInit => LoopTraced
BY DEF MotionInit, ImuInit, LoopTraced

\* The inductive invariant, for any other modules, faults and period
\* (motion.cpp:164-349).
THEOREM MotionInvariant == MotionSpec => []MotionInv
<1>1. BusInv /\ [MotionNext]_motionVars => BusInv'
  BY TickInv, DispatchInv, SetupInv, CheckInv, ReadInv, OtherInv
     DEF MotionNext, ImuTask
<1>2. BusInv /\ LoopTraced /\ [MotionNext]_motionVars => LoopTraced'
  BY TraceStep
<1> QED BY InitInv, TraceInit, <1>1, <1>2, PTL DEF MotionSpec, MotionInv

\* No transfer of read_sensor is cut off by a waiting call or a new read
\* (motion.cpp:171, 226 and 281).
THEOREM BusIsExclusive == MotionSpec => []BusExclusive
<1>1. BusInv => BusExclusive
  <2>1. BusInv /\ at \in {"check", "check_calibration"} => ~InFlight
    BY DEF BusInv, PhasesApart, Reading
  <2>2. BusInv /\ query_state \in {0, 4} => ~InFlight
    BY DEF BusInv, BusInUse
  <2> QED BY <2>1, <2>2 DEF BusExclusive
<1> QED BY MotionInvariant, <1>1, PTL DEF MotionInv

\* Data that do not come from the register they are sent for are not sent without an error
\* that was reported, or an address the sensor did not get (motion.cpp:226-310).
THEOREM ErrorsNoticed == MotionSpec => []OnlyAddressErrorsUnnoticed
<1>1. MotionInv => OnlyAddressErrorsUnnoticed
  BY DEF MotionInv, BusInv, BusInUse, LoopTraced, OnlyAddressErrorsUnnoticed
<1> QED BY MotionInvariant, <1>1, PTL
-----------------------------------------------------------------------------
\* Every step of the system is one of the sensor, of a module unknown to it, or
\* nothing the sensor could notice.
LEMMA StepRefines ==
    ASSUME [Next]_vars
    PROVE  [MotionNext]_motionVars
<1> USE DEF motionVars
<1>1. CASE Tick
  <2>1. DisplayRequests \in Others
    BY SystemAssumption DEF DisplayRequests
  <2>2. \/ UNCHANGED tasks
        \/ tasks' = tasks \o (DisplayRequests \o ImuRequests)
    BY <1>1 DEF Tick, Enlist
  <2>3. MotionTick
    BY <1>1, <2>1, <2>2 DEF Tick, Enlist, MotionTick
  <2> QED BY <2>3 DEF MotionNext
<1>2. CASE Dispatch /\ UNCHANGED <<imu, stream, display>>
  BY <1>2 DEF MotionNext
<1>3. CASE ImuTask /\ UNCHANGED <<stream, display>>
  BY <1>3 DEF MotionNext
<1>4. CASE Transmit
  <2>1. CASE UNCHANGED <<scheduling, imu>>
    BY <2>1 DEF scheduling
  <2>2. CASE Sent
    BY <2>2 DEF MotionNext
  <2> QED BY <1>4, <2>1, <2>2 DEF Transmit
<1>5. CASE DisplayTask /\ UNCHANGED <<imu, stream>>
  <2>1. OtherTask
    BY <1>5 DEF DisplayTask, Clear, Draw, Finish, NothingToDraw, GoTo, Return,
                OtherTask, ImuSteps, Internal, ImuEntries
  <2> QED BY <2>1 DEF MotionNext
<1>6. CASE Transfer
  BY <1>6 DEF Transfer, MotionNext
<1>7. CASE UNCHANGED vars
  BY <1>7 DEF vars, scheduling
<1> QED BY <1>1, <1>2, <1>3, <1>4, <1>5, <1>6, <1>7 DEF Next, Task

\* The system implements the specification of the sensor (system.cpp:58-138).
THEOREM SystemRefinesMotion == Spec => ImplementsMotion
<1>1. Init => MotionInit
  BY DEF Init
<1>2. [Next]_vars => [MotionNext]_motionVars
  BY StepRefines
<1> QED BY <1>1, <1>2, PTL DEF Spec, MotionSpec, ImplementsMotion

\* The inductive invariant of the sensor holds in the system.
THEOREM SystemKeepsMotionInv == Spec => []MotionInv
BY SystemRefinesMotion, MotionInvariant, PTL DEF ImplementsMotion

\* In the system no transfer of read_sensor is cut off (motion.cpp:171, 226, 281).
THEOREM SystemBusExclusive == Spec => []BusExclusive
BY SystemRefinesMotion, BusIsExclusive, PTL DEF ImplementsMotion

\* Nor are data sent that are wrong without anybody noticing, addresses apart.
THEOREM SystemErrorsNoticed == Spec => []OnlyAddressErrorsUnnoticed
BY SystemRefinesMotion, ErrorsNoticed, PTL DEF ImplementsMotion
-----------------------------------------------------------------------------
\* No update is under way unless the flag says so, and the end of an update sets the
\* state before it lowers the flag.
DisplayInv ==
    /\ flag_update_running \in BOOLEAN
    /\ ~flag_update_running => update_state = "complete"
    /\ at \in {"last line", "complete"} => flag_update_running
    /\ at = "complete" => update_state = "complete"

\* The states of the lines are neither the first nor the last state of an update.
LEMMA LinesFacts ==
    /\ DOMAIN Lines = 1 .. 5
    /\ Len(Lines) = 5
    /\ \A k \in 1 .. 5 : Lines[k] \notin {"clear", "complete"}
<1>1. Lines \in Seq({"clock", "itc", "ttc", "heading", "pitch"})
  BY DEF Lines
<1>2. Len(Lines) = 5
  BY DEF Lines
<1>3. DOMAIN Lines = 1 .. 5
  BY <1>1, <1>2
<1>4. \A k \in 1 .. 5 : Lines[k] \in {"clock", "itc", "ttc", "heading", "pitch"}
  <2> DEFINE S == {"clock", "itc", "ttc", "heading", "pitch"}
  <2> HIDE DEF S
  <2>1. Lines \in Seq(S)
    BY <1>1 DEF S
  <2>2. \A k \in 1 .. 5 : Lines[k] \in S
    BY <1>2, <2>1, ElementOfSeq
  <2> QED BY <2>2 DEF S
<1> QED BY <1>2, <1>3, <1>4

\* Only an interrupt starts an update, and not while the flag is up.
LEMMA DisplayStep ==
    ASSUME DisplayInv, [Next]_vars, BusInv
    PROVE  /\ DisplayInv'
           /\ update_state' = "clear" /\ update_state # "clear" => update_state = "complete"
<1> USE DEF DisplayInv
<1>1. CASE Tick
  BY <1>1 DEF Tick, DisplayInterrupt, StartUpdate, Enlist
<1>2. CASE Dispatch /\ UNCHANGED <<imu, stream, display>>
  <2>1. Head(tasks) \in TaskNames
    BY <1>2, TailFacts DEF Dispatch, BusInv, MotionTypeOK
  <2>2. at' \notin {"last line", "complete"}
    BY <1>2, <2>1, SystemAssumption
       DEF Dispatch, TaskNames, ImuEntries, DisplayEntries
  <2> QED BY <1>2, <2>2 DEF display
<1>3. CASE ImuTask /\ UNCHANGED <<stream, display>>
  BY <1>3 DEF display, ImuTask, SetupCheck, SetupEnd, CheckStart, CheckEnd, ReadInit,
              ReadRequest, ReadFetch, Send, CloseLoop, GoTo, Return
<1>4. CASE Transmit
  BY <1>4 DEF Transmit, display, scheduling, Sent, Return
<1>5. CASE DisplayTask /\ UNCHANGED <<imu, stream>>
  <2>1. CASE Clear
    BY <2>1 DEF Clear, Lines, Return
  <2>2. CASE Draw
    <3> PICK l \in DOMAIN Lines :
          /\ update_state = Lines[l]
          /\ IF cycle_count < NumCycles
             THEN cycle_count' = cycle_count + 1 /\ UNCHANGED update_state /\ Return
             ELSE /\ cycle_count' = 0
                  /\ IF l < Len(Lines)
                     THEN update_state' = Lines[l + 1] /\ Return
                     ELSE UNCHANGED update_state /\ GoTo("last line")
      BY <2>2 DEF Draw
    <3>1. /\ l \in 1 .. 5 /\ Len(Lines) = 5
          /\ \A k \in 1 .. 5 : Lines[k] \notin {"clear", "complete"}
      BY LinesFacts
    <3>2. flag_update_running /\ flag_update_running' = flag_update_running
      BY <2>2, <3>1 DEF Draw
    <3>3. /\ update_state' \notin {"clear", "complete"}
          /\ at' \in {"kernel", "last line"}
      <4>1. CASE cycle_count < NumCycles
        BY <3>1, <4>1 DEF Return
      <4>2. CASE ~(cycle_count < NumCycles) /\ l < Len(Lines)
        <5>1. l + 1 \in 1 .. 5
          <6> HIDE DEF DisplayInv
          <6> QED BY <3>1, <4>2
        <5> QED BY <3>1, <4>2, <5>1 DEF Return
      <4>3. CASE ~(cycle_count < NumCycles) /\ ~(l < Len(Lines))
        BY <3>1, <4>3 DEF GoTo
      <4> QED BY <4>1, <4>2, <4>3
    <3> QED BY <3>2, <3>3
  <2>3. CASE Finish
    BY <2>3 DEF Finish, GoTo, Return
  <2>4. CASE NothingToDraw
    BY <2>4 DEF NothingToDraw, Return, display
  <2> QED BY <1>5, <2>1, <2>2, <2>3, <2>4 DEF DisplayTask
<1>6. CASE Transfer
  BY <1>6 DEF Transfer, Bus, WriteEnds, ReadEnds, display, scheduling
<1>7. CASE UNCHANGED vars
  BY <1>7 DEF vars, display, scheduling
<1> QED BY <1>1, <1>2, <1>3, <1>4, <1>5, <1>6, <1>7 DEF Next, Task

\* An update that has begun is drawn to its end before the next one begins
\* (display.cpp:108-121 against 263-266), for any lag, period and length of a line.
THEOREM UpdatesDrawnToTheEnd == Spec => UpdatesNotCutShort
<1>1. Init => DisplayInv
  BY DEF Init, MotionInit, DisplayInit, DisplayInv
<1>2. BusInv /\ DisplayInv /\ [Next]_vars => DisplayInv'
  BY DisplayStep
<1>3. BusInv /\ DisplayInv /\ [Next]_vars
        => [update_state' = "clear" /\ update_state # "clear"
              => update_state = "complete"]_display
  BY DisplayStep
<1> QED BY <1>1, <1>2, <1>3, SystemKeepsMotionInv, PTL DEF Spec, UpdatesNotCutShort, MotionInv
-----------------------------------------------------------------------------
(* The streams.  A block stays in the display's queue until the next tick. *)
(* Before the same stream is sent again, the sensor's task has to run ten  *)
(* times more; each of these runs was asked for by a tick of its own, and  *)
(* no more than MaxLag + 1 of them are waiting or running at a time.       *)

\* How many of the waiting tasks are the sensor's.
ReadsIn(s) == Cardinality({i \in DOMAIN s : s[i] = "read_sensor"})

LEMMA ReadsFinite ==
    ASSUME NEW S, NEW s \in Seq(S)
    PROVE  /\ IsFiniteSet({i \in DOMAIN s : s[i] = "read_sensor"})
           /\ ReadsIn(s) \in Nat
<1>1. Len(s) \in Nat /\ {i \in DOMAIN s : s[i] = "read_sensor"} \subseteq 1 .. Len(s)
  OBVIOUS
<1>2. IsFiniteSet(1 .. Len(s))
  BY <1>1, FS_Interval
<1> QED BY <1>1, <1>2, FS_Subset, FS_CardinalityType DEF ReadsIn

\* The front task is taken out: one less if it is one of them.
LEMMA ReadsOfTail ==
    ASSUME NEW S, NEW s \in Seq(S), s # <<>>
    PROVE  /\ ReadsIn(Tail(s)) <= ReadsIn(s)
           /\ Head(s) = "read_sensor" => ReadsIn(Tail(s)) + 1 <= ReadsIn(s)
<1> DEFINE all == {i \in DOMAIN s : s[i] = "read_sensor"}
           rest == all \ {1}
           tail == Tail(s)
           moved == {i \in DOMAIN tail : tail[i] = "read_sensor"}
           f == [i \in moved |-> i + 1]
<1>1. /\ Len(s) \in Nat \ {0} /\ DOMAIN s = 1 .. Len(s) /\ Head(s) = s[1]
      /\ DOMAIN tail = 1 .. Len(s) - 1
      /\ \A i \in DOMAIN tail : i + 1 \in DOMAIN s /\ tail[i] = s[i + 1]
      /\ tail \in Seq(S)
  BY TailFacts
<1>2. /\ IsFiniteSet(all) /\ ReadsIn(s) = Cardinality(all) /\ Cardinality(all) \in Nat
      /\ ReadsIn(tail) = Cardinality(moved) /\ Cardinality(moved) \in Nat
  BY <1>1, ReadsFinite DEF ReadsIn
<1>3. /\ IsFiniteSet(rest)
      /\ Cardinality(rest) = IF 1 \in all THEN Cardinality(all) - 1 ELSE Cardinality(all)
  BY <1>2, FS_RemoveElement
<1>4. moved \subseteq Nat /\ \A i \in moved : i + 1 \in rest
  BY <1>1
<1>5. f \in Injection(moved, rest)
  <2> HIDE DEF moved, rest
  <2>1. f \in [moved -> rest]
    BY <1>4
  <2>2. \A a, b \in moved : f[a] = f[b] => a = b
    BY <1>4
  <2> QED BY <2>1, <2>2 DEF Injection, IsInjective
<1>6. Cardinality(moved) <= Cardinality(rest)
  <2> HIDE DEF moved, rest, f
  <2> QED BY <1>3, <1>5, FS_Injection
<1>7. Head(s) = "read_sensor" => 1 \in all
  BY <1>1
<1> HIDE DEF all, rest, moved, tail
<1>8. ReadsIn(tail) <= ReadsIn(s) /\ (Head(s) = "read_sensor" => ReadsIn(tail) + 1 <= ReadsIn(s))
  BY <1>2, <1>3, <1>6, <1>7
<1> QED BY <1>8 DEF tail

\* What a tick appends: one of them at most.
LEMMA ReadsOfMore ==
    ASSUME NEW S, NEW s \in Seq(S), NEW u \in Seq(S),
           \A i \in DOMAIN u : u[i] = "read_sensor" => i = Len(u)
    PROVE  ReadsIn(s \o u) <= ReadsIn(s) + 1
<1> DEFINE t == s \o u
           old == {i \in DOMAIN s : s[i] = "read_sensor"}
           all == {i \in DOMAIN t : t[i] = "read_sensor"}
           last == Len(s) + Len(u)
<1>1. /\ Len(s) \in Nat /\ Len(u) \in Nat /\ DOMAIN u = 1 .. Len(u) /\ DOMAIN s = 1 .. Len(s)
      /\ DOMAIN t = 1 .. last
      /\ \A i \in 1 .. Len(s) : t[i] = s[i]
      /\ \A i \in Len(s) + 1 .. last : i - Len(s) \in 1 .. Len(u) /\ t[i] = u[i - Len(s)]
  BY ConcatFacts
<1> HIDE DEF t
<1>2. all \subseteq old \union {last}
  <2> SUFFICES ASSUME NEW i \in DOMAIN t, t[i] = "read_sensor", i # last
               PROVE  i \in DOMAIN s /\ s[i] = "read_sensor"
    OBVIOUS
  <2>1. CASE i \in 1 .. Len(s)
    BY <1>1, <2>1
  <2>2. CASE i \in Len(s) + 1 .. last
    BY <1>1, <2>2
  <2> QED BY <1>1, <2>1, <2>2
<1>3. IsFiniteSet(old) /\ ReadsIn(s) = Cardinality(old) /\ Cardinality(old) \in Nat
  BY ReadsFinite DEF ReadsIn
<1> HIDE DEF old, all, last
<1>4. /\ IsFiniteSet(old \union {last})
      /\ Cardinality(old \union {last}) <= Cardinality(old) + 1
      /\ Cardinality(old \union {last}) \in Nat
  <2>1. /\ IsFiniteSet(old \union {last})
        /\ Cardinality(old \union {last}) =
              IF last \in old THEN Cardinality(old) ELSE Cardinality(old) + 1
    BY <1>3, FS_AddElement
  <2> QED BY <1>3, <2>1
<1>5. Cardinality(all) <= Cardinality(old \union {last}) /\ Cardinality(all) \in Nat
  BY <1>2, <1>4, FS_Subset, FS_CardinalityType
<1>6. ReadsIn(t) = Cardinality(all)
  BY DEF all, ReadsIn
<1> QED BY <1>3, <1>4, <1>5, <1>6 DEF t

\* The sensor's task that runs, if one does.
Running == IF at \in {"read_sensor", "transmit"} THEN 1 ELSE 0

Behind == ReadsIn(tasks) + Running

LagCounted == lag \in 0 .. MaxLag /\ Behind <= lag + 1

\* Steps of the sensor's loop since it last sent s, and whether it does so now.
SinceSent(s) ==
    IF s = "ahrs" THEN (IF query_state < 4 THEN query_state + 6 ELSE query_state - 4)
    ELSE (IF query_state < 8 THEN query_state + 2 ELSE query_state - 8)

BeingSent(s) == at = "transmit" /\ s = Sending

\* transmit() is past the display.
Delivered == \E i \in DOMAIN Receivers : i < port /\ Receivers[i] = "display"

StreamTypeOK ==
    /\ linked \in [Streams -> {0, 1}]
    /\ size \in [Streams -> {0, 1}]
    /\ port \in Nat

\* push_back starts with an empty queue.
PushInv ==
    /\ at # "transmit" => port = 0 /\ push = "link"
    /\ at = "transmit" /\ push = "link" /\ ~Delivered => size[Sending] = 0
    /\ push # "link" =>
          /\ push \in {"load", "store"}
          /\ at = "transmit" /\ AtReceiver /\ Receivers[port] = "display"
          /\ linked[Sending] = 1 /\ size[Sending] = 0
          /\ push = "store" => loaded = 0
    /\ \A s \in Streams : size[s] = linked[s] \/ (push # "link" /\ s = Sending)

\* A block that is still queued was sent too recently for the next one to come.
Drained ==
    \A s \in Streams : size[s] = 0 \/ BeingSent(s) \/ SinceSent(s) + Behind <= MaxLag

StreamInv == LagCounted /\ StreamTypeOK /\ PushInv /\ Drained
LEMMA ReadsInEmpty == ReadsIn(<<>>) = 0
<1>1. {i \in DOMAIN <<>> : <<>>[i] = "read_sensor"} = {}
  OBVIOUS
<1> HIDE DEF ReadsIn
<1>2. ReadsIn(<<>>) = Cardinality({})
  BY <1>1 DEF ReadsIn
<1> QED BY <1>2, FS_EmptySet

\* The parts of the invariants that the steps below keep asking for.
LEMMA StreamFacts ==
    ASSUME StreamInv, BusInv
    PROVE  /\ tasks \in Seq(TaskNames) /\ query_state \in 0 .. 9
           /\ ReadsIn(tasks) \in Nat /\ lag \in Nat /\ MaxLag \in Nat /\ lag <= MaxLag
           /\ ReadsIn(tasks) + Running <= lag + 1
           /\ at = "transmit" => query_state \in {3, 7}
           /\ "ahrs" \in Streams /\ "gyro" \in Streams
<1>1. tasks \in Seq(TaskNames) /\ query_state \in 0 .. 9
  BY DEF BusInv, MotionTypeOK
<1>2. ReadsIn(tasks) \in Nat
  BY <1>1, ReadsFinite
<1>3. at = "transmit" => query_state \in {3, 7}
  BY DEF BusInv, BusInUse
<1>4. lag \in 0 .. MaxLag /\ ReadsIn(tasks) + Running <= lag + 1
  BY DEF StreamInv, LagCounted, Behind
<1> QED BY <1>1, <1>2, <1>3, <1>4, SchedulerAssumption DEF Streams

\* The display fetches the last block of each stream.
LEMMA TickStream ==
    ASSUME StreamInv, BusInv, Tick
    PROVE  StreamInv'
<1>1. /\ lag < MaxLag /\ UNCHANGED <<at, query_state, port, push, loaded>>
      /\ FetchAll /\ Enlist(DisplayRequests \o ImuRequests, ImuEntries \union DisplayEntries)
  BY DEF Tick, ImuInterrupt, DisplayInterrupt, FetchAll, Enlist
<1>2. /\ tasks \in Seq(TaskNames) /\ ReadsIn(tasks) \in Nat /\ lag \in Nat /\ MaxLag \in Nat
      /\ ReadsIn(tasks) + Running <= lag + 1
  BY StreamFacts
<1>3. ReadsIn(tasks') <= ReadsIn(tasks) + 1 /\ ReadsIn(tasks') \in Nat
  <2> DEFINE more == DisplayRequests \o ImuRequests
  <2>1. more \in Seq(TaskNames) /\ \A i \in DOMAIN more : more[i] = "read_sensor" => i = Len(more)
    <3>1. /\ DisplayRequests \in Seq(TaskNames)
          /\ \A i \in DOMAIN DisplayRequests : DisplayRequests[i] # "read_sensor"
      <4>1. "redraw" \in TaskNames
        BY SystemAssumption DEF TaskNames, DisplayEntries
      <4>2. DisplayRequests = <<>> \/ DisplayRequests = <<"redraw">>
        BY DEF DisplayRequests
      <4>3. CASE DisplayRequests = <<>>
        BY <4>3
      <4>4. CASE DisplayRequests = <<"redraw">>
        BY <4>1, <4>4
      <4> QED BY <4>2, <4>3, <4>4
    <3>2. ImuRequests \in Seq(TaskNames) /\ Len(ImuRequests) \in {0, 1}
      <4>1. \/ ImuRequests = <<>> \/ ImuRequests = <<"read_sensor">>
            \/ ImuRequests = <<"check_calibration">>
        BY DEF ImuRequests
      <4> QED BY <4>1, RequestFacts
    <3> HIDE DEF DisplayRequests, ImuRequests
    <3>3. /\ more \in Seq(TaskNames) /\ Len(DisplayRequests) \in Nat
          /\ DOMAIN DisplayRequests = 1 .. Len(DisplayRequests)
          /\ Len(more) = Len(DisplayRequests) + Len(ImuRequests)
          /\ DOMAIN more = 1 .. Len(DisplayRequests) + Len(ImuRequests)
          /\ \A i \in 1 .. Len(DisplayRequests) : more[i] = DisplayRequests[i]
      BY <3>1, <3>2, ConcatFacts
    <3> HIDE DEF more
    <3>4. ASSUME NEW i \in DOMAIN more, more[i] = "read_sensor" PROVE i = Len(more)
      <4>1. i \in 1 .. Len(DisplayRequests) + Len(ImuRequests)
        BY <3>3
      <4>2. i \notin 1 .. Len(DisplayRequests)
        BY <3>1, <3>3, <3>4
      <4>3. CASE Len(ImuRequests) = 0
        BY <3>3, <4>1, <4>2, <4>3
      <4>4. CASE Len(ImuRequests) = 1
        <5>1. i = Len(DisplayRequests) + 1
          BY ONLY <3>3, <4>1, <4>2, <4>4
        <5> QED BY ONLY <3>3, <4>4, <5>1
      <4> QED BY <3>2, <4>3, <4>4
    <3> QED BY <3>3, <3>4
  <2>2. tasks' = tasks \/ tasks' = tasks \o more
    BY <1>1 DEF Enlist
  <2> HIDE DEF more
  <2>3. tasks \o more \in Seq(TaskNames)
    BY <1>2, <2>1, ConcatFacts
  <2>4. ReadsIn(tasks \o more) <= ReadsIn(tasks) + 1 /\ ReadsIn(tasks \o more) \in Nat
    BY <1>2, <2>1, <2>3, ReadsOfMore, ReadsFinite
  <2>5. CASE tasks' = tasks
    BY <1>2, <2>5
  <2>6. CASE tasks' = tasks \o more
    BY <2>4, <2>6
  <2> QED BY <2>2, <2>5, <2>6
<1>4. LagCounted'
  <2>1. CASE tasks = <<>> /\ at = "kernel"
    <3>1. lag' = 0 /\ ReadsIn(tasks) = 0 /\ Running' = 0
      BY <1>1, <2>1, ReadsInEmpty DEF Enlist, Running
    <3> QED BY <1>2, <1>3, <3>1 DEF LagCounted, Behind
  <2>2. CASE ~(tasks = <<>> /\ at = "kernel")
    <3>1. lag' = lag + 1 /\ Running' = Running /\ Running \in {0, 1}
      BY <1>1, <2>2 DEF Enlist, Running
    <3> QED BY <1>1, <1>2, <1>3, <3>1 DEF LagCounted, Behind
  <2> QED BY <2>1, <2>2
<1>5. /\ StreamTypeOK' /\ \A s \in Streams : size'[s] = 0
      /\ \A s \in Streams : size[s] = 0 => linked'[s] = linked[s]
      /\ \A s \in Streams : size[s] = linked[s] => linked'[s] = 0
  BY <1>1 DEF StreamInv, StreamTypeOK, FetchAll
<1>6. Sending' = Sending /\ Delivered' = Delivered /\ AtReceiver' = AtReceiver
      /\ Sending \in Streams
  BY <1>1 DEF Sending, Delivered, AtReceiver, Streams
<1>7. PushInv'
  BY <1>1, <1>5, <1>6 DEF StreamInv, PushInv
<1>8. Drained'
  BY <1>5 DEF Drained
<1> QED BY <1>4, <1>5, <1>7, <1>8 DEF StreamInv
LEMMA BehindIsInt ==
    ASSUME BusInv
    PROVE  Behind \in Int /\ \A s \in Streams : SinceSent(s) \in Int
<1>1. query_state \in 0 .. 9 /\ tasks \in Seq(TaskNames)
  BY DEF BusInv, MotionTypeOK
<1>2. ReadsIn(tasks) \in Nat
  BY <1>1, ReadsFinite
<1> QED BY <1>1, <1>2 DEF SinceSent, Behind, Running

LEMMA BehindIsIntNext ==
    ASSUME BusInv'
    PROVE  Behind' \in Int /\ \A s \in Streams : SinceSent(s)' \in Int
<1>1. query_state' \in 0 .. 9 /\ tasks' \in Seq(TaskNames)
  BY DEF BusInv, MotionTypeOK
<1>2. ReadsIn(tasks') \in Nat
  BY <1>1, ReadsFinite
<1> QED BY <1>1, <1>2 DEF SinceSent, Behind, Running

\* A step that leaves the streams alone: what remains to be shown is that no task has
\* been lost count of, and that a queued block is as recent as before.
LEMMA StreamUntouched ==
    ASSUME StreamInv, BusInv, BusInv', UNCHANGED stream, LagCounted', at # "transmit",
           at' = "transmit" => size[Sending'] = 0,
           \A s \in Streams : size[s] # 0 =>
               BeingSent(s)' \/ SinceSent(s)' + Behind' <= SinceSent(s) + Behind
    PROVE  StreamInv'
<1>1. UNCHANGED <<linked, size, port, push, loaded>>
  BY DEF stream
<1>2. StreamTypeOK'
  BY <1>1 DEF StreamInv, StreamTypeOK
<1>3. port = 0 /\ push = "link"
  BY DEF StreamInv, PushInv
<1>4. PushInv'
  BY <1>1, <1>3 DEF StreamInv, PushInv
<1>5. Drained'
  <2> SUFFICES ASSUME NEW s \in Streams, size[s] # 0, ~BeingSent(s)'
               PROVE  SinceSent(s)' + Behind' <= MaxLag
    BY <1>1 DEF Drained
  <2>1. SinceSent(s)' + Behind' <= SinceSent(s) + Behind
    OBVIOUS
  <2>2. SinceSent(s) + Behind <= MaxLag
    BY DEF StreamInv, Drained, BeingSent
  <2>3. MaxLag \in Nat
    BY StreamFacts
  <2> QED BY <2>1, <2>2, <2>3, BehindIsInt, BehindIsIntNext
<1> QED BY <1>2, <1>4, <1>5 DEF StreamInv

\* The kernel loop takes a task out of the list and starts it.
LEMMA DispatchStream ==
    ASSUME StreamInv, BusInv, BusInv', Dispatch, UNCHANGED <<imu, stream, display>>
    PROVE  StreamInv'
<1>1. /\ at = "kernel" /\ tasks # <<>> /\ at' = Head(tasks) /\ tasks' = Tail(tasks)
      /\ UNCHANGED <<lag, query_state>>
  BY DEF Dispatch, imu
<1>2. /\ tasks \in Seq(TaskNames) /\ ReadsIn(tasks) \in Nat /\ lag \in Nat
      /\ query_state \in 0 .. 9 /\ MaxLag \in Nat /\ lag <= MaxLag
      /\ ReadsIn(tasks) + Running <= lag + 1
  BY StreamFacts
<1>3. /\ Head(tasks) \in TaskNames /\ ReadsIn(Tail(tasks)) \in Nat
      /\ ReadsIn(Tail(tasks)) <= ReadsIn(tasks)
      /\ Head(tasks) = "read_sensor" => ReadsIn(Tail(tasks)) + 1 <= ReadsIn(tasks)
  BY <1>1, <1>2, TailFacts, ReadsOfTail, ReadsFinite
<1>4. at' # "transmit"
  BY <1>1, <1>3, MotionAssumption DEF TaskNames, ImuSteps, Internal, ImuEntries
<1>5. Behind' <= Behind /\ Behind \in Nat /\ Behind' \in Nat
  BY <1>1, <1>2, <1>3, <1>4 DEF Behind, Running
<1>6. LagCounted'
  BY <1>1, <1>2, <1>5 DEF StreamInv, LagCounted
<1>7. \A s \in Streams : SinceSent(s)' = SinceSent(s) /\ SinceSent(s) \in Int
  BY <1>1, <1>2 DEF SinceSent
<1>8. \A s \in Streams : SinceSent(s)' + Behind' <= SinceSent(s) + Behind
  BY <1>5, <1>7
<1> QED BY <1>1, <1>4, <1>6, <1>8, StreamUntouched

\* A task of the sensor or the display goes on or returns, but for the streams.
LEMMA ReturnKeepsLag ==
    ASSUME StreamInv, BusInv, Return \/ \E s : GoTo(s),
           at' \in {"read_sensor", "transmit"} => at \in {"read_sensor", "transmit"}
    PROVE  LagCounted' /\ tasks' = tasks /\ Behind' <= Behind
<1>1. /\ ReadsIn(tasks) \in Nat /\ lag \in Nat /\ MaxLag \in Nat /\ lag <= MaxLag
      /\ ReadsIn(tasks) + Running <= lag + 1
  BY StreamFacts
<1>2. tasks' = tasks /\ (lag' = lag \/ (lag' = 0 /\ tasks = <<>> /\ at' = "kernel"))
  BY DEF Return, GoTo
<1>3. Running \in {0, 1} /\ Running' \in {0, 1} /\ Running' <= Running
  BY DEF Running
<1>4. Behind' <= Behind
  BY <1>1, <1>2, <1>3 DEF Behind
<1>5. CASE lag' = lag
  BY <1>1, <1>2, <1>3, <1>5 DEF LagCounted, Behind
<1>6. CASE lag' = 0 /\ tasks = <<>> /\ at' = "kernel"
  <2>1. ReadsIn(tasks) = 0 /\ Running' = 0
    BY <1>6, ReadsInEmpty DEF Running
  <2>2. LagCounted'
    BY <1>1, <1>2, <1>6, <2>1 DEF LagCounted, Behind
  <2> QED BY <1>2, <1>4, <2>2
<1> QED BY <1>2, <1>4, <1>5, <1>6
\* A task of the display.
LEMMA DisplayStream ==
    ASSUME StreamInv, BusInv, BusInv', DisplayTask, UNCHANGED <<imu, stream>>
    PROVE  StreamInv'
<1>1. /\ Return \/ \E s : GoTo(s)
      /\ at \notin {"read_sensor", "transmit"} /\ at' \notin {"read_sensor", "transmit"}
  BY DEF DisplayTask, Clear, Draw, Finish, NothingToDraw, GoTo, Return
<1>2. LagCounted' /\ Behind' <= Behind
  BY <1>1, ReturnKeepsLag
<1>3. \A s \in Streams : SinceSent(s)' = SinceSent(s)
  BY DEF SinceSent, imu
<1>4. \A s \in Streams : SinceSent(s)' + Behind' <= SinceSent(s) + Behind
  BY <1>2, <1>3, BehindIsInt, BehindIsIntNext
<1> QED BY <1>1, <1>2, <1>4, StreamUntouched DEF stream

\* A task of the sensor, up to transmit(): one step further at most, and each step
\* uses up one task.  Where the data are sent, the last block has been fetched.
LEMMA SensorStream ==
    ASSUME StreamInv, BusInv, BusInv', MaxLag <= 9, ImuTask, UNCHANGED <<stream, display>>
    PROVE  StreamInv'
<1>1. at # "transmit"
  BY DEF ImuTask, SetupCheck, SetupEnd, CheckStart, CheckEnd, ReadInit, ReadRequest,
         ReadFetch, Send, CloseLoop
<1>2. /\ Return \/ \E s : GoTo(s)
      /\ at' \in {"read_sensor", "transmit"} => at \in {"read_sensor", "transmit"}
  BY DEF ImuTask, SetupCheck, SetupEnd, CheckStart, CheckEnd, ReadInit, ReadRequest,
         ReadFetch, Send, CloseLoop, GoTo, Return
<1>3. LagCounted' /\ tasks' = tasks /\ Behind' <= Behind
  BY <1>2, ReturnKeepsLag
<1>4. CASE Send
  <2>1. /\ at = "read_sensor" /\ at' = "transmit" /\ query_state \in {3, 7}
        /\ UNCHANGED query_state
    BY <1>4 DEF Send, GoTo, imu
  <2>2. Sending \in Streams /\ SinceSent(Sending) = 9 /\ Sending' = Sending
    BY <2>1 DEF Sending, SinceSent, Streams
  <2>3. Behind \in Nat /\ Behind >= 1 /\ MaxLag \in Nat
    <3>1. ReadsIn(tasks) \in Nat /\ MaxLag \in Nat
      BY StreamFacts
    <3> QED BY <2>1, <3>1 DEF Behind, Running
  <2>4. size[Sending] = 0
    <3>1. size[Sending] = 0 \/ 9 + Behind <= MaxLag
      BY <1>1, <2>2 DEF StreamInv, Drained, BeingSent
    <3> QED BY <2>3, <3>1
  <2>5. \A s \in Streams : SinceSent(s)' = SinceSent(s)
    BY <2>1 DEF SinceSent
  <2>6. \A s \in Streams : SinceSent(s)' + Behind' <= SinceSent(s) + Behind
    BY <1>3, <2>5, BehindIsInt, BehindIsIntNext
  <2> QED BY <1>1, <1>3, <2>2, <2>4, <2>6, StreamUntouched
<1>5. CASE SetupCheck \/ SetupEnd \/ CheckStart \/ CheckEnd
  <2>1. at' # "transmit" /\ query_state' = query_state
    BY <1>5 DEF SetupCheck, SetupEnd, CheckStart, CheckEnd, GoTo, Return
  <2>2. \A s \in Streams : SinceSent(s)' = SinceSent(s)
    BY <2>1 DEF SinceSent
  <2>3. \A s \in Streams : SinceSent(s)' + Behind' <= SinceSent(s) + Behind
    BY <1>3, <2>2, BehindIsInt, BehindIsIntNext
  <2> QED BY <1>1, <1>3, <2>1, <2>3, StreamUntouched
<1>6. CASE ReadInit \/ ReadRequest \/ ReadFetch \/ CloseLoop
  <2>1. /\ at = "read_sensor" /\ at' = "kernel"
        /\ query_state \in {0, 1, 2, 4, 5, 6, 8, 9}
        /\ \/ query_state' = query_state
           \/ query_state' = IF query_state = 9 THEN 0 ELSE query_state + 1
    BY <1>6 DEF ReadInit, ReadRequest, ReadFetch, CloseLoop, Return
  <2>2. \A s \in Streams : SinceSent(s)' <= SinceSent(s) + 1
    BY <2>1 DEF SinceSent
  <2>3. Behind' + 1 = Behind
    <3>1. ReadsIn(tasks) \in Nat
      BY StreamFacts
    <3> QED BY <1>3, <2>1, <3>1 DEF Behind, Running
  <2>4. \A s \in Streams : SinceSent(s)' + Behind' <= SinceSent(s) + Behind
    BY <2>2, <2>3, BehindIsInt, BehindIsIntNext
  <2> QED BY <1>1, <1>3, <2>1, <2>4, StreamUntouched
<1> QED BY <1>4, <1>5, <1>6 DEF ImuTask
\* One step of transmit() to a receiver; the streams other than the one that is sent
\* are left alone.
LEMMA PushStream ==
    ASSUME StreamInv, BusInv, at = "transmit",
           BeginTransmit \/ PushBack(Sending), UNCHANGED <<scheduling, imu>>
    PROVE  StreamInv'
<1>1. UNCHANGED <<tasks, at, lag, query_state>> /\ Sending' = Sending /\ Sending \in Streams
  BY DEF scheduling, imu, Sending, Streams
<1>2. LagCounted' /\ Behind' = Behind /\ \A s : SinceSent(s)' = SinceSent(s)
  BY <1>1 DEF StreamInv, LagCounted, Behind, Running, SinceSent
<1>3. /\ linked \in [Streams -> {0, 1}] /\ size \in [Streams -> {0, 1}] /\ port \in Nat
      /\ \A s \in Streams : size[s] = linked[s] \/ (push # "link" /\ s = Sending)
  BY DEF StreamInv, StreamTypeOK, PushInv
<1>4. \A s \in Streams : s # Sending => size'[s] = size[s] /\ linked'[s] = linked[s]
  BY <1>3 DEF BeginTransmit, PushBack, Link, LoadSize, StoreSize
<1>5. Drained'
  <2> SUFFICES ASSUME NEW s \in Streams, s # Sending, size[s] # 0
               PROVE  SinceSent(s)' + Behind' <= MaxLag
    BY <1>1, <1>4 DEF Drained, BeingSent
  <2>1. SinceSent(s) + Behind <= MaxLag
    BY DEF StreamInv, Drained, BeingSent
  <2> QED BY <1>2, <2>1
<1>6. CASE BeginTransmit
  <2>1. /\ port = 0 /\ port' = 1 /\ UNCHANGED <<linked, size, push, loaded>>
        /\ push = "link"
    <3>1. 0 \notin DOMAIN Receivers
      BY StreamAssumption
    <3> QED BY <1>6, <3>1 DEF BeginTransmit, StreamInv, PushInv, AtReceiver
  <2>2. ~Delivered /\ ~Delivered'
    BY <2>1, StreamAssumption DEF Delivered
  <2>3. StreamTypeOK'
    BY <1>3, <2>1 DEF StreamTypeOK
  <2>4. PushInv'
    BY <1>1, <1>3, <2>1, <2>2 DEF StreamInv, PushInv
  <2> QED BY <1>2, <1>5, <2>3, <2>4 DEF StreamInv
<1>7. CASE Link(Sending)
  <2>1. /\ AtReceiver /\ Receivers[port] = "display" /\ push = "link" /\ push' = "load"
        /\ linked' = [linked EXCEPT ![Sending] = @ + 1]
        /\ UNCHANGED <<size, port, loaded>>
    BY <1>7 DEF Link
  <2>2. ~Delivered
    BY <1>3, <2>1, StreamAssumption DEF Delivered, AtReceiver
  <2>3. size[Sending] = 0 /\ linked[Sending] = 0
    BY <1>1, <1>3, <2>1, <2>2 DEF StreamInv, PushInv
  <2>4. linked'[Sending] = 1 /\ size'[Sending] = 0
    BY <1>1, <1>3, <2>1, <2>3
  <2>5. StreamTypeOK'
    BY <1>1, <1>3, <2>1, <2>3 DEF StreamTypeOK
  <2>6. PushInv'
    BY <1>1, <1>3, <1>4, <2>1, <2>4 DEF PushInv, AtReceiver
  <2> QED BY <1>2, <1>5, <2>5, <2>6 DEF StreamInv
<1>8. CASE LoadSize(Sending)
  <2>1. /\ push = "load" /\ push' = "store" /\ loaded' = size[Sending]
        /\ UNCHANGED <<linked, size, port>>
    BY <1>8 DEF LoadSize
  <2>2. StreamTypeOK'
    BY <1>3, <2>1 DEF StreamTypeOK
  <2>3. PushInv'
    BY <1>1, <1>3, <2>1 DEF StreamInv, PushInv, AtReceiver
  <2> QED BY <1>2, <1>5, <2>2, <2>3 DEF StreamInv
<1>9. CASE StoreSize(Sending)
  <2>1. /\ push = "store" /\ push' = "link" /\ port' = port + 1
        /\ size' = [size EXCEPT ![Sending] = loaded + 1]
        /\ UNCHANGED <<linked, loaded>>
    BY <1>9 DEF StoreSize
  <2>2. /\ loaded = 0 /\ linked[Sending] = 1
        /\ port \in DOMAIN Receivers /\ Receivers[port] = "display"
    BY <2>1 DEF StreamInv, PushInv, AtReceiver
  <2>3. size'[Sending] = 1 /\ linked'[Sending] = 1
    BY <1>1, <1>3, <2>1, <2>2
  <2>4. StreamTypeOK'
    BY <1>1, <1>3, <2>1, <2>2 DEF StreamTypeOK
  <2>5. Delivered'
    BY <1>3, <2>1, <2>2 DEF Delivered
  <2>6. PushInv'
    BY <1>1, <1>3, <1>4, <2>1, <2>3, <2>5 DEF PushInv
  <2> QED BY <1>2, <1>5, <2>4, <2>6 DEF StreamInv
<1> QED BY <1>6, <1>7, <1>8, <1>9 DEF PushBack

\* transmit() returns: ten steps of the loop lie before the next block of this stream,
\* and no more than MaxLag of the tasks for them are waiting.
LEMMA SentStream ==
    ASSUME StreamInv, BusInv, BusInv', at = "transmit", EndTransmit, Sent
    PROVE  StreamInv'
<1>1. /\ at' = "kernel" /\ query_state' = query_state + 1 /\ query_state \in {3, 7}
      /\ port > Len(Receivers) /\ port' = 0 /\ UNCHANGED <<linked, size, push, loaded, tasks>>
      /\ lag' = lag \/ lag' = 0
  <2>1. query_state \in {3, 7}
    BY StreamFacts
  <2> QED BY <2>1 DEF EndTransmit, Sent, Return
<1>2. LagCounted'
  BY <1>1, ReturnKeepsLag DEF Sent
<1>3. push = "link"
  <2>1. Len(Receivers) \in Nat /\ DOMAIN Receivers = 1 .. Len(Receivers)
    BY StreamAssumption
  <2>2. ~AtReceiver
    BY <1>1, <2>1 DEF AtReceiver
  <2> QED BY <2>2 DEF StreamInv, PushInv
<1>4. StreamTypeOK'
  BY <1>1 DEF StreamInv, StreamTypeOK
<1>5. PushInv'
  BY <1>1, <1>3 DEF StreamInv, PushInv
<1>6. Drained'
  <2> SUFFICES ASSUME NEW s \in Streams, size[s] # 0
               PROVE  SinceSent(s)' + Behind' <= MaxLag
    BY <1>1 DEF Drained
  <2>1. /\ ReadsIn(tasks) \in Nat /\ lag \in Nat /\ MaxLag \in Nat /\ lag <= MaxLag
        /\ ReadsIn(tasks) + 1 <= lag + 1
    BY StreamFacts DEF Running
  <2>2. Behind' = ReadsIn(tasks) /\ Behind = ReadsIn(tasks) + 1
    BY <1>1, <2>1 DEF Behind, Running
  <2>3. CASE s = Sending
    <3>1. SinceSent(s)' = 0
      BY <1>1, <2>3 DEF SinceSent, Sending
    <3> QED BY <2>1, <2>2, <3>1
  <2>4. CASE s # Sending
    <3>1. SinceSent(s) + Behind <= MaxLag
      BY <2>4 DEF StreamInv, Drained, BeingSent
    <3>2. SinceSent(s)' = SinceSent(s) + 1 /\ SinceSent(s) \in Nat
      BY <1>1, <2>4 DEF SinceSent, Sending, Streams
    <3> QED BY <2>1, <2>2, <3>1, <3>2
  <2> QED BY <2>3, <2>4
<1> QED BY <1>2, <1>4, <1>5, <1>6 DEF StreamInv

LEMMA StreamStep ==
    ASSUME StreamInv, BusInv, BusInv', MaxLag <= 9, [Next]_vars
    PROVE  StreamInv'
<1>1. CASE Tick
  BY <1>1, TickStream
<1>2. CASE Dispatch /\ UNCHANGED <<imu, stream, display>>
  BY <1>2, DispatchStream
<1>3. CASE ImuTask /\ UNCHANGED <<stream, display>>
  BY <1>3, SensorStream
<1>4. CASE Transmit
  BY <1>4, PushStream, SentStream DEF Transmit
<1>5. CASE DisplayTask /\ UNCHANGED <<imu, stream>>
  BY <1>5, DisplayStream
<1>6. CASE Transfer \/ UNCHANGED vars
  <2>1. UNCHANGED <<tasks, at, lag, query_state, linked, size, port, push, loaded>>
    BY <1>6 DEF Transfer, Bus, WriteEnds, ReadEnds, scheduling, stream, vars, imu
  <2> QED BY <2>1 DEF StreamInv, LagCounted, StreamTypeOK, PushInv, Drained, Behind, Running,
                      SinceSent, BeingSent, Sending, Delivered, AtReceiver
<1> QED BY <1>1, <1>2, <1>3, <1>4, <1>5, <1>6 DEF Next, Task

\* The size a stream's queue says it has is never wrong for good, and the display
\* never fetches from an empty queue, although its interrupt comes in the middle of
\* push_back: the task list is empty at least every 10 ms, so that the last block is
\* gone when push_back starts (stream.cpp:24, display.cpp:93-106).
THEOREM CountsAreExact ==
    ASSUME MaxLag <= 9
    PROVE  Spec => []CountsExact
<1>1. Init => StreamInv
  <2> SUFFICES ASSUME Init PROVE StreamInv
    OBVIOUS
  <2>1. /\ tasks = <<>> /\ at = "setup" /\ lag = 0 /\ query_state = 0
        /\ linked = [s \in Streams |-> 0] /\ size = [s \in Streams |-> 0]
        /\ port = 0 /\ push = "link"
    BY DEF Init, MotionInit, ImuInit, StreamInit
  <2>2. LagCounted
    BY <2>1, ReadsInEmpty, SchedulerAssumption DEF LagCounted, Behind, Running
  <2> QED BY <2>1, <2>2 DEF StreamInv, StreamTypeOK, PushInv, Drained
<1>2. BusInv /\ BusInv' /\ StreamInv /\ [Next]_vars => StreamInv'
  BY StreamStep
<1>3. StreamInv => CountsExact
  <2> SUFFICES ASSUME StreamInv, NEW s \in Streams
               PROVE  size[s] <= linked[s] /\ (push = "link" => size[s] = linked[s])
    BY DEF CountsExact
  <2>1. /\ size[s] \in {0, 1} /\ linked[s] \in {0, 1}
        /\ size[s] = linked[s] \/ (push # "link" /\ s = Sending)
        /\ push # "link" => linked[Sending] = 1 /\ size[Sending] = 0
    BY DEF StreamInv, StreamTypeOK, PushInv
  <2> QED BY <2>1
<1>4. MotionInv => BusInv
  BY DEF MotionInv
<1> QED BY SystemKeepsMotionInv, <1>1, <1>2, <1>3, <1>4, PTL DEF Spec
-----------------------------------------------------------------------------
\* Nothing is on its way to a receiver unless a sensor's task sends it.
PortIdle == at # "transmit" => port = 0

\* As long as the sensor is not calibrated a wire to a module that was never created does
\* no harm: transmit() only reaches it from read_sensor, which runs in operation only
\* (system.cpp:135-138, motion.cpp:182-191).
THEOREM NullReachedInOperation ==
    Spec => [](NoNullReceiver \/ imu_runlevel = "operational")
<1>1. Init => PortIdle
  BY DEF Init, StreamInit, PortIdle
<1>2. BusInv /\ PortIdle /\ [Next]_vars => PortIdle'
  <2> SUFFICES ASSUME BusInv, PortIdle, [Next]_vars PROVE PortIdle'
    OBVIOUS
  <2>1. CASE Tick
    BY <2>1 DEF Tick, DisplayInterrupt, FetchAll, Enlist, PortIdle
  <2>2. CASE \/ Dispatch /\ UNCHANGED <<imu, stream, display>>
             \/ ImuTask /\ UNCHANGED <<stream, display>>
             \/ DisplayTask /\ UNCHANGED <<imu, stream>>
    <3>1. at # "transmit" /\ port' = port
      BY <2>2 DEF Dispatch, ImuTask, SetupCheck, SetupEnd, CheckStart, CheckEnd, ReadInit,
                  ReadRequest, ReadFetch, Send, CloseLoop, DisplayTask, Clear, Draw, Finish,
                  NothingToDraw, stream
    <3> QED BY <3>1 DEF PortIdle
  <2>3. CASE Transmit
    <3>1. CASE (BeginTransmit \/ PushBack(Sending)) /\ UNCHANGED <<scheduling, imu>>
      BY <2>3, <3>1 DEF Transmit, scheduling, PortIdle
    <3>2. CASE EndTransmit
      BY <3>2 DEF EndTransmit, PortIdle
    <3> QED BY <2>3, <3>1, <3>2 DEF Transmit
  <2>4. CASE Transfer \/ UNCHANGED vars
    BY <2>4 DEF Transfer, Bus, WriteEnds, ReadEnds, scheduling, stream, vars, PortIdle
  <2> QED BY <2>1, <2>2, <2>3, <2>4 DEF Next, Task
<1>3. BusInv /\ PortIdle => NoNullReceiver \/ imu_runlevel = "operational"
  <2> SUFFICES ASSUME BusInv, PortIdle, AtReceiver PROVE imu_runlevel = "operational"
    BY DEF NoNullReceiver
  <2>1. port # 0
    BY StreamAssumption DEF AtReceiver
  <2> QED BY <2>1 DEF PortIdle, BusInv, PhasesApart, Reading
<1>4. MotionInv => BusInv
  BY DEF MotionInv
<1> QED BY SystemKeepsMotionInv, <1>1, <1>2, <1>3, <1>4, PTL DEF Spec
=============================================================================
