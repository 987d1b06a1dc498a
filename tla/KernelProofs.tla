---------------------------- MODULE KernelProofs ----------------------------
(***************************************************************************)
(* The kernel and its watchdog for any set of modules, any number of tasks *)
(* and any report period from two ticks up: the health report follows no   *)
(* null pointer, and its task figures are exact.                           *)
(***************************************************************************)
EXTENDS Kernel, SeqLemmas

\* A maximum of natural numbers is one, and at least as large as both.
LEMMA LargerFacts ==
    ASSUME NEW a \in Nat, NEW b \in Nat
    PROVE  Larger(a, b) \in Nat /\ Larger(a, b) >= a /\ Larger(a, b) >= b
BY DEF Larger

\* Every task belongs to a module, and the watchdog's tasks to no other.
LEMMA TaskFacts ==
    /\ \A t \in Task : Owner(t) \in Module /\ Owner(t) # None
    /\ "health" \notin Other /\ "memory" # "health"
    /\ None \notin Module
BY KernelAssumption DEF Task, Owner, Module

\* The requests of one tick are tasks; the health report is among them only
\* when it is due.
LEMMA RequestFacts ==
    ASSUME NEW before \in Burst, NEW after \in Burst
    PROVE  LET requests == before \o WatchdogTasks \o after
           IN  /\ requests \in Seq(Task)
               /\ requests # <<>> /\ ~HealthDue => Head(requests) # "health"
               /\ HealthDue \/ MemoryDue => requests # <<>>
<1> DEFINE requests == before \o WatchdogTasks \o after
<1>1. before \in Seq(Other) /\ after \in Seq(Other)
  <2>1. \A b \in Burst : \E n \in Nat : b \in [1 .. n -> Other]
    BY KernelAssumption DEF Burst
  <2> QED BY <2>1, IsASeq
<1>2. before \in Seq(Task) /\ after \in Seq(Task)
  <2>1. Other \subseteq Task
    BY DEF Task
  <2> QED BY <1>1, <2>1, SeqMonotonic
<1>3. WatchdogTasks \in Seq(Task)
  <2>1. "health" \in Task /\ "memory" \in Task
    BY DEF Task
  <2> QED BY <2>1 DEF WatchdogTasks
<1>4. requests \in Seq(Task)
  BY <1>2, <1>3
<1>5. ASSUME ~HealthDue, requests # <<>> PROVE Head(requests) # "health"
  <2>1. WatchdogTasks = <<>> \/ WatchdogTasks = <<"memory">>
    BY <1>5 DEF WatchdogTasks
  <2>2. CASE before # <<>>
    <3>1. Head(requests) = before[1] /\ before[1] \in Other
      BY <1>1, <1>2, <1>3, <2>2
    <3> QED BY <3>1, TaskFacts
  <2>3. CASE before = <<>> /\ WatchdogTasks = <<"memory">>
    <3>1. Head(requests) = "memory"
      BY <1>1, <1>2, <2>3
    <3> QED BY <3>1
  <2>4. CASE before = <<>> /\ WatchdogTasks = <<>>
    <3>1. requests = after
      BY <1>2, <2>4
    <3>2. Head(requests) \in Other
      BY <1>1, <1>5, <3>1
    <3> QED BY <3>2, TaskFacts
  <2> QED BY <2>1, <2>2, <2>3, <2>4
<1>6. ASSUME HealthDue \/ MemoryDue PROVE requests # <<>>
  <2>1. WatchdogTasks # <<>> /\ Len(WatchdogTasks) > 0
    BY <1>6 DEF WatchdogTasks
  <2> QED BY <1>2, <1>3, <2>1
<1> QED BY <1>4, <1>5, <1>6

\* What a tick does to the records of the interrupt and to the counters.
LEMMA TickRecords ==
    ASSUME KernelInv, RecordIsr, RecordModules, CountTicks
    PROVE  /\ {FC_max_isr_spacing', FC_max_isr_duration',
               FC_max_isr_time_to_completion'} \subseteq Nat
           /\ FC_max_isr_time_module' \in Module
           /\ health_delay_counter' \in 0 .. rate_ms
           /\ memory_delay_counter' \in 0 .. rate_ms
<1> USE KernelAssumption DEF KernelInv, TypeOK
<1>1. {FC_max_isr_spacing', FC_max_isr_duration'} \subseteq Nat
  BY DEF RecordIsr, Larger
<1>2. /\ FC_max_isr_time_to_completion' \in Nat
      /\ FC_max_isr_time_module' \in Module \union {None}
  BY DEF RecordModules, Module
<1>3. FC_max_isr_time_module' # None
  <2> PICK m \in Other \union {WATCHDOG}, cycles \in IsrCycles :
           IF cycles > FC_max_isr_time_to_completion
           THEN /\ FC_max_isr_time_to_completion' = cycles
                /\ FC_max_isr_time_module' = m
           ELSE UNCHANGED <<FC_max_isr_time_to_completion, FC_max_isr_time_module>>
    BY DEF RecordModules
  <2>1. CASE cycles > FC_max_isr_time_to_completion
    BY <2>1
  <2>2. CASE ~(cycles > FC_max_isr_time_to_completion)
    <3>1. cycles > 0 /\ FC_max_isr_time_to_completion # 0
      BY <2>2
    <3> QED BY <2>2, <3>1 DEF RecordsNamed
  <2> QED BY <2>1, <2>2
<1>4. /\ health_delay_counter' \in 0 .. rate_ms
      /\ memory_delay_counter' \in 0 .. rate_ms
  BY DEF CountTicks, HealthDue, MemoryDue
<1> QED BY <1>1, <1>2, <1>3, <1>4

\* A tick keeps the invariant.
LEMMA TickKeepsInv ==
    ASSUME KernelInv, Tick PROVE KernelInv'
<1> USE DEF KernelInv
<1> PICK before \in Burst, after \in Burst :
         ScheduleAll(before \o WatchdogTasks \o after)
  BY DEF Tick
<1> DEFINE requests == before \o WatchdogTasks \o after
<1>1. /\ requests \in Seq(Task)
      /\ requests # <<>> /\ ~HealthDue => Head(requests) # "health"
      /\ HealthDue \/ MemoryDue => requests # <<>>
  BY RequestFacts
<1>2. task_list' = IF pc = "closing" /\ alone THEN task_list ELSE task_list \o requests
  BY DEF ScheduleAll
<1> HIDE DEF requests
<1>3. /\ RecordIsr /\ RecordModules /\ CountTicks
      /\ UNCHANGED <<FC_module_interrupts_active, taskRecords, pc, task, alone,
                     worst>>
  BY DEF Tick
<1>4. /\ {FC_max_isr_spacing', FC_max_isr_duration',
          FC_max_isr_time_to_completion'} \subseteq Nat
      /\ FC_max_isr_time_module' \in Module
      /\ health_delay_counter' \in 0 .. rate_ms
      /\ memory_delay_counter' \in 0 .. rate_ms
  BY <1>3, TickRecords
<1>5. task_list \in Seq(Task)
  BY DEF TypeOK
<1>6. task_list' \in Seq(Task)
  BY <1>1, <1>2, <1>5
<1>7. TypeOK'
  BY <1>3, <1>4, <1>6 DEF TypeOK, taskRecords
<1>8. task_list # <<>> => task_list' # <<>> /\ Head(task_list') = Head(task_list)
  BY <1>1, <1>2, <1>5
<1>9. InHand'
  BY <1>3, <1>8 DEF InHand
<1>10. RecordsNamed'
  BY <1>3, <1>4, TaskFacts DEF RecordsNamed, taskRecords
<1>11. MemoryBeforeHealth'
  <2>1. Started => Started'
    BY <1>3, <1>8 DEF Started, taskRecords
  <2>2. ASSUME ~Started
        PROVE  /\ ~HealthDue
               /\ task_list' = requests
               /\ \/ Started'
                  \/ /\ memory_delay_counter' = health_delay_counter' + rate_ms \div 2
                     /\ health_delay_counter' <= rate_ms - rate_ms \div 2
    <3>1. /\ memory_delay_counter = health_delay_counter + rate_ms \div 2
          /\ health_delay_counter <= rate_ms - rate_ms \div 2
      BY <2>2 DEF MemoryBeforeHealth
    <3>2. /\ rate_ms \div 2 \in Nat /\ rate_ms \div 2 > 0
          /\ rate_ms - rate_ms \div 2 < rate_ms
          /\ health_delay_counter \in Nat /\ rate_ms \in Nat
      BY KernelAssumption DEF TypeOK
    <3>3. ~HealthDue
      BY <3>1, <3>2 DEF HealthDue
    <3>4. task = None /\ task_list = <<>> /\ pc # "closing"
      BY <2>2 DEF Started, InHand
    <3>5. task_list' = requests
      BY <1>1, <1>2, <3>4
    <3>6. CASE MemoryDue
      BY <1>1, <3>3, <3>5, <3>6 DEF Started
    <3>7. CASE ~MemoryDue
      <4>1. /\ health_delay_counter' = health_delay_counter + 1
            /\ memory_delay_counter' = memory_delay_counter + 1
        BY <1>3, <3>3, <3>7 DEF CountTicks
      <4>2. memory_delay_counter + 1 <= rate_ms
        BY <3>1, <3>2, <3>7 DEF MemoryDue
      <4> QED BY <3>1, <3>2, <3>3, <3>5, <4>1, <4>2
    <3> QED BY <3>6, <3>7
  <2>3. \/ Started'
        \/ /\ memory_delay_counter' = health_delay_counter' + rate_ms \div 2
           /\ health_delay_counter' <= rate_ms - rate_ms \div 2
    BY <2>1, <2>2
  <2>4. ASSUME FC_max_task_runtime_module' = None
        PROVE  task' # "health"
    BY <1>3, <2>4 DEF MemoryBeforeHealth, taskRecords
  <2>5. ASSUME FC_max_task_runtime_module' = None, task' = None, task_list' # <<>>
        PROVE  Head(task_list') # "health"
    <3>1. FC_max_task_runtime_module = None /\ task = None
      BY <1>3, <2>5 DEF taskRecords
    <3>2. CASE task_list # <<>>
      BY <1>8, <3>1, <3>2 DEF MemoryBeforeHealth
    <3>3. CASE task_list = <<>>
      <4>1. ~HealthDue /\ task_list' = requests
        BY <2>2, <3>1, <3>3 DEF Started
      <4> QED BY <1>1, <2>5, <4>1
    <3> QED BY <3>2, <3>3
  <2> QED BY <2>3, <2>4, <2>5 DEF MemoryBeforeHealth
<1>12. FiguresFollow'
  BY <1>3 DEF FiguresFollow, taskRecords
<1> QED BY <1>7, <1>9, <1>10, <1>11, <1>12

\* Taking a task out of the list keeps the invariant.
LEMMA TakeKeepsInv ==
    ASSUME KernelInv, TakeTask \/ Unlink PROVE KernelInv'
<1> USE DEF KernelInv
<1>1. CASE TakeTask
  <2>1. /\ pc = "test" /\ pc' = "taking"
        /\ task = None /\ task_list # <<>>
        /\ task' = Head(task_list)
        /\ alone' = (Len(task_list) = 1)
        /\ UNCHANGED <<FC_module_interrupts_active, isrRecords, taskRecords, counters,
                       task_list, worst>>
    BY <1>1 DEF TakeTask, InHand
  <2>2. task' \in Task /\ task' # None
    <3>1. task' \in Task
      BY <2>1 DEF TypeOK
    <3> QED BY <3>1, KernelAssumption, TaskFacts DEF Task
  <2>3. alone' \in BOOLEAN
    BY <2>1, Zenon
  <2>4. TypeOK'
    BY <2>1, <2>2, <2>3 DEF TypeOK, PCs, isrRecords, taskRecords, counters
  <2>5. InHand'
    BY <2>1, <2>2 DEF InHand
  <2>6. RecordsNamed' /\ FiguresFollow'
    BY <2>1 DEF RecordsNamed, FiguresFollow, isrRecords, taskRecords
  <2>7. MemoryBeforeHealth'
    BY <2>1, <2>2 DEF MemoryBeforeHealth, Started, taskRecords, counters
  <2> QED BY <2>4, <2>5, <2>6, <2>7
<1>2. CASE Unlink
  <2>1. /\ pc = "taking" /\ pc' = "closing"
        /\ task # None /\ task_list # <<>>
        /\ task_list' = IF alone THEN <<>> ELSE Tail(task_list)
        /\ UNCHANGED <<FC_module_interrupts_active, isrRecords, taskRecords, counters,
                       task, alone, worst>>
    BY <1>2 DEF Unlink, InHand
  <2>2. task_list' \in Seq(Task)
    BY <2>1, EmptyFacts, TailFacts DEF TypeOK
  <2>3. TypeOK'
    BY <2>1, <2>2 DEF TypeOK, PCs, isrRecords, taskRecords, counters
  <2>4. InHand'
    BY <2>1 DEF InHand
  <2>5. RecordsNamed' /\ FiguresFollow'
    BY <2>1 DEF RecordsNamed, FiguresFollow, isrRecords, taskRecords
  <2>6. MemoryBeforeHealth'
    BY <2>1 DEF MemoryBeforeHealth, Started, taskRecords, counters
  <2> QED BY <2>3, <2>4, <2>5, <2>6
<1> QED BY <1>1, <1>2

\* Recording the delay of a task keeps the invariant.
LEMMA StartKeepsInv ==
    ASSUME KernelInv, StartTask PROVE KernelInv'
<1> USE KernelAssumption DEF KernelInv
<1> PICK start_delay \in TaskCycles :
         /\ FC_max_task_delay' = Larger(FC_max_task_delay, start_delay)
         /\ worst' = [worst EXCEPT !.delay = Larger(@, start_delay)]
  BY DEF StartTask
<1>1. /\ pc = "closing" /\ task # None /\ task' = task
      /\ pc' \in {"readDuration", "finish"}
      /\ pc' = "readDuration" => task = "health"
      /\ alone' = FALSE
      /\ UNCHANGED <<FC_module_interrupts_active, isrRecords, FC_max_task_runtime,
                     FC_max_task_runtime_module, counters, task_list>>
  BY DEF StartTask, InHand
<1>2. /\ worst.delay \in Nat /\ FC_max_task_delay \in Nat /\ start_delay \in Nat
      /\ worst' = [delay |-> Larger(worst.delay, start_delay),
                   runtime |-> worst.runtime, module |-> worst.module]
  BY DEF TypeOK
<1>3. FC_max_task_delay' \in Nat /\ Larger(worst.delay, start_delay) \in Nat
  BY <1>2, LargerFacts
<1>4. worst' \in [delay : Nat, runtime : Nat, module : Module \union {None}]
  BY <1>2, <1>3 DEF TypeOK
<1>5. TypeOK'
  BY <1>1, <1>3, <1>4 DEF TypeOK, PCs, isrRecords, counters
<1>6. InHand'
  BY <1>1 DEF InHand
<1>7. RecordsNamed'
  BY <1>1 DEF RecordsNamed, isrRecords
<1>8. MemoryBeforeHealth'
  BY <1>1 DEF MemoryBeforeHealth, Started, counters
<1>9. FiguresFollow'
  <2>1. /\ FC_max_task_delay = worst.delay /\ FC_max_task_runtime = worst.runtime
        /\ worst.module # None => FC_max_task_runtime_module = worst.module
    BY <1>1 DEF FiguresFollow
  <2> QED BY <1>1, <1>2, <2>1 DEF FiguresFollow
<1> QED BY <1>5, <1>6, <1>7, <1>8, <1>9

\* Recording the run time of a task keeps the invariant.
LEMMA FinishKeepsInv ==
    ASSUME KernelInv, FinishTask PROVE KernelInv'
<1> USE KernelAssumption DEF KernelInv
<1> PICK runtime \in TaskCycles :
         /\ IF runtime > FC_max_task_runtime
            THEN /\ FC_max_task_runtime' = runtime
                 /\ FC_max_task_runtime_module' = Owner(task)
            ELSE UNCHANGED <<FC_max_task_runtime, FC_max_task_runtime_module>>
         /\ worst' = IF runtime > worst.runtime
                     THEN [worst EXCEPT !.runtime = runtime, !.module = Owner(task)]
                     ELSE worst
  BY DEF FinishTask
<1>1. /\ pc = "finish" /\ pc' = "test" /\ task \in Task /\ task' = None
      /\ UNCHANGED <<FC_module_interrupts_active, isrRecords, FC_max_task_delay,
                     counters, task_list, alone>>
  BY DEF FinishTask, InHand, TypeOK
<1>2. Owner(task) \in Module /\ Owner(task) # None
  BY <1>1, TaskFacts
<1>3. /\ runtime \in Nat \ {0} /\ FC_max_task_runtime \in Nat
      /\ worst.delay \in Nat /\ worst.runtime \in Nat
      /\ worst.module \in Module \union {None}
  BY DEF TypeOK
<1>4. /\ FC_max_task_runtime' \in Nat
      /\ FC_max_task_runtime_module' \in Module \union {None}
      /\ FC_max_task_runtime_module' # None
  BY <1>2, <1>3 DEF TypeOK, RecordsNamed
<1>5. worst' \in [delay : Nat, runtime : Nat, module : Module \union {None}]
  <2>1. worst \in [delay : Nat, runtime : Nat, module : Module \union {None}]
    BY DEF TypeOK
  <2>2. CASE runtime > worst.runtime
    <3>1. worst' = [worst EXCEPT !.runtime = runtime, !.module = Owner(task)]
      BY <2>2
    <3> QED BY <1>2, <1>3, <2>1, <3>1
  <2>3. CASE ~(runtime > worst.runtime)
    BY <2>1, <2>3
  <2> QED BY <2>2, <2>3
<1>6. TypeOK'
  BY <1>1, <1>4, <1>5 DEF TypeOK, PCs, isrRecords, counters
<1>7. InHand'
  BY <1>1 DEF InHand
<1>8. RecordsNamed'
  BY <1>1, <1>4, TaskFacts DEF RecordsNamed, isrRecords, Task
<1>9. MemoryBeforeHealth'
  BY <1>4 DEF MemoryBeforeHealth, Started
<1>10. FiguresFollow'
  <2>1. /\ FC_max_task_delay = worst.delay /\ FC_max_task_runtime = worst.runtime
        /\ worst.module # None => FC_max_task_runtime_module = worst.module
    BY <1>1 DEF FiguresFollow
  <2>2. worst.delay = worst'.delay
    BY <1>3 DEF TypeOK
  <2>3. CASE runtime > worst.runtime
    <3>1. worst'.runtime = runtime /\ worst'.module = Owner(task)
      BY <2>3 DEF TypeOK
    <3> QED BY <1>1, <2>1, <2>2, <2>3, <3>1 DEF FiguresFollow
  <2>4. CASE ~(runtime > worst.runtime)
    BY <1>1, <2>1, <2>4 DEF FiguresFollow
  <2> QED BY <2>3, <2>4
<1> QED BY <1>6, <1>7, <1>8, <1>9, <1>10

\* The steps of analyze_health keep the invariant.
LEMMA AnalyzeKeepsInv ==
    ASSUME KernelInv, AnalyzeHealth PROVE KernelInv'
<1> USE DEF KernelInv, AnalyzeHealth, ReadDuration, ReadModule, ReadTime, ReadSpacing,
            ReadTasks, ResetTime, ResetSpacing, ResetDuration, ResetTasks
<1> USE DEF isrRecords, taskRecords, counters
<1>1. /\ pc \in {"readDuration", "readModule", "readTime", "readSpacing", "readTasks",
                 "resetTime", "resetSpacing", "resetDuration", "resetTasks"}
      /\ pc' \in {"readModule", "readTime", "readSpacing", "readTasks", "resetTime",
                  "resetSpacing", "resetDuration", "resetTasks", "finish"}
      /\ UNCHANGED <<FC_module_interrupts_active, FC_max_isr_time_module,
                     FC_max_task_runtime_module, health_delay_counter,
                     memory_delay_counter, task_list, task, alone>>
  OBVIOUS
<1>2. /\ FC_max_isr_time_to_completion' \in {FC_max_isr_time_to_completion, 0}
      /\ FC_max_isr_spacing' \in {FC_max_isr_spacing, 0}
      /\ FC_max_isr_duration' \in {FC_max_isr_duration, 0}
      /\ FC_max_task_delay' \in {FC_max_task_delay, 0}
      /\ FC_max_task_runtime' \in {FC_max_task_runtime, 0}
      /\ worst' \in {worst, NoFigures}
  OBVIOUS
<1>3. TypeOK'
  <2>1. NoFigures \in [delay : Nat, runtime : Nat, module : Module \union {None}]
    BY DEF NoFigures
  <2>2. worst' \in [delay : Nat, runtime : Nat, module : Module \union {None}]
    BY <1>2, <2>1 DEF TypeOK
  <2> QED BY <1>1, <1>2, <2>2 DEF TypeOK, PCs
<1>4. InHand'
  BY <1>1 DEF InHand
<1>5. RecordsNamed'
  BY <1>1, <1>2 DEF RecordsNamed
<1>6. MemoryBeforeHealth'
  BY <1>1 DEF MemoryBeforeHealth, Started
<1>7. FiguresFollow'
  <2>1. CASE ReadTasks \/ ResetTime \/ ResetSpacing \/ ResetDuration
    BY <2>1 DEF FiguresFollow
  <2>2. CASE ResetTasks
    <3>1. worst = NoFigures
      BY <2>2 DEF FiguresFollow
    <3> QED BY <2>2, <3>1 DEF FiguresFollow, NoFigures
  <2>3. CASE ReadDuration \/ ReadModule \/ ReadTime \/ ReadSpacing
    BY <2>3 DEF FiguresFollow
  <2> QED BY <2>1, <2>2, <2>3
<1> QED BY <1>3, <1>4, <1>5, <1>6, <1>7

\* The inductive invariant of the kernel.
THEOREM KernelInvariant == Spec => []KernelInv
<1>1. Init => KernelInv
  <2> SUFFICES ASSUME Init PROVE KernelInv
    OBVIOUS
  <2> USE KernelAssumption DEF Init, InitWatchdog
  <2>1. task_list \in Seq(Task) /\ ~(task_list # <<>>)
    BY EmptyFacts
  <2>2. FC_module_interrupts_active \in BOOLEAN /\ alone \in BOOLEAN
    BY Zenon
  <2>3. worst \in [delay : Nat, runtime : Nat, module : Module \union {None}]
    BY DEF NoFigures
  <2>4. TypeOK
    BY <2>1, <2>2, <2>3 DEF TypeOK, PCs
  <2>5. InHand /\ RecordsNamed
    BY DEF InHand, RecordsNamed
  <2>6. MemoryBeforeHealth
    BY DEF MemoryBeforeHealth, Started
  <2>7. FiguresFollow
    BY DEF FiguresFollow, NoFigures
  <2> QED BY <2>4, <2>5, <2>6, <2>7 DEF KernelInv
<1>2. KernelInv /\ [Next]_vars => KernelInv'
  <2> SUFFICES ASSUME KernelInv, [Next]_vars PROVE KernelInv'
    OBVIOUS
  <2>1. CASE EarlyTick
    <3>1. {FC_max_isr_spacing', FC_max_isr_duration'} \subseteq Nat
      BY <2>1, KernelAssumption DEF EarlyTick, RecordIsr, Larger, KernelInv, TypeOK
    <3> QED
      BY <2>1, <3>1 DEF EarlyTick, KernelInv, TypeOK, InHand, RecordsNamed,
         MemoryBeforeHealth, Started, FiguresFollow, taskRecords, counters
  <2>2. CASE Tick
    BY <2>2, TickKeepsInv
  <2>3. CASE StartKernel
    <3>1. TypeOK'
      BY <2>3 DEF StartKernel, KernelInv, TypeOK, PCs, isrRecords, taskRecords,
         counters
    <3>2. InHand' /\ RecordsNamed' /\ MemoryBeforeHealth' /\ FiguresFollow'
      BY <2>3 DEF StartKernel, KernelInv, InHand, RecordsNamed, MemoryBeforeHealth,
         Started, FiguresFollow, isrRecords, taskRecords, counters
    <3> QED BY <3>1, <3>2 DEF KernelInv
  <2>4. CASE TakeTask \/ Unlink
    BY <2>4, TakeKeepsInv
  <2>5. CASE StartTask
    BY <2>5, StartKeepsInv
  <2>6. CASE FinishTask
    BY <2>6, FinishKeepsInv
  <2>7. CASE AnalyzeHealth
    BY <2>7, AnalyzeKeepsInv
  <2>8. CASE UNCHANGED vars
    BY <2>8 DEF vars, KernelInv, TypeOK, InHand, RecordsNamed, MemoryBeforeHealth,
       Started, FiguresFollow
  <2> QED BY <2>1, <2>2, <2>3, <2>4, <2>5, <2>6, <2>7, <2>8 DEF Next, Loop
<1> QED BY <1>1, <1>2, PTL DEF Spec

\* The health report never follows a null pointer (watchdog.cpp:53 and 86).
THEOREM ReportsFollowNoNull == Spec => []NoNullModule
<1>1. KernelInv => NoNullModule
  <2> SUFFICES ASSUME KernelInv PROVE NoNullModule
    OBVIOUS
  <2>1. ASSUME pc = "readModule" PROVE FC_max_isr_time_module # None
    <3>1. task # None
      BY <2>1 DEF KernelInv, InHand
    <3> QED BY <3>1 DEF KernelInv, RecordsNamed
  <2>2. ASSUME pc = "readTasks" PROVE FC_max_task_runtime_module # None
    <3>1. task = "health"
      BY <2>2 DEF KernelInv, InHand
    <3> QED BY <3>1 DEF KernelInv, MemoryBeforeHealth
  <2> QED BY <2>1, <2>2 DEF NoNullModule
<1> QED BY <1>1, KernelInvariant, PTL

\* The task figures in a health report are those of the tasks since the last.
THEOREM TaskFiguresAreExact == Spec => []TaskFiguresExact
<1>1. KernelInv => TaskFiguresExact
  BY DEF KernelInv, FiguresFollow, TaskFiguresExact
<1> QED BY <1>1, KernelInvariant, PTL
=============================================================================
