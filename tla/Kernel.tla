------------------------------- MODULE Kernel -------------------------------
(***************************************************************************)
(* The kernel (src/src/kernel.cpp) and the watchdog that reports its       *)
(* figures (src/src/watchdog.cpp).                                         *)
(*                                                                         *)
(* Two contexts run: the systick interrupt, which calls every module and   *)
(* keeps records of its own timing (FC_systick_isr), and the kernel loop,  *)
(* which runs the tasks the modules have scheduled and keeps records of    *)
(* theirs (kernel_loop).  Every record is a maximum that the watchdog's    *)
(* task analyze_health reads, reports and then resets, each by an access   *)
(* of its own, while the interrupt may come in between and update it.      *)
(*                                                                         *)
(* A task is named by the module that owns it, or is one of the watchdog's *)
(* two tasks.  Durations in CPU cycles are numbers out of small sets; the  *)
(* module the interrupt spends most time in is chosen freely.              *)
(***************************************************************************)
EXTENDS Integers, Sequences

CONSTANTS Other,         \* the modules besides the watchdog
          WATCHDOG,      \* the watchdog module
          None,          \* the null pointer
          rate_ms,       \* ticks between two health reports: 5000 in system.cpp
          IsrCycles,     \* durations of an interrupt, or between two of them
          TaskCycles,    \* delays before a task starts, and run times
          MaxBurst,      \* bound: tasks scheduled at once before, or after, the watchdog
          MaxWaiting     \* bound: no tick while more tasks than this wait

ASSUME KernelAssumption ==
    /\ WATCHDOG \notin Other
    /\ None \notin Other \union {WATCHDOG, "health", "memory"}
    /\ rate_ms \in Nat /\ rate_ms >= 2
    /\ IsrCycles \subseteq Nat \ {0}
    /\ TaskCycles \subseteq Nat \ {0}
    /\ MaxBurst \in Nat /\ MaxWaiting \in Nat
    /\ {"health", "memory"} \intersect Other = {}

VARIABLES
    FC_module_interrupts_active,
    FC_max_isr_spacing, FC_max_isr_duration,
    FC_max_isr_time_to_completion, FC_max_isr_time_module,
    FC_max_task_delay, FC_max_task_runtime, FC_max_task_runtime_module,
    health_delay_counter, memory_delay_counter,   \* the watchdog's
    task_list,
    pc,              \* the next step of the kernel loop or of analyze_health
    task,            \* kernel_loop: the task taken from the list
    alone,           \* it is the only one in the list (see TaskQueue)
    worst            \* history: worst task figures since analyze_health last read them

isrRecords  == <<FC_max_isr_spacing, FC_max_isr_duration,
                 FC_max_isr_time_to_completion, FC_max_isr_time_module>>
taskRecords == <<FC_max_task_delay, FC_max_task_runtime, FC_max_task_runtime_module>>
counters    == <<health_delay_counter, memory_delay_counter>>
vars == <<FC_module_interrupts_active, FC_max_isr_spacing, FC_max_isr_duration,
          FC_max_isr_time_to_completion, FC_max_isr_time_module,
          FC_max_task_delay, FC_max_task_runtime, FC_max_task_runtime_module,
          health_delay_counter, memory_delay_counter, task_list, pc, task, alone,
          worst>>

Task == Other \union {"health", "memory"}

Owner(t) == IF t \in {"health", "memory"} THEN WATCHDOG ELSE t

Larger(a, b) == IF a > b THEN a ELSE b

NoFigures == [delay |-> 0, runtime |-> 0, module |-> None]

\* Mutant: both of the watchdog's counters start at zero.
InitTogether ==
    /\ health_delay_counter = 0
    /\ memory_delay_counter = 0

\* Watchdog::setup().
InitWatchdog ==
    /\ health_delay_counter = 0
    /\ memory_delay_counter = rate_ms \div 2

Init ==
    /\ FC_module_interrupts_active = FALSE
    /\ FC_max_isr_spacing = 0
    /\ FC_max_isr_duration = 0
    /\ FC_max_isr_time_to_completion = 0
    /\ FC_max_isr_time_module = None
    /\ FC_max_task_delay = 0
    /\ FC_max_task_runtime = 0
    /\ FC_max_task_runtime_module = None
    /\ InitWatchdog
    /\ task_list = <<>>
    /\ pc = "startup"
    /\ task = None
    /\ alone = FALSE
    /\ worst = NoFigures
-----------------------------------------------------------------------------
(* FC_systick_isr.                                                         *)

HealthDue == health_delay_counter + 1 > rate_ms
MemoryDue == memory_delay_counter + 1 > rate_ms

\* Watchdog::interrupt(): its counters ...
CountTicks ==
    /\ health_delay_counter' = IF HealthDue THEN 0 ELSE health_delay_counter + 1
    /\ memory_delay_counter' = IF MemoryDue THEN 0 ELSE memory_delay_counter + 1

\* Mutant: the health report is only scheduled when nothing else waits.
WatchdogTasksIfIdle == (IF HealthDue /\ task_list = <<>> THEN <<"health">> ELSE <<>>)
                       \o (IF MemoryDue THEN <<"memory">> ELSE <<>>)

\* ... and the tasks it schedules.
WatchdogTasks == (IF HealthDue THEN <<"health">> ELSE <<>>)
                 \o (IF MemoryDue THEN <<"memory">> ELSE <<>>)

\* The tasks that modules before, or after, the watchdog schedule in one tick.
Burst == UNION {[1 .. n -> Other] : n \in 0 .. MaxBurst}

\* schedule_task, once per request.  The list drops the tasks that come while
\* its last element is being unlinked (see TaskQueue).
ScheduleAll(requests) ==
    task_list' = IF pc = "closing" /\ alone THEN task_list ELSE task_list \o requests

\* The timing of one call: spacing to the last, total duration.
RecordIsr ==
    /\ \E spacing \in IsrCycles :
          /\ FC_max_isr_spacing' = Larger(FC_max_isr_spacing, spacing)
    /\ \E duration \in IsrCycles :
          FC_max_isr_duration' = Larger(FC_max_isr_duration, duration)

\* The loop over module_list leaves behind the first of the slowest modules, if
\* it was slower than the record.
RecordModules ==
    \E m \in Other \union {WATCHDOG}, cycles \in IsrCycles :
        IF cycles > FC_max_isr_time_to_completion
        THEN /\ FC_max_isr_time_to_completion' = cycles
             /\ FC_max_isr_time_module' = m
        ELSE UNCHANGED <<FC_max_isr_time_to_completion, FC_max_isr_time_module>>

\* Before the modules may be called.
EarlyTick ==
    /\ ~FC_module_interrupts_active
    /\ RecordIsr
    /\ UNCHANGED <<FC_module_interrupts_active, FC_max_isr_time_to_completion,
                   FC_max_isr_time_module, taskRecords, counters, task_list, pc,
                   task, alone, worst>>

Tick ==
    /\ FC_module_interrupts_active
    /\ Len(task_list) <= MaxWaiting
    /\ RecordIsr
    /\ RecordModules
    /\ CountTicks
    /\ \E before, after \in Burst : ScheduleAll(before \o WatchdogTasks \o after)
    /\ UNCHANGED <<FC_module_interrupts_active, taskRecords, pc, task, alone,
                   worst>>
-----------------------------------------------------------------------------
(* kernel_loop.                                                            *)

\* FC_module_interrupts_activate() and the call of kernel_loop().
StartKernel ==
    /\ pc = "startup"
    /\ FC_module_interrupts_active' = TRUE
    /\ pc' = "test"
    /\ UNCHANGED <<isrRecords, taskRecords, counters, task_list, task, alone,
                   worst>>

\* The list is not empty: the front task is copied, its node examined.
TakeTask ==
    /\ pc = "test"
    /\ task_list # <<>>
    /\ task' = Head(task_list)
    /\ alone' = (Len(task_list) = 1)
    /\ pc' = "taking"
    /\ UNCHANGED <<FC_module_interrupts_active, isrRecords, taskRecords,
                   counters, task_list, worst>>

\* pop_front() unlinks the node (see TaskQueue!Unlink) ...
Unlink ==
    /\ pc = "taking"
    /\ task_list' = IF alone THEN <<>> ELSE Tail(task_list)
    /\ pc' = "closing"
    /\ UNCHANGED <<FC_module_interrupts_active, isrRecords, taskRecords,
                   counters, task, alone, worst>>

\* ... and is done; the task's delay is recorded and its function called.
StartTask ==
    /\ pc = "closing"
    /\ \E start_delay \in TaskCycles :
          /\ FC_max_task_delay' = Larger(FC_max_task_delay, start_delay)
          /\ worst' = [worst EXCEPT !.delay = Larger(@, start_delay)]
    /\ alone' = FALSE
    /\ pc' = IF task = "health" THEN "readDuration" ELSE "finish"
    /\ UNCHANGED <<FC_module_interrupts_active, isrRecords, FC_max_task_runtime,
                   FC_max_task_runtime_module, counters, task_list, task>>

\* Mutant: the module is stored even if it was not slower than the record.
FinishTaskAnyModule ==
    /\ pc = "finish"
    /\ \E runtime \in TaskCycles :
          /\ FC_max_task_runtime' = Larger(FC_max_task_runtime, runtime)
          /\ FC_max_task_runtime_module' = Owner(task)
          /\ worst' = IF runtime > worst.runtime
                      THEN [worst EXCEPT !.runtime = runtime, !.module = Owner(task)]
                      ELSE worst
    /\ task' = None
    /\ pc' = "test"
    /\ UNCHANGED <<FC_module_interrupts_active, isrRecords, FC_max_task_delay,
                   counters, task_list, alone>>

\* The function has returned: the run time is recorded.  Nothing is reported
\* when it is over the limit (the branch at line 210 is empty).
FinishTask ==
    /\ pc = "finish"
    /\ \E runtime \in TaskCycles :
          /\ IF runtime > FC_max_task_runtime
             THEN /\ FC_max_task_runtime' = runtime
                  /\ FC_max_task_runtime_module' = Owner(task)
             ELSE UNCHANGED <<FC_max_task_runtime, FC_max_task_runtime_module>>
          /\ worst' = IF runtime > worst.runtime
                      THEN [worst EXCEPT !.runtime = runtime, !.module = Owner(task)]
                      ELSE worst
    /\ task' = None
    /\ pc' = "test"
    /\ UNCHANGED <<FC_module_interrupts_active, isrRecords, FC_max_task_delay,
                   counters, task_list, alone>>
-----------------------------------------------------------------------------
(* Watchdog::analyze_health: one step per access to a record that the      *)
(* interrupt writes.                                                       *)

\* FC_get_max_isr_duration()
ReadDuration ==
    /\ pc = "readDuration"
    /\ pc' = "readModule"
    /\ UNCHANGED <<FC_module_interrupts_active, isrRecords, taskRecords,
                   counters, task_list, task, alone, worst>>

\* FC_max_isr_time_module_ID() follows the pointer.
ReadModule ==
    /\ pc = "readModule"
    /\ pc' = "readTime"
    /\ UNCHANGED <<FC_module_interrupts_active, isrRecords, taskRecords,
                   counters, task_list, task, alone, worst>>

\* FC_get_max_isr_time_to_completion()
ReadTime ==
    /\ pc = "readTime"
    /\ pc' = "readSpacing"
    /\ UNCHANGED <<FC_module_interrupts_active, isrRecords, taskRecords,
                   counters, task_list, task, alone, worst>>

\* FC_get_max_isr_spacing(): what is longer than the limit goes into a report.
ReadSpacing ==
    /\ pc = "readSpacing"
    /\ pc' = "readTasks"
    /\ UNCHANGED <<FC_module_interrupts_active, isrRecords, taskRecords,
                   counters, task_list, task, alone, worst>>

\* FC_get_max_task_delay(), FC_max_task_runtime_module_ID() - which follows the
\* pointer - and FC_get_max_task_runtime(); the interrupt does not write these.
ReadTasks ==
    /\ pc = "readTasks"
    /\ worst' = NoFigures
    /\ pc' = "resetTime"
    /\ UNCHANGED <<FC_module_interrupts_active, isrRecords, taskRecords,
                   counters, task_list, task, alone>>

ResetTime ==
    /\ pc = "resetTime"
    /\ FC_max_isr_time_to_completion' = 0
    /\ pc' = "resetSpacing"
    /\ UNCHANGED <<FC_module_interrupts_active, FC_max_isr_spacing,
                   FC_max_isr_duration, FC_max_isr_time_module, taskRecords,
                   counters, task_list, task, alone, worst>>

ResetSpacing ==
    /\ pc = "resetSpacing"
    /\ FC_max_isr_spacing' = 0
    /\ pc' = "resetDuration"
    /\ UNCHANGED <<FC_module_interrupts_active, FC_max_isr_duration,
                   FC_max_isr_time_to_completion, FC_max_isr_time_module,
                   taskRecords, counters, task_list, task, alone, worst>>

ResetDuration ==
    /\ pc = "resetDuration"
    /\ FC_max_isr_duration' = 0
    /\ pc' = "resetTasks"
    /\ UNCHANGED <<FC_module_interrupts_active, FC_max_isr_spacing,
                   FC_max_isr_time_to_completion, FC_max_isr_time_module,
                   taskRecords, counters, task_list, task, alone, worst>>

\* Mutant: the delay is never reset.
ResetTasksPartly ==
    /\ pc = "resetTasks"
    /\ FC_max_task_runtime' = 0
    /\ pc' = "finish"
    /\ UNCHANGED <<FC_module_interrupts_active, isrRecords, FC_max_task_delay,
                   FC_max_task_runtime_module, counters, task_list, task, alone,
                   worst>>

\* FC_reset_max_task_delay() and FC_reset_max_task_runtime().
ResetTasks ==
    /\ pc = "resetTasks"
    /\ FC_max_task_delay' = 0
    /\ FC_max_task_runtime' = 0
    /\ pc' = "finish"
    /\ UNCHANGED <<FC_module_interrupts_active, isrRecords,
                   FC_max_task_runtime_module, counters, task_list, task, alone,
                   worst>>
-----------------------------------------------------------------------------
AnalyzeHealth == \/ ReadDuration \/ ReadModule \/ ReadTime \/ ReadSpacing
                 \/ ReadTasks \/ ResetTime \/ ResetSpacing \/ ResetDuration
                 \/ ResetTasks

Loop == TakeTask \/ Unlink \/ StartTask \/ FinishTask \/ AnalyzeHealth

Next == EarlyTick \/ Tick \/ StartKernel \/ Loop

Spec == Init /\ [][Next]_vars

\* The only task in the list is being taken: what is scheduled now is dropped.
DropWindow == pc \in {"taking", "closing"} /\ alone

\* A tick that puts analyze_health into the list for good.
HealthTick == Tick /\ HealthDue /\ ~DropWindow

\* The kernel loop and the interrupt go on for ever.  The drop window is a few
\* instructions out of the 600000 cycles between two ticks: the loop does not
\* spend several ticks in it, and the tick in which analyze_health is due does
\* not hit it every time.
FairSpec == /\ Spec
            /\ WF_vars(StartKernel) /\ WF_vars(Loop) /\ WF_vars(Tick)
            /\ SF_vars(HealthTick)
            /\ SF_vars(Unlink /\ HealthDue) /\ SF_vars(StartTask /\ HealthDue)
-----------------------------------------------------------------------------
PCs == {"startup", "test", "taking", "closing", "finish", "readDuration",
        "readModule", "readTime", "readSpacing", "readTasks", "resetTime",
        "resetSpacing", "resetDuration", "resetTasks"}

Module == Other \union {WATCHDOG}

TypeOK ==
    /\ FC_module_interrupts_active \in BOOLEAN
    /\ {FC_max_isr_spacing, FC_max_isr_duration, FC_max_isr_time_to_completion,
        FC_max_task_delay, FC_max_task_runtime} \subseteq Nat
    /\ {FC_max_isr_time_module, FC_max_task_runtime_module}
           \subseteq Module \union {None}
    /\ health_delay_counter \in 0 .. rate_ms
    /\ memory_delay_counter \in 0 .. rate_ms
    /\ task_list \in Seq(Task)
    /\ pc \in PCs
    /\ task \in Task \union {None}
    /\ alone \in BOOLEAN
    /\ worst \in [delay : Nat, runtime : Nat, module : Module \union {None}]

\* analyze_health never follows a null pointer: when it asks for the ID of the
\* slowest module of the interrupt, and of the slowest task, one has been
\* recorded - although the report may be among the first tasks that run, and
\* analyze_memory, which is scheduled half a period earlier, may be dropped.
NoNullModule ==
    /\ pc = "readModule" => FC_max_isr_time_module # None
    /\ pc = "readTasks" => FC_max_task_runtime_module # None

\* The task figures in a health report are those of the tasks that ran since
\* the report before: neither older nor newer ones, and the module named is the
\* one that took longest.
TaskFiguresExact ==
    pc = "readTasks" =>
        /\ FC_max_task_delay = worst.delay
        /\ FC_max_task_runtime = worst.runtime
        /\ worst.module # None => FC_max_task_runtime_module = worst.module

\* Where the kernel loop is, and the task it has in hand.
InHand ==
    /\ FC_module_interrupts_active <=> pc # "startup"
    /\ task = None <=> pc \in {"startup", "test"}
    /\ pc \notin {"startup", "test", "taking", "closing", "finish"} => task = "health"
    /\ pc = "taking" => task_list # <<>>

\* The records of the slowest module name one as soon as there is something to
\* name.
RecordsNamed ==
    /\ FC_max_isr_time_module = None => FC_max_isr_time_to_completion = 0
    /\ FC_max_task_runtime_module = None => FC_max_task_runtime = 0
    /\ task # None \/ task_list # <<>> => FC_max_isr_time_module # None

\* Some task has been scheduled, and one has run or will.
Started == FC_max_task_runtime_module # None \/ task # None \/ task_list # <<>>

\* Why a first health report finds a task recorded: until any task has been
\* scheduled, the watchdog's counters keep their initial distance, so that
\* analyze_memory is due first; and until a task has run to its end, no
\* analyze_health is the first in line.
MemoryBeforeHealth ==
    /\ \/ Started
       \/ /\ memory_delay_counter = health_delay_counter + rate_ms \div 2
          /\ health_delay_counter <= rate_ms - rate_ms \div 2
    /\ FC_max_task_runtime_module = None =>
          /\ task # "health"
          /\ task = None /\ task_list # <<>> => Head(task_list) # "health"

\* The records of the tasks follow the history but for the time between reading
\* and resetting them.
FiguresFollow ==
    IF pc \in {"resetTime", "resetSpacing", "resetDuration", "resetTasks"}
    THEN worst = NoFigures
    ELSE /\ FC_max_task_delay = worst.delay
         /\ FC_max_task_runtime = worst.runtime
         /\ worst.module # None => FC_max_task_runtime_module = worst.module

\* The inductive invariant.
KernelInv == TypeOK /\ InHand /\ RecordsNamed /\ MemoryBeforeHealth /\ FiguresFollow

\* There is always another health report.
HealthReportedAgain == []<>(pc = "readTasks")
=============================================================================
