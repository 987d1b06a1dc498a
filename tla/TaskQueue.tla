----------------------------- MODULE TaskQueue -----------------------------
(***************************************************************************)
(* What the kernel's task list promises (src/src/kernel.cpp): the systick  *)
(* interrupt schedules tasks at any moment, the kernel loop takes them one *)
(* at a time from the front.                                               *)
(*                                                                         *)
(* The list is a plain std::list and nothing masks the interrupt while the *)
(* loop unlinks an element, so the promise is a weak one.  Taking the      *)
(* front task is not one step: the loop looks at what follows the task     *)
(* (BeginTake), unlinks it (Unlink) and finishes (Close).  When the task   *)
(* was alone in the list, whatever is scheduled between BeginTake and      *)
(* Close is forgotten.  TaskList shows that the pointers of std::list      *)
(* implement exactly this.                                                 *)
(*                                                                         *)
(* Tasks are numbered in the order they are scheduled, without a bound:    *)
(* this is the abstract specification, model-checked through TaskList.     *)
(***************************************************************************)
EXTENDS Integers, Sequences, Functions

VARIABLES waiting,       \* the tasks in the list, front first
          phase,         \* how far the kernel loop is with taking a task
          alone,         \* the task being taken is the only one in the list
          scheduled,     \* history: number of tasks scheduled so far
          taken,         \* history: the tasks the kernel loop has taken
          dropped        \* history: the tasks that were forgotten

vars == <<waiting, phase, alone, scheduled, taken, dropped>>

Phases == {"idle", "taking", "closing"}

Init == /\ waiting = <<>>
        /\ phase = "idle"
        /\ alone = FALSE
        /\ scheduled = 0
        /\ taken = {}
        /\ dropped = {}

\* schedule_task() in the interrupt.  Between Unlink and Close of a task that
\* was alone, the push still goes to the element that has left the list.
Schedule ==
    /\ scheduled' = scheduled + 1
    /\ IF phase = "closing" /\ alone
       THEN /\ dropped' = dropped \union {scheduled + 1}
            /\ UNCHANGED waiting
       ELSE /\ waiting' = Append(waiting, scheduled + 1)
            /\ UNCHANGED dropped
    /\ UNCHANGED <<phase, alone, taken>>

\* The kernel loop has found the list not empty and reads the successor of the
\* front task.
BeginTake ==
    /\ phase = "idle"
    /\ waiting # <<>>
    /\ phase' = "taking"
    /\ alone' = (Len(waiting) = 1)
    /\ UNCHANGED <<waiting, scheduled, taken, dropped>>

\* The front task leaves the list; a task that was alone takes with it all
\* that was appended to it meanwhile.
Unlink ==
    /\ phase = "taking"
    /\ phase' = "closing"
    /\ waiting' = IF alone THEN <<>> ELSE Tail(waiting)
    /\ taken' = taken \union {Head(waiting)}
    /\ dropped' = IF alone THEN dropped \union Range(Tail(waiting)) ELSE dropped
    /\ UNCHANGED <<alone, scheduled>>

Close ==
    /\ phase = "closing"
    /\ phase' = "idle"
    /\ alone' = FALSE
    /\ UNCHANGED <<waiting, scheduled, taken, dropped>>

Take == BeginTake \/ Unlink \/ Close

Next == Schedule \/ Take

Spec == Init /\ [][Next]_vars

\* The kernel loop never stops; nothing obliges a module to schedule a task.
FairSpec == Spec /\ WF_vars(Take)
-----------------------------------------------------------------------------
Tasks == Nat \ {0}

TypeOK ==
    /\ waiting \in Seq(Tasks)
    /\ phase \in Phases
    /\ alone \in BOOLEAN
    /\ scheduled \in Nat
    /\ taken \subseteq Tasks
    /\ dropped \subseteq Tasks

\* Every task that was scheduled is waiting, was taken or was dropped, and
\* only one of these: the list never runs a task twice and never invents one
\* (schedule_task and kernel_loop, src/src/kernel.cpp:134-223).
EveryTaskOnce ==
    /\ 1 .. scheduled = Range(waiting) \union taken \union dropped
    /\ Range(waiting) \intersect (taken \union dropped) = {}
    /\ taken \intersect dropped = {}

\* The list is in the order of scheduling and whatever was taken came before
\* all that waits: the kernel runs tasks first come, first served.
FirstComeFirstServed ==
    /\ \A i, j \in DOMAIN waiting : i < j => waiting[i] < waiting[j]
    /\ \A t \in taken, i \in DOMAIN waiting : t < waiting[i]

\* The task being taken is still in the list, and a task that was alone has
\* left an empty list behind.
WhileTaking ==
    /\ phase = "taking" => waiting # <<>>
    /\ phase = "closing" /\ alone => waiting = <<>>
    /\ phase = "idle" => ~alone

\* The inductive invariant.
QueueInv == TypeOK /\ WhileTaking /\ EveryTaskOnce /\ FirstComeFirstServed
=============================================================================
