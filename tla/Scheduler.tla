----------------------------- MODULE Scheduler -----------------------------
(***************************************************************************)
(* What a module sees of the kernel: the task list that brings the tasks   *)
(* its interrupt schedules back in the main context, in order but late.    *)
(*                                                                         *)
(* A task runs step by step; the interrupt may come between two steps.     *)
(* Reading FC_time_now() and storing the stamp is one step.                *)
(***************************************************************************)
EXTENDS Integers, Sequences

CONSTANTS MaxLag,     \* ticks that may pass before the kernel loop has caught up
          MaxDrops    \* bound: ticks whose tasks the list drops

ASSUME SchedulerAssumption == MaxLag \in Nat \ {0} /\ MaxDrops \in Nat

VARIABLES tasks,      \* the tasks in the kernel's list, by name
          at,         \* the next step of the running task, which starts at the
                      \* step of its name; "kernel": no task runs
          lag,        \* ticks since the kernel loop was last without work
          drops       \* ticks whose tasks were dropped

scheduling == <<tasks, at, lag, drops>>

SchedulerInit == tasks = <<>> /\ at = "kernel" /\ lag = 0 /\ drops = 0

\* Mutant: the new tasks come first.
EnlistAhead(requested, entries) ==
    /\ tasks' = requested \o tasks
    /\ lag' = IF tasks = <<>> /\ at = "kernel" THEN 0 ELSE lag + 1
    /\ UNCHANGED <<at, drops>>

\* The module interrupts schedule requested.  While the kernel loop takes the
\* last task out of the list, the list drops what is appended (see TaskQueue);
\* this task may be one of a module that is not modelled.
Enlist(requested, entries) ==
    /\ \/ tasks' = tasks \o requested /\ UNCHANGED drops
       \/ /\ requested # <<>>
          /\ tasks = <<>> /\ at \in entries \union {"kernel"}
          /\ drops < MaxDrops
          /\ drops' = drops + 1
          /\ UNCHANGED tasks
    /\ lag' = IF tasks = <<>> /\ at = "kernel" THEN 0 ELSE lag + 1
    /\ UNCHANGED at

\* kernel_loop: the front task is taken out of the list and called.
Dispatch ==
    /\ at = "kernel"
    /\ tasks # <<>>
    /\ at' = Head(tasks)
    /\ tasks' = Tail(tasks)
    /\ UNCHANGED <<lag, drops>>

\* The running task goes on at step s.
GoTo(s) == at' = s /\ UNCHANGED <<tasks, lag, drops>>

\* The running task returns; the kernel loop has caught up if none is left.
Return == /\ at' = "kernel"
          /\ lag' = IF tasks = <<>> THEN 0 ELSE lag
          /\ UNCHANGED <<tasks, drops>>
=============================================================================
