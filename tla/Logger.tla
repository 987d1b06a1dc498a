------------------------------- MODULE Logger -------------------------------
(***************************************************************************)
(* The system log (src/src/logger.cpp), its input queue (src/src/port.cpp) *)
(* and the systick interrupt that schedules it.                            *)
(*                                                                         *)
(* Two contexts share the queue `in' and flag_message_pending.  The main   *)
(* context runs one task after the other: tasks of other modules put       *)
(* messages into the queue, the task Logger::run takes them out.  The      *)
(* interrupt, Logger::interrupt, only reads the number of messages, raises *)
(* the flag and schedules run.  It comes between any two accesses of run   *)
(* to the queue and the flag; each of these is a step of its own.          *)
(*                                                                         *)
(* The flag is set from both sides without protection, and run fetches     *)
(* without looking at the queue whenever the flag is up: fetch() on an     *)
(* empty std::list is undefined behaviour.                                 *)
(*                                                                         *)
(* Messages are numbered in the order they are received.                   *)
(***************************************************************************)
EXTENDS Integers, Sequences, Functions

CONSTANTS MaxMessages,   \* bound: number of messages in a behaviour
          MaxRuns        \* bound: run tasks told apart in the task list

ASSUME LoggerAssumption ==
    /\ MaxMessages \in Nat
    /\ MaxRuns \in Nat /\ MaxRuns > 0

VARIABLES active,        \* FC_module_interrupts_active
          in,            \* ReceiverPort in: the queue
          flag_message_pending,
          runs,          \* tasks Logger::run waiting in the task list
          pc,            \* the next access of run; "kernel": it is not running
          msg,           \* run: Message msg
          pending,       \* run: the value of in.count()>0 it has computed
          received,      \* history: number of messages put into the queue
          system,        \* history: those of type MSG_TYPE_SYSTEM
          written,       \* history: messages sent through text_out
          forwarded      \* history: messages sent through system_out

history == <<received, system, written, forwarded>>
vars == <<active, in, flag_message_pending, runs, pc, msg, pending,
          received, system, written, forwarded>>

None == 0                \* no message in the local variable

Init ==
    /\ active = FALSE
    /\ in = <<>>
    /\ flag_message_pending = FALSE
    /\ runs = 0
    /\ pc = "kernel"
    /\ msg = None
    /\ pending = FALSE
    /\ received = 0
    /\ system = {}
    /\ written = <<>>
    /\ forwarded = <<>>
-----------------------------------------------------------------------------
(* The rest of the main context.                                           *)

\* A task of another module, or the start-up code, logs a message.
Receive ==
    /\ pc = "kernel"
    /\ received < MaxMessages
    /\ received' = received + 1
    /\ system' \in {system, system \union {received + 1}}
    /\ in' = Append(in, received + 1)
    /\ UNCHANGED <<active, flag_message_pending, runs, pc, msg, pending,
                   written, forwarded>>

\* FC_module_interrupts_activate, at the end of the start-up code.
Activate ==
    /\ ~active
    /\ active' = TRUE
    /\ UNCHANGED <<in, flag_message_pending, runs, pc, msg, pending, history>>
-----------------------------------------------------------------------------
(* The interrupt.                                                          *)

RaiseFlag == flag_message_pending' = (flag_message_pending \/ in # <<>>)

\* Mutant: only a new message is scheduled, not one that was left over.
ScheduleOnlyOnRise ==
    runs' = IF flag_message_pending' /\ ~flag_message_pending /\ runs < MaxRuns
            THEN runs + 1 ELSE runs

Schedule ==
    runs' = IF flag_message_pending' /\ runs < MaxRuns THEN runs + 1 ELSE runs

\* Logger::interrupt().
Interrupt ==
    /\ active
    /\ RaiseFlag
    /\ Schedule
    /\ UNCHANGED <<active, in, pc, msg, pending, history>>

\* The same, but the interrupt has come while the kernel loop was taking the
\* last task of the list: the list drops the new task (see TaskQueue).
InterruptDropped ==
    /\ active
    /\ pc = "kernel"
    /\ RaiseFlag
    /\ flag_message_pending'
    /\ UNCHANGED <<active, in, runs, pc, msg, pending, history>>
-----------------------------------------------------------------------------
(* Logger::run().                                                          *)

\* The kernel loop has reached a run task.
Start ==
    /\ active
    /\ pc = "kernel"
    /\ runs > 0
    /\ runs' = runs - 1
    /\ pc' = "check"
    /\ UNCHANGED <<active, in, flag_message_pending, msg, pending, history>>

\* Mutant: do { } while instead of while.
RunWithoutCheck ==
    /\ pc = "check"
    /\ pc' = "front"
    /\ UNCHANGED <<active, in, flag_message_pending, runs, msg, pending, history>>

\* while (flag_message_pending)
Check ==
    /\ pc = "check"
    /\ pc' = IF flag_message_pending THEN "front" ELSE "kernel"
    /\ UNCHANGED <<active, in, flag_message_pending, runs, msg, pending, history>>

\* fetch(): queue.front().  Undefined on an empty queue: no step.
Front ==
    /\ pc = "front"
    /\ in # <<>>
    /\ msg' = Head(in)
    /\ pc' = "pop"
    /\ UNCHANGED <<active, in, flag_message_pending, runs, pending, history>>

\* Mutant: fetch() forgets to remove the message.
PopForgotten ==
    /\ pc = "pop"
    /\ pc' = "text"
    /\ UNCHANGED <<active, in, flag_message_pending, runs, msg, pending, history>>

\* fetch(): queue.pop_front().
Pop ==
    /\ pc = "pop"
    /\ in' = Tail(in)
    /\ pc' = "text"
    /\ UNCHANGED <<active, flag_message_pending, runs, msg, pending, history>>

\* text_out.transmit(msg.as_text())
WriteText ==
    /\ pc = "text"
    /\ written' = Append(written, msg)
    /\ pc' = "count"
    /\ UNCHANGED <<active, in, flag_message_pending, runs, msg, pending,
                   received, system, forwarded>>

\* Mutant: the message just fetched is counted once more.
CountPlusOne ==
    /\ pc = "count"
    /\ pending' = (Len(in) + 1 > 0)
    /\ pc' = "store"
    /\ UNCHANGED <<active, in, flag_message_pending, runs, msg, history>>

\* flag_message_pending = (in.count()>0): the count is read ...
Count ==
    /\ pc = "count"
    /\ pending' = (in # <<>>)
    /\ pc' = "store"
    /\ UNCHANGED <<active, in, flag_message_pending, runs, msg, history>>

\* ... and the flag stored.
Store ==
    /\ pc = "store"
    /\ flag_message_pending' = pending
    /\ pc' = "system"
    /\ UNCHANGED <<active, in, runs, msg, pending, history>>

\* Mutant: every message is sent to the ground.
ForwardAll ==
    /\ pc = "system"
    /\ forwarded' = Append(forwarded, msg)
    /\ msg' = None
    /\ pc' = "check"
    /\ UNCHANGED <<active, in, flag_message_pending, runs, pending,
                   received, system, written>>

\* A message of type SYSTEM is sent through system_out, too.
Forward ==
    /\ pc = "system"
    /\ forwarded' = IF msg \in system THEN Append(forwarded, msg) ELSE forwarded
    /\ msg' = None
    /\ pc' = "check"
    /\ UNCHANGED <<active, in, flag_message_pending, runs, pending,
                   received, system, written>>

Run == Check \/ Front \/ Pop \/ WriteText \/ Count \/ Store \/ Forward

Next == Receive \/ Activate \/ Interrupt \/ InterruptDropped \/ Start \/ Run

\* The start-up code ends; systick comes for ever and, as the unlinking of a
\* task is a few instructions out of the 600000 cycles between two interrupts,
\* not every time at that point; the kernel loop runs every task it has.
Fairness ==
    /\ WF_vars(Activate)
    /\ WF_vars(Interrupt)
    /\ WF_vars(Start)
    /\ WF_vars(Run)

Spec == Init /\ [][Next]_vars

FairSpec == Spec /\ Fairness
-----------------------------------------------------------------------------
Messages == 1 .. MaxMessages

PCs == {"kernel", "check", "front", "pop", "text", "count", "store", "system"}

TypeOK ==
    /\ active \in BOOLEAN
    /\ in \in Seq(Messages)
    /\ flag_message_pending \in BOOLEAN
    /\ runs \in 0 .. MaxRuns
    /\ pc \in PCs
    /\ msg \in Messages \union {None}
    /\ pending \in BOOLEAN
    /\ received \in 0 .. MaxMessages
    /\ system \subseteq 1 .. received
    /\ written \in Seq(Messages)
    /\ forwarded \in Seq(Messages)

\* Logger::run never calls fetch() on an empty queue, although it trusts a
\* flag that the interrupt raises behind its back (logger.cpp:18, 26-31).
NeverFetchesEmpty == pc = "front" => in # <<>>

\* Number of messages that have left the queue.
Fetched == Len(written) + (IF pc = "text" THEN 1 ELSE 0)

\* Every message received is written once, in the order received, or is the
\* one being handled, or is still queued in that order: none is lost, written
\* twice or overtaken, whenever the interrupt comes.
EveryMessageInOrder ==
    /\ \A i \in DOMAIN written : written[i] = i
    /\ \A i \in DOMAIN in : in[i] = Fetched + i
    /\ received = Fetched + Len(in)

\* What makes NeverFetchesEmpty inductive: outside the steps of run between
\* taking a message and storing the flag, a raised flag means a message.
FlagMeansMessage ==
    /\ flag_message_pending /\ pc \in {"kernel", "check", "system"} => in # <<>>
    /\ pc \in {"front", "pop"} => in # <<>>
    /\ pc = "pop" => msg = Head(in)
    /\ pc = "text" => msg = Fetched
    /\ pc \in {"count", "store", "system"} => msg = Len(written) /\ written # <<>>
    /\ pc = "store" => pending = (in # <<>>)

\* The message run has written but not yet looked at for forwarding.
Handled == IF pc \in {"count", "store", "system"} THEN {msg} ELSE {}

\* The system messages among those written have been forwarded, each once and
\* in order, except the one being handled.
SystemForwarded ==
    /\ Range(forwarded) = (Range(written) \intersect system) \ Handled
    /\ \A i, j \in DOMAIN forwarded : i < j => forwarded[i] < forwarded[j]

\* The inductive invariant.
LoggerInv == TypeOK /\ EveryMessageInOrder /\ FlagMeansMessage /\ SystemForwarded

\* The logger is the log its clients rely on, liveness included.
Log == INSTANCE MessageLog
ImplementsMessageLog == Log!LogFairSpec
=============================================================================
