----------------------------- MODULE MessageLog -----------------------------
(***************************************************************************)
(* What the system log promises its clients (src/src/logger.h): every      *)
(* message a module sends to it is written to the text output once, in the *)
(* order in which the messages came, and every message of type SYSTEM is   *)
(* sent once more through the system output, in the same order, before the *)
(* next message is written.                                                *)
(*                                                                         *)
(* Messages are numbered in the order they are received.                   *)
(***************************************************************************)
EXTENDS Integers, Sequences, Functions

CONSTANT MaxMessages     \* bound: number of messages in a behaviour

VARIABLES received,      \* number of messages received
          system,        \* those of type SYSTEM
          written,       \* what was sent through text_out
          forwarded      \* what was sent through system_out

logVars == <<received, system, written, forwarded>>

LogInit == /\ received = 0
           /\ system = {}
           /\ written = <<>>
           /\ forwarded = <<>>

\* The last message written still has to be forwarded.
Owes == /\ written # <<>>
        /\ Len(written) \in system
        /\ Len(written) \notin Range(forwarded)

LogReceive ==
    /\ received < MaxMessages
    /\ received' = received + 1
    /\ system' \in {system, system \union {received + 1}}
    /\ UNCHANGED <<written, forwarded>>

LogWrite ==
    /\ ~Owes
    /\ Len(written) < received
    /\ written' = Append(written, Len(written) + 1)
    /\ UNCHANGED <<received, system, forwarded>>

LogForward ==
    /\ Owes
    /\ forwarded' = Append(forwarded, Len(written))
    /\ UNCHANGED <<received, system, written>>

LogNext == LogReceive \/ LogWrite \/ LogForward

LogSpec == LogInit /\ [][LogNext]_logVars

\* Nothing that was received stays unwritten, or unforwarded, for ever.
LogFairSpec == LogSpec /\ WF_logVars(LogWrite) /\ WF_logVars(LogForward)
=============================================================================
