----------------------------- MODULE Commander -----------------------------
(***************************************************************************)
(* The commander (src/src/commander.cpp).  Its interrupt schedules         *)
(* activate on every tick until activate has set the run level.            *)
(*                                                                         *)
(* Nothing is wired to command_in (system.cpp:129 is commented out), so    *)
(* handle_uplink, whose body is a comment too, is never scheduled.         *)
(***************************************************************************)
EXTENDS Clock, Scheduler

VARIABLES com_runlevel,     \* runlevel_
          com_reports       \* history: how often "taking command." was sent

commander == <<com_runlevel, com_reports>>

CommanderEntries == {"activate"}

\* setup() has run.
CommanderInit == com_runlevel = "operational" /\ com_reports = 0

CommanderRequests ==
    IF com_runlevel = "operational" THEN <<"activate">> ELSE <<>>

\* Mutant: the run level is not set.
ActivateForgotten ==
    /\ at = "activate"
    /\ com_reports' = 1
    /\ Return
    /\ UNCHANGED <<clock, com_runlevel>>

\* activate(): the report is sent, then the run level set.
Activate ==
    \/ /\ at = "activate"
       /\ com_reports' = com_reports + 1
       /\ GoTo("pilot in command")
       /\ UNCHANGED <<clock, com_runlevel>>
    \/ /\ at = "pilot in command"
       /\ com_runlevel' = "pilot in command"
       /\ Return
       /\ UNCHANGED <<clock, com_reports>>
=============================================================================
