----------------------------- MODULE Requester -----------------------------
(***************************************************************************)
(* The requester (src/src/logger.cpp): it asks a server for a message at a *)
(* fixed rate and sends it on as text.  The lines of system.cpp that would *)
(* create it are commented out; the model is of the system with them.      *)
(***************************************************************************)
EXTENDS Clock, Scheduler

CONSTANT RequestPeriod      \* ticks between two requests: 5000 (0.2 Hz)

VARIABLE request_pending    \* flag_update_pending

RequesterStamps  == {"last_request"}    \* last_update
RequesterEntries == {"request"}         \* run

RequesterInit == request_pending = FALSE

\* Requester::interrupt(), after the counter has been incremented.
RequesterInterrupt ==
    request_pending' = (Elapsed("last_request")' >= RequestPeriod)

RequesterRequests == IF request_pending THEN <<"request">> ELSE <<>>

\* run(): the server is asked if a request is pending.
Request ==
    /\ at = "request"
    /\ GoTo(IF request_pending THEN "answer" ELSE "stamp_request")
    /\ UNCHANGED <<clock, request_pending>>

Answer ==
    /\ at = "answer"
    /\ GoTo("stamp_request")
    /\ UNCHANGED <<clock, request_pending>>

\* In any case last_update is taken, then the flag lowered.
StampRequest ==
    \/ /\ at = "stamp_request"
       /\ TakeStamp("last_request")
       /\ GoTo("clear_request")
       /\ UNCHANGED request_pending
    \/ /\ at = "clear_request"
       /\ request_pending' = FALSE
       /\ Return
       /\ UNCHANGED clock

RequesterTask == Request \/ Answer \/ StampRequest
-----------------------------------------------------------------------------
\* A message is sent only when the period has passed since the one before, although
\* run is scheduled on every tick until it has run (logger.cpp:50-53, 79-80).
RequesterKeepsItsRate == at = "answer" => ticks["last_request"] >= RequestPeriod

\* The inductive invariant.
RequesterInv ==
    /\ request_pending /\ at # "clear_request" => ticks["last_request"] >= RequestPeriod
    /\ RequesterKeepsItsRate
=============================================================================
