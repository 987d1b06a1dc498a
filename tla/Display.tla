------------------------------ MODULE Display ------------------------------
(***************************************************************************)
(* The display (src/src/display.cpp).  When an update is due, its          *)
(* interrupt starts one; as long as it runs, the interrupt schedules a     *)
(* redraw task on every tick, and each draws one character.                *)
(*                                                                         *)
(* The data_in port is wired to nothing and left out; what is drawn, and   *)
(* the text of the lines, are too.                                         *)
(***************************************************************************)
EXTENDS Scheduler, Stream

CONSTANTS UpdatePeriod,   \* ticks between two updates: 500 (2 Hz)
          NumCycles       \* characters of a line

VARIABLES update_state, cycle_count, flag_update_running,
          update_age      \* FC_elapsed_millis(last_update), up to UpdatePeriod + 1

display == <<update_state, cycle_count, flag_update_running, update_age>>

DisplayEntries == {"redraw"}
Lines == <<"clock", "itc", "ttc", "heading", "pitch">>

\* setup() has run; the set-up of the modules behind it may have taken long.
DisplayInit ==
    /\ update_state = "complete"
    /\ cycle_count = 0
    /\ flag_update_running = FALSE
    /\ update_age \in {0, UpdatePeriod + 1}

UpdateAge == IF update_age > UpdatePeriod THEN update_age ELSE update_age + 1

\* Mutant: an update is started whenever one is due.
StartWithoutElse ==
    IF UpdateAge > UpdatePeriod
    THEN /\ update_state' = "clear"
         /\ cycle_count' = 0
         /\ flag_update_running' = TRUE
         /\ update_age' = 0
    ELSE /\ update_age' = UpdateAge
         /\ UNCHANGED <<update_state, cycle_count, flag_update_running>>

\* When due, and none is running, start a new update.
StartUpdate ==
    IF ~flag_update_running /\ UpdateAge > UpdatePeriod
    THEN /\ update_state' = "clear"
         /\ cycle_count' = 0
         /\ flag_update_running' = TRUE
         /\ update_age' = 0
    ELSE /\ update_age' = UpdateAge
         /\ UNCHANGED <<update_state, cycle_count, flag_update_running>>

DisplayInterrupt == FetchAll /\ StartUpdate

\* An update that starts with this tick asks for its first task with the next.
DisplayRequests == IF flag_update_running THEN <<"redraw">> ELSE <<>>

\* redraw(): the screen is cleared.
Clear ==
    /\ at = "redraw"
    /\ update_state = "clear"
    /\ update_state' = Lines[1]
    /\ cycle_count' = 0
    /\ Return
    /\ UNCHANGED <<flag_update_running, update_age>>

\* The text of a line is made up, or its next character drawn.
Draw ==
    /\ at = "redraw"
    /\ \E l \in DOMAIN Lines :
        /\ update_state = Lines[l]
        /\ IF cycle_count < NumCycles
           THEN cycle_count' = cycle_count + 1 /\ UNCHANGED update_state /\ Return
           ELSE /\ cycle_count' = 0
                /\ IF l < Len(Lines)
                   THEN update_state' = Lines[l + 1] /\ Return
                   ELSE UNCHANGED update_state /\ GoTo("last line")
    /\ UNCHANGED <<flag_update_running, update_age>>

\* Mutant: the flag is lowered before the state is set.
FinishFlagFirst ==
    \/ /\ at = "last line"
       /\ flag_update_running' = FALSE
       /\ GoTo("complete")
       /\ UNCHANGED <<update_state, cycle_count, update_age>>
    \/ /\ at = "complete"
       /\ update_state' = "complete"
       /\ GoTo("finished")
       /\ UNCHANGED <<cycle_count, flag_update_running, update_age>>
    \/ /\ at = "finished"
       /\ update_age' = 0
       /\ Return
       /\ UNCHANGED <<update_state, cycle_count, flag_update_running>>

\* After the last line: the state, the flag, the time.
Finish ==
    \/ /\ at = "last line"
       /\ update_state' = "complete"
       /\ GoTo("complete")
       /\ UNCHANGED <<cycle_count, flag_update_running, update_age>>
    \/ /\ at = "complete"
       /\ flag_update_running' = FALSE
       /\ GoTo("finished")
       /\ UNCHANGED <<update_state, cycle_count, update_age>>
    \/ /\ at = "finished"
       /\ update_age' = 0
       /\ Return
       /\ UNCHANGED <<update_state, cycle_count, flag_update_running>>

\* A task scheduled for an update that is complete.
NothingToDraw ==
    /\ at = "redraw"
    /\ update_state = "complete"
    /\ Return
    /\ UNCHANGED display

DisplayTask == Clear \/ Draw \/ Finish \/ NothingToDraw
-----------------------------------------------------------------------------
\* An update that has begun is drawn to its end before the next one begins, however
\* late the redraw tasks are (display.cpp:108-121 against 263-266).
UpdatesNotCutShort ==
    [][update_state' = "clear" /\ update_state # "clear" => update_state = "complete"]_display

\* The display is updated again and again, unless the set-up of the other modules
\* never ends: it cannot stop between the interrupt that starts an update and the
\* task that ends one (display.cpp:108-121 against 263-266).
KeepsDrawing ==
    \/ <>[](at = "setup")
    \/ []<>(update_state = "clear") /\ []<>(update_state = "complete")
=============================================================================
