------------------------------- MODULE Servo -------------------------------
(***************************************************************************)
(* The servo driver (src/src/servo.cpp), as src/test/servo_test builds it: *)
(* created, given default positions, activated on some channels, then fed  *)
(* with messages.  A position is "preset" (that of the constructor) or one *)
(* of a few setpoints; -1000 .. 1000 becomes Limits.                       *)
(***************************************************************************)
EXTENDS Clock, Scheduler

CONSTANTS Channel,        \* the servo channels
          Activated,      \* those in the mask passed to activate
          Limits,         \* the setpoints within the sane limits
          Setpoint,       \* the setpoints that messages contain
          Steered         \* bound: number of messages

VARIABLES servo_in,       \* ReceiverPort in: the queue of messages
          current_pos,    \* what each channel was last set to
          output,         \* what analogWrite was last called with, or "none"
          steered         \* history: the messages sent

servo == <<servo_in, current_pos, output, steered>>

ServoEntries == {"handle_message"}

\* A message gives every channel a setpoint, or is of another type.
ServoMessage == [type : {"servo"}, pos : [Channel -> Setpoint]] \union [type : {"other"}]

\* The constructor; set_pos(defaults), which no channel heeds as none is active;
\* activate(mask), which outputs the presets.
ServoInit ==
    /\ servo_in = <<>>
    /\ current_pos = [c \in Channel |-> "preset"]
    /\ output = [c \in Channel |-> IF c \in Activated THEN "preset" ELSE "none"]
    /\ steered = <<>>

ServoRequests == IF servo_in # <<>> THEN <<"handle_message">> ELSE <<>>

\* The servo tester sends a message, in the main context.
Steer ==
    /\ at = "kernel"
    /\ Len(steered) < Steered
    /\ \E m \in ServoMessage :
          /\ servo_in' = Append(servo_in, m)
          /\ steered' = Append(steered, m)
    /\ UNCHANGED <<clock, scheduling, current_pos, output>>

Obeys(c, message) == c \in Activated /\ message.pos[c] \in Limits

\* set_pos(): the active channels with a sane setpoint are updated.
SetPos(message) ==
    /\ current_pos' = [c \in Channel |->
           IF Obeys(c, message) THEN message.pos[c] ELSE current_pos[c]]
    /\ output' = [c \in Channel |->
           IF Obeys(c, message) THEN message.pos[c] ELSE output[c]]

\* Mutant: the messages after one of another type are forgotten.
HandleUntilOther ==
    /\ at = "handle_message"
    /\ IF servo_in = <<>>
       THEN Return /\ UNCHANGED servo
       ELSE /\ servo_in' = IF Head(servo_in).type = "other" THEN <<>> ELSE Tail(servo_in)
            /\ IF Head(servo_in).type = "other"
               THEN UNCHANGED <<current_pos, output>>
               ELSE SetPos(Head(servo_in))
            /\ UNCHANGED <<steered, scheduling>>
    /\ UNCHANGED clock

\* handle_message(): one message after the other until the queue is empty.
HandleMessage ==
    /\ at = "handle_message"
    /\ IF servo_in = <<>>
       THEN Return /\ UNCHANGED servo
       ELSE /\ servo_in' = Tail(servo_in)
            /\ IF Head(servo_in).type = "other"
               THEN UNCHANGED <<current_pos, output>>
               ELSE SetPos(Head(servo_in))
            /\ UNCHANGED <<steered, scheduling>>
    /\ UNCHANGED clock
-----------------------------------------------------------------------------
\* The messages that told channel c where to go, and were handled.
Obeyed(c) ==
    {i \in 1 .. Len(steered) - Len(servo_in) :
        steered[i].type = "servo" /\ Obeys(c, steered[i])}

\* Every channel is where the last message that concerns it has put it, also
\* when messages leave it out: none is lost, applied twice or out of order.
ServoFollows ==
    \A c \in Channel :
        /\ c \notin Activated => output[c] = "none"
        /\ c \in Activated => output[c] = current_pos[c]
        /\ c \in Activated /\ Obeyed(c) = {} => output[c] = "preset"
        /\ \A i \in Obeyed(c) :
              (\A j \in Obeyed(c) : j <= i) => output[c] = steered[i].pos[c]

\* Every message is handled in the end.
ServoHandlesAll == []<>(servo_in = <<>>)

\* What ServoFollows needs: the queue holds the last messages sent, in order.
ServoInv ==
    /\ servo_in \in Seq(ServoMessage)
    /\ steered \in Seq(ServoMessage)
    /\ Len(servo_in) <= Len(steered)
    /\ \A n \in DOMAIN servo_in : servo_in[n] = steered[Len(steered) - Len(servo_in) + n]
    /\ ServoFollows
=============================================================================
