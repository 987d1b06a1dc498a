---------------------------- MODULE FileWriter ----------------------------
(***************************************************************************)
(* The writers of log files (src/src/file_writer.cpp).  FileWriter has one *)
(* input, StreamFileWriter two; a handler writes one message of an input   *)
(* to the file, flush brings what was written to the card.                 *)
(*                                                                         *)
(* main.cpp:90-95 creates a FileWriter and opens its file; the lines that  *)
(* would enter it in the module list and wire the logger to it are         *)
(* commented out, as are those of system.cpp:32 and 80-83 that would       *)
(* create a StreamFileWriter.  The model is of the writers with these      *)
(* lines.                                                                  *)
(***************************************************************************)
EXTENDS Clock, Scheduler

CONSTANTS FlushPeriod,    \* ticks between two flushes: 5000
          Logged          \* bound: number of messages sent to the file

VARIABLES file_runlevel,  \* runlevel_
          inputs,         \* the writer's input ports, in the order of interrupt()
          in,             \* the queue of each
          logged,         \* history: number of messages sent
          file,           \* history: the messages written, in order
          card            \* history: how many of them were flushed to the card

fileWriter == <<file_runlevel, inputs, in, logged, file, card>>

\* The inputs of FileWriter and of StreamFileWriter, and the handler of each.
Writers == {<<"MSG">>, <<"AHRS", "GYRO">>}
Handler == [MSG |-> "handle_MSG", AHRS |-> "handle_AHRS", GYRO |-> "handle_GYRO"]

FileStamps  == {"last_flush"}
FileEntries == {"handle_MSG", "handle_AHRS", "handle_GYRO", "flush"}

\* setup() has run: the file was opened, or it was not.
FileInit ==
    /\ file_runlevel \in {"link_open", "operational"}
    /\ inputs \in Writers
    /\ in = [p \in DOMAIN Handler |-> <<>>]
    /\ logged = 0
    /\ file = <<>>
    /\ card = 0

\* A handler is asked for while its input, if the writer has it, is not empty.
HandlerRequest(p) == IF in[p] # <<>> THEN <<Handler[p]>> ELSE <<>>

FlushRequest == IF Elapsed("last_flush") > FlushPeriod THEN <<"flush">> ELSE <<>>

\* interrupt(), after the counter has been incremented.
FileRequests ==
    IF file_runlevel = "link_open"
    THEN HandlerRequest("MSG") \o HandlerRequest("AHRS") \o HandlerRequest("GYRO")
         \o FlushRequest
    ELSE <<>>

\* A module sends a message to an input, in the main context.
LogMessage ==
    /\ at = "kernel"
    /\ logged < Logged
    /\ logged' = logged + 1
    /\ \E i \in DOMAIN inputs :
          in' = [in EXCEPT ![inputs[i]] = Append(@, logged + 1)]
    /\ UNCHANGED <<clock, scheduling, file_runlevel, inputs, file, card>>

\* Mutant: the file takes the newest message.
HandleNewest(p) ==
    /\ at = Handler[p]
    /\ IF in[p] # <<>>
       THEN /\ in' = [in EXCEPT ![p] = SubSeq(@, 1, Len(@) - 1)]
            /\ file' = Append(file, <<p, in[p][Len(in[p])]>>)
       ELSE UNCHANGED <<in, file>>
    /\ Return
    /\ UNCHANGED <<clock, file_runlevel, inputs, logged, card>>

\* handle_MSG(), handle_AHRS(), handle_GYRO(): scheduled once more than there are
\* messages, they do nothing.  File::write may fail, which nobody notices.
Handle(p) ==
    /\ at = Handler[p]
    /\ IF in[p] # <<>>
       THEN /\ in' = [in EXCEPT ![p] = Tail(@)]
            /\ file' \in {Append(file, <<p, Head(in[p])>>), file}
       ELSE UNCHANGED <<in, file>>
    /\ Return
    /\ UNCHANGED <<clock, file_runlevel, inputs, logged, card>>

\* Mutant: only the time is noted.
FlushForgotten ==
    /\ at = "flush"
    /\ TakeStamp("last_flush")
    /\ Return
    /\ UNCHANGED fileWriter

\* flush(): the card, then last_flush.
Flush ==
    \/ /\ at = "flush"
       /\ card' = Len(file)
       /\ GoTo("stamp_flush")
       /\ UNCHANGED <<clock, file_runlevel, inputs, in, logged, file>>
    \/ /\ at = "stamp_flush"
       /\ TakeStamp("last_flush")
       /\ Return
       /\ UNCHANGED fileWriter

FileTask == (\E p \in DOMAIN Handler : Handle(p)) \/ Flush
-----------------------------------------------------------------------------
\* The file has the messages of each input in the order of sending, however many
\* tasks of its handler wait, and what was fetched before does not overtake what is
\* still queued (file_writer.cpp:36-37, 43-57, 100-103, 109-143).
FileInOrder ==
    /\ \A i, j \in DOMAIN file :
          i < j /\ file[i][1] = file[j][1] => file[i][2] < file[j][2]
    /\ \A i \in DOMAIN file : \A n \in DOMAIN in[file[i][1]] :
          file[i][2] < in[file[i][1]][n]

\* A writer with an open file writes all it is sent, and what it has written is
\* on the card in the end, without further messages (file_writer.h:35-43).
FileReachesCard ==
    file_runlevel = "link_open" =>
        <>[]((\A p \in DOMAIN in : in[p] = <<>>) /\ card = Len(file))

\* What FileInOrder needs: messages are numbered in the order of sending, so the newest
\* is larger than all that are queued or written, and each queue is in order.
FileInv ==
    /\ inputs \in Writers
    /\ logged \in Nat
    /\ in \in [DOMAIN Handler -> Seq(Nat)]
    /\ file \in Seq((DOMAIN Handler) \X Nat)
    /\ \A p \in DOMAIN Handler : \A n \in DOMAIN in[p] : in[p][n] <= logged
    /\ \A p \in DOMAIN Handler : \A m, n \in DOMAIN in[p] : m < n => in[p][m] < in[p][n]
    /\ \A i \in DOMAIN file : file[i][2] <= logged
    /\ FileInOrder
=============================================================================
