------------------------------- MODULE Modem -------------------------------
(***************************************************************************)
(* The radio modem (src/src/modem.cpp): uplink messages from the ground    *)
(* station, downlink messages to it.                                       *)
(*                                                                         *)
(* Modem::interrupt, called by systick, measures how long the radio has    *)
(* been idle and schedules the tasks receive, process_message and          *)
(* send_message; the kernel loop runs them later, in order, and may be     *)
(* late because tasks of other modules run first.  Nothing tells the       *)
(* interrupt that a task it asks for is already waiting or running, so one *)
(* cause is often scheduled several times.                                 *)
(*                                                                         *)
(* Both directions are cut in parts.  An uplink message arrives in the     *)
(* FIFO of Serial1 in ChunksUp parts while the radio holds AUX low; the    *)
(* part <<m, k>> is the k-th of message m.  A downlink message is written  *)
(* in 1 .. PartsDown pieces.                                               *)
(***************************************************************************)
EXTENDS Integers, Sequences, FiniteSets, Functions

CONSTANTS EndOfMessage,  \* ms of silence that end an uplink message: 5
          Pause,         \* ms of silence before a downlink message: 10
          Up,            \* bound: number of uplink messages
          ChunksUp,      \* parts of an uplink message
          GroundPause,   \* ms of silence the ground station waits for
          Down,          \* bound: number of downlink messages
          PartsDown,     \* largest number of pieces of a downlink message
          MaxLag,        \* ticks that may pass before the kernel loop has caught up
          MaxDrops       \* bound: ticks whose tasks the list drops

ASSUME ModemAssumption ==
    /\ {EndOfMessage, Pause, Up, ChunksUp, GroundPause, Down, PartsDown, MaxLag,
      MaxDrops} \subseteq Nat
    /\ EndOfMessage < Pause
    /\ ChunksUp > 0 /\ PartsDown > 0 /\ MaxLag > 0

VARIABLES
    runlevel_,               \* Module::runlevel_
    elapsed,                 \* FC_elapsed_millis(last_time), up to Pause + 1
    uplink_buffer,           \* its first uplink_num_chars characters, in parts
    message_num_chars_pending,   \* pieces of the downlink message left to write
    transmit_count,          \* send_message: pieces written, not yet subtracted
    downlink,                \* ReceiverPort downlink: the queue
    tasks,                   \* the modem's tasks in the kernel's list
    pc,                      \* where the running task is; "kernel": none runs
    lag,                     \* ticks while the kernel loop had modem tasks to do
    fifo,                    \* Serial1: received, not yet read
    aux,                     \* the AUX pin while the radio receives
    sending,                 \* the radio sends: AUX is low, too
    arriving,                \* parts of the current uplink message to come
    drops,                   \* ticks whose tasks were dropped
    quiet,                   \* ticks since AUX was low, up to GroundPause
    kind,                    \* history: what each uplink message is
    queued,                  \* history: number of messages sent to downlink
    commands,                \* history: the commands sent through uplink
    air,                     \* history: what was written on Serial1, in order
    sent                     \* history: the pieces of the downlink messages fetched

radio   == <<fifo, aux, sending, arriving, quiet>>
kernel  == <<tasks, pc, lag, drops>>
counts  == <<message_num_chars_pending, transmit_count>>
history == <<kind, queued, commands, air, sent>>
vars    == <<runlevel_, elapsed, uplink_buffer, message_num_chars_pending,
             transmit_count, downlink, tasks, pc, lag, drops, fifo, aux, sending, arriving, quiet,
             kind, queued, commands, air, sent>>

OPERATIONAL == "operational"
Runlevels   == {"initial", "configuring", "error", OPERATIONAL}
Kinds       == {"ping", "command"}
AtEntry     == {"receive", "process_message", "send_message"}
PCs         == {"kernel", "read", "empty", "stamp", "fetch", "buffer",
                "write", "subtract"} \union AtEntry

Init ==
    /\ runlevel_ = "initial"
    /\ elapsed = 0
    /\ uplink_buffer = <<>>
    /\ message_num_chars_pending = 0
    /\ transmit_count = 0
    /\ downlink = <<>>
    /\ tasks = <<>>
    /\ pc = "kernel"
    /\ lag = 0
    /\ drops = 0
    /\ fifo = <<>>
    /\ aux = "high"
    /\ sending = FALSE
    /\ arriving = 0
    /\ quiet = GroundPause
    /\ kind = <<>>
    /\ queued = 0
    /\ commands = <<>>
    /\ air = <<>>
    /\ sent = <<>>
-----------------------------------------------------------------------------
(* Modem::setup(), before the interrupts are activated.  A module that ends *)
(* in an error is not entered in the module list: it never ticks.           *)

\* AUX is high within a second, or the module is given up.
SetupPort ==
    /\ runlevel_ = "initial"
    /\ runlevel_' \in {"configuring", "error"}
    /\ UNCHANGED <<elapsed, uplink_buffer, counts, downlink,
                   kernel, radio, history>>

\* The right answer to the configuration command came and was cleared away.
\* last_time is that of the wait before "up and running".
Configure ==
    /\ runlevel_ = "configuring"
    /\ runlevel_' = OPERATIONAL
    /\ uplink_buffer' = <<>>
    /\ elapsed' = Pause + 1
    /\ UNCHANGED <<counts, downlink, kernel, radio, history>>

\* No answer came, or a wrong one, which stays in the buffer (message 0).
ConfigureFails ==
    /\ runlevel_ = "configuring"
    /\ runlevel_' = "error"
    /\ uplink_buffer' \in {<<>>, << <<0, 1>> >>}
    /\ UNCHANGED <<elapsed, counts, downlink, kernel, radio,
                   history>>
-----------------------------------------------------------------------------
(* Modem::interrupt().                                                      *)

Busy == aux # "high" \/ sending

\* The silence the interrupt measures.
Silence == IF Busy THEN 0 ELSE IF elapsed > Pause THEN elapsed ELSE elapsed + 1

\* Mutant: a message is taken for complete while it is still arriving.
RequestsTooEarly ==
    (IF fifo # <<>> THEN <<"receive">> ELSE <<>>)
    \o (IF uplink_buffer # <<>> THEN <<"process_message">> ELSE <<>>)
    \o (IF downlink # <<>> /\ Silence > Pause THEN <<"send_message">> ELSE <<>>)
    \o (IF message_num_chars_pending > 0 THEN <<"send_message">> ELSE <<>>)

\* Mutant: nobody asks for the rest of a message.
RequestsNewOnly ==
    (IF fifo # <<>> THEN <<"receive">> ELSE <<>>)
    \o (IF uplink_buffer # <<>> /\ Silence > EndOfMessage
        THEN <<"process_message">> ELSE <<>>)
    \o (IF downlink # <<>> /\ Silence > Pause THEN <<"send_message">> ELSE <<>>)

\* What it schedules.
Requests ==
    (IF fifo # <<>> THEN <<"receive">> ELSE <<>>)
    \o (IF uplink_buffer # <<>> /\ Silence > EndOfMessage
        THEN <<"process_message">> ELSE <<>>)
    \o (IF downlink # <<>> /\ Silence > Pause THEN <<"send_message">> ELSE <<>>)
    \o (IF message_num_chars_pending > 0 THEN <<"send_message">> ELSE <<>>)

\* The kernel loop may be taking the last task of its list: the list drops the
\* new ones (see TaskQueue).
DropWindow == tasks = <<>> /\ pc \in AtEntry \union {"kernel"}

\* One millisecond.
Tick ==
    /\ runlevel_ = OPERATIONAL
    /\ lag < MaxLag
    /\ elapsed' = Silence
    /\ \/ /\ tasks' = tasks \o Requests
          /\ UNCHANGED drops
       \/ /\ DropWindow /\ drops < MaxDrops
          /\ drops' = drops + 1
          /\ UNCHANGED tasks
    /\ lag' = IF tasks = <<>> /\ pc = "kernel" THEN 0 ELSE lag + 1
    /\ aux' = IF aux = "falling" THEN "low" ELSE aux
    /\ quiet' = IF Busy THEN 0 ELSE IF quiet < GroundPause THEN quiet + 1 ELSE quiet
    /\ UNCHANGED <<runlevel_, uplink_buffer, counts, downlink,
                   pc, fifo, sending, arriving, history>>
-----------------------------------------------------------------------------
(* The radio.  It pulls AUX low at least 2 ms before the first character:  *)
(* at least one tick sees it.                                              *)

RadioBegin ==
    /\ runlevel_ = OPERATIONAL
    /\ aux = "high" /\ ~sending
    /\ quiet = GroundPause
    /\ Len(kind) < Up
    /\ kind' \in {Append(kind, k) : k \in Kinds}
    /\ aux' = "falling"
    /\ arriving' = ChunksUp
    /\ UNCHANGED <<runlevel_, elapsed, uplink_buffer, counts,
                   downlink, kernel, fifo, sending, quiet, queued, commands, air,
                   sent>>

RadioDeliver ==
    /\ aux = "low"
    /\ arriving > 0
    /\ fifo' = Append(fifo, <<Len(kind), ChunksUp - arriving + 1>>)
    /\ arriving' = arriving - 1
    /\ UNCHANGED <<runlevel_, elapsed, uplink_buffer, counts,
                   downlink, kernel, aux, sending, quiet, history>>

RadioEnd ==
    /\ aux = "low"
    /\ arriving = 0
    /\ aux' = "high"
    /\ UNCHANGED <<runlevel_, elapsed, uplink_buffer, counts,
                   downlink, kernel, fifo, sending, arriving, quiet, history>>

RadioSent ==
    /\ sending
    /\ sending' = FALSE
    /\ UNCHANGED <<runlevel_, elapsed, uplink_buffer, counts,
                   downlink, kernel, fifo, aux, arriving, quiet, history>>
-----------------------------------------------------------------------------
(* The main context: other modules, and the kernel loop that starts tasks. *)

\* Another module sends a message to the ground.  It may do so although the
\* modem is out of order (system.cpp:126).
Transmit ==
    /\ pc = "kernel"
    /\ runlevel_ \in {"error", OPERATIONAL}
    /\ queued < Down
    /\ queued' = queued + 1
    /\ downlink' = Append(downlink, queued + 1)
    /\ UNCHANGED <<runlevel_, elapsed, uplink_buffer, counts,
                   kernel, radio, kind, commands, air, sent>>

Start ==
    /\ pc = "kernel"
    /\ tasks # <<>>
    /\ pc' = Head(tasks)
    /\ tasks' = Tail(tasks)
    /\ UNCHANGED <<runlevel_, elapsed, uplink_buffer, counts,
                   downlink, lag, drops, radio, history>>

\* A task returns to the kernel loop; it has caught up if this was the last.
Return == /\ pc' = "kernel"
          /\ lag' = IF tasks = <<>> THEN 0 ELSE lag

\* The last statement of every task: last_time = FC_time_now().
Stamp ==
    /\ pc = "stamp"
    /\ elapsed' = 0
    /\ Return
    /\ UNCHANGED <<runlevel_, uplink_buffer, counts, downlink,
                   tasks, drops, radio, history>>
-----------------------------------------------------------------------------
(* Modem::receive().                                                       *)

\* while (Serial1.available() > 0): one part is read ...
ReadPart ==
    /\ pc \in {"receive", "read"}
    /\ fifo # <<>>
    /\ uplink_buffer' = Append(uplink_buffer, Head(fifo))
    /\ fifo' = Tail(fifo)
    /\ pc' = "read"
    /\ UNCHANGED <<runlevel_, elapsed, counts, downlink, tasks,
                   lag, drops, aux, sending, arriving, quiet, history>>

\* ... or nothing is left to read.
ReadAll ==
    /\ pc \in {"receive", "read"}
    /\ fifo = <<>>
    /\ pc' = "stamp"
    /\ UNCHANGED <<runlevel_, elapsed, uplink_buffer, counts,
                   downlink, tasks, lag, drops, radio, history>>
-----------------------------------------------------------------------------
(* Modem::process_message().                                               *)

\* The message at the start of the buffer.
First == uplink_buffer[1][1]

\* Mutant: the length test demands one part too many.
CompleteAndMore(buffer) ==
    /\ Len(buffer) > ChunksUp
    /\ \A k \in 1 .. ChunksUp : buffer[k] = <<buffer[1][1], k>>

\* The buffer begins with a message, and holds all of it.
Complete(buffer) ==
    /\ Len(buffer) >= ChunksUp
    /\ \A k \in 1 .. ChunksUp : buffer[k] = <<buffer[1][1], k>>

\* A ping is answered, a command passed on; whatever follows it in the buffer is
\* ignored.  An empty buffer is possible: the task was scheduled twice.
Process ==
    /\ pc = "process_message"
    /\ IF Complete(uplink_buffer) /\ kind[First] = "ping"
       THEN air' = Append(air, <<"ping", First>>) /\ sending' = TRUE
       ELSE UNCHANGED <<air, sending>>
    /\ IF Complete(uplink_buffer) /\ kind[First] = "command"
       THEN commands' = Append(commands, First)
       ELSE UNCHANGED commands
    /\ pc' = "empty"
    /\ UNCHANGED <<runlevel_, elapsed, uplink_buffer, counts,
                   downlink, tasks, lag, drops, fifo, aux, arriving, quiet, kind,
                   queued, sent>>

\* Mutant: the buffer is not emptied.
EmptyForgotten ==
    /\ pc = "empty"
    /\ pc' = "stamp"
    /\ UNCHANGED <<runlevel_, elapsed, uplink_buffer, counts,
                   downlink, tasks, lag, drops, radio, history>>

Empty ==
    /\ pc = "empty"
    /\ uplink_buffer' = <<>>
    /\ pc' = "stamp"
    /\ UNCHANGED <<runlevel_, elapsed, counts, downlink, tasks,
                   lag, drops, radio, history>>
-----------------------------------------------------------------------------
(* Modem::send_message().                                                  *)

\* Mutant: every task starts with a new message.
ContinueForgotten ==
    /\ pc = "send_message"
    /\ pc' = "fetch"
    /\ UNCHANGED <<runlevel_, elapsed, uplink_buffer, counts, downlink, tasks, lag,
                   drops, radio, history>>

\* Is there something left to send?
Continue ==
    /\ pc = "send_message"
    /\ pc' = IF message_num_chars_pending > 0 THEN "write" ELSE "fetch"
    /\ UNCHANGED <<runlevel_, elapsed, uplink_buffer, counts, downlink, tasks, lag,
                   drops, radio, history>>

\* downlink.fetch().  Undefined on an empty queue: no step, the program is lost.
Fetch ==
    /\ pc = "fetch"
    /\ downlink # <<>>
    /\ downlink' = Tail(downlink)
    /\ pc' = "buffer"
    /\ UNCHANGED <<runlevel_, elapsed, uplink_buffer, counts, tasks, lag, drops,
                   radio, history>>

\* msg.buffer(): from here on the interrupt knows of a message to be sent.
Buffer ==
    /\ pc = "buffer"
    /\ \E pieces \in 1 .. PartsDown :
          /\ message_num_chars_pending' = pieces
          /\ sent' = Append(sent, pieces)
    /\ pc' = "write"
    /\ UNCHANGED <<runlevel_, elapsed, uplink_buffer, transmit_count, downlink,
                   tasks, lag, drops, radio, kind, queued, commands, air>>

\* The message being sent.
Current == Len(sent)

\* Serial1.write() of so many pieces; the radio starts to send.
WritePieces(count) ==
    /\ transmit_count' = count
    /\ air' = air \o [i \in 1 .. count |-> <<"message", Current>>]
    /\ sending' = TRUE
    /\ pc' = "subtract"
    /\ UNCHANGED <<runlevel_, elapsed, uplink_buffer, message_num_chars_pending,
                   downlink, tasks, lag, drops, fifo, aux, arriving, quiet, kind,
                   queued, commands, sent>>

\* Mutant: the room in Serial1 is not compared with what is left to send.
WriteRoom == pc = "write" /\ \E count \in 1 .. PartsDown : WritePieces(count)

\* As much as Serial1 has room for is written.
Write ==
    pc = "write" /\ \E count \in 1 .. message_num_chars_pending : WritePieces(count)

\* Until here the interrupt takes what was written for pending.
Subtract ==
    /\ pc = "subtract"
    /\ message_num_chars_pending' = message_num_chars_pending - transmit_count
    /\ transmit_count' = 0
    /\ pc' = "stamp"
    /\ UNCHANGED <<runlevel_, elapsed, uplink_buffer, downlink, tasks, lag, drops,
                   radio, history>>

\* available <= 8: nothing is written.
NoRoom ==
    /\ pc = "write"
    /\ pc' = "stamp"
    /\ UNCHANGED <<runlevel_, elapsed, uplink_buffer, counts, downlink, tasks, lag,
                   drops, radio, history>>
-----------------------------------------------------------------------------
Setup == SetupPort \/ Configure \/ ConfigureFails
Radio == RadioBegin \/ RadioDeliver \/ RadioEnd \/ RadioSent
Loop  == \/ Start \/ Stamp \/ ReadPart \/ ReadAll \/ Process \/ Empty
         \/ Continue \/ Fetch \/ Buffer \/ Write \/ Subtract \/ NoRoom

Next == Setup \/ Tick \/ Radio \/ Transmit \/ Loop

Spec == Init /\ [][Next]_vars

\* The start-up code, systick and the kernel loop go on; the radio finishes what
\* it has begun; Serial1 has room again and again; and the drop window, a few
\* instructions long, does not meet every tick that has something to request.
FairSpec ==
    /\ Spec
    /\ WF_vars(Setup) /\ WF_vars(Tick) /\ WF_vars(Loop)
    /\ WF_vars(RadioDeliver \/ RadioEnd) /\ WF_vars(RadioSent)
    /\ SF_vars(Write)
-----------------------------------------------------------------------------
UpParts == (0 .. Up) \X (1 .. ChunksUp)

KernelTypeOK ==
    /\ runlevel_ \in Runlevels
    /\ elapsed \in 0 .. Pause + 1
    /\ tasks \in Seq(AtEntry)
    /\ pc \in PCs
    /\ lag \in 0 .. MaxLag
    /\ drops \in 0 .. MaxDrops

RadioTypeOK ==
    /\ fifo \in Seq(UpParts)
    /\ aux \in {"high", "falling", "low"}
    /\ sending \in BOOLEAN
    /\ arriving \in 0 .. ChunksUp
    /\ quiet \in 0 .. GroundPause
    /\ air \in Seq({"ping", "message"} \X (1 .. Up + Down))

UplinkTypeOK ==
    /\ uplink_buffer \in Seq(UpParts)
    /\ kind \in Seq(Kinds)
    /\ Len(kind) <= Up
    /\ commands \in Seq(1 .. Up)

DownlinkTypeOK ==
    /\ message_num_chars_pending \in 0 .. PartsDown
    /\ transmit_count \in 0 .. PartsDown
    /\ downlink \in Seq(1 .. Down)
    /\ queued \in 0 .. Down
    /\ sent \in Seq(1 .. PartsDown)

TypeOK == KernelTypeOK /\ RadioTypeOK /\ UplinkTypeOK /\ DownlinkTypeOK

\* No command is passed on twice and no ping answered twice, and both happen in
\* the order in which they were sent from the ground, although process_message
\* is scheduled once for every millisecond of silence until it has run
\* (modem.cpp:165-166, 236-237).
HandledOnceInOrder ==
    /\ \A i, j \in DOMAIN commands : i < j => commands[i] < commands[j]
    /\ \A i, j \in DOMAIN air :
          i < j /\ air[i][1] = "ping" /\ air[j][1] = "ping" => air[i][2] < air[j][2]

\* "A duration of 5ms during which no character has been received is recognized
\* as the end of one message" (modem.h:54-55): what process_message finds is
\* exactly one message, neither a part of one nor two of them run together.
WholeMessages ==
    pc = "process_message" /\ uplink_buffer # <<>> =>
        Complete(uplink_buffer) /\ Len(uplink_buffer) = ChunksUp

\* Pieces of message m among what was written.
Written(m) == Cardinality({i \in DOMAIN air : air[i] = <<"message", m>>})

\* Every downlink message taken from the queue is written completely before the
\* next one is begun, however often send_message is scheduled and however little
\* room Serial1 has (modem.cpp:244-254).
FetchedWrittenWhole ==
    \A m \in DOMAIN sent :
        Written(m) = sent[m]
                     - (IF m = Current THEN message_num_chars_pending - transmit_count
                                       ELSE 0)

\* fetch() is called on an empty queue: nothing is defined from here on.
Lost == pc = "fetch" /\ downlink = <<>>

\* Whatever is sent to a modem in operation goes out in the end, unless the
\* program is lost.
DownlinkSent ==
    []<>(\/ runlevel_ = "error" \/ Lost
         \/ Len(sent) = queued /\ message_num_chars_pending = 0)

\* Every command that arrives is passed on in the end, unless the program is lost.
CommandsPassedOn ==
    \A m \in 1 .. Up :
        (m \in DOMAIN kind /\ kind[m] = "command") ~> (m \in Range(commands) \/ Lost)

\* "The module owning the port must query the number of messages available"
\* (port.h:50), send_message "is scheduled when a message waits in the downlink
\* queue" (modem.h:82): it fetches only if there is a message.
NeverFetchesEmpty == pc = "fetch" => downlink # <<>>
-----------------------------------------------------------------------------
(* The inductive invariant.                                                *)

\* The messages that have their first part in s.
Starts(s) == {s[i][1] : i \in {j \in DOMAIN s : s[j][2] = 1}}

\* The messages that have been handled.
Handled == {commands[i] : i \in DOMAIN commands}
               \union {air[i][2] : i \in {j \in DOMAIN air : air[j][1] = "ping"}}

\* The last message whose first part has arrived.
LastStarted == IF arriving = ChunksUp THEN Len(kind) - 1 ELSE Len(kind)

\* Until process_message has emptied the buffer, the message at its start is both
\* handled and still there.
Waiting == IF pc = "empty" THEN {} ELSE Starts(uplink_buffer)

\* Handled, in the buffer, in the FIFO, to come: in this order.
UplinkInOrder ==
    /\ \A m \in Handled, n \in Waiting \union Starts(fifo) : m < n
    /\ \A m \in Starts(uplink_buffer), n \in Starts(fifo) : m < n
    /\ \A i, j \in DOMAIN fifo :
          i < j /\ fifo[i][2] = 1 /\ fifo[j][2] = 1 => fifo[i][1] < fifo[j][1]
    /\ \A m \in Handled \union Starts(uplink_buffer) \union Starts(fifo) :
          m <= LastStarted

\* Before it is operational the modem does nothing; then no message is the garbage
\* of the set-up.
QuietUntilOperational ==
    /\ runlevel_ # OPERATIONAL =>
          /\ tasks = <<>> /\ pc = "kernel" /\ Handled = {}
          /\ fifo = <<>> /\ aux = "high" /\ arriving = 0
    /\ arriving > 0 => kind # <<>>
    /\ 0 \notin Starts(fifo)
    /\ runlevel_ = OPERATIONAL => 0 \notin Starts(uplink_buffer)

\* Every message sent to the port is in the queue, just fetched, or begun; and what
\* is pending is what was not yet written.
DownlinkCounted ==
    /\ Len(sent) + Len(downlink) + (IF pc = "buffer" THEN 1 ELSE 0) = queued
    /\ pc \in {"write", "subtract"} => message_num_chars_pending > 0
    /\ message_num_chars_pending > 0 => Len(sent) > 0
    /\ transmit_count <= message_num_chars_pending
    /\ transmit_count > 0 => pc = "subtract"

LinkInv ==
    TypeOK /\ HandledOnceInOrder /\ UplinkInOrder /\ QuietUntilOperational /\ DownlinkCounted

\* A message is fetched only when none is pending, and no piece is written of a message
\* that has not been begun.
PiecesCounted ==
    /\ FetchedWrittenWhole
    /\ pc \in {"fetch", "buffer"} => message_num_chars_pending = 0
    /\ \A i \in DOMAIN air : air[i][1] = "message" => air[i][2] \in DOMAIN sent

ModemInv == LinkInv /\ PiecesCounted
=============================================================================
