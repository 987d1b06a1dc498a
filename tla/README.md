# Verification of the Teensy flight controller

TLA+ models of the flight controller in `src/src`, the TLC runs that check them
and proofs for TLAPS. Line numbers refer to the files of the repository.

## The system

The program is a bare-metal application on a Teensy 4.1 (one core, 600 MHz, no
operating system). It has two contexts:

* the **systick interrupt**, every millisecond (`FC_systick_isr`,
  `kernel.cpp:75`): it counts the time, calls `interrupt()` of every module in
  `module_list` and records how long that took;
* the **main context** (`kernel_loop`, `kernel.cpp:144`): it takes tasks from
  the front of `task_list`, one at a time, and calls them.

A module does little in `interrupt()`: it looks at counters, ports and pins and
schedules tasks (`schedule_task`, always from the interrupt). The tasks do the
work in the main context and exchange messages through ports, which are queues.
No lock and no masking of the interrupt protects what both contexts use: the
task list, flags, counters, time stamps, timing records, a few queues. The
interrupt is never interrupted by the main context; the main context can be
interrupted between any two memory accesses.

### Inventory

| component | state | operations | what makes it correct |
|---|---|---|---|
| clock (`kernel.cpp:12-25`) | millisecond counter (32 bits) | tick, `FC_time_now`, `FC_elapsed_millis` | elapsed times survive the wrap-around |
| task list (`kernel.cpp:70,134-142,180-198`) | a `std::list<Task>` | `schedule_task` (interrupt), front/pop (main) | no task lost, run twice, or out of order; the ring of pointers survives |
| kernel (`kernel.cpp`) | timing records, the flag that enables module interrupts | `FC_systick_isr`, `kernel_loop`, reads and resets of the records | the figures reported are true |
| watchdog (`watchdog.cpp`) | two counters | `setup`, `interrupt`, `analyze_health`, `analyze_memory` | reports come for ever; no null pointer is followed |
| logger (`logger.cpp:1-38`) | queue `in`, flag | `interrupt`, `run` | every message is written once and in order; no fetch from an empty queue |
| requester (`logger.cpp:40-81`) | time stamp, flag | `interrupt`, `run` | a message per period, not more and not less |
| ports (`port.cpp`) | receivers, queues | `transmit`, `receive`, `count`, `fetch` | order; fetch only if there is something |
| modem (`modem.cpp`) | two buffers, time stamp, queue `downlink` | `setup`, `interrupt`, `receive`, `process_message`, `send_message` | frames are found, handled once, answered; downlink messages go out whole, with pauses |
| motion sensor (`motion.cpp`, `lib/bno055.cpp`, `lib/imx_rt1060`) | place in the reading loop, run level, the transfer going on | `setup`, `interrupt`, `check_calibration`, `read_sensor` | transfers are not cut off; data belong to the register they are taken for; the loop goes on after errors |
| streams (`stream.cpp`) | queues of sensor data | `transmit`, `receive`, `count`, `fetch` | as ports, but fetched inside the interrupt |
| display (`display.cpp`) | input streams, place in the redraw | `setup`, `interrupt`, `redraw` | an update is drawn to its end, and another one follows |
| GPS (`dummy_gps.cpp`) | two time stamps and three flags | `interrupt`, `run` | rates are kept, each state reported once |
| commander (`commander.cpp`) | run level | `interrupt`, `activate` | it takes command in the end |
| LED (`blink.cpp`) | pin, state, time stamp | `interrupt`, `switch_on`, `switch_off` | flashes last their time |
| file writers (`file_writer.cpp`) | one or two queues, file, time stamp | `interrupt`, `handle_MSG`, `handle_AHRS`, `handle_GYRO`, `flush` | messages are written in order and reach the card |
| servo driver (`servo.cpp`) | positions, active channels | `interrupt`, `handle_message`, `set_pos`, `activate` | channels follow the last message that concerns them |
| messages (`message.cpp`) | heap blocks | copy, assignment, `buffer`, `as_text` | lengths within the buffers |
| system (`system.cpp`, `main.cpp`) | `module_list`, wiring | init, setup, build, destroy | only working modules run; nothing is wired to a module that is not there |
| ground station (`GCS/Taros_GCS.py`) | receive buffer, table | `on_serial_read` | every frame is found, none torn |

Not program logic: `core/`, most of `lib/` (vendored Teensy core and drivers,
seen as environment), `ground_control_station/` (an application stub), `doc/`.
They are by far the most of the lines of the repository.

### What is hard

* An interrupt in the middle of a list operation (`kernel.cpp:190`).
* Values tested in the interrupt and acted on later in a task
  (`modem.cpp:165-173`, `logger.cpp:18-31`).
* One cause scheduled several times, because nothing remembers that a task is
  already waiting.
* Records read and reset in separate steps (`watchdog.cpp:49-95`).
* Tasks that are late because others run first.
* Queues the interrupt empties while the main context fills them
  (`display.cpp:93-106`).
* A transfer in the background that other code must not disturb, and that may
  fail (`motion.cpp:216-349`).
* The list of all of these, with their lines, is `hazards` in `PROJECT.json`.

## Modules

| module | models | refines / uses |
|---|---|---|
| `Clock` | the counter with period `Period` (2^32 in the code) and time stamps | |
| `TaskQueue` | what the task list promises: a queue that forgets tasks in one window | abstract |
| `TaskList` | the `std::list` behind it, pointer by pointer | implements `TaskQueue` |
| `Scheduler` | what a module sees of the task list: its tasks come back in order, late, or, in the window of `TaskQueue`, not at all | |
| `MessageLog` | what the system log promises its clients | abstract |
| `Logger` | `Logger::interrupt` and `Logger::run`, access by access | implements `MessageLog` |
| `Kernel` | interrupt, kernel loop and watchdog with the timing records | the drop window of `TaskQueue` |
| `Modem` | the modem's interrupt and tasks, radio and UART as environment | the drop window of `TaskQueue` |
| `Gps`, `Commander`, `Blink`, `FileWriter`, `Servo`, `Requester` | one module of the program each; `FileWriter` is both `FileWriter` and `StreamFileWriter`, which differ in their inputs | `Clock`, `Scheduler` |
| `Routine` | the systems made of these six | extends them |
| `Motion` | the motion sensor, its I2C bus and the sensor's register pointer; its tasks may mix with any others | `Scheduler` |
| `Stream` | `push_back` step by step, the fetch in the interrupt, several receivers | |
| `Display` | start of an update, the tasks that draw it | `Scheduler`, `Stream` |
| `System` | motion sensor and display, wired by two streams | implements `Motion` |
| `Ground` | the ground station's reader against the frames of the modem, which go on arriving while it reads | |
| `MCSystem`, `MCGround` | values of constants for TLC | |
| `SeqLemmas` | facts about sequences | used by the proofs |
| `TaskQueueProofs`, `TaskListProofs` | theorems on the task list, abstract and pointer by pointer | |
| `KernelProofs`, `ModemProofs` | theorems on the module of that name | |
| `MessageProofs` | theorems on `Logger` and on `Ground`, the two ends of a message's way | |
| `RoutineProofs` | theorems on `Clock` and on `Routine` with the modules it is made of | |
| `SystemProofs` | theorems on `Motion` and on `System` with `Display` and `Stream` | |

`TaskList` shows what interrupting `pop_front` does: exactly when the node being
unlinked is the last one, tasks pushed before the loop has finished are linked
to a node that leaves the list. `TaskQueue` states this in three steps
(`BeginTake`, `Unlink`, `Close`), and the other modules take it over: tasks
they schedule may be dropped if the kernel loop is at that point (`Enlist` in
`Scheduler`, `InterruptDropped` in `Logger`, `DropWindow` in `Kernel` and `Modem`). The
task being unlinked need not be one of theirs: it may belong to a module that a
specification does not contain, so `Enlist` may drop whenever none of its own tasks is
waiting.

How the modules correspond to the code:

* Everything the interrupt does in one call is one step, as the main context
  cannot intervene. In the main context every access to something that the
  interrupt reads or writes is a step of its own; `pc` (or `at`) names the next
  one. Accesses to what only the main context uses are joined with their
  neighbours.
* Variables have the names of the code; variables marked "history" are not in
  the code and no action depends on them.
* Time passes only in ticks. `lag` counts the ticks since the kernel loop last
  had nothing to do, and `MaxLag` bounds it: this is how run times, and the tasks
  of modules that a specification does not contain, appear.
* A message is its number in the order of sending; a duration is a number from
  a small set; characters are parts of a message. Only in `Ground`, where finding
  the frames is the question, is a message its bytes.
* Undefined behaviour (fetching from an empty queue, calling a receiver through
  a null pointer) is the end of the model's behaviour: no further step is
  defined. In `Modem`, where it can happen, `Lost` describes these states and
  the liveness properties except them. The value of an uninitialized variable
  (`bno055.cpp:123`) is any value.
* `std::list`'s own steps, the radio and the UART are marked external in the
  map of `PROJECT.json`.

Every mapped definition that is the origin of a mutant is preceded by that
mutant: the same operator with a plausible bug, used to confirm that a property
depends on the code.

## Runs

| run | configuration | shows |
|---|---|---|
| `task_list` | 4 nodes, 4 tasks | the pointers stay a ring of allocated nodes; the node popped is the one copied; each task once, first come first served, none waits for ever; leaks are dropped tasks; implements `TaskQueue` with its fairness |
| `task_list_drop` | the same | **violation**: a scheduled task is never executed |
| `logger` | 4 messages, 2 waiting `run` tasks | no fetch from an empty queue, order, forwarding, implements `MessageLog` with its liveness |
| `kernel` | 2 modules besides the watchdog, period 2, burst 1 | no null pointer in the health report, exact task figures, reports for ever |
| `modem` | 2 uplink, 2 downlink messages, each in up to 2 parts, 1 late tick, 1 dropped tick | commands and pings handled once, in order; downlink messages written whole; all sent in the end |
| `modem_uplink` | 3 uplink messages, tasks up to 4 ms late, 12 ms between messages | every message is recognised as one; every command is passed on |
| `modem_fetch` | 1 downlink message | **violation**: fetch from an empty queue |
| `routine` | counter of period 16, tasks up to 2 ticks late, 1 dropped tick, set-up of 0 or 7 ticks | the elapsed time is exact; rates and on-times are kept; each state reported once; file and servos follow the messages in order; all work gets done; the inductive invariant `RoutineInv` |
| `system` | tasks up to 6 ms late, 1 dropped tick, every kind of failure on the bus | transfers are not cut off; only a missed address goes unnoticed; the counts of the streams survive; updates are drawn to their end; drawing goes on for ever once the set-up has ended, measuring once calibrated unless a transfer never ends; implements `Motion` |
| `system_null` | the streams wired as in `system.cpp:135-138` | **violation**: `transmit` reaches a receiver that was never created |
| `motion_nak` | addresses may be missed | **violation**: wrong data are sent and nothing is reported |
| `ground` | 3 frames of 4 payloads, two of which look like frames, RSI 7 or that of a header's first byte, arriving between any two reads | the rows are the frames, in order, none torn, left out or shown twice; the frames without a row are complete in the buffer |

The violations are described under `findings`, each with the sentence of the
repository it contradicts. `system_null` explains the "fatal bug" that
`motion.h:30-31` reports: as long as the sensor is not calibrated nothing is
transmitted, and the null receiver does no harm.

Other flaws were seen that have no run:

* The second of two waiting `send_message` tasks starts the next message without
  the pause of 10 ms that `modem.h:84-86` asks for (`modem.cpp:170`).
* The answer to a ping can be written between two pieces of a downlink message
  if tasks are 6 ms late (`modem.cpp:215`).
* A spacing recorded between `watchdog.cpp:55` and `:92` is never reported, and an
  interrupt between lines 53 and 54 pairs the name of one module with the time
  of another.
* A transfer that never ends stops the reading of the sensor for good: `read_sensor`
  waits for it in four of its steps (`motion.cpp:235`, `249`, `290`, `304`), none of
  them with a time-out. After lost arbitration or a line held low the driver only
  waits for a STOP on the bus, which it does not always send
  (`imx_rt1060_i2c_driver.cpp:228-238`, `371-378`). `KeepsMeasuring` has this as its one
  exception; without that, TLC finds it violated by one transfer that is never over.
* Downlink traffic can make uplink messages run together however long the ground
  waits: every `send_message` stamps the time from which the silence is measured
  (`modem.cpp:268`). `WholeMessages` is therefore checked without downlink
  traffic (`Down = 0`).
* If the RSI byte of a frame comes later than the rest, its row stays incomplete
  (`Taros_GCS.py:168`, `195`), and as one call shows one frame at most, the last
  frames may wait in the buffer until more data come.

### Bounds

* `TaskList`: the interesting cases need a node alone in the list, a push in
  every phase of its removal, and a push after that: three tasks. Four nodes let
  a freed node be used again.
* `Logger`: a message that arrives while a flag is stale, one behind it, and a
  second `run` task that finds the work done: three messages, two tasks. More
  than `MaxRuns` waiting tasks behave as `MaxRuns` do.
* `Kernel`: the report period is 5000 in the code. With 2 the two counters have
  the phase difference of the code (half a period), and a report and several
  tasks fall into the same tick. `MaxWaiting` keeps the list short.
* `Modem`: the times are those of the code, 5 ms and 10 ms. One tick of lateness
  (`MaxLag`) is enough to schedule a task twice. The tasks are meant to run within
  10 ms (`kernel.cpp:175-176`). `MaxDrops` bounds the ticks whose tasks are
  dropped.
* `GroundPause` 12 in `modem_uplink` is the least silence between uplink messages
  for which `WholeMessages` holds with tasks up to 4 ms late; with 1 ms it is 9,
  with 2 ms 10, in each case `EndOfMessage + MaxLag + MaxDrops + 2`, which
  `MessagesStayWhole` proves to be enough. It is more than the silence that ends a message, because that is
  measured from the end of `receive` (`modem.cpp:188`), which may be late, and not
  from the last character. `modem` itself leaves only 7 ms, so that there messages
  do run together.
* `Routine`: the periods of the code (200, 500, 5000 ticks, on-time 50) become 2
  to 6, in the same order where they meet in one module. The counter wraps every
  16 ticks, so every stamp is taken before and compared after a wrap. A set-up of
  7 ticks makes stamps old before the first tick (the GPS takes its stamps when
  created, and its lock may then come before its first report). `FlashesLongEnough`
  is proved for `MaxLag < OnTime` and `OnTime + MaxLag + MaxDrops <= BlinkPeriod`: with
  the 10 ms of `kernel.cpp:176` against 50 and 500 ms this holds in the code for up to
  440 dropped ticks. With a `BlinkPeriod` of 5 (one tick less than that), or an `OnTime`
  of 1, TLC finds a flash cut short. `gps` telemetry is switched off in
  `system.cpp:39` (rate 0); the run gives it a period. A writer is sent two messages, to
  one input or to both.
* `System`: `CalibPeriod` 2 and `UpdatePeriod` 3 instead of 1000 and 500, one
  character per line; with `MaxLag` 6 several calibration checks and redraw tasks
  wait at once and a whole half of the reading loop fits between two ticks. The
  invariants were also checked with `MaxLag` 9, `StreamInv` of `SystemProofs` among
  them. `CountsExact` does not hold for any lateness: with `MaxLag` 10 TLC finds no
  error, with 12 it does: a second block can be pushed while the interrupt has not
  yet fetched the first, and the size is then stored wrong for good. It is
  shown for a list that is empty at least every 10 ms. `kernel.cpp:176` asks for a
  little less: that each task is executed within 10 ms. The streams have the display as
  their one receiver, so what is said about sending is not about the wiring of
  `system.cpp:137-138`, under which the first block sent reaches a null pointer
  (`system_null`).
* `Ground`: a frame before, in the middle and after; the stream is cut at every
  byte, entered at every byte of the first frame. Where it is entered inside a
  frame, that frame's payload has no byte equal to a header's first: otherwise
  what follows may be taken for a header, as in any protocol without escapes. Lost
  bytes are not modelled, for the same reason.

### Fairness

The processor does not stop: weak fairness of the main context's steps and of
the tick. The start-up code ends, except that in `System` the set-up may try `begin()`
of the sensor for ever (`motion.cpp:61-66`). In `Kernel` the tick in which the health report
is due does not always fall into the drop window, which is a few instructions
long in a millisecond (strong fairness of `HealthTick`); without this assumption
the report might be dropped each time. In the other modules `MaxDrops` bounds the
dropped ticks. In `Modem` the radio finishes what it has begun and the UART has
room again and again (`SF(Write)`). In `System` nothing is assumed about the bus: a
transfer may take any time or never end, as the driver has no time-out that ends it
(`PLTF`, its error for a line held low, only starts an abort).
Nothing is assumed about when modules, the ground station or the radio start something.

### Where deadlock is not checked

In the runs of `Modem`: a modem whose set-up fails is never called again, and after
a fetch from an empty queue nothing is defined. In `ground`: the stream of a
behaviour is finite.

## Proofs

TLAPS proves for every value of the constants:

* `TaskQueueProofs`: `QueueInv` is inductive: types, where the task being taken
  is (`WhileTaking`), `EveryTaskOnce`, `FirstComeFirstServed`. The last two
  need each other: that `Tail` removes exactly one task needs that no task is in
  the list twice.
* `TaskListProofs`: `ListInv` is inductive, for any number of nodes and tasks, and
  every step of the pointers is a step of `TaskQueue` or changes nothing there
  (`PointersImplementQueue`; the fairness in `ImplementsTaskQueue` stays with TLC).
  `RingIntact` says that next and prev describe the same ring of allocated nodes,
  but for the one pointer that is wrong between the two stores of `_M_unhook`;
  `LocalsFollow`, what the locals of the loop mean at each access; `LostAreDropped`,
  that each lost node has its own dropped task. The contents of the list are a
  recursive function of the pointers (`Reached`). What it computes is found without
  induction over data: where nodes follow each other along next, an explicit
  function solves its equation, and two solutions cannot differ, as there is no
  least place where they do (`LeastNatural`, `ReachedAlong`).
* `MessageProofs`, the system log: `LoggerInv` is inductive. `NeverFetchesEmpty` alone is not: what
  makes it so is `FlagMeansMessage` - outside the steps between popping a message
  and storing the flag, a raised flag means a message in the queue. The flag that
  `run` stores may be older than one the interrupt has just set, but the
  interrupt only sets it when the queue is not empty, and the queue does not
  change while `run` is between count and store. `LoggerRefinesMessageLog` proves
  that every step is a step of `MessageLog` or changes nothing there.
* `KernelProofs`: `KernelInv` is inductive. That the first health report finds a
  task recorded depends on `Watchdog::setup` giving the counters half a period of
  distance: `MemoryBeforeHealth` carries this from the start until the first
  task of any module has been scheduled; from then on some task precedes the
  report in the list. `FiguresFollow` is the same for the task figures.
* `RoutineProofs`: `ClockInv` is inductive for the clock alone, in which any stamp may
  be taken at any time (the counter is the stamp plus the ticks since, less one
  period after a wrap), and the elapsed time follows (`ElapsedCorrect`).
  `RoutineRefinesClock` carries this over to the modules with a schedule. `RoutineInv`
  adds what each of them needs. `RatesKept` speaks of the moment at which a task
  works; `FlagsAreDue` says why: while a flag is up the period has passed, as the
  stamp is taken before the flag is lowered, and never in between.
  `StateReportedOnce` follows from `ReportsFollowLock`, which relates the lock, the
  flag and what has been reported. `FileInOrder` needs that what waits in a queue
  came after all that was written from it, and `ServoFollows` that the queue holds
  the last messages sent (`ServoInv`), since one task handles many.
* `RoutineProofs`, the LED: `FlashesLongEnough` holds under `EnoughTime`: the kernel loop
  catches up before the on-time is over, the off-time leaves room for that and for the
  dropped ticks, and the period is less than that of the counter. `LedInv` says why the
  repeated tasks do no harm. A `switch_on` that still waits when the LED is on was asked for with the one
  that has run, so it stops waiting before `switch_off` is asked for; the next is asked
  for so late that only the last tick of lateness is left (`StaleOn`). So no
  `switch_off` waits behind a `switch_on` (`OffIsDue`). The list may drop `switch_off`,
  which is asked for again in the next tick: the LED is on for one tick longer for each
  (`NotOnForLong`), and that is where `MaxDrops` enters. TLC found `LedInv` to hold with
  the constants of the run and with three others (`MaxLag` 1 to 3, up to 3 dropped
  ticks), and a flash to be cut short with a `BlinkPeriod` one tick less in each of
  the three that were tried.
* `SystemProofs`, the sensor: `MotionInv` is inductive. `BusExclusive` follows from its
  first part, `BusInv`. The argument is about the order in the task list: once the
  sensor is operational only `read_sensor` is scheduled, so all waiting
  `check_calibration` tasks come before the first `read_sensor` (`ChecksBeforeReads`),
  and a transfer in the background exists only after one of these has run
  (`PhasesApart`, `BusInUse`). Its second part, `LoopTraced`, follows the register that
  is wanted through the reading loop - to the pointer, to what was received, to the
  sample - as long as no error has been recorded; `OnlyAddressErrorsUnnoticed` is what
  it says of the moment of sending. Nothing is assumed about the other tasks in the
  list, about lateness, or about which transfers fail.
* `SystemProofs`, the composition: every step of `System` is a step of `MotionSpec` or
  changes nothing there, so the theorems on `Motion` hold of it. As `System` takes over
  the actions of `Motion`, this says of the other modules that they leave the sensor
  alone, and little of the sensor itself. A second small
  invariant (no update is under way unless the flag says so, and the end of an update
  sets the state before it lowers the flag) gives `UpdatesNotCutShort`.
* `SystemProofs`, the streams: `CountsExact` holds if `MaxLag <= 9`, that is, if the
  task list is empty at least every 10 ms. `StreamInv`
  counts: one `read_sensor` is scheduled in a tick, so no more of them wait than
  there were ticks since the loop had caught up (`LagCounted`). A block is sent every
  tenth `read_sensor`, on each stream. So a block that the display has not fetched
  was sent less than ten of them ago (`Drained`), and when the next one is pushed
  the queue is empty (`PushInv`); the fetch in the middle of `push_back` then finds
  nothing to take away.
* `SystemProofs`, the null receiver: `NullReachedInOperation` proves what was said of
  `system_null`: before the sensor is calibrated, `transmit` reaches no null receiver.
* `ModemProofs`: `ModemInv` is inductive. `HandledOnceInOrder` is part of its first
  half, `LinkInv`. The strengthening is `UplinkInOrder`: the starts of messages that
  were handled, that are in the buffer, and that are still in the receive FIFO follow
  each other in this order, except between handling a message and emptying the
  buffer, where the buffer counts as empty (`Waiting`). So a second `process_message`
  task finds nothing it could handle again. `QuietUntilOperational` says that a modem
  whose set-up has not succeeded has no tasks, and `DownlinkCounted` that pieces still
  to be written belong to a message that was fetched. The other half, `PiecesCounted`,
  counts the pieces on the air: `FetchedWrittenWhole` is inductive once a message is
  only fetched when none is pending.
* `ModemProofs`, whole messages: `WholeMessages` holds if nothing is sent down and the
  ground keeps silent for longer than `EndOfMessage + MaxLag + MaxDrops + 1`
  (`EnoughSilence`; the run `modem_uplink` has the least such silence, and with one
  tick less TLC finds two messages run together). `WholeInv` has two sides. One is
  time (`Deadlines`): how long it can have been silent while a message is in the FIFO
  with no task to receive it, while such a task waits, and while the message in the
  buffer waits to be processed. The ground's next message therefore finds the last
  one received and its `process_message` asked for. The other is order
  (`NewBehindOld`): what receives the next message then waits behind it, so that the
  buffer never mixes the two (`Contents`). TLC found `WholeInv` to hold with the
  constants of `modem_uplink`, and with 2 dropped ticks, 3 parts and a silence of 13.
* `MessageProofs`, the ground station: `GroundInv` is inductive, for any number of frames
  with any payloads shorter than 204 bytes (`Message::buffer` makes 197 at most).
  `FramesAsSent` alone is not: it says that the buffer begins before the frame that is due, but not that nothing there looks like a
  header. `GroundInv` adds this (`Holds`, `NoHeader`) and that the stream is the frames
  one after the other (`StreamIsFrames`). Three places need an argument: the rest of a
  frame that was entered in its middle has no byte that starts a header
  (`PlainHasNoHeader`); an RSI byte that stays behind is followed by the mark of the
  next frame, which is no second byte of a header (`NoHeaderAtEnd`); and for
  the same reason a frame that arrives makes no header of the byte that was the last
  until then (`HeaderNeedsMark`). Where
  the scan of the code's loop ends is found without induction: the least of the places
  it may end at is named and shown to be one of them (`ScanEnds`).
* `SeqLemmas`: facts about `Append`, `Tail`, concatenation, and the range and the order
  of a sequence.

The assumptions are those on the constants (`...Assumption` in the modules), which TLC
evaluates in the runs, and the hypotheses named above. Those on constants (`EnoughTime`,
`EnoughSilence`, `MaxLag <= 9`) hold in the runs `routine`, `modem_uplink` and `system`.

Only model-checked is liveness, with the fairness parts of the refinements, as the
provers at hand have no `ENABLED`: `NoTaskWaitsForever`, `ImplementsTaskQueue`,
`ImplementsMessageLog`, `HealthReportedAgain`, `DownlinkSent`, `CommandsPassedOn`,
`WorkGetsDone`, `MessagesGetHandled`, `KeepsDrawing`, `KeepsMeasuring`. Every other
property of a run that passes is a theorem.

## Not modelled

* The heap allocator, although `push_back` in the interrupt may enter it while the
  main context is inside. `Message::operator=` frees its block by the new size
  (`message.cpp:53`) and loses it when an empty message is assigned; nothing in the
  program assigns one to another.
* The formatting of messages as text, and what the display draws. `snprintf` may
  return more than the 18 characters of the buffer (`display.cpp:189`).
* What the source comments out, except where a whole module would be left without a
  model: no system creates a `Requester` (`system.cpp:50`) or a `StreamFileWriter`
  (`system.cpp:32`), and the two lines of `main.cpp:93-95` that would connect its
  `FileWriter` are comments too. `Routine` has these modules as if they were created
  and connected. A writer whose file could not be opened keeps what it is sent for
  ever, as its interrupt then schedules nothing (`file_writer.cpp:98`), although
  `file_writer.h:68` says that it is discarded; nothing bounds these queues.
* The creation and destruction of modules; that a module is not in the list when
  its set-up failed appears where it can happen (`Modem`, `FileWriter`).
* Run times. `logger.cpp:26` writes all that waits in one task, and `transmit` to the
  modem takes long ("leads to lots of systick overruns", `system.cpp:125`); both
  are lateness in the other modules.
* The registers of the I2C controller below start, end, failure and abort of a
  transfer; the Teensy core and the other libraries.
* The user interfaces on the ground.

What could follow: the composition of logger and modem through `downlink`, with
run times.
