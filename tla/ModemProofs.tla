---------------------------- MODULE ModemProofs ----------------------------
(***************************************************************************)
(* The modem keeps its inductive invariant, for any number and length of   *)
(* messages, pauses, lags and dropped tasks: commands and pings are        *)
(* handled once and in order, and downlink messages are written whole.  If *)
(* the ground leaves enough silence and nothing is sent down, uplink       *)
(* messages do not run together, either.                                   *)
(***************************************************************************)
EXTENDS Modem, SeqLemmas, FiniteSetTheorems

\* The constants, one by one.
LEMMA Constants ==
    /\ EndOfMessage \in Nat /\ Pause \in Nat /\ Up \in Nat /\ ChunksUp \in Nat \ {0}
    /\ GroundPause \in Nat /\ Down \in Nat /\ PartsDown \in Nat \ {0}
    /\ MaxLag \in Nat \ {0} /\ MaxDrops \in Nat
BY ModemAssumption

\* The initial states.
LEMMA InitInv == Init => LinkInv
<1> SUFFICES ASSUME Init PROVE LinkInv
  OBVIOUS
<1> USE Constants
<1>1. KernelTypeOK
  BY DEF Init, KernelTypeOK, Runlevels, PCs
<1>2. RadioTypeOK
  <2>1. quiet \in 0 .. GroundPause /\ arriving \in 0 .. ChunksUp
    BY DEF Init
  <2>2. fifo \in Seq(UpParts) /\ air \in Seq({"ping", "message"} \X (1 .. Up + Down))
    BY EmptyFacts DEF Init
  <2> QED BY <2>1, <2>2 DEF Init, RadioTypeOK
<1>3. UplinkTypeOK
  BY DEF Init, UplinkTypeOK
<1>4. DownlinkTypeOK
  BY DEF Init, DownlinkTypeOK
<1>5. Handled = {} /\ Starts(uplink_buffer) = {} /\ Starts(fifo) = {}
  BY DEF Init, Handled, Starts
<1>6. HandledOnceInOrder
  BY DEF Init, HandledOnceInOrder
<1>7. UplinkInOrder
  BY <1>5 DEF Init, UplinkInOrder, Waiting
<1>8. QuietUntilOperational
  BY <1>5 DEF Init, QuietUntilOperational, OPERATIONAL
<1>9. DownlinkCounted
  BY DEF Init, DownlinkCounted
<1> QED BY <1>1, <1>2, <1>3, <1>4, <1>6, <1>7, <1>8, <1>9 DEF LinkInv, TypeOK
-----------------------------------------------------------------------------
(* Which messages start in a sequence of parts.                            *)

\* A part more.
LEMMA StartsAppend ==
    ASSUME NEW s \in Seq(UpParts), NEW p \in UpParts
    PROVE  Starts(Append(s, p)) = Starts(s) \union (IF p[2] = 1 THEN {p[1]} ELSE {})
<1>1. /\ DOMAIN s = 1 .. Len(s) /\ Len(s) \in Nat
      /\ DOMAIN Append(s, p) = 1 .. Len(s) + 1
      /\ \A i \in 1 .. Len(s) : Append(s, p)[i] = s[i]
      /\ Append(s, p)[Len(s) + 1] = p
  BY AppendFacts
<1> DEFINE a == Append(s, p)
<1> HIDE DEF a
<1>2. ASSUME NEW m \in Starts(a)
      PROVE  m \in Starts(s) \union (IF p[2] = 1 THEN {p[1]} ELSE {})
  <2>1. PICK i \in 1 .. Len(s) + 1 : a[i][2] = 1 /\ m = a[i][1]
    BY <1>1 DEF Starts, a
  <2>2. CASE i = Len(s) + 1
    BY <1>1, <2>1, <2>2 DEF a
  <2>3. CASE i \in 1 .. Len(s)
    BY <1>1, <2>1, <2>3 DEF a, Starts
  <2> QED BY <1>1, <2>1, <2>2, <2>3
<1>3. Starts(s) \subseteq Starts(a)
  BY <1>1 DEF Starts, a
<1>4. p[2] = 1 => p[1] \in Starts(a)
  <2>1. Len(s) + 1 \in DOMAIN a /\ a[Len(s) + 1] = p
    BY <1>1 DEF a
  <2> QED BY <2>1 DEF Starts
<1> QED BY <1>2, <1>3, <1>4 DEF a

\* A part less.
LEMMA StartsTail ==
    ASSUME NEW s \in Seq(UpParts), s # <<>>
    PROVE  /\ Starts(Tail(s)) \subseteq Starts(s)
           /\ Head(s)[2] = 1 => Head(s)[1] \in Starts(s)
           /\ Head(s) \in UpParts
           /\ Head(s) = s[1]
           /\ \A n \in Starts(Tail(s)) :
                 \E i \in DOMAIN s : 1 < i /\ s[i][2] = 1 /\ s[i][1] = n
<1>1. /\ DOMAIN s = 1 .. Len(s) /\ Len(s) \in Nat \ {0}
      /\ Head(s) \in UpParts /\ Head(s) = s[1]
      /\ DOMAIN Tail(s) = 1 .. Len(s) - 1
      /\ \A i \in 1 .. Len(s) - 1 : Tail(s)[i] = s[i + 1]
  BY TailFacts
<1>2. ASSUME NEW n \in Starts(Tail(s))
      PROVE  \E i \in DOMAIN s : 1 < i /\ s[i][2] = 1 /\ s[i][1] = n
  <2>1. PICK i \in 1 .. Len(s) - 1 : Tail(s)[i][2] = 1 /\ n = Tail(s)[i][1]
    BY <1>1 DEF Starts
  <2>2. /\ i + 1 \in DOMAIN s /\ 1 < i + 1
        /\ s[i + 1][2] = 1 /\ s[i + 1][1] = n
    BY <1>1, <2>1
  <2> QED BY <2>2
<1>3. Starts(Tail(s)) \subseteq Starts(s)
  BY <1>2 DEF Starts
<1>4. Head(s)[2] = 1 => Head(s)[1] \in Starts(s)
  BY <1>1 DEF Starts
<1> QED BY <1>1, <1>2, <1>3, <1>4

\* Messages are numbers.
LEMMA StartsNat == ASSUME NEW s \in Seq(UpParts) PROVE Starts(s) \subseteq 0 .. Up
<1>1. \A i \in DOMAIN s : s[i] \in UpParts
  OBVIOUS
<1>2. \A p \in UpParts : p[1] \in 0 .. Up
  BY DEF UpParts
<1> QED BY <1>1, <1>2 DEF Starts
-----------------------------------------------------------------------------
(* Types.                                                                  *)

\* What process_message takes for a message is one that was sent.
LEMMA FirstFacts ==
    ASSUME LinkInv, pc = "process_message", Complete(uplink_buffer)
    PROVE  /\ First \in Starts(uplink_buffer)
           /\ First \in 1 .. Up
<1>1. uplink_buffer \in Seq(UpParts) /\ 0 \notin Starts(uplink_buffer)
  BY DEF LinkInv, TypeOK, UplinkTypeOK, QuietUntilOperational
<1>2. /\ Len(uplink_buffer) >= 1
      /\ uplink_buffer[1] = <<First, 1>>
  BY <1>1, Constants DEF Complete, First
<1>3. 1 \in DOMAIN uplink_buffer
  BY <1>1, <1>2
<1>4. First \in Starts(uplink_buffer)
  BY <1>2, <1>3 DEF Starts
<1>5. Starts(uplink_buffer) \subseteq 0 .. Up
  BY <1>1, StartsNat
<1> QED BY <1>1, <1>4, <1>5, Constants

\* The modem's state in the kernel.
LEMMA KernelTypes == ASSUME LinkInv, [Next]_vars PROVE KernelTypeOK'
<1> USE Constants DEF KernelTypeOK
<1>0. KernelTypeOK
  BY DEF LinkInv, TypeOK
<1>1. CASE Setup
  BY <1>0, <1>1 DEF Setup, SetupPort, Configure, ConfigureFails, kernel, Runlevels,
                    OPERATIONAL
<1>2. CASE Tick
  <2>1. Requests \in Seq(AtEntry)
    <3>1. /\ "receive" \in AtEntry /\ "process_message" \in AtEntry
          /\ "send_message" \in AtEntry
      BY DEF AtEntry
    <3>2. \A s, u \in Seq(AtEntry) : s \o u \in Seq(AtEntry)
      BY ConcatFacts
    <3>3. \A t \in AtEntry : <<t>> \in Seq(AtEntry) /\ <<>> \in Seq(AtEntry)
      OBVIOUS
    <3> HIDE DEF KernelTypeOK
    <3> QED BY <3>1, <3>2, <3>3, Zenon DEF Requests
  <2>2. tasks' \in Seq(AtEntry)
    <3>1. tasks \o Requests \in Seq(AtEntry)
      BY <1>0, <2>1, ConcatFacts
    <3> QED BY <1>0, <1>2, <3>1 DEF Tick
  <2>3. elapsed' \in 0 .. Pause + 1
    BY <1>0, <1>2 DEF Tick, Silence
  <2> QED BY <1>0, <1>2, <2>2, <2>3 DEF Tick
<1>3. CASE Radio \/ Transmit
  BY <1>0, <1>3 DEF Radio, RadioBegin, RadioDeliver, RadioEnd, RadioSent, Transmit, kernel
<1>4. CASE Start
  <2>1. Head(tasks) \in AtEntry /\ Tail(tasks) \in Seq(AtEntry)
    BY <1>0, <1>4, TailFacts DEF Start
  <2> QED BY <1>0, <1>4, <2>1 DEF Start, PCs
<1>5. CASE Stamp
  BY <1>0, <1>5 DEF Stamp, Return, PCs
<1>6. CASE ReadPart \/ ReadAll \/ Process \/ Empty \/ Continue \/ Fetch \/ Buffer
           \/ Subtract \/ NoRoom
  BY <1>0, <1>6 DEF ReadPart, ReadAll, Process, Empty, Continue, Fetch, Buffer, Subtract,
                    NoRoom, PCs
<1>7. CASE Write
  BY <1>0, <1>7 DEF Write, WritePieces, PCs
<1>8. CASE UNCHANGED vars
  BY <1>0, <1>8 DEF vars
<1> QED BY <1>1, <1>2, <1>3, <1>4, <1>5, <1>6, <1>7, <1>8 DEF Next, Loop

\* The pieces written, as a sequence.
LEMMA WrittenFacts ==
    ASSUME LinkInv, Write
    PROVE  \E count \in Nat, w \in Seq({"ping", "message"} \X (1 .. Up + Down)) :
              /\ \A i \in DOMAIN w : w[i][1] = "message"
              /\ air' = air \o w
<1>1. PICK count \in 1 .. message_num_chars_pending :
         air' = air \o [i \in 1 .. count |-> <<"message", Current>>]
  BY DEF Write, WritePieces
<1>2. count \in Nat
  BY DEF LinkInv, TypeOK, DownlinkTypeOK
<1>3. Current \in 1 .. Up + Down
  <2>1. Len(sent) \in Nat /\ Len(downlink) \in Nat
    BY DEF LinkInv, TypeOK, DownlinkTypeOK
  <2>2. pc = "write" /\ queued \in 0 .. Down
    BY DEF Write, LinkInv, TypeOK, DownlinkTypeOK
  <2>3. Len(sent) > 0 /\ Len(sent) + Len(downlink) = queued
    BY <2>1, <2>2 DEF LinkInv, TypeOK, DownlinkTypeOK, DownlinkCounted
  <2> QED BY <2>1, <2>2, <2>3, Constants DEF Current
<1> DEFINE w == [i \in 1 .. count |-> <<"message", Current>>]
<1>4. w \in Seq({"ping", "message"} \X (1 .. Up + Down))
  BY <1>2, <1>3
<1>5. \A i \in DOMAIN w : w[i][1] = "message"
  OBVIOUS
<1> QED BY <1>1, <1>2, <1>4, <1>5

\* The radio and Serial1.
LEMMA RadioTypes == ASSUME LinkInv, [Next]_vars PROVE RadioTypeOK'
<1> DEFINE Items == {"ping", "message"} \X (1 .. Up + Down)
<1> USE Constants DEF RadioTypeOK
<1>0. RadioTypeOK
  BY DEF LinkInv, TypeOK
<1>00. air \in Seq(Items)
  BY <1>0
<1>1. CASE Setup \/ Transmit
  BY <1>0, <1>1 DEF Setup, SetupPort, Configure, ConfigureFails, Transmit, radio, history
<1>2. CASE Tick
  <2>1. quiet' \in 0 .. GroundPause
    BY <1>0, <1>2 DEF Tick
  <2>2. aux' \in {"high", "falling", "low"}
    BY <1>0, <1>2 DEF Tick
  <2>3. UNCHANGED <<fifo, sending, arriving, air>>
    BY <1>2 DEF Tick, history
  <2> QED BY <1>0, <2>1, <2>2, <2>3
<1>3. CASE RadioBegin \/ RadioEnd \/ RadioSent
  <2>1. CASE RadioBegin
    BY <1>0, <2>1 DEF RadioBegin
  <2>2. CASE RadioEnd
    BY <1>0, <2>2 DEF RadioEnd, history
  <2>3. CASE RadioSent
    BY <1>0, <2>3 DEF RadioSent, history
  <2> QED BY <1>3, <2>1, <2>2, <2>3
<1>4. CASE RadioDeliver
  <2>1. <<Len(kind), ChunksUp - arriving + 1>> \in UpParts
    <3>1. Len(kind) \in 0 .. Up
      BY DEF LinkInv, TypeOK, UplinkTypeOK
    <3>2. ChunksUp - arriving + 1 \in 1 .. ChunksUp
      BY <1>0, <1>4 DEF RadioDeliver
    <3> QED BY <3>1, <3>2 DEF UpParts
  <2>2. fifo' \in Seq(UpParts)
    BY <1>0, <1>4, <2>1, AppendFacts DEF RadioDeliver
  <2> QED BY <1>0, <1>4, <2>2 DEF RadioDeliver, history
<1>5. CASE ReadPart
  <2>1. fifo' \in Seq(UpParts)
    BY <1>0, <1>5, TailFacts DEF ReadPart
  <2> QED BY <1>0, <1>5, <2>1 DEF ReadPart, history
<1>6. CASE Process
  <2>1. air' \in Seq({"ping", "message"} \X (1 .. Up + Down))
    <3>1. CASE Complete(uplink_buffer) /\ kind[First] = "ping"
      <4>1. <<"ping", First>> \in {"ping", "message"} \X (1 .. Up + Down)
        BY <1>6, <3>1, FirstFacts DEF Process
      <4>2. air' = Append(air, <<"ping", First>>)
        BY <1>6, <3>1 DEF Process
      <4> HIDE DEF Items
      <4>3. Append(air, <<"ping", First>>) \in Seq(Items)
        BY <1>00, <4>1, AppendFacts DEF Items
      <4> QED BY <4>2, <4>3 DEF Items
    <3>2. CASE ~(Complete(uplink_buffer) /\ kind[First] = "ping")
      BY <1>0, <1>6, <3>2 DEF Process
    <3> QED BY <3>1, <3>2
  <2>2. sending' \in BOOLEAN
    BY <1>0, <1>6 DEF Process
  <2> QED BY <1>0, <1>6, <2>1, <2>2 DEF Process
<1>7. CASE Write
  <2>1. air' \in Seq({"ping", "message"} \X (1 .. Up + Down))
    <3>1. PICK w \in Seq(Items) : air' = air \o w
      BY <1>7, WrittenFacts
    <3> HIDE DEF Items
    <3>2. air \o w \in Seq(Items)
      BY <1>00, ConcatFacts
    <3> QED BY <3>1, <3>2 DEF Items
  <2> QED BY <1>0, <1>7, <2>1 DEF Write, WritePieces
<1>8. CASE Start \/ Stamp \/ ReadAll \/ Empty \/ Continue \/ Fetch \/ Buffer \/ Subtract
           \/ NoRoom \/ UNCHANGED vars
  BY <1>0, <1>8 DEF Start, Stamp, ReadAll, Empty, Continue, Fetch, Buffer, Subtract, NoRoom,
                    vars, radio, history
<1> QED BY <1>1, <1>2, <1>3, <1>4, <1>5, <1>6, <1>7, <1>8 DEF Next, Loop, Radio

\* Uplink messages.
LEMMA UplinkTypes == ASSUME LinkInv, [Next]_vars PROVE UplinkTypeOK'
<1> USE Constants DEF UplinkTypeOK
<1>0. UplinkTypeOK
  BY DEF LinkInv, TypeOK
<1>1. CASE Setup
  <2>1. uplink_buffer' \in Seq(UpParts)
    <3>1. <<0, 1>> \in UpParts
      BY DEF UpParts
    <3>2. uplink_buffer' \in {uplink_buffer, <<>>, << <<0, 1>> >>}
      BY <1>1 DEF Setup, SetupPort, Configure, ConfigureFails
    <3>3. << <<0, 1>> >> \in Seq(UpParts) /\ <<>> \in Seq(UpParts)
      BY <3>1
    <3> QED BY <1>0, <3>2, <3>3
  <2> QED BY <1>0, <1>1, <2>1 DEF Setup, SetupPort, Configure, ConfigureFails, history
<1>2. CASE RadioBegin
  <2>1. PICK k \in Kinds : kind' = Append(kind, k)
    BY <1>2 DEF RadioBegin
  <2>2. kind' \in Seq(Kinds) /\ Len(kind') = Len(kind) + 1
    BY <1>0, <2>1, AppendFacts
  <2>3. Len(kind) < Up
    BY <1>2 DEF RadioBegin
  <2> QED BY <1>0, <1>2, <2>2, <2>3 DEF RadioBegin
<1>3. CASE ReadPart
  <2>1. Head(fifo) \in UpParts
    BY <1>3, TailFacts DEF ReadPart, LinkInv, TypeOK, RadioTypeOK
  <2>2. uplink_buffer' \in Seq(UpParts)
    BY <1>0, <1>3, <2>1, AppendFacts DEF ReadPart
  <2> QED BY <1>0, <1>3, <2>2 DEF ReadPart, history
<1>4. CASE Process
  <2>1. commands' \in Seq(1 .. Up)
    <3>1. CASE Complete(uplink_buffer) /\ kind[First] = "command"
      <4>1. First \in 1 .. Up
        BY <1>4, <3>1, FirstFacts DEF Process
      <4>2. commands' = Append(commands, First)
        BY <1>4, <3>1 DEF Process
      <4>3. Append(commands, First) \in Seq(1 .. Up)
        BY <1>0, <4>1, AppendFacts
      <4> QED BY <4>2, <4>3
    <3>2. CASE ~(Complete(uplink_buffer) /\ kind[First] = "command")
      BY <1>0, <1>4, <3>2 DEF Process
    <3> QED BY <3>1, <3>2
  <2> QED BY <1>0, <1>4, <2>1 DEF Process
<1>5. CASE Empty
  <2>1. uplink_buffer' \in Seq(UpParts)
    BY <1>5, EmptyFacts DEF Empty
  <2> QED BY <1>0, <1>5, <2>1 DEF Empty, history
<1>6. CASE Tick \/ Transmit \/ RadioDeliver \/ RadioEnd \/ RadioSent
  BY <1>0, <1>6 DEF Tick, Transmit, RadioDeliver, RadioEnd, RadioSent, history
<1>7. CASE Start \/ Stamp \/ ReadAll \/ Continue \/ Fetch \/ Buffer \/ Write \/ Subtract
           \/ NoRoom \/ UNCHANGED vars
  BY <1>0, <1>7 DEF Start, Stamp, ReadAll, Continue, Fetch, Buffer, Write, WritePieces,
                    Subtract, NoRoom, vars, history
<1> QED BY <1>1, <1>2, <1>3, <1>4, <1>5, <1>6, <1>7 DEF Next, Loop, Radio

\* Downlink messages: their types and their number.
LEMMA DownlinkInv ==
    ASSUME LinkInv, [Next]_vars
    PROVE  DownlinkTypeOK' /\ DownlinkCounted'
<1> USE Constants DEF DownlinkTypeOK, DownlinkCounted
<1>0. DownlinkTypeOK /\ DownlinkCounted
  BY DEF LinkInv, TypeOK
<1>1. CASE Setup \/ Tick \/ Radio
  <2>1. CASE Setup
    BY <1>0, <2>1 DEF Setup, SetupPort, Configure, ConfigureFails, counts, kernel, history
  <2>2. CASE Tick
    BY <1>0, <2>2 DEF Tick, counts, history
  <2>3. CASE RadioBegin
    BY <1>0, <2>3 DEF RadioBegin, counts, kernel
  <2>4. CASE RadioDeliver \/ RadioEnd \/ RadioSent
    BY <1>0, <2>4 DEF RadioDeliver, RadioEnd, RadioSent, counts, kernel, history
  <2> QED BY <1>1, <2>1, <2>2, <2>3, <2>4 DEF Radio
<1>2. CASE Transmit
  <2>1. /\ downlink' \in Seq(1 .. Down)
        /\ Len(downlink') = Len(downlink) + 1
        /\ Len(downlink) \in Nat
    BY <1>0, <1>2, AppendFacts DEF Transmit
  <2>2. UNCHANGED <<message_num_chars_pending, transmit_count, pc, sent>>
    BY <1>2 DEF Transmit, counts, kernel
  <2>3. queued' = queued + 1 /\ queued' \in 0 .. Down
    BY <1>0, <1>2 DEF Transmit
  <2>4. Len(sent) \in Nat
    BY <1>0
  <2>5. DownlinkTypeOK'
    BY <1>0, <2>1, <2>2, <2>3
  <2>6. DownlinkCounted'
    BY <1>0, <2>1, <2>2, <2>3, <2>4
  <2> QED BY <2>5, <2>6
<1>3. CASE Start
  <2>1. pc' \in AtEntry
    BY <1>3, TailFacts DEF Start, LinkInv, TypeOK, KernelTypeOK
  <2> QED BY <1>0, <1>3, <2>1 DEF Start, AtEntry, counts, history
<1>4. CASE Fetch
  <2>1. /\ downlink' \in Seq(1 .. Down)
        /\ Len(downlink') = Len(downlink) - 1
        /\ Len(downlink) \in Nat
    BY <1>0, <1>4, TailFacts DEF Fetch
  <2> QED BY <1>0, <1>4, <2>1 DEF Fetch, counts, history
<1>5. CASE Buffer
  <2>1. PICK pieces \in 1 .. PartsDown :
           message_num_chars_pending' = pieces /\ sent' = Append(sent, pieces)
    BY <1>5 DEF Buffer
  <2>2. /\ sent' \in Seq(1 .. PartsDown)
        /\ Len(sent') = Len(sent) + 1
        /\ Len(sent) \in Nat
    BY <1>0, <2>1, AppendFacts
  <2>3. Len(downlink) \in Nat
    BY <1>0
  <2> QED BY <1>0, <1>5, <2>1, <2>2, <2>3 DEF Buffer
<1>6. CASE Write
  BY <1>0, <1>6 DEF Write, WritePieces
<1>7. CASE Subtract
  BY <1>0, <1>7 DEF Subtract, history
<1>8. CASE Stamp \/ ReadPart \/ ReadAll \/ Process \/ Empty \/ Continue \/ NoRoom
           \/ UNCHANGED vars
  BY <1>0, <1>8 DEF Stamp, Return, ReadPart, ReadAll, Process, Empty, Continue, NoRoom,
                    counts, vars, history
<1> QED BY <1>1, <1>2, <1>3, <1>4, <1>5, <1>6, <1>7, <1>8 DEF Next, Loop
-----------------------------------------------------------------------------
(* The order of the uplink messages.                                       *)

\* Numbers, so that the provers can compare them.
LEMMA OrderTypes ==
    ASSUME TypeOK
    PROVE  /\ Handled \subseteq Nat
           /\ Starts(uplink_buffer) \subseteq 0 .. Up
           /\ Starts(fifo) \subseteq 0 .. Up
           /\ LastStarted \in Int
           /\ \A i \in DOMAIN commands : commands[i] \in Nat /\ commands[i] \in Handled
           /\ \A i \in DOMAIN air : air[i][2] \in Nat
           /\ \A i \in DOMAIN air : air[i][1] = "ping" => air[i][2] \in Handled
           /\ \A i \in DOMAIN fifo : fifo[i] \in UpParts /\ fifo[i][1] \in Nat
<1>1. /\ commands \in Seq(1 .. Up) /\ uplink_buffer \in Seq(UpParts)
      /\ fifo \in Seq(UpParts) /\ kind \in Seq(Kinds)
      /\ air \in Seq({"ping", "message"} \X (1 .. Up + Down))
  BY DEF TypeOK, RadioTypeOK, UplinkTypeOK
<1>2. \A i \in DOMAIN commands : commands[i] \in Nat /\ commands[i] \in Handled
  BY <1>1, Constants DEF Handled
<1>3. \A i \in DOMAIN air : air[i][2] \in Nat
  <2> TAKE i \in DOMAIN air
  <2>1. air[i] \in {"ping", "message"} \X (1 .. Up + Down)
    BY <1>1
  <2> QED BY <2>1, Constants
<1>4. \A i \in DOMAIN air : air[i][1] = "ping" => air[i][2] \in Handled
  BY DEF Handled
<1>5. \A i \in DOMAIN fifo : fifo[i] \in UpParts /\ fifo[i][1] \in Nat
  BY <1>1, Constants DEF UpParts
<1>6. LastStarted \in Int
  BY <1>1 DEF LastStarted
<1>7. Handled \subseteq Nat
  BY <1>2, <1>3 DEF Handled
<1> QED BY <1>1, <1>2, <1>3, <1>4, <1>5, <1>6, <1>7, StartsNat

\* A step that touches neither the messages nor what is known of them.
LEMMA OrderUntouched ==
    ASSUME LinkInv, UNCHANGED <<commands, air, uplink_buffer, fifo, kind, arriving>>,
           pc' = "empty" <=> pc = "empty"
    PROVE  HandledOnceInOrder' /\ UplinkInOrder'
<1>1. Starts(uplink_buffer)' = Starts(uplink_buffer) /\ Starts(fifo)' = Starts(fifo)
  BY DEF Starts
<1>2. Handled' = Handled /\ LastStarted' = LastStarted
  BY DEF Handled, LastStarted
<1>3. Waiting' = Waiting
  BY <1>1 DEF Waiting
<1>4. HandledOnceInOrder'
  BY DEF LinkInv, HandledOnceInOrder
<1>5. UplinkInOrder'
  BY <1>1, <1>2, <1>3 DEF LinkInv, UplinkInOrder
<1> QED BY <1>4, <1>5

\* The set-up may leave a wrong answer in the buffer.
LEMMA OrderSetup ==
    ASSUME LinkInv, Setup
    PROVE  HandledOnceInOrder' /\ UplinkInOrder' /\ QuietUntilOperational'
<1> USE Constants
<1>1. /\ runlevel_ # OPERATIONAL /\ Handled = {} /\ fifo = <<>> /\ arriving = 0
      /\ pc = "kernel" /\ tasks = <<>> /\ aux = "high"
  BY DEF LinkInv, QuietUntilOperational, Setup, SetupPort, Configure, ConfigureFails,
         OPERATIONAL
<1>2. UNCHANGED <<commands, air, fifo, kind, arriving, pc, tasks, aux>>
  BY DEF Setup, SetupPort, Configure, ConfigureFails, kernel, radio, history
<1>3. Starts(fifo)' = {} /\ Handled' = {}
  <2>1. Handled' = Handled
    BY <1>2 DEF Handled
  <2>2. DOMAIN fifo' = {}
    BY <1>1, <1>2, EmptyFacts
  <2>3. Starts(fifo)' = {}
    BY <2>2 DEF Starts
  <2> QED BY <1>1, <2>1, <2>3
<1>4. uplink_buffer' \in {uplink_buffer, <<>>, << <<0, 1>> >>}
  BY DEF Setup, SetupPort, Configure, ConfigureFails
<1>5. LastStarted' = LastStarted /\ LastStarted \in Nat
  BY <1>1, <1>2 DEF LastStarted, LinkInv, TypeOK, UplinkTypeOK
<1>6. \A m \in Starts(uplink_buffer)' : m <= LastStarted
  <2>1. CASE uplink_buffer' = uplink_buffer
    BY <2>1 DEF LinkInv, UplinkInOrder, Starts
  <2>2. CASE uplink_buffer' = <<>>
    BY <2>2 DEF Starts
  <2>3. CASE uplink_buffer' = << <<0, 1>> >>
    <3>1. Starts(uplink_buffer)' = {0}
      BY <2>3 DEF Starts
    <3> QED BY <3>1, <1>5
  <2> QED BY <1>4, <2>1, <2>2, <2>3
<1>7. HandledOnceInOrder'
  BY <1>2 DEF LinkInv, HandledOnceInOrder
<1>8. UplinkInOrder'
  BY <1>1, <1>2, <1>3, <1>5, <1>6 DEF UplinkInOrder
<1>9. QuietUntilOperational'
  <2>1. runlevel_' = OPERATIONAL => 0 \notin Starts(uplink_buffer)'
    BY DEF Setup, SetupPort, Configure, ConfigureFails, Starts, OPERATIONAL
  <2> QED BY <1>1, <1>2, <1>3, <2>1 DEF QuietUntilOperational
<1> QED BY <1>7, <1>8, <1>9

\* A new message is later than all others.
LEMMA OrderBegin ==
    ASSUME LinkInv, RadioBegin
    PROVE  HandledOnceInOrder' /\ UplinkInOrder' /\ QuietUntilOperational'
<1> USE Constants
<1>1. /\ UNCHANGED <<runlevel_, commands, air, uplink_buffer, fifo, pc, tasks>>
      /\ runlevel_ = OPERATIONAL /\ arriving' = ChunksUp
  BY DEF RadioBegin, kernel
<1>2. Len(kind') = Len(kind) + 1 /\ Len(kind) \in Nat /\ kind' # <<>>
  <2>1. PICK k \in Kinds : kind' = Append(kind, k)
    BY DEF RadioBegin
  <2> QED BY <2>1, AppendFacts DEF LinkInv, TypeOK, UplinkTypeOK
<1>3. /\ Starts(uplink_buffer)' = Starts(uplink_buffer) /\ Starts(fifo)' = Starts(fifo)
      /\ Handled' = Handled
  BY <1>1 DEF Starts, Handled
<1>4. Waiting' = Waiting
  BY <1>1, <1>3 DEF Waiting
<1>5. LastStarted' = Len(kind) /\ LastStarted <= Len(kind)
  BY <1>1, <1>2 DEF LastStarted
<1>6. \A m \in Handled \union Starts(uplink_buffer) \union Starts(fifo) :
         m \in Int /\ m <= LastStarted
  BY OrderTypes DEF LinkInv, UplinkInOrder
<1>7. HandledOnceInOrder'
  BY <1>1 DEF LinkInv, HandledOnceInOrder
<1>8. UplinkInOrder'
  <2>1. LastStarted \in Int
    BY OrderTypes DEF LinkInv
  <2>2. \A m \in Handled \union Starts(uplink_buffer) \union Starts(fifo) :
           m <= LastStarted'
    BY <1>2, <1>5, <1>6, <2>1
  <2> QED BY <1>1, <1>3, <1>4, <2>2 DEF LinkInv, UplinkInOrder
<1>9. QuietUntilOperational'
  BY <1>1, <1>2, <1>3 DEF LinkInv, QuietUntilOperational
<1> QED BY <1>7, <1>8, <1>9

\* Its first part is the last to come into the FIFO; the other parts change
\* nothing.
LEMMA OrderDeliver ==
    ASSUME LinkInv, RadioDeliver
    PROVE  HandledOnceInOrder' /\ UplinkInOrder' /\ QuietUntilOperational'
<1> USE Constants
<1> DEFINE p == <<Len(kind), ChunksUp - arriving + 1>>
<1>1. /\ UNCHANGED <<runlevel_, commands, air, uplink_buffer, kind, pc, tasks, aux>>
      /\ aux = "low" /\ arriving > 0 /\ arriving' = arriving - 1
      /\ fifo' = Append(fifo, p)
  BY DEF RadioDeliver, kernel, history
<1>2. arriving \in 0 .. ChunksUp /\ fifo \in Seq(UpParts) /\ Len(kind) \in 0 .. Up
  BY DEF LinkInv, TypeOK, RadioTypeOK, UplinkTypeOK
<1>3. p \in UpParts /\ (p[2] = 1 <=> arriving = ChunksUp) /\ p[1] = Len(kind)
  BY <1>1, <1>2 DEF UpParts
<1> HIDE DEF p
<1>4. Starts(fifo)' = Starts(fifo) \union (IF arriving = ChunksUp THEN {Len(kind)} ELSE {})
  <2>1. Starts(fifo)' = Starts(Append(fifo, p))
    BY <1>1 DEF Starts
  <2> QED BY <1>2, <1>3, <2>1, StartsAppend
<1>5. Starts(uplink_buffer)' = Starts(uplink_buffer) /\ Handled' = Handled
  BY <1>1 DEF Starts, Handled
<1>6. Waiting' = Waiting /\ Waiting \subseteq Starts(uplink_buffer)
  BY <1>1, <1>5 DEF Waiting
<1>7. LastStarted' = Len(kind)
  BY <1>1, <1>2 DEF LastStarted
<1>8. LastStarted = IF arriving = ChunksUp THEN Len(kind) - 1 ELSE Len(kind)
  BY DEF LastStarted
<1>9. \A m \in Handled \union Starts(uplink_buffer) \union Starts(fifo) :
         m \in Int /\ m <= LastStarted
  BY OrderTypes DEF LinkInv, UplinkInOrder
<1>10. \A m \in Handled \union Starts(uplink_buffer) \union Starts(fifo) :
          m <= Len(kind) /\ (arriving = ChunksUp => m < Len(kind))
  BY <1>2, <1>8, <1>9
<1>11. \A i, j \in DOMAIN fifo' :
          i < j /\ fifo'[i][2] = 1 /\ fifo'[j][2] = 1 => fifo'[i][1] < fifo'[j][1]
  <2> SUFFICES ASSUME NEW i \in DOMAIN fifo', NEW j \in DOMAIN fifo',
                      i < j, fifo'[i][2] = 1, fifo'[j][2] = 1
               PROVE  fifo'[i][1] < fifo'[j][1]
    OBVIOUS
  <2>1. /\ DOMAIN fifo = 1 .. Len(fifo) /\ Len(fifo) \in Nat
        /\ DOMAIN fifo' = 1 .. Len(fifo) + 1
        /\ \A k \in 1 .. Len(fifo) : fifo'[k] = fifo[k]
        /\ fifo'[Len(fifo) + 1] = p
    BY <1>1, <1>2, <1>3, AppendFacts
  <2>2. i \in DOMAIN fifo /\ fifo'[i] = fifo[i]
    BY <2>1
  <2>3. CASE j = Len(fifo) + 1
    <3>1. arriving = ChunksUp /\ fifo'[j][1] = Len(kind)
      BY <1>3, <2>1, <2>3
    <3>2. fifo[i][1] \in Starts(fifo)
      BY <2>2 DEF Starts
    <3> QED BY <1>10, <2>2, <3>1, <3>2
  <2>4. CASE j # Len(fifo) + 1
    <3>1. j \in DOMAIN fifo /\ fifo'[j] = fifo[j]
      BY <2>1, <2>4
    <3> QED BY <2>2, <3>1 DEF LinkInv, UplinkInOrder
  <2> QED BY <2>3, <2>4
<1>12. HandledOnceInOrder'
  BY <1>1 DEF LinkInv, HandledOnceInOrder
<1>13. UplinkInOrder'
  <2>1. \A m \in Handled, n \in Waiting \union Starts(fifo)' : m < n
    BY <1>4, <1>10 DEF LinkInv, UplinkInOrder
  <2>2. \A m \in Starts(uplink_buffer), n \in Starts(fifo)' : m < n
    BY <1>4, <1>10 DEF LinkInv, UplinkInOrder
  <2>3. \A m \in Handled \union Starts(uplink_buffer) \union Starts(fifo)' :
           m <= LastStarted'
    BY <1>2, <1>4, <1>7, <1>10
  <2> QED BY <1>5, <1>6, <1>11, <2>1, <2>2, <2>3 DEF UplinkInOrder
<1>14. QuietUntilOperational'
  <2>1. runlevel_ = OPERATIONAL
    BY <1>1 DEF LinkInv, QuietUntilOperational
  <2>2. Len(kind) # 0
    BY <1>1, <1>2 DEF LinkInv, QuietUntilOperational, TypeOK, UplinkTypeOK
  <2>3. 0 \notin Starts(fifo)'
    BY <1>2, <1>4, <2>2 DEF LinkInv, QuietUntilOperational
  <2> QED BY <1>1, <1>5, <2>1, <2>3 DEF LinkInv, QuietUntilOperational
<1> QED BY <1>12, <1>13, <1>14

\* What is read goes from the front of the FIFO to the end of the buffer.
LEMMA OrderRead ==
    ASSUME LinkInv, ReadPart
    PROVE  HandledOnceInOrder' /\ UplinkInOrder' /\ QuietUntilOperational'
<1> USE Constants
<1> DEFINE p == Head(fifo)
<1>1. /\ UNCHANGED <<runlevel_, commands, air, kind, arriving, tasks, aux>>
      /\ uplink_buffer' = Append(uplink_buffer, p) /\ fifo' = Tail(fifo)
      /\ fifo # <<>> /\ pc \in {"receive", "read"} /\ pc' = "read"
  BY DEF ReadPart, history
<1>2. uplink_buffer \in Seq(UpParts) /\ fifo \in Seq(UpParts)
  BY DEF LinkInv, TypeOK, RadioTypeOK, UplinkTypeOK
<1>3. /\ Starts(Tail(fifo)) \subseteq Starts(fifo)
      /\ p[2] = 1 => p[1] \in Starts(fifo)
      /\ p \in UpParts /\ p = fifo[1]
      /\ \A n \in Starts(Tail(fifo)) :
            \E i \in DOMAIN fifo : 1 < i /\ fifo[i][2] = 1 /\ fifo[i][1] = n
  BY <1>1, <1>2, StartsTail
<1> HIDE DEF p
<1>4. Starts(fifo)' = Starts(Tail(fifo))
  BY <1>1 DEF Starts
<1>5. Starts(uplink_buffer)' = Starts(uplink_buffer)
                               \union (IF p[2] = 1 THEN {p[1]} ELSE {})
  <2>1. Starts(uplink_buffer)' = Starts(Append(uplink_buffer, p))
    BY <1>1 DEF Starts
  <2> QED BY <1>2, <1>3, <2>1, StartsAppend
<1>6. Handled' = Handled /\ LastStarted' = LastStarted
  BY <1>1 DEF Handled, LastStarted
<1>7. Waiting = Starts(uplink_buffer) /\ Waiting' = Starts(uplink_buffer)'
  BY <1>1 DEF Waiting
<1>8. Starts(uplink_buffer)' \subseteq Starts(uplink_buffer) \union Starts(fifo)
  BY <1>3, <1>5
<1>9. \A m \in Starts(uplink_buffer)', n \in Starts(fifo)' : m < n
  <2> SUFFICES ASSUME NEW m \in Starts(uplink_buffer)', NEW n \in Starts(fifo)'
               PROVE  m < n
    OBVIOUS
  <2>1. CASE m \in Starts(uplink_buffer)
    BY <1>3, <1>4, <2>1 DEF LinkInv, UplinkInOrder
  <2>2. CASE m \notin Starts(uplink_buffer)
    <3>1. p[2] = 1 /\ m = p[1]
      BY <1>5, <2>2
    <3>2. PICK i \in DOMAIN fifo : 1 < i /\ fifo[i][2] = 1 /\ fifo[i][1] = n
      BY <1>3, <1>4
    <3>3. 1 \in DOMAIN fifo
      BY <1>1, <1>2, TailFacts
    <3> QED BY <1>3, <3>1, <3>2, <3>3 DEF LinkInv, UplinkInOrder
  <2> QED BY <2>1, <2>2
<1>10. \A i, j \in DOMAIN fifo' :
          i < j /\ fifo'[i][2] = 1 /\ fifo'[j][2] = 1 => fifo'[i][1] < fifo'[j][1]
  <2> SUFFICES ASSUME NEW i \in DOMAIN fifo', NEW j \in DOMAIN fifo',
                      i < j, fifo'[i][2] = 1, fifo'[j][2] = 1
               PROVE  fifo'[i][1] < fifo'[j][1]
    OBVIOUS
  <2>1. /\ DOMAIN fifo = 1 .. Len(fifo) /\ Len(fifo) \in Nat
        /\ DOMAIN fifo' = 1 .. Len(fifo) - 1
        /\ \A k \in 1 .. Len(fifo) - 1 : fifo'[k] = fifo[k + 1]
    BY <1>1, <1>2, TailFacts
  <2>2. /\ i + 1 \in DOMAIN fifo /\ j + 1 \in DOMAIN fifo /\ i + 1 < j + 1
        /\ fifo'[i] = fifo[i + 1] /\ fifo'[j] = fifo[j + 1]
    BY <2>1
  <2> QED BY <2>2 DEF LinkInv, UplinkInOrder
<1>11. HandledOnceInOrder'
  BY <1>1 DEF LinkInv, HandledOnceInOrder
<1>12. UplinkInOrder'
  <2>1. \A m \in Handled, n \in Starts(uplink_buffer)' \union Starts(fifo)' : m < n
    BY <1>3, <1>4, <1>7, <1>8 DEF LinkInv, UplinkInOrder
  <2>2. \A m \in Handled \union Starts(uplink_buffer)' \union Starts(fifo)' :
           m <= LastStarted
    BY <1>3, <1>4, <1>8 DEF LinkInv, UplinkInOrder
  <2> QED BY <1>6, <1>7, <1>9, <1>10, <2>1, <2>2 DEF UplinkInOrder
<1>13. QuietUntilOperational'
  <2>1. runlevel_ = OPERATIONAL
    BY <1>1 DEF LinkInv, QuietUntilOperational
  <2>2. 0 \notin Starts(fifo) /\ 0 \notin Starts(uplink_buffer)
    BY <2>1 DEF LinkInv, QuietUntilOperational
  <2> QED BY <1>1, <1>3, <1>4, <1>8, <2>1, <2>2 DEF LinkInv, QuietUntilOperational
<1> QED BY <1>11, <1>12, <1>13

\* process_message handles the message at the start of the buffer, if any: it is
\* later than all that were handled before and earlier than all that follow.
LEMMA OrderProcess ==
    ASSUME LinkInv, Process
    PROVE  HandledOnceInOrder' /\ UplinkInOrder' /\ QuietUntilOperational'
<1> USE Constants
<1>1. /\ UNCHANGED <<runlevel_, uplink_buffer, fifo, kind, arriving, tasks, aux>>
      /\ pc = "process_message" /\ pc' = "empty"
  BY DEF Process
<1>2. /\ commands \in Seq(1 .. Up)
      /\ air \in Seq({"ping", "message"} \X (1 .. Up + Down))
  BY DEF LinkInv, TypeOK, RadioTypeOK, UplinkTypeOK
<1>3. Starts(uplink_buffer)' = Starts(uplink_buffer) /\ Starts(fifo)' = Starts(fifo)
  BY <1>1 DEF Starts
<1>4. LastStarted' = LastStarted /\ Waiting = Starts(uplink_buffer) /\ Waiting' = {}
  BY <1>1 DEF LastStarted, Waiting
<1>5. runlevel_ = OPERATIONAL
  BY <1>1 DEF LinkInv, QuietUntilOperational
<1>6. QuietUntilOperational'
  BY <1>1, <1>3, <1>5 DEF LinkInv, QuietUntilOperational
<1>7. ASSUME Handled' \subseteq Handled \union {First}, First \in Starts(uplink_buffer)
      PROVE  UplinkInOrder'
  <2>1. \A m \in Handled', n \in Starts(fifo) : m < n
    BY <1>7 DEF LinkInv, UplinkInOrder
  <2>2. \A m \in Handled' : m <= LastStarted
    BY <1>7 DEF LinkInv, UplinkInOrder
  <2> QED BY <1>1, <1>3, <1>4, <2>1, <2>2 DEF LinkInv, UplinkInOrder
<1>8. CASE Complete(uplink_buffer) /\ kind[First] = "ping"
  <2>1. First \in Starts(uplink_buffer) /\ First \in 1 .. Up
    BY <1>1, <1>8, FirstFacts
  <2>2. air' = Append(air, <<"ping", First>>) /\ commands' = commands
    BY <1>8 DEF Process
  <2> DEFINE Items == {"ping", "message"} \X (1 .. Up + Down)
  <2>3. <<"ping", First>> \in Items
    BY <2>1
  <2> HIDE DEF Items
  <2>4. /\ DOMAIN air = 1 .. Len(air) /\ Len(air) \in Nat
        /\ DOMAIN air' = 1 .. Len(air) + 1
        /\ \A k \in 1 .. Len(air) : air'[k] = air[k]
        /\ air'[Len(air) + 1] = <<"ping", First>>
    <3>1. air \in Seq(Items)
      BY <1>2 DEF Items
    <3> QED BY <2>2, <2>3, <3>1, AppendFacts
  <2>5. \A m \in Handled : m < First
    BY <1>4, <2>1 DEF LinkInv, UplinkInOrder
  <2>6. \A i, j \in DOMAIN air' :
           i < j /\ air'[i][1] = "ping" /\ air'[j][1] = "ping" => air'[i][2] < air'[j][2]
    <3> SUFFICES ASSUME NEW i \in DOMAIN air', NEW j \in DOMAIN air',
                        i < j, air'[i][1] = "ping", air'[j][1] = "ping"
                 PROVE  air'[i][2] < air'[j][2]
      OBVIOUS
    <3>1. i \in DOMAIN air /\ air'[i] = air[i] /\ air[i][2] \in Handled
      BY <2>4, OrderTypes DEF LinkInv
    <3>2. CASE j = Len(air) + 1
      BY <2>4, <2>5, <3>1, <3>2
    <3>3. CASE j # Len(air) + 1
      <4>1. j \in DOMAIN air /\ air'[j] = air[j]
        BY <2>4, <3>3
      <4> QED BY <3>1, <4>1 DEF LinkInv, HandledOnceInOrder
    <3> QED BY <3>2, <3>3
  <2>7. HandledOnceInOrder'
    BY <2>2, <2>6 DEF LinkInv, HandledOnceInOrder
  <2>8. Handled' \subseteq Handled \union {First}
    BY <2>2, <2>4 DEF Handled
  <2> QED BY <1>6, <1>7, <2>1, <2>7, <2>8
<1>9. CASE Complete(uplink_buffer) /\ kind[First] = "command"
  <2>1. First \in Starts(uplink_buffer) /\ First \in 1 .. Up
    BY <1>1, <1>9, FirstFacts
  <2>2. commands' = Append(commands, First) /\ air' = air
    BY <1>9 DEF Process
  <2>4. /\ DOMAIN commands = 1 .. Len(commands) /\ Len(commands) \in Nat
        /\ DOMAIN commands' = 1 .. Len(commands) + 1
        /\ \A k \in 1 .. Len(commands) : commands'[k] = commands[k]
        /\ commands'[Len(commands) + 1] = First
    BY <1>2, <2>1, <2>2, AppendFacts
  <2>5. \A m \in Handled : m < First
    BY <1>4, <2>1 DEF LinkInv, UplinkInOrder
  <2>6. \A i, j \in DOMAIN commands' : i < j => commands'[i] < commands'[j]
    <3> SUFFICES ASSUME NEW i \in DOMAIN commands', NEW j \in DOMAIN commands', i < j
                 PROVE  commands'[i] < commands'[j]
      OBVIOUS
    <3>1. i \in DOMAIN commands /\ commands'[i] = commands[i] /\ commands[i] \in Handled
      BY <2>4, OrderTypes DEF LinkInv
    <3>2. CASE j = Len(commands) + 1
      BY <2>4, <2>5, <3>1, <3>2
    <3>3. CASE j # Len(commands) + 1
      <4>1. j \in DOMAIN commands /\ commands'[j] = commands[j]
        BY <2>4, <3>3
      <4> QED BY <3>1, <4>1 DEF LinkInv, HandledOnceInOrder
    <3> QED BY <3>2, <3>3
  <2>7. HandledOnceInOrder'
    BY <2>2, <2>6 DEF LinkInv, HandledOnceInOrder
  <2>8. Handled' \subseteq Handled \union {First}
    BY <2>2, <2>4 DEF Handled
  <2> QED BY <1>6, <1>7, <2>1, <2>7, <2>8
<1>10. CASE ~(Complete(uplink_buffer) /\ kind[First] \in Kinds)
  <2>1. UNCHANGED <<commands, air>>
    BY <1>10 DEF Process, Kinds
  <2>2. Handled' = Handled
    BY <2>1 DEF Handled
  <2>3. HandledOnceInOrder'
    BY <2>1 DEF LinkInv, HandledOnceInOrder
  <2>4. UplinkInOrder'
    BY <1>1, <1>3, <1>4, <2>2 DEF LinkInv, UplinkInOrder
  <2> QED BY <1>6, <2>3, <2>4
<1> QED BY <1>8, <1>9, <1>10 DEF Kinds

\* Emptying the buffer forgets the message that was handled and those behind it.
LEMMA OrderEmpty ==
    ASSUME LinkInv, Empty
    PROVE  HandledOnceInOrder' /\ UplinkInOrder' /\ QuietUntilOperational'
<1>1. /\ UNCHANGED <<runlevel_, commands, air, fifo, kind, arriving, tasks, aux>>
      /\ uplink_buffer' = <<>> /\ pc = "empty" /\ pc' = "stamp"
  BY DEF Empty, radio, history
<1>2. Starts(fifo)' = Starts(fifo)
  BY <1>1 DEF Starts
<1>3. Handled' = Handled /\ LastStarted' = LastStarted
  BY <1>1 DEF Handled, LastStarted
<1>4. Starts(uplink_buffer)' = {}
  <2>1. DOMAIN uplink_buffer' = {}
    BY <1>1, EmptyFacts
  <2> QED BY <2>1 DEF Starts
<1>5. Waiting' = {}
  BY <1>4 DEF Waiting
<1>6. HandledOnceInOrder'
  BY <1>1 DEF LinkInv, HandledOnceInOrder
<1>7. UplinkInOrder'
  BY <1>1, <1>2, <1>3, <1>4, <1>5 DEF LinkInv, UplinkInOrder
<1>8. QuietUntilOperational'
  <2>1. runlevel_ = OPERATIONAL
    BY <1>1 DEF LinkInv, QuietUntilOperational
  <2> QED BY <1>1, <1>2, <1>4, <2>1 DEF LinkInv, QuietUntilOperational
<1> QED BY <1>6, <1>7, <1>8

\* The pieces of a downlink message are no answers to pings.
LEMMA OrderWrite ==
    ASSUME LinkInv, Write
    PROVE  HandledOnceInOrder' /\ UplinkInOrder' /\ QuietUntilOperational'
<1>1. /\ UNCHANGED <<runlevel_, commands, uplink_buffer, fifo, kind, arriving, tasks, aux>>
      /\ pc = "write" /\ pc' = "subtract"
  BY DEF Write, WritePieces
<1> DEFINE Items == {"ping", "message"} \X (1 .. Up + Down)
<1>2. PICK w \in Seq(Items) :
         (\A i \in DOMAIN w : w[i][1] = "message") /\ air' = air \o w
  BY WrittenFacts
<1>3. air \in Seq(Items)
  BY DEF LinkInv, TypeOK, RadioTypeOK
<1> HIDE DEF Items
<1>4. \A i \in DOMAIN air' : air'[i][1] = "ping" => i \in DOMAIN air /\ air'[i] = air[i]
  <2>1. /\ Len(air) \in Nat /\ Len(w) \in Nat
        /\ DOMAIN air' = 1 .. Len(air) + Len(w)
        /\ \A i \in 1 .. Len(air) : air'[i] = air[i]
        /\ \A i \in Len(air) + 1 .. Len(air) + Len(w) :
              i - Len(air) \in 1 .. Len(w) /\ air'[i] = w[i - Len(air)]
    BY <1>2, <1>3, ConcatFacts
  <2>2. DOMAIN air = 1 .. Len(air) /\ DOMAIN w = 1 .. Len(w)
    BY <1>2, <1>3
  <2> TAKE i \in DOMAIN air'
  <2>3. CASE i <= Len(air)
    BY <2>1, <2>2, <2>3
  <2>4. CASE i > Len(air)
    <3>1. i - Len(air) \in DOMAIN w /\ air'[i] = w[i - Len(air)]
      BY <2>1, <2>2, <2>4
    <3>2. air'[i][1] = "message"
      BY <1>2, <3>1
    <3> QED BY <3>2
  <2> QED BY <2>1, <2>3, <2>4
<1>5. \A i \in DOMAIN air : i \in DOMAIN air' /\ air'[i] = air[i]
  BY <1>2, <1>3, ConcatFacts
<1>6. Starts(uplink_buffer)' = Starts(uplink_buffer) /\ Starts(fifo)' = Starts(fifo)
  BY <1>1 DEF Starts
<1>7. Handled' = Handled
  BY <1>1, <1>4, <1>5 DEF Handled
<1>8. LastStarted' = LastStarted /\ Waiting' = Waiting
  BY <1>1, <1>6 DEF LastStarted, Waiting
<1>9. HandledOnceInOrder'
  BY <1>1, <1>4 DEF LinkInv, HandledOnceInOrder
<1>10. UplinkInOrder'
  BY <1>1, <1>6, <1>7, <1>8 DEF LinkInv, UplinkInOrder
<1>11. QuietUntilOperational'
  <2>1. runlevel_ = OPERATIONAL
    BY <1>1 DEF LinkInv, QuietUntilOperational
  <2> QED BY <1>1, <1>6, <2>1 DEF LinkInv, QuietUntilOperational
<1> QED BY <1>9, <1>10, <1>11

\* All other steps leave the uplink messages alone.
LEMMA OrderOther ==
    ASSUME LinkInv,
           \/ Tick \/ RadioEnd \/ RadioSent \/ Transmit \/ Start \/ Stamp \/ ReadAll
           \/ Continue \/ Fetch \/ Buffer \/ Subtract \/ NoRoom \/ UNCHANGED vars
    PROVE  HandledOnceInOrder' /\ UplinkInOrder' /\ QuietUntilOperational'
<1>1. UNCHANGED <<runlevel_, commands, air, uplink_buffer, fifo, kind, arriving>>
  BY DEF Tick, RadioEnd, RadioSent, Transmit, Start, Stamp, ReadAll, Continue, Fetch,
         Buffer, Subtract, NoRoom, vars, radio, history
<1>2. pc' = "empty" <=> pc = "empty"
  <2>1. CASE Start
    <3>1. pc' \in AtEntry /\ pc = "kernel"
      BY <2>1, TailFacts DEF Start, LinkInv, TypeOK, KernelTypeOK
    <3> QED BY <3>1 DEF AtEntry
  <2>2. CASE Tick \/ RadioEnd \/ RadioSent \/ Transmit \/ UNCHANGED vars
    BY <2>2 DEF Tick, RadioEnd, RadioSent, Transmit, vars, kernel
  <2>3. CASE Stamp \/ ReadAll \/ Continue \/ Fetch \/ Buffer \/ Subtract \/ NoRoom
    BY <2>3 DEF Stamp, Return, ReadAll, Continue, Fetch, Buffer, Subtract, NoRoom
  <2> QED BY <2>1, <2>2, <2>3
<1>3. runlevel_ # OPERATIONAL => UNCHANGED <<tasks, pc, aux>>
  <2> SUFFICES ASSUME runlevel_ # OPERATIONAL PROVE UNCHANGED <<tasks, pc, aux>>
    OBVIOUS
  <2>1. tasks = <<>> /\ pc = "kernel" /\ aux = "high"
    BY DEF LinkInv, QuietUntilOperational
  <2>2. RadioSent \/ Transmit \/ UNCHANGED vars
    BY <2>1 DEF Tick, RadioEnd, Start, Stamp, ReadAll, Continue, Fetch, Buffer, Subtract,
                NoRoom
  <2> QED BY <2>2 DEF RadioSent, Transmit, vars, kernel, radio
<1>4. /\ Starts(uplink_buffer)' = Starts(uplink_buffer) /\ Starts(fifo)' = Starts(fifo)
      /\ Handled' = Handled
  BY <1>1 DEF Starts, Handled
<1>5. QuietUntilOperational'
  BY <1>1, <1>3, <1>4 DEF LinkInv, QuietUntilOperational
<1> QED BY <1>1, <1>2, <1>5, OrderUntouched
-----------------------------------------------------------------------------
(* The pieces of the downlink messages.                                    *)

\* Where an item is in a sequence; Written counts these places.
Places(s, e) == {i \in DOMAIN s : s[i] = e}

LEMMA PlacesFinite ==
    ASSUME NEW S, NEW s \in Seq(S), NEW e
    PROVE  /\ IsFiniteSet(Places(s, e)) /\ Cardinality(Places(s, e)) \in Nat
           /\ Places(s, e) \subseteq 1 .. Len(s) /\ Len(s) \in Nat
<1>1. Len(s) \in Nat /\ Places(s, e) \subseteq 1 .. Len(s)
  BY DEF Places
<1>2. IsFiniteSet(1 .. Len(s))
  BY <1>1, FS_Interval
<1> QED BY <1>1, <1>2, FS_Subset, FS_CardinalityType

\* A sequence of copies of one item.
Copies(w, d) == \A i \in 1 .. Len(w) : w[i] = d

\* Several copies of one item at the end of a sequence: so many places more.
LEMMA PlacesOfCopies ==
    ASSUME NEW S, NEW s \in Seq(S), NEW w \in Seq(S), NEW d, NEW e,
           Copies(w, d)
    PROVE  /\ e = d => Cardinality(Places(s \o w, e)) = Cardinality(Places(s, e)) + Len(w)
           /\ e # d => Cardinality(Places(s \o w, e)) = Cardinality(Places(s, e))
<1> DEFINE u == s \o w
           count == Len(w)
           new == Len(s) + 1 .. Len(s) + count
<1>1. count \in Nat
  OBVIOUS
<1>2. /\ Len(s) \in Nat
      /\ DOMAIN u = 1 .. Len(s) + count
      /\ \A i \in 1 .. Len(s) : u[i] = s[i]
      /\ \A i \in new : u[i] = d
  <2>1. /\ Len(s) \in Nat
        /\ DOMAIN u = 1 .. Len(s) + Len(w)
        /\ \A i \in 1 .. Len(s) : u[i] = s[i]
        /\ \A i \in Len(s) + 1 .. Len(s) + Len(w) :
              i - Len(s) \in 1 .. Len(w) /\ u[i] = w[i - Len(s)]
    BY <1>1, ConcatFacts
  <2> QED BY <1>1, <2>1 DEF Copies
<1>3. DOMAIN s = 1 .. Len(s)
  OBVIOUS
<1>4. 1 .. Len(s) + count = 1 .. Len(s) \union new /\ 1 .. Len(s) \intersect new = {}
  BY <1>2
<1> HIDE DEF u
<1>5. Places(u, e) = Places(s, e) \union (IF e = d THEN new ELSE {})
  BY <1>2, <1>3, <1>4 DEF Places
<1>6. CASE e # d
  <2>1. Cardinality(Places(s, e)) \in Nat
    BY PlacesFinite
  <2>2. Places(u, e) = Places(s, e)
    BY <1>5, <1>6
  <2> QED BY <1>6, <2>1, <2>2 DEF u
<1>7. CASE e = d
  <2>1. /\ IsFiniteSet(Places(s, e)) /\ Cardinality(Places(s, e)) \in Nat
        /\ Places(s, e) \subseteq 1 .. Len(s)
    BY PlacesFinite
  <2>2. IsFiniteSet(new) /\ Cardinality(new) = count
    <3>1. /\ IsFiniteSet(new)
          /\ Cardinality(new) = IF Len(s) + 1 > Len(s) + count THEN 0
                                ELSE (Len(s) + count) - (Len(s) + 1) + 1
      <4>1. Len(s) + 1 \in Int /\ Len(s) + count \in Int
        BY <1>2
      <4> QED BY <4>1, FS_Interval
    <3> QED BY <1>2, <3>1
  <2>3. Places(s, e) \intersect new = {}
    BY <1>4, <2>1
  <2>4. Places(u, e) = Places(s, e) \union new
    BY <1>5, <1>7
  <2> HIDE DEF new
  <2>5. Cardinality(Places(s, e) \union new) = Cardinality(Places(s, e)) + Cardinality(new)
    <3>1. Cardinality(Places(s, e) \union new)
            = Cardinality(Places(s, e)) + Cardinality(new)
              - Cardinality(Places(s, e) \intersect new)
      BY <2>1, <2>2, FS_Union
    <3>2. Cardinality(Places(s, e) \intersect new) = 0
      BY <2>3, FS_EmptySet
    <3>3. Cardinality(Places(s, e)) \in Nat /\ Cardinality(new) \in Nat
      BY <1>1, <2>1, <2>2
    <3> QED BY <3>1, <3>2, <3>3
  <2>6. Cardinality(Places(u, e)) = Cardinality(Places(s, e)) + count
    BY <2>2, <2>4, <2>5
  <2> QED BY <1>7, <2>6 DEF u
<1> QED BY <1>6, <1>7

\* Another item at the end: no place more.
LEMMA PlacesOfOthers ==
    ASSUME NEW S, NEW s \in Seq(S), NEW d \in S, NEW e, e # d
    PROVE  Places(Append(s, d), e) = Places(s, e)
<1> DEFINE u == Append(s, d)
<1>1. /\ Len(s) \in Nat /\ DOMAIN s = 1 .. Len(s) /\ DOMAIN u = 1 .. Len(s) + 1
      /\ \A i \in 1 .. Len(s) : u[i] = s[i]
      /\ u[Len(s) + 1] = d
  BY AppendFacts
<1>2. 1 .. Len(s) + 1 = 1 .. Len(s) \union {Len(s) + 1}
  BY <1>1
<1> HIDE DEF u
<1>3. Places(u, e) = Places(s, e)
  BY <1>1, <1>2 DEF Places
<1> QED BY <1>3 DEF u

\* PiecesCounted in these terms.
LEMMA PiecesFacts ==
    ASSUME LinkInv, PiecesCounted
    PROVE  /\ air \in Seq({"ping", "message"} \X (1 .. Up + Down))
           /\ sent \in Seq(1 .. PartsDown) /\ Len(sent) \in Nat
           /\ DOMAIN sent = 1 .. Len(sent)
           /\ \A m \in DOMAIN sent : sent[m] \in 1 .. PartsDown
           /\ message_num_chars_pending \in Nat /\ transmit_count \in Nat
           /\ \A m \in Nat : Cardinality(Places(air, <<"message", m>>)) \in Nat
           /\ \A m \in DOMAIN sent :
                Cardinality(Places(air, <<"message", m>>)) =
                    sent[m] - (IF m = Len(sent)
                               THEN message_num_chars_pending - transmit_count ELSE 0)
           /\ pc \in {"fetch", "buffer"} => message_num_chars_pending = 0
           /\ \A i \in DOMAIN air : air[i][1] = "message" => air[i][2] \in DOMAIN sent
<1> USE Constants
<1>1. /\ air \in Seq({"ping", "message"} \X (1 .. Up + Down))
      /\ sent \in Seq(1 .. PartsDown)
      /\ message_num_chars_pending \in Nat /\ transmit_count \in Nat
  BY DEF LinkInv, TypeOK, RadioTypeOK, DownlinkTypeOK
<1>2. Len(sent) \in Nat /\ DOMAIN sent = 1 .. Len(sent)
  BY <1>1
<1>3. \A m \in DOMAIN sent : sent[m] \in 1 .. PartsDown
  BY <1>1, <1>2, ElementOfSeq
<1>4. \A m \in Nat : Cardinality(Places(air, <<"message", m>>)) \in Nat
  BY <1>1, PlacesFinite
<1> QED BY <1>1, <1>2, <1>3, <1>4
        DEF PiecesCounted, FetchedWrittenWhole, Written, Places, Current

\* What is written and what is pending change only in Process, Buffer, Write and Subtract.
LEMMA PiecesOther ==
    ASSUME LinkInv, PiecesCounted, [Next]_vars, ~(Process \/ Buffer \/ Write \/ Subtract)
    PROVE  PiecesCounted'
<1>1. UNCHANGED <<air, sent, message_num_chars_pending, transmit_count>>
  <2>1. CASE Setup \/ Tick \/ Radio \/ Transmit \/ UNCHANGED vars
    BY <2>1 DEF Setup, SetupPort, Configure, ConfigureFails, Tick, Radio, RadioBegin,
                RadioDeliver, RadioEnd, RadioSent, Transmit, vars, counts, history
  <2>2. CASE Start \/ Stamp \/ ReadPart \/ ReadAll \/ Empty \/ Continue \/ Fetch \/ NoRoom
    BY <2>2 DEF Start, Stamp, ReadPart, ReadAll, Empty, Continue, Fetch, NoRoom, counts,
                history
  <2> QED BY <2>1, <2>2 DEF Next, Loop
<1>2. pc' \in {"fetch", "buffer"} => message_num_chars_pending = 0
  <2>1. CASE UNCHANGED pc
    BY <2>1, PiecesFacts
  <2>2. CASE Continue
    <3>1. pc' = "fetch" => ~(message_num_chars_pending > 0)
      BY <2>2 DEF Continue
    <3>2. pc' # "buffer"
      BY <2>2 DEF Continue
    <3> QED BY <3>1, <3>2, PiecesFacts
  <2>3. CASE Fetch
    BY <2>3, PiecesFacts DEF Fetch
  <2>4. CASE Start
    <3>1. pc' \in AtEntry
      BY <2>4, TailFacts DEF Start, LinkInv, TypeOK, KernelTypeOK
    <3> QED BY <3>1 DEF AtEntry
  <2>5. CASE Stamp \/ ReadPart \/ ReadAll \/ Empty \/ NoRoom
    BY <2>5 DEF Stamp, Return, ReadPart, ReadAll, Empty, NoRoom
  <2>6. CASE Setup \/ Tick \/ Radio \/ Transmit \/ UNCHANGED vars
    <3>1. UNCHANGED pc
      BY <2>6 DEF Setup, SetupPort, Configure, ConfigureFails, Tick, Radio, RadioBegin,
                  RadioDeliver, RadioEnd, RadioSent, Transmit, vars, kernel
    <3> QED BY <2>1, <3>1
  <2> QED BY <2>2, <2>3, <2>4, <2>5, <2>6 DEF Next, Loop
<1> QED BY <1>1, <1>2 DEF PiecesCounted, FetchedWrittenWhole, Written, Current

\* The answer to a ping is no piece of a message.
LEMMA PiecesProcess ==
    ASSUME LinkInv, PiecesCounted, Process PROVE PiecesCounted'
<1> DEFINE Items == {"ping", "message"} \X (1 .. Up + Down)
<1>1. /\ UNCHANGED <<sent, message_num_chars_pending, transmit_count>> /\ pc' = "empty"
      /\ \/ air' = air
         \/ /\ Complete(uplink_buffer) /\ pc = "process_message"
            /\ air' = Append(air, <<"ping", First>>)
  BY DEF Process, counts
<1>2. CASE air' = air
  BY <1>1, <1>2 DEF PiecesCounted, FetchedWrittenWhole, Written, Current
<1>3. CASE /\ Complete(uplink_buffer) /\ pc = "process_message"
           /\ air' = Append(air, <<"ping", First>>)
  <2> DEFINE d == <<"ping", First>>
  <2>1. d \in Items /\ d[1] = "ping" /\ \A m : <<"message", m>> # d
    BY <1>3, FirstFacts, Constants
  <2>2. air' = Append(air, d) /\ air \in Seq(Items)
    BY <1>3, PiecesFacts
  <2> HIDE DEF d, Items
  <2>3. \A m \in DOMAIN sent' : Places(air', <<"message", m>>) = Places(air, <<"message", m>>)
    BY <2>1, <2>2, PlacesOfOthers
  <2>4. /\ DOMAIN air = 1 .. Len(air) /\ DOMAIN air' = 1 .. Len(air) + 1 /\ Len(air) \in Nat
        /\ \A i \in 1 .. Len(air) : air'[i] = air[i]
        /\ air'[Len(air) + 1] = d
    BY <2>1, <2>2, AppendFacts
  <2>5. ASSUME NEW i \in DOMAIN air', air'[i][1] = "message" PROVE air'[i][2] \in DOMAIN sent'
    <3>1. i # Len(air) + 1
      BY <2>1, <2>4, <2>5
    <3>2. i \in DOMAIN air /\ air'[i] = air[i]
      BY <2>4, <3>1
    <3> QED BY <1>1, <2>5, <3>2, PiecesFacts
  <2>6. FetchedWrittenWhole'
    <3> SUFFICES ASSUME NEW m \in DOMAIN sent'
                 PROVE  Cardinality(Places(air', <<"message", m>>)) =
                            sent'[m] - (IF m = Len(sent')
                                THEN message_num_chars_pending' - transmit_count' ELSE 0)
      BY DEF FetchedWrittenWhole, Written, Current, Places
    <3>1. m \in DOMAIN sent /\ Places(air', <<"message", m>>) = Places(air, <<"message", m>>)
      BY <1>1, <2>3
    <3>2. Cardinality(Places(air, <<"message", m>>)) =
              sent[m] - (IF m = Len(sent)
                         THEN message_num_chars_pending - transmit_count ELSE 0)
      BY <3>1, PiecesFacts
    <3> QED BY <1>1, <3>1, <3>2
  <2> QED BY <1>1, <2>5, <2>6 DEF PiecesCounted
<1> QED BY <1>1, <1>2, <1>3

\* A new message is begun when the one before is written, and nothing of it is.
LEMMA PiecesBuffer ==
    ASSUME LinkInv, PiecesCounted, Buffer PROVE PiecesCounted'
<1>1. PICK pieces \in 1 .. PartsDown :
         message_num_chars_pending' = pieces /\ sent' = Append(sent, pieces)
  BY DEF Buffer
<1>2. /\ UNCHANGED <<air, transmit_count>> /\ pc = "buffer" /\ pc' = "write"
      /\ transmit_count = 0 /\ message_num_chars_pending = 0
  <2>1. /\ UNCHANGED <<air, transmit_count>> /\ pc = "buffer" /\ pc' = "write"
    BY DEF Buffer
  <2>2. transmit_count > 0 => pc = "subtract"
    BY DEF LinkInv, DownlinkCounted
  <2>3. transmit_count \in Nat /\ (pc = "buffer" => message_num_chars_pending = 0)
    BY PiecesFacts
  <2> QED BY <2>1, <2>2, <2>3
<1>3. /\ Len(sent) \in Nat /\ DOMAIN sent = 1 .. Len(sent)
      /\ Len(sent') = Len(sent) + 1 /\ DOMAIN sent' = 1 .. Len(sent) + 1
      /\ \A m \in 1 .. Len(sent) : sent'[m] = sent[m]
      /\ sent'[Len(sent) + 1] = pieces
      /\ pieces \in Nat
  <2>1. sent \in Seq(1 .. PartsDown)
    BY PiecesFacts
  <2> QED BY <1>1, <2>1, AppendFacts, Constants
<1>4. \A i \in DOMAIN air : air[i][1] = "message" => air[i][2] \in 1 .. Len(sent)
  BY <1>3, PiecesFacts
<1>5. ASSUME NEW m \in DOMAIN sent'
      PROVE  Cardinality(Places(air, <<"message", m>>)) =
                 sent'[m] - (IF m = Len(sent')
                             THEN message_num_chars_pending' - transmit_count' ELSE 0)
  <2>1. CASE m = Len(sent) + 1
    <3>1. Places(air, <<"message", m>>) = {}
      <4> SUFFICES ASSUME NEW i \in DOMAIN air, air[i] = <<"message", m>> PROVE FALSE
        BY DEF Places
      <4>1. m \in 1 .. Len(sent)
        BY <1>4
      <4> QED BY <1>3, <2>1, <4>1
    <3>2. Cardinality(Places(air, <<"message", m>>)) = 0
      BY <3>1, FS_EmptySet
    <3>3. m = Len(sent') /\ sent'[m] = pieces
      BY <1>3, <2>1
    <3> QED BY <1>1, <1>2, <1>3, <3>2, <3>3
  <2>2. CASE m \in 1 .. Len(sent)
    <3>1. m # Len(sent') /\ sent'[m] = sent[m] /\ sent[m] \in Nat
      <4>1. \A k \in DOMAIN sent : sent[k] \in 1 .. PartsDown
        BY PiecesFacts
      <4> QED BY <1>3, <2>2, <4>1, Constants
    <3>2. Cardinality(Places(air, <<"message", m>>)) =
              sent[m] - (IF m = Len(sent)
                         THEN message_num_chars_pending - transmit_count ELSE 0)
      BY <1>3, <2>2, PiecesFacts
    <3> QED BY <1>2, <3>1, <3>2
  <2> QED BY <1>3, <2>1, <2>2
<1>6. FetchedWrittenWhole'
  BY <1>2, <1>5 DEF FetchedWrittenWhole, Written, Current, Places
<1>7. \A i \in DOMAIN air' : air'[i][1] = "message" => air'[i][2] \in DOMAIN sent'
  BY <1>2, <1>3, <1>4
<1> QED BY <1>2, <1>6, <1>7 DEF PiecesCounted

\* What is written is of the message begun last, and no longer to be written.
LEMMA PiecesWrite ==
    ASSUME LinkInv, PiecesCounted, Write PROVE PiecesCounted'
<1> DEFINE Items == {"ping", "message"} \X (1 .. Up + Down)
           d == <<"message", Len(sent)>>
<1>1. PICK count \in 1 .. message_num_chars_pending :
         /\ transmit_count' = count
         /\ air' = air \o [i \in 1 .. count |-> d]
  BY DEF Write, WritePieces, Current
<1>2. /\ UNCHANGED <<sent, message_num_chars_pending>> /\ pc = "write" /\ pc' = "subtract"
  BY DEF Write, WritePieces
<1>3. /\ air \in Seq(Items) /\ Len(sent) \in Nat /\ DOMAIN sent = 1 .. Len(sent)
      /\ message_num_chars_pending \in Nat /\ count \in Nat
      /\ \A m \in DOMAIN sent : sent[m] \in Nat
  <2>1. /\ air \in Seq(Items) /\ Len(sent) \in Nat /\ DOMAIN sent = 1 .. Len(sent)
        /\ message_num_chars_pending \in Nat
        /\ \A m \in DOMAIN sent : sent[m] \in 1 .. PartsDown
    BY PiecesFacts
  <2> QED BY <2>1, Constants
<1>4. transmit_count = 0
  <2>1. transmit_count > 0 => pc = "subtract"
    BY DEF LinkInv, DownlinkCounted
  <2>2. transmit_count \in Nat
    BY PiecesFacts
  <2> QED BY <1>2, <2>1, <2>2
<1>5. Len(sent) \in 1 .. Up + Down /\ d \in Items
  <2>1. message_num_chars_pending > 0 => Len(sent) > 0
    BY DEF LinkInv, DownlinkCounted
  <2>2. /\ Len(sent) + Len(downlink) + (IF pc = "buffer" THEN 1 ELSE 0) = queued
        /\ Len(downlink) \in Nat /\ queued \in 0 .. Down
    BY DEF LinkInv, DownlinkCounted, TypeOK, DownlinkTypeOK
  <2>3. Len(sent) \in 1 .. Up + Down
    BY <1>1, <1>2, <1>3, <2>1, <2>2, Constants
  <2> QED BY <2>3
<1>6. PICK w \in Seq(Items) :
         Len(w) = count /\ (\A i \in 1 .. Len(w) : w[i] = d) /\ air' = air \o w
  <2> DEFINE copies == [i \in 1 .. count |-> d]
  <2>1. copies \in Seq(Items) /\ Len(copies) = count
    BY <1>3, <1>5, FunctionIsSeq
  <2>2. \A i \in 1 .. Len(copies) : copies[i] = d
    BY <2>1
  <2> QED BY <1>1, <2>1, <2>2
<1>7. \A m \in DOMAIN sent : m # Len(sent) => <<"message", m>> # d
  OBVIOUS
<1>8. d[1] = "message" /\ d[2] = Len(sent)
  OBVIOUS
<1>9. \A e : Cardinality(Places(air', e)) =
                 Cardinality(Places(air, e)) + (IF e = d THEN count ELSE 0)
  <2> HIDE DEF Items, d
  <2> SUFFICES ASSUME NEW e
               PROVE  Cardinality(Places(air', e)) =
                          Cardinality(Places(air, e)) + (IF e = d THEN count ELSE 0)
    OBVIOUS
  <2>1. /\ e = d => Cardinality(Places(air \o w, e)) = Cardinality(Places(air, e)) + Len(w)
        /\ e # d => Cardinality(Places(air \o w, e)) = Cardinality(Places(air, e))
    <3>1. air \in Seq(Items) /\ w \in Seq(Items)
      BY <1>3, <1>6
    <3>2. Copies(w, d)
      BY <1>6 DEF Copies
    <3> QED BY ONLY <3>1, <3>2, PlacesOfCopies
  <2>2. Cardinality(Places(air, e)) \in Nat
    BY <1>3, PlacesFinite
  <2> QED BY <1>6, <2>1, <2>2
<1>10. ASSUME NEW m \in DOMAIN sent'
       PROVE  Cardinality(Places(air', <<"message", m>>)) =
                  sent'[m] - (IF m = Len(sent')
                              THEN message_num_chars_pending' - transmit_count' ELSE 0)
  <2>1. Cardinality(Places(air, <<"message", m>>)) =
            sent[m] - (IF m = Len(sent)
                       THEN message_num_chars_pending - transmit_count ELSE 0)
    BY <1>2, PiecesFacts
  <2>2. m \in DOMAIN sent /\ sent' = sent /\ sent[m] \in Nat
        /\ message_num_chars_pending' = message_num_chars_pending
    BY <1>2, <1>3
  <2>3. CASE m = Len(sent)
    <3>1. Cardinality(Places(air', <<"message", m>>)) =
              Cardinality(Places(air, <<"message", m>>)) + count
      BY <1>9, <2>3
    <3>2. Cardinality(Places(air, <<"message", m>>)) = sent[m] - message_num_chars_pending
      BY <1>3, <1>4, <2>1, <2>3
    <3>3. sent[m] - message_num_chars_pending + count
             = sent[m] - (message_num_chars_pending - count)
      BY <1>3, <2>2
    <3> QED BY <1>1, <2>2, <2>3, <3>1, <3>2, <3>3
  <2>4. CASE m # Len(sent)
    <3>1. Cardinality(Places(air', <<"message", m>>)) =
              Cardinality(Places(air, <<"message", m>>)) + 0
      BY <1>7, <1>9, <2>2, <2>4
    <3> QED BY <2>1, <2>2, <2>4, <3>1
  <2> QED BY <2>3, <2>4
<1>11. \A i \in DOMAIN air' : air'[i][1] = "message" => air'[i][2] \in DOMAIN sent'
  <2> HIDE DEF Items, d
  <2>1. /\ Len(air) \in Nat /\ DOMAIN air = 1 .. Len(air)
        /\ DOMAIN air' = 1 .. Len(air) + Len(w)
        /\ \A i \in 1 .. Len(air) : air'[i] = air[i]
        /\ \A i \in Len(air) + 1 .. Len(air) + Len(w) :
              i - Len(air) \in 1 .. Len(w) /\ air'[i] = w[i - Len(air)]
    <3>1. air' = air \o w
      BY <1>6
    <3>2. /\ Len(air) \in Nat
          /\ DOMAIN (air \o w) = 1 .. Len(air) + Len(w)
          /\ \A i \in 1 .. Len(air) : (air \o w)[i] = air[i]
          /\ \A i \in Len(air) + 1 .. Len(air) + Len(w) :
                i - Len(air) \in 1 .. Len(w) /\ (air \o w)[i] = w[i - Len(air)]
      BY <1>3, <1>6, ConcatFacts
    <3>3. DOMAIN air = 1 .. Len(air)
      BY <1>3
    <3> QED BY <3>1, <3>2, <3>3
  <2> TAKE i \in DOMAIN air'
  <2>2. CASE i \in 1 .. Len(air)
    <3>1. air[i][1] = "message" => air[i][2] \in DOMAIN sent
      BY <2>1, <2>2, PiecesFacts
    <3> QED BY <1>2, <2>1, <2>2, <3>1
  <2>3. CASE i \in Len(air) + 1 .. Len(air) + Len(w)
    <3>1. air'[i] = d
      BY <1>6, <2>1, <2>3
    <3>2. Len(sent) \in DOMAIN sent
      BY <1>3, <1>5, Constants
    <3> QED BY <1>2, <1>8, <3>1, <3>2
  <2>4. i \in 1 .. Len(air) \/ i \in Len(air) + 1 .. Len(air) + Len(w)
    BY <1>3, <1>6, <2>1
  <2> QED BY <2>2, <2>3, <2>4
<1>12. FetchedWrittenWhole'
  <2> HIDE DEF d
  <2> QED BY <1>10 DEF FetchedWrittenWhole, Written, Current, Places
<1> QED BY <1>2, <1>11, <1>12 DEF PiecesCounted

\* What was written is subtracted from what is pending.
LEMMA PiecesSubtract ==
    ASSUME LinkInv, PiecesCounted, Subtract PROVE PiecesCounted'
<1>1. /\ UNCHANGED <<air, sent>> /\ pc' = "stamp" /\ transmit_count' = 0
      /\ message_num_chars_pending' = message_num_chars_pending - transmit_count
  BY DEF Subtract, history
<1>2. message_num_chars_pending' - transmit_count' = message_num_chars_pending - transmit_count
  BY <1>1, PiecesFacts
<1> QED BY <1>1, <1>2 DEF PiecesCounted, FetchedWrittenWhole, Written, Current
-----------------------------------------------------------------------------
\* ModemInv holds at first, and every step keeps it.
LEMMA InitModemInv == Init => ModemInv
<1> SUFFICES ASSUME Init PROVE ModemInv
  OBVIOUS
<1>1. LinkInv
  BY InitInv
<1>2. DOMAIN sent = {} /\ DOMAIN air = {} /\ pc = "kernel"
  BY EmptyFacts DEF Init
<1> QED BY <1>1, <1>2 DEF ModemInv, PiecesCounted, FetchedWrittenWhole

LEMMA StepInv == ASSUME ModemInv, [Next]_vars PROVE ModemInv'
<1> USE DEF ModemInv
<1>1. TypeOK' /\ DownlinkCounted'
  BY KernelTypes, RadioTypes, UplinkTypes, DownlinkInv DEF TypeOK
<1>2. HandledOnceInOrder' /\ UplinkInOrder' /\ QuietUntilOperational'
  BY OrderSetup, OrderBegin, OrderDeliver, OrderRead, OrderProcess, OrderEmpty, OrderWrite,
     OrderOther DEF Next, Radio, Loop
<1>3. PiecesCounted'
  BY PiecesOther, PiecesProcess, PiecesBuffer, PiecesWrite, PiecesSubtract
<1> QED BY <1>1, <1>2, <1>3 DEF LinkInv

\* The modem (modem.cpp) always satisfies its inductive invariant: the types, the
\* order of the uplink messages on their way from the radio to process_message,
\* that each downlink message is in the queue, just fetched, or begun, and how much
\* of it was written.
THEOREM ModemInvariant == Spec => []ModemInv
<1>1. Init => ModemInv
  BY InitModemInv
<1>2. ModemInv /\ [Next]_vars => ModemInv'
  BY StepInv
<1> QED BY <1>1, <1>2, PTL DEF Spec

\* However often process_message (modem.cpp:200-237) is scheduled for one message,
\* and whatever arrives meanwhile, no command is passed on twice, no ping is
\* answered twice, and both happen in the order of the ground's messages.
THEOREM HandledOnce == Spec => []HandledOnceInOrder
<1>1. ModemInv => HandledOnceInOrder
  BY DEF ModemInv, LinkInv
<1> QED BY <1>1, ModemInvariant, PTL

\* However often send_message (modem.cpp:242-278) is scheduled, and however little room
\* Serial1 has, no message is begun before the one before it is written, and of each as
\* many pieces are written as it has.
THEOREM WrittenWhole == Spec => []FetchedWrittenWhole
<1>1. ModemInv => FetchedWrittenWhole
  BY DEF ModemInv, PiecesCounted
<1> QED BY <1>1, ModemInvariant, PTL
-----------------------------------------------------------------------------
(* Whole messages.  The tasks run in the order in which they were asked    *)
(* for.  So it is enough that the ground keeps silent until the last       *)
(* receive task of a message is done and the first process_message of it   *)
(* is asked for: whatever arrives then is received behind it.              *)

\* The silence that takes: to ask for receive although ticks are dropped, to run it
\* as late as the kernel loop may, and to wait for the end of the message.  With
\* messages to be sent down, every send_message starts this wait again.
EnoughSilence ==
    /\ Down = 0
    /\ GroundPause > EndOfMessage + MaxLag + MaxDrops + 1
-----------------------------------------------------------------------------
\* The tasks of the uplink that wait or run.
Receiving   == pc \in {"receive", "read"} \/ In("receive", tasks)
Processing  == pc \in {"process_message", "empty"} \/ In("process_message", tasks)
ProcessNext == tasks # <<>> /\ tasks[1] = "process_message"

OnlyUplinkTasks ==
    /\ pc \in {"kernel", "receive", "read", "process_message", "empty", "stamp"}
    /\ ~In("send_message", tasks)

\* The buffer holds one whole message or none.
Ready ==
    uplink_buffer = <<>> \/ (Complete(uplink_buffer) /\ Len(uplink_buffer) = ChunksUp)

\* The FIFO holds what has arrived of the last message, behind its first k parts.
FifoFrom(k) ==
    /\ Len(fifo) = ChunksUp - arriving - k
    /\ \A i \in DOMAIN fifo : fifo[i] = <<Len(kind), k + i>>

\* The last message is being received; or the buffer still holds the one before it,
\* which the next task processes; or it has been processed.
Fresh ==
    /\ \A i \in DOMAIN uplink_buffer : uplink_buffer[i] = <<Len(kind), i>>
    /\ FifoFrom(Len(uplink_buffer))

Old ==
    /\ uplink_buffer # <<>> /\ Ready /\ FifoFrom(0)
    /\ pc \notin {"receive", "read"}
    /\ pc \in {"process_message", "empty"} \/ ProcessNext

Done == uplink_buffer = <<>> /\ fifo = <<>> /\ arriving = 0

Contents == runlevel_ = OPERATIONAL => Fresh \/ Old \/ Done

Arrival == (aux = "falling" => arriving = ChunksUp) /\ (aux = "high" => arriving = 0)

ReadyInTime ==
    /\ pc \in {"process_message", "empty"} => Ready
    /\ ProcessNext /\ pc \notin {"receive", "read"} => Ready

\* While a message arrives, what receives it waits behind what processes the one before.
NewBehindOld ==
    aux # "high" =>
        /\ pc \in {"receive", "read"} => ~In("process_message", tasks)
        /\ AllBehind("receive", "process_message", tasks)

\* What is to be done with a message is done before it has been quiet for too long.
Measured == IF elapsed < EndOfMessage THEN elapsed ELSE EndOfMessage

Deadlines ==
    /\ aux = "low" => quiet = 0
    /\ aux = "high" /\ fifo # <<>> /\ ~Receiving => quiet <= drops
    /\ aux = "high" /\ Receiving => quiet <= drops + lag + 1
    /\ /\ runlevel_ = OPERATIONAL /\ aux = "high"
       /\ uplink_buffer # <<>> /\ fifo = <<>> /\ ~Receiving /\ ~Processing
       => IF pc = "stamp" THEN quiet <= drops + lag + 1
          ELSE quiet <= drops + MaxLag + 1 + Measured

WholeInv ==
    /\ OnlyUplinkTasks /\ Contents /\ Arrival /\ ReadyInTime /\ NewBehindOld /\ Deadlines

\* The types, one by one.
LEMMA WholeTypes ==
    ASSUME LinkInv
    PROVE  /\ uplink_buffer \in Seq(UpParts) /\ Len(uplink_buffer) \in Nat
           /\ DOMAIN uplink_buffer = 1 .. Len(uplink_buffer)
           /\ fifo \in Seq(UpParts) /\ Len(fifo) \in Nat /\ DOMAIN fifo = 1 .. Len(fifo)
           /\ tasks \in Seq(AtEntry) /\ Len(kind) \in Nat
           /\ lag \in Nat /\ lag <= MaxLag /\ drops \in Nat /\ drops <= MaxDrops
           /\ quiet \in Nat /\ elapsed \in Nat /\ arriving \in 0 .. ChunksUp
           /\ aux \in {"high", "falling", "low"}
<1>1. TypeOK
  BY DEF LinkInv
<1>2. /\ uplink_buffer \in Seq(UpParts) /\ fifo \in Seq(UpParts) /\ tasks \in Seq(AtEntry)
      /\ kind \in Seq(Kinds)
      /\ lag \in 0 .. MaxLag /\ drops \in 0 .. MaxDrops /\ quiet \in 0 .. GroundPause
      /\ elapsed \in 0 .. Pause + 1 /\ arriving \in 0 .. ChunksUp
      /\ aux \in {"high", "falling", "low"}
  BY <1>1 DEF TypeOK, KernelTypeOK, RadioTypeOK, UplinkTypeOK
<1> QED BY <1>2, Constants

\* A message of which every part has been read is whole.
LEMMA FreshReady ==
    ASSUME LinkInv, Fresh, Len(uplink_buffer) = ChunksUp
    PROVE  Ready
<1>1. /\ ChunksUp \in Nat \ {0} /\ DOMAIN uplink_buffer = 1 .. ChunksUp
      /\ \A i \in 1 .. ChunksUp : uplink_buffer[i] = <<Len(kind), i>>
  BY WholeTypes, Constants DEF Fresh
<1>2. uplink_buffer[1][1] = Len(kind)
  BY <1>1
<1> QED BY <1>1, <1>2 DEF Ready, Complete

LEMMA QuietReady ==
    ASSUME LinkInv, Contents, runlevel_ = OPERATIONAL, fifo = <<>>, arriving = 0
    PROVE  Ready
<1>1. CASE Fresh
  <2>1. Len(uplink_buffer) \in Nat /\ ChunksUp \in Nat /\ Len(fifo) = 0
    BY WholeTypes, Constants
  <2>2. Len(uplink_buffer) = ChunksUp
    BY <1>1, <2>1 DEF Fresh, FifoFrom
  <2> QED BY <1>1, <2>2, FreshReady
<1>2. CASE Old \/ Done
  BY <1>2 DEF Old, Done, Ready
<1> QED BY <1>1, <1>2 DEF Contents

\* What a tick asks for if nothing is to be sent down.
LEMMA RequestsFacts ==
    ASSUME downlink = <<>>, message_num_chars_pending = 0
    PROVE  /\ Requests \in Seq(AtEntry)
           /\ In("receive", Requests) <=> fifo # <<>>
           /\ In("process_message", Requests) <=>
                 uplink_buffer # <<>> /\ Silence > EndOfMessage
           /\ ~In("send_message", Requests)
           /\ Requests # <<>> /\ Requests[1] = "process_message" => fifo = <<>>
<1> DEFINE r == IF fifo # <<>> THEN <<"receive">> ELSE <<>>
           p == IF uplink_buffer # <<>> /\ Silence > EndOfMessage
                THEN <<"process_message">> ELSE <<>>
<1>1. /\ r \in Seq(AtEntry) /\ p \in Seq(AtEntry)
      /\ \A t : In(t, r) <=> fifo # <<>> /\ t = "receive"
      /\ \A t : In(t, p) <=> (uplink_buffer # <<>> /\ Silence > EndOfMessage)
                             /\ t = "process_message"
  <2>1. /\ "receive" \in AtEntry /\ "process_message" \in AtEntry
    BY DEF AtEntry
  <2>2. \A t : /\ In(t, <<"receive">>) <=> t = "receive"
               /\ In(t, <<"process_message">>) <=> t = "process_message"
               /\ ~In(t, <<>>)
    BY DEF In
  <2>3. r \in Seq(AtEntry) /\ \A t : In(t, r) <=> fifo # <<>> /\ t = "receive"
    BY <2>1, <2>2
  <2>4. /\ p \in Seq(AtEntry)
        /\ \A t : In(t, p) <=> (uplink_buffer # <<>> /\ Silence > EndOfMessage)
                               /\ t = "process_message"
    BY <2>1, <2>2
  <2> QED BY <2>3, <2>4
<1>2. Requests = r \o p
  <2> DEFINE new == IF downlink # <<>> /\ Silence > Pause THEN <<"send_message">> ELSE <<>>
             more == IF message_num_chars_pending > 0 THEN <<"send_message">> ELSE <<>>
  <2>0. new = <<>> /\ more = <<>>
    OBVIOUS
  <2>1. Requests = ((r \o p) \o <<>>) \o <<>>
    <3>1. Requests = ((r \o p) \o new) \o more
      BY DEF Requests
    <3> HIDE DEF r, p, new, more
    <3> QED BY <2>0, <3>1
  <2>2. r \o p \in Seq(AtEntry)
    BY <1>1, ConcatFacts
  <2> HIDE DEF r, p
  <2>3. (r \o p) \o <<>> = r \o p
    BY <2>2, ConcatEmptySeq
  <2> QED BY <2>1, <2>3
<1>3. fifo # <<>> => r # <<>> /\ r[1] = "receive"
  OBVIOUS
<1> HIDE DEF r, p
<1>4. /\ r \o p \in Seq(AtEntry)
      /\ \A t : In(t, r \o p) <=> In(t, r) \/ In(t, p)
      /\ r # <<>> => (r \o p)[1] = r[1]
  BY <1>1, InConcat
<1> QED BY <1>1, <1>2, <1>3, <1>4

LEMMA NothingDown ==
    ASSUME LinkInv, EnoughSilence
    PROVE  downlink = <<>> /\ message_num_chars_pending = 0
<1>1. /\ Len(sent) \in Nat /\ Len(downlink) \in Nat /\ queued = 0
      /\ message_num_chars_pending \in Nat
  BY Constants DEF LinkInv, TypeOK, DownlinkTypeOK, EnoughSilence
<1>2. Len(sent) + Len(downlink) + (IF pc = "buffer" THEN 1 ELSE 0) = 0
  BY <1>1 DEF LinkInv, DownlinkCounted
<1>3. Len(sent) = 0 /\ Len(downlink) = 0
  BY <1>1, <1>2
<1>4. message_num_chars_pending = 0
  BY <1>1, <1>3 DEF LinkInv, DownlinkCounted
<1>5. downlink \in Seq(1 .. Down)
  BY DEF LinkInv, TypeOK, DownlinkTypeOK
<1> QED BY <1>3, <1>4, <1>5, EmptySeq

\* What the list holds after a tick: all the tasks it asks for, or, if they are dropped,
\* those from before.
LEMMA TickTasks ==
    ASSUME LinkInv, WholeInv, EnoughSilence, Tick
    PROVE  /\ ProcessNext' => \/ ProcessNext
                              \/ fifo = <<>> /\ uplink_buffer # <<>> /\ Silence > EndOfMessage
           /\ ProcessNext => ProcessNext'
           /\ \A t \in AtEntry : In(t, tasks)' => In(t, tasks) \/ In(t, Requests)
           /\ \A t \in AtEntry : In(t, tasks) => In(t, tasks)'
           /\ \/ /\ drops' = drops
                 /\ \A t \in AtEntry : In(t, Requests) => In(t, tasks)'
              \/ drops' = drops + 1
<1>1. downlink = <<>> /\ message_num_chars_pending = 0
  BY NothingDown
<1>2. /\ tasks \in Seq(AtEntry) /\ Requests \in Seq(AtEntry)
      /\ Requests # <<>> /\ Requests[1] = "process_message" =>
             fifo = <<>> /\ uplink_buffer # <<>> /\ Silence > EndOfMessage
  <2>1. /\ Requests \in Seq(AtEntry)
        /\ In("process_message", Requests) => uplink_buffer # <<>> /\ Silence > EndOfMessage
        /\ Requests # <<>> /\ Requests[1] = "process_message" => fifo = <<>>
    BY <1>1, RequestsFacts
  <2>2. Requests # <<>> => 1 \in DOMAIN Requests
    BY <2>1
  <2>3. tasks \in Seq(AtEntry)
    BY WholeTypes
  <2> QED BY <2>1, <2>2, <2>3 DEF In
<1>3. CASE tasks' = tasks \o Requests /\ drops' = drops
  <2> DEFINE r == Requests
  <2>1. r \in Seq(AtEntry)
    BY <1>2
  <2> HIDE DEF r
  <2>2. /\ \A t : In(t, tasks \o r) <=> In(t, tasks) \/ In(t, r)
        /\ tasks # <<>> => tasks \o r # <<>> /\ (tasks \o r)[1] = tasks[1]
        /\ tasks = <<>> => tasks \o r = r
    BY <1>2, <2>1, InConcat
  <2>3. \A t : In(t, tasks)' <=> In(t, tasks \o r)
    BY <1>3 DEF In, r
  <2>4. ProcessNext => ProcessNext'
    BY <1>3, <2>2 DEF ProcessNext, r
  <2>5. ProcessNext' => ProcessNext \/ (r # <<>> /\ r[1] = "process_message")
    BY <1>3, <2>2 DEF ProcessNext, r
  <2> QED BY <1>2, <1>3, <2>2, <2>3, <2>4, <2>5 DEF r
<1>4. CASE tasks' = tasks /\ drops' = drops + 1
  BY <1>4 DEF ProcessNext, In
<1> QED BY <1>3, <1>4 DEF Tick

LEMMA TickWhole ==
    ASSUME LinkInv, WholeInv, EnoughSilence, Tick
    PROVE  WholeInv'
<1> DEFINE all == {"receive", "process_message", "send_message"}
<1>1. /\ runlevel_ = OPERATIONAL /\ lag < MaxLag /\ elapsed' = Silence
      /\ UNCHANGED <<runlevel_, uplink_buffer, pc, fifo, arriving, kind>>
      /\ lag' = IF tasks = <<>> /\ pc = "kernel" THEN 0 ELSE lag + 1
      /\ aux' = IF aux = "falling" THEN "low" ELSE aux
      /\ quiet' = IF Busy THEN 0 ELSE IF quiet < GroundPause THEN quiet + 1 ELSE quiet
  BY DEF Tick, history
<1>2. /\ ProcessNext' => \/ ProcessNext
                         \/ fifo = <<>> /\ uplink_buffer # <<>> /\ Silence > EndOfMessage
      /\ ProcessNext => ProcessNext'
      /\ \A t \in AtEntry : In(t, tasks)' => In(t, tasks) \/ In(t, Requests)
      /\ \A t \in AtEntry : In(t, tasks) => In(t, tasks)'
      /\ \/ /\ drops' = drops
            /\ \A t \in AtEntry : In(t, Requests) => In(t, tasks)'
         \/ drops' = drops + 1
  BY TickTasks
<1>3. /\ lag \in Nat /\ lag <= MaxLag /\ drops \in Nat /\ drops <= MaxDrops
      /\ quiet \in Nat /\ elapsed \in Nat /\ arriving \in 0 .. ChunksUp
      /\ aux \in {"high", "falling", "low"}
  BY WholeTypes
<1>4. /\ In("receive", Requests) <=> fifo # <<>>
      /\ In("process_message", Requests) <=> uplink_buffer # <<>> /\ Silence > EndOfMessage
      /\ ~In("send_message", Requests)
      /\ tasks \in Seq(AtEntry) /\ Requests \in Seq(AtEntry)
  BY NothingDown, RequestsFacts, WholeTypes
<1>5. all \subseteq AtEntry
  BY DEF AtEntry
<1>6. Silence > 0 => aux = "high" /\ ~Busy
  BY DEF Silence, Busy
<1>7. OnlyUplinkTasks'
  BY <1>1, <1>2, <1>4, <1>5 DEF WholeInv, OnlyUplinkTasks
<1>8. Ready' = Ready /\ Fresh' = Fresh /\ Done' = Done /\ (Old => Old')
  BY <1>1, <1>2 DEF Ready, Fresh, Done, Old, FifoFrom, Complete
<1>9. Contents'
  BY <1>1, <1>8 DEF WholeInv, Contents
<1>10. Arrival'
  BY <1>1 DEF WholeInv, Arrival
<1>11. ReadyInTime'
  <2>1. ASSUME fifo = <<>>, Silence > EndOfMessage PROVE Ready
    <3>1. Silence > 0
      BY <1>3, <2>1, Constants DEF Silence
    <3>2. aux = "high" /\ arriving = 0
      BY <1>6, <3>1 DEF WholeInv, Arrival
    <3> QED BY <1>1, <2>1, <3>2, QuietReady DEF WholeInv
  <2> QED BY <1>1, <1>2, <1>8, <2>1 DEF WholeInv, ReadyInTime
<1>12. NewBehindOld'
  <2> SUFFICES ASSUME aux' # "high" PROVE NewBehindOld'
    BY DEF NewBehindOld
  <2>1. aux # "high" /\ Silence = 0 /\ EndOfMessage \in Nat
    BY <1>1, Constants DEF Silence, Busy
  <2>2. ~In("process_message", Requests)
    BY <1>4, <2>1
  <2>3. CASE tasks' = tasks
    BY <1>1, <2>1, <2>3 DEF WholeInv, NewBehindOld
  <2>4. CASE tasks' = tasks \o Requests
    <3>1. pc' \in {"receive", "read"} => ~In("process_message", tasks)'
      BY <1>1, <1>2, <1>5, <2>1, <2>2 DEF WholeInv, NewBehindOld
    <3>2. /\ AllBehind("receive", "process_message", tasks)
          /\ AllBehind("receive", "process_message", Requests)
      BY <2>1, <2>2 DEF WholeInv, NewBehindOld, AllBehind, In
    <3> DEFINE r == Requests
    <3> HIDE DEF r
    <3>3. AllBehind("receive", "process_message", tasks \o r)
      BY <1>4, <2>2, <3>2, BehindConcat DEF r
    <3> QED BY <2>4, <3>1, <3>3 DEF NewBehindOld, r
  <2> QED BY <2>3, <2>4 DEF Tick
<1>13. PICK q \in Nat, q1 \in Nat, d \in Nat, d1 \in Nat, l \in Nat, l1 \in Nat,
           max \in Nat, end \in Nat, pause \in Nat, m \in Nat, m1 \in Nat, now \in Nat :
        /\ q = quiet /\ q1 = quiet' /\ d = drops /\ d1 = drops' /\ l = lag /\ l1 = lag'
        /\ max = MaxLag /\ end = EndOfMessage /\ pause = Pause
        /\ m = Measured /\ m1 = Measured' /\ now = elapsed
  <2>1. /\ quiet' \in Nat /\ drops' \in Nat /\ lag' \in Nat /\ elapsed' \in Nat
        /\ MaxLag \in Nat /\ EndOfMessage \in Nat /\ Pause \in Nat
    BY <1>1, <1>2, <1>3, Constants DEF Silence
  <2>2. Measured \in Nat /\ Measured' \in Nat
    BY <1>3, <2>1 DEF Measured
  <2> QED BY <1>3, <2>1, <2>2
<1>14. q1 <= q + 1 /\ d <= d1 /\ end < pause
  <2>1. quiet' <= quiet + 1
    BY <1>1, <1>3
  <2>2. drops <= drops'
    BY <1>2, <1>3
  <2>3. EndOfMessage < Pause
    BY ModemAssumption
  <2> QED BY <1>13, <2>1, <2>2, <2>3
<1>15. Deadlines'
  <2>2. aux' = "low" => quiet' = 0
    BY <1>1 DEF Busy
  <2>3. aux' = "high" => aux = "high"
    BY <1>1
  <2>4. ASSUME aux' = "high", fifo' # <<>>, ~Receiving'
        PROVE  quiet' <= drops'
    <3>1. ~Receiving /\ fifo # <<>> /\ d1 = d + 1
      BY <1>1, <1>2, <1>4, <1>5, <1>13, <2>4 DEF Receiving
    <3>2. q <= d
      BY <1>13, <2>3, <2>4, <3>1 DEF WholeInv, Deadlines
    <3>3. q1 <= d1
      BY ONLY <1>14, <3>1, <3>2
    <3> QED BY <1>13, <3>3
  <2>5. ASSUME aux' = "high", Receiving'
        PROVE  quiet' <= drops' + lag' + 1
    <3>1. CASE Receiving
      <4>1. l1 = l + 1
        <5>1. tasks # <<>> \/ pc # "kernel"
          BY <3>1 DEF Receiving, In
        <5> QED BY <1>1, <1>13, <5>1
      <4>2. q <= d + l + 1
        BY <1>13, <2>3, <2>5, <3>1 DEF WholeInv, Deadlines
      <4>3. q1 <= d1 + l1 + 1
        BY ONLY <1>14, <4>1, <4>2
      <4> QED BY <1>13, <4>3
    <3>2. CASE ~Receiving
      <4>1. fifo # <<>>
        BY <1>1, <1>2, <1>4, <1>5, <2>5, <3>2 DEF Receiving
      <4>2. q <= d
        BY <1>13, <2>3, <2>5, <3>2, <4>1 DEF WholeInv, Deadlines
      <4>3. q1 <= d1 + l1 + 1
        BY ONLY <1>14, <4>2
      <4> QED BY <1>13, <4>3
    <3> QED BY <3>1, <3>2
  <2>6. ASSUME aux' = "high", uplink_buffer' # <<>>, fifo' = <<>>, ~Receiving', ~Processing'
        PROVE  /\ pc' = "stamp" => quiet' <= drops' + lag' + 1
               /\ pc' # "stamp" => quiet' <= drops' + MaxLag + 1 + Measured'
    <3>1. ~Receiving /\ ~Processing
      BY <1>1, <1>2, <1>5, <2>6 DEF Receiving, Processing
    <3>2. /\ pc = "stamp" => q <= d + l + 1
          /\ pc # "stamp" => q <= d + max + 1 + m
      BY <1>1, <1>13, <2>3, <2>6, <3>1 DEF WholeInv, Deadlines
    <3>3. pc' = pc
      BY <1>1
    <3>4. CASE pc = "stamp"
      <4>1. l1 = l + 1
        BY <1>1, <1>13, <3>4
      <4>2. q1 <= d1 + l1 + 1
        BY ONLY <1>14, <3>2, <3>4, <4>1
      <4> QED BY <1>13, <3>3, <3>4, <4>2
    <3>5. ASSUME pc # "stamp" PROVE q1 <= d1 + max + 1 + m1
      <4>1. CASE Busy
        <5>1. q1 = 0
          BY <1>1, <1>13, <4>1
        <5> QED BY ONLY <5>1
      <4>2. CASE ~Busy /\ now < end
        <5>1. Silence = now + 1
          <6>1. Silence = IF now > pause THEN now ELSE now + 1
            BY <1>13, <4>2 DEF Silence
          <6> QED BY ONLY <1>14, <4>2, <6>1
        <5>2. m = now /\ m1 = now + 1
          <6>1. m1 = IF now + 1 < end THEN now + 1 ELSE end
            BY <1>1, <1>13, <5>1 DEF Measured
          <6>2. m = now
            BY <1>13, <4>2 DEF Measured
          <6> QED BY ONLY <4>2, <6>1, <6>2
        <5> QED BY ONLY <1>14, <3>2, <3>5, <5>2
      <4>3. CASE ~Busy /\ ~(now < end)
        <5>1. Silence > end
          <6>1. Silence = IF now > pause THEN now ELSE now + 1
            BY <1>13, <4>3 DEF Silence
          <6> QED BY ONLY <1>14, <4>3, <6>1
        <5>2. d1 = d + 1
          BY <1>1, <1>2, <1>4, <1>5, <1>13, <2>6, <5>1 DEF Processing
        <5>3. m = end /\ m1 = end
          <6>1. m = end
            BY <1>13, <4>3 DEF Measured
          <6>2. m1 = IF Silence < end THEN Silence ELSE end
            BY <1>1, <1>13 DEF Measured
          <6>3. ~(Silence < end)
            <7>1. Silence = IF now > pause THEN now ELSE now + 1
              BY <1>13, <4>3 DEF Silence
            <7> QED BY ONLY <1>14, <4>3, <7>1
          <6> QED BY <6>1, <6>2, <6>3
        <5> QED BY ONLY <1>14, <3>2, <3>5, <5>2, <5>3
      <4> QED BY <4>1, <4>2, <4>3
    <3> QED BY <1>13, <3>3, <3>4, <3>5
  <2> QED BY <2>2, <2>4, <2>5, <2>6 DEF Deadlines
<1> QED BY <1>7, <1>9, <1>10, <1>11, <1>12, <1>15 DEF WholeInv

LEMMA SetupWhole ==
    ASSUME LinkInv, WholeInv, EnoughSilence, Setup
    PROVE  WholeInv'
<1>1. /\ runlevel_ # OPERATIONAL
      /\ UNCHANGED <<tasks, pc, lag, drops, fifo, aux, arriving, quiet>>
      /\ runlevel_' = OPERATIONAL => uplink_buffer' = <<>>
  BY DEF Setup, SetupPort, Configure, ConfigureFails, OPERATIONAL, kernel, radio
<1>2. tasks = <<>> /\ pc = "kernel" /\ fifo = <<>> /\ aux = "high" /\ arriving = 0
  BY <1>1 DEF LinkInv, QuietUntilOperational
<1>3. tasks' = <<>> /\ pc' = "kernel" /\ fifo' = <<>> /\ aux' = "high" /\ arriving' = 0
  BY <1>1, <1>2
<1>4. \A t : ~In(t, tasks)'
  BY <1>3, InEmpty DEF In
<1>5. OnlyUplinkTasks' /\ Arrival' /\ ReadyInTime' /\ NewBehindOld'
  BY <1>3, <1>4 DEF OnlyUplinkTasks, Arrival, ReadyInTime, NewBehindOld, ProcessNext
<1>6. Contents' /\ Deadlines'
  BY <1>1, <1>3, <1>4 DEF Contents, Done, Deadlines, Receiving
<1> QED BY <1>5, <1>6 DEF WholeInv

\* When the ground begins, it has been silent long enough.
LEMMA BeginWhole ==
    ASSUME LinkInv, WholeInv, EnoughSilence, RadioBegin
    PROVE  WholeInv'
<1>1. /\ runlevel_ = OPERATIONAL /\ aux = "high" /\ quiet = GroundPause
      /\ aux' = "falling" /\ arriving' = ChunksUp
      /\ UNCHANGED <<runlevel_, uplink_buffer, tasks, pc, lag, drops, fifo, quiet>>
  BY DEF RadioBegin, kernel
<1>2. arriving = 0
  BY <1>1 DEF WholeInv, Arrival
<1>3. PICK q \in Nat, d \in Nat, l \in Nat, max \in Nat, end \in Nat, m \in Nat, md \in Nat :
        /\ q = quiet /\ d = drops /\ l = lag /\ max = MaxLag /\ md = MaxDrops
        /\ end = EndOfMessage /\ m = Measured
  <2>1. Measured \in Nat
    BY WholeTypes, Constants DEF Measured
  <2> QED BY <2>1, WholeTypes, Constants
<1>4. q > end + max + md + 1 /\ l <= max /\ d <= md /\ m <= end
  <2>1. GroundPause > EndOfMessage + MaxLag + MaxDrops + 1
    BY DEF EnoughSilence
  <2>2. Measured <= EndOfMessage
    BY WholeTypes, Constants DEF Measured
  <2> QED BY <1>1, <1>3, <2>1, <2>2, WholeTypes
<1>5. ~(q <= d) /\ ~(q <= d + l + 1) /\ ~(q <= d + max + 1 + m)
  BY ONLY <1>4
<1>6. ~Receiving
  BY <1>1, <1>3, <1>5 DEF WholeInv, Deadlines
<1>7. fifo = <<>>
  BY <1>1, <1>3, <1>5, <1>6 DEF WholeInv, Deadlines
<1>8. uplink_buffer # <<>> => Processing
  BY <1>1, <1>3, <1>5, <1>6, <1>7 DEF WholeInv, Deadlines
<1>9. FifoFrom(0)'
  <2>1. Len(fifo') = 0 /\ DOMAIN fifo' = {}
    BY <1>1, <1>7
  <2>2. ChunksUp - ChunksUp - 0 = 0
    BY Constants
  <2> QED BY <1>1, <2>1, <2>2 DEF FifoFrom
<1>10. Contents'
  <2>1. CASE uplink_buffer = <<>>
    <3>1. Len(uplink_buffer') = 0 /\ DOMAIN uplink_buffer' = {}
      BY <1>1, <2>1
    <3> QED BY <1>9, <3>1 DEF Contents, Fresh
  <2>2. CASE uplink_buffer # <<>>
    <3>1. Ready
      BY <1>1, <1>2, <1>7, QuietReady DEF WholeInv
    <3>2. pc \in {"process_message", "empty"} \/ ProcessNext
      <4> SUFFICES ASSUME In("process_message", tasks) PROVE ProcessNext
        BY <1>8, <2>2 DEF Processing
      <4>1. tasks \in Seq(AtEntry) /\ tasks # <<>>
        BY WholeTypes DEF In
      <4>2. 1 \in DOMAIN tasks /\ tasks[1] \in AtEntry
        BY <4>1
      <4>3. tasks[1] # "receive" /\ tasks[1] # "send_message"
        BY <1>6, <4>2 DEF Receiving, WholeInv, OnlyUplinkTasks, In
      <4> QED BY <4>1, <4>2, <4>3 DEF AtEntry, ProcessNext
    <3>3. Old'
      BY <1>1, <1>6, <1>9, <2>2, <3>1, <3>2
         DEF Old, Ready, Complete, ProcessNext, Receiving
    <3> QED BY <3>3 DEF Contents
  <2> QED BY <2>1, <2>2
<1>11. OnlyUplinkTasks' /\ ReadyInTime'
  BY <1>1 DEF WholeInv, OnlyUplinkTasks, ReadyInTime, ProcessNext, Ready, Complete, In
<1>12. Arrival' /\ Deadlines'
  BY <1>1 DEF Arrival, Deadlines
<1>13. NewBehindOld'
  BY <1>1, <1>6 DEF NewBehindOld, AllBehind, Receiving, In
<1> QED BY <1>10, <1>11, <1>12, <1>13 DEF WholeInv

LEMMA DeliverWhole ==
    ASSUME LinkInv, WholeInv, EnoughSilence, RadioDeliver
    PROVE  WholeInv'
<1> DEFINE t == <<Len(kind), ChunksUp - arriving + 1>>
<1>1. /\ aux = "low" /\ arriving > 0 /\ fifo' = Append(fifo, t) /\ arriving' = arriving - 1
      /\ UNCHANGED <<runlevel_, uplink_buffer, tasks, pc, lag, drops, aux, quiet, kind>>
  BY DEF RadioDeliver, kernel, history
<1>2. /\ fifo \in Seq(UpParts) /\ Len(fifo) \in Nat /\ DOMAIN fifo = 1 .. Len(fifo)
      /\ Len(uplink_buffer) \in Nat
      /\ Len(kind) \in Nat /\ arriving \in 0 .. ChunksUp /\ ChunksUp \in Nat
  BY WholeTypes, Constants
<1>3. t \in UpParts
  <2>1. Len(kind) \in 0 .. Up /\ ChunksUp - arriving + 1 \in 1 .. ChunksUp
    BY <1>1, <1>2, Constants DEF LinkInv, TypeOK, UplinkTypeOK
  <2> QED BY <2>1 DEF UpParts
<1>4. /\ fifo' # <<>> /\ Len(fifo') = Len(fifo) + 1 /\ DOMAIN fifo' = 1 .. Len(fifo) + 1
      /\ \A i \in 1 .. Len(fifo) : fifo'[i] = fifo[i]
      /\ fifo'[Len(fifo) + 1] = t
  <2> HIDE DEF t
  <2> QED BY <1>1, <1>2, <1>3, AppendFacts
<1>5. ASSUME NEW k \in Nat, FifoFrom(k) PROVE FifoFrom(k)'
  <2>1. Len(fifo') = ChunksUp - arriving' - k
    BY <1>1, <1>2, <1>4, <1>5 DEF FifoFrom
  <2>2. \A i \in DOMAIN fifo' : fifo'[i] = <<Len(kind), k + i>>
    <3> SUFFICES ASSUME NEW i \in 1 .. Len(fifo) + 1 PROVE fifo'[i] = <<Len(kind), k + i>>
      BY <1>4
    <3>1. CASE i \in 1 .. Len(fifo)
      BY <1>2, <1>4, <1>5, <3>1 DEF FifoFrom
    <3>2. CASE i = Len(fifo) + 1
      <4>1. ChunksUp - arriving + 1 = k + i
        BY <1>2, <1>5, <3>2 DEF FifoFrom
      <4> QED BY <1>4, <3>2, <4>1
    <3> QED BY <1>2, <3>1, <3>2
  <2> QED BY <1>1, <2>1, <2>2 DEF FifoFrom
<1>6. (Fresh => Fresh') /\ (Old => Old')
  <2>1. Fresh => Fresh'
    <3> SUFFICES ASSUME Fresh PROVE Fresh'
      OBVIOUS
    <3>1. FifoFrom(Len(uplink_buffer))'
      <4> DEFINE k == Len(uplink_buffer)
      <4>1. k \in Nat /\ FifoFrom(k) /\ k' = k
        BY <1>1, <1>2 DEF Fresh
      <4> QED BY <1>1, <1>5, <4>1 DEF FifoFrom
    <3> QED BY <1>1, <3>1 DEF Fresh
  <2>2. Old => Old'
    BY <1>1, <1>5 DEF Old, Ready, Complete, ProcessNext
  <2> QED BY <2>1, <2>2
<1>7. ~Done
  BY <1>1, <1>2 DEF Done
<1>8. Contents'
  BY <1>1, <1>6, <1>7 DEF WholeInv, Contents
<1>9. OnlyUplinkTasks' /\ ReadyInTime' /\ NewBehindOld'
  BY <1>1 DEF WholeInv, OnlyUplinkTasks, ReadyInTime, ProcessNext, NewBehindOld, Ready,
              Complete, In
<1>10. Arrival' /\ Deadlines'
  BY <1>1 DEF WholeInv, Arrival, Deadlines
<1> QED BY <1>8, <1>9, <1>10 DEF WholeInv

LEMMA EndWhole ==
    ASSUME LinkInv, WholeInv, EnoughSilence, RadioEnd
    PROVE  WholeInv'
<1>1. /\ aux = "low" /\ aux' = "high" /\ arriving = 0
      /\ UNCHANGED <<runlevel_, elapsed, uplink_buffer, tasks, pc, lag, drops, fifo,
                     arriving, quiet, kind>>
  BY DEF RadioEnd, kernel, history
<1>2. quiet' = 0
  BY <1>1 DEF WholeInv, Deadlines
<1>3. Contents' /\ OnlyUplinkTasks' /\ ReadyInTime'
  BY <1>1 DEF WholeInv, Contents, Fresh, Old, Done, FifoFrom, OnlyUplinkTasks, ReadyInTime,
              ProcessNext, Ready, Complete, In
<1>4. Arrival' /\ NewBehindOld'
  BY <1>1 DEF Arrival, NewBehindOld
<1>5. Deadlines'
  <2>1. lag' \in Nat /\ drops' \in Nat /\ MaxLag \in Nat /\ Measured' \in Nat
    BY <1>1, WholeTypes, Constants DEF Measured
  <2>2. /\ 0 <= drops' /\ 0 <= drops' + lag' + 1
        /\ 0 <= drops' + MaxLag + 1 + Measured'
    <3>1. \A d, l, m, n \in Nat : 0 <= d /\ 0 <= d + l + 1 /\ 0 <= d + m + 1 + n
      OBVIOUS
    <3> QED BY <2>1, <3>1
  <2> QED BY <1>1, <1>2, <2>2 DEF Deadlines
<1> QED BY <1>3, <1>4, <1>5 DEF WholeInv

\* A step that touches neither the messages nor the tasks that handle them.
LEMMA WholeUntouched ==
    ASSUME WholeInv,
           UNCHANGED <<runlevel_, elapsed, uplink_buffer, tasks, pc, lag, drops, fifo, aux,
                       arriving, quiet, kind>>
    PROVE  WholeInv'
<1>1. Contents' /\ OnlyUplinkTasks' /\ ReadyInTime' /\ Arrival' /\ NewBehindOld'
  BY DEF WholeInv, Contents, Fresh, Old, Done, FifoFrom, OnlyUplinkTasks, ReadyInTime,
         ProcessNext, Ready, Complete, In, Arrival, NewBehindOld
<1>2. Receiving' = Receiving /\ Processing' = Processing /\ Measured' = Measured
  BY DEF Receiving, Processing, Measured, In
<1>3. Deadlines'
  BY <1>2 DEF WholeInv, Deadlines
<1> QED BY <1>1, <1>3 DEF WholeInv

LEMMA StampWhole ==
    ASSUME LinkInv, WholeInv, EnoughSilence, Stamp
    PROVE  WholeInv'
<1>1. /\ pc = "stamp" /\ pc' = "kernel" /\ elapsed' = 0
      /\ lag' = IF tasks = <<>> THEN 0 ELSE lag
      /\ UNCHANGED <<runlevel_, uplink_buffer, tasks, drops, fifo, aux, arriving, quiet, kind>>
  BY DEF Stamp, Return, radio, history
<1>2. Contents' /\ OnlyUplinkTasks' /\ ReadyInTime' /\ Arrival' /\ NewBehindOld'
  BY <1>1 DEF WholeInv, Contents, Fresh, Old, Done, FifoFrom, OnlyUplinkTasks, ReadyInTime,
              ProcessNext, Ready, Complete, In, Arrival, NewBehindOld
<1>3. Receiving' = Receiving /\ Processing' = Processing
  BY <1>1 DEF Receiving, Processing, In
<1>4. Receiving => lag' = lag
  BY <1>1 DEF Receiving, In
<1>5. /\ quiet \in Nat /\ lag \in Nat /\ drops \in Nat /\ lag <= MaxLag /\ MaxLag \in Nat
      /\ Measured' \in Nat
  BY <1>1, WholeTypes, Constants DEF Measured
<1>6. quiet <= drops + lag + 1 => quiet <= drops + MaxLag + 1 + Measured'
  <2>1. \A q, d, l, max, m \in Nat : l <= max /\ q <= d + l + 1 => q <= d + max + 1 + m
    OBVIOUS
  <2> QED BY <1>5, <2>1
<1>7. Deadlines'
  BY <1>1, <1>3, <1>4, <1>6 DEF WholeInv, Deadlines
<1> QED BY <1>2, <1>7 DEF WholeInv

\* What waits first, runs.
LEMMA StartWhole ==
    ASSUME LinkInv, WholeInv, EnoughSilence, Start
    PROVE  WholeInv'
<1>1. /\ pc = "kernel" /\ tasks # <<>> /\ pc' = Head(tasks) /\ tasks' = Tail(tasks)
      /\ UNCHANGED <<runlevel_, elapsed, uplink_buffer, lag, drops, fifo, aux, arriving,
                     quiet, kind>>
  BY DEF Start, radio, history
<1>2. /\ tasks \in Seq(AtEntry) /\ Len(tasks) \in Nat \ {0} /\ DOMAIN tasks = 1 .. Len(tasks)
      /\ pc' \in AtEntry /\ pc' = tasks[1]
      /\ DOMAIN tasks' = 1 .. Len(tasks) - 1
      /\ \A i \in 1 .. Len(tasks) - 1 : tasks'[i] = tasks[i + 1]
  <2>1. tasks \in Seq(AtEntry)
    BY WholeTypes
  <2> QED BY <1>1, <2>1, TailFacts
<1>3. \A t : In(t, tasks) <=> pc' = t \/ In(t, tasks)'
  <2>1. \A t : In(t, tasks) <=> Head(tasks) = t \/ In(t, Tail(tasks))
    BY <1>1, <1>2, InTail
  <2> QED BY <1>1, <2>1 DEF In
<1>4. OnlyUplinkTasks'
  <2>1. pc' # "send_message" /\ ~In("send_message", tasks)'
    BY <1>3 DEF WholeInv, OnlyUplinkTasks
  <2> QED BY <1>2, <2>1 DEF AtEntry, OnlyUplinkTasks
<1>5. pc' \in {"receive", "process_message"}
  BY <1>2, <1>4 DEF AtEntry, OnlyUplinkTasks
<1>6. Receiving' = Receiving /\ Processing' = Processing
  BY <1>1, <1>3, <1>5 DEF Receiving, Processing
<1>7. pc' = "process_message" <=> ProcessNext
  BY <1>1, <1>2 DEF ProcessNext
<1>8. Ready' = Ready /\ Fresh' = Fresh /\ Done' = Done /\ FifoFrom(0)' = FifoFrom(0)
  BY <1>1 DEF Ready, Complete, Fresh, FifoFrom, Done
<1>9. Contents'
  <2>1. Old => Old'
    BY <1>1, <1>7, <1>8 DEF Old
  <2> QED BY <1>1, <1>8, <2>1 DEF WholeInv, Contents
<1>10. ReadyInTime'
  BY <1>1, <1>5, <1>7, <1>8 DEF WholeInv, ReadyInTime
<1>11. NewBehindOld'
  <2> SUFFICES ASSUME aux' # "high" PROVE NewBehindOld'
    BY DEF NewBehindOld
  <2>1. AllBehind("receive", "process_message", tasks)
    BY <1>1 DEF WholeInv, NewBehindOld
  <2>2. /\ AllBehind("receive", "process_message", tasks')
        /\ pc' = "receive" => ~In("process_message", tasks')
    BY <1>1, <1>2, <2>1, BehindTail
  <2>3. AllBehind("receive", "process_message", tasks)'
    BY <2>2 DEF AllBehind
  <2>4. pc' = "receive" => ~In("process_message", tasks)'
    BY <2>2 DEF In
  <2> QED BY <1>5, <2>3, <2>4 DEF NewBehindOld
<1>12. Arrival' /\ Deadlines'
  <2>1. Measured' = Measured
    BY <1>1 DEF Measured
  <2>2. Receiving' \/ Processing'
    BY <1>5 DEF Receiving, Processing
  <2> QED BY <1>1, <1>6, <2>1, <2>2 DEF WholeInv, Arrival, Deadlines
<1> QED BY <1>4, <1>9, <1>10, <1>11, <1>12 DEF WholeInv

LEMMA ReadPartWhole ==
    ASSUME LinkInv, WholeInv, EnoughSilence, ReadPart
    PROVE  WholeInv'
<1>1. /\ pc \in {"receive", "read"} /\ fifo # <<>> /\ pc' = "read"
      /\ uplink_buffer' = Append(uplink_buffer, Head(fifo)) /\ fifo' = Tail(fifo)
      /\ UNCHANGED <<runlevel_, elapsed, tasks, lag, drops, aux, arriving, quiet, kind>>
  BY DEF ReadPart, history
<1>2. /\ fifo \in Seq(UpParts) /\ uplink_buffer \in Seq(UpParts)
      /\ Len(uplink_buffer) \in Nat /\ arriving \in Nat /\ ChunksUp \in Nat
  BY WholeTypes, Constants
<1>3. /\ Len(fifo) \in Nat \ {0} /\ DOMAIN fifo = 1 .. Len(fifo)
      /\ Head(fifo) \in UpParts /\ Head(fifo) = fifo[1]
      /\ Len(fifo') = Len(fifo) - 1 /\ DOMAIN fifo' = 1 .. Len(fifo) - 1
      /\ \A i \in 1 .. Len(fifo) - 1 : fifo'[i] = fifo[i + 1]
  BY <1>1, <1>2, TailFacts
<1>4. /\ Len(uplink_buffer') = Len(uplink_buffer) + 1
      /\ DOMAIN uplink_buffer = 1 .. Len(uplink_buffer)
      /\ DOMAIN uplink_buffer' = 1 .. Len(uplink_buffer) + 1
      /\ \A i \in 1 .. Len(uplink_buffer) : uplink_buffer'[i] = uplink_buffer[i]
      /\ uplink_buffer'[Len(uplink_buffer) + 1] = Head(fifo)
  <2> DEFINE t == Head(fifo)
  <2>1. t \in UpParts /\ uplink_buffer' = Append(uplink_buffer, t)
    BY <1>1, <1>3
  <2> HIDE DEF t
  <2> QED BY <1>2, <2>1, AppendFacts DEF t
<1>5. runlevel_ = OPERATIONAL
  BY <1>1 DEF LinkInv, QuietUntilOperational
<1>6. Fresh
  BY <1>1, <1>5 DEF WholeInv, Contents, Old, Done
<1>7. Fresh'
  <2> DEFINE k == Len(uplink_buffer)
  <2>1. /\ Len(fifo) = ChunksUp - arriving - k
        /\ \A i \in 1 .. Len(fifo) : fifo[i] = <<Len(kind), k + i>>
        /\ \A i \in 1 .. k : uplink_buffer[i] = <<Len(kind), i>>
    BY <1>3, <1>4, <1>6 DEF Fresh, FifoFrom
  <2>2. Len(fifo') = ChunksUp - arriving - (k + 1)
    BY <1>2, <1>3, <2>1
  <2>3. ASSUME NEW i \in DOMAIN fifo' PROVE fifo'[i] = <<Len(kind), (k + 1) + i>>
    <3>1. i + 1 \in 1 .. Len(fifo) /\ fifo'[i] = fifo[i + 1] /\ k + (i + 1) = (k + 1) + i
      BY <1>2, <1>3, <2>3
    <3> QED BY <2>1, <3>1
  <2>4. ASSUME NEW i \in DOMAIN uplink_buffer' PROVE uplink_buffer'[i] = <<Len(kind), i>>
    <3>1. CASE i \in 1 .. k
      BY <1>4, <2>1, <3>1
    <3>2. CASE i = k + 1
      BY <1>3, <1>4, <2>1, <3>2
    <3> QED BY <1>2, <1>4, <3>1, <3>2
  <2>5. Len(uplink_buffer') = k + 1 /\ kind' = kind /\ arriving' = arriving
    BY <1>1, <1>4
  <2> HIDE DEF k
  <2> QED BY <2>2, <2>3, <2>4, <2>5 DEF Fresh, FifoFrom
<1>8. Contents' /\ OnlyUplinkTasks' /\ ReadyInTime' /\ Arrival' /\ NewBehindOld'
  BY <1>1, <1>7 DEF WholeInv, Contents, OnlyUplinkTasks, ReadyInTime, Arrival, NewBehindOld, In
<1>9. Deadlines'
  BY <1>1 DEF WholeInv, Deadlines, Receiving
<1> QED BY <1>8, <1>9 DEF WholeInv

LEMMA ReadAllWhole ==
    ASSUME LinkInv, WholeInv, EnoughSilence, ReadAll
    PROVE  WholeInv'
<1>1. /\ pc \in {"receive", "read"} /\ fifo = <<>> /\ pc' = "stamp"
      /\ UNCHANGED <<runlevel_, elapsed, uplink_buffer, tasks, lag, drops, fifo, aux,
                     arriving, quiet, kind>>
  BY DEF ReadAll, radio, history
<1>2. runlevel_ = OPERATIONAL
  BY <1>1 DEF LinkInv, QuietUntilOperational
<1>3. Ready' = Ready /\ Fresh' = Fresh /\ Done' = Done /\ ProcessNext' = ProcessNext
  BY <1>1 DEF Ready, Complete, Fresh, FifoFrom, Done, ProcessNext
<1>4. Contents'
  BY <1>1, <1>2, <1>3 DEF WholeInv, Contents, Old
<1>5. ReadyInTime'
  <2>1. ASSUME ProcessNext PROVE Ready
    <3>1. In("process_message", tasks)
      <4>1. tasks \in Seq(AtEntry) /\ tasks # <<>>
        BY <2>1, WholeTypes DEF ProcessNext
      <4>2. 1 \in DOMAIN tasks
        BY <4>1
      <4> QED BY <2>1, <4>2 DEF ProcessNext, In
    <3>2. aux = "high" /\ arriving = 0
      BY <1>1, <3>1 DEF WholeInv, NewBehindOld, Arrival
    <3> QED BY <1>1, <1>2, <3>2, QuietReady DEF WholeInv
  <2> QED BY <1>1, <1>3, <2>1 DEF ReadyInTime
<1>6. OnlyUplinkTasks' /\ Arrival' /\ NewBehindOld'
  BY <1>1 DEF WholeInv, OnlyUplinkTasks, Arrival, NewBehindOld, In
<1>7. Deadlines'
  BY <1>1 DEF WholeInv, Deadlines, Receiving
<1> QED BY <1>4, <1>5, <1>6, <1>7 DEF WholeInv

LEMMA ProcessWhole ==
    ASSUME LinkInv, WholeInv, EnoughSilence, Process
    PROVE  WholeInv'
<1>1. /\ pc = "process_message" /\ pc' = "empty"
      /\ UNCHANGED <<runlevel_, elapsed, uplink_buffer, tasks, lag, drops, fifo, aux,
                     arriving, quiet, kind>>
  BY DEF Process, counts
<1>2. /\ Ready' = Ready /\ Fresh' = Fresh /\ Done' = Done /\ ProcessNext' = ProcessNext
      /\ FifoFrom(0)' = FifoFrom(0)
  BY <1>1 DEF Ready, Complete, Fresh, FifoFrom, Done, ProcessNext
<1>3. Contents' /\ OnlyUplinkTasks' /\ ReadyInTime' /\ Arrival' /\ NewBehindOld'
  BY <1>1, <1>2 DEF WholeInv, Contents, Old, OnlyUplinkTasks, ReadyInTime, Arrival,
                    NewBehindOld, In
<1>4. Receiving' = Receiving /\ Processing'
  BY <1>1 DEF Receiving, Processing, In
<1>5. Deadlines'
  BY <1>1, <1>4 DEF WholeInv, Deadlines
<1> QED BY <1>3, <1>5 DEF WholeInv

\* Nothing is thrown away but the message just processed.
LEMMA EmptyWhole ==
    ASSUME LinkInv, WholeInv, EnoughSilence, Empty
    PROVE  WholeInv'
<1>1. /\ pc = "empty" /\ pc' = "stamp" /\ uplink_buffer' = <<>>
      /\ UNCHANGED <<runlevel_, elapsed, tasks, lag, drops, fifo, aux, arriving, quiet, kind>>
  BY DEF Empty, radio, history
<1>2. /\ Len(uplink_buffer') = 0 /\ DOMAIN uplink_buffer' = {} /\ Ready'
      /\ FifoFrom(0)' = FifoFrom(0)
  BY <1>1 DEF Ready, FifoFrom
<1>3. runlevel_ = OPERATIONAL
  BY <1>1 DEF LinkInv, QuietUntilOperational
<1>4. Ready
  BY <1>1 DEF WholeInv, ReadyInTime
<1>5. Contents'
  <2>1. CASE Fresh /\ uplink_buffer = <<>>
    BY <1>1, <1>2, <2>1 DEF Fresh, Contents
  <2>2. CASE Fresh /\ Len(uplink_buffer) = ChunksUp
    <3>1. /\ ChunksUp \in Nat /\ arriving \in Nat /\ fifo \in Seq(UpParts) /\ Len(fifo) \in Nat
      BY WholeTypes, Constants
    <3>2. Len(fifo) = ChunksUp - arriving - ChunksUp
      BY <2>2 DEF Fresh, FifoFrom
    <3>3. Len(fifo) = 0 /\ arriving = 0
      BY <3>1, <3>2
    <3>4. fifo = <<>>
      BY <3>1, <3>3, EmptySeq
    <3> QED BY <1>1, <3>3, <3>4 DEF Done, Contents
  <2>3. CASE Old
    BY <1>2, <2>3 DEF Old, Fresh, Contents
  <2>4. CASE Done
    BY <1>1, <2>4 DEF Done, Contents
  <2> QED BY <1>3, <1>4, <2>1, <2>2, <2>3, <2>4 DEF WholeInv, Contents, Ready
<1>6. OnlyUplinkTasks' /\ ReadyInTime' /\ Arrival' /\ NewBehindOld'
  BY <1>1, <1>2 DEF WholeInv, OnlyUplinkTasks, ReadyInTime, Arrival, NewBehindOld, In
<1>7. Receiving' = Receiving
  BY <1>1 DEF Receiving, In
<1>8. Deadlines'
  BY <1>1, <1>7 DEF WholeInv, Deadlines
<1> QED BY <1>5, <1>6, <1>8 DEF WholeInv

LEMMA InitWhole == Init => WholeInv
<1> SUFFICES ASSUME Init PROVE WholeInv
  OBVIOUS
<1>1. /\ runlevel_ # OPERATIONAL /\ tasks = <<>> /\ pc = "kernel" /\ fifo = <<>>
      /\ aux = "high" /\ arriving = 0
  BY DEF Init, OPERATIONAL
<1>2. \A t : ~In(t, tasks)
  BY <1>1, InEmpty
<1> QED BY <1>1, <1>2 DEF WholeInv, OnlyUplinkTasks, Contents, Arrival, ReadyInTime,
                          ProcessNext, NewBehindOld, Deadlines, Receiving

LEMMA StepWhole ==
    ASSUME LinkInv, WholeInv, EnoughSilence, [Next]_vars
    PROVE  WholeInv'
<1>1. CASE Setup
  BY <1>1, SetupWhole
<1>2. CASE Tick
  BY <1>2, TickWhole
<1>3. CASE RadioBegin
  BY <1>3, BeginWhole
<1>4. CASE RadioDeliver
  BY <1>4, DeliverWhole
<1>5. CASE RadioEnd
  BY <1>5, EndWhole
<1>6. CASE RadioSent \/ UNCHANGED vars
  <2>1. UNCHANGED <<runlevel_, elapsed, uplink_buffer, tasks, pc, lag, drops, fifo, aux,
                    arriving, quiet, kind>>
    BY <1>6 DEF RadioSent, vars, kernel, history
  <2> QED BY <2>1, WholeUntouched
<1>7. CASE Transmit
  <2>1. queued \in Nat /\ queued < 0
    BY <1>7, Constants DEF Transmit, EnoughSilence, LinkInv, TypeOK, DownlinkTypeOK
  <2> QED BY <2>1
<1>8. CASE Start
  BY <1>8, StartWhole
<1>9. CASE Stamp
  BY <1>9, StampWhole
<1>10. CASE ReadPart
  BY <1>10, ReadPartWhole
<1>11. CASE ReadAll
  BY <1>11, ReadAllWhole
<1>12. CASE Process
  BY <1>12, ProcessWhole
<1>13. CASE Empty
  BY <1>13, EmptyWhole
<1>14. CASE Continue \/ Fetch \/ Buffer \/ Write \/ Subtract \/ NoRoom
  <2>1. pc \in {"send_message", "fetch", "buffer", "write", "subtract"}
    BY <1>14 DEF Continue, Fetch, Buffer, Write, Subtract, NoRoom
  <2> QED BY <2>1 DEF WholeInv, OnlyUplinkTasks
<1> QED BY <1>1, <1>2, <1>3, <1>4, <1>5, <1>6, <1>7, <1>8, <1>9, <1>10, <1>11, <1>12,
           <1>13, <1>14 DEF Next, Radio, Loop

\* If the ground keeps silent for longer than the end of a message, the lag of the kernel
\* loop and the dropped ticks take together, what process_message (modem.cpp:200-237)
\* finds in the buffer is one whole message, or nothing: the task has been asked for again
\* after 5 ms without a character (modem.cpp:165-166).
THEOREM MessagesStayWhole == EnoughSilence => (Spec => []WholeMessages)
<1> SUFFICES ASSUME EnoughSilence PROVE Spec => []WholeMessages
  OBVIOUS
<1>1. Init => WholeInv
  BY InitWhole
<1>2. LinkInv /\ WholeInv /\ [Next]_vars => WholeInv'
  BY StepWhole
<1>3. WholeInv => WholeMessages
  BY DEF WholeInv, ReadyInTime, Ready, WholeMessages
<1>4. ModemInv => LinkInv
  BY DEF ModemInv
<1> QED BY <1>1, <1>2, <1>3, <1>4, ModemInvariant, PTL DEF Spec
=============================================================================
