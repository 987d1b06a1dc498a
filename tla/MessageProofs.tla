--------------------------- MODULE MessageProofs ---------------------------
(***************************************************************************)
(* The messages at the two ends of their way.  In the program, the system  *)
(* log, for any number of messages and any timing of the systick           *)
(* interrupt: it never fetches from an empty queue, and it writes and      *)
(* forwards the messages in order and once each.  On the ground, the       *)
(* reader, for any number and content of frames, cut into pieces anywhere: *)
(* the rows of its table are the frames, in order and once each.           *)
(***************************************************************************)
EXTENDS Logger, Ground, SeqLemmas
-----------------------------------------------------------------------------
(* The system log.                                                         *)

\* The texts written are the numbers 1, 2, ... in order.
LEMMA WrittenRange ==
    ASSUME LoggerInv
    PROVE  /\ Len(written) \in Nat
           /\ DOMAIN written = 1 .. Len(written)
           /\ Range(written) = 1 .. Len(written)
<1> USE DEF LoggerInv, TypeOK, EveryMessageInOrder
<1>1. Len(written) \in Nat /\ DOMAIN written = 1 .. Len(written)
  OBVIOUS
<1> QED BY <1>1 DEF Range

\* The elements of the queue follow the messages that have left it.
LEMMA QueueBounds ==
    ASSUME LoggerInv
    PROVE  /\ Len(in) \in Nat
           /\ DOMAIN in = 1 .. Len(in)
           /\ Fetched \in Nat
           /\ received \in Nat
           /\ Len(written) <= received
<1> USE DEF LoggerInv, TypeOK, EveryMessageInOrder
<1>1. Len(in) \in Nat /\ DOMAIN in = 1 .. Len(in)
  OBVIOUS
<1>2. Len(written) \in Nat
  BY WrittenRange
<1>3. received \in Nat
  BY LoggerAssumption
<1>4. Fetched \in Nat /\ Len(written) <= Fetched
  BY <1>2 DEF Fetched
<1>5. received = Fetched + Len(in)
  OBVIOUS
<1> QED BY <1>1, <1>2, <1>3, <1>4, <1>5

\* A message another task logs keeps the invariant.
LEMMA ReceiveKeepsInv ==
    ASSUME LoggerInv, Receive PROVE LoggerInv'
<1> USE LoggerAssumption DEF LoggerInv, Messages
<1>1. /\ pc = "kernel" /\ pc' = "kernel"
      /\ received' = received + 1
      /\ received + 1 \in Messages
      /\ system \subseteq system' /\ system' \subseteq system \union {received + 1}
      /\ in' = Append(in, received + 1)
      /\ UNCHANGED <<active, flag_message_pending, runs, msg, pending,
                     written, forwarded>>
  BY DEF Receive, TypeOK
<1>2. /\ Len(in) \in Nat
      /\ DOMAIN in = 1 .. Len(in)
      /\ in' \in Seq(Messages)
      /\ in' # <<>>
      /\ Len(in') = Len(in) + 1
      /\ DOMAIN in' = 1 .. Len(in) + 1
      /\ \A i \in 1 .. Len(in) : in'[i] = in[i]
      /\ in'[Len(in) + 1] = received + 1
  <2>1. in \in Seq(Messages)
    BY DEF TypeOK
  <2> QED BY <1>1, <2>1, AppendFacts
<1>3. TypeOK'
  BY <1>1, <1>2 DEF TypeOK
<1>4. EveryMessageInOrder'
  <2>1. Fetched' = Fetched /\ Fetched \in Nat
    BY <1>1, QueueBounds DEF Fetched
  <2>2. received = Fetched + Len(in)
    BY DEF EveryMessageInOrder
  <2>3. ASSUME NEW i \in DOMAIN in' PROVE in'[i] = Fetched' + i
    <3>1. CASE i \in DOMAIN in
      BY <1>2, <2>1, <3>1 DEF EveryMessageInOrder
    <3>2. CASE i = Len(in) + 1
      BY <1>2, <2>1, <2>2, <3>2
    <3> QED BY <1>2, <3>1, <3>2
  <2>4. received' = Fetched' + Len(in')
    BY <1>1, <1>2, <2>1, <2>2
  <2> QED BY <1>1, <2>3, <2>4 DEF EveryMessageInOrder
<1>5. FlagMeansMessage'
  BY <1>1, <1>2 DEF FlagMeansMessage
<1>6. SystemForwarded'
  <2>1. received + 1 \notin Range(written)
    BY WrittenRange, QueueBounds
  <2>2. Handled = {} /\ Handled' = {}
    BY <1>1 DEF Handled
  <2>3. Range(written) \intersect system' = Range(written) \intersect system
    BY <1>1, <2>1
  <2> QED BY <1>1, <2>2, <2>3 DEF SystemForwarded
<1> QED BY <1>3, <1>4, <1>5, <1>6

\* Taking the front message out of the queue keeps the invariant.
LEMMA PopKeepsInv ==
    ASSUME LoggerInv, Pop PROVE LoggerInv'
<1> USE DEF LoggerInv
<1>1. /\ pc = "pop" /\ pc' = "text"
      /\ in # <<>> /\ msg = Head(in)
      /\ in' = Tail(in)
      /\ UNCHANGED <<active, flag_message_pending, runs, msg, pending, history>>
  BY DEF Pop, FlagMeansMessage
<1>2. /\ Len(in) \in Nat \ {0}
      /\ DOMAIN in = 1 .. Len(in)
      /\ Head(in) = in[1]
      /\ in' \in Seq(Messages)
      /\ Len(in') = Len(in) - 1
      /\ DOMAIN in' = 1 .. Len(in) - 1
      /\ \A i \in 1 .. Len(in) - 1 : in'[i] = in[i + 1]
  <2>1. in \in Seq(Messages)
    BY DEF TypeOK
  <2> QED BY <1>1, <2>1, TailFacts
<1>3. /\ Fetched = Len(written)
      /\ Fetched' = Len(written) + 1
      /\ Len(written) \in Nat
  BY <1>1, WrittenRange DEF Fetched, history
<1>4. TypeOK'
  BY <1>1, <1>2 DEF TypeOK, PCs, history
<1>5. EveryMessageInOrder'
  <2>1. ASSUME NEW i \in DOMAIN in' PROVE in'[i] = Fetched' + i
    <3>1. i + 1 \in DOMAIN in /\ in'[i] = in[i + 1] /\ i \in Nat
      BY <1>2
    <3>2. in[i + 1] = Fetched + (i + 1)
      BY <3>1 DEF EveryMessageInOrder
    <3> QED BY <1>3, <3>1, <3>2
  <2>2. received = Fetched + Len(in)
    BY DEF EveryMessageInOrder
  <2>3. received' = Fetched' + Len(in')
    BY <1>1, <1>2, <1>3, <2>2 DEF history
  <2> QED BY <1>1, <2>1, <2>3 DEF EveryMessageInOrder, history
<1>6. FlagMeansMessage'
  <2>1. 1 \in DOMAIN in
    BY <1>2
  <2>2. msg = Fetched + 1
    BY <1>1, <1>2, <2>1 DEF EveryMessageInOrder
  <2>3. msg' = Fetched'
    BY <1>1, <1>3, <2>2
  <2> QED BY <1>1, <2>3 DEF FlagMeansMessage
<1>7. SystemForwarded'
  BY <1>1 DEF SystemForwarded, Handled, history
<1> QED BY <1>4, <1>5, <1>6, <1>7

\* Sending a message through text_out keeps the invariant.
LEMMA WriteTextKeepsInv ==
    ASSUME LoggerInv, WriteText PROVE LoggerInv'
<1> USE DEF LoggerInv
<1>1. /\ pc = "text" /\ pc' = "count"
      /\ msg = Fetched
      /\ written' = Append(written, msg)
      /\ UNCHANGED <<active, in, flag_message_pending, runs, msg, pending,
                     received, system, forwarded>>
  BY DEF WriteText, FlagMeansMessage
<1>2. /\ Len(written) \in Nat
      /\ DOMAIN written = 1 .. Len(written)
      /\ Range(written) = 1 .. Len(written)
      /\ msg = Len(written) + 1
  BY <1>1, WrittenRange DEF Fetched
<1>3. msg \in Messages
  BY <1>2 DEF TypeOK, None
<1>4. /\ written' \in Seq(Messages)
      /\ written' # <<>>
      /\ Len(written') = Len(written) + 1
      /\ DOMAIN written' = 1 .. Len(written) + 1
      /\ \A i \in 1 .. Len(written) : written'[i] = written[i]
      /\ written'[Len(written) + 1] = msg
      /\ Range(written') = Range(written) \union {msg}
  <2>1. written \in Seq(Messages)
    BY DEF TypeOK
  <2> QED BY <1>1, <1>3, <2>1, AppendFacts
<1>5. Fetched' = Fetched
  BY <1>1, <1>2, <1>4 DEF Fetched
<1>6. TypeOK'
  BY <1>1, <1>4 DEF TypeOK, PCs
<1>7. EveryMessageInOrder'
  <2>1. ASSUME NEW i \in DOMAIN written' PROVE written'[i] = i
    <3>1. CASE i \in DOMAIN written
      BY <1>2, <1>4, <3>1 DEF EveryMessageInOrder
    <3>2. CASE i = Len(written) + 1
      BY <1>2, <1>4, <3>2
    <3> QED BY <1>2, <1>4, <3>1, <3>2
  <2> QED BY <1>1, <1>5, <2>1 DEF EveryMessageInOrder
<1>8. FlagMeansMessage'
  <2>1. msg' = Len(written')
    BY <1>1, <1>2, <1>4
  <2> QED BY <1>1, <1>4, <2>1 DEF FlagMeansMessage
<1>9. SystemForwarded'
  <2>1. Handled = {} /\ Handled' = {msg}
    BY <1>1 DEF Handled
  <2>2. msg \notin Range(written)
    BY <1>2
  <2>3. (Range(written') \intersect system) \ {msg} = Range(written) \intersect system
    BY <1>4, <2>2
  <2> QED BY <1>1, <2>1, <2>3 DEF SystemForwarded
<1> QED BY <1>6, <1>7, <1>8, <1>9

\* The last step of the loop's body keeps the invariant.
LEMMA ForwardKeepsInv ==
    ASSUME LoggerInv, Forward PROVE LoggerInv'
<1> USE DEF LoggerInv
<1>1. /\ pc = "system" /\ pc' = "check" /\ msg' = None
      /\ msg = Len(written) /\ written # <<>>
      /\ forwarded' = IF msg \in system THEN Append(forwarded, msg) ELSE forwarded
      /\ UNCHANGED <<active, in, flag_message_pending, runs, pending,
                     received, system, written>>
  BY DEF Forward, FlagMeansMessage
<1>2. /\ Len(written) \in Nat
      /\ Range(written) = 1 .. Len(written)
      /\ Handled = {msg} /\ Handled' = {}
      /\ forwarded \in Seq(Messages)
  BY <1>1, WrittenRange DEF Handled, TypeOK
<1>3. msg \in Range(written)
  <2>1. Len(written) # 0
    BY <1>1 DEF TypeOK
  <2> QED BY <1>1, <1>2, <2>1
<1>4. msg \in Messages
  BY <1>1, <1>2, <1>3 DEF TypeOK, None
<1>5. EveryMessageInOrder' /\ FlagMeansMessage'
  BY <1>1 DEF EveryMessageInOrder, FlagMeansMessage, Fetched
<1>6. CASE msg \notin system
  <2>1. forwarded' = forwarded
    BY <1>1, <1>6
  <2>2. TypeOK'
    BY <1>1, <2>1 DEF TypeOK, PCs
  <2>3. SystemForwarded'
    BY <1>1, <1>2, <1>6, <2>1 DEF SystemForwarded
  <2> QED BY <1>5, <2>2, <2>3
<1>7. CASE msg \in system
  <2>1. forwarded' = Append(forwarded, msg)
    BY <1>1, <1>7
  <2>2. /\ Len(forwarded) \in Nat
        /\ DOMAIN forwarded = 1 .. Len(forwarded)
        /\ forwarded' \in Seq(Messages)
        /\ DOMAIN forwarded' = 1 .. Len(forwarded) + 1
        /\ \A i \in 1 .. Len(forwarded) : forwarded'[i] = forwarded[i]
        /\ forwarded'[Len(forwarded) + 1] = msg
        /\ Range(forwarded') = Range(forwarded) \union {msg}
    BY <1>2, <1>4, <2>1, AppendFacts
  <2>3. TypeOK'
    BY <1>1, <2>2 DEF TypeOK, PCs
  <2>4. Range(forwarded') = (Range(written') \intersect system') \ Handled'
    BY <1>1, <1>2, <1>3, <1>7, <2>2 DEF SystemForwarded
  <2>5. ASSUME NEW i \in DOMAIN forwarded PROVE forwarded[i] < msg
    <3>1. forwarded[i] \in Range(written) \ {msg}
      BY <1>2 DEF SystemForwarded, Range
    <3> QED BY <1>1, <1>2, <3>1
  <2>6. ASSUME NEW i \in DOMAIN forwarded', NEW j \in DOMAIN forwarded', i < j
        PROVE  forwarded'[i] < forwarded'[j]
    <3>1. i \in DOMAIN forwarded /\ forwarded'[i] = forwarded[i]
      BY <2>2, <2>6
    <3>2. CASE j \in DOMAIN forwarded
      <4>1. forwarded'[j] = forwarded[j] /\ forwarded[i] < forwarded[j]
        BY <2>2, <2>6, <3>1, <3>2 DEF SystemForwarded
      <4> QED BY <3>1, <4>1
    <3>3. CASE j = Len(forwarded) + 1
      BY <2>2, <2>5, <3>1, <3>3
    <3> QED BY <2>2, <3>2, <3>3
  <2> QED BY <1>5, <2>3, <2>4, <2>6 DEF SystemForwarded
<1> QED BY <1>6, <1>7

\* The steps that touch neither the queue nor the outputs: the interrupt, the
\* kernel loop and the accesses to the flag.
LEMMA FlagStepsKeepInv ==
    ASSUME LoggerInv,
           Activate \/ Interrupt \/ InterruptDropped \/ Start \/ Check \/ Count \/ Store
    PROVE  LoggerInv'
<1> USE LoggerAssumption DEF LoggerInv, TypeOK, PCs, history, RaiseFlag, Schedule
<1>1. UNCHANGED <<in, msg, received, system, written, forwarded>>
  BY DEF Activate, Interrupt, InterruptDropped, Start, Check, Count, Store
<1>2. TypeOK'
  <2>1. /\ active' \in BOOLEAN
        /\ flag_message_pending' \in BOOLEAN
        /\ pending' \in BOOLEAN
    BY DEF Activate, Interrupt, InterruptDropped, Start, Check, Count, Store
  <2>2. runs' \in 0 .. MaxRuns /\ pc' \in PCs
    BY DEF Activate, Interrupt, InterruptDropped, Start, Check, Count, Store
  <2> QED BY <1>1, <2>1, <2>2
<1>3. Fetched' = Fetched /\ Handled' = Handled
  BY DEF Fetched, Handled, Activate, Interrupt, InterruptDropped, Start, Check,
         Count, Store
<1>4. EveryMessageInOrder'
  BY <1>1, <1>3 DEF EveryMessageInOrder
<1>5. SystemForwarded'
  BY <1>1, <1>3 DEF SystemForwarded
<1>6. FlagMeansMessage'
  <2> USE DEF FlagMeansMessage
  <2>1. CASE Activate
    BY <1>1, <1>3, <2>1 DEF Activate
  <2>2. CASE Interrupt \/ InterruptDropped
    BY <1>1, <1>3, <2>2 DEF Interrupt, InterruptDropped
  <2>3. CASE Start
    BY <1>1, <1>3, <2>3 DEF Start
  <2>4. CASE Check
    BY <1>1, <1>3, <2>4 DEF Check
  <2>5. CASE Count
    BY <1>1, <1>3, <2>5 DEF Count
  <2>6. CASE Store
    BY <1>1, <1>3, <2>6 DEF Store
  <2> QED BY <2>1, <2>2, <2>3, <2>4, <2>5, <2>6
<1> QED BY <1>2, <1>4, <1>5, <1>6

\* Copying the front message into the local variable keeps the invariant.
LEMMA FrontKeepsInv ==
    ASSUME LoggerInv, Front PROVE LoggerInv'
<1> USE DEF LoggerInv, TypeOK
<1>1. Head(in) \in Messages
  BY TailFacts DEF Front
<1>2. Fetched' = Fetched /\ Handled' = Handled
  BY DEF Front, Fetched, Handled, history
<1> QED
  BY <1>1, <1>2 DEF Front, PCs, EveryMessageInOrder, FlagMeansMessage,
                    SystemForwarded, history

\* The inductive invariant of the system log.
THEOREM LoggerInvariant == Spec => []LoggerInv
<1>1. Init => LoggerInv
  <2> SUFFICES ASSUME Init PROVE LoggerInv
    OBVIOUS
  <2> USE LoggerAssumption DEF Init
  <2>1. /\ in \in Seq(Messages) /\ written \in Seq(Messages)
        /\ forwarded \in Seq(Messages)
        /\ Len(in) = 0 /\ Len(written) = 0
        /\ DOMAIN in = {} /\ DOMAIN written = {} /\ DOMAIN forwarded = {}
        /\ Range(written) = {} /\ Range(forwarded) = {}
    BY EmptyFacts
  <2>2. TypeOK
    <3>1. active \in BOOLEAN /\ flag_message_pending \in BOOLEAN /\ pending \in BOOLEAN
      BY Zenon
    <3>2. runs \in 0 .. MaxRuns /\ received \in 0 .. MaxMessages
      OBVIOUS
    <3>3. pc \in PCs /\ msg \in Messages \union {None} /\ system \subseteq 1 .. received
      BY DEF PCs
    <3> QED BY <2>1, <3>1, <3>2, <3>3 DEF TypeOK
  <2>3. EveryMessageInOrder
    BY <2>1 DEF EveryMessageInOrder, Fetched
  <2>4. FlagMeansMessage
    BY DEF FlagMeansMessage
  <2>5. SystemForwarded
    BY <2>1 DEF SystemForwarded
  <2> QED BY <2>2, <2>3, <2>4, <2>5 DEF LoggerInv
<1>2. LoggerInv /\ [Next]_vars => LoggerInv'
  <2> SUFFICES ASSUME LoggerInv, [Next]_vars PROVE LoggerInv'
    OBVIOUS
  <2>1. CASE Receive
    BY <2>1, ReceiveKeepsInv
  <2>2. CASE Activate \/ Interrupt \/ InterruptDropped \/ Start \/ Check \/ Count \/ Store
    BY <2>2, FlagStepsKeepInv
  <2>3. CASE Front
    BY <2>3, FrontKeepsInv
  <2>4. CASE Pop
    BY <2>4, PopKeepsInv
  <2>5. CASE WriteText
    BY <2>5, WriteTextKeepsInv
  <2>6. CASE Forward
    BY <2>6, ForwardKeepsInv
  <2>7. CASE UNCHANGED vars
    BY <2>7 DEF vars, LoggerInv, TypeOK, EveryMessageInOrder, FlagMeansMessage,
                SystemForwarded, Fetched, Handled
  <2> QED BY <2>1, <2>2, <2>3, <2>4, <2>5, <2>6, <2>7 DEF Next, Run
<1> QED BY <1>1, <1>2, PTL DEF Spec

\* Logger::run never fetches from an empty queue (logger.cpp:26-31).
THEOREM NoFetchFromEmpty == Spec => []NeverFetchesEmpty
<1>1. LoggerInv => NeverFetchesEmpty
  BY DEF LoggerInv, FlagMeansMessage, NeverFetchesEmpty
<1> QED BY <1>1, LoggerInvariant, PTL

\* No message is lost, written twice or overtaken.
THEOREM MessagesInOrder == Spec => []EveryMessageInOrder
<1>1. LoggerInv => EveryMessageInOrder
  BY DEF LoggerInv
<1> QED BY <1>1, LoggerInvariant, PTL

\* Exactly the system messages are forwarded, once each and in order.
THEOREM SystemMessagesForwarded == Spec => []SystemForwarded
<1>1. LoggerInv => SystemForwarded
  BY DEF LoggerInv
<1> QED BY <1>1, LoggerInvariant, PTL

\* Every step of the logger is a step of the log its clients rely on, or none:
\* the logger implements MessageLog's safety part (its liveness is checked by
\* the runs).
THEOREM LoggerRefinesMessageLog == Spec => Log!LogSpec
<1>1. Init => Log!LogInit
  BY DEF Init, Log!LogInit
<1>2. Log!Range(forwarded) = Range(forwarded)
  BY DEF Range, Log!Range
<1>3. LoggerInv /\ [Next]_vars => [Log!LogNext]_(Log!logVars)
  <2> SUFFICES ASSUME LoggerInv, [Next]_vars
               PROVE  Log!LogNext \/ UNCHANGED Log!logVars
    OBVIOUS
  <2> USE DEF Log!LogNext, Log!logVars
  <2>1. CASE Receive
    BY <2>1 DEF Receive, Log!LogReceive
  <2>2. CASE WriteText
    <3>1. /\ written' = Append(written, msg)
          /\ UNCHANGED <<received, system, forwarded>>
          /\ pc = "text"
          /\ msg = Len(written) + 1
      BY <2>2, WrittenRange DEF WriteText, LoggerInv, FlagMeansMessage, Fetched
    <3>2. Len(written) < received
      BY <3>1, QueueBounds, WrittenRange DEF LoggerInv, EveryMessageInOrder, Fetched
    <3>3. Range(forwarded) = Range(written) \intersect system
      BY <3>1 DEF LoggerInv, SystemForwarded, Handled
    <3>4. written # <<>> => Len(written) \in Range(written)
      <4>1. written # <<>> => Len(written) # 0
        BY DEF LoggerInv, TypeOK
      <4> QED BY <4>1, WrittenRange
    <3>5. ~Log!Owes
      BY <1>2, <3>3, <3>4 DEF Log!Owes
    <3> QED BY <3>1, <3>2, <3>5 DEF Log!LogWrite
  <2>3. CASE Forward /\ msg \in system
    <3>1. /\ forwarded' = Append(forwarded, Len(written))
          /\ UNCHANGED <<received, system, written>>
          /\ written # <<>> /\ Len(written) \in system /\ Handled = {Len(written)}
      BY <2>3 DEF Forward, LoggerInv, FlagMeansMessage, Handled
    <3>2. Len(written) \notin Range(forwarded)
      BY <3>1 DEF LoggerInv, SystemForwarded
    <3> QED BY <1>2, <3>1, <3>2 DEF Log!LogForward, Log!Owes
  <2>4. CASE Forward /\ msg \notin system
    BY <2>4 DEF Forward
  <2>5. CASE Activate \/ Interrupt \/ InterruptDropped \/ Start \/ Check \/ Front
               \/ Pop \/ Count \/ Store \/ UNCHANGED vars
    BY <2>5 DEF Activate, Interrupt, InterruptDropped, Start, Check, Front, Pop,
                Count, Store, vars, history
  <2> QED BY <2>1, <2>2, <2>3, <2>4, <2>5 DEF Next, Run
<1> QED BY <1>1, <1>3, LoggerInvariant, PTL DEF Spec, Log!LogSpec
-----------------------------------------------------------------------------
(* The ground station's reader.                                            *)

\* The bytes s[b + 1] ... s[n], counted from one.
LEMMA Piece ==
    ASSUME NEW S, NEW s \in Seq(S), NEW b \in Nat, NEW n \in Nat, b <= n, n <= Len(s)
    PROVE  /\ SubSeq(s, b + 1, n) \in Seq(S)
           /\ Len(SubSeq(s, b + 1, n)) = n - b
           /\ \A i \in 1 .. n - b : SubSeq(s, b + 1, n)[i] = s[b + i]
<1>1. /\ Len(SubSeq(s, b + 1, n)) = n - b
      /\ \A i \in 1 .. n - b : SubSeq(s, b + 1, n)[i] = s[b + i]
  OBVIOUS
<1>2. SubSeq(s, b + 1, n) \in Seq(S)
  OBVIOUS
<1> QED BY <1>1, <1>2

LEMMA PieceOfBytes ==
    ASSUME NEW s \in Seq(0 .. 255), NEW b \in Nat, NEW n \in Nat, b <= n, n <= Len(s)
    PROVE  /\ SubSeq(s, b + 1, n) \in Seq(0 .. 255)
           /\ Len(SubSeq(s, b + 1, n)) = n - b
           /\ \A i \in 1 .. n - b : SubSeq(s, b + 1, n)[i] = s[b + i]
<1> DEFINE B == 0 .. 255
<1>1. s \in Seq(B)
  OBVIOUS
<1> HIDE DEF B
<1>2. /\ SubSeq(s, b + 1, n) \in Seq(B) /\ Len(SubSeq(s, b + 1, n)) = n - b
      /\ \A i \in 1 .. n - b : SubSeq(s, b + 1, n)[i] = s[b + i]
  BY <1>1, Piece
<1> QED BY <1>2 DEF B

\* A sequence with these elements is this piece.
LEMMA PieceUnique ==
    ASSUME NEW S, NEW s \in Seq(S), NEW b \in Nat, NEW n \in Nat, b <= n, n <= Len(s),
           NEW u \in Seq(S), Len(u) = n - b, \A i \in 1 .. n - b : u[i] = s[b + i]
    PROVE  u = SubSeq(s, b + 1, n)
<1> DEFINE v == SubSeq(s, b + 1, n)
<1>1. v \in Seq(S) /\ Len(v) = n - b /\ \A i \in 1 .. n - b : v[i] = s[b + i]
  BY Piece
<1> HIDE DEF v
<1>2. Len(u) = Len(v) /\ \A i \in 1 .. Len(u) : u[i] = v[i]
  BY <1>1
<1>3. u = v
  BY <1>1, <1>2, SeqEqual
<1> QED BY <1>3 DEF v

LEMMA PieceGrows ==
    ASSUME NEW S, NEW s \in Seq(S), NEW b \in Nat, NEW h \in Nat, NEW n \in Nat,
           b <= h, h <= n, n <= Len(s)
    PROVE  SubSeq(s, b + 1, h) \o SubSeq(s, h + 1, n) = SubSeq(s, b + 1, n)
<1> DEFINE u == SubSeq(s, b + 1, h)
           v == SubSeq(s, h + 1, n)
<1>0. Len(s) \in Nat
  OBVIOUS
<1>1. /\ u \in Seq(S) /\ Len(u) = h - b /\ \A i \in 1 .. h - b : u[i] = s[b + i]
      /\ v \in Seq(S) /\ Len(v) = n - h /\ \A i \in 1 .. n - h : v[i] = s[h + i]
  <2>1. h <= Len(s)
    BY <1>0
  <2> QED BY <2>1, Piece
<1> HIDE DEF u, v
<1>2. /\ u \o v \in Seq(S) /\ Len(u \o v) = Len(u) + Len(v)
      /\ \A i \in 1 .. Len(u) : (u \o v)[i] = u[i]
      /\ \A i \in Len(u) + 1 .. Len(u) + Len(v) :
            i - Len(u) \in 1 .. Len(v) /\ (u \o v)[i] = v[i - Len(u)]
  <2>1. u \in Seq(S) /\ v \in Seq(S)
    BY <1>1
  <2> QED BY <2>1, ConcatFacts, LenProperties
<1> DEFINE w == u \o v
<1>3. /\ w \in Seq(S) /\ Len(w) = n - b
      /\ \A i \in 1 .. n - b : w[i] = s[b + i]
  <2> HIDE DEF w
  <2>1. /\ w \in Seq(S) /\ Len(w) = n - b
        /\ \A i \in 1 .. h - b : w[i] = u[i]
        /\ \A i \in (h - b) + 1 .. n - b : i - (h - b) \in 1 .. n - h /\ w[i] = v[i - (h - b)]
    <3>1. (h - b) + (n - h) = n - b
      OBVIOUS
    <3> QED BY <1>1, <1>2, <3>1 DEF w
  <2>2. ASSUME NEW i \in 1 .. n - b PROVE w[i] = s[b + i]
    <3>1. CASE i \in 1 .. h - b
      BY <1>1, <2>1, <3>1
    <3>2. CASE i \in (h - b) + 1 .. n - b
      <4>1. h + (i - (h - b)) = b + i
        OBVIOUS
      <4> QED BY <1>1, <2>1, <3>2, <4>1
    <3> QED BY <3>1, <3>2
  <2> QED BY <2>1, <2>2
<1> HIDE DEF w
<1>4. b <= n
  OBVIOUS
<1>5. w = SubSeq(s, b + 1, n)
  BY <1>3, <1>4, PieceUnique
<1> QED BY <1>5 DEF w, u, v

\* Dropping the first k bytes of a piece.
LEMMA PieceDropped ==
    ASSUME NEW S, NEW s \in Seq(S), NEW b \in Nat, NEW n \in Nat, b <= n, n <= Len(s),
           NEW k \in 0 .. n - b
    PROVE  From(SubSeq(s, b + 1, n), k + 1) = SubSeq(s, (b + k) + 1, n)
<1> DEFINE u == SubSeq(s, b + 1, n)
           v == SubSeq(u, k + 1, n - b)
<1>1. u \in Seq(S) /\ Len(u) = n - b /\ \A i \in 1 .. n - b : u[i] = s[b + i]
  BY Piece
<1> HIDE DEF u
<1>2. /\ n - b \in Nat /\ k \in Nat /\ k <= n - b /\ b + k \in Nat /\ b + k <= n
      /\ (n - b) - k = n - (b + k)
      /\ \A i \in 1 .. (n - b) - k : k + i \in 1 .. n - b /\ b + (k + i) = (b + k) + i
  OBVIOUS
<1>3. /\ v \in Seq(S) /\ Len(v) = (n - b) - k
      /\ \A i \in 1 .. (n - b) - k : v[i] = u[k + i]
  BY <1>1, <1>2, Piece
<1> HIDE DEF v
<1>4. Len(v) = n - (b + k) /\ \A i \in 1 .. n - (b + k) : v[i] = s[(b + k) + i]
  BY <1>1, <1>2, <1>3
<1>5. v = SubSeq(s, (b + k) + 1, n)
  BY <1>2, <1>3, <1>4, PieceUnique
<1> QED BY <1>1, <1>5 DEF From, u, v

\* What arrives later does not change it.
LEMMA PieceStays ==
    ASSUME NEW S, NEW s \in Seq(S), NEW t \in Seq(S), NEW b \in Nat, NEW n \in Nat,
           b <= n, n <= Len(s)
    PROVE  SubSeq(s \o t, b + 1, n) = SubSeq(s, b + 1, n)
<1> DEFINE u == SubSeq(s \o t, b + 1, n)
           w == s \o t
<1>1. /\ w \in Seq(S) /\ Len(w) = Len(s) + Len(t) /\ Len(s) \in Nat /\ Len(t) \in Nat
      /\ \A i \in 1 .. Len(s) : w[i] = s[i]
  BY ConcatFacts, LenProperties
<1> HIDE DEF w
<1>2. u = SubSeq(w, b + 1, n)
  BY DEF w
<1>3. n <= Len(w) /\ \A i \in 1 .. n - b : b + i \in 1 .. Len(s)
  BY <1>1
<1>4. u \in Seq(S) /\ Len(u) = n - b /\ \A i \in 1 .. n - b : u[i] = w[b + i]
  BY <1>1, <1>2, <1>3, Piece
<1> HIDE DEF u
<1>5. \A i \in 1 .. n - b : u[i] = s[b + i]
  BY <1>1, <1>3, <1>4
<1>6. u = SubSeq(s, b + 1, n)
  BY <1>4, <1>5, PieceUnique
<1> QED BY <1>6 DEF u, w

\* The least element of a set, once it is known.
LEMMA MinIs ==
    ASSUME NEW S \in SUBSET Int, NEW m \in S, \A y \in S : m <= y
    PROVE  Min(S) = m
<1>1. \A x \in S : (\A y \in S : x <= y) => x = m
  <2>1. \A x \in S : m <= x /\ (x <= m => x = m)
    OBVIOUS
  <2> QED BY <2>1
<1> DEFINE Least(x) == x \in S /\ \A y \in S : x <= y
<1>2. Least(CHOOSE x : Least(x))
  <2>1. \E x : Least(x)
    OBVIOUS
  <2> HIDE DEF Least
  <2> QED BY <2>1
<1> QED BY <1>1, <1>2 DEF Min

\* Where the scan ends, once it is known.
LEMMA ScanEnds ==
    ASSUME NEW s \in Seq(0 .. 255), NEW m \in 1 .. Len(s) + 1,
           HeaderAt(s, m) \/ m + 2 > Len(s),
           \A j \in 1 .. m - 1 : ~HeaderAt(s, j) /\ j + 2 <= Len(s)
    PROVE  Scan(s) = From(s, m)
<1> DEFINE ends == {i \in 1 .. Len(s) + 1 : HeaderAt(s, i) \/ i + 2 > Len(s)}
<1>1. ends \in SUBSET Int /\ m \in ends /\ Len(s) \in Nat
  OBVIOUS
<1>2. ASSUME NEW y \in ends PROVE m <= y
  <2>1. y \in 1 .. Len(s) + 1 /\ (HeaderAt(s, y) \/ y + 2 > Len(s))
    OBVIOUS
  <2>2. y \notin 1 .. m - 1
    BY <1>1, <2>1
  <2> QED BY <1>1, <2>1, <2>2
<1> HIDE DEF ends
<1>3. Min(ends) = m
  BY <1>1, <1>2, MinIs
<1> QED BY <1>3 DEF Scan, ends
-----------------------------------------------------------------------------
(* The inductive invariant.                                                *)

\* The bytes of f follow the first b bytes of s.
FrameAt(f, b, s) ==
    /\ b + Len(f.payload) + 4 <= Len(s)
    /\ s[b + 1] = Mark /\ s[b + 2] = f.second /\ s[b + 3] = Len(f.payload)
    /\ \A i \in 1 .. Len(f.payload) : s[b + 3 + i] = f.payload[i]
    /\ s[b + Len(f.payload) + 4] = f.rsi

\* The stream is the frames, one after the other.
StreamIsFrames ==
    /\ Len(air) > 0 /\ Len(begin) = Len(air) + 1
    /\ begin[1] = 0 /\ begin[Len(air) + 1] = Len(stream)
    /\ \A k \in 1 .. Len(air) : /\ FrameAt(air[k], begin[k], stream)
                                /\ begin[k + 1] = begin[k] + Len(air[k].payload) + 4

Rows == [payload : SUBSET Seq(0 .. 255), rsi : SUBSET (0 .. 255)]

GroundTypeOK ==
    /\ air \in Seq(Frames) /\ stream \in Seq(0 .. 255) /\ begin \in Seq(Nat)
    /\ missed \in Nat /\ heard \in Nat /\ heard <= Len(stream)
    /\ receive_buffer \in Seq(0 .. 255) /\ table \in Seq(Rows)

\* A row shows frame f.
RowShows(r, f) ==
    /\ r.rsi \subseteq {f.rsi}
    /\ r.payload = IF r.rsi = {} /\ f.second = Ping THEN {} ELSE {f.payload}

RowsShowFrames ==
    /\ Shown <= Len(air)
    /\ \A i \in 1 .. Len(table) : RowShows(table[i], Sent(i))

\* The bytes of the stream before the first frame no row was made for.
Due == begin[Shown + 1]

NoHeader(s, i) == i < Len(s) => s[i] # Mark \/ s[i + 1] \notin {System, Ping}

\* The buffer is the stream after its first b bytes, as far as it was heard, and before
\* the frame that is due there is nothing that could be taken for one.
Holds(b) ==
    /\ b <= heard /\ b <= Due
    /\ receive_buffer = SubSeq(stream, b + 1, heard)
    /\ \A i \in b + 1 .. Due : NoHeader(stream, i)

GroundInv ==
    /\ GroundTypeOK
    /\ StreamIsFrames
    /\ RowsShowFrames
    /\ \E b \in 0 .. Len(stream) : Holds(b)
-----------------------------------------------------------------------------
\* The bytes of a frame.
LEMMA FrameFacts ==
    ASSUME NEW f \in Frames
    PROVE  /\ f.payload \in Seq(0 .. 255) /\ Len(f.payload) \in 0 .. 203
           /\ f.second \in {System, Ping} /\ f.rsi \in 0 .. 255
<1>1. /\ f.second \in {System, Ping} /\ f.payload \in Reports \union Answers
      /\ f.rsi \in Strengths
  BY DEF Frames
<1>2. f.payload \in Seq(0 .. 255) /\ Len(f.payload) < 204 /\ f.rsi \in 0 .. 255
  BY <1>1, GroundAssumption DEF Mark
<1>3. Len(f.payload) \in 0 .. 203
  <2>1. Len(f.payload) \in Nat
    BY <1>2, LenProperties
  <2>2. \A n \in Nat : n < 204 => n \in 0 .. 203
    OBVIOUS
  <2> QED BY <1>2, <2>1, <2>2
<1> QED BY <1>1, <1>2, <1>3

LEMMA BytesFacts ==
    ASSUME NEW f \in Frames
    PROVE  /\ Bytes(f) \in Seq(0 .. 255) /\ Len(Bytes(f)) = Len(f.payload) + 4
           /\ Bytes(f)[1] = Mark /\ Bytes(f)[2] = f.second /\ Bytes(f)[3] = Len(f.payload)
           /\ \A i \in 1 .. Len(f.payload) : Bytes(f)[3 + i] = f.payload[i]
           /\ Bytes(f)[Len(f.payload) + 4] = f.rsi
<1> DEFINE B == 0 .. 255
           p == f.payload
           l == Len(f.payload)
           h == <<Mark, f.second, l>>
           t == <<f.rsi>>
           w == h \o p
<1>1. p \in Seq(B) /\ l \in Nat /\ l \in B /\ f.second \in B /\ f.rsi \in B /\ Mark \in B
  BY FrameFacts DEF Mark, System, Ping
<1>2. /\ h \in Seq(B) /\ Len(h) = 3 /\ h[1] = Mark /\ h[2] = f.second /\ h[3] = l
      /\ t \in Seq(B) /\ Len(t) = 1 /\ t[1] = f.rsi
  <2> HIDE DEF B, l
  <2> QED BY <1>1
<1>3. Bytes(f) = w \o t
  BY DEF Bytes
<1>4. Len(p) = l
  OBVIOUS
<1> HIDE DEF B, p, l, h, t
<1>5. /\ w \in Seq(B) /\ Len(w) = 3 + l
      /\ w[1] = Mark /\ w[2] = f.second /\ w[3] = l
      /\ \A i \in 1 .. l : w[3 + i] = p[i]
  <2>1. /\ h \o p \in Seq(B) /\ Len(h \o p) = 3 + l
        /\ \A i \in 1 .. 3 : (h \o p)[i] = h[i]
        /\ \A i \in 3 + 1 .. 3 + l : (h \o p)[i] = p[i - 3]
    <3>1. /\ h \o p \in Seq(B) /\ Len(h \o p) = Len(h) + Len(p)
          /\ \A i \in 1 .. Len(h) : (h \o p)[i] = h[i]
          /\ \A i \in Len(h) + 1 .. Len(h) + Len(p) : (h \o p)[i] = p[i - Len(h)]
      BY <1>1, <1>2, ConcatFacts, ConcatProperties, ZenonT(60)
    <3> QED BY <1>2, <1>4, <3>1
  <2>2. \A i \in 1 .. l : 3 + i \in 3 + 1 .. 3 + l /\ (3 + i) - 3 = i
    BY <1>1
  <2>3. 1 \in 1 .. 3 /\ 2 \in 1 .. 3 /\ 3 \in 1 .. 3
    OBVIOUS
  <2> QED BY <1>2, <2>1, <2>2, <2>3
<1> HIDE DEF w
<1>6. /\ w \o t \in Seq(B) /\ Len(w \o t) = (3 + l) + 1
      /\ \A i \in 1 .. 3 + l : (w \o t)[i] = w[i]
      /\ (w \o t)[(3 + l) + 1] = t[1]
  <2>1. /\ w \o t \in Seq(B) /\ Len(w \o t) = Len(w) + Len(t)
        /\ \A i \in 1 .. Len(w) : (w \o t)[i] = w[i]
        /\ \A i \in Len(w) + 1 .. Len(w) + Len(t) : (w \o t)[i] = t[i - Len(w)]
    <3>1. w \in Seq(B) /\ t \in Seq(B)
      BY <1>2, <1>5
    <3> QED BY <3>1, ConcatFacts, ConcatProperties
  <2>2. /\ (3 + l) + 1 \in (3 + l) + 1 .. (3 + l) + 1
        /\ ((3 + l) + 1) - (3 + l) = 1
    BY <1>1
  <2> QED BY <1>2, <1>5, <2>1, <2>2
<1>7. /\ (3 + l) + 1 = l + 4
      /\ 1 \in 1 .. 3 + l /\ 2 \in 1 .. 3 + l /\ 3 \in 1 .. 3 + l
      /\ \A i \in 1 .. l : 3 + i \in 1 .. 3 + l
  BY <1>1
<1>8. /\ Bytes(f) \in Seq(B) /\ Len(Bytes(f)) = l + 4
      /\ Bytes(f)[1] = Mark /\ Bytes(f)[2] = f.second /\ Bytes(f)[3] = l
      /\ \A i \in 1 .. l : Bytes(f)[3 + i] = p[i]
      /\ Bytes(f)[l + 4] = f.rsi
  BY <1>2, <1>3, <1>5, <1>6, <1>7
<1> QED BY <1>8 DEF B, p, l

\* No header starts within a frame behind its first byte, if there is no mark in the
\* payload.
LEMMA PlainHasNoHeader ==
    ASSUME NEW f \in Frames, Plain(f), NEW i \in 2 .. Len(Bytes(f)) - 1
    PROVE  Bytes(f)[i] # Mark
<1> DEFINE l == Len(f.payload)
<1>1. /\ l \in 0 .. 203 /\ f.second \in {System, Ping} /\ Len(Bytes(f)) = l + 4
      /\ Bytes(f)[2] = f.second /\ Bytes(f)[3] = l
      /\ \A j \in 1 .. l : Bytes(f)[3 + j] = f.payload[j]
  BY FrameFacts, BytesFacts
<1>2. \A j \in 1 .. l : f.payload[j] # Mark
  BY FrameFacts, LenProperties DEF Plain
<1> HIDE DEF l
<1>3. i = 2 \/ i = 3 \/ \E j \in 1 .. l : i = 3 + j
  <2>1. i \in 4 .. l + 3 => i - 3 \in 1 .. l /\ i = 3 + (i - 3)
    BY <1>1
  <2> QED BY <1>1, <2>1
<1>4. CASE i = 2
  <2>1. Bytes(f)[i] \in {129, 136}
    BY <1>1, <1>4 DEF System, Ping
  <2> QED BY <2>1 DEF Mark
<1>5. CASE i = 3
  <2>1. Bytes(f)[i] = l
    BY <1>1, <1>5
  <2>2. l # Mark
    BY <1>1 DEF Mark
  <2> QED BY <2>1, <2>2
<1>6. CASE \E j \in 1 .. l : i = 3 + j
  BY <1>1, <1>2, <1>6
<1> QED BY <1>3, <1>4, <1>5, <1>6
-----------------------------------------------------------------------------
\* The frame that is due, where it is.
LEMMA FrameDue ==
    ASSUME GroundInv
    PROVE  /\ Shown \in 0 .. Len(air) /\ Skipped \in {0, 1} /\ Shown = Skipped + Len(table)
           /\ Len(table) \in Nat /\ Len(air) \in Nat /\ Len(stream) \in Nat
           /\ Due \in Nat /\ Due <= Len(stream)
           /\ Shown = Len(air) => Due = Len(stream)
           /\ Shown < Len(air) =>
                 /\ air[Shown + 1] \in Frames /\ FrameAt(air[Shown + 1], Due, stream)
                 /\ begin[Shown + 2] = Due + Len(air[Shown + 1].payload) + 4
<1> USE DEF GroundInv, GroundTypeOK
<1>1. Len(air) \in Nat /\ Len(table) \in Nat /\ Len(stream) \in Nat /\ Len(begin) \in Nat
  BY LenProperties
<1>2. Skipped \in {0, 1} /\ Shown = Skipped + Len(table) /\ Shown <= Len(air)
  BY DEF Skipped, Shown, RowsShowFrames
<1>3. Shown \in 0 .. Len(air) /\ Shown + 1 \in 1 .. Len(begin)
  BY <1>1, <1>2 DEF StreamIsFrames
<1>4. Due \in Nat
  BY <1>3, ElementOfSeq DEF Due
<1>5. Shown = Len(air) => Due = Len(stream)
  BY DEF Due, StreamIsFrames
<1>6. ASSUME Shown < Len(air)
      PROVE  /\ air[Shown + 1] \in Frames /\ FrameAt(air[Shown + 1], Due, stream)
             /\ begin[Shown + 2] = Due + Len(air[Shown + 1].payload) + 4
  <2>1. Shown + 1 \in 1 .. Len(air) /\ (Shown + 1) + 1 = Shown + 2
    BY <1>1, <1>3, <1>6
  <2>2. air[Shown + 1] \in Frames
    BY <2>1, ElementOfSeq
  <2> QED BY <2>1, <2>2 DEF StreamIsFrames, Due
<1>7. Due <= Len(stream)
  <2>1. CASE Shown = Len(air)
    BY <1>1, <1>5, <2>1
  <2>2. CASE Shown < Len(air)
    <3>1. Len(air[Shown + 1].payload) \in Nat
      BY <1>6, <2>2, FrameFacts, LenProperties
    <3>2. Due + Len(air[Shown + 1].payload) + 4 <= Len(stream)
      BY <1>6, <2>2 DEF FrameAt
    <3> QED BY <1>1, <1>4, <3>1, <3>2
  <2> QED BY <1>1, <1>3, <2>1, <2>2
<1> QED BY <1>1, <1>2, <1>3, <1>4, <1>5, <1>6, <1>7

\* The last byte of a frame cannot be taken for the start of a header: the first byte of
\* the next frame follows.
LEMMA NoHeaderAtEnd ==
    ASSUME GroundInv, NEW k \in 1 .. Len(air)
    PROVE  NoHeader(stream, begin[k + 1])
<1> USE DEF GroundInv, GroundTypeOK, StreamIsFrames
<1>1. Len(air) \in Nat /\ Len(stream) \in Nat
  BY LenProperties
<1>2. CASE k = Len(air)
  BY <1>1, <1>2 DEF NoHeader
<1>3. CASE k # Len(air)
  <2>1. k + 1 \in 1 .. Len(air)
    BY <1>1, <1>3
  <2>2. stream[begin[k + 1] + 1] = Mark
    BY <2>1 DEF FrameAt
  <2> QED BY <2>2 DEF NoHeader, Mark, System, Ping
<1> QED BY <1>2, <1>3
-----------------------------------------------------------------------------
LEMMA GroundStart == GroundInit => GroundInv
<1> SUFFICES ASSUME GroundInit PROVE GroundInv
  OBVIOUS
<1>1. PICK f \in Frames : /\ air = <<f>> /\ stream = Bytes(f)
                          /\ begin = <<0, Len(Bytes(f))>>
                          /\ missed \in 0 .. Len(Bytes(f)) /\ (missed > 0 => Plain(f))
  BY DEF GroundInit
<1>2. heard = missed /\ receive_buffer = <<>> /\ table = <<>>
  BY DEF GroundInit
<1> DEFINE n == Len(Bytes(f))
<1>3. /\ Len(f.payload) \in Nat /\ n = Len(f.payload) + 4 /\ n \in Nat
      /\ Bytes(f) \in Seq(0 .. 255)
  BY FrameFacts, BytesFacts
<1>4. /\ air \in Seq(Frames) /\ Len(air) = 1 /\ air[1] = f
      /\ begin \in Seq(Nat) /\ Len(begin) = 2 /\ begin[1] = 0 /\ begin[2] = n
      /\ table \in Seq(Rows) /\ Len(table) = 0 /\ receive_buffer \in Seq(0 .. 255)
  <2> HIDE DEF n
  <2>1. begin = <<0, n>> /\ n \in Nat
    BY <1>1, <1>3 DEF n
  <2> QED BY <1>1, <1>2, <2>1
<1>5. FrameAt(f, 0, stream)
  <2>1. \A i \in Nat : 0 + i = i
    OBVIOUS
  <2>2. \A i \in 1 .. Len(f.payload) : 0 + 3 + i = 3 + i
    OBVIOUS
  <2> QED BY <1>1, <1>3, <2>1, <2>2, BytesFacts DEF FrameAt
<1>6. StreamIsFrames
  <2>1. \A k \in 1 .. 1 : k = 1
    OBVIOUS
  <2>2. 0 + Len(f.payload) + 4 = n /\ 1 > 0 /\ 1 + 1 = 2
    BY <1>3
  <2>3. Len(stream) = n
    BY <1>1
  <2> HIDE DEF n
  <2> QED BY <1>4, <1>5, <2>1, <2>2, <2>3 DEF StreamIsFrames
<1>7. GroundTypeOK
  <2>1. missed \in Nat /\ missed <= n
    BY <1>1, <1>3
  <2> QED BY <1>1, <1>2, <1>3, <1>4, <2>1 DEF GroundTypeOK
<1>8. Shown = Skipped /\ Skipped = (IF missed = 0 THEN 0 ELSE 1)
  BY <1>4 DEF Shown, Skipped
<1>9. RowsShowFrames
  BY <1>4, <1>8 DEF RowsShowFrames
<1>10. Holds(missed)
  <2>1. missed \in Nat /\ receive_buffer = SubSeq(stream, missed + 1, missed)
    BY <1>1, <1>2, <1>3
  <2>2. CASE missed = 0
    <3>1. Due = 0
      BY <1>4, <1>8, <2>2 DEF Due
    <3> QED BY <1>2, <2>1, <2>2, <3>1 DEF Holds
  <2>3. CASE missed # 0
    <3>1. Due = n
      BY <1>4, <1>8, <2>3 DEF Due
    <3>2. missed > 0 /\ Plain(f)
      BY <1>1, <2>1, <2>3
    <3>3. ASSUME NEW i \in missed + 1 .. n PROVE NoHeader(stream, i)
      <4>1. CASE i < n
        <5>1. i \in 2 .. Len(Bytes(f)) - 1
          BY <1>3, <2>1, <3>2, <4>1
        <5> QED BY <1>1, <3>2, <5>1, PlainHasNoHeader DEF NoHeader
      <4>2. CASE ~(i < n)
        BY <1>1, <4>2 DEF NoHeader
      <4> QED BY <4>1, <4>2
    <3> QED BY <1>1, <1>2, <2>1, <3>1, <3>3 DEF Holds
  <2> QED BY <2>2, <2>3
<1> QED BY <1>1, <1>6, <1>7, <1>9, <1>10 DEF GroundInv

\* What arrives later leaves a frame where it is, and adds no header before the end of
\* the last one.
LEMMA FrameStays ==
    ASSUME NEW s \in Seq(0 .. 255), NEW w \in Seq(0 .. 255), NEW f \in Frames, NEW b \in Nat,
           FrameAt(f, b, s)
    PROVE  FrameAt(f, b, s \o w)
<1> DEFINE l == Len(f.payload)
           u == s \o w
<1>1. l \in Nat /\ Len(s) \in Nat /\ Len(w) \in Nat
  BY FrameFacts, LenProperties
<1>2. /\ u \in Seq(0 .. 255) /\ Len(u) = Len(s) + Len(w)
      /\ \A i \in 1 .. Len(s) : u[i] = s[i]
  BY ConcatFacts, ConcatProperties
<1>3. /\ b + l + 4 <= Len(s) /\ s[b + 1] = Mark /\ s[b + 2] = f.second /\ s[b + 3] = l
      /\ \A i \in 1 .. l : s[b + 3 + i] = f.payload[i]
      /\ s[b + l + 4] = f.rsi
  BY DEF FrameAt
<1> HIDE DEF l, u
<1>4. /\ b + 1 \in 1 .. Len(s) /\ b + 2 \in 1 .. Len(s) /\ b + 3 \in 1 .. Len(s)
      /\ b + l + 4 \in 1 .. Len(s) /\ \A i \in 1 .. l : b + 3 + i \in 1 .. Len(s)
  BY <1>1, <1>3
<1>5. /\ b + l + 4 <= Len(u) /\ u[b + 1] = Mark /\ u[b + 2] = f.second /\ u[b + 3] = l
      /\ \A i \in 1 .. l : u[b + 3 + i] = f.payload[i]
      /\ u[b + l + 4] = f.rsi
  <2>1. b + l + 4 <= Len(u)
    BY <1>1, <1>2, <1>3
  <2>2. u[b + 1] = Mark /\ u[b + 2] = f.second /\ u[b + 3] = l /\ u[b + l + 4] = f.rsi
    BY <1>2, <1>3, <1>4
  <2>3. \A i \in 1 .. l : u[b + 3 + i] = f.payload[i]
    BY <1>2, <1>3, <1>4
  <2> QED BY <2>1, <2>2, <2>3
<1> QED BY <1>5 DEF FrameAt, l, u

LEMMA HeaderNeedsMark ==
    ASSUME NEW s \in Seq(0 .. 255), NEW w \in Seq(0 .. 255), Len(w) > 0, w[1] = Mark,
           NEW i \in 1 .. Len(s), NoHeader(s, i)
    PROVE  NoHeader(s \o w, i)
<1> DEFINE u == s \o w
<1>1. /\ Len(s) \in Nat /\ Len(w) \in Nat
      /\ \A j \in 1 .. Len(s) : u[j] = s[j]
      /\ \A j \in Len(s) + 1 .. Len(s) + Len(w) : u[j] = w[j - Len(s)]
  BY ConcatFacts, LenProperties
<1> HIDE DEF u
<1>2. CASE i < Len(s)
  <2>1. i + 1 \in 1 .. Len(s)
    BY <1>1, <1>2
  <2> QED BY <1>1, <1>2, <2>1 DEF NoHeader, u
<1>3. CASE i = Len(s)
  <2>1. i + 1 \in Len(s) + 1 .. Len(s) + Len(w) /\ (i + 1) - Len(s) = 1
    BY <1>1, <1>3
  <2>2. u[i + 1] = Mark
    BY <1>1, <2>1
  <2> QED BY <2>2 DEF NoHeader, u, Mark, System, Ping
<1> QED BY <1>1, <1>2, <1>3

\* The bytes of a frame follow what they are appended to.
LEMMA FrameAppended ==
    ASSUME NEW s \in Seq(0 .. 255), NEW f \in Frames
    PROVE  FrameAt(f, Len(s), s \o Bytes(f))
<1> DEFINE l == Len(f.payload)
           w == Bytes(f)
           u == s \o w
           n == Len(s)
<1>1. /\ l \in Nat /\ n \in Nat /\ w \in Seq(0 .. 255) /\ Len(w) = l + 4
      /\ w[1] = Mark /\ w[2] = f.second /\ w[3] = l
      /\ \A i \in 1 .. l : w[3 + i] = f.payload[i]
      /\ w[l + 4] = f.rsi
  BY FrameFacts, BytesFacts, LenProperties
<1> HIDE DEF w
<1>2. /\ Len(u) = n + Len(w)
      /\ \A i \in n + 1 .. n + Len(w) : u[i] = w[i - n]
  <2>1. w \in Seq(0 .. 255)
    BY <1>1
  <2> QED BY <2>1, ConcatFacts, ConcatProperties
<1> HIDE DEF u, n, l
<1>3. /\ n + 1 \in n + 1 .. n + Len(w) /\ (n + 1) - n = 1
      /\ n + 2 \in n + 1 .. n + Len(w) /\ (n + 2) - n = 2
      /\ n + 3 \in n + 1 .. n + Len(w) /\ (n + 3) - n = 3
      /\ n + l + 4 \in n + 1 .. n + Len(w) /\ (n + l + 4) - n = l + 4
      /\ \A i \in 1 .. l : n + 3 + i \in n + 1 .. n + Len(w) /\ (n + 3 + i) - n = 3 + i
      /\ n + l + 4 <= n + Len(w)
  BY <1>1
<1>4. /\ n + l + 4 <= Len(u) /\ u[n + 1] = Mark /\ u[n + 2] = f.second /\ u[n + 3] = l
      /\ \A i \in 1 .. l : u[n + 3 + i] = f.payload[i]
      /\ u[n + l + 4] = f.rsi
  BY <1>1, <1>2, <1>3
<1> QED BY <1>4 DEF FrameAt, l, u, n, w

\* The next frame arrives.
LEMMA RadioStep ==
    ASSUME GroundInv, RadioReceives
    PROVE  GroundInv'
<1>1. PICK f \in Frames : /\ air' = Append(air, f) /\ stream' = stream \o Bytes(f)
                          /\ begin' = Append(begin, Len(stream) + Len(Bytes(f)))
  BY DEF RadioReceives
<1>2. UNCHANGED <<missed, heard, receive_buffer, table>>
  BY DEF RadioReceives
<1>3. /\ air \in Seq(Frames) /\ stream \in Seq(0 .. 255) /\ begin \in Seq(Nat)
      /\ Len(stream) \in Nat /\ Len(air) \in Nat /\ Len(begin) = Len(air) + 1 /\ Len(air) > 0
  BY LenProperties DEF GroundInv, GroundTypeOK, StreamIsFrames
<1> DEFINE w == Bytes(f)
<1>4. /\ Len(f.payload) \in Nat /\ w \in Seq(0 .. 255) /\ Len(w) = Len(f.payload) + 4
      /\ Len(w) > 0 /\ w[1] = Mark
  BY FrameFacts, BytesFacts
<1>5. PICK n \in Nat, m \in Nat, l \in Nat :
         n = Len(stream) /\ m = Len(air) /\ l = Len(f.payload)
  BY <1>3, <1>4
<1> HIDE DEF w
<1>6. /\ air' \in Seq(Frames) /\ Len(air') = m + 1 /\ air'[m + 1] = f
      /\ \A k \in 1 .. m : air'[k] = air[k]
  BY <1>1, <1>3, <1>5, AppendFacts
<1>7. /\ begin' \in Seq(Nat) /\ Len(begin') = m + 2 /\ begin'[m + 2] = n + l + 4
      /\ \A k \in 1 .. m + 1 : begin'[k] = begin[k]
  <2>1. begin' = Append(begin, n + (l + 4)) /\ n + (l + 4) \in Nat
    BY <1>1, <1>4, <1>5 DEF w
  <2>2. /\ begin' \in Seq(Nat) /\ Len(begin') = (m + 1) + 1
        /\ begin'[(m + 1) + 1] = n + (l + 4)
        /\ \A k \in 1 .. m + 1 : begin'[k] = begin[k]
    BY <1>3, <1>5, <2>1, AppendFacts
  <2>3. (m + 1) + 1 = m + 2 /\ n + (l + 4) = n + l + 4
    OBVIOUS
  <2> QED BY <2>2, <2>3
<1>8. /\ stream' = stream \o w /\ stream' \in Seq(0 .. 255)
      /\ Len(stream') = n + l + 4
  <2>1. stream' = stream \o w
    BY <1>1 DEF w
  <2>2. stream \o w \in Seq(0 .. 255) /\ Len(stream \o w) = Len(stream) + Len(w)
    BY <1>3, <1>4, ConcatProperties
  <2> QED BY <1>4, <1>5, <2>1, <2>2
<1>9. StreamIsFrames'
  <2>1. /\ begin[1] = 0 /\ begin[m + 1] = n
        /\ \A k \in 1 .. m : /\ FrameAt(air[k], begin[k], stream)
                             /\ begin[k + 1] = begin[k] + Len(air[k].payload) + 4
    BY <1>5 DEF GroundInv, StreamIsFrames
  <2>2. ASSUME NEW k \in 1 .. m + 1
        PROVE  /\ FrameAt(air'[k], begin'[k], stream')
               /\ begin'[k + 1] = begin'[k] + Len(air'[k].payload) + 4
    <3>1. CASE k \in 1 .. m
      <4>1. k \in 1 .. m + 1 /\ k + 1 \in 1 .. m + 1
        BY <3>1
      <4>2. air'[k] = air[k] /\ begin'[k] = begin[k] /\ begin'[k + 1] = begin[k + 1]
        BY <1>6, <1>7, <3>1, <4>1
      <4>3. air[k] \in Frames /\ begin[k] \in Nat
        BY <1>3, <1>5, <3>1, <4>1, ElementOfSeq
      <4>4. FrameAt(air[k], begin[k], stream \o w)
        BY <1>3, <1>4, <2>1, <3>1, <4>3, FrameStays
      <4> QED BY <1>8, <2>1, <3>1, <4>2, <4>4
    <3>2. CASE k = m + 1
      <4>1. /\ air'[k] = f /\ begin'[k] = n /\ begin'[k + 1] = n + l + 4
        <5>1. m + 1 \in 1 .. m + 1 /\ (m + 1) + 1 = m + 2
          OBVIOUS
        <5> QED BY <1>6, <1>7, <2>1, <3>2, <5>1
      <4>2. FrameAt(f, n, stream')
        BY <1>3, <1>5, <1>8, FrameAppended DEF w
      <4> QED BY <1>5, <4>1, <4>2
    <3> QED BY <3>1, <3>2
  <2>3. begin'[1] = 0 /\ begin'[(m + 1) + 1] = Len(stream')
    <3>1. 1 \in 1 .. m + 1 /\ (m + 1) + 1 = m + 2
      OBVIOUS
    <3> QED BY <1>7, <1>8, <2>1, <3>1
  <2>4. Len(air') > 0 /\ Len(begin') = Len(air') + 1
    BY <1>6, <1>7
  <2> QED BY <1>6, <2>2, <2>3, <2>4 DEF StreamIsFrames
<1>10. /\ Shown' = Shown /\ Skipped' = Skipped /\ Shown \in 0 .. m /\ Skipped \in {0, 1}
       /\ Len(table) \in Nat /\ Shown = Skipped + Len(table)
  BY <1>2, <1>5, FrameDue DEF Shown, Skipped
<1>11. RowsShowFrames'
  <2>1. Shown' <= Len(air')
    BY <1>6, <1>10
  <2>2. ASSUME NEW i \in 1 .. Len(table) PROVE Sent(i)' = Sent(i)
    <3>1. Skipped + i \in 1 .. m
      BY <1>10
    <3> QED BY <1>6, <1>10, <3>1 DEF Sent
  <2>3. \A i \in 1 .. Len(table) : RowShows(table[i], Sent(i))
    BY DEF GroundInv, RowsShowFrames
  <2>4. \A i \in 1 .. Len(table) : RowShows(table[i], Sent(i)')
    BY <2>2, <2>3
  <2> QED BY <1>2, <2>1, <2>4 DEF RowsShowFrames, RowShows
<1>12. Due' = Due /\ Due \in Nat /\ Due <= n
  <2>1. Shown + 1 \in 1 .. m + 1
    BY <1>10
  <2> QED BY <1>5, <1>7, <1>10, <2>1, FrameDue DEF Due
<1>13. /\ heard \in Nat /\ heard <= n
  BY <1>5 DEF GroundInv, GroundTypeOK
<1>14. ASSUME NEW b \in 0 .. n, Holds(b) PROVE Holds(b)'
  <2>1. /\ b <= heard /\ b <= Due /\ receive_buffer = SubSeq(stream, b + 1, heard)
        /\ \A i \in b + 1 .. Due : NoHeader(stream, i)
    BY <1>14 DEF Holds
  <2>2. SubSeq(stream', b + 1, heard) = SubSeq(stream, b + 1, heard)
    BY <1>3, <1>4, <1>5, <1>8, <1>13, <2>1, PieceStays, SMTT(60)
  <2>3. ASSUME NEW i \in b + 1 .. Due PROVE NoHeader(stream', i)
    <3>1. i \in 1 .. Len(stream)
      BY <1>5, <1>12
    <3> QED BY <1>3, <1>4, <1>8, <2>1, <3>1, HeaderNeedsMark
  <2> QED BY <1>2, <1>12, <2>1, <2>2, <2>3 DEF Holds
<1>15. GroundTypeOK'
  <2>1. heard <= n + l + 4
    BY <1>13
  <2> QED BY <1>2, <1>6, <1>7, <1>8, <1>13, <2>1 DEF GroundInv, GroundTypeOK
<1>16. \E b \in 0 .. Len(stream') : Holds(b)'
  <2>1. PICK b \in 0 .. n : Holds(b)
    BY <1>5 DEF GroundInv
  <2>2. b \in 0 .. Len(stream')
    BY <1>8
  <2> QED BY <1>14, <2>1, <2>2
<1> QED BY <1>9, <1>11, <1>15, <1>16 DEF GroundInv
-----------------------------------------------------------------------------
\* The scan drops what is before the frame that is due, but nothing of that frame; and it
\* drops too little only if that frame's header is not complete.
LEMMA ScanStopsAtFrame ==
    ASSUME GroundInv, NEW b \in 0 .. Len(stream), Holds(b), NEW n \in heard + 1 .. Len(stream)
    PROVE  \E c \in b .. n :
              /\ Scan(receive_buffer \o SubSeq(stream, heard + 1, n)) = SubSeq(stream, c + 1, n)
              /\ c <= Due /\ (n < c + 3 \/ (c = Due /\ Due + 3 <= n))
<1> DEFINE u == receive_buffer \o SubSeq(stream, heard + 1, n)
<1>1. /\ stream \in Seq(0 .. 255) /\ Len(stream) \in Nat /\ heard \in Nat
      /\ n \in Nat /\ b \in Nat /\ b <= heard /\ heard <= n /\ n <= Len(stream) /\ b <= n
      /\ Due \in Nat /\ b <= Due
  <2>1. /\ stream \in Seq(0 .. 255) /\ Len(stream) \in Nat /\ heard \in Nat
        /\ Due \in Nat
    BY FrameDue DEF GroundInv, GroundTypeOK
  <2>2. b <= heard /\ b <= Due
    BY DEF Holds
  <2>3. \A h, l \in Nat : \A m \in h + 1 .. l : \A a \in 0 .. l :
           a <= h => m \in Nat /\ a \in Nat /\ h <= m /\ m <= l /\ a <= m
    OBVIOUS
  <2>4. n \in Nat /\ b \in Nat /\ heard <= n /\ n <= Len(stream) /\ b <= n
    BY <2>1, <2>2, <2>3
  <2> QED BY <2>1, <2>2, <2>4
<1>2. u = SubSeq(stream, b + 1, n)
  BY <1>1, PieceGrows DEF Holds
<1> HIDE DEF u
<1>3. /\ u \in Seq(0 .. 255) /\ Len(u) = n - b
      /\ \A i \in 1 .. n - b : u[i] = stream[b + i]
  <2>1. /\ SubSeq(stream, b + 1, n) \in Seq(0 .. 255) /\ Len(SubSeq(stream, b + 1, n)) = n - b
        /\ \A i \in 1 .. n - b : SubSeq(stream, b + 1, n)[i] = stream[b + i]
    BY ONLY <1>1, PieceOfBytes, ZenonT(60)
  <2> QED BY <1>2, <2>1
<1>4. ASSUME NEW j \in 1 .. n - b, b + j <= Due PROVE ~HeaderAt(u, j)
  <2>1. CASE j + 2 > n - b
    BY <1>3, <2>1 DEF HeaderAt
  <2>2. CASE j + 2 <= n - b
    <3>1. /\ j + 1 \in 1 .. n - b /\ b + j \in b + 1 .. Due /\ b + j < Len(stream)
          /\ b + (j + 1) = (b + j) + 1
      BY <1>1, <1>4, <2>2
    <3>2. u[j] = stream[b + j] /\ u[j + 1] = stream[(b + j) + 1]
      BY <1>3, <3>1
    <3>3. NoHeader(stream, b + j)
      BY <3>1 DEF Holds
    <3> QED BY <3>1, <3>2, <3>3 DEF NoHeader, HeaderAt
  <2> QED BY <1>1, <2>1, <2>2
<1>5. ASSUME NEW c \in b .. n, c <= Due, HeaderAt(u, (c - b) + 1) \/ n < c + 3,
             c = b \/ c + 2 <= n
      PROVE  Scan(u) = SubSeq(stream, c + 1, n)
  <2>1. /\ (c - b) + 1 \in 1 .. Len(u) + 1 /\ c - b \in 0 .. n - b /\ b + (c - b) = c
        /\ n < c + 3 => ((c - b) + 1) + 2 > Len(u)
    BY <1>1, <1>3
  <2>2. ASSUME NEW j \in 1 .. ((c - b) + 1) - 1 PROVE ~HeaderAt(u, j) /\ j + 2 <= Len(u)
    <3>1. j \in 1 .. n - b /\ b + j <= Due /\ j + 2 <= n - b
      BY <1>1, <1>5
    <3> QED BY <1>3, <1>4, <3>1
  <2>3. Scan(u) = From(u, (c - b) + 1)
    BY <1>3, <1>5, <2>1, <2>2, ScanEnds
  <2>4. From(u, (c - b) + 1) = SubSeq(stream, (b + (c - b)) + 1, n)
    BY <1>1, <1>2, <2>1, PieceDropped, ZenonT(60)
  <2> QED BY <2>1, <2>3, <2>4
<1>6. CASE Due + 3 <= n
  <2>1. Shown < Len(air)
    BY <1>1, <1>6, FrameDue
  <2>2. /\ stream[Due + 1] = Mark /\ stream[Due + 2] \in {System, Ping}
    BY <2>1, FrameDue, FrameFacts DEF FrameAt
  <2>3. /\ (Due - b) + 1 \in 1 .. n - b /\ ((Due - b) + 1) + 1 \in 1 .. n - b
        /\ b + ((Due - b) + 1) = Due + 1 /\ b + (((Due - b) + 1) + 1) = Due + 2
        /\ ((Due - b) + 1) + 2 <= n - b
        /\ Due \in b .. n
    BY <1>1, <1>6
  <2>4. HeaderAt(u, (Due - b) + 1)
    BY <1>3, <2>2, <2>3 DEF HeaderAt
  <2>5. Due <= Due /\ Due + 2 <= n
    BY <1>1, <1>6
  <2>6. Scan(u) = SubSeq(stream, Due + 1, n)
    BY <1>5, <2>3, <2>4, <2>5
  <2> QED BY <1>6, <2>3, <2>5, <2>6 DEF u
<1>7. CASE n < Due + 3 /\ n - b <= 2
  <2>1. b \in b .. n /\ n < b + 3
    BY <1>1, <1>7
  <2>2. Scan(u) = SubSeq(stream, b + 1, n)
    BY <1>1, <1>5, <2>1
  <2> QED BY <1>1, <2>1, <2>2 DEF u
<1>8. CASE n < Due + 3 /\ n - b > 2
  <2>1. PICK c \in b .. n : c = n - 2
    BY <1>1, <1>8
  <2>2. c <= Due /\ n < c + 3 /\ c + 2 <= n
    BY <1>1, <1>8, <2>1
  <2>3. Scan(u) = SubSeq(stream, c + 1, n)
    BY <1>5, <2>1, <2>2
  <2> QED BY <2>1, <2>2, <2>3 DEF u
<1> QED BY <1>1, <1>6, <1>7, <1>8

\* What is left of the buffer when a row was made.
Rest(s) == From(s, s[3] + 5)

\* The row shows frame f, which follows the first c bytes of t, and the rest is what
\* follows f in the first n bytes of t.
RowMade(s, f, c, n, t) ==
    /\ c + Len(f.payload) + 3 <= n
    /\ Row(s) \in Rows /\ RowShows(Row(s), f)
    /\ n = c + Len(f.payload) + 3 => Rest(s) = <<>>
    /\ \A d \in Nat : d = c + Len(f.payload) + 4 /\ d <= n => Rest(s) = SubSeq(t, d + 1, n)

\* A frame that is complete but for its RSI makes a row, and takes the bytes it has out of
\* the buffer.
LEMMA RowOfFrame ==
    ASSUME NEW t \in Seq(0 .. 255), NEW f \in Frames, NEW c \in Nat, NEW n \in Nat,
           c <= n, n <= Len(t), FrameAt(f, c, t), NEW s, s = SubSeq(t, c + 1, n), Whole(s)
    PROVE  RowMade(s, f, c, n, t)
<1>1. PICK l \in Nat : l = Len(f.payload)
  BY FrameFacts
<1>2. /\ f.payload \in Seq(0 .. 255) /\ f.second \in {System, Ping} /\ f.rsi \in 0 .. 255
      /\ Len(t) \in Nat
  BY FrameFacts, LenProperties
<1>3. s \in Seq(0 .. 255) /\ Len(s) = n - c /\ \A i \in 1 .. n - c : s[i] = t[c + i]
  <2>1. /\ SubSeq(t, c + 1, n) \in Seq(0 .. 255) /\ Len(SubSeq(t, c + 1, n)) = n - c
        /\ \A i \in 1 .. n - c : SubSeq(t, c + 1, n)[i] = t[c + i]
    BY PieceOfBytes, ZenonT(60)
  <2> QED BY <2>1
<1>4. /\ t[c + 1] = Mark /\ t[c + 2] = f.second /\ t[c + 3] = l
      /\ \A i \in 1 .. l : t[c + 3 + i] = f.payload[i]
      /\ t[c + l + 4] = f.rsi
  BY <1>1 DEF FrameAt
<1>5. 3 <= n - c
  BY <1>3 DEF Whole, HeaderAt
<1>6. s[3] = l /\ s[2] = f.second
  <2>1. 3 \in 1 .. n - c /\ 2 \in 1 .. n - c
    BY <1>5
  <2> QED BY <1>3, <1>4, <2>1
<1>7. l + 3 <= n - c
  BY <1>3, <1>6 DEF Whole
<1>8. SubSeq(s, 4, l + 3) = f.payload
  <2>1. l = (l + 3) - 3 /\ 3 <= l + 3 /\ l + 3 \in Nat /\ 3 \in Nat /\ 3 + 1 = 4
        /\ l + 3 <= Len(s) /\ Len(f.payload) = (l + 3) - 3
    BY <1>1, <1>3, <1>7
  <2>2. ASSUME NEW i \in 1 .. (l + 3) - 3 PROVE f.payload[i] = s[3 + i]
    <3>1. 3 + i \in 1 .. n - c /\ i \in 1 .. l /\ c + (3 + i) = c + 3 + i
      BY <1>7, <2>1
    <3> QED BY <1>3, <1>4, <3>1
  <2>3. f.payload = SubSeq(s, 3 + 1, l + 3)
    <3>1. s \in Seq(0 .. 255) /\ f.payload \in Seq(0 .. 255)
      BY <1>2, <1>3
    <3> QED BY ONLY <2>1, <2>2, <3>1, PieceUnique
  <2> QED BY <2>1, <2>3
<1>9. Min({s[3] + 3, Len(s)}) = l + 3
  <2>1. {l + 3, n - c} \in SUBSET Int /\ l + 3 \in {l + 3, n - c}
        /\ \A y \in {l + 3, n - c} : l + 3 <= y
    BY <1>7
  <2>2. Min({l + 3, n - c}) = l + 3
    BY <2>1, MinIs
  <2> QED BY <1>3, <1>6, <2>2
<1>10. Row(s) = IF n - c > l + 3 THEN [payload |-> {f.payload}, rsi |-> {s[l + 4]}]
                ELSE [payload |-> IF f.second = System THEN {f.payload} ELSE {}, rsi |-> {}]
  BY <1>3, <1>6, <1>8, <1>9 DEF Row
<1>11. n - c > l + 3 => s[l + 4] = f.rsi
  <2>1. n - c > l + 3 => l + 4 \in 1 .. n - c /\ c + (l + 4) = c + l + 4
    OBVIOUS
  <2> QED BY <1>3, <1>4, <2>1
<1>12. Row(s) \in Rows /\ RowShows(Row(s), f)
  <2>1. CASE n - c > l + 3
    <3>1. Row(s) = [payload |-> {f.payload}, rsi |-> {f.rsi}]
      BY <1>10, <1>11, <2>1
    <3>2. Row(s).payload = {f.payload} /\ Row(s).rsi = {f.rsi}
      BY <3>1
    <3>3. {f.payload} \in SUBSET Seq(0 .. 255) /\ {f.rsi} \in SUBSET (0 .. 255)
      BY <1>2
    <3>4. Row(s) \in Rows
      <4>1. \A P \in SUBSET Seq(0 .. 255), Q \in SUBSET (0 .. 255) :
               [payload |-> P, rsi |-> Q] \in Rows
        BY DEF Rows
      <4> QED BY <3>1, <3>3, <4>1
    <3> QED BY <3>2, <3>4 DEF RowShows
  <2>2. CASE ~(n - c > l + 3)
    <3>1. Row(s) = [payload |-> IF f.second = System THEN {f.payload} ELSE {}, rsi |-> {}]
      BY <1>10, <2>2
    <3>2. f.second = Ping <=> f.second # System
      BY <1>2 DEF Ping, System
    <3>3. Row(s).payload = (IF f.second = Ping THEN {} ELSE {f.payload}) /\ Row(s).rsi = {}
      <4>1. CASE f.second = System
        <5>1. Row(s) = [payload |-> {f.payload}, rsi |-> {}]
          BY <3>1, <4>1
        <5> QED BY <3>2, <4>1, <5>1
      <4>2. CASE f.second # System
        <5>1. Row(s) = [payload |-> {}, rsi |-> {}]
          BY <3>1, <4>2
        <5>2. f.second = Ping
          BY <3>2, <4>2
        <5>3. Row(s).payload = {} /\ Row(s).rsi = {}
          BY <5>1
        <5> QED BY <5>2, <5>3
      <4> QED BY <4>1, <4>2
    <3>4. {f.payload} \in SUBSET Seq(0 .. 255) /\ {} \in SUBSET Seq(0 .. 255)
          /\ {} \in SUBSET (0 .. 255)
      BY <1>2
    <3>5. (IF f.second = System THEN {f.payload} ELSE {}) \in SUBSET Seq(0 .. 255)
      BY <3>4
    <3>6. Row(s) \in Rows
      BY <3>1, <3>4, <3>5 DEF Rows
    <3> QED BY <3>3, <3>6 DEF RowShows
  <2> QED BY <2>1, <2>2
<1>13. n = c + l + 3 => Rest(s) = <<>>
  <2>1. n = c + l + 3 => Len(s) = l + 3
    BY <1>3
  <2>2. SubSeq(s, l + 5, l + 3) = <<>>
    BY <1>3
  <2> QED BY <1>6, <2>1, <2>2 DEF From, Rest
<1>14. ASSUME NEW d \in Nat, d = c + l + 4, d <= n PROVE Rest(s) = SubSeq(t, d + 1, n)
  <2>1. l + 4 \in 0 .. n - c /\ (l + 4) + 1 = l + 5 /\ c + (l + 4) = d
    BY <1>14
  <2>2. From(s, (l + 4) + 1) = SubSeq(t, (c + (l + 4)) + 1, n)
    BY <2>1, PieceDropped
  <2> QED BY <1>6, <2>1, <2>2 DEF Rest
<1>15. c + l + 3 <= n
  BY <1>7
<1> QED BY <1>1, <1>12, <1>13, <1>14, <1>15 DEF RowMade

\* A piece of the stream is handed over.
LEMMA ReadStep ==
    ASSUME GroundInv, OnSerialRead
    PROVE  GroundInv'
<1>1. PICK n \in heard + 1 .. Len(stream) :
         LET s == Scan(receive_buffer \o SubSeq(stream, heard + 1, n)) IN
         /\ heard' = n
         /\ IF Whole(s) THEN table' = Append(table, Row(s)) /\ receive_buffer' = From(s, s[3] + 5)
                        ELSE receive_buffer' = s /\ UNCHANGED table
         /\ UNCHANGED <<air, stream, begin, missed>>
  BY DEF OnSerialRead
<1>2. PICK b \in 0 .. Len(stream) : Holds(b)
  BY DEF GroundInv
<1>3. PICK c \in b .. n :
         /\ Scan(receive_buffer \o SubSeq(stream, heard + 1, n)) = SubSeq(stream, c + 1, n)
         /\ c <= Due /\ (n < c + 3 \/ (c = Due /\ Due + 3 <= n))
  BY <1>2, ScanStopsAtFrame
<1> DEFINE s == SubSeq(stream, c + 1, n)
<1>4. /\ heard' = n /\ UNCHANGED <<air, stream, begin, missed>>
      /\ Whole(s) => table' = Append(table, Row(s)) /\ receive_buffer' = From(s, s[3] + 5)
      /\ ~Whole(s) => receive_buffer' = s /\ UNCHANGED table
  BY <1>1, <1>3
<1>5. /\ stream \in Seq(0 .. 255) /\ Len(stream) \in Nat /\ n \in Nat /\ n <= Len(stream)
      /\ c \in Nat /\ c <= n /\ Due \in Nat /\ heard \in Nat
  BY FrameDue DEF GroundInv, GroundTypeOK
<1>6. s \in Seq(0 .. 255) /\ Len(s) = n - c
  BY <1>5, PieceOfBytes
<1> HIDE DEF s
<1>7. StreamIsFrames'
  BY <1>4 DEF GroundInv, StreamIsFrames
<1>8. Skipped' = Skipped
  BY <1>4 DEF Skipped
<1>9. CASE ~Whole(s)
  <2>1. receive_buffer' = s /\ UNCHANGED table
    BY <1>4, <1>9
  <2>2. Due' = Due /\ Shown' = Shown
    BY <1>4, <1>8, <2>1 DEF Due, Shown
  <2>3. RowsShowFrames'
    BY <1>4, <1>8, <2>1, <2>2 DEF GroundInv, RowsShowFrames, Sent
  <2>4. GroundTypeOK'
    BY <1>4, <1>5, <1>6, <2>1 DEF GroundInv, GroundTypeOK
  <2>5. Holds(c)'
    <3>1. \A i \in c + 1 .. Due : NoHeader(stream, i)
      <4>1. \A i \in c + 1 .. Due : i \in b + 1 .. Due
        OBVIOUS
      <4> QED BY <1>2, <4>1 DEF Holds
    <3>2. /\ c <= heard' /\ c <= Due' /\ receive_buffer' = SubSeq(stream', c + 1, heard')
          /\ \A i \in c + 1 .. Due' : NoHeader(stream', i)
      BY <1>3, <1>4, <1>5, <2>1, <2>2, <3>1 DEF s
    <3> QED BY <3>2 DEF Holds
  <2>6. c \in 0 .. Len(stream')
    BY <1>4, <1>5
  <2> QED BY <1>7, <2>3, <2>4, <2>5, <2>6 DEF GroundInv
<1>10. CASE Whole(s)
  <2>1. c = Due /\ Due + 3 <= n
    <3>1. 3 <= n - c
      BY <1>6, <1>10 DEF Whole, HeaderAt
    <3> QED BY <1>3, <1>5, <3>1
  <2>2. /\ Shown < Len(air) /\ Shown \in Nat /\ Len(air) \in Nat /\ Len(table) \in Nat
        /\ Skipped \in {0, 1} /\ Shown = Skipped + Len(table)
    BY <1>5, <2>1, FrameDue
  <2>3. PICK f \in Frames : /\ f = air[Shown + 1] /\ FrameAt(f, Due, stream)
                            /\ begin[Shown + 2] = Due + Len(f.payload) + 4
    BY <2>2, FrameDue
  <2>4. PICK l \in Nat : l = Len(f.payload)
    BY FrameFacts
  <2>5. /\ c + l + 3 <= n /\ Row(s) \in Rows /\ RowShows(Row(s), f)
        /\ n = c + l + 3 => Rest(s) = <<>>
        /\ \A d \in Nat : d = c + l + 4 /\ d <= n => Rest(s) = SubSeq(stream, d + 1, n)
    <3>1. PICK t \in Seq(0 .. 255) : t = stream
      BY <1>5
    <3>2. PICK x : x = s
      OBVIOUS
    <3>3. FrameAt(f, c, t) /\ x = SubSeq(t, c + 1, n)
      BY <2>1, <2>3, <3>1, <3>2 DEF s
    <3>4. c \in Nat /\ n \in Nat /\ c <= n /\ n <= Len(t) /\ Whole(x) /\ f \in Frames
      BY <1>5, <1>10, <3>1, <3>2
    <3>5. RowMade(x, f, c, n, t)
      BY <3>3, <3>4, RowOfFrame
    <3> QED BY <2>4, <3>1, <3>2, <3>5 DEF RowMade
  <2>6. table' = Append(table, Row(s)) /\ receive_buffer' = Rest(s)
    BY <1>4, <1>10 DEF Rest
  <2>7. /\ table' \in Seq(Rows) /\ Len(table') = Len(table) + 1
        /\ \A i \in 1 .. Len(table) : table'[i] = table[i]
        /\ table'[Len(table) + 1] = Row(s)
    BY <2>5, <2>6, AppendFacts DEF GroundInv, GroundTypeOK
  <2>8. Shown' = Shown + 1 /\ Due' = c + l + 4
    <3>1. Shown' = Shown + 1
      BY <1>8, <2>2, <2>7 DEF Shown
    <3>2. (Shown + 1) + 1 = Shown + 2
      BY <2>2
    <3> QED BY <1>4, <2>1, <2>3, <2>4, <3>1, <3>2 DEF Due
  <2>9. RowsShowFrames'
    <3>1. Shown' <= Len(air')
      BY <1>4, <2>2, <2>8
    <3>2. ASSUME NEW i \in 1 .. Len(table) + 1 PROVE RowShows(table'[i], air[Skipped + i])
      <4>1. CASE i \in 1 .. Len(table)
        <5>1. RowShows(table[i], air[Skipped + i])
          BY <4>1 DEF GroundInv, RowsShowFrames, Sent
        <5> QED BY <2>7, <4>1, <5>1
      <4>2. CASE i = Len(table) + 1
        <5>1. Skipped + i = Shown + 1
          BY <2>2, <4>2
        <5> QED BY <2>3, <2>5, <2>7, <4>2, <5>1
      <4> QED BY <2>2, <4>1, <4>2
    <3>3. Sent(0)' = Sent(0) /\ \A i \in 1 .. Len(table) + 1 : Sent(i)' = air[Skipped + i]
      BY <1>4, <1>8 DEF Sent
    <3>4. \A i \in 1 .. Len(table') : RowShows(table'[i], Sent(i)')
      BY <2>7, <3>2, <3>3
    <3> QED BY <3>1, <3>4 DEF RowsShowFrames, RowShows
  <2>10. CASE c + l + 4 <= n
    <3>1. receive_buffer' = SubSeq(stream, (c + l + 4) + 1, n)
      <4>1. PICK d \in Nat : d = c + l + 4
        BY <1>5
      <4> QED BY <2>5, <2>6, <2>10, <4>1
    <3>2. receive_buffer' \in Seq(0 .. 255)
      <4>1. c + l + 4 \in Nat
        BY <1>5
      <4>2. SubSeq(stream, (c + l + 4) + 1, n) \in Seq(0 .. 255)
        BY <1>5, <2>10, <4>1, PieceOfBytes
      <4> QED BY <3>1, <4>2
    <3>3. GroundTypeOK'
      BY <1>4, <1>5, <2>7, <3>2 DEF GroundInv, GroundTypeOK
    <3>4. PICK d \in 0 .. Len(stream') : d = c + l + 4
      BY <1>4, <1>5, <2>10
    <3>5. Holds(d)'
      <4>1. \A i \in d + 1 .. d : NoHeader(stream', i)
        OBVIOUS
      <4>2. d <= n /\ d <= d
        BY <2>10, <3>4
      <4>3. /\ d <= heard' /\ d <= Due' /\ receive_buffer' = SubSeq(stream', d + 1, heard')
            /\ \A i \in d + 1 .. Due' : NoHeader(stream', i)
        BY <1>4, <2>8, <3>1, <3>4, <4>1, <4>2
      <4> QED BY <4>3 DEF Holds
    <3> QED BY <1>7, <2>9, <3>3, <3>4, <3>5 DEF GroundInv
  <2>11. CASE ~(c + l + 4 <= n)
    <3>1. n = c + l + 3 /\ Due' = n + 1
      BY <1>5, <2>5, <2>8, <2>11
    <3>2. receive_buffer' = <<>> /\ receive_buffer' \in Seq(0 .. 255)
      <4>1. receive_buffer' = <<>>
        BY <2>5, <2>6, <3>1
      <4> QED BY <4>1
    <3>3. GroundTypeOK'
      BY <1>4, <1>5, <2>7, <3>2 DEF GroundInv, GroundTypeOK
    <3>4. NoHeader(stream, n + 1)
      <4>1. Shown + 1 \in 1 .. Len(air) /\ (Shown + 1) + 1 = Shown + 2
        BY <2>2
      <4>2. begin[Shown + 2] = n + 1
        BY <1>5, <2>1, <2>3, <2>4, <3>1
      <4>3. NoHeader(stream, begin[(Shown + 1) + 1])
        BY <4>1, NoHeaderAtEnd
      <4> QED BY <4>1, <4>2, <4>3
    <3>5. Holds(n)'
      <4>1. SubSeq(stream, n + 1, n) = <<>>
        BY <1>5
      <4>2. \A i \in n + 1 .. n + 1 : i = n + 1
        BY <1>5
      <4>3. n <= n /\ n <= n + 1
        BY <1>5
      <4>4. /\ n <= heard' /\ n <= Due' /\ receive_buffer' = SubSeq(stream', n + 1, heard')
            /\ \A i \in n + 1 .. Due' : NoHeader(stream', i)
        BY <1>4, <3>1, <3>2, <3>4, <4>1, <4>2, <4>3
      <4> QED BY <4>4 DEF Holds
    <3>6. n \in 0 .. Len(stream')
      BY <1>4, <1>5
    <3> QED BY <1>7, <2>9, <3>3, <3>5, <3>6 DEF GroundInv
  <2> QED BY <2>10, <2>11
<1> QED BY <1>9, <1>10

LEMMA GroundStuttering ==
    ASSUME GroundInv, UNCHANGED ground
    PROVE  GroundInv'
<1>1. UNCHANGED <<air, stream, begin, missed, heard, receive_buffer, table>>
  BY DEF ground
<1>2. Skipped' = Skipped /\ Shown' = Shown /\ Due' = Due
  BY <1>1 DEF Skipped, Shown, Due
<1>3. GroundTypeOK' /\ StreamIsFrames'
  BY <1>1 DEF GroundInv, GroundTypeOK, StreamIsFrames
<1>4. RowsShowFrames'
  BY <1>1, <1>2 DEF GroundInv, RowsShowFrames, Sent
<1>5. PICK b \in 0 .. Len(stream) : Holds(b)
  BY DEF GroundInv
<1>6. Holds(b)'
  BY <1>1, <1>2, <1>5 DEF Holds
<1> QED BY <1>1, <1>3, <1>4, <1>5, <1>6 DEF GroundInv

\* The stream is the frames one after the other, the rows are the frames shown, and the
\* buffer is the stream from a place before the frame that is due, without a header in
\* between (Taros_GCS.py:103-139).
THEOREM GroundInvariant == GroundSpec => []GroundInv
<1>1. GroundInv /\ [GroundNext]_ground => GroundInv'
  BY RadioStep, ReadStep, GroundStuttering DEF GroundNext
<1> QED BY <1>1, GroundStart, PTL DEF GroundSpec

\* Frames of any number and content, cut into pieces anywhere and entered anywhere: none is
\* torn, left out or shown twice (Taros_GCS.py:113-139).
THEOREM FramesShownAsSent == GroundSpec => []FramesAsSent
<1>1. GroundInv => FramesAsSent
  <2> SUFFICES ASSUME GroundInv PROVE FramesAsSent
    OBVIOUS
  <2>1. table \in Seq(Rows) /\ DOMAIN table = 1 .. Len(table)
    BY LenProperties DEF GroundInv, GroundTypeOK
  <2>2. PICK b \in 0 .. Len(stream) : Holds(b)
    BY DEF GroundInv
  <2>3. b \in 0 .. Due /\ receive_buffer = SubSeq(stream, b + 1, heard)
    BY <2>2, FrameDue DEF Holds
  <2>4. \A i \in DOMAIN table : RowShows(table[i], Sent(i)) /\ Shown <= Len(air)
    BY <2>1 DEF GroundInv, RowsShowFrames
  <2>5. Shown <= Len(air)
    BY DEF GroundInv, RowsShowFrames
  <2> QED BY <2>3, <2>4, <2>5 DEF FramesAsSent, RowShows, Due
<1> QED BY <1>1, GroundInvariant, PTL
=============================================================================
