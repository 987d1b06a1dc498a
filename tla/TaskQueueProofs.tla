-------------------------- MODULE TaskQueueProofs --------------------------
(***************************************************************************)
(* What the task list guarantees for any number of tasks: no task is run   *)
(* twice, none is invented, and they are taken in the order in which they  *)
(* were scheduled, also when some of them are dropped.                     *)
(***************************************************************************)
EXTENDS TaskQueue, SeqLemmas

\* The invariant survives a task that the interrupt schedules.
LEMMA ScheduleKeepsInv ==
    ASSUME QueueInv, Schedule PROVE QueueInv'
<1> USE DEF QueueInv, TypeOK, WhileTaking, Tasks
<1>1. /\ scheduled' = scheduled + 1
      /\ scheduled + 1 \in Tasks
      /\ 1 .. scheduled' = (1 .. scheduled) \union {scheduled + 1}
      /\ scheduled + 1 \notin 1 .. scheduled
      /\ UNCHANGED <<phase, alone, taken>>
  BY DEF Schedule
<1>2. CASE phase = "closing" /\ alone
  <2>1. dropped' = dropped \union {scheduled + 1} /\ waiting' = waiting
    BY <1>2 DEF Schedule
  <2>2. TypeOK' /\ WhileTaking'
    BY <1>1, <2>1
  <2>3. EveryTaskOnce'
    BY <1>1, <2>1 DEF EveryTaskOnce
  <2>4. FirstComeFirstServed'
    BY <1>1, <2>1 DEF FirstComeFirstServed
  <2> QED BY <2>2, <2>3, <2>4
<1>3. CASE ~(phase = "closing" /\ alone)
  <2>1. waiting' = Append(waiting, scheduled + 1) /\ dropped' = dropped
    BY <1>3 DEF Schedule
  <2>2. /\ waiting' \in Seq(Tasks)
        /\ Len(waiting') = Len(waiting) + 1
        /\ \A i \in 1 .. Len(waiting) : waiting'[i] = waiting[i]
        /\ waiting'[Len(waiting) + 1] = scheduled + 1
        /\ Range(waiting') = Range(waiting) \union {scheduled + 1}
        /\ DOMAIN waiting = 1 .. Len(waiting)
        /\ DOMAIN waiting' = 1 .. Len(waiting) + 1
        /\ Len(waiting) \in Nat
    BY <1>1, <2>1, AppendFacts
  <2>3. TypeOK' /\ WhileTaking'
    <3>1. waiting' # <<>>
      BY <2>2
    <3>2. TypeOK'
      BY <1>1, <2>1, <2>2
    <3>3. WhileTaking'
      BY <1>1, <1>3, <3>1, Zenon
    <3> QED BY <3>2, <3>3
  <2>4. EveryTaskOnce'
    BY <1>1, <2>1, <2>2 DEF EveryTaskOnce
  <2>5. FirstComeFirstServed'
    <3>1. \A i \in DOMAIN waiting : waiting[i] \in 1 .. scheduled
      BY DEF EveryTaskOnce, Range
    <3>2. \A t \in taken : t \in 1 .. scheduled
      BY DEF EveryTaskOnce
    <3>3. ASSUME NEW i \in DOMAIN waiting', NEW j \in DOMAIN waiting', i < j
          PROVE  waiting'[i] < waiting'[j]
      <4>1. i \in DOMAIN waiting /\ waiting'[i] = waiting[i]
        BY <2>2, <3>3
      <4>2. CASE j \in DOMAIN waiting
        <5>1. waiting'[j] = waiting[j] /\ waiting[i] < waiting[j]
          BY <2>2, <3>3, <4>1, <4>2 DEF FirstComeFirstServed
        <5> QED BY <4>1, <5>1
      <4>3. CASE j = Len(waiting) + 1
        BY <2>2, <3>1, <4>1, <4>3
      <4> QED BY <2>2, <4>2, <4>3
    <3>4. ASSUME NEW t \in taken, NEW i \in DOMAIN waiting' PROVE t < waiting'[i]
      <4>1. CASE i \in DOMAIN waiting
        <5>1. waiting'[i] = waiting[i] /\ t < waiting[i]
          BY <2>2, <4>1 DEF FirstComeFirstServed
        <5> QED BY <5>1
      <4>2. CASE i = Len(waiting) + 1
        BY <2>2, <3>2, <4>2
      <4> QED BY <2>2, <4>1, <4>2
    <3> QED BY <1>1, <3>3, <3>4 DEF FirstComeFirstServed
  <2> QED BY <2>3, <2>4, <2>5
<1> QED BY <1>2, <1>3

\* The invariant survives the step in which the front task leaves the list.
LEMMA UnlinkKeepsInv ==
    ASSUME QueueInv, Unlink PROVE QueueInv'
<1> USE DEF QueueInv, TypeOK, WhileTaking, Tasks, Phases
<1>1. /\ waiting \in Seq(Tasks)
      /\ waiting # <<>>
      /\ phase' = "closing"
      /\ UNCHANGED <<alone, scheduled>>
  BY DEF Unlink
<1> DEFINE first == Head(waiting)
<1> DEFINE rest == Tail(waiting)
<1>2. /\ first \in Tasks
      /\ first = waiting[1]
      /\ rest \in Seq(Tasks)
      /\ Len(rest) = Len(waiting) - 1
      /\ \A i \in 1 .. Len(waiting) - 1 : rest[i] = waiting[i + 1]
      /\ Range(waiting) = {first} \union Range(rest)
      /\ DOMAIN rest = 1 .. Len(waiting) - 1
      /\ DOMAIN waiting = 1 .. Len(waiting)
      /\ Len(waiting) \in Nat \ {0}
  BY <1>1, TailFacts
<1>3. taken' = taken \union {first}
  BY DEF Unlink
<1> HIDE DEF first, rest
<1>4. ASSUME NEW i \in DOMAIN rest PROVE first < rest[i] /\ rest[i] \in Tasks
  <2> HIDE DEF QueueInv, Tasks
  <2>1. /\ i + 1 \in DOMAIN waiting /\ 1 \in DOMAIN waiting /\ 1 < i + 1
        /\ rest[i] = waiting[i + 1]
    BY <1>2
  <2> USE DEF QueueInv, Tasks
  <2>2. waiting[1] < waiting[i + 1]
    BY <2>1 DEF FirstComeFirstServed
  <2>3. rest[i] \in Tasks
    <3> HIDE DEF Tasks
    <3> QED BY <1>2
  <2> QED BY <1>2, <2>1, <2>2, <2>3
<1>5. first \notin Range(rest)
  <2> SUFFICES ASSUME NEW i \in DOMAIN rest PROVE rest[i] # first
    BY DEF Range
  <2> QED BY <1>2, <1>4
<1>6. Range(rest) \subseteq Tasks
  BY <1>4 DEF Range
<1>7. Range(<<>>) = {} /\ DOMAIN <<>> = {}
  BY EmptyFacts
<1>8. CASE alone
  <2>1. waiting' = <<>> /\ dropped' = dropped \union Range(rest)
    BY <1>8 DEF Unlink, rest
  <2>2. TypeOK'
    BY <1>1, <1>2, <1>6, <1>3, <2>1, EmptyFacts
  <2>3. WhileTaking'
    BY <1>1, <2>1
  <2>4. EveryTaskOnce'
    <3>1. Range(waiting') = {}
      BY <1>7, <2>1
    <3> QED BY <1>1, <1>2, <1>5, <1>3, <2>1, <3>1 DEF EveryTaskOnce
  <2>5. FirstComeFirstServed'
    <3>1. DOMAIN waiting' = {}
      BY <1>7, <2>1
    <3> QED BY <3>1 DEF FirstComeFirstServed
  <2> QED BY <2>2, <2>3, <2>4, <2>5
<1>9. CASE ~alone
  <2>1. waiting' = rest /\ dropped' = dropped
    BY <1>9 DEF Unlink, rest
  <2>2. TypeOK' /\ WhileTaking'
    <3>1. TypeOK'
      BY <1>1, <1>2, <1>3, <2>1
    <3>2. WhileTaking'
      BY <1>1, <1>9, Zenon
    <3> QED BY <3>1, <3>2
  <2>3. EveryTaskOnce'
    <3>1. Range(waiting') = Range(rest)
      BY <2>1
    <3> QED BY <1>1, <1>2, <1>5, <1>3, <2>1, <3>1 DEF EveryTaskOnce
  <2>4. ASSUME NEW i \in DOMAIN rest, NEW j \in DOMAIN rest, i < j
        PROVE  rest[i] < rest[j]
    <3> HIDE DEF QueueInv, Tasks
    <3>1. /\ i + 1 \in DOMAIN waiting /\ j + 1 \in DOMAIN waiting /\ i + 1 < j + 1
          /\ rest[i] = waiting[i + 1] /\ rest[j] = waiting[j + 1]
      BY <1>2, <2>4
    <3> USE DEF QueueInv
    <3>2. waiting[i + 1] < waiting[j + 1]
      BY <3>1 DEF FirstComeFirstServed
    <3> QED BY <3>1, <3>2
  <2>5. \A t \in taken', i \in DOMAIN waiting' : t < waiting'[i]
    <3> SUFFICES ASSUME NEW t \in taken', NEW i \in DOMAIN rest
                 PROVE  t < rest[i]
      BY <2>1
    <3>1. CASE t = first
      BY <1>4, <3>1
    <3>2. CASE t \in taken
      <4>1. i + 1 \in DOMAIN waiting /\ rest[i] = waiting[i + 1]
        BY <1>2
      <4>2. t < waiting[i + 1]
        BY <3>2, <4>1 DEF FirstComeFirstServed
      <4> QED BY <4>1, <4>2
    <3> QED BY <1>3, <3>1, <3>2
  <2>6. FirstComeFirstServed'
    BY <2>1, <2>4, <2>5 DEF FirstComeFirstServed
  <2> QED BY <2>2, <2>3, <2>6
<1> QED BY <1>8, <1>9

\* Every step preserves the invariant.
LEMMA StepKeepsInv == QueueInv /\ [Next]_vars => QueueInv'
<1> SUFFICES ASSUME QueueInv, [Next]_vars PROVE QueueInv'
  OBVIOUS
<1> USE DEF QueueInv, TypeOK, WhileTaking, EveryTaskOnce,
            FirstComeFirstServed, Phases
<1>1. CASE Schedule
  BY <1>1, ScheduleKeepsInv
<1>2. CASE BeginTake
  BY <1>2 DEF BeginTake
<1>3. CASE Unlink
  BY <1>3, UnlinkKeepsInv
<1>4. CASE Close
  BY <1>4 DEF Close
<1>5. CASE UNCHANGED vars
  BY <1>5 DEF vars
<1> QED BY <1>1, <1>2, <1>3, <1>4, <1>5 DEF Next, Take

\* The inductive invariant of the task list.
THEOREM QueueInvariant == Spec => []QueueInv
<1>1. Init => QueueInv
  <2> SUFFICES ASSUME Init PROVE QueueInv
    OBVIOUS
  <2>1. Range(waiting) = {} /\ DOMAIN waiting = {}
    BY DEF Init, Range
  <2>2. TypeOK
    <3>1. waiting \in Seq(Tasks) /\ taken \subseteq Tasks /\ dropped \subseteq Tasks
      <4>1. waiting \in Seq(Tasks)
        BY EmptyFacts, Zenon DEF Init
      <4>2. taken \subseteq Tasks /\ dropped \subseteq Tasks
        BY DEF Init
      <4> QED BY <4>1, <4>2
    <3>2. phase \in Phases /\ alone \in BOOLEAN
      BY Zenon DEF Init, Phases
    <3>3. scheduled \in Nat
      BY DEF Init
    <3> QED BY <3>1, <3>2, <3>3 DEF TypeOK
  <2>3. WhileTaking /\ EveryTaskOnce /\ FirstComeFirstServed
    BY <2>1 DEF Init, WhileTaking, EveryTaskOnce, FirstComeFirstServed
  <2> QED BY <2>2, <2>3 DEF QueueInv
<1>2. QueueInv /\ [Next]_vars => QueueInv'
  BY StepKeepsInv
<1> QED BY <1>1, <1>2, PTL DEF Spec

\* No task is run twice and none is invented, whenever the interrupt comes.
THEOREM NoTaskTwice == Spec => []EveryTaskOnce
BY QueueInvariant, PTL DEF QueueInv

\* The kernel runs tasks in the order in which they were scheduled.
THEOREM InOrder == Spec => []FirstComeFirstServed
BY QueueInvariant, PTL DEF QueueInv
=============================================================================
