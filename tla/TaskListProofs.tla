--------------------------- MODULE TaskListProofs ---------------------------
(***************************************************************************)
(* The pointers of the task list, for any number of nodes and tasks: the   *)
(* ring survives the interrupt between any two accesses of the kernel      *)
(* loop, and every step of the pointers is a step of TaskQueue or changes  *)
(* nothing there.                                                          *)
(*                                                                         *)
(* Reached is a recursive function of the pointers.  What it computes is   *)
(* found without induction over an operator: if the places of a sequence   *)
(* r follow each other along next, an explicit function satisfies the      *)
(* equation of Reached (ReachedAlong), and the least argument at which two *)
(* solutions differ does not exist (LeastNatural).                         *)
(***************************************************************************)
EXTENDS TaskList, SeqLemmas, FiniteSetTheorems, WellFoundedInduction

\* A set of natural numbers has a least element.
LEMMA LeastNatural ==
    ASSUME NEW T \in SUBSET Nat, T # {}
    PROVE  \E x \in T : \A y \in T : x <= y
<1> DEFINE Initials == {1 .. x : x \in T}
<1>1. Initials # {} /\ Initials \subseteq FiniteSubsetsOf(Nat)
  <2>1. \A x \in T : 1 .. x \subseteq Nat /\ IsFiniteSet(1 .. x)
    BY FS_Interval
  <2> QED BY <2>1 DEF FiniteSubsetsOf
<1>2. PICK U \in Initials :
        \A V \in Initials : <<V, U>> \notin StrictSubsetOrdering(Nat)
  BY <1>1, FS_StrictSubsetOrderingWellFounded, WFMin
<1>3. PICK x \in T : U = 1 .. x
  OBVIOUS
<1>4. ASSUME NEW y \in T, y < x PROVE FALSE
  <2>1. 1 .. y \in Initials
    OBVIOUS
  <2>2. x \in 1 .. x /\ x \notin 1 .. y
    BY <1>4
  <2>3. /\ 1 .. y \in SUBSET Nat /\ 1 .. x \in SUBSET Nat
        /\ 1 .. y \subseteq 1 .. x /\ 1 .. y # 1 .. x
    BY <1>4, <2>2
  <2>4. <<1 .. y, U>> \in StrictSubsetOrdering(Nat)
    BY <1>3, <2>3 DEF StrictSubsetOrdering
  <2> QED BY <1>2, <2>1, <2>4
<1> QED BY <1>4
-----------------------------------------------------------------------------
\* The nodes of r, in this order, are those met from the sentinel along next.
Follows(r) ==
    /\ r \in Seq(Node) /\ IsInjective(r)
    /\ \A i \in 0 .. Len(r) : next[At(r, i)] = At(r, i + 1)

\* The places of a ring: nodes inside, the sentinel at both ends.
LEMMA Places ==
    ASSUME NEW r \in Seq(Node)
    PROVE  /\ Len(r) \in Nat /\ DOMAIN r = 1 .. Len(r)
           /\ \A i \in 1 .. Len(r) : At(r, i) = r[i] /\ r[i] \in Node /\ r[i] # Sentinel
           /\ At(r, 0) = Sentinel /\ At(r, Len(r) + 1) = Sentinel
           /\ \A i \in Int : i \notin 1 .. Len(r) => At(r, i) = Sentinel
BY NodeAssumption DEF At

\* Reached walks along the places of the ring and stays at the sentinel.
LEMMA ReachedAlong ==
    ASSUME NEW r, Follows(r)
    PROVE  \A k \in Nat : Reached[k] = At(r, k + 1)
<1> DEFINE Step(f, k) == IF k = 0 THEN next[Sentinel]
                         ELSE IF f[k - 1] = Sentinel THEN Sentinel ELSE next[f[k - 1]]
<1> DEFINE walk == [k \in Nat |-> At(r, k + 1)]
<1> DEFINE R == CHOOSE f : f = [k \in Nat |-> Step(f, k)]
<1>1. Reached = R
  BY DEF Reached
<1>2. r \in Seq(Node) /\ \A i \in 0 .. Len(r) : next[At(r, i)] = At(r, i + 1)
  BY DEF Follows
<1>3. walk = [k \in Nat |-> Step(walk, k)]
  <2> SUFFICES ASSUME NEW k \in Nat PROVE At(r, k + 1) = Step(walk, k)
    OBVIOUS
  <2>1. CASE k = 0
    BY <1>2, <2>1, Places
  <2>2. CASE k # 0
    <3>1. walk[k - 1] = At(r, k)
      BY <2>2
    <3> HIDE DEF walk
    <3>2. CASE k <= Len(r)
      <4>1. k \in 1 .. Len(r) /\ k \in 0 .. Len(r)
        BY <1>2, <2>2, <3>2, Places
      <4>2. walk[k - 1] # Sentinel /\ next[walk[k - 1]] = At(r, k + 1)
        BY <1>2, <3>1, <4>1, Places
      <4> QED BY <2>2, <4>2
    <3>3. CASE ~(k <= Len(r))
      <4>1. At(r, k) = Sentinel /\ At(r, k + 1) = Sentinel
        <5>1. k \notin 1 .. Len(r) /\ k + 1 \notin 1 .. Len(r) /\ k \in Int /\ k + 1 \in Int
          BY <1>2, <3>3, Places
        <5> QED BY <1>2, <5>1, Places
      <4> QED BY <2>2, <3>1, <4>1
    <3> QED BY <3>2, <3>3
  <2> QED BY <2>1, <2>2
<1> HIDE DEF walk
<1>4. R = [k \in Nat |-> Step(R, k)]
  BY <1>3
<1> HIDE DEF R
<1>5. \A k \in Nat : R[k] = walk[k]
  <2> DEFINE Differ == {k \in Nat : R[k] # walk[k]}
  <2> SUFFICES ASSUME Differ # {} PROVE FALSE
    OBVIOUS
  <2>1. PICK m \in Differ : \A k \in Differ : m <= k
    <3>1. Differ \in SUBSET Nat
      OBVIOUS
    <3> HIDE DEF Differ
    <3> QED BY <3>1, LeastNatural
  <2>2. m # 0
    BY <1>3, <1>4, <2>1
  <2>3. R[m - 1] = walk[m - 1]
    BY <2>1, <2>2
  <2>4. R[m] = walk[m]
    BY <1>3, <1>4, <2>1, <2>2, <2>3
  <2> QED BY <2>1, <2>4
<1> QED BY <1>1, <1>5 DEF walk

\* So the nodes linked are those of r, and they are chained in this order.
LEMMA ChainIs ==
    ASSUME NEW r, Follows(r)
    PROVE  Linked = Range(r) /\ Chain = r
<1>1. r \in Seq(Node) /\ IsInjective(r)
  BY DEF Follows
<1>2. \A k \in Nat : Reached[k] = At(r, k + 1)
  BY ReachedAlong
<1> DEFINE N == Cardinality(Node)
<1>3. Len(r) <= N /\ N \in Nat
  <2>1. r \in Injection(1 .. Len(r), Node)
    BY <1>1 DEF Injection
  <2>2. Cardinality(1 .. Len(r)) <= N
    BY <2>1, FS_Injection, NodeAssumption
  <2>3. Cardinality(1 .. Len(r)) = Len(r)
    <3>1. Len(r) \in Nat /\ 1 \in Int /\ Len(r) \in Int
      BY <1>1
    <3>2. Cardinality(1 .. Len(r)) = IF 1 > Len(r) THEN 0 ELSE Len(r) - 1 + 1
      BY <3>1, FS_Interval
    <3> QED BY <3>1, <3>2
  <2> QED BY <2>2, <2>3, FS_CardinalityType, NodeAssumption
<1> HIDE DEF N
<1>4. Linked = Range(r)
  <2>1. Linked = {Reached[k] : k \in 0 .. N} \ {Sentinel}
    BY DEF Linked, N
  <2>2. ASSUME NEW k \in 0 .. N, Reached[k] # Sentinel PROVE Reached[k] \in Range(r)
    <3>1. Reached[k] = At(r, k + 1) /\ k + 1 \in Int
      BY <1>2, <1>3
    <3>2. k + 1 \in 1 .. Len(r)
      BY <1>1, <2>2, <3>1, Places
    <3> QED BY <1>1, <3>1, <3>2, Places DEF Range
  <2>3. ASSUME NEW i \in DOMAIN r PROVE r[i] \in Linked
    <3>0. i \in 1 .. Len(r) /\ Len(r) \in Nat /\ At(r, i) = r[i] /\ r[i] # Sentinel
      BY <1>1, Places
    <3>1. i - 1 \in 0 .. N /\ Reached[i - 1] = At(r, (i - 1) + 1) /\ (i - 1) + 1 = i
      <4>1. i - 1 \in Nat /\ i - 1 \in 0 .. N /\ (i - 1) + 1 = i
        BY <1>3, <3>0
      <4> QED BY <1>2, <4>1
    <3>2. Reached[i - 1] = r[i]
      BY <3>0, <3>1
    <3> QED BY <2>1, <3>0, <3>1, <3>2
  <2> QED BY <2>1, <2>2, <2>3 DEF Range
<1>5. Cardinality(Linked) = Len(r)
  <2>1. r \in Bijection(1 .. Len(r), Range(r))
    BY <1>1 DEF Bijection, Injection, Surjection, Range, IsInjective
  <2> QED BY <1>1, <1>4, <2>1, FS_CountingElements DEF ExistsBijection
<1>6. Chain = [i \in 1 .. Len(r) |-> r[i]]
  <2>1. \A i \in 1 .. Len(r) : Reached[i - 1] = r[i]
    <3> SUFFICES ASSUME NEW i \in 1 .. Len(r) PROVE Reached[i - 1] = r[i]
      OBVIOUS
    <3>1. Len(r) \in Nat /\ At(r, i) = r[i]
      BY <1>1, Places
    <3>2. i - 1 \in Nat /\ (i - 1) + 1 = i
      BY <3>1
    <3> QED BY <1>2, <3>1, <3>2
  <2> QED BY <1>5, <2>1 DEF Chain
<1> QED BY <1>1, <1>4, <1>6

\* The same of the next state.
Determined == \A r : Follows(r) => Linked = Range(r) /\ Chain = r

LEMMA ChainDetermined == Determined
BY ChainIs DEF Determined

LEMMA ChainIsNext ==
    ASSUME NEW r, Follows(r)'
    PROVE  Linked' = Range(r) /\ Chain' = r
<1>1. Determined'
  BY ChainDetermined, PTL
<1> QED BY <1>1 DEF Determined
-----------------------------------------------------------------------------
\* What the invariant says of the ring, in the form the steps need.
LEMMA RingFacts ==
    ASSUME ListInv
    PROVE  /\ Follows(Chain)
           /\ Linked = Range(Chain)
           /\ Chain \in Seq(Node)
           /\ Contents \in Seq(0 .. MaxScheduled)
           /\ Len(Contents) = Len(Chain)
           /\ DOMAIN Contents = DOMAIN Chain
           /\ \A i \in 1 .. Len(Chain) : Contents[i] = task[Chain[i]]
<1>1. Follows(Chain)
  BY DEF ListInv, RingIntact, Follows
<1>2. Linked = Range(Chain)
  BY <1>1, ChainIs
<1>3. Chain \in Seq(Node) /\ task \in [Node -> 0 .. MaxScheduled]
  BY DEF ListInv, RingIntact, TypeOK
<1> HIDE DEF ListInv
<1>4. Contents = [i \in 1 .. Len(Chain) |-> task[Chain[i]]]
  BY <1>3 DEF Contents
<1>5. \A i \in 1 .. Len(Chain) : Chain[i] \in Node
  BY <1>3
<1>6. Contents \in [1 .. Len(Chain) -> 0 .. MaxScheduled]
  BY <1>3, <1>4, <1>5
<1>7. Len(Chain) \in Nat
  BY <1>3
<1>8. Contents \in Seq(0 .. MaxScheduled) /\ Len(Contents) = Len(Chain)
  BY <1>6, <1>7, FunctionIsSeq
<1> QED BY <1>1, <1>2, <1>3, <1>4, <1>8

\* Nothing moves in the ring while no pointer along next is stored.
LEMMA SameChain ==
    ASSUME UNCHANGED <<next, task>>
    PROVE  Chain' = Chain /\ Linked' = Linked /\ Contents' = Contents
BY DEF Chain, Linked, Contents, Reached

\* A node hooked in becomes the last of the ring.
LEMMA HookInRing ==
    ASSUME ListInv, NEW n \in Node \ allocated, Hook(n),
           ~(pc = "storePrev" /\ Chain = <<>>)
    PROVE  /\ Chain' = Append(Chain, n)
           /\ Linked' = Linked \union {n}
           /\ \A i \in 0 .. Len(Chain) + 1 : next'[At(Chain', i)] = At(Chain', i + 1)
           /\ \A i \in 1 .. Len(Chain) + 2 :
                 ~(pc = "storePrev" /\ i = 1) => prev'[At(Chain', i)] = At(Chain', i - 1)
<1> PICK r : r = Chain
  OBVIOUS
<1> PICK q : q = Append(r, n)
  OBVIOUS
<1>1. /\ r \in Seq(Node) /\ IsInjective(r) /\ Linked = Range(r)
      /\ Linked \subseteq allocated
      /\ \A i \in 0 .. Len(r) : next[At(r, i)] = At(r, i + 1)
      /\ \A i \in 1 .. Len(r) + 1 :
            ~(pc = "storePrev" /\ i = 1) => prev[At(r, i)] = At(r, i - 1)
  BY RingFacts DEF ListInv, RingIntact
<1>2. /\ next \in [Place -> Place] /\ prev \in [Place -> Place]
      /\ n \in Place /\ Sentinel \in Place /\ n # Sentinel
  BY NodeAssumption DEF ListInv, TypeOK, Place
<1>3. /\ Len(r) \in Nat /\ q \in Seq(Node) /\ Len(q) = Len(r) + 1
      /\ \A i \in 1 .. Len(r) : q[i] = r[i]
      /\ q[Len(r) + 1] = n
      /\ Range(q) = Range(r) \union {n}
      /\ DOMAIN r = 1 .. Len(r) /\ DOMAIN q = 1 .. Len(r) + 1
  BY <1>1, AppendFacts
<1>4. /\ \A i \in 0 .. Len(r) : At(q, i) = At(r, i) /\ At(r, i) # n /\ At(r, i) \in Place
      /\ At(q, Len(r) + 1) = n /\ At(q, Len(r) + 2) = Sentinel
      /\ At(r, Len(r) + 1) = Sentinel /\ At(r, 0) = Sentinel
      /\ \A i \in 1 .. Len(r) : At(r, i) # Sentinel
  <2>1. \A i \in 1 .. Len(r) : r[i] \in Range(r)
    BY <1>3 DEF Range
  <2> QED BY <1>1, <1>2, <1>3, <2>1, Places DEF At, Place
<1>5. prev[Sentinel] = At(r, Len(r))
  <2>1. ~(pc = "storePrev" /\ Len(r) + 1 = 1)
    BY <1>1
  <2> QED BY <1>1, <1>3, <1>4, <2>1
<1>6. next' = [next EXCEPT ![n] = Sentinel, ![At(r, Len(r))] = n]
  BY <1>5 DEF Hook
<1>7. prev' = [prev EXCEPT ![n] = At(r, Len(r)), ![Sentinel] = n]
  BY <1>5 DEF Hook
<1>8. \A i, j \in 1 .. Len(r) : At(r, i) = At(r, j) => i = j
  BY <1>1, <1>3 DEF IsInjective, At
<1> HIDE DEF At, Hook
<1>9. \A i \in 0 .. Len(r) + 1 : next'[At(q, i)] = At(q, i + 1)
  <2> SUFFICES ASSUME NEW i \in 0 .. Len(r) + 1 PROVE next'[At(q, i)] = At(q, i + 1)
    OBVIOUS
  <2>1. CASE i = Len(r) + 1
    BY <1>2, <1>3, <1>4, <1>6, <2>1
  <2>2. CASE i = Len(r)
    BY <1>2, <1>3, <1>4, <1>6, <2>2
  <2>3. CASE i < Len(r)
    <3>1. At(r, i) # At(r, Len(r)) /\ i \in 0 .. Len(r) /\ i + 1 \in 0 .. Len(r)
      BY <1>3, <1>4, <1>8, <2>3
    <3>2. next'[At(r, i)] = next[At(r, i)]
      BY <1>2, <1>4, <1>6, <3>1
    <3> QED BY <1>1, <1>4, <3>1, <3>2
  <2> QED BY <1>3, <2>1, <2>2, <2>3
<1>10. ASSUME NEW i \in 1 .. Len(r) + 2, ~(pc = "storePrev" /\ i = 1)
       PROVE  prev'[At(q, i)] = At(q, i - 1)
  <2>1. CASE i = Len(r) + 2
    BY <1>2, <1>3, <1>4, <1>7, <2>1
  <2>2. CASE i = Len(r) + 1
    BY <1>2, <1>3, <1>4, <1>7, <2>2
  <2>3. CASE i \in 1 .. Len(r)
    <3>1. i \in 0 .. Len(r) /\ i - 1 \in 0 .. Len(r) /\ i \in 1 .. Len(r) + 1
      BY <1>3, <2>3
    <3>2. prev'[At(r, i)] = prev[At(r, i)]
      BY <1>2, <1>4, <1>7, <2>3, <3>1
    <3> QED BY <1>1, <1>4, <1>10, <3>1, <3>2
  <2> QED BY <1>3, <2>1, <2>2, <2>3
<1>11. IsInjective(q)
  BY <1>1, <1>3, <1>4, <1>8 DEF IsInjective, At
<1>12. Follows(q)'
  BY <1>3, <1>9, <1>11 DEF Follows, At
<1>13. Chain' = q /\ Linked' = Range(q)
  BY <1>12, ChainIsNext
<1> QED BY <1>1, <1>3, <1>9, <1>10, <1>13
-----------------------------------------------------------------------------
\* What is proved of the abstract queue, read of the pointers.
QueueProofs == INSTANCE TaskQueueProofs WITH
    waiting <- Contents, phase <- Phase, alone <- Alone, taken <- Taken, dropped <- Dropped

LEMMA QueueStep ==
    Queue!QueueInv /\ [Queue!Next]_(Queue!vars) => Queue!QueueInv'
<1>1. Queue!QueueInv <=> QueueProofs!QueueInv
  BY DEF Queue!Range, QueueProofs!Range, Queue!QueueInv, Queue!TypeOK, Queue!WhileTaking, Queue!EveryTaskOnce, Queue!FirstComeFirstServed, Queue!Tasks, Queue!Phases,
         QueueProofs!QueueInv, QueueProofs!TypeOK, QueueProofs!WhileTaking, QueueProofs!EveryTaskOnce, QueueProofs!FirstComeFirstServed, QueueProofs!Tasks, QueueProofs!Phases
<1>2. Queue!QueueInv' <=> QueueProofs!QueueInv'
  BY DEF Queue!Range, QueueProofs!Range, Queue!QueueInv, Queue!TypeOK, Queue!WhileTaking, Queue!EveryTaskOnce, Queue!FirstComeFirstServed, Queue!Tasks, Queue!Phases,
         QueueProofs!QueueInv, QueueProofs!TypeOK, QueueProofs!WhileTaking, QueueProofs!EveryTaskOnce, QueueProofs!FirstComeFirstServed, QueueProofs!Tasks, QueueProofs!Phases
<1>3. Queue!Next <=> QueueProofs!Next
  BY DEF Queue!Range, QueueProofs!Range, Queue!Next, Queue!Take, Queue!Schedule, Queue!BeginTake, Queue!Unlink, Queue!Close, QueueProofs!Next, QueueProofs!Take, QueueProofs!Schedule, QueueProofs!BeginTake, QueueProofs!Unlink, QueueProofs!Close
<1>4. Queue!vars = QueueProofs!vars /\ Queue!vars' = QueueProofs!vars'
  BY DEF Queue!vars, QueueProofs!vars
<1>5. QueueProofs!QueueInv /\ [QueueProofs!Next]_(QueueProofs!vars) => QueueProofs!QueueInv'
  BY QueueProofs!StepKeepsInv
<1> QED BY <1>1, <1>2, <1>3, <1>4, <1>5
\* What the abstract invariant says of the tasks in the ring.
LEMMA QueueFacts ==
    ASSUME ListInv
    PROVE  /\ 1 .. scheduled = Range(Contents) \union Taken \union Dropped
           /\ Range(Contents) \intersect (Taken \union Dropped) = {}
           /\ Taken \intersect Dropped = {}
           /\ \A i, j \in 1 .. Len(Chain) : i < j => Contents[i] < Contents[j]
           /\ \A n \in Linked : task[n] \in 1 .. scheduled /\ task[n] \in Range(Contents)
<1>1. /\ 1 .. scheduled = Range(Contents) \union Taken \union Dropped
      /\ Range(Contents) \intersect (Taken \union Dropped) = {}
      /\ Taken \intersect Dropped = {}
      /\ \A i, j \in DOMAIN Contents : i < j => Contents[i] < Contents[j]
  BY DEF ListInv, Queue!QueueInv, Queue!EveryTaskOnce, Queue!FirstComeFirstServed,
         Queue!Range, Range
<1>2. /\ DOMAIN Contents = DOMAIN Chain /\ DOMAIN Chain = 1 .. Len(Chain)
      /\ \A i \in DOMAIN Chain : Contents[i] = task[Chain[i]]
      /\ Linked = Range(Chain)
  BY RingFacts
<1>3. ASSUME NEW n \in Linked
      PROVE  task[n] \in 1 .. scheduled /\ task[n] \in Range(Contents)
  BY <1>1, <1>2 DEF Range
<1> QED BY <1>1, <1>2, <1>3

\* A node hooked in after the last node has left is not in the ring.
LEMMA HookLost ==
    ASSUME ListInv, NEW n \in Node \ allocated, Hook(n),
           pc = "storePrev", Chain = <<>>
    PROVE  Chain' = <<>> /\ Linked' = {} /\ next'[Sentinel] = Sentinel
           /\ prev'[Sentinel] = n
<1>1. /\ next[Sentinel] = Sentinel
      /\ prev[Sentinel] \in allocated
      /\ next \in [Place -> Place] /\ prev \in [Place -> Place]
      /\ allocated \subseteq Node
  <2>1. At(<<>>, 0) = Sentinel /\ At(<<>>, 1) = Sentinel /\ Len(<<>>) = 0
    BY DEF At
  <2> QED BY <2>1 DEF ListInv, RingIntact, TypeOK
<1>2. next'[Sentinel] = Sentinel /\ prev'[Sentinel] = n
  BY <1>1, NodeAssumption DEF Hook, Place
<1>3. Follows(<<>>)'
  <2>1. At(<<>>, 0) = Sentinel /\ At(<<>>, 1) = Sentinel /\ Len(<<>>) = 0
    BY DEF At
  <2>2. <<>> \in Seq(Node) /\ IsInjective(<<>>)
    BY EmptyFacts DEF IsInjective
  <2> QED BY <1>2, <2>1, <2>2 DEF Follows, At
<1>4. Range(<<>>) = {}
  BY EmptyFacts
<1> QED BY <1>2, <1>3, <1>4, ChainIsNext

\* Scheduling a task is the abstract step: the task waits last, or is dropped.
LEMMA PushIsSchedule ==
    ASSUME ListInv, Push
    PROVE  Queue!Schedule /\ Taken' = Taken
<1>1. PICK n \in Node \ allocated :
        task' = [task EXCEPT ![n] = scheduled + 1] /\ Hook(n)
  BY DEF Push
<1>2. /\ scheduled' = scheduled + 1 /\ scheduled \in Nat
      /\ UNCHANGED <<pc, nextNode, current, executed>>
      /\ task \in [Node -> 0 .. MaxScheduled]
  BY DEF Push, local, ListInv, TypeOK
<1>3. Phase' = Phase /\ Alone' = Alone /\ Taken' = Taken
  BY <1>2 DEF Phase, Alone, Taken
<1>4. Phase = "closing" /\ Alone <=> pc = "storePrev" /\ Chain = <<>>
  <2>1. Phase = "closing" <=> pc = "storePrev"
    BY DEF Phase
  <2>2. pc = "storePrev" => (nextNode = Sentinel <=> Chain = <<>>)
    <3>1. At(Chain, 1) = Sentinel <=> Chain = <<>>
      BY RingFacts, Places
    <3> QED BY <3>1 DEF ListInv, LocalsFollow
  <2> QED BY <2>1, <2>2 DEF Alone
<1>5. /\ 1 .. scheduled = Range(Contents) \union Taken \union Dropped
      /\ Range(Contents) \intersect (Taken \union Dropped) = {}
      /\ Taken \intersect Dropped = {}
  BY QueueFacts
<1>6. /\ 1 .. scheduled' = (1 .. scheduled) \union {scheduled + 1}
      /\ scheduled + 1 \notin 1 .. scheduled
  BY <1>2
<1>7. CASE pc = "storePrev" /\ Chain = <<>>
  <2>1. Chain' = <<>> /\ Contents = <<>> /\ Contents' = <<>>
    BY <1>1, <1>7, HookLost DEF Contents
  <2>2. Dropped' = Dropped \union {scheduled + 1}
    BY <1>3, <1>5, <1>6, <2>1 DEF Dropped
  <2> QED BY <1>2, <1>3, <1>4, <1>7, <2>1, <2>2 DEF Queue!Schedule
<1>8. CASE ~(pc = "storePrev" /\ Chain = <<>>)
  <2>1. Chain' = Append(Chain, n)
    BY <1>1, <1>8, HookInRing
  <2>2. /\ Chain \in Seq(Node) /\ Linked = Range(Chain)
        /\ Contents \in Seq(Nat) /\ Len(Contents) = Len(Chain)
        /\ \A i \in 1 .. Len(Chain) : Contents[i] = task[Chain[i]]
    <3>1. 0 .. MaxScheduled \subseteq Nat
      OBVIOUS
    <3> QED BY <3>1, RingFacts, SeqMonotonic
  <2>3. Contents' = Append(Contents, scheduled + 1)
    <3>1. /\ Len(Chain') = Len(Chain) + 1 /\ Len(Chain) \in Nat
          /\ DOMAIN Chain' = 1 .. Len(Chain) + 1
          /\ \A i \in 1 .. Len(Chain) : Chain'[i] = Chain[i] /\ Chain[i] \in Linked
          /\ Chain'[Len(Chain) + 1] = n
      BY <2>1, <2>2, AppendFacts, SMTT(60) DEF Range
    <3>2. \A i \in 1 .. Len(Chain) : Chain[i] # n /\ Chain[i] \in Node
      BY <2>2, <3>1 DEF ListInv, RingIntact, TypeOK
    <3>3. /\ \A i \in 1 .. Len(Chain) : task'[Chain'[i]] = Contents[i]
          /\ task'[Chain'[Len(Chain) + 1]] = scheduled + 1
      BY <1>1, <1>2, <2>2, <3>1, <3>2
    <3>4. Contents' = [i \in 1 .. Len(Chain) + 1 |-> task'[Chain'[i]]]
      BY <3>1 DEF Contents
    <3>5. /\ Append(Contents, scheduled + 1) \in Seq(Nat)
          /\ DOMAIN Append(Contents, scheduled + 1) = 1 .. Len(Chain) + 1
          /\ \A i \in 1 .. Len(Chain) : Append(Contents, scheduled + 1)[i] = Contents[i]
          /\ Append(Contents, scheduled + 1)[Len(Chain) + 1] = scheduled + 1
      BY <1>2, <2>2, AppendFacts
    <3>6. \A i \in 1 .. Len(Chain) + 1 : task'[Chain'[i]] = Append(Contents, scheduled + 1)[i]
      BY <3>1, <3>3, <3>5
    <3> HIDE DEF Contents
    <3>7. Append(Contents, scheduled + 1)
            = [i \in 1 .. Len(Chain) + 1 |-> Append(Contents, scheduled + 1)[i]]
      BY <3>5, LenProperties
    <3> QED BY <3>4, <3>6, <3>7
  <2>4. Range(Contents') = Range(Contents) \union {scheduled + 1}
    BY <1>2, <2>2, <2>3, AppendFacts
  <2>5. Dropped' = Dropped
    BY <1>3, <1>5, <1>6, <2>4 DEF Dropped
  <2> QED BY <1>2, <1>3, <1>4, <1>8, <2>3, <2>5 DEF Queue!Schedule
<1> QED BY <1>7, <1>8
LEMMA PushKeepsInv ==
    ASSUME ListInv, Push PROVE ListInv'
<1>1. PICK n \in Node \ allocated :
        /\ allocated' = allocated \union {n}
        /\ task' = [task EXCEPT ![n] = scheduled + 1]
        /\ Hook(n)
  BY DEF Push
<1>2. /\ scheduled' = scheduled + 1 /\ scheduled < MaxScheduled
      /\ UNCHANGED <<pc, current, victim, nextNode, prevNode, executed>>
  BY DEF Push, local
<1>3. Queue!Schedule /\ Taken' = Taken
  BY PushIsSchedule
<1>4. Queue!QueueInv'
  BY <1>3, QueueStep DEF Queue!Next, ListInv
<1>5. TypeOK'
  <2>1. /\ next \in [Place -> Place] /\ prev \in [Place -> Place]
        /\ n \in Place /\ Sentinel \in Place
    BY DEF ListInv, TypeOK, Place
  <2>2. next' \in [Place -> Place] /\ prev' \in [Place -> Place]
    BY <1>1, <2>1 DEF Hook
  <2>3. task' \in [Node -> 0 .. MaxScheduled] /\ allocated' \subseteq Node
        /\ scheduled' \in 0 .. MaxScheduled
    BY <1>1, <1>2, NodeAssumption DEF ListInv, TypeOK
  <2> QED BY <1>2, <2>2, <2>3 DEF ListInv, TypeOK
<1>6. /\ n # victim /\ Linked \subseteq allocated
      /\ \A m \in allocated : task'[m] = task[m]
      /\ pc \in {"loadNext", "loadPrev", "storeNext", "storePrev", "free"} =>
            victim \in allocated
  <2>1. pc \in {"loadNext", "loadPrev", "storeNext"} => victim \in Linked
    BY RingFacts, Places DEF ListInv, LocalsFollow, Range
  <2>2. pc \in {"storePrev", "free"} => victim \in allocated
    BY DEF ListInv, LocalsFollow
  <2>3. pc \in {"test", "pop", "run"} => victim = None
    BY DEF ListInv, LocalsFollow
  <2>4. Linked \subseteq allocated /\ pc \in PCs /\ allocated \subseteq Node
        /\ task \in [Node -> 0 .. MaxScheduled]
    BY DEF ListInv, RingIntact, TypeOK
  <2>5. \A m \in allocated : task'[m] = task[m]
    BY <1>1, <2>4
  <2> QED BY <2>1, <2>2, <2>3, <2>4, <2>5, NodeAssumption DEF PCs
<1>7. Chain \in Seq(Node) /\ IsInjective(Chain) /\ Linked = Range(Chain)
  BY RingFacts DEF ListInv, RingIntact
<1>8. \A i \in 1 .. Len(Chain) : At(Chain, i) \in Linked
  BY <1>7, Places DEF Range
<1>9. CASE pc = "storePrev" /\ Chain = <<>>
  <2>1. Chain' = <<>> /\ Linked' = {} /\ next'[Sentinel] = Sentinel /\ prev'[Sentinel] = n
    BY <1>1, <1>9, HookLost
  <2>2. Linked = {} /\ Len(<<>>) = 0 /\ At(<<>>, 0) = Sentinel /\ At(<<>>, 1) = Sentinel
    BY <1>7, <1>9, EmptyFacts DEF At
  <2>3. RingIntact'
    <3>1. IsInjective(<<>>) /\ <<>> \in Seq(Node)
      BY EmptyFacts DEF IsInjective
    <3> QED BY <1>1, <1>2, <1>9, <2>1, <2>2, <3>1 DEF RingIntact, At
  <2>4. LocalsFollow'
    BY <1>1, <1>2, <1>6, <1>9, <2>1, <2>2 DEF LocalsFollow, ListInv, At
  <2>5. Lost' = Lost \union {n} /\ n \notin Lost
    BY <1>1, <1>2, <1>6, <2>1, <2>2 DEF Lost
  <2>6. Dropped' = Dropped \union {scheduled + 1} /\ scheduled + 1 \notin Dropped
    <3>1. Phase = "closing" /\ Alone
      <4>1. nextNode = Sentinel
        BY <1>9, <2>2 DEF ListInv, LocalsFollow
      <4> QED BY <1>9, <4>1 DEF Phase, Alone
    <3>2. scheduled \in Nat
      BY DEF ListInv, TypeOK
    <3> QED BY <1>3, <3>1, <3>2 DEF Queue!Schedule, Dropped
  <2>7. LostAreDropped'
    <3>1. task'[n] = scheduled + 1 /\ \A m \in Lost : task'[m] = task[m]
      BY <1>1, <1>6 DEF Lost, ListInv, TypeOK
    <3>2. {task[m] : m \in Lost} = Dropped /\ \A m, k \in Lost : task[m] = task[k] => m = k
      BY DEF ListInv, LostAreDropped
    <3>3. {task'[m] : m \in Lost'} = Dropped'
      BY <2>5, <2>6, <3>1, <3>2
    <3>4. \A m, k \in Lost' : task'[m] = task'[k] => m = k
      BY <2>5, <2>6, <3>1, <3>2
    <3> QED BY <3>3, <3>4 DEF LostAreDropped
  <2> QED BY <1>4, <1>5, <2>3, <2>4, <2>7 DEF ListInv
<1>10. CASE ~(pc = "storePrev" /\ Chain = <<>>)
  <2>1. /\ Chain' = Append(Chain, n)
        /\ Linked' = Linked \union {n}
        /\ \A i \in 0 .. Len(Chain) + 1 : next'[At(Chain', i)] = At(Chain', i + 1)
        /\ \A i \in 1 .. Len(Chain) + 2 :
              ~(pc = "storePrev" /\ i = 1) => prev'[At(Chain', i)] = At(Chain', i - 1)
    BY <1>1, <1>10, HookInRing
  <2>2. /\ Len(Chain) \in Nat /\ Chain' \in Seq(Node) /\ Len(Chain') = Len(Chain) + 1
        /\ Chain' # <<>>
        /\ \A i \in 1 .. Len(Chain) : Chain'[i] = Chain[i]
        /\ Chain'[Len(Chain) + 1] = n
        /\ DOMAIN Chain = 1 .. Len(Chain) /\ DOMAIN Chain' = 1 .. Len(Chain) + 1
        /\ Chain # <<>> => 1 \in 1 .. Len(Chain)
    BY <1>7, <2>1, AppendFacts
  <2>3. \A i \in 1 .. Len(Chain) : At(Chain', i) = At(Chain, i)
    BY <2>2 DEF At
  <2>4. RingIntact'
    <3>1. IsInjective(Chain')
      <4>1. \A i \in 1 .. Len(Chain) : Chain[i] # n
        BY <1>6, <1>7, <2>2 DEF Range
      <4> QED BY <1>7, <2>2, <4>1 DEF IsInjective
    <3>2. \A i \in 0 .. Len(Chain') : next'[At(Chain', i)] = At(Chain', i + 1)
      BY <2>1, <2>2
    <3>3. \A i \in 1 .. Len(Chain') + 1 :
             ~(pc' = "storePrev" /\ i = 1) => prev'[At(Chain', i)] = At(Chain', i - 1)
      BY <1>2, <2>1, <2>2
    <3>4. Linked' \subseteq allocated'
      BY <1>1, <1>6, <2>1
    <3> QED BY <2>2, <3>1, <3>2, <3>3, <3>4 DEF RingIntact, At
  <2>5. LocalsFollow'
    <3> USE <1>1, <1>2, <1>6, <1>8, <2>1, <2>2, <2>3 DEF ListInv, LocalsFollow
    <3>1. pc' \in {"pop", "loadNext", "loadPrev", "storeNext"} => Chain' # <<>>
      OBVIOUS
    <3>2. pc \in {"pop", "loadNext", "loadPrev", "storeNext"} =>
            At(Chain', 1) = At(Chain, 1) /\ At(Chain, 1) \in Linked
      OBVIOUS
    <3>3. pc' = "pop" => current' = task'[At(Chain', 1)]
      BY <3>2
    <3>4. pc' \in {"storePrev", "free"} => victim' \in allocated' \ Linked'
      OBVIOUS
    <3>5. pc' \in {"loadNext", "loadPrev", "storeNext", "storePrev", "free"} =>
            current' = task'[victim']
      OBVIOUS
    <3>6. pc' \in {"loadPrev", "storeNext"} => nextNode' \in {At(Chain', 2), Sentinel}
      <4>1. nextNode = At(Chain, 2) => nextNode = Sentinel \/ 2 \in 1 .. Len(Chain)
        BY <1>7, Places
      <4> QED BY <4>1
    <3>7. pc' = "storePrev" => nextNode' = At(Chain', 1)
      BY <1>10
    <3> HIDE <1>1, <1>6, <1>8, <2>1, <2>2, <2>3
    <3> QED BY <3>1, <3>2, <3>3, <3>4, <3>5, <3>6, <3>7 DEF At
  <2>6. Lost' = Lost
    BY <1>1, <1>2, <1>6, <2>1 DEF Lost
  <2>7. Dropped' = Dropped
    <3>1. ~(Phase = "closing" /\ Alone)
      <4>1. pc = "storePrev" => At(Chain, 1) # Sentinel
        BY <1>7, <1>10, <2>2, Places
      <4> QED BY <4>1 DEF Phase, Alone, ListInv, LocalsFollow
    <3> QED BY <1>3, <3>1 DEF Queue!Schedule
  <2>8. LostAreDropped'
    <3>1. \A m \in Lost : task'[m] = task[m]
      BY <1>6 DEF Lost
    <3> QED BY <2>6, <2>7, <3>1 DEF ListInv, LostAreDropped
  <2> QED BY <1>4, <1>5, <2>4, <2>5, <2>8 DEF ListInv
<1> QED BY <1>9, <1>10
-----------------------------------------------------------------------------
\* The steps of the loop that leave the tasks where they are; each states what
\* the step does to the variables of TaskQueue.
LEMMA FrontStep ==
    ASSUME ListInv, Front PROVE ListInv' /\ UNCHANGED Queue!vars
<1>1. /\ pc = "test" /\ pc' = "pop" /\ current' = task[next[Sentinel]]
      /\ next[Sentinel] # Sentinel
      /\ UNCHANGED <<next, prev, task, allocated, victim, nextNode, prevNode,
                     scheduled, executed>>
  BY DEF Front, list
<1>2. Chain' = Chain /\ Linked' = Linked /\ Contents' = Contents
  BY <1>1, SameChain
<1>3. Phase' = Phase /\ Alone' = Alone /\ Taken' = Taken /\ Dropped' = Dropped
  BY <1>1, <1>2 DEF Phase, Alone, Taken, Dropped
<1>4. UNCHANGED Queue!vars
  BY <1>1, <1>2, <1>3 DEF Queue!vars
<1>5. next[Sentinel] = At(Chain, 1) /\ Chain # <<>> /\ next[Sentinel] \in Node
  <2>1. next[At(Chain, 0)] = At(Chain, 1) /\ At(Chain, 0) = Sentinel
    BY RingFacts, Places DEF ListInv, RingIntact
  <2>2. Len(Chain) \in Nat /\ 1 \in 1 .. Len(Chain)
    BY <1>1, <2>1, RingFacts, Places
  <2> QED BY <2>1, <2>2, RingFacts, Places
<1>6. TypeOK'
  BY <1>1, <1>5 DEF TypeOK, ListInv, PCs
<1>7. RingIntact'
  BY <1>1, <1>2 DEF RingIntact, ListInv, At
<1>8. LocalsFollow'
  BY <1>1, <1>2, <1>5 DEF LocalsFollow, ListInv, At
<1>9. LostAreDropped'
  BY <1>1, <1>2, <1>3 DEF LostAreDropped, ListInv, Lost
<1> QED BY <1>4, <1>6, <1>7, <1>8, <1>9, QueueStep DEF ListInv

LEMMA PopStep ==
    ASSUME ListInv, Pop PROVE ListInv' /\ UNCHANGED Queue!vars
<1>1. /\ pc = "pop" /\ pc' = "loadNext" /\ victim' = next[Sentinel]
      /\ UNCHANGED <<next, prev, task, allocated, current, nextNode, prevNode,
                     scheduled, executed>>
  BY DEF Pop, list
<1>2. Chain' = Chain /\ Linked' = Linked /\ Contents' = Contents
  BY <1>1, SameChain
<1>3. Phase' = Phase /\ Alone' = Alone /\ Taken' = Taken /\ Dropped' = Dropped
  BY <1>1, <1>2 DEF Phase, Alone, Taken, Dropped
<1>4. UNCHANGED Queue!vars
  BY <1>1, <1>2, <1>3 DEF Queue!vars
<1>5. next[Sentinel] = At(Chain, 1) /\ next[Sentinel] \in Linked
  <2>1. next[At(Chain, 0)] = At(Chain, 1) /\ At(Chain, 0) = Sentinel
    BY RingFacts, Places DEF ListInv, RingIntact
  <2>2. Chain # <<>>
    BY <1>1 DEF ListInv, LocalsFollow
  <2>3. 1 \in 1 .. Len(Chain) /\ At(Chain, 1) = Chain[1] /\ DOMAIN Chain = 1 .. Len(Chain)
    BY <2>2, RingFacts, Places
  <2> QED BY <2>1, <2>3, RingFacts DEF Range
<1>6. TypeOK'
  BY <1>1, <1>5 DEF TypeOK, ListInv, PCs, Place, RingIntact
<1>7. RingIntact'
  BY <1>1, <1>2 DEF RingIntact, ListInv, At
<1>8. LocalsFollow'
  BY <1>1, <1>2, <1>5 DEF LocalsFollow, ListInv, At
<1>9. LostAreDropped'
  <2>1. Lost' = Lost
    <3>1. victim = None
      BY <1>1 DEF ListInv, LocalsFollow
    <3> QED BY <1>1, <1>2, <1>5, <3>1, NodeAssumption DEF Lost, ListInv, TypeOK
  <2> QED BY <1>1, <1>3, <2>1 DEF LostAreDropped, ListInv
<1> QED BY <1>4, <1>6, <1>7, <1>8, <1>9, QueueStep DEF ListInv

LEMMA LoadPrevStep ==
    ASSUME ListInv, LoadPrev PROVE ListInv' /\ UNCHANGED Queue!vars
<1>1. /\ pc = "loadPrev" /\ pc' = "storeNext" /\ prevNode' = prev[victim]
      /\ UNCHANGED <<next, prev, task, allocated, current, victim, nextNode,
                     scheduled, executed>>
  BY DEF LoadPrev, list
<1>2. Chain' = Chain /\ Linked' = Linked /\ Contents' = Contents
  BY <1>1, SameChain
<1>3. Phase' = Phase /\ Alone' = Alone /\ Taken' = Taken /\ Dropped' = Dropped
  BY <1>1, <1>2 DEF Phase, Alone, Taken, Dropped
<1>4. UNCHANGED Queue!vars
  BY <1>1, <1>2, <1>3 DEF Queue!vars
<1>5. prev[victim] = Sentinel
  <2>1. Chain # <<>> /\ victim = At(Chain, 1)
    BY <1>1 DEF ListInv, LocalsFollow
  <2>2. 1 \in 1 .. Len(Chain) + 1 /\ At(Chain, 0) = Sentinel
    BY <2>1, RingFacts, Places
  <2> QED BY <1>1, <2>1, <2>2 DEF ListInv, RingIntact
<1>6. TypeOK'
  BY <1>1, <1>5 DEF TypeOK, ListInv, PCs, Place
<1>7. RingIntact'
  BY <1>1, <1>2 DEF RingIntact, ListInv, At
<1>8. LocalsFollow'
  BY <1>1, <1>2, <1>5 DEF LocalsFollow, ListInv, At
<1>9. LostAreDropped'
  BY <1>1, <1>2, <1>3 DEF LostAreDropped, ListInv, Lost
<1> QED BY <1>4, <1>6, <1>7, <1>8, <1>9, QueueStep DEF ListInv
LEMMA FreeStep ==
    ASSUME ListInv, Free PROVE ListInv' /\ UNCHANGED Queue!vars
<1>1. /\ pc = "free" /\ pc' = "run" /\ allocated' = allocated \ {victim}
      /\ victim' = None /\ nextNode' = None /\ prevNode' = None
      /\ UNCHANGED <<next, prev, task, current, scheduled, executed>>
  BY DEF Free
<1>2. Chain' = Chain /\ Linked' = Linked /\ Contents' = Contents
  BY <1>1, SameChain
<1>3. Phase' = Phase /\ Alone' = Alone /\ Taken' = Taken /\ Dropped' = Dropped
  BY <1>1, <1>2 DEF Phase, Alone, Taken, Dropped
<1>4. UNCHANGED Queue!vars
  BY <1>1, <1>2, <1>3 DEF Queue!vars
<1>5. victim \notin Linked
  BY <1>1 DEF ListInv, LocalsFollow
<1>6. TypeOK'
  BY <1>1 DEF TypeOK, ListInv, PCs
<1>7. RingIntact'
  BY <1>1, <1>2, <1>5 DEF RingIntact, ListInv, At
<1>8. LocalsFollow'
  BY <1>1 DEF LocalsFollow
<1>9. LostAreDropped'
  <2>1. Lost' = Lost
    BY <1>1, <1>2, NodeAssumption DEF Lost, ListInv, TypeOK
  <2> QED BY <1>1, <1>3, <2>1 DEF LostAreDropped, ListInv
<1> QED BY <1>4, <1>6, <1>7, <1>8, <1>9, QueueStep DEF ListInv

LEMMA RunStep ==
    ASSUME ListInv, Run PROVE ListInv' /\ UNCHANGED Queue!vars
<1>1. /\ pc = "run" /\ pc' = "test" /\ executed' = Append(executed, current)
      /\ current' = 0
      /\ UNCHANGED <<next, prev, task, allocated, victim, nextNode, prevNode, scheduled>>
  BY DEF Run, list
<1>2. Chain' = Chain /\ Linked' = Linked /\ Contents' = Contents
  BY <1>1, SameChain
<1>3. current \in 1 .. MaxScheduled
  <2>1. current \in Taken
    BY <1>1 DEF Taken
  <2>2. current \in 1 .. scheduled /\ scheduled \in 0 .. MaxScheduled
    BY <2>1, QueueFacts DEF ListInv, TypeOK
  <2> QED BY <2>2, NodeAssumption
<1>4. /\ executed' \in Seq(1 .. MaxScheduled)
      /\ Range(executed') = Range(executed) \union {current}
  <2> DEFINE Tasks == 1 .. MaxScheduled
  <2>1. executed \in Seq(Tasks) /\ current \in Tasks
    BY <1>3 DEF ListInv, TypeOK
  <2> HIDE DEF Tasks
  <2>2. /\ Append(executed, current) \in Seq(Tasks)
        /\ Range(Append(executed, current)) = Range(executed) \union {current}
    BY <2>1, AppendFacts
  <2> QED BY <1>1, <2>2 DEF Tasks
<1>5. Taken' = Taken
  BY <1>1, <1>4 DEF Taken
<1>6. Phase' = Phase /\ Alone' = Alone /\ Dropped' = Dropped
  BY <1>1, <1>2, <1>5 DEF Phase, Alone, Dropped
<1>7. UNCHANGED Queue!vars
  BY <1>1, <1>2, <1>5, <1>6 DEF Queue!vars
<1>8. TypeOK'
  BY <1>1, <1>4, NodeAssumption DEF TypeOK, ListInv, PCs
<1>9. RingIntact'
  BY <1>1, <1>2 DEF RingIntact, ListInv, At
<1>10. LocalsFollow'
  BY <1>1, <1>2 DEF LocalsFollow, ListInv, At
<1>11. LostAreDropped'
  BY <1>1, <1>2, <1>6 DEF LostAreDropped, ListInv, Lost
<1> QED BY <1>7, <1>8, <1>9, <1>10, <1>11, QueueStep DEF ListInv

LEMMA WaitStep ==
    ASSUME ListInv, UNCHANGED vars PROVE ListInv' /\ UNCHANGED Queue!vars
<1>1. UNCHANGED <<next, prev, task, allocated, pc, current, victim, nextNode, prevNode,
                  scheduled, executed>>
  BY DEF vars
<1>2. Chain' = Chain /\ Linked' = Linked /\ Contents' = Contents
  BY <1>1, SameChain
<1>3. Phase' = Phase /\ Alone' = Alone /\ Taken' = Taken /\ Dropped' = Dropped
  BY <1>1, <1>2 DEF Phase, Alone, Taken, Dropped
<1>4. UNCHANGED Queue!vars
  BY <1>1, <1>2, <1>3 DEF Queue!vars
<1>5. TypeOK' /\ RingIntact'
  BY <1>1, <1>2 DEF TypeOK, RingIntact, ListInv, At
<1>6. LocalsFollow' /\ LostAreDropped'
  BY <1>1, <1>2, <1>3 DEF LocalsFollow, LostAreDropped, ListInv, At, Lost
<1> QED BY <1>4, <1>5, <1>6, QueueStep DEF ListInv
-----------------------------------------------------------------------------
\* Reading the victim's successor begins the taking of a task.
LEMMA LoadNextStep ==
    ASSUME ListInv, LoadNext PROVE ListInv' /\ Queue!BeginTake
<1>1. /\ pc = "loadNext" /\ pc' = "loadPrev" /\ nextNode' = next[victim]
      /\ UNCHANGED <<next, prev, task, allocated, current, victim, prevNode,
                     scheduled, executed>>
  BY DEF LoadNext, list
<1>2. Chain' = Chain /\ Linked' = Linked /\ Contents' = Contents
  BY <1>1, SameChain
<1>3. /\ Len(Chain) \in Nat \ {0} /\ victim = At(Chain, 1)
      /\ next[victim] = At(Chain, 2)
  <2>1. Chain # <<>> /\ victim = At(Chain, 1)
    BY <1>1 DEF ListInv, LocalsFollow
  <2>2. Len(Chain) \in Nat \ {0}
    BY <2>1, RingFacts, Places
  <2>3. 1 \in 0 .. Len(Chain)
    BY <2>2
  <2>4. next[At(Chain, 1)] = At(Chain, 1 + 1)
    BY <2>3 DEF ListInv, RingIntact
  <2> QED BY <2>1, <2>2, <2>4
<1>4. At(Chain, 2) \in Place /\ (At(Chain, 2) = Sentinel <=> Len(Chain) = 1)
  <2>1. 2 \in 1 .. Len(Chain) <=> Len(Chain) # 1
    <3>1. \A m \in Nat \ {0} : 2 \in 1 .. m <=> m # 1
      OBVIOUS
    <3> QED BY <1>3, <3>1
  <2> QED BY <2>1, RingFacts, Places DEF Place
<1>5. /\ Phase = "idle" /\ Phase' = "taking" /\ Alone' = (Len(Contents) = 1)
      /\ Taken' = Taken /\ Dropped' = Dropped /\ Contents # <<>>
  <2>1. Len(Contents) = Len(Chain)
    BY RingFacts
  <2>2. Contents # <<>>
    BY <1>3, <2>1, EmptyFacts
  <2> QED BY <1>1, <1>2, <1>3, <1>4, <2>1, <2>2 DEF Phase, Alone, Taken, Dropped
<1>6. Queue!BeginTake
  BY <1>1, <1>2, <1>5 DEF Queue!BeginTake
<1>7. TypeOK'
  BY <1>1, <1>3, <1>4 DEF TypeOK, ListInv, PCs
<1>8. RingIntact'
  BY <1>1, <1>2 DEF RingIntact, ListInv, At
<1>9. LocalsFollow'
  BY <1>1, <1>2, <1>3 DEF LocalsFollow, ListInv, At
<1>10. LostAreDropped'
  BY <1>1, <1>2, <1>5 DEF LostAreDropped, ListInv, Lost
<1> QED BY <1>6, <1>7, <1>8, <1>9, <1>10, QueueStep DEF ListInv, Queue!Next, Queue!Take

\* The second store repairs the ring and ends the taking.
LEMMA StorePrevStep ==
    ASSUME ListInv, StorePrev PROVE ListInv' /\ Queue!Close
<1>1. /\ pc = "storePrev" /\ pc' = "free"
      /\ prev' = [prev EXCEPT ![nextNode] = prevNode]
      /\ UNCHANGED <<next, task, allocated, current, victim, nextNode, prevNode,
                     scheduled, executed>>
  BY DEF StorePrev, local
<1>2. Chain' = Chain /\ Linked' = Linked /\ Contents' = Contents
  BY <1>1, SameChain
<1>3. /\ nextNode = At(Chain, 1) /\ prevNode = Sentinel
      /\ prev \in [Place -> Place] /\ At(Chain, 1) \in Place /\ Sentinel \in Place
  <2>1. At(Chain, 1) \in Place
    BY RingFacts, Places DEF Place
  <2> QED BY <1>1, <2>1 DEF ListInv, LocalsFollow, TypeOK, Place
<1>4. Phase = "closing" /\ Phase' = "idle" /\ Alone' = FALSE /\ Taken' = Taken
      /\ Dropped' = Dropped
  BY <1>1, <1>2 DEF Phase, Alone, Taken, Dropped
<1>5. Queue!Close
  BY <1>1, <1>2, <1>4 DEF Queue!Close
<1>6. TypeOK'
  BY <1>1, <1>3 DEF TypeOK, ListInv, PCs
<1>7. RingIntact'
  <2>1. ASSUME NEW i \in 1 .. Len(Chain) + 1 PROVE prev'[At(Chain, i)] = At(Chain, i - 1)
    <3>0. Len(Chain) \in Nat /\ At(Chain, 0) = Sentinel /\ At(Chain, Len(Chain) + 1) = Sentinel
          /\ DOMAIN Chain = 1 .. Len(Chain)
          /\ \A j \in 1 .. Len(Chain) : At(Chain, j) = Chain[j] /\ Chain[j] # Sentinel
                                        /\ Chain[j] \in Node
      BY RingFacts, Places
    <3>1. CASE i = 1
      BY <1>1, <1>3, <3>0, <3>1
    <3>2. CASE i # 1
      <4>1. At(Chain, i) # At(Chain, 1)
        <5>1. CASE i = Len(Chain) + 1
          BY <3>0, <3>2, <5>1
        <5>2. CASE i \in 1 .. Len(Chain)
          <6>1. 1 \in 1 .. Len(Chain) /\ Chain[i] # Chain[1]
            BY <3>0, <3>2, <5>2 DEF ListInv, RingIntact, IsInjective
          <6> QED BY <3>0, <5>2, <6>1
        <5> QED BY <3>0, <5>1, <5>2
      <4>2. prev[At(Chain, i)] = At(Chain, i - 1) /\ At(Chain, i) \in Place
        <5>1. prev[At(Chain, i)] = At(Chain, i - 1)
          BY <3>2 DEF ListInv, RingIntact
        <5> QED BY <3>0, <5>1 DEF Place, At
      <4> QED BY <1>1, <1>3, <4>1, <4>2
    <3> QED BY <3>1, <3>2
  <2> QED BY <1>1, <1>2, <2>1 DEF RingIntact, ListInv, At
<1>8. LocalsFollow'
  BY <1>1, <1>2 DEF LocalsFollow, ListInv, At
<1>9. LostAreDropped'
  BY <1>1, <1>2, <1>4 DEF LostAreDropped, ListInv, Lost
<1> QED BY <1>5, <1>6, <1>7, <1>8, <1>9, QueueStep DEF ListInv, Queue!Next, Queue!Take
-----------------------------------------------------------------------------
\* The ring without its front node, and the queue without its front task.
LEMMA RestFacts ==
    ASSUME ListInv, Chain # <<>>
    PROVE  /\ Len(Chain) \in Nat \ {0}
           /\ Tail(Chain) \in Seq(Node) /\ IsInjective(Tail(Chain))
           /\ Len(Tail(Chain)) = Len(Chain) - 1
           /\ \A i \in 1 .. Len(Chain) : At(Tail(Chain), i) = At(Chain, i + 1)
           /\ Linked = {At(Chain, 1)} \union Range(Tail(Chain))
           /\ At(Chain, 1) \notin Range(Tail(Chain))
<1> PICK r : r = Chain
  OBVIOUS
<1> PICK q : q = Tail(r)
  OBVIOUS
<1>1. r \in Seq(Node) /\ IsInjective(r) /\ Linked = Range(r) /\ r # <<>>
  BY RingFacts DEF ListInv, RingIntact
<1>2. /\ Len(r) \in Nat \ {0} /\ DOMAIN r = 1 .. Len(r) /\ Head(r) = r[1]
      /\ q \in Seq(Node) /\ Len(q) = Len(r) - 1 /\ DOMAIN q = 1 .. Len(r) - 1
      /\ \A i \in 1 .. Len(r) - 1 : q[i] = r[i + 1]
      /\ Range(r) = {Head(r)} \union Range(q)
  BY <1>1, TailFacts
<1>3. \A i \in DOMAIN q : i \in 1 .. Len(r) - 1 /\ i + 1 \in DOMAIN r /\ i + 1 # 1
  BY <1>2
<1>4. IsInjective(q)
  <2> SUFFICES ASSUME NEW i \in DOMAIN q, NEW j \in DOMAIN q, q[i] = q[j] PROVE i = j
    BY DEF IsInjective
  <2>1. r[i + 1] = r[j + 1] /\ i + 1 \in DOMAIN r /\ j + 1 \in DOMAIN r
    BY <1>2, <1>3
  <2>2. i + 1 = j + 1
    BY <1>1, <2>1 DEF IsInjective
  <2> QED BY <1>2, <2>2
<1>5. At(r, 1) = r[1] /\ 1 \in DOMAIN r
  BY <1>2 DEF At
<1>6. r[1] \notin Range(q)
  <2> SUFFICES ASSUME NEW i \in DOMAIN q PROVE q[i] # r[1]
    BY DEF Range
  <2> QED BY <1>1, <1>2, <1>3, <1>5 DEF IsInjective
<1>7. ASSUME NEW i \in 1 .. Len(r) PROVE At(q, i) = At(r, i + 1)
  <2>1. CASE i = Len(r)
    <3>1. i \notin DOMAIN q /\ i + 1 \notin DOMAIN r
      BY <1>2, <2>1
    <3> QED BY <3>1 DEF At
  <2>2. CASE i # Len(r)
    <3>1. i \in DOMAIN q /\ i \in 1 .. Len(r) - 1 /\ i + 1 \in DOMAIN r
      <4>1. \A m \in Nat \ {0} : \A j \in 1 .. m :
               j # m => j \in 1 .. m - 1 /\ j + 1 \in 1 .. m
        OBVIOUS
      <4> QED BY <1>2, <2>2, <4>1
    <3> QED BY <1>2, <3>1 DEF At
  <2> QED BY <2>1, <2>2
<1> QED BY <1>1, <1>2, <1>4, <1>5, <1>6, <1>7

LEMMA RestOfQueue ==
    ASSUME ListInv, Chain # <<>>
    PROVE  /\ Tail(Contents) = [i \in DOMAIN Tail(Chain) |-> task[Tail(Chain)[i]]]
           /\ Head(Contents) = task[At(Chain, 1)]
           /\ Range(Contents) = {Head(Contents)} \union Range(Tail(Contents))
           /\ Head(Contents) \notin Range(Tail(Contents))
           /\ Range(Tail(Contents)) = {task[n] : n \in Range(Tail(Chain))}
           /\ \A m, n \in Linked : task[m] = task[n] => m = n
<1> PICK r, c : r = Chain /\ c = Contents
  OBVIOUS
<1> PICK q, d : q = Tail(r) /\ d = Tail(c)
  OBVIOUS
<1>1. /\ r \in Seq(Node) /\ r # <<>> /\ Linked = Range(r)
      /\ c \in Seq(0 .. MaxScheduled) /\ Len(c) = Len(r) /\ DOMAIN c = DOMAIN r
      /\ \A i \in 1 .. Len(r) : c[i] = task[r[i]]
      /\ \A i, j \in 1 .. Len(r) : i < j => c[i] < c[j]
  BY RingFacts, QueueFacts
<1>2. /\ Len(r) \in Nat \ {0} /\ DOMAIN r = 1 .. Len(r)
      /\ q \in Seq(Node) /\ DOMAIN q = 1 .. Len(r) - 1
      /\ \A i \in 1 .. Len(r) - 1 : q[i] = r[i + 1]
  BY <1>1, TailFacts
<1>3. c # <<>>
  BY <1>1, <1>2, EmptyFacts
<1>4. /\ Head(c) = c[1] /\ d \in Seq(0 .. MaxScheduled) /\ DOMAIN d = 1 .. Len(r) - 1
      /\ Len(d) = Len(r) - 1
      /\ \A i \in 1 .. Len(r) - 1 : d[i] = c[i + 1]
      /\ Range(c) = {Head(c)} \union Range(d)
  <2> DEFINE Numbers == 0 .. MaxScheduled
  <2>1. c \in Seq(Numbers)
    BY <1>1
  <2> HIDE DEF Numbers
  <2>2. /\ Head(c) = c[1] /\ d \in Seq(Numbers) /\ DOMAIN d = 1 .. Len(c) - 1
        /\ Len(d) = Len(c) - 1
        /\ \A i \in 1 .. Len(c) - 1 : d[i] = c[i + 1]
        /\ Range(c) = {Head(c)} \union Range(d)
    BY <1>3, <2>1, TailFacts
  <2> QED BY <1>1, <2>2 DEF Numbers
<1>5. \A i \in 1 .. Len(r) - 1 : /\ i + 1 \in 1 .. Len(r) /\ 1 < i + 1 /\ 1 \in 1 .. Len(r)
                                 /\ d[i] = task[q[i]] /\ c[1] < c[i + 1]
  <2> SUFFICES ASSUME NEW i \in 1 .. Len(r) - 1
               PROVE /\ i + 1 \in 1 .. Len(r) /\ 1 < i + 1 /\ 1 \in 1 .. Len(r)
                     /\ d[i] = task[q[i]] /\ c[1] < c[i + 1]
    OBVIOUS
  <2>1. i + 1 \in 1 .. Len(r) /\ 1 < i + 1 /\ 1 \in 1 .. Len(r)
    BY <1>2
  <2> QED BY <1>1, <1>2, <1>4, <2>1
<1>6. d = [i \in DOMAIN q |-> task[q[i]]]
  <2>1. d = [i \in 1 .. Len(r) - 1 |-> d[i]]
    BY <1>4, LenProperties
  <2> QED BY <1>2, <1>5, <2>1
<1>7. Head(c) = task[At(r, 1)]
  <2>1. 1 \in 1 .. Len(r) /\ At(r, 1) = r[1]
    BY <1>2 DEF At
  <2> QED BY <1>1, <1>4, <2>1
<1>8. c[1] \notin Range(d)
  <2> SUFFICES ASSUME NEW i \in DOMAIN d PROVE d[i] # c[1]
    BY DEF Range
  <2>1. c[1] < c[i + 1] /\ d[i] = c[i + 1]
    BY <1>4, <1>5
  <2>2. c[1] \in Int
    <3>1. \A m \in Nat \ {0} : 1 \in 1 .. m
      OBVIOUS
    <3>2. 1 \in 1 .. Len(c)
      BY <1>1, <1>2, <3>1
    <3>3. c[1] \in 0 .. MaxScheduled
      BY <1>1, <3>2, ElementOfSeq
    <3> QED BY <3>3
  <2> QED BY <2>1, <2>2
<1>9. Range(d) = {task[n] : n \in Range(q)}
  <2>1. \A i \in DOMAIN q : d[i] = task[q[i]]
    BY <1>2, <1>4, <1>5
  <2>2. DOMAIN d = DOMAIN q
    BY <1>2, <1>4
  <2> QED BY <2>1, <2>2 DEF Range
<1>10. ASSUME NEW m \in Range(r), NEW n \in Range(r), task[m] = task[n] PROVE m = n
  <2>1. PICK i \in 1 .. Len(r), j \in 1 .. Len(r) : m = r[i] /\ n = r[j]
    BY <1>2 DEF Range
  <2>2. c[i] = c[j] /\ c[i] \in Int
    <3>1. c[i] = c[j]
      BY <1>1, <1>10, <2>1
    <3>2. c[i] \in 0 .. MaxScheduled
      BY <1>1, ElementOfSeq
    <3> QED BY <3>1, <3>2
  <2>3. ~(i < j) /\ ~(j < i)
    BY <1>1, <2>2
  <2> QED BY <1>2, <2>1, <2>3
<1> QED BY <1>1, <1>4, <1>6, <1>7, <1>8, <1>9, <1>10

\* The first store takes the front node out of the ring, and all others with it if
\* the interrupt appended them after the victim's successor was read.
LEMMA UnhookInRing ==
    ASSUME ListInv, StoreNext
    PROVE  /\ nextNode = Sentinel => Chain' = <<>> /\ Linked' = {}
                                     /\ next'[Sentinel] = Sentinel
           /\ nextNode # Sentinel =>
                 /\ Chain' = Tail(Chain) /\ Linked' = Range(Tail(Chain))
                 /\ \A i \in 0 .. Len(Chain) - 1 :
                       next'[At(Tail(Chain), i)] = At(Tail(Chain), i + 1)
<1>1. /\ next' = [next EXCEPT ![Sentinel] = nextNode]
      /\ Chain # <<>> /\ nextNode \in {At(Chain, 2), Sentinel}
      /\ next \in [Place -> Place] /\ Sentinel \in Place
  BY DEF StoreNext, ListInv, LocalsFollow, TypeOK, Place
<1>2. next'[Sentinel] = nextNode /\ \A n \in Node : next'[n] = next[n]
  BY <1>1, NodeAssumption DEF Place
<1>3. CASE nextNode = Sentinel
  <2>1. At(<<>>, 0) = Sentinel /\ At(<<>>, 1) = Sentinel /\ Len(<<>>) = 0
    BY DEF At
  <2>2. <<>> \in Seq(Node) /\ IsInjective(<<>>)
    BY EmptyFacts DEF IsInjective
  <2>3. Follows(<<>>)'
    BY <1>2, <1>3, <2>1, <2>2 DEF Follows, At
  <2>4. Range(<<>>) = {}
    BY EmptyFacts
  <2> QED BY <1>2, <1>3, <2>3, <2>4, ChainIsNext
<1>4. CASE nextNode # Sentinel
  <2> PICK r : r = Chain
    OBVIOUS
  <2> PICK q : q = Tail(r)
    OBVIOUS
  <2>1. /\ Len(r) \in Nat \ {0} /\ q \in Seq(Node) /\ IsInjective(q) /\ r \in Seq(Node)
        /\ Len(q) = Len(r) - 1
        /\ \A i \in 1 .. Len(r) : At(q, i) = At(r, i + 1)
        /\ \A i \in 0 .. Len(r) : next[At(r, i)] = At(r, i + 1)
    BY <1>1, RestFacts DEF ListInv, RingIntact
  <2>2. ASSUME NEW i \in 0 .. Len(q) PROVE next'[At(q, i)] = At(q, i + 1)
    <3>1. CASE i = 0
      <4>1. 1 \in 1 .. Len(r) /\ At(q, 0) = Sentinel
        <5>1. \A m \in Nat \ {0} : 1 \in 1 .. m
          OBVIOUS
        <5> QED BY <2>1, <5>1, Places
      <4>2. At(q, 1) = At(r, 1 + 1)
        BY <2>1, <4>1
      <4> QED BY <1>1, <1>2, <1>4, <3>1, <4>1, <4>2
    <3>2. CASE i # 0
      <4>1. /\ i \in 1 .. Len(q) /\ i \in 1 .. Len(r) /\ i + 1 \in 1 .. Len(r)
            /\ i + 1 \in 0 .. Len(r)
        BY <2>1, <3>2
      <4>2. At(q, i) \in Node
        BY <2>1, <4>1, Places
      <4>3. At(q, i) = At(r, i + 1) /\ At(q, i + 1) = At(r, (i + 1) + 1)
        BY <2>1, <4>1
      <4> QED BY <1>2, <2>1, <4>1, <4>2, <4>3
    <3> QED BY <3>1, <3>2
  <2>3. Follows(q)'
    BY <2>1, <2>2 DEF Follows, At
  <2>4. Chain' = q /\ Linked' = Range(q)
    BY <2>3, ChainIsNext
  <2> QED BY <1>4, <2>1, <2>2, <2>4
<1> QED BY <1>3, <1>4

LEMMA StoreNextStep ==
    ASSUME ListInv, StoreNext PROVE ListInv' /\ Queue!Unlink
<1>1. /\ pc = "storeNext" /\ pc' = "storePrev"
      /\ next' = [next EXCEPT ![Sentinel] = nextNode]
      /\ prevNode = Sentinel /\ Chain # <<>> /\ victim = At(Chain, 1)
      /\ nextNode \in {At(Chain, 2), Sentinel} /\ current = task[victim]
      /\ UNCHANGED <<prev, task, allocated, current, victim, nextNode, prevNode,
                     scheduled, executed>>
  BY DEF StoreNext, local, ListInv, LocalsFollow
<1> DEFINE rest == Range(Tail(Chain))
<1>2. /\ Len(Chain) \in Nat \ {0}
      /\ Tail(Chain) \in Seq(Node) /\ IsInjective(Tail(Chain))
      /\ Len(Tail(Chain)) = Len(Chain) - 1
      /\ \A i \in 1 .. Len(Chain) : At(Tail(Chain), i) = At(Chain, i + 1)
      /\ Linked = {victim} \union rest /\ victim \notin rest
  BY <1>1, RestFacts
<1>3. /\ Tail(Contents) = [i \in DOMAIN Tail(Chain) |-> task[Tail(Chain)[i]]]
      /\ Head(Contents) = current
      /\ Range(Contents) = {current} \union Range(Tail(Contents))
      /\ current \notin Range(Tail(Contents))
      /\ Range(Tail(Contents)) = {task[n] : n \in rest}
      /\ \A m, n \in Linked : task[m] = task[n] => m = n
  BY <1>1, RestOfQueue
<1>4. /\ nextNode = Sentinel => Chain' = <<>> /\ Linked' = {}
                                /\ next'[Sentinel] = Sentinel
      /\ nextNode # Sentinel =>
            /\ Chain' = Tail(Chain) /\ Linked' = rest
            /\ \A i \in 0 .. Len(Chain) - 1 :
                  next'[At(Tail(Chain), i)] = At(Tail(Chain), i + 1)
  BY UnhookInRing
<1> HIDE DEF rest
<1>5. /\ Phase = "taking" /\ Phase' = "closing" /\ Alone = (nextNode = Sentinel)
      /\ Alone' = Alone /\ Taken' = Taken \union {current}
  BY <1>1 DEF Phase, Alone, Taken
<1>6. Contents' = IF Alone THEN <<>> ELSE Tail(Contents)
  <2>1. CASE nextNode = Sentinel
    <3>1. Chain' = <<>> /\ Alone
      BY <1>4, <1>5, <2>1
    <3>2. Contents' = <<>>
      BY <3>1 DEF Contents
    <3> QED BY <3>1, <3>2
  <2>2. CASE nextNode # Sentinel
    <3>1. Contents' = [i \in DOMAIN Tail(Chain) |-> task[Tail(Chain)[i]]]
      BY <1>1, <1>4, <2>2 DEF Contents
    <3> QED BY <1>3, <1>5, <2>2, <3>1
  <2> QED BY <2>1, <2>2
<1>7. Dropped' = IF Alone THEN Dropped \union Range(Tail(Contents)) ELSE Dropped
  <2>1. /\ 1 .. scheduled = Range(Contents) \union Taken \union Dropped
        /\ Range(Contents) \intersect (Taken \union Dropped) = {}
        /\ Taken \intersect Dropped = {}
    BY QueueFacts
  <2>2. Range(Contents') = IF Alone THEN {} ELSE Range(Tail(Contents))
    BY <1>6, EmptyFacts
  <2>3. Dropped' = (1 .. scheduled) \ (Taken \union {current} \union Range(Contents'))
    BY <1>1, <1>5 DEF Dropped
  <2> QED BY <1>3, <2>1, <2>2, <2>3
<1>8. Queue!Unlink
  BY <1>1, <1>3, <1>5, <1>6, <1>7 DEF Queue!Unlink, Queue!Range, Range
<1>9. Queue!QueueInv'
  BY <1>8, QueueStep DEF Queue!Next, Queue!Take, ListInv
<1>10. TypeOK'
  <2>1. nextNode \in Place
    BY <1>1, RingFacts, Places DEF Place
  <2> QED BY <1>1, <2>1 DEF TypeOK, ListInv, PCs
<1>11. RingIntact'
  <2>1. CASE nextNode = Sentinel
    <3>1. prev[Sentinel] \in allocated
      <4>1. prev[At(Chain, Len(Chain) + 1)] = At(Chain, (Len(Chain) + 1) - 1)
        <5>1. Len(Chain) + 1 \in 1 .. Len(Chain) + 1
          BY <1>2
        <5> QED BY <1>1, <5>1 DEF ListInv, RingIntact
      <4>2. Len(Chain) \in 1 .. Len(Chain) /\ (Len(Chain) + 1) - 1 = Len(Chain)
        BY <1>2
      <4>3. At(Chain, Len(Chain) + 1) = Sentinel /\ At(Chain, Len(Chain)) \in Linked
        BY <4>2, RingFacts, Places DEF Range
      <4> QED BY <4>1, <4>2, <4>3 DEF ListInv, RingIntact
    <3>2. IsInjective(<<>>) /\ <<>> \in Seq(Node)
      BY EmptyFacts DEF IsInjective
    <3>3. Len(<<>>) = 0 /\ At(<<>>, 0) = Sentinel /\ At(<<>>, 1) = Sentinel
      BY DEF At
    <3> QED BY <1>1, <1>4, <2>1, <3>1, <3>2, <3>3 DEF RingIntact, At
  <2>2. CASE nextNode # Sentinel
    <3>1. Chain' = Tail(Chain) /\ Linked' = rest
          /\ \A i \in 0 .. Len(Chain') : next'[At(Chain', i)] = At(Chain', i + 1)
      BY <1>2, <1>4, <2>2
    <3>2. Chain' # <<>>
      <4>1. At(Chain, 2) # Sentinel
        BY <1>1, <2>2
      <4>2. 2 \in 1 .. Len(Chain)
        BY <4>1, RingFacts, Places
      <4>3. Len(Chain') # 0
        <5>1. \A m \in Nat \ {0} : 2 \in 1 .. m => m - 1 # 0
          OBVIOUS
        <5> QED BY <1>2, <3>1, <4>2, <5>1
      <4> QED BY <4>3, EmptyFacts
    <3>3. ASSUME NEW i \in 1 .. Len(Chain') + 1, i # 1
          PROVE  prev[At(Chain', i)] = At(Chain', i - 1)
      <4>1. /\ i \in 1 .. Len(Chain) /\ i - 1 \in 1 .. Len(Chain)
            /\ i + 1 \in 1 .. Len(Chain) + 1 /\ i + 1 # 1
            /\ (i + 1) - 1 = i /\ (i - 1) + 1 = i
        BY <1>2, <3>1, <3>3
      <4>2. At(Chain', i) = At(Chain, i + 1) /\ At(Chain', i - 1) = At(Chain, i)
        BY <1>2, <3>1, <4>1
      <4>3. prev[At(Chain, i + 1)] = At(Chain, i)
        BY <4>1 DEF ListInv, RingIntact
      <4> QED BY <4>2, <4>3
    <3>4. Linked' \subseteq allocated
      BY <1>2, <3>1 DEF ListInv, RingIntact
    <3> QED BY <1>1, <1>2, <3>1, <3>2, <3>3, <3>4 DEF RingIntact, At
  <2> QED BY <2>1, <2>2
<1>12. LocalsFollow'
  <2>1. nextNode' = At(Chain', 1)
    <3>1. CASE nextNode = Sentinel
      <4>1. \A r : r = <<>> => At(r, 1) = Sentinel
        BY DEF At
      <4>2. Chain' = <<>> /\ nextNode' = Sentinel
        BY <1>1, <1>4, <3>1
      <4> QED BY <4>1, <4>2
    <3>2. CASE nextNode # Sentinel
      <4>1. \A m \in Nat \ {0} : 1 \in 1 .. m
        OBVIOUS
      <4>2. At(Tail(Chain), 1) = At(Chain, 1 + 1)
        BY <1>2, <4>1
      <4>3. At(Tail(Chain), 1) = At(Chain, 2)
        BY <4>2
      <4>4. Chain' = Tail(Chain) /\ nextNode' = At(Chain, 2)
        BY <1>1, <1>4, <3>2
      <4> QED BY <4>3, <4>4
    <3> QED BY <3>1, <3>2
  <2>2. victim' \in allocated' \ Linked'
    BY <1>1, <1>2, <1>4 DEF ListInv, RingIntact
  <2> QED BY <1>1, <2>1, <2>2 DEF LocalsFollow, At
<1>13. LostAreDropped'
  <2>1. {task[n] : n \in Lost} = Dropped /\ \A m, n \in Lost : task[m] = task[n] => m = n
    BY DEF ListInv, LostAreDropped
  <2>2. CASE nextNode = Sentinel
    <3>1. Lost' = Lost \union rest
      BY <1>1, <1>2, <1>4, <2>2 DEF Lost, ListInv, RingIntact
    <3>2. {task'[n] : n \in Lost'} = Dropped'
      <4>1. Dropped' = Dropped \union Range(Tail(Contents))
        BY <1>5, <1>7, <2>2
      <4>2. {task'[n] : n \in Lost'} = {task[n] : n \in Lost} \union {task[n] : n \in rest}
        BY <1>1, <3>1
      <4> QED BY <1>3, <2>1, <4>1, <4>2
    <3>3. ASSUME NEW m \in Lost', NEW n \in Lost', task'[m] = task'[n] PROVE m = n
      <4>1. \A k \in Lost : task[k] \in Dropped
        BY <2>1
      <4>2. \A k \in rest : k \in Linked /\ task[k] \notin Dropped
        BY <1>2, <1>3, QueueFacts
      <4> QED BY <1>1, <1>3, <2>1, <3>1, <3>3, <4>1, <4>2
    <3> QED BY <3>2, <3>3 DEF LostAreDropped
  <2>3. CASE nextNode # Sentinel
    <3>1. Lost' = Lost
      BY <1>1, <1>2, <1>4, <2>3 DEF Lost
    <3> QED BY <1>1, <1>5, <1>7, <2>1, <2>3, <3>1 DEF LostAreDropped
  <2> QED BY <2>2, <2>3
<1> QED BY <1>8, <1>9, <1>10, <1>11, <1>12, <1>13 DEF ListInv
-----------------------------------------------------------------------------
LEMMA InitHolds == Init => ListInv /\ Queue!Init
<1> SUFFICES ASSUME Init PROVE ListInv /\ Queue!Init
  OBVIOUS
<1>1. At(<<>>, 0) = Sentinel /\ At(<<>>, 1) = Sentinel /\ Len(<<>>) = 0
  BY DEF At
<1>2. <<>> \in Seq(Node) /\ IsInjective(<<>>) /\ Range(<<>>) = {} /\ Sentinel \in Place
  BY EmptyFacts DEF IsInjective, Place
<1>3. next[Sentinel] = Sentinel /\ prev[Sentinel] = Sentinel
  BY <1>2 DEF Init
<1>4. Linked = {} /\ Chain = <<>>
  <2>1. Follows(<<>>)
    BY <1>1, <1>2, <1>3 DEF Follows, At
  <2> QED BY <1>2, <2>1, ChainIs
<1>5. Contents = <<>>
  BY <1>4 DEF Contents
<1>6. Phase = "idle" /\ Alone = FALSE /\ Taken = {} /\ Dropped = {}
  <2>1. Range(executed) = {} /\ pc = "test" /\ scheduled = 0
    BY <1>2 DEF Init
  <2>2. 1 .. scheduled = {}
    BY <2>1
  <2> QED BY <2>1, <2>2 DEF Phase, Alone, Taken, Dropped
<1>7. Queue!Init
  BY <1>5, <1>6 DEF Queue!Init, Init
<1>8. Queue!QueueInv
  <2>1. <<>> \in Seq(Queue!Tasks) /\ Queue!Range(<<>>) = {} /\ DOMAIN <<>> = {}
    BY EmptyFacts DEF Queue!Range
  <2>2. scheduled = 0 /\ 1 .. scheduled = {}
    BY DEF Init
  <2>3. Queue!TypeOK
    BY <1>5, <1>6, <2>1, <2>2 DEF Queue!TypeOK, Queue!Phases
  <2> QED BY <1>5, <1>6, <2>1, <2>2, <2>3
          DEF Queue!QueueInv, Queue!WhileTaking, Queue!EveryTaskOnce,
              Queue!FirstComeFirstServed
<1>9. TypeOK
  <2>1. executed \in Seq(1 .. MaxScheduled)
    BY EmptyFacts DEF Init
  <2>2. next \in [Place -> Place] /\ prev \in [Place -> Place]
    BY <1>2 DEF Init
  <2>3. task \in [Node -> 0 .. MaxScheduled]
    BY NodeAssumption DEF Init
  <2> QED BY <2>1, <2>2, <2>3, NodeAssumption DEF Init, TypeOK, PCs
<1>10. RingIntact
  BY <1>1, <1>2, <1>3, <1>4 DEF RingIntact, Init, At
<1>11. LocalsFollow
  BY DEF LocalsFollow, Init
<1>12. LostAreDropped
  BY <1>4, <1>6 DEF LostAreDropped, Lost, Init
<1> QED BY <1>7, <1>8, <1>9, <1>10, <1>11, <1>12 DEF ListInv

\* Every step keeps the invariant and is a step of TaskQueue or changes nothing there.
LEMMA StepKeepsInvAndQueue ==
    ListInv /\ [Next]_vars => ListInv' /\ [Queue!Next]_(Queue!vars)
<1> SUFFICES ASSUME ListInv, [Next]_vars
             PROVE  ListInv' /\ (Queue!Next \/ UNCHANGED Queue!vars)
  OBVIOUS
<1>1. CASE Push
  BY <1>1, PushIsSchedule, PushKeepsInv DEF Queue!Next
<1>2. CASE Wait \/ UNCHANGED vars
  BY <1>2, WaitStep DEF Wait
<1>3. CASE Front
  BY <1>3, FrontStep
<1>4. CASE Pop
  BY <1>4, PopStep
<1>5. CASE LoadNext
  BY <1>5, LoadNextStep DEF Queue!Next, Queue!Take
<1>6. CASE LoadPrev
  BY <1>6, LoadPrevStep
<1>7. CASE StoreNext
  BY <1>7, StoreNextStep DEF Queue!Next, Queue!Take
<1>8. CASE StorePrev
  BY <1>8, StorePrevStep DEF Queue!Next, Queue!Take
<1>9. CASE Free
  BY <1>9, FreeStep
<1>10. CASE Run
  BY <1>10, RunStep
<1> QED BY <1>1, <1>2, <1>3, <1>4, <1>5, <1>6, <1>7, <1>8, <1>9, <1>10 DEF Next, Loop

\* The inductive invariant of the ring: it is intact in both directions, apart from
\* the one pointer the loop has still to store, and the locals of the loop fit it.
THEOREM ListInvariant == Spec => []ListInv
<1>1. Init => ListInv
  BY InitHolds
<1>2. ListInv /\ [Next]_vars => ListInv'
  BY StepKeepsInvAndQueue
<1> QED BY <1>1, <1>2, PTL DEF Spec

\* The pointers implement the queue: whenever the interrupt comes between two accesses
\* of the loop, what happens to the tasks is a behaviour of TaskQueue.
THEOREM PointersImplementQueue == Spec => Queue!Spec
<1>1. Init => Queue!Init
  BY InitHolds
<1>2. ListInv /\ [Next]_vars => [Queue!Next]_(Queue!vars)
  BY StepKeepsInvAndQueue
<1> QED BY <1>1, <1>2, ListInvariant, PTL DEF Spec, Queue!Spec

\* No task is run twice and none is invented (kernel.cpp:134-223).
THEOREM RunsEveryTaskOnce == Spec => []EveryTaskOnce
<1>1. ListInv => EveryTaskOnce
  BY DEF ListInv, Queue!QueueInv, EveryTaskOnce
<1> QED BY <1>1, ListInvariant, PTL

\* Tasks leave the ring in the order of scheduling (kernel.cpp:141 and 188).
THEOREM RunsInOrder == Spec => []FirstComeFirstServed
<1>1. ListInv => FirstComeFirstServed
  BY DEF ListInv, Queue!QueueInv, FirstComeFirstServed
<1> QED BY <1>1, ListInvariant, PTL

\* The node that is unlinked is the one whose task was copied (kernel.cpp:188-190).
THEOREM UnlinksWhatItCopied == Spec => []PopsWhatItCopied
<1>1. ListInv => PopsWhatItCopied
  BY DEF ListInv, LocalsFollow, PopsWhatItCopied
<1> QED BY <1>1, ListInvariant, PTL

\* A block of the heap that is neither in the ring nor being unlinked belongs to a
\* dropped task, and each dropped task keeps just one.
THEOREM LeakIsDropped == Spec => []OnlyDroppedTasksLeak
<1>1. ListInv => OnlyDroppedTasksLeak
  <2> SUFFICES ASSUME ListInv PROVE OnlyDroppedTasksLeak
    OBVIOUS
  <2> DEFINE InUse == Linked \union ({victim} \ {None})
  <2>1. allocated = InUse \union Lost /\ InUse \intersect Lost = {}
    <3>1. victim # None => victim \in allocated
      <4>1. pc \in {"loadNext", "loadPrev", "storeNext"} => victim \in Linked
        BY RingFacts, Places DEF ListInv, LocalsFollow, Range
      <4> QED BY <4>1 DEF ListInv, RingIntact, LocalsFollow, TypeOK, PCs
    <3>2. Linked \subseteq allocated /\ None \notin allocated
      BY NodeAssumption DEF ListInv, RingIntact, TypeOK
    <3> QED BY <3>1, <3>2 DEF Lost
  <2>2. IsFiniteSet(allocated)
    BY NodeAssumption, FS_Subset DEF ListInv, TypeOK
  <2>3. IsFiniteSet(InUse) /\ IsFiniteSet(Lost)
    <3> HIDE DEF InUse
    <3> QED BY <2>1, <2>2, FS_Subset
  <2> HIDE DEF InUse
  <2>4. Cardinality(allocated) = Cardinality(InUse) + Cardinality(Lost)
    <3>1. /\ Cardinality(InUse \union Lost) =
                Cardinality(InUse) + Cardinality(Lost) - Cardinality(InUse \intersect Lost)
      BY <2>3, FS_Union
    <3>2. Cardinality(InUse \intersect Lost) = 0
      BY <2>1, FS_EmptySet
    <3>3. Cardinality(InUse) \in Nat /\ Cardinality(Lost) \in Nat
      BY <2>3, FS_CardinalityType
    <3> QED BY <2>1, <3>1, <3>2, <3>3
  <2>5. Cardinality(Dropped) = Cardinality(Lost)
    <3> DEFINE taskOf == [n \in Lost |-> task[n]]
    <3>1. /\ \A n \in Lost : taskOf[n] \in Dropped
          /\ \A t \in Dropped : \E n \in Lost : taskOf[n] = t
          /\ \A m, n \in Lost : taskOf[m] = taskOf[n] => m = n
      BY DEF ListInv, LostAreDropped
    <3>2. taskOf \in Bijection(Lost, Dropped)
      BY <3>1 DEF Bijection, Injection, Surjection, IsInjective
    <3> HIDE DEF taskOf
    <3>3. IsFiniteSet(Dropped) /\ Cardinality(Lost) = Cardinality(Dropped)
      BY <2>3, <3>2, FS_Bijection DEF ExistsBijection
    <3> QED BY <3>3
  <2> QED BY <2>4, <2>5 DEF OnlyDroppedTasksLeak, InUse
<1> QED BY <1>1, ListInvariant, PTL
=============================================================================
