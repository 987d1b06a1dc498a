------------------------------ MODULE TaskList ------------------------------
(***************************************************************************)
(* The kernel's task_list, pointer by pointer (src/src/kernel.cpp and the  *)
(* std::list of the tool chain).                                           *)
(*                                                                         *)
(* A std::list is a ring of nodes through a sentinel that is part of the   *)
(* list object.  The systick interrupt appends nodes (schedule_task), the  *)
(* kernel loop copies the front node's task and unlinks the node           *)
(* (kernel_loop).  The interrupt can come between any two memory accesses  *)
(* of the loop and runs to its end before the loop continues: Push is one  *)
(* step, unlinking takes one step per access to a shared pointer.          *)
(*                                                                         *)
(* std::list also counts its nodes; the kernel never asks for the count    *)
(* (it calls empty(), which compares pointers), so the count is left out.  *)
(***************************************************************************)
EXTENDS Integers, Sequences, FiniteSets, Functions

CONSTANTS Node,            \* heap blocks a list node can occupy
          Sentinel,        \* the node inside the list object
          None,            \* no node: the value of a local before its use
          MaxScheduled     \* bound: number of tasks scheduled in a behaviour

ASSUME NodeAssumption ==
    /\ IsFiniteSet(Node)
    /\ Sentinel \notin Node
    /\ None \notin Node \union {Sentinel}
    /\ MaxScheduled \in Nat

VARIABLES next, prev,      \* the pointers of every node
          task,            \* the task stored in a node, by number
          allocated,       \* the nodes taken from the heap
          pc,              \* the next access of the kernel loop
          current,         \* kernel_loop: Task task = task_list.front()
          victim,          \* pop_front: the node to unlink
          nextNode,        \* _M_unhook: its successor
          prevNode,        \* _M_unhook: its predecessor
          scheduled,       \* history: number of tasks scheduled so far
          executed         \* history: the tasks whose funct was called, in order

list  == <<next, prev, task, allocated>>
local == <<current, victim, nextNode, prevNode>>
vars  == <<next, prev, task, allocated, pc, current, victim, nextNode, prevNode,
           scheduled, executed>>

Place == Node \union {Sentinel}
PCs   == {"test", "pop", "loadNext", "loadPrev", "storeNext", "storePrev",
          "free", "run"}

Init ==
    /\ next = [n \in Place |-> Sentinel]
    /\ prev = [n \in Place |-> Sentinel]
    /\ task = [n \in Node |-> 0]
    /\ allocated = {}
    /\ pc = "test"
    /\ current = 0
    /\ victim = None
    /\ nextNode = None
    /\ prevNode = None
    /\ scheduled = 0
    /\ executed = <<>>
-----------------------------------------------------------------------------
(* The systick interrupt.                                                  *)

\* Mutant: the new node is not made the sentinel's predecessor.
HookWithoutTail(n) ==
    /\ next' = [next EXCEPT ![n] = Sentinel, ![prev[Sentinel]] = n]
    /\ prev' = [prev EXCEPT ![n] = prev[Sentinel]]

\* Mutant: the new node is linked behind the sentinel, at the front of the list.
HookAtFront(n) ==
    /\ next' = [next EXCEPT ![n] = next[Sentinel], ![Sentinel] = n]
    /\ prev' = [prev EXCEPT ![n] = Sentinel, ![next[Sentinel]] = n]

\* _M_hook: link the node in front of the sentinel.
Hook(n) ==
    /\ next' = [next EXCEPT ![n] = Sentinel, ![prev[Sentinel]] = n]
    /\ prev' = [prev EXCEPT ![n] = prev[Sentinel], ![Sentinel] = n]

\* schedule_task: push_back allocates a node and hooks it.
Push ==
    /\ scheduled < MaxScheduled
    /\ \E n \in Node \ allocated :
          /\ allocated' = allocated \union {n}
          /\ task' = [task EXCEPT ![n] = scheduled + 1]
          /\ Hook(n)
    /\ scheduled' = scheduled + 1
    /\ UNCHANGED <<pc, local, executed>>
-----------------------------------------------------------------------------
(* The kernel loop, one access to the list at a time.                      *)

\* task_list.empty(): a busy wait if the list is empty.
Wait ==
    /\ pc = "test"
    /\ next[Sentinel] = Sentinel
    /\ UNCHANGED vars

\* task_list is not empty: copy task_list.front().
Front ==
    /\ pc = "test"
    /\ next[Sentinel] # Sentinel
    /\ current' = task[next[Sentinel]]
    /\ pc' = "pop"
    /\ UNCHANGED <<list, victim, nextNode, prevNode, scheduled, executed>>

\* Mutant: pop_back() instead of pop_front().
PopBack ==
    /\ pc = "pop"
    /\ victim' = prev[Sentinel]
    /\ pc' = "loadNext"
    /\ UNCHANGED <<list, current, nextNode, prevNode, scheduled, executed>>

\* Mutant: the last task is not taken out of the list.
PopUnlessLast ==
    /\ pc = "pop"
    /\ IF next[next[Sentinel]] = Sentinel
       THEN pc' = "test" /\ UNCHANGED victim
       ELSE pc' = "loadNext" /\ victim' = next[Sentinel]
    /\ UNCHANGED <<list, current, nextNode, prevNode, scheduled, executed>>

\* pop_front erases begin().
Pop ==
    /\ pc = "pop"
    /\ victim' = next[Sentinel]
    /\ pc' = "loadNext"
    /\ UNCHANGED <<list, current, nextNode, prevNode, scheduled, executed>>

LoadNext ==
    /\ pc = "loadNext"
    /\ nextNode' = next[victim]
    /\ pc' = "loadPrev"
    /\ UNCHANGED <<list, current, victim, prevNode, scheduled, executed>>

LoadPrev ==
    /\ pc = "loadPrev"
    /\ prevNode' = prev[victim]
    /\ pc' = "storeNext"
    /\ UNCHANGED <<list, current, victim, nextNode, scheduled, executed>>

StoreNext ==
    /\ pc = "storeNext"
    /\ next' = [next EXCEPT ![prevNode] = nextNode]
    /\ pc' = "storePrev"
    /\ UNCHANGED <<prev, task, allocated, local, scheduled, executed>>

\* Mutant: the successor keeps its pointer to the unlinked node.
StorePrevForgotten ==
    /\ pc = "storePrev"
    /\ pc' = "free"
    /\ UNCHANGED <<list, local, scheduled, executed>>

StorePrev ==
    /\ pc = "storePrev"
    /\ prev' = [prev EXCEPT ![nextNode] = prevNode]
    /\ pc' = "free"
    /\ UNCHANGED <<next, task, allocated, local, scheduled, executed>>

\* Mutant: the node is not given back.
FreeForgotten ==
    /\ pc = "free"
    /\ victim' = None
    /\ nextNode' = None
    /\ prevNode' = None
    /\ pc' = "run"
    /\ UNCHANGED <<list, current, scheduled, executed>>

\* The node goes back to the heap; the locals of pop_front are gone.
Free ==
    /\ pc = "free"
    /\ allocated' = allocated \ {victim}
    /\ victim' = None
    /\ nextNode' = None
    /\ prevNode' = None
    /\ pc' = "run"
    /\ UNCHANGED <<next, prev, task, current, scheduled, executed>>

\* task.funct(); the copy goes out of scope at the end of the loop's body.
Run ==
    /\ pc = "run"
    /\ executed' = Append(executed, current)
    /\ current' = 0
    /\ pc' = "test"
    /\ UNCHANGED <<list, victim, nextNode, prevNode, scheduled>>

Loop == Front \/ Pop \/ LoadNext \/ LoadPrev \/ StoreNext \/ StorePrev \/ Free \/ Run

Next == Push \/ Wait \/ Loop

\* The loop never stops.  The interrupt owes the list nothing.
Spec == Init /\ [][Next]_vars /\ WF_vars(Loop)
-----------------------------------------------------------------------------
(* The tasks in the list, and the queue it implements.                     *)

\* The node reached from the sentinel in k + 1 steps along next; Sentinel once
\* the ring is closed.
Reached[k \in Nat] ==
    IF k = 0 THEN next[Sentinel]
    ELSE IF Reached[k - 1] = Sentinel THEN Sentinel ELSE next[Reached[k - 1]]

Linked == {Reached[k] : k \in 0 .. Cardinality(Node)} \ {Sentinel}

\* The nodes of the list in this order, and the tasks they hold.
Chain == [i \in 1 .. Cardinality(Linked) |-> Reached[i - 1]]

Contents == [i \in DOMAIN Chain |-> task[Chain[i]]]

Taken == IF pc \in {"storePrev", "free", "run"} THEN Range(executed) \union {current}
         ELSE Range(executed)

Dropped == (1 .. scheduled) \ (Taken \union Range(Contents))

\* How far the loop is with taking a task, and whether that task is the only one.
Phase == CASE pc \in {"loadPrev", "storeNext"} -> "taking"
           [] pc = "storePrev"                 -> "closing"
           [] OTHER                            -> "idle"

Alone == pc \in {"loadPrev", "storeNext", "storePrev"} /\ nextNode = Sentinel

Queue == INSTANCE TaskQueue WITH
    waiting <- Contents, phase <- Phase, alone <- Alone, taken <- Taken, dropped <- Dropped

\* The pointers implement the queue: every behaviour of the list under the
\* interrupt is one of TaskQueue, its fairness included.
ImplementsTaskQueue == Queue!FairSpec

\* No task is run twice and none is invented, although the interrupt relinks the
\* nodes between the accesses of the loop: a task in the ring has not been taken
\* (schedule_task and kernel_loop, src/src/kernel.cpp:134-223).
EveryTaskOnce == Queue!EveryTaskOnce

\* The ring is in the order of scheduling and all that was taken came before it:
\* tasks are executed first come, first served (kernel.cpp:141 and 188).
FirstComeFirstServed == Queue!FirstComeFirstServed

\* A task in the ring leaves it in the end: the loop never gets stuck with work
\* in the list (kernel.cpp:180).
NoTaskWaitsForever ==
    \A t \in 1 .. MaxScheduled : t \in Range(Contents) ~> t \notin Range(Contents)
-----------------------------------------------------------------------------
TypeOK ==
    /\ next \in [Place -> Place]
    /\ prev \in [Place -> Place]
    /\ task \in [Node -> 0 .. MaxScheduled]
    /\ allocated \subseteq Node
    /\ pc \in PCs
    /\ current \in 0 .. MaxScheduled
    /\ {victim, nextNode, prevNode} \subseteq Place \union {None}
    /\ scheduled \in 0 .. MaxScheduled
    /\ executed \in Seq(1 .. MaxScheduled)

\* The i-th place of the ring, whose places 0 and Len(r) + 1 are the sentinel's.
At(r, i) == IF i \in DOMAIN r THEN r[i] ELSE Sentinel

\* The nodes form one ring through the sentinel, of allocated nodes only, the same in
\* both directions: the loop never follows a pointer into a freed node, whenever the
\* interrupt came.  Between the two stores of _M_unhook only the pointer still to
\* be stored is wrong; if it is the sentinel's, it leads to a node that has left.
RingIntact ==
    /\ Chain \in Seq(Node) /\ IsInjective(Chain)
    /\ Linked \subseteq allocated
    /\ \A i \in 0 .. Len(Chain) : next[At(Chain, i)] = At(Chain, i + 1)
    /\ \A i \in 1 .. Len(Chain) + 1 :
          ~(pc = "storePrev" /\ i = 1) => prev[At(Chain, i)] = At(Chain, i - 1)
    /\ pc = "storePrev" /\ Chain = <<>> => prev[Sentinel] \in allocated

\* What the locals of the loop hold at each access: the victim is the front node until
\* it is unlinked, its neighbours are still those that were read.
LocalsFollow ==
    /\ pc \in {"pop", "loadNext", "loadPrev", "storeNext"} => Chain # <<>>
    /\ pc = "test" => current = 0
    /\ pc = "pop" => current = task[At(Chain, 1)]
    /\ pc \in {"loadNext", "loadPrev", "storeNext"} => victim = At(Chain, 1)
    /\ pc \in {"storePrev", "free"} => victim \in allocated \ Linked
    /\ pc \in {"loadNext", "loadPrev", "storeNext", "storePrev", "free"} =>
          current = task[victim]
    /\ pc \in {"test", "pop", "run"} => victim = None
    /\ pc \in {"loadPrev", "storeNext"} => nextNode \in {At(Chain, 2), Sentinel}
    /\ pc = "storePrev" => nextNode = At(Chain, 1)
    /\ pc \in {"storeNext", "storePrev"} => prevNode = Sentinel

\* The nodes that are allocated but neither in the ring nor being unlinked.
Lost == allocated \ (Linked \union {victim})

\* Each dropped task has its own lost node, and each lost node a dropped task.
LostAreDropped ==
    /\ {task[n] : n \in Lost} = Dropped
    /\ \A m, n \in Lost : task[m] = task[n] => m = n

\* The inductive invariant.
ListInv == TypeOK /\ RingIntact /\ LocalsFollow /\ LostAreDropped /\ Queue!QueueInv

\* The node the loop unlinks is the one whose task it has copied, although the
\* list may have grown between front() and pop_front().
PopsWhatItCopied ==
    pc \in {"loadNext", "loadPrev", "storeNext"} => task[victim] = current

\* Every block taken from the heap holds a task that waits, the task being
\* taken, or a dropped task: a dropped task costs its node for ever, and
\* nothing else leaks.
OnlyDroppedTasksLeak ==
    Cardinality(allocated)
        = Cardinality(Linked \union ({victim} \ {None})) + Cardinality(Dropped)

\* "All scheduled tasks get executed" (kernel.cpp:175): a task leaves the list
\* only to be run.
NoTaskDropped == Dropped = {}
=============================================================================
