------------------------------- MODULE Stream -------------------------------
(***************************************************************************)
(* The streams between the motion sensor and the display                   *)
(* (src/src/stream.cpp).  A receiver's queue is a std::list: push_back     *)
(* links the node, then loads the list's size and stores it increased;     *)
(* the interrupt of the receiver may fetch in between.  Blocks are alike,  *)
(* so a queue is the number of its nodes.                                  *)
(***************************************************************************)
EXTENDS Integers, Sequences

CONSTANT Receivers    \* list_of_receivers of each stream, in order

VARIABLES linked,     \* the nodes in the display's queue of each stream
          size,       \* what the list object says
          port,       \* the receiver transmit() is at; 0: no transmit
          push,       \* the next step of push_back there
          loaded      \* push_back: the size it has loaded

\* Each stream is wired to the display once (system.cpp:135-138).
ASSUME StreamAssumption ==
    /\ Receivers \in Seq({"display", "null"})
    /\ \A i, j \in DOMAIN Receivers :
          Receivers[i] = "display" /\ Receivers[j] = "display" => i = j

stream == <<linked, size, port, push, loaded>>

Streams == {"ahrs", "gyro"}

StreamInit ==
    /\ linked = [s \in Streams |-> 0]
    /\ size = [s \in Streams |-> 0]
    /\ port = 0
    /\ push = "link"
    /\ loaded = 0

BeginTransmit == port = 0 /\ port' = 1 /\ UNCHANGED <<linked, size, push, loaded>>

EndTransmit ==
    /\ port > Len(Receivers)
    /\ port' = 0
    /\ UNCHANGED <<linked, size, push, loaded>>

AtReceiver == port \in DOMAIN Receivers

\* receive(data) of the receiver: queue.push_back.  A receiver that does not exist
\* has no queue: no step, the program is lost.
Link(s) ==
    /\ AtReceiver /\ Receivers[port] = "display"
    /\ push = "link"
    /\ linked' = [linked EXCEPT ![s] = @ + 1]
    /\ push' = "load"
    /\ UNCHANGED <<size, port, loaded>>

\* Mutant: the size is counted before the node is linked.
CountFirst(s) ==
    \/ /\ AtReceiver /\ Receivers[port] = "display"
       /\ push = "link"
       /\ size' = [size EXCEPT ![s] = @ + 1]
       /\ push' = "load"
       /\ UNCHANGED <<linked, port, loaded>>
    \/ /\ push = "load"
       /\ linked' = [linked EXCEPT ![s] = @ + 1]
       /\ push' = "link"
       /\ port' = port + 1
       /\ UNCHANGED <<size, loaded>>

LoadSize(s) ==
    /\ push = "load"
    /\ loaded' = size[s]
    /\ push' = "store"
    /\ UNCHANGED <<linked, size, port>>

StoreSize(s) ==
    /\ push = "store"
    /\ size' = [size EXCEPT ![s] = loaded + 1]
    /\ push' = "link"
    /\ port' = port + 1
    /\ UNCHANGED <<linked, loaded>>

PushBack(s) == Link(s) \/ LoadSize(s) \/ StoreSize(s)

\* In the interrupt of the display: if (count() > 0) fetch(), of each stream.
\* Undefined on an empty queue: no step, the program is lost.
FetchAll ==
    /\ \A s \in Streams : size[s] > 0 => linked[s] > 0
    /\ linked' = [s \in Streams |-> IF size[s] > 0 THEN linked[s] - 1 ELSE linked[s]]
    /\ size' = [s \in Streams |-> IF size[s] > 0 THEN size[s] - 1 ELSE 0]
    /\ UNCHANGED <<port, push, loaded>>
-----------------------------------------------------------------------------
\* Although the interrupt fetches while push_back is under way, the size is never
\* wrong for good, and the display never fetches from an empty queue: if the task list
\* is empty at least every 10 ms, a stream has been emptied before the next block is
\* linked (display.cpp:93-106, stream.cpp:24).
CountsExact ==
    \A s \in Streams : /\ size[s] <= linked[s]
                       /\ push = "link" => size[s] = linked[s]

\* Every receiver a stream is wired to exists (system.cpp:137-138).
NoNullReceiver == AtReceiver => Receivers[port] # "null"
=============================================================================
