--------------------------- MODULE PriorityQueue ---------------------------
(***************************************************************************)
(* What a message queue promises its callers, without semaphores, mutex or *)
(* ring: a bounded sequence of messages, highest priority first and, within *)
(* one priority, in the order in which they were stored.  A caller of Put   *)
(* has one message pending until it is stored or the call gives up; a       *)
(* caller of Get finds the head of the sequence in its own box.             *)
(***************************************************************************)
EXTENDS Integers, Sequences, SequencesExt

CONSTANTS
    Producers,   \* threads that call osMessageQueuePut
    Consumers,   \* threads that call osMessageQueueGet
    Payloads,    \* what a message carries
    Priorities,  \* message priorities
    MaxCapacity, \* the largest queue that can be created
    None         \* no message

VARIABLES
    capacity,    \* messages the queue may hold; 0 while there is no queue
    queue,       \* the messages stored, in the order Get returns them
    pending,     \* [Producers -> message or None], the message being put
    box          \* [Consumers -> message or None], the message received

vars == <<capacity, queue, pending, box>>

Messages == [msg : Payloads, prio : Priorities]

\* The message goes behind those of the same or a higher priority and before
\* those of a lower one.
Belongs(e, q, k) ==
    \A i \in DOMAIN q : i <= k <=> q[i].prio >= e.prio

Init ==
    /\ capacity = 0
    /\ queue = <<>>
    /\ pending = [t \in Producers |-> None]
    /\ box = [t \in Consumers |-> None]

Create(n) ==
    /\ capacity = 0
    /\ capacity' = n
    /\ UNCHANGED <<queue, pending, box>>

\* Messages still queued are lost with the queue.
Destroy ==
    /\ capacity # 0
    /\ \A t \in Producers : pending[t] = None
    /\ capacity' = 0
    /\ queue' = <<>>
    /\ UNCHANGED <<pending, box>>

Offer(t, e) ==
    /\ capacity # 0
    /\ pending[t] = None
    /\ pending' = [pending EXCEPT ![t] = e]
    /\ UNCHANGED <<capacity, queue, box>>

Withdraw(t) ==
    /\ pending[t] # None
    /\ pending' = [pending EXCEPT ![t] = None]
    /\ UNCHANGED <<capacity, queue, box>>

Store(t) ==
    /\ pending[t] # None
    /\ Len(queue) < capacity
    /\ \E k \in 0 .. Len(queue) :
          /\ Belongs(pending[t], queue, k)
          /\ queue' = InsertAt(queue, k + 1, pending[t])
    /\ pending' = [pending EXCEPT ![t] = None]
    /\ UNCHANGED <<capacity, box>>

\* The caller may decline the priority by passing a null pointer for it.
Receive(t, wantsPrio) ==
    /\ queue # <<>>
    /\ box[t] = None
    /\ box' = [box EXCEPT ![t] =
                 [Head(queue) EXCEPT !.prio = IF wantsPrio THEN @ ELSE None]]
    /\ queue' = Tail(queue)
    /\ UNCHANGED <<capacity, pending>>

Consume(t) ==
    /\ box[t] # None
    /\ box' = [box EXCEPT ![t] = None]
    /\ UNCHANGED <<capacity, queue, pending>>

Next ==
    \/ \E n \in 1..MaxCapacity : Create(n)
    \/ Destroy
    \/ \E t \in Producers :
          \/ \E e \in Messages : Offer(t, e)
          \/ Withdraw(t)
          \/ Store(t)
    \/ \E t \in Consumers :
          \/ \E wantsPrio \in BOOLEAN : Receive(t, wantsPrio)
          \/ Consume(t)

Spec == Init /\ [][Next]_vars
=============================================================================
