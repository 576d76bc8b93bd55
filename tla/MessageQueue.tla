---------------------------- MODULE MessageQueue ----------------------------
(***************************************************************************)
(* osMessageQueue* of cmsisPosix_MessageQueue.c.  A queue is a ring of      *)
(* msg_count slots kept in priority order under a mutex; two counting       *)
(* semaphores, avail and used, hold the tokens for its free and its filled  *)
(* slots.  Put takes an avail token, inserts under the mutex and posts used *)
(* after releasing it; Get takes a used token, copies the head under the    *)
(* mutex and posts avail after releasing it.  The three objects are         *)
(* therefore only related through the calls that are in flight.             *)
(*                                                                          *)
(* One step of the model is one semaphore or mutex operation, or one        *)
(* iteration of Put's scan.  POSIX semaphores and mutexes are modelled by   *)
(* their contract: a waiter may go on as soon as the value allows it, in no *)
(* particular order.                                                        *)
(***************************************************************************)
EXTENDS Posix

CONSTANTS
    Producers,   \* threads that call osMessageQueuePut
    Consumers,   \* threads that call osMessageQueueGet (the sets may overlap)
    Payloads,    \* contents of messages
    Priorities,  \* values of msg_prio
    Garbage      \* contents of memory that malloc returned

Threads == Producers \cup Consumers

ASSUME ThreadsAssumption == IsFiniteSet(Threads) /\ None \notin Threads
ASSUME PrioritiesAssumption == Priorities \subseteq Nat
\* None is no message.
ASSUME MessagesAssumption ==
    None \notin [msg : Payloads \cup {Garbage}, prio : Priorities \cup {0, None}]

VARIABLES
    msg_count,   \* capacity; 0 while no queue exists
    avail,       \* value of the semaphore avail
    used,        \* value of the semaphore used
    mutex,       \* the thread that holds the mutex, or None
    buffer,      \* the message in each slot
    priorities,  \* the priority in each slot
    head,        \* slot of the next message to get
    tail,        \* slot behind the last message
    pc,          \* where each thread is in its call
    timed,       \* TRUE for a waiting thread whose timeout is finite
    arg,         \* message and priority of each call of Put
    ins,         \* each thread's scan position in Put
    box          \* the message each call of Get has copied out

tokens == <<avail, used>>
ring == <<buffer, priorities, head, tail>>
vars == <<msg_count, tokens, mutex, ring, pc, timed, arg, ins, box>>

Slots == 0 .. msg_count - 1
Messages == [msg : Payloads, prio : Priorities]
At(labels) == {t \in Threads : pc[t] \in labels}

-----------------------------------------------------------------------------
(* Ring arithmetic on uint32_t. *)

\* Fault: the index never wraps to the start of the ring.
next_idx_unwrapped(idx, capacity) == (idx + 1) % Word

next_idx(idx, capacity) == ((idx + 1) % Word) % capacity

\* Fault: the sum before the reduction does not fit its type.
prev_idx_narrow(idx, capacity) ==
    ((idx + capacity - 1) % (Word \div 2)) % capacity

prev_idx(idx, capacity) == ((idx + capacity - 1) % Word) % capacity

-----------------------------------------------------------------------------
(* Creation and deletion.  The queue is handed to the threads after New     *)
(* returned, and deleted when no thread is inside a call on it, as the      *)
(* tests do: the code does not survive anything else.                       *)

Init ==
    /\ msg_count = 0
    /\ avail = 0 /\ used = 0
    /\ mutex = None
    /\ buffer = <<>> /\ priorities = <<>>
    /\ head = 0 /\ tail = 0
    /\ pc = [t \in Threads |-> "idle"]
    /\ timed = [t \in Threads |-> FALSE]
    /\ arg = [t \in Threads |-> None]
    /\ ins = [t \in Threads |-> 0]
    /\ box = [t \in Threads |-> None]

\* Sizes that sem_init refuses, and 0, leave no queue and change nothing.
New(n) ==
    /\ msg_count = 0
    /\ n \in 1 .. SemValueMax
    /\ msg_count' = n
    /\ avail' = n /\ used' = 0
    /\ mutex' = None
    /\ buffer' = [i \in 0 .. n - 1 |-> Garbage]
    /\ priorities' = [i \in 0 .. n - 1 |-> 0]
    /\ head' = 0 /\ tail' = 0
    /\ UNCHANGED <<pc, timed, arg, ins, box>>

Delete ==
    /\ msg_count # 0
    /\ At({"idle"}) = Threads
    /\ msg_count' = 0
    /\ avail' = 0 /\ used' = 0
    /\ mutex' = None
    /\ buffer' = <<>> /\ priorities' = <<>>
    /\ head' = 0 /\ tail' = 0
    /\ UNCHANGED <<pc, timed, arg, ins, box>>

-----------------------------------------------------------------------------
(* osMessageQueuePut. *)

\* The call and its first attempt at the semaphore.  A call with timeout 0
\* that finds no token returns osErrorResource at once and leaves no trace.
PutCall(t, e, finite) ==
    /\ msg_count # 0
    /\ pc[t] = "idle"
    /\ \/ /\ avail > 0
          /\ avail' = avail - 1
          /\ pc' = [pc EXCEPT ![t] = "put_lock"]
          /\ UNCHANGED timed
       \/ /\ avail = 0
          /\ pc' = [pc EXCEPT ![t] = "put_wait"]
          /\ timed' = [timed EXCEPT ![t] = finite]
          /\ UNCHANGED avail
    /\ arg' = [arg EXCEPT ![t] = e]
    /\ UNCHANGED <<msg_count, used, mutex, ring, ins, box>>

PutWake(t) ==
    /\ pc[t] = "put_wait"
    /\ avail > 0
    /\ avail' = avail - 1
    /\ pc' = [pc EXCEPT ![t] = "put_lock"]
    /\ timed' = [timed EXCEPT ![t] = FALSE]
    /\ UNCHANGED <<msg_count, used, mutex, ring, arg, ins, box>>

\* Fault: a wait that failed gives back a token it never took.
PutFail_posts(t) ==
    /\ pc[t] = "put_wait"
    /\ timed[t] \/ Signals
    /\ avail' = SemPost(avail)
    /\ pc' = [pc EXCEPT ![t] = "idle"]
    /\ timed' = [timed EXCEPT ![t] = FALSE]
    /\ arg' = [arg EXCEPT ![t] = None]
    /\ UNCHANGED <<msg_count, used, mutex, ring, ins, box>>

\* ETIMEDOUT returns osErrorTimeout, EINTR osErrorResource.
PutFail(t) ==
    /\ pc[t] = "put_wait"
    /\ timed[t] \/ Signals
    /\ pc' = [pc EXCEPT ![t] = "idle"]
    /\ timed' = [timed EXCEPT ![t] = FALSE]
    /\ arg' = [arg EXCEPT ![t] = None]
    /\ UNCHANGED <<msg_count, tokens, mutex, ring, ins, box>>

PutLock(t) ==
    /\ pc[t] = "put_lock"
    /\ mutex = None
    /\ mutex' = t
    /\ ins' = [ins EXCEPT ![t] = tail]
    /\ pc' = [pc EXCEPT ![t] = "put_scan"]
    /\ UNCHANGED <<msg_count, tokens, ring, timed, arg, box>>

\* Fault: < for <=, so that a message overtakes those of its own priority.
ScanDone_strict(t) ==
    \/ ins[t] = head
    \/ arg[t].prio < priorities[prev_idx(ins[t], msg_count)]

\* The loop ends at the head, or behind a message that is not less urgent.
ScanDone(t) ==
    \/ ins[t] = head
    \/ arg[t].prio <= priorities[prev_idx(ins[t], msg_count)]

PutShift(t) ==
    /\ pc[t] = "put_scan"
    /\ ~ ScanDone(t)
    /\ LET prev == prev_idx(ins[t], msg_count)
       IN  /\ buffer' = [buffer EXCEPT ![ins[t]] = buffer[prev]]
           /\ priorities' = [priorities EXCEPT ![ins[t]] = priorities[prev]]
           /\ ins' = [ins EXCEPT ![t] = prev]
    /\ UNCHANGED <<msg_count, tokens, mutex, head, tail, pc, timed, arg, box>>

\* Fault: the tail is set behind the inserted message, not behind the last.
PutInsert_tail(t) ==
    /\ pc[t] = "put_scan"
    /\ ScanDone(t)
    /\ buffer' = [buffer EXCEPT ![ins[t]] = arg[t].msg]
    /\ priorities' = [priorities EXCEPT ![ins[t]] = arg[t].prio]
    /\ tail' = next_idx(ins[t], msg_count)
    /\ mutex' = None
    /\ pc' = [pc EXCEPT ![t] = "put_post"]
    /\ arg' = [arg EXCEPT ![t] = None]
    /\ ins' = [ins EXCEPT ![t] = 0]
    /\ UNCHANGED <<msg_count, tokens, head, timed, box>>

PutInsert(t) ==
    /\ pc[t] = "put_scan"
    /\ ScanDone(t)
    /\ buffer' = [buffer EXCEPT ![ins[t]] = arg[t].msg]
    /\ priorities' = [priorities EXCEPT ![ins[t]] = arg[t].prio]
    /\ tail' = next_idx(tail, msg_count)
    /\ mutex' = None
    /\ pc' = [pc EXCEPT ![t] = "put_post"]
    /\ arg' = [arg EXCEPT ![t] = None]
    /\ ins' = [ins EXCEPT ![t] = 0]
    /\ UNCHANGED <<msg_count, tokens, head, timed, box>>

\* Fault: the wrong semaphore is posted.
PutPost_avail(t) ==
    /\ pc[t] = "put_post"
    /\ avail' = SemPost(avail)
    /\ pc' = [pc EXCEPT ![t] = "idle"]
    /\ UNCHANGED <<msg_count, used, mutex, ring, timed, arg, ins, box>>

PutPost(t) ==
    /\ pc[t] = "put_post"
    /\ used' = SemPost(used)
    /\ pc' = [pc EXCEPT ![t] = "idle"]
    /\ UNCHANGED <<msg_count, avail, mutex, ring, timed, arg, ins, box>>

-----------------------------------------------------------------------------
(* osMessageQueueGet. *)

GetCall(t, finite) ==
    /\ msg_count # 0
    /\ pc[t] = "idle"
    /\ \/ /\ used > 0
          /\ used' = used - 1
          /\ pc' = [pc EXCEPT ![t] = "get_lock"]
          /\ UNCHANGED timed
       \/ /\ used = 0
          /\ pc' = [pc EXCEPT ![t] = "get_wait"]
          /\ timed' = [timed EXCEPT ![t] = finite]
          /\ UNCHANGED used
    /\ UNCHANGED <<msg_count, avail, mutex, ring, arg, ins, box>>

GetWake(t) ==
    /\ pc[t] = "get_wait"
    /\ used > 0
    /\ used' = used - 1
    /\ pc' = [pc EXCEPT ![t] = "get_lock"]
    /\ timed' = [timed EXCEPT ![t] = FALSE]
    /\ UNCHANGED <<msg_count, avail, mutex, ring, arg, ins, box>>

GetFail(t) ==
    /\ pc[t] = "get_wait"
    /\ timed[t] \/ Signals
    /\ pc' = [pc EXCEPT ![t] = "idle"]
    /\ timed' = [timed EXCEPT ![t] = FALSE]
    /\ UNCHANGED <<msg_count, tokens, mutex, ring, arg, ins, box>>

\* Fault: the head is copied without the mutex being waited for.
GetLock_barges(t) ==
    /\ pc[t] = "get_lock"
    /\ mutex' = t
    /\ pc' = [pc EXCEPT ![t] = "get_copy"]
    /\ UNCHANGED <<msg_count, tokens, ring, timed, arg, ins, box>>

GetLock(t) ==
    /\ pc[t] = "get_lock"
    /\ mutex = None
    /\ mutex' = t
    /\ pc' = [pc EXCEPT ![t] = "get_copy"]
    /\ UNCHANGED <<msg_count, tokens, ring, timed, arg, ins, box>>

\* Copies the head out and unlocks; msg_prio may be a null pointer.
GetCopy(t, wantsPrio) ==
    /\ pc[t] = "get_copy"
    /\ box' = [box EXCEPT ![t] =
                 [msg  |-> buffer[head],
                  prio |-> IF wantsPrio THEN priorities[head] ELSE None]]
    /\ head' = next_idx(head, msg_count)
    /\ mutex' = None
    /\ pc' = [pc EXCEPT ![t] = "get_post"]
    /\ UNCHANGED <<msg_count, tokens, buffer, priorities, tail, timed, arg, ins>>

\* Fault: the freed slot is not posted.
GetPost_silent(t) ==
    /\ pc[t] = "get_post"
    /\ pc' = [pc EXCEPT ![t] = "idle"]
    /\ box' = [box EXCEPT ![t] = None]
    /\ UNCHANGED <<msg_count, tokens, mutex, ring, timed, arg, ins>>

GetPost(t) ==
    /\ pc[t] = "get_post"
    /\ avail' = SemPost(avail)
    /\ pc' = [pc EXCEPT ![t] = "idle"]
    /\ box' = [box EXCEPT ![t] = None]
    /\ UNCHANGED <<msg_count, used, mutex, ring, timed, arg, ins>>

-----------------------------------------------------------------------------
(* The queries read a field or a semaphore, without the mutex. *)

osMessageQueueGetCapacity == msg_count
osMessageQueueGetCount == used
osMessageQueueGetSpace == avail

-----------------------------------------------------------------------------
PutStep(t) ==
    \/ PutWake(t) \/ PutLock(t) \/ PutShift(t) \/ PutInsert(t) \/ PutPost(t)

GetStep(t) ==
    \/ GetWake(t)
    \/ GetLock(t)
    \/ \E wantsPrio \in BOOLEAN : GetCopy(t, wantsPrio)
    \/ GetPost(t)

Next ==
    \/ \E n \in 1 .. SemValueMax : New(n)
    \/ Delete
    \/ \E t \in Producers :
          \/ \E e \in Messages, finite \in BOOLEAN : PutCall(t, e, finite)
          \/ PutStep(t)
          \/ PutFail(t)
    \/ \E t \in Consumers :
          \/ \E finite \in BOOLEAN : GetCall(t, finite)
          \/ GetStep(t)
          \/ GetFail(t)

Spec == Init /\ [][Next]_vars

\* A thread inside a call runs on whenever it can, and the consumers keep
\* calling Get.  Nothing is assumed of who wins a semaphore or the mutex, nor
\* of the producers ever calling Put.
Fairness ==
    /\ \A t \in Producers : WF_vars(PutStep(t))
    /\ \A t \in Consumers :
          /\ WF_vars(GetStep(t))
          /\ WF_vars(GetCall(t, FALSE))

LiveSpec == Spec /\ Fairness

-----------------------------------------------------------------------------
(* What the calls in flight hold. *)

\* Calls of Put that own a free slot they have not filled.
Filling == At({"put_lock", "put_scan"})
\* Calls of Put that filled a slot nobody has been told about.
Unposted == At({"put_post"})
\* Calls of Get that own a message they have not copied.
Emptying == At({"get_lock", "get_copy"})
\* Calls of Get that freed a slot nobody has been told about.
Unfreed == At({"get_post"})

\* Messages in the ring, counted without looking at head and tail.
Filled == used + Cardinality(Unposted) + Cardinality(Emptying)

\* Slots from the head to slot i.
Offset(i) == IF i >= head THEN i - head ELSE i + msg_count - head

\* The messages of the ring, first the one to get next.  A scan that has
\* begun to shift leaves one slot whose message now also stands behind it.
Contents ==
    LET skipped(i) == \E t \in At({"put_scan"}) : i > Offset(ins[t])
        slot(i) == (head + (IF skipped(i) THEN i ELSE i - 1)) % msg_count
    IN  [i \in 1 .. Filled |->
            [msg |-> buffer[slot(i)], prio |-> priorities[slot(i)]]]

-----------------------------------------------------------------------------
(* Properties. *)

\* Every variable holds a value of the C type the code gives it; head, tail
\* and every scan position are slots of the ring (indexing lines 157-174,
\* 222-227).
TypeOK ==
    /\ msg_count \in 0 .. SemValueMax
    /\ avail \in Nat /\ used \in Nat
    /\ mutex \in Threads \cup {None}
    /\ buffer \in [Slots -> Payloads \cup {Garbage}]
    /\ priorities \in [Slots -> Priorities \cup {0}]
    /\ msg_count # 0 => head \in Slots /\ tail \in Slots
    /\ head \in Nat /\ tail \in Nat
    /\ pc \in [Threads -> {"idle", "put_wait", "put_lock", "put_scan", "put_post",
                           "get_wait", "get_lock", "get_copy", "get_post"}]
    /\ timed \in [Threads -> BOOLEAN]
    /\ arg \in [Threads -> Messages \cup {None}]
    /\ \A t \in Threads :
          pc[t] \in {"put_wait", "put_lock", "put_scan"} => arg[t] \in Messages
    /\ ins \in [Threads -> Nat]
    /\ \A t \in Threads : pc[t] = "put_scan" => ins[t] \in Slots
    /\ box \in [Threads -> [msg  : Payloads \cup {Garbage},
                            prio : Priorities \cup {0, None}] \cup {None}]
    /\ msg_count = 0 => pc = [t \in Threads |-> "idle"]

\* No path through Put and Get, successful or not, loses or invents a slot
\* (lines 128-149, 179, 197-218, 231).  So what osMessageQueueGetCount and
\* osMessageQueueGetSpace report falls short of the capacity by the calls in
\* flight, and by nothing else.
TokenConservation ==
    osMessageQueueGetCount + osMessageQueueGetSpace
        + Cardinality(Filling) + Cardinality(Unposted)
        + Cardinality(Emptying) + Cardinality(Unfreed) = osMessageQueueGetCapacity

\* The mutex is held exactly by the one call that is between lines 152 and
\* 176 or between lines 221 and 228.
MutexHeld ==
    \A t \in Threads : pc[t] \in {"put_scan", "get_copy"} <=> mutex = t

\* head and tail, moved under the mutex, agree with the semaphores, which are
\* moved outside it: the distance between them is the number of messages the
\* tokens account for.  When head = tail this is what tells a full ring from
\* an empty one, which the scan of line 154 takes for granted.
RingMatchesTokens ==
    tail - head \in {Filled, Filled - msg_count}

\* Whoever interrupts whom between semaphore and mutex, the ring holds
\* messages that were put (never malloc's garbage), the most urgent first,
\* also while a scan is shifting them (lines 154-175).
PriorityOrdered ==
    /\ \A i \in 1 .. Filled : Contents[i] \in Messages
    /\ \A i, j \in 1 .. Filled : i < j => Contents[i].prio >= Contents[j].prio

\* The queue the callers see.  A message is stored when line 175 moves tail
\* and received when line 227 moves head.
PQ == INSTANCE PriorityQueue WITH
        MaxCapacity <- SemValueMax,
        capacity    <- msg_count,
        queue       <- Contents,
        pending     <- [t \in Producers |-> arg[t]],
        box         <- [t \in Consumers |-> box[t]]

\* Every step of the ring is a step of the abstract bounded priority queue or
\* invisible to it: no message is lost, duplicated, altered or overtaken by
\* one that is not more urgent, and the capacity is never exceeded.
ImplementsPriorityQueue == PQ!Spec

-----------------------------------------------------------------------------
(* Liveness, under LiveSpec. *)

\* A consumer that waits for ever on an empty queue is not left there once a message
\* is in the ring, although the message may be posted late and other calls
\* compete for the mutex (lines 176-179, 201, 221).  For a single consumer.
BlockedGetIsFed ==
    \A t \in Consumers :
        pc[t] = "get_wait" /\ ~ timed[t] /\ Filled > 0 ~> pc[t] = "get_post"

\* While some producer waits for ever on a full queue, Puts keep going
\* through: the slot a Get freed reaches avail, and whoever takes it inserts
\* (lines 132, 231).
BlockedPutsProceed ==
    (\E t \in Producers : pc[t] = "put_wait" /\ ~ timed[t])
        ~> (\E t \in Producers : pc[t] = "put_post")

\* A message of the highest priority is delivered however many others are put
\* after it: none of them is inserted before it, its token is posted, and it
\* reaches the head (lines 157-173).  Only deleting the queue loses it.
UrgentIsDelivered ==
    \A e \in {m \in Messages : \A q \in Priorities : q <= m.prio} :
        (\E i \in 1 .. Filled : Contents[i] = e)
            ~> (msg_count = 0 \/ \E t \in Consumers :
                                    box[t] # None /\ box[t].msg = e.msg)
=============================================================================
