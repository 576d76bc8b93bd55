------------------------- MODULE MessageQueueProofs -------------------------
(* Proofs about MessageQueue for any threads, messages, priorities and      *)
(* sizes of the ring that sem_init accepts.                                 *)
EXTENDS MessageQueueCreation, Counting

\* Producers and consumers are threads.
LEMMA ThreadSets == Producers \subseteq Threads /\ Consumers \subseteq Threads
BY DEF Threads

-----------------------------------------------------------------------------
(* Ring arithmetic: the uint32_t never wraps, since a ring has at most      *)
(* SEM_VALUE_MAX slots.                                                     *)

\* The next slot is one further, and the first one behind the last.
LEMMA NextIdx ==
    ASSUME NEW n \in 1 .. SemValueMax, NEW i \in 0 .. n - 1
    PROVE  next_idx(i, n) = IF i + 1 = n THEN 0 ELSE i + 1
<1>1. (i + 1) % Word = i + 1
  BY WordAssumption
<1>2. CASE i + 1 = n
  <2>1. n % n = 0
    OBVIOUS
  <2> QED
    BY <1>1, <1>2, <2>1 DEF next_idx
<1>3. CASE i + 1 # n
  <2>1. (i + 1) % n = i + 1
    BY <1>3
  <2> QED
    BY <1>1, <1>3, <2>1 DEF next_idx
<1> QED
  BY <1>2, <1>3

\* The previous slot is one nearer, and the last one before the first.
LEMMA PrevIdx ==
    ASSUME NEW n \in 1 .. SemValueMax, NEW i \in 0 .. n - 1
    PROVE  prev_idx(i, n) = IF i = 0 THEN n - 1 ELSE i - 1
<1>1. (i + n - 1) % Word = i + n - 1
  BY WordAssumption
<1>2. CASE i = 0
  <2>1. (n - 1) % n = n - 1
    OBVIOUS
  <2> QED
    BY <1>1, <1>2, <2>1 DEF prev_idx
<1>3. CASE i # 0
  <2>1. i + n - 1 = (i - 1) + 1 * n /\ i - 1 \in 0 .. n - 1
    BY <1>3
  <2>2. ((i - 1) + 1 * n) % n = i - 1
    BY <2>1
  <2> QED
    BY <1>1, <1>3, <2>1, <2>2 DEF prev_idx
<1> QED
  BY <1>2, <1>3

\* Both stay within the ring.
LEMMA IdxInSlots ==
    ASSUME msg_count \in 1 .. SemValueMax, NEW i \in Slots
    PROVE  next_idx(i, msg_count) \in Slots /\ prev_idx(i, msg_count) \in Slots
BY NextIdx, PrevIdx DEF Slots

-----------------------------------------------------------------------------
(* Types. *)

\* Before a queue is created there is nothing.
LEMMA TypeInit == Init => TypeOK
BY WordAssumption DEF Init, TypeOK, Slots

\* Every operation keeps the types, the indices within the ring included.
LEMMA TypeStep == TypeOK /\ [Next]_vars => TypeOK'
<1> SUFFICES ASSUME TypeOK, [Next]_vars PROVE TypeOK'
  OBVIOUS
<1> USE WordAssumption, ThreadSets
<1>1. ASSUME NEW n \in 1 .. SemValueMax, New(n)
      PROVE  TypeOK'
  BY <1>1 DEF New, TypeOK, Slots
<1>2. CASE Delete
  <2>1. pc = [t \in Threads |-> "idle"]
    BY <1>2 DEF Delete, TypeOK, At
  <2> QED
    BY <1>2, <2>1 DEF Delete, TypeOK, Slots
<1>3. ASSUME NEW t \in Producers, NEW e \in Messages, NEW finite \in BOOLEAN,
             PutCall(t, e, finite)
      PROVE  TypeOK'
  BY <1>3 DEF PutCall, TypeOK, Slots, ring, tokens
<1>4. ASSUME NEW t \in Producers, PutWake(t)
      PROVE  TypeOK'
  BY <1>4 DEF PutWake, TypeOK, Slots, ring, tokens
<1>5. ASSUME NEW t \in Producers, PutFail(t)
      PROVE  TypeOK'
  BY <1>5 DEF PutFail, TypeOK, Slots, ring, tokens
<1>6. ASSUME NEW t \in Producers, PutLock(t)
      PROVE  TypeOK'
  BY <1>6 DEF PutLock, TypeOK, Slots, ring, tokens
<1>7. ASSUME NEW t \in Producers, PutShift(t)
      PROVE  TypeOK'
  BY <1>7, IdxInSlots DEF PutShift, TypeOK, Slots, ring, tokens
<1>8. ASSUME NEW t \in Producers, PutInsert(t)
      PROVE  TypeOK'
  BY <1>8, IdxInSlots DEF PutInsert, TypeOK, Slots, ring, tokens, Messages
<1>9. ASSUME NEW t \in Producers, PutPost(t)
      PROVE  TypeOK'
  BY <1>9 DEF PutPost, SemPost, TypeOK, Slots, ring, tokens
<1>10. ASSUME NEW t \in Consumers, NEW finite \in BOOLEAN, GetCall(t, finite)
       PROVE  TypeOK'
  <2>1. pc' \in [Threads -> {"idle", "put_wait", "put_lock", "put_scan", "put_post",
                            "get_wait", "get_lock", "get_copy", "get_post"}]
    BY <1>10 DEF GetCall, TypeOK
  <2>2. used' \in Nat /\ timed' \in [Threads -> BOOLEAN]
    BY <1>10 DEF GetCall, TypeOK
  <2>3. \A u \in Threads : pc'[u] \in {"put_wait", "put_lock", "put_scan"} => pc'[u] = pc[u]
    BY <1>10 DEF GetCall, TypeOK
  <2> QED
    BY <1>10, <2>1, <2>2, <2>3 DEF GetCall, TypeOK, Slots, ring
<1>11. ASSUME NEW t \in Consumers, GetWake(t)
       PROVE  TypeOK'
  BY <1>11 DEF GetWake, TypeOK, Slots, ring, tokens
<1>12. ASSUME NEW t \in Consumers, GetFail(t)
       PROVE  TypeOK'
  BY <1>12 DEF GetFail, TypeOK, Slots, ring, tokens
<1>13. ASSUME NEW t \in Consumers, GetLock(t)
       PROVE  TypeOK'
  BY <1>13 DEF GetLock, TypeOK, Slots, ring, tokens
<1>14. ASSUME NEW t \in Consumers, NEW wantsPrio \in BOOLEAN, GetCopy(t, wantsPrio)
       PROVE  TypeOK'
  BY <1>14, IdxInSlots DEF GetCopy, TypeOK, Slots, ring, tokens
<1>15. ASSUME NEW t \in Consumers, GetPost(t)
       PROVE  TypeOK'
  BY <1>15 DEF GetPost, SemPost, TypeOK, Slots, ring, tokens
<1>16. CASE UNCHANGED vars
  BY <1>16 DEF vars, TypeOK, Slots, ring, tokens
<1> QED
  BY <1>1, <1>2, <1>3, <1>4, <1>5, <1>6, <1>7, <1>8, <1>9, <1>10, <1>11, <1>12,
     <1>13, <1>14, <1>15, <1>16 DEF Next, PutStep, GetStep

\* Every variable keeps the C type the code gives it; in particular head, tail
\* and the scan positions never leave the ring, whatever its size.
THEOREM TypeCorrect == Spec => []TypeOK
BY TypeInit, TypeStep, PTL DEF Spec

-----------------------------------------------------------------------------
(* The mutex. *)

\* Only one thread is between lock and unlock, and it is the holder.
LEMMA MutexStep == TypeOK /\ MutexHeld /\ [Next]_vars => MutexHeld'
<1> SUFFICES ASSUME TypeOK, MutexHeld, [Next]_vars PROVE MutexHeld'
  OBVIOUS
<1> USE ThreadSets, ThreadsAssumption
<1>1. ASSUME NEW n \in 1 .. SemValueMax, New(n)
      PROVE  MutexHeld'
  BY <1>1 DEF New, TypeOK, MutexHeld
<1>2. CASE Delete
  BY <1>2 DEF Delete, At, TypeOK, MutexHeld
<1>3. ASSUME NEW t \in Producers, NEW e \in Messages, NEW finite \in BOOLEAN,
             PutCall(t, e, finite)
      PROVE  MutexHeld'
  BY <1>3 DEF PutCall, TypeOK, MutexHeld
<1>4. ASSUME NEW t \in Producers, PutWake(t) \/ PutFail(t) \/ PutPost(t)
      PROVE  MutexHeld'
  BY <1>4 DEF PutWake, PutFail, PutPost, TypeOK, MutexHeld
<1>5. ASSUME NEW t \in Producers, PutLock(t)
      PROVE  MutexHeld'
  BY <1>5 DEF PutLock, TypeOK, MutexHeld
<1>6. ASSUME NEW t \in Producers, PutShift(t)
      PROVE  MutexHeld'
  BY <1>6 DEF PutShift, MutexHeld
<1>7. ASSUME NEW t \in Producers, PutInsert(t)
      PROVE  MutexHeld'
  BY <1>7 DEF PutInsert, TypeOK, MutexHeld
<1>8. ASSUME NEW t \in Consumers, NEW finite \in BOOLEAN, GetCall(t, finite)
      PROVE  MutexHeld'
  BY <1>8 DEF GetCall, TypeOK, MutexHeld
<1>9. ASSUME NEW t \in Consumers, GetWake(t) \/ GetFail(t) \/ GetPost(t)
      PROVE  MutexHeld'
  BY <1>9 DEF GetWake, GetFail, GetPost, TypeOK, MutexHeld
<1>10. ASSUME NEW t \in Consumers, GetLock(t)
       PROVE  MutexHeld'
  BY <1>10 DEF GetLock, TypeOK, MutexHeld
<1>11. ASSUME NEW t \in Consumers, NEW wantsPrio \in BOOLEAN, GetCopy(t, wantsPrio)
       PROVE  MutexHeld'
  BY <1>11 DEF GetCopy, TypeOK, MutexHeld
<1>12. CASE UNCHANGED vars
  BY <1>12 DEF vars, MutexHeld
<1> QED
  BY <1>1, <1>2, <1>3, <1>4, <1>5, <1>6, <1>7, <1>8, <1>9, <1>10, <1>11, <1>12
     DEF Next, PutStep, GetStep

\* However many threads call Put and Get, one at most moves ring indices or
\* slots, and the mutex names it.
THEOREM MutualExclusion == Spec => []MutexHeld
<1>1. Init => MutexHeld
  BY ThreadsAssumption DEF Init, MutexHeld
<1> QED
  BY <1>1, TypeInit, TypeStep, MutexStep, PTL DEF Spec

-----------------------------------------------------------------------------
(* Tokens and the ring.  That each slot is in avail, in used or with exactly *)
(* one call is what keeps head and tail from overtaking each other: an       *)
(* insertion owns a slot that is free, a copy one that is filled.            *)

NFilling == Cardinality(Among(Threads, pc, {"put_lock", "put_scan"}))
NUnposted == Cardinality(Among(Threads, pc, {"put_post"}))
NEmptying == Cardinality(Among(Threads, pc, {"get_lock", "get_copy"}))
NUnfreed == Cardinality(Among(Threads, pc, {"get_post"}))

\* The two invariants as arithmetic on the four counts.
RingInv ==
    /\ NFilling \in Nat /\ NUnposted \in Nat /\ NEmptying \in Nat /\ NUnfreed \in Nat
    /\ avail + used + NFilling + NUnposted + NEmptying + NUnfreed = msg_count
    /\ \/ tail - head = used + NUnposted + NEmptying
       \/ tail - head = used + NUnposted + NEmptying - msg_count

\* The sets of calls that the properties count are finite.
LEMMA CountsAreNatural ==
    NFilling \in Nat /\ NUnposted \in Nat /\ NEmptying \in Nat /\ NUnfreed \in Nat
BY ThreadsAssumption, AmongFinite DEF NFilling, NUnposted, NEmptying, NUnfreed

\* RingInv says what the two properties say.
LEMMA RingInvMeaning == TypeOK /\ RingInv => TokenConservation /\ RingMatchesTokens
<1>1. /\ NFilling = Cardinality(Filling) /\ NUnposted = Cardinality(Unposted)
      /\ NEmptying = Cardinality(Emptying) /\ NUnfreed = Cardinality(Unfreed)
  BY DEF Filling, Unposted, Emptying, Unfreed, At, Among, NFilling, NUnposted,
         NEmptying, NUnfreed
<1> QED
  BY <1>1 DEF TypeOK, RingInv, TokenConservation, RingMatchesTokens, Filled,
              osMessageQueueGetCount, osMessageQueueGetSpace, osMessageQueueGetCapacity

\* Without calls in flight there is nothing to count.
LEMMA IdleCounts ==
    pc = [t \in Threads |-> "idle"] =>
        NFilling = 0 /\ NUnposted = 0 /\ NEmptying = 0 /\ NUnfreed = 0
BY AmongNone DEF NFilling, NUnposted, NEmptying, NUnfreed

\* How a step of thread t from label at to label to changes the four counts.
LEMMA CountStep ==
    ASSUME NEW t \in Threads, NEW at, NEW to, Moves(Threads, pc, pc', t, at, to)
    PROVE  /\ NFilling' \in Nat /\ NUnposted' \in Nat
           /\ NEmptying' \in Nat /\ NUnfreed' \in Nat
           /\ NFilling' = NFilling + Inside(to, {"put_lock", "put_scan"})
                                   - Inside(at, {"put_lock", "put_scan"})
           /\ NUnposted' = NUnposted + Inside(to, {"put_post"}) - Inside(at, {"put_post"})
           /\ NEmptying' = NEmptying + Inside(to, {"get_lock", "get_copy"})
                                     - Inside(at, {"get_lock", "get_copy"})
           /\ NUnfreed' = NUnfreed + Inside(to, {"get_post"}) - Inside(at, {"get_post"})
<1>1. pc[t] = at /\ pc'[t] = to /\ \A u \in Threads \ {t} : pc'[u] = pc[u]
  BY DEF Moves
<1>2. ASSUME NEW labels
      PROVE  LET old == Cardinality(Among(Threads, pc, labels))
                 new == Cardinality(Among(Threads, pc', labels))
             IN  new \in Nat /\ new = old + Inside(to, labels) - Inside(at, labels)
  BY <1>1, ThreadsAssumption, AmongStep
<1> QED
  BY <1>2 DEF NFilling, NUnposted, NEmptying, NUnfreed

\* No step loses or invents a slot, and a message is inserted only where the
\* ring has room and taken only where it has one.
LEMMA RingStep == TypeOK /\ RingInv /\ [Next]_vars => RingInv'
<1> SUFFICES ASSUME TypeOK, RingInv, [Next]_vars PROVE RingInv'
  OBVIOUS
<1> USE WordAssumption, ThreadSets
<1>t. /\ msg_count \in 0 .. SemValueMax /\ avail \in Nat /\ used \in Nat
      /\ head \in Nat /\ tail \in Nat
      /\ NFilling \in Nat /\ NUnposted \in Nat /\ NEmptying \in Nat /\ NUnfreed \in Nat
      /\ avail + used + NFilling + NUnposted + NEmptying + NUnfreed = msg_count
      /\ \/ tail - head = used + NUnposted + NEmptying
         \/ tail - head = used + NUnposted + NEmptying - msg_count
  BY DEF TypeOK, RingInv
<1>1. ASSUME NEW n \in 1 .. SemValueMax, New(n)
      PROVE  RingInv'
  <2>1. pc' = pc /\ pc = [t \in Threads |-> "idle"]
    BY <1>1 DEF New, TypeOK
  <2>2. NFilling' = 0 /\ NUnposted' = 0 /\ NEmptying' = 0 /\ NUnfreed' = 0
    BY <2>1, IdleCounts DEF NFilling, NUnposted, NEmptying, NUnfreed
  <2> QED
    BY <1>1, <2>2 DEF New, RingInv
<1>2. CASE Delete
  <2>1. pc' = pc /\ pc = [t \in Threads |-> "idle"]
    BY <1>2 DEF Delete, TypeOK, At
  <2>2. NFilling' = 0 /\ NUnposted' = 0 /\ NEmptying' = 0 /\ NUnfreed' = 0
    BY <2>1, IdleCounts DEF NFilling, NUnposted, NEmptying, NUnfreed
  <2> QED
    BY <1>2, <2>2 DEF Delete, RingInv
<1>3. ASSUME NEW t \in Producers, NEW e \in Messages, NEW finite \in BOOLEAN, PutCall(t, e, finite)
      PROVE  RingInv'
  <2>1. CASE pc' = [pc EXCEPT ![t] = "put_lock"] /\ avail > 0 /\ avail' = avail - 1
    <3>1. Moves(Threads, pc, pc', t, "idle", "put_lock")
      BY <1>3, <2>1 DEF PutCall, TypeOK, Moves
    <3>2. /\ NFilling' = NFilling + 1 /\ NUnposted' = NUnposted
          /\ NEmptying' = NEmptying /\ NUnfreed' = NUnfreed
          /\ NFilling' \in Nat /\ NUnposted' \in Nat /\ NEmptying' \in Nat /\ NUnfreed' \in Nat
      BY <1>t, <3>1, CountStep DEF Inside
    <3> QED
      BY <1>3, <1>t, <2>1, <3>2 DEF PutCall, ring, RingInv
  <2>2. CASE pc' = [pc EXCEPT ![t] = "put_wait"] /\ avail' = avail
    <3>1. Moves(Threads, pc, pc', t, "idle", "put_wait")
      BY <1>3, <2>2 DEF PutCall, TypeOK, Moves
    <3>2. /\ NFilling' = NFilling /\ NUnposted' = NUnposted
          /\ NEmptying' = NEmptying /\ NUnfreed' = NUnfreed
          /\ NFilling' \in Nat /\ NUnposted' \in Nat /\ NEmptying' \in Nat /\ NUnfreed' \in Nat
      BY <1>t, <3>1, CountStep DEF Inside
    <3> QED
      BY <1>3, <1>t, <2>2, <3>2 DEF PutCall, ring, RingInv
  <2> QED
    BY <1>3, <2>1, <2>2 DEF PutCall
<1>4. ASSUME NEW t \in Producers, PutWake(t)
      PROVE  RingInv'
  <2>1. Moves(Threads, pc, pc', t, "put_wait", "put_lock")
    BY <1>4 DEF PutWake, TypeOK, Moves
  <2>2. /\ NFilling' = NFilling + 1 /\ NUnposted' = NUnposted
        /\ NEmptying' = NEmptying /\ NUnfreed' = NUnfreed
        /\ NFilling' \in Nat /\ NUnposted' \in Nat /\ NEmptying' \in Nat /\ NUnfreed' \in Nat
    BY <1>t, <2>1, CountStep DEF Inside
  <2> QED
    BY <1>4, <1>t, <2>2 DEF PutWake, ring, RingInv
<1>5. ASSUME NEW t \in Producers, PutFail(t)
      PROVE  RingInv'
  <2>1. Moves(Threads, pc, pc', t, "put_wait", "idle")
    BY <1>5 DEF PutFail, TypeOK, Moves
  <2>2. /\ NFilling' = NFilling /\ NUnposted' = NUnposted
        /\ NEmptying' = NEmptying /\ NUnfreed' = NUnfreed
        /\ NFilling' \in Nat /\ NUnposted' \in Nat /\ NEmptying' \in Nat /\ NUnfreed' \in Nat
    BY <1>t, <2>1, CountStep DEF Inside
  <2> QED
    BY <1>5, <1>t, <2>2 DEF PutFail, ring, tokens, RingInv
<1>6. ASSUME NEW t \in Producers, PutLock(t)
      PROVE  RingInv'
  <2>1. Moves(Threads, pc, pc', t, "put_lock", "put_scan")
    BY <1>6 DEF PutLock, TypeOK, Moves
  <2>2. /\ NFilling' = NFilling /\ NUnposted' = NUnposted
        /\ NEmptying' = NEmptying /\ NUnfreed' = NUnfreed
        /\ NFilling' \in Nat /\ NUnposted' \in Nat /\ NEmptying' \in Nat /\ NUnfreed' \in Nat
    BY <1>t, <2>1, CountStep DEF Inside
  <2> QED
    BY <1>6, <1>t, <2>2 DEF PutLock, ring, tokens, RingInv
<1>7. ASSUME NEW t \in Producers, PutShift(t)
      PROVE  RingInv'
  BY <1>7 DEF PutShift, tokens, RingInv, NFilling, NUnposted, NEmptying, NUnfreed
<1>8. ASSUME NEW t \in Producers, PutInsert(t)
      PROVE  RingInv'
  <2>1. Moves(Threads, pc, pc', t, "put_scan", "put_post")
    BY <1>8 DEF PutInsert, TypeOK, Moves
  <2>2. /\ NFilling' = NFilling - 1 /\ NUnposted' = NUnposted + 1
        /\ NEmptying' = NEmptying /\ NUnfreed' = NUnfreed
        /\ NFilling' \in Nat /\ NUnposted' \in Nat /\ NEmptying' \in Nat /\ NUnfreed' \in Nat
    BY <1>t, <2>1, CountStep DEF Inside
  <2>3. msg_count \in 1 .. SemValueMax /\ head \in 0 .. msg_count - 1 /\ tail \in 0 .. msg_count - 1
    BY <1>8 DEF PutInsert, TypeOK, Slots
  <2>4. tail' = IF tail + 1 = msg_count THEN 0 ELSE tail + 1
    BY <1>8, <2>3, NextIdx DEF PutInsert
  <2>5. avail' = avail /\ used' = used /\ head' = head /\ msg_count' = msg_count
    BY <1>8 DEF PutInsert, tokens
  <2> QED
    BY <1>t, <2>2, <2>3, <2>4, <2>5 DEF RingInv
<1>9. ASSUME NEW t \in Producers, PutPost(t)
      PROVE  RingInv'
  <2>1. Moves(Threads, pc, pc', t, "put_post", "idle")
    BY <1>9 DEF PutPost, TypeOK, Moves
  <2>2. /\ NFilling' = NFilling /\ NUnposted' = NUnposted - 1
        /\ NEmptying' = NEmptying /\ NUnfreed' = NUnfreed
        /\ NFilling' \in Nat /\ NUnposted' \in Nat /\ NEmptying' \in Nat /\ NUnfreed' \in Nat
    BY <1>t, <2>1, CountStep DEF Inside
  <2> QED
    BY <1>9, <1>t, <2>2 DEF PutPost, SemPost, ring, RingInv
<1>10. ASSUME NEW t \in Consumers, NEW finite \in BOOLEAN, GetCall(t, finite)
      PROVE  RingInv'
  <2>1. CASE pc' = [pc EXCEPT ![t] = "get_lock"] /\ used > 0 /\ used' = used - 1
    <3>1. Moves(Threads, pc, pc', t, "idle", "get_lock")
      BY <1>10, <2>1 DEF GetCall, TypeOK, Moves
    <3>2. /\ NFilling' = NFilling /\ NUnposted' = NUnposted
          /\ NEmptying' = NEmptying + 1 /\ NUnfreed' = NUnfreed
          /\ NFilling' \in Nat /\ NUnposted' \in Nat /\ NEmptying' \in Nat /\ NUnfreed' \in Nat
      BY <1>t, <3>1, CountStep DEF Inside
    <3> QED
      BY <1>10, <1>t, <2>1, <3>2 DEF GetCall, ring, RingInv
  <2>2. CASE pc' = [pc EXCEPT ![t] = "get_wait"] /\ used' = used
    <3>1. Moves(Threads, pc, pc', t, "idle", "get_wait")
      BY <1>10, <2>2 DEF GetCall, TypeOK, Moves
    <3>2. /\ NFilling' = NFilling /\ NUnposted' = NUnposted
          /\ NEmptying' = NEmptying /\ NUnfreed' = NUnfreed
          /\ NFilling' \in Nat /\ NUnposted' \in Nat /\ NEmptying' \in Nat /\ NUnfreed' \in Nat
      BY <1>t, <3>1, CountStep DEF Inside
    <3> QED
      BY <1>10, <1>t, <2>2, <3>2 DEF GetCall, ring, RingInv
  <2> QED
    BY <1>10, <2>1, <2>2 DEF GetCall
<1>11. ASSUME NEW t \in Consumers, GetWake(t)
      PROVE  RingInv'
  <2>1. Moves(Threads, pc, pc', t, "get_wait", "get_lock")
    BY <1>11 DEF GetWake, TypeOK, Moves
  <2>2. /\ NFilling' = NFilling /\ NUnposted' = NUnposted
        /\ NEmptying' = NEmptying + 1 /\ NUnfreed' = NUnfreed
        /\ NFilling' \in Nat /\ NUnposted' \in Nat /\ NEmptying' \in Nat /\ NUnfreed' \in Nat
    BY <1>t, <2>1, CountStep DEF Inside
  <2> QED
    BY <1>11, <1>t, <2>2 DEF GetWake, ring, RingInv
<1>12. ASSUME NEW t \in Consumers, GetFail(t)
      PROVE  RingInv'
  <2>1. Moves(Threads, pc, pc', t, "get_wait", "idle")
    BY <1>12 DEF GetFail, TypeOK, Moves
  <2>2. /\ NFilling' = NFilling /\ NUnposted' = NUnposted
        /\ NEmptying' = NEmptying /\ NUnfreed' = NUnfreed
        /\ NFilling' \in Nat /\ NUnposted' \in Nat /\ NEmptying' \in Nat /\ NUnfreed' \in Nat
    BY <1>t, <2>1, CountStep DEF Inside
  <2> QED
    BY <1>12, <1>t, <2>2 DEF GetFail, ring, tokens, RingInv
<1>13. ASSUME NEW t \in Consumers, GetLock(t)
      PROVE  RingInv'
  <2>1. Moves(Threads, pc, pc', t, "get_lock", "get_copy")
    BY <1>13 DEF GetLock, TypeOK, Moves
  <2>2. /\ NFilling' = NFilling /\ NUnposted' = NUnposted
        /\ NEmptying' = NEmptying /\ NUnfreed' = NUnfreed
        /\ NFilling' \in Nat /\ NUnposted' \in Nat /\ NEmptying' \in Nat /\ NUnfreed' \in Nat
    BY <1>t, <2>1, CountStep DEF Inside
  <2> QED
    BY <1>13, <1>t, <2>2 DEF GetLock, ring, tokens, RingInv
<1>14. ASSUME NEW t \in Consumers, NEW wantsPrio \in BOOLEAN, GetCopy(t, wantsPrio)
      PROVE  RingInv'
  <2>1. Moves(Threads, pc, pc', t, "get_copy", "get_post")
    BY <1>14 DEF GetCopy, TypeOK, Moves
  <2>2. /\ NFilling' = NFilling /\ NUnposted' = NUnposted
        /\ NEmptying' = NEmptying - 1 /\ NUnfreed' = NUnfreed + 1
        /\ NFilling' \in Nat /\ NUnposted' \in Nat /\ NEmptying' \in Nat /\ NUnfreed' \in Nat
    BY <1>t, <2>1, CountStep DEF Inside
  <2>3. msg_count \in 1 .. SemValueMax /\ head \in 0 .. msg_count - 1 /\ tail \in 0 .. msg_count - 1
    BY <1>14 DEF GetCopy, TypeOK, Slots
  <2>4. head' = IF head + 1 = msg_count THEN 0 ELSE head + 1
    BY <1>14, <2>3, NextIdx DEF GetCopy
  <2>5. avail' = avail /\ used' = used /\ tail' = tail /\ msg_count' = msg_count
    BY <1>14 DEF GetCopy, tokens
  <2> QED
    BY <1>t, <2>2, <2>3, <2>4, <2>5 DEF RingInv
<1>15. ASSUME NEW t \in Consumers, GetPost(t)
      PROVE  RingInv'
  <2>1. Moves(Threads, pc, pc', t, "get_post", "idle")
    BY <1>15 DEF GetPost, TypeOK, Moves
  <2>2. /\ NFilling' = NFilling /\ NUnposted' = NUnposted
        /\ NEmptying' = NEmptying /\ NUnfreed' = NUnfreed - 1
        /\ NFilling' \in Nat /\ NUnposted' \in Nat /\ NEmptying' \in Nat /\ NUnfreed' \in Nat
    BY <1>t, <2>1, CountStep DEF Inside
  <2> QED
    BY <1>15, <1>t, <2>2 DEF GetPost, SemPost, ring, RingInv
<1>16. CASE UNCHANGED vars
  BY <1>16 DEF vars, tokens, ring, RingInv, NFilling, NUnposted, NEmptying, NUnfreed
<1> QED
  BY <1>1, <1>2, <1>3, <1>4, <1>5, <1>6, <1>7, <1>8, <1>9, <1>10, <1>11, <1>12,
     <1>13, <1>14, <1>15, <1>16 DEF Next, PutStep, GetStep

\* The initial state, before any queue.
LEMMA RingInit == Init => RingInv
BY IdleCounts DEF Init, RingInv

\* TypeOK and RingInv are together inductive.
LEMMA RingInvariant == Spec => [](TypeOK /\ RingInv)
<1>1. Init => TypeOK /\ RingInv
  BY TypeInit, RingInit
<1>2. TypeOK /\ RingInv /\ [Next]_vars => (TypeOK /\ RingInv)'
  BY TypeStep, RingStep
<1> QED
  BY <1>1, <1>2, PTL DEF Spec

\* Put and Get never lose or invent a slot, whatever waits fail and however
\* the calls interleave.
THEOREM TokensConserved == Spec => []TokenConservation
BY RingInvariant, RingInvMeaning, PTL

\* The indices, moved under the mutex, and the semaphores, moved outside it,
\* agree for every size of the ring: head = tail is never ambiguous.
THEOREM RingAgreesWithTokens == Spec => []RingMatchesTokens
BY RingInvariant, RingInvMeaning, PTL

-----------------------------------------------------------------------------
(* Waiting. *)

\* When every call has returned or waits for a semaphore, the queries are
\* exact: no message is stored that a waiting Get may not take, no slot is free
\* that a waiting Put may not fill, and there is one or the other.
WaitsAreJustified ==
    At({"idle", "put_wait", "get_wait"}) = Threads /\ msg_count # 0 =>
        /\ osMessageQueueGetCount = Filled
        /\ osMessageQueueGetSpace = osMessageQueueGetCapacity - Filled
        /\ ~ (osMessageQueueGetCount = 0 /\ osMessageQueueGetSpace = 0)

\* Producers and consumers never all sleep on each other: a Put sleeps only on a
\* full ring and a Get on an empty one, unless a call that is under way has yet
\* to post (lines 179 and 231), and no ring is both.
THEOREM NobodySleepsInVain == Spec => []WaitsAreJustified
<1>1. TypeOK /\ RingInv => WaitsAreJustified
  <2> SUFFICES ASSUME TypeOK, RingInv,
                      At({"idle", "put_wait", "get_wait"}) = Threads, msg_count # 0
               PROVE  /\ used = Filled
                      /\ avail = msg_count - Filled
                      /\ ~ (used = 0 /\ avail = 0)
    BY DEF WaitsAreJustified, osMessageQueueGetCount, osMessageQueueGetSpace,
           osMessageQueueGetCapacity
  <2>1. \A t \in Threads : pc[t] \in {"idle", "put_wait", "get_wait"}
    BY DEF At
  <2>2. NFilling = 0 /\ NUnposted = 0 /\ NEmptying = 0 /\ NUnfreed = 0
    BY <2>1, AmongNone DEF NFilling, NUnposted, NEmptying, NUnfreed
  <2>3. Filled = used + NUnposted + NEmptying
    BY DEF Filled, Unposted, Emptying, At, Among, NUnposted, NEmptying
  <2> QED
    BY <2>2, <2>3 DEF TypeOK, RingInv
<1> QED
  BY <1>1, RingInvariant, PTL

-----------------------------------------------------------------------------
(* Creation and deletion in detail. *)

\* What osMessageQueueNew has after it initialised its first n parts.
Built(n) == {Parts[i] : i \in 1 .. n}

\* Before the arrays New has the first parts, up to its stage, each of them
\* once; it returns a queue that has everything.
CreationInv ==
    /\ stage \in 0 .. 6
    /\ made \in [Deleted -> {0, 1}]
    /\ stage <= 4 => \A p \in Deleted : made[p] = 1 <=> p \in Built(stage)
    /\ stage = 5 => \A p \in Built(4) : made[p] = 1
    /\ stage = 6 => \A p \in Deleted : made[p] = 1
    /\ stage = 6 <=> msg_count # 0

\* The parts, spelled out: Delete releases whatever New may have.
LEMMA PartsAre ==
    /\ Len(Parts) = 4 /\ C!Allocated = 5 /\ C!Ready = 6
    /\ C!Everything = Deleted
    /\ Deleted = Built(4) \cup Arrays /\ Built(4) \cap Arrays = {}
<1>1. Len(Parts) = 4
  BY DEF Parts
<1>2. Built(4) = {"queue", "avail", "used", "mutex"}
  <2>1. 1 .. 4 = {1, 2, 3, 4}
    OBVIOUS
  <2> QED
    BY <2>1 DEF Built, Parts
<1>3. C!Everything = Built(4) \cup Arrays
  BY <1>1 DEF C!Everything, Built
<1> QED
  BY <1>1, <1>2, <1>3 DEF Arrays, Deleted, C!Allocated, C!Ready

\* Where a part cannot be had, New releases exactly what it has.
LEMMA CleanupIs ==
    ASSUME NEW n \in 0 .. 3
    PROVE  /\ Cleanup[n + 1] = Built(n)
           /\ Built(n + 1) = Built(n) \cup {Parts[n + 1]}
           /\ Parts[n + 1] \in Deleted \ Built(n)
<1>1. /\ Built(0) = {} /\ Built(1) = {"queue"} /\ Built(2) = {"queue", "avail"}
      /\ Built(3) = {"queue", "avail", "used"}
      /\ Built(4) = {"queue", "avail", "used", "mutex"}
  <2>1. 1 .. 0 = {} /\ 1 .. 1 = {1} /\ 1 .. 2 = {1, 2} /\ 1 .. 3 = {1, 2, 3}
        /\ 1 .. 4 = {1, 2, 3, 4}
    OBVIOUS
  <2> QED
    BY <2>1 DEF Built, Parts
<1>2. /\ Cleanup[1] = Built(0) /\ Cleanup[2] = Built(1)
      /\ Cleanup[3] = Built(2) /\ Cleanup[4] = Built(3)
  BY <1>1 DEF Cleanup
<1>3. Parts[1] = "queue" /\ Parts[2] = "avail" /\ Parts[3] = "used" /\ Parts[4] = "mutex"
  BY DEF Parts
<1>4. n = 0 \/ n = 1 \/ n = 2 \/ n = 3
  OBVIOUS
<1> QED
  BY <1>1, <1>2, <1>3, <1>4 DEF Deleted

\* Nothing has been made at first.
LEMMA CreationInit == CInit => CreationInv
<1>1. Built(0) = {}
  BY DEF Built
<1> QED
  BY <1>1, PartsAre DEF CInit, C!Init, Init, CreationInv

\* Every step of New and Delete keeps the account of the parts.
LEMMA CreationStep == CreationInv /\ [CNext]_<<vars, cvars>> => CreationInv'
<1> SUFFICES ASSUME CreationInv, [CNext]_<<vars, cvars>> PROVE CreationInv'
  OBVIOUS
<1> USE PartsAre DEF CreationInv
<1>0. Built(0) = {}
  BY DEF Built
<1>1. ASSUME C!Initialise, UNCHANGED vars
      PROVE  CreationInv'
  <2>1. /\ stage \in 0 .. 3 /\ stage' = stage + 1 /\ msg_count' = msg_count
        /\ made' = [p \in Deleted |-> IF p \in {Parts[stage + 1]} THEN made[p] + 1 ELSE made[p]]
    BY <1>1 DEF C!Initialise, C!Add, vars
  <2> QED
    BY <2>1, CleanupIs
<1>2. ASSUME C!InitialiseFails, UNCHANGED vars
      PROVE  CreationInv'
  <2>1. /\ stage \in 0 .. 3 /\ stage' = 0 /\ msg_count' = msg_count
        /\ made' = [p \in Deleted |-> IF p \in Built(stage) THEN made[p] + (-1) ELSE made[p]]
    BY <1>2, CleanupIs DEF C!InitialiseFails, C!Add, vars
  <2> QED
    BY <1>0, <2>1
<1>3. ASSUME C!Allocate, UNCHANGED vars
      PROVE  CreationInv'
  <2>1. PICK got \in SUBSET Arrays :
          made' = [p \in Deleted |-> IF p \in got THEN made[p] + 1 ELSE made[p]]
    BY <1>3 DEF C!Allocate, C!Add
  <2>2. stage = 4 /\ stage' = 5 /\ msg_count' = msg_count
    BY <1>3 DEF C!Allocate, vars
  <2>3. \A p \in Deleted : (made[p] = 1 <=> p \in Built(4)) /\ (p \in got => p \notin Built(4))
    BY <2>2
  <2> QED
    BY <2>1, <2>2, <2>3
<1>4. ASSUME C!Destroy, stage \in {5, 6}, msg_count' = 0
      PROVE  CreationInv'
  <2>1. /\ made' = [p \in Deleted |->
                      IF p \in Deleted \ C!Missing THEN made[p] + (-1) ELSE made[p]]
        /\ stage' = 0
    BY <1>4 DEF C!Destroy, C!Add
  <2>2. ASSUME NEW p \in Deleted
        PROVE  p \in Deleted \ C!Missing <=> made[p] = 1
    BY <1>4 DEF C!Missing
  <2> QED
    BY <1>0, <1>4, <2>1, <2>2
<1>5. ASSUME C!Discard, UNCHANGED vars
      PROVE  CreationInv'
  BY <1>4, <1>5 DEF C!Discard, vars
<1>6. ASSUME C!Return, NEW n \in 1 .. SemValueMax, New(n)
      PROVE  CreationInv'
  <2>1. stage = 5 /\ stage' = 6 /\ msg_count' # 0
    BY <1>6 DEF C!Return, New
  <2>2. \A p \in Deleted : made[p] = 1
    BY <1>6, <2>1 DEF C!Return, C!Missing
  <2>3. made' = [p \in Deleted |-> made[p]]
    BY <1>6 DEF C!Return, C!Add, Temporary
  <2> QED
    BY <2>1, <2>2, <2>3
<1>7. ASSUME CDelete
      PROVE  CreationInv'
  BY <1>4, <1>7 DEF CDelete, C!Delete, Delete
<1>8. ASSUME UNCHANGED cvars, msg_count' = msg_count
      PROVE  CreationInv'
  BY <1>8 DEF cvars
<1> QED
  BY <1>1, <1>2, <1>3, <1>5, <1>6, <1>7, <1>8 DEF CNext, CNew, vars

\* Wherever New fails it leaves nothing behind and releases only what it had,
\* and whoever has a queue has all of it, until Delete releases all of it.
THEOREM NothingIsLeft == CSpec => []NothingLeft
<1>1. CreationInv => NothingLeft
  BY PartsAre DEF CreationInv, NothingLeft, Built
<1> QED
  BY <1>1, CreationInit, CreationStep, PTL DEF CSpec

\* Every behaviour of the queue with its creation in detail is one of the
\* queue, which is what the other theorems are about.
THEOREM CreationIsCovered == CSpec => Spec
<1>1. CInit => Init
  BY DEF CInit
<1>2. [CNext]_<<vars, cvars>> => [Next]_vars
  BY DEF CNext, CNew, CDelete, Next
<1> QED
  BY <1>1, <1>2, PTL DEF CSpec, Spec
=============================================================================
