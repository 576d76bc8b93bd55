------------------------- MODULE PriorityQueueProofs -------------------------
(* That the ring of MessageQueue is the bounded priority queue its callers  *)
(* see, for any threads, messages, priorities and sizes of the ring.        *)
EXTENDS MessageQueueProofs, SequenceTheorems

-----------------------------------------------------------------------------
(* The messages between head and tail.  A scan that has shifted messages up *)
(* leaves a gap: the slots from the gap on hold what is one place further.  *)

\* The k-th slot from slot h of a ring of n slots.
Slot(h, n, k) == (h + k) % n

\* len messages from slot h on, all but the first gap of them one slot higher.
Stored(buf, pri, h, n, len, gap) ==
    [i \in 1 .. len |->
        LET s == Slot(h, n, IF i > gap THEN i ELSE i - 1)
        IN  [msg |-> buf[s], prio |-> pri[s]]]

\* The slots wrap once.
LEMMA SlotIs ==
    ASSUME NEW n \in Nat \ {0}, NEW h \in 0 .. n - 1, NEW k \in 0 .. n
    PROVE  /\ Slot(h, n, k) = IF h + k < n THEN h + k ELSE h + k - n
           /\ Slot(h, n, k) \in 0 .. n - 1
<1>1. CASE h + k < n
  BY <1>1 DEF Slot
<1>2. CASE h + k >= n
  <2>1. h + k = (h + k - n) + 1 * n /\ h + k - n \in 0 .. n - 1
    BY <1>2
  <2>2. ((h + k - n) + 1 * n) % n = h + k - n
    BY <2>1
  <2> QED
    BY <1>2, <2>1, <2>2 DEF Slot
<1> QED
  BY <1>1, <1>2

\* No two of them are the same.
LEMMA SlotsDiffer ==
    ASSUME NEW n \in Nat \ {0}, NEW h \in 0 .. n - 1,
           NEW j \in 0 .. n - 1, NEW k \in 0 .. n - 1, j # k
    PROVE  Slot(h, n, j) # Slot(h, n, k)
<1>1. /\ Slot(h, n, j) = IF h + j < n THEN h + j ELSE h + j - n
      /\ Slot(h, n, k) = IF h + k < n THEN h + k ELSE h + k - n
  BY SlotIs
<1> QED
  BY <1>1

\* Buffer b is a but for slot s, which holds x.
Written(a, b, n, s, x) == b[s] = x /\ \A k \in 0 .. n - 1 : k # s => b[k] = a[k]

\* Moving the message before the gap into the gap changes no message.
LEMMA StoredShift ==
    ASSUME NEW n \in Nat \ {0}, NEW h \in 0 .. n - 1,
           NEW len \in 0 .. n - 1, NEW g \in 1 .. len,
           NEW buf, NEW pri, NEW b, NEW p,
           Written(buf, b, n, Slot(h, n, g), buf[Slot(h, n, g - 1)]),
           Written(pri, p, n, Slot(h, n, g), pri[Slot(h, n, g - 1)])
    PROVE  Stored(b, p, h, n, len, g - 1) = Stored(buf, pri, h, n, len, g)
<1> DEFINE old(i) == Slot(h, n, IF i > g THEN i ELSE i - 1)
           new(i) == Slot(h, n, IF i > g - 1 THEN i ELSE i - 1)
<1>1. ASSUME NEW i \in 1 .. len
      PROVE  b[new(i)] = buf[old(i)] /\ p[new(i)] = pri[old(i)]
  <2>1. CASE i = g
    <3>1. new(i) = Slot(h, n, g) /\ old(i) = Slot(h, n, g - 1)
      BY <2>1
    <3> HIDE DEF new, old
    <3> QED
      BY <3>1 DEF Written
  <2>2. CASE i # g
    <3> DEFINE k == IF i > g THEN i ELSE i - 1
    <3>1. k \in 0 .. n - 1 /\ k # g /\ new(i) = Slot(h, n, k) /\ old(i) = Slot(h, n, k)
      BY <2>2
    <3> HIDE DEF k
    <3>2. Slot(h, n, k) \in 0 .. n - 1 /\ Slot(h, n, k) # Slot(h, n, g)
      <4>1. g \in 0 .. n - 1 /\ k \in 0 .. n
        BY <3>1
      <4> QED
        BY <3>1, <4>1, SlotIs, SlotsDiffer
    <3> HIDE DEF new, old
    <3> QED
      BY <3>1, <3>2 DEF Written
  <2> QED
    BY <2>1, <2>2
<1> QED
  BY <1>1 DEF Stored

\* Filling the gap puts the message between the two parts.
LEMMA StoredInsert ==
    ASSUME NEW n \in Nat \ {0}, NEW h \in 0 .. n - 1,
           NEW len \in 0 .. n - 1, NEW g \in 0 .. len,
           NEW buf, NEW pri, NEW b, NEW p, NEW message, NEW prio,
           Written(buf, b, n, Slot(h, n, g), message),
           Written(pri, p, n, Slot(h, n, g), prio)
    PROVE  LET old == Stored(buf, pri, h, n, len, g)
           IN  Stored(b, p, h, n, len + 1, len + 1)
               = [i \in 1 .. len + 1 |-> IF i <= g THEN old[i]
                                         ELSE IF i = g + 1 THEN [msg |-> message, prio |-> prio]
                                         ELSE old[i - 1]]
<1> DEFINE old == Stored(buf, pri, h, n, len, g)
           between(i) == IF i <= g THEN old[i]
                         ELSE IF i = g + 1 THEN [msg |-> message, prio |-> prio]
                         ELSE old[i - 1]
<1>1. ASSUME NEW i \in 1 .. len + 1
      PROVE  LET s == Slot(h, n, IF i > len + 1 THEN i ELSE i - 1)
             IN  [msg |-> b[s], prio |-> p[s]] = between(i)
  <2> DEFINE s == Slot(h, n, i - 1)
  <2>0. (IF i > len + 1 THEN i ELSE i - 1) = i - 1
    OBVIOUS
  <2>1. CASE i = g + 1
    <3>1. s = Slot(h, n, g)
      BY <2>1
    <3>2. b[s] = message /\ p[s] = prio
      BY <3>1 DEF Written
    <3> QED
      BY <2>0, <2>1, <3>2
  <2>2. CASE i # g + 1
    <3>1. s \in 0 .. n - 1 /\ s # Slot(h, n, g)
      <4>1. i - 1 \in 0 .. n /\ i - 1 \in 0 .. n - 1 /\ g \in 0 .. n - 1 /\ i - 1 # g
        BY <2>2
      <4> QED
        BY <4>1, SlotIs, SlotsDiffer
    <3>2. b[s] = buf[s] /\ p[s] = pri[s]
      BY <3>1 DEF Written
    <3>3. CASE i <= g
      <4>1. i \in 1 .. len /\ (IF i > g THEN i ELSE i - 1) = i - 1
        BY <3>3
      <4>2. old[i] = [msg |-> buf[s], prio |-> pri[s]]
        BY <4>1 DEF Stored
      <4> QED
        BY <2>0, <3>2, <3>3, <4>2
    <3>4. CASE i > g
      <4>1. i - 1 \in 1 .. len /\ (IF i - 1 > g THEN i - 1 ELSE (i - 1) - 1) = i - 1
            /\ ~ (i <= g) /\ i # g + 1
        BY <2>2, <3>4
      <4>2. old[i - 1] = [msg |-> buf[s], prio |-> pri[s]]
        BY <4>1 DEF Stored
      <4> QED
        BY <2>0, <3>2, <4>1, <4>2
    <3> QED
      BY <3>3, <3>4
  <2> QED
    BY <2>1, <2>2
<1>2. Stored(b, p, h, n, len + 1, len + 1)
        = [i \in 1 .. len + 1 |->
              LET s == Slot(h, n, IF i > len + 1 THEN i ELSE i - 1)
              IN  [msg |-> b[s], prio |-> p[s]]]
  BY DEF Stored
<1> HIDE DEF between
<1>3. Stored(b, p, h, n, len + 1, len + 1) = [i \in 1 .. len + 1 |-> between(i)]
  BY <1>1, <1>2
<1> QED
  BY <1>3 DEF between

\* An empty ring stores the empty sequence.
LEMMA StoredNone ==
    ASSUME NEW buf, NEW pri, NEW h, NEW n, NEW gap
    PROVE  Stored(buf, pri, h, n, 0, gap) = <<>>
BY DEF Stored

\* Moving the head takes the first message away.
LEMMA StoredCopy ==
    ASSUME NEW n \in Nat \ {0}, NEW h \in 0 .. n - 1, NEW len \in 1 .. n,
           NEW buf, NEW pri
    PROVE  LET old == Stored(buf, pri, h, n, len, len)
           IN  /\ Stored(buf, pri, Slot(h, n, 1), n, len - 1, len - 1)
                  = [i \in 1 .. len - 1 |-> old[i + 1]]
               /\ old[1] = [msg |-> buf[h], prio |-> pri[h]]
<1> DEFINE old == Stored(buf, pri, h, n, len, len)
           h2 == Slot(h, n, 1)
<1>1. h2 \in 0 .. n - 1 /\ h2 = IF h + 1 < n THEN h + 1 ELSE h + 1 - n
  <2>1. 1 \in 0 .. n
    OBVIOUS
  <2> QED
    BY <2>1, SlotIs
<1>2. ASSUME NEW i \in 1 .. len - 1
      PROVE  LET s == Slot(h2, n, IF i > len - 1 THEN i ELSE i - 1)
             IN  [msg |-> buf[s], prio |-> pri[s]] = old[i + 1]
  <2>1. /\ (IF i > len - 1 THEN i ELSE i - 1) = i - 1
        /\ (IF i + 1 > len THEN i + 1 ELSE (i + 1) - 1) = i
        /\ i + 1 \in 1 .. len
    OBVIOUS
  <2>2. /\ Slot(h, n, i) = IF h + i < n THEN h + i ELSE h + i - n
        /\ Slot(h2, n, i - 1) = IF h2 + (i - 1) < n THEN h2 + (i - 1) ELSE h2 + (i - 1) - n
    <3> HIDE DEF h2
    <3>1. i \in 0 .. n /\ i - 1 \in 0 .. n
      OBVIOUS
    <3> QED
      BY <1>1, <3>1, SlotIs
  <2>3. Slot(h2, n, i - 1) = Slot(h, n, i)
    <3> HIDE DEF h2
    <3> QED
      BY <1>1, <2>2
  <2>4. old[i + 1] = [msg |-> buf[Slot(h, n, i)], prio |-> pri[Slot(h, n, i)]]
    BY <2>1 DEF Stored
  <2> HIDE DEF h2, old
  <2> QED
    BY <2>1, <2>3, <2>4
<1>3. old[1] = [msg |-> buf[h], prio |-> pri[h]]
  <2>1. 1 \in 1 .. len /\ (IF 1 > len THEN 1 ELSE 1 - 1) = 0
    OBVIOUS
  <2>2. Slot(h, n, 0) = h
    BY SlotIs
  <2> QED
    BY <2>1, <2>2 DEF Stored
<1>4. Stored(buf, pri, h2, n, len - 1, len - 1)
        = [i \in 1 .. len - 1 |->
              LET s == Slot(h2, n, IF i > len - 1 THEN i ELSE i - 1)
              IN  [msg |-> buf[s], prio |-> pri[s]]]
  BY DEF Stored
<1> HIDE DEF old, h2
<1>5. Stored(buf, pri, h2, n, len - 1, len - 1) = [i \in 1 .. len - 1 |-> old[i + 1]]
  BY <1>2, <1>4
<1> QED
  BY <1>3, <1>5 DEF old, h2

-----------------------------------------------------------------------------
(* The state of the ring in these terms. *)

\* Messages before the gap: all of them unless somebody is scanning.
Gap == IF mutex # None /\ pc[mutex] = "put_scan" THEN Offset(ins[mutex]) ELSE Filled

\* What is known of types, mutex, tokens and indices.
QueueInv == TypeOK /\ MutexHeld /\ RingInv

\* Filled counts what RingInv counts.
LEMMA FilledIs == Filled = used + NUnposted + NEmptying
BY DEF Filled, Unposted, Emptying, At, Among, NUnposted, NEmptying

\* The gap is where the one thread that scans is.
LEMMA GapIs ==
    ASSUME TypeOK, MutexHeld
    PROVE  /\ \A t \in Threads : pc[t] = "put_scan" => mutex = t /\ Gap = Offset(ins[t])
           /\ (\A t \in Threads : pc[t] # "put_scan") => Gap = Filled
           /\ Filled \in Nat
<1>1. \A t \in Threads : pc[t] = "put_scan" => mutex = t /\ mutex # None
  BY ThreadsAssumption DEF MutexHeld
<1>2. mutex # None => mutex \in Threads
  BY DEF TypeOK
<1>3. Filled \in Nat
  BY FilledIs, CountsAreNatural DEF TypeOK
<1> QED
  BY <1>1, <1>2, <1>3 DEF Gap

\* Contents is what is stored between head and tail, but for the gap.
LEMMA ContentsAre ==
    TypeOK /\ MutexHeld =>
        Contents = Stored(buffer, priorities, head, msg_count, Filled, Gap)
<1> SUFFICES ASSUME TypeOK, MutexHeld
             PROVE  Contents = Stored(buffer, priorities, head, msg_count, Filled, Gap)
  OBVIOUS
<1> DEFINE skipped(i) == \E t \in At({"put_scan"}) : i > Offset(ins[t])
<1>1. ASSUME NEW i \in 1 .. Filled
      PROVE  skipped(i) <=> i > Gap
  <2>1. CASE \E t \in Threads : pc[t] = "put_scan"
    <3>1. PICK t \in Threads : pc[t] = "put_scan"
      BY <2>1
    <3>2. At({"put_scan"}) = {t}
      BY <3>1, GapIs DEF At
    <3> QED
      BY <3>1, <3>2, GapIs
  <2>2. CASE \A t \in Threads : pc[t] # "put_scan"
    <3>1. At({"put_scan"}) = {}
      BY <2>2 DEF At
    <3>2. Gap = Filled /\ Filled \in Nat
      BY <2>2, GapIs
    <3> QED
      BY <3>1, <3>2
  <2> QED
    BY <2>1, <2>2
<1> QED
  BY <1>1 DEF Contents, Stored, Slot

\* The same in the next state.
LEMMA ContentsAreNext ==
    TypeOK' /\ MutexHeld' =>
        Contents' = Stored(buffer', priorities', head', msg_count', Filled', Gap')
<1>1. (TypeOK /\ MutexHeld =>
          Contents = Stored(buffer, priorities, head, msg_count, Filled, Gap))'
  BY ContentsAre, PTL
<1> QED
  BY <1>1

\* Filled and Gap in the next state.
LEMMA FilledIsNext == Filled' = used' + NUnposted' + NEmptying'
<1>1. (Filled = used + NUnposted + NEmptying)'
  BY FilledIs, PTL
<1> QED
  BY <1>1

\* How a step of thread t changes the number of messages.
LEMMA FilledStep ==
    ASSUME NEW t \in Threads, NEW at, NEW to, Moves(Threads, pc, pc', t, at, to),
           used \in Nat, used' \in Nat
    PROVE  /\ Filled' \in Nat
           /\ Filled' = Filled + (used' - used)
                 + Inside(to, {"put_post"}) - Inside(at, {"put_post"})
                 + Inside(to, {"get_lock", "get_copy"}) - Inside(at, {"get_lock", "get_copy"})
BY CountStep, CountsAreNatural, FilledIs, FilledIsNext DEF Inside

\* Who owns a free slot finds one, behind the last message.
LEMMA FillingHasRoom ==
    ASSUME QueueInv, NEW t \in Threads, pc[t] \in {"put_lock", "put_scan"}
    PROVE  /\ msg_count \in Nat \ {0} /\ head \in 0 .. msg_count - 1
           /\ Filled \in 0 .. msg_count - 1
           /\ Offset(tail) = Filled
<1>1. NFilling # 0
  <2>1. t \in Among(Threads, pc, {"put_lock", "put_scan"})
    BY DEF Among
  <2> QED
    BY <2>1, ThreadsAssumption, AmongFinite, FS_EmptySet DEF NFilling
<1>2. msg_count # 0
  BY DEF QueueInv, TypeOK
<1> QED
  BY <1>1, <1>2, FilledIs DEF QueueInv, TypeOK, RingInv, Slots, Offset

\* Who owns a message finds one.
LEMMA EmptyingHasMessage ==
    ASSUME QueueInv, NEW t \in Threads, pc[t] \in {"get_lock", "get_copy"}
    PROVE  /\ msg_count \in Nat \ {0} /\ head \in 0 .. msg_count - 1
           /\ Filled \in 1 .. msg_count
<1>1. NEmptying # 0
  <2>1. t \in Among(Threads, pc, {"get_lock", "get_copy"})
    BY DEF Among
  <2> QED
    BY <2>1, ThreadsAssumption, AmongFinite, FS_EmptySet DEF NEmptying
<1>2. msg_count # 0
  BY DEF QueueInv, TypeOK
<1> QED
  BY <1>1, <1>2, FilledIs DEF QueueInv, TypeOK, RingInv, Slots

\* A slot, counted from the head, and the one before it.
LEMMA OffsetIs ==
    ASSUME TypeOK, msg_count # 0, NEW i \in Slots
    PROVE  /\ Offset(i) \in 0 .. msg_count - 1
           /\ Slot(head, msg_count, Offset(i)) = i
           /\ Offset(i) = 0 <=> i = head
           /\ i # head => /\ Offset(prev_idx(i, msg_count)) = Offset(i) - 1
                          /\ Slot(head, msg_count, Offset(i) - 1) = prev_idx(i, msg_count)
<1>1. /\ msg_count \in Nat \ {0} /\ msg_count \in 1 .. SemValueMax
      /\ head \in 0 .. msg_count - 1 /\ i \in 0 .. msg_count - 1
  BY WordAssumption DEF TypeOK, Slots
<1>2. Offset(i) \in 0 .. msg_count - 1 /\ (Offset(i) = 0 <=> i = head)
  BY <1>1 DEF Offset
<1>3. Slot(head, msg_count, Offset(i)) = i
  <2>1. Offset(i) \in 0 .. msg_count
    BY <1>1, <1>2
  <2>2. Slot(head, msg_count, Offset(i)) =
          IF head + Offset(i) < msg_count THEN head + Offset(i)
          ELSE head + Offset(i) - msg_count
    BY <1>1, <2>1, SlotIs
  <2> QED
    BY <1>1, <2>2 DEF Offset
<1>4. ASSUME i # head
      PROVE  /\ Offset(prev_idx(i, msg_count)) = Offset(i) - 1
             /\ Slot(head, msg_count, Offset(i) - 1) = prev_idx(i, msg_count)
  <2>1. prev_idx(i, msg_count) = IF i = 0 THEN msg_count - 1 ELSE i - 1
    BY <1>1, PrevIdx
  <2>2. Offset(prev_idx(i, msg_count)) = Offset(i) - 1
    BY <1>1, <1>4, <2>1 DEF Offset
  <2>3. Offset(i) - 1 \in 0 .. msg_count
    BY <1>1, <1>2, <1>4
  <2>4. Slot(head, msg_count, Offset(i) - 1) =
          IF head + (Offset(i) - 1) < msg_count THEN head + (Offset(i) - 1)
          ELSE head + (Offset(i) - 1) - msg_count
    BY <1>1, <2>3, SlotIs
  <2> QED
    BY <1>1, <1>4, <2>1, <2>2, <2>4 DEF Offset
<1> QED
  BY <1>2, <1>3, <1>4

-----------------------------------------------------------------------------
(* What each operation does to the messages. *)

\* A scan knows that its message goes before all it has passed.
Scanned ==
    \A t \in Threads : pc[t] = "put_scan" =>
        /\ Offset(ins[t]) <= Filled
        /\ \A i \in Offset(ins[t]) + 1 .. Filled : Contents[i].prio < arg[t].prio

\* Same slots, same number, same gap: same messages.
LEMMA Untouched ==
    ASSUME TypeOK, MutexHeld, TypeOK', MutexHeld',
           buffer' = buffer, priorities' = priorities,
           head' = head, msg_count' = msg_count, Filled' = Filled, Gap' = Gap
    PROVE  Contents' = Contents
BY ContentsAre, ContentsAreNext

\* A step that moves no scanner and keeps the number keeps the gap.
LEMMA GapStays ==
    ASSUME TypeOK, MutexHeld, TypeOK', MutexHeld', Filled' = Filled,
           head' = head, msg_count' = msg_count,
           \A t \in Threads : /\ pc'[t] = "put_scan" <=> pc[t] = "put_scan"
                              /\ pc[t] = "put_scan" => ins'[t] = ins[t]
    PROVE  Gap' = Gap
<1>1. CASE \E t \in Threads : pc[t] = "put_scan"
  <2>1. PICK t \in Threads : pc[t] = "put_scan"
    BY <1>1
  <2>2. mutex = t /\ mutex' = t /\ t # None
    BY <2>1, ThreadsAssumption DEF MutexHeld
  <2> QED
    BY <2>1, <2>2 DEF Gap, Offset
<1>2. CASE \A t \in Threads : pc[t] # "put_scan"
  BY <1>2 DEF Gap, TypeOK
<1> QED
  BY <1>1, <1>2

\* The steps that only move tokens or threads leave the messages alone.
TokenStep ==
    \/ \E t \in Producers :
          \/ \E e \in Messages, finite \in BOOLEAN : PutCall(t, e, finite)
          \/ PutWake(t) \/ PutFail(t) \/ PutPost(t)
    \/ \E t \in Consumers :
          \/ \E finite \in BOOLEAN : GetCall(t, finite)
          \/ GetWake(t) \/ GetFail(t) \/ GetLock(t) \/ GetPost(t)

LEMMA TokenStepEffect ==
    ASSUME QueueInv, QueueInv', TokenStep
    PROVE  /\ Contents' = Contents /\ Filled' = Filled /\ msg_count' = msg_count
           /\ \A t \in Threads :
                 /\ pc'[t] = "put_scan" <=> pc[t] = "put_scan"
                 /\ pc[t] = "put_scan" => arg'[t] = arg[t]
           /\ ins' = ins /\ head' = head
<1> USE ThreadSets
<1>1. /\ buffer' = buffer /\ priorities' = priorities /\ head' = head
      /\ msg_count' = msg_count /\ ins' = ins
  BY DEF TokenStep, PutCall, PutWake, PutFail, PutPost, GetCall, GetWake, GetFail,
         GetLock, GetPost, ring, tokens
<1>2. \A t \in Threads : /\ pc'[t] = "put_scan" <=> pc[t] = "put_scan"
                         /\ pc[t] = "put_scan" => arg'[t] = arg[t]
  <2>1. DOMAIN pc = Threads /\ DOMAIN arg = Threads
    BY DEF QueueInv, TypeOK
  <2> QED
    BY <2>1 DEF TokenStep, PutCall, PutWake, PutFail, PutPost, GetCall, GetWake, GetFail,
           GetLock, GetPost
<1>3. Filled' = Filled
  <2> USE DEF Inside, Moves
  <2>0. used \in Nat /\ used' \in Nat /\ Filled \in Nat
    BY FilledIs, CountsAreNatural DEF QueueInv, TypeOK
  <2>1. ASSUME NEW t \in Producers, NEW e \in Messages, NEW finite \in BOOLEAN,
               PutCall(t, e, finite)
        PROVE  Filled' = Filled
    <3>1. used' = used /\ pc[t] = "idle" /\ pc'[t] \in {"put_lock", "put_wait"}
          /\ \A u \in Threads \ {t} : pc'[u] = pc[u]
      BY <2>1 DEF PutCall, QueueInv, TypeOK
    <3> QED
      BY <2>0, <3>1, FilledStep
  <2>2. ASSUME NEW t \in Producers, PutWake(t) \/ PutFail(t)
        PROVE  Filled' = Filled
    <3>1. used' = used /\ pc[t] = "put_wait" /\ pc'[t] \in {"put_lock", "idle"}
          /\ \A u \in Threads \ {t} : pc'[u] = pc[u]
      BY <2>2 DEF PutWake, PutFail, QueueInv, TypeOK, tokens
    <3> QED
      BY <2>0, <3>1, FilledStep
  <2>3. ASSUME NEW t \in Producers, PutPost(t)
        PROVE  Filled' = Filled
    <3>1. pc[t] = "put_post" /\ pc'[t] = "idle" /\ \A u \in Threads \ {t} : pc'[u] = pc[u]
      BY <2>3 DEF PutPost, QueueInv, TypeOK
    <3>2. used' = used + 1
      <4>1. t \in Among(Threads, pc, {"put_post"})
        BY <3>1 DEF Among
      <4>2. NUnposted # 0
        BY <4>1, ThreadsAssumption, AmongFinite, FS_EmptySet DEF NUnposted
      <4>3. used < SemValueMax
        BY <4>2, WordAssumption DEF QueueInv, RingInv, TypeOK
      <4> QED
        BY <2>3, <4>3 DEF PutPost, SemPost
    <3> QED
      BY <2>0, <3>1, <3>2, FilledStep
  <2>4. ASSUME NEW t \in Consumers, NEW finite \in BOOLEAN, GetCall(t, finite)
        PROVE  Filled' = Filled
    <3>1. pc[t] = "idle" /\ \A u \in Threads \ {t} : pc'[u] = pc[u]
      BY <2>4 DEF GetCall, QueueInv, TypeOK
    <3>2. \/ used' = used - 1 /\ pc'[t] = "get_lock"
          \/ used' = used /\ pc'[t] = "get_wait"
      BY <2>4 DEF GetCall, QueueInv, TypeOK
    <3> QED
      BY <2>0, <3>1, <3>2, FilledStep
  <2>5. ASSUME NEW t \in Consumers, GetWake(t)
        PROVE  Filled' = Filled
    <3>1. used' = used - 1 /\ pc[t] = "get_wait" /\ pc'[t] = "get_lock"
          /\ \A u \in Threads \ {t} : pc'[u] = pc[u]
      BY <2>5 DEF GetWake, QueueInv, TypeOK
    <3> QED
      BY <2>0, <3>1, FilledStep
  <2>6. ASSUME NEW t \in Consumers, GetFail(t) \/ GetPost(t)
        PROVE  Filled' = Filled
    <3>1. used' = used /\ pc[t] \in {"get_wait", "get_post"} /\ pc'[t] = "idle"
          /\ \A u \in Threads \ {t} : pc'[u] = pc[u]
      BY <2>6 DEF GetFail, GetPost, QueueInv, TypeOK, tokens
    <3> QED
      BY <2>0, <3>1, FilledStep
  <2>7. ASSUME NEW t \in Consumers, GetLock(t)
        PROVE  Filled' = Filled
    <3>1. used' = used /\ pc[t] = "get_lock" /\ pc'[t] = "get_copy"
          /\ \A u \in Threads \ {t} : pc'[u] = pc[u]
      BY <2>7 DEF GetLock, QueueInv, TypeOK, tokens
    <3> QED
      BY <2>0, <3>1, FilledStep
  <2> QED
    BY <2>1, <2>2, <2>3, <2>4, <2>5, <2>6, <2>7 DEF TokenStep
<1>4. Gap' = Gap
  BY <1>1, <1>2, <1>3, GapStays DEF QueueInv
<1> QED
  BY <1>1, <1>2, <1>3, <1>4, Untouched DEF QueueInv

\* A scan begins behind the last message.
LEMMA PutLockEffect ==
    ASSUME QueueInv, QueueInv', NEW t \in Producers, PutLock(t)
    PROVE  /\ Contents' = Contents /\ Filled' = Filled /\ msg_count' = msg_count
           /\ pc[t] = "put_lock" /\ pc'[t] = "put_scan"
           /\ \A u \in Threads : pc'[u] = "put_scan" => u = t
           /\ Offset(ins[t])' = Filled
<1> USE ThreadSets
<1>1. /\ pc[t] = "put_lock" /\ pc'[t] = "put_scan" /\ mutex = None /\ mutex' = t
      /\ \A u \in Threads \ {t} : pc'[u] = pc[u]
      /\ used' = used /\ buffer' = buffer /\ priorities' = priorities
      /\ head' = head /\ msg_count' = msg_count /\ ins'[t] = tail
  BY DEF PutLock, QueueInv, TypeOK, tokens, ring
<1>2. Filled' = Filled
  BY <1>1, FilledStep, FilledIs, CountsAreNatural DEF Moves, Inside, QueueInv, TypeOK
<1>3. \A u \in Threads : pc'[u] = "put_scan" => u = t
  BY <1>1 DEF QueueInv, MutexHeld
<1>4. Offset(ins[t])' = Filled
  BY <1>1, FillingHasRoom DEF Offset
<1>5. Gap = Filled
  BY <1>1 DEF Gap
<1>6. Gap' = Filled
  BY <1>1, <1>4, ThreadsAssumption DEF Gap
<1> QED
  BY <1>1, <1>2, <1>3, <1>4, <1>5, <1>6, Untouched DEF QueueInv

\* One message moves up one slot, and the gap down by one.
LEMMA PutShiftEffect ==
    ASSUME QueueInv, QueueInv', Scanned, NEW t \in Producers, PutShift(t)
    PROVE  /\ Contents' = Contents /\ Filled' = Filled /\ msg_count' = msg_count
           /\ mutex = t
           /\ pc' = pc /\ arg' = arg
           /\ Gap \in 1 .. Filled /\ Offset(ins[t]) = Gap /\ Offset(ins[t])' = Gap - 1
           /\ Contents[Gap].prio < arg[t].prio
<1> USE ThreadSets
<1> DEFINE prev == prev_idx(ins[t], msg_count)
<1>1. /\ pc[t] = "put_scan" /\ pc' = pc /\ arg' = arg /\ mutex' = mutex
      /\ used' = used /\ head' = head /\ msg_count' = msg_count
      /\ ~ ScanDone(t)
      /\ buffer' = [buffer EXCEPT ![ins[t]] = buffer[prev]]
      /\ priorities' = [priorities EXCEPT ![ins[t]] = priorities[prev]]
      /\ ins' = [ins EXCEPT ![t] = prev]
  BY DEF PutShift, tokens
<1>2. /\ msg_count \in Nat \ {0} /\ head \in 0 .. msg_count - 1
      /\ Filled \in 0 .. msg_count - 1
      /\ buffer \in [0 .. msg_count - 1 -> Payloads \cup {Garbage}]
      /\ priorities \in [0 .. msg_count - 1 -> Priorities \cup {0}]
      /\ ins[t] \in Slots /\ ins \in [Threads -> Nat]
      /\ arg[t] \in Messages
  BY <1>1, FillingHasRoom DEF QueueInv, TypeOK, Slots
<1>3. Filled' = Filled
  BY <1>1 DEF Filled, Unposted, Emptying, At
<1>4. mutex = t /\ Gap = Offset(ins[t])
  BY <1>1, GapIs DEF QueueInv
<1>5. ins[t] # head /\ ~ (arg[t].prio <= priorities[prev])
  BY <1>1 DEF ScanDone
<1>6. /\ Gap \in 1 .. Filled
      /\ Slot(head, msg_count, Gap) = ins[t]
      /\ Slot(head, msg_count, Gap - 1) = prev
      /\ Offset(prev) = Gap - 1
  <2>1. Offset(ins[t]) <= Filled
    BY <1>1 DEF Scanned
  <2> QED
    BY <1>2, <1>4, <1>5, <2>1, OffsetIs DEF QueueInv
<1>7. Offset(ins[t])' = Gap - 1 /\ Gap' = Gap - 1
  <2>1. Offset(ins[t])' = Offset(prev)
    <3>1. ins'[t] = prev
      BY <1>1, <1>2
    <3> QED
      BY <1>1, <3>1 DEF Offset
  <2>2. Gap' = Offset(ins[t])'
    BY <1>1, <1>4, ThreadsAssumption DEF Gap
  <2> QED
    BY <1>6, <2>1, <2>2
<1>8. Contents = Stored(buffer, priorities, head, msg_count, Filled, Gap)
  BY ContentsAre DEF QueueInv
<1>9. Contents' = Contents
  <2>1. Contents' = Stored(buffer', priorities', head, msg_count, Filled, Gap - 1)
    BY <1>1, <1>3, <1>7, ContentsAreNext DEF QueueInv
  <2>2. Stored(buffer', priorities', head, msg_count, Filled, Gap - 1)
          = Stored(buffer, priorities, head, msg_count, Filled, Gap)
    <3> HIDE DEF prev
    <3>1. /\ Written(buffer, buffer', msg_count, ins[t], buffer[prev])
          /\ Written(priorities, priorities', msg_count, ins[t], priorities[prev])
      BY <1>1, <1>2 DEF Written, Slots
    <3>2. /\ Written(buffer, buffer', msg_count, Slot(head, msg_count, Gap),
                     buffer[Slot(head, msg_count, Gap - 1)])
          /\ Written(priorities, priorities', msg_count, Slot(head, msg_count, Gap),
                     priorities[Slot(head, msg_count, Gap - 1)])
      BY <1>6, <3>1
    <3>3. /\ msg_count \in Nat \ {0} /\ head \in 0 .. msg_count - 1
          /\ Filled \in 0 .. msg_count - 1 /\ Gap \in 1 .. Filled
      BY <1>2, <1>6
    <3> QED
      BY <3>2, <3>3, StoredShift
  <2> QED
    BY <1>8, <2>1, <2>2
<1>10. Contents[Gap].prio < arg[t].prio
  <2>1. Contents[Gap].prio = priorities[prev]
    <3>1. (IF Gap > Gap THEN Gap ELSE Gap - 1) = Gap - 1
      BY <1>6
    <3> QED
      BY <1>6, <1>8, <3>1 DEF Stored
  <2>2. prev \in 0 .. msg_count - 1
    <3>1. Gap - 1 \in 0 .. msg_count
      BY <1>2, <1>6
    <3> QED
      BY <1>2, <1>6, <3>1, SlotIs
  <2>3. priorities[prev] \in Nat /\ arg[t].prio \in Nat
    <3>1. priorities[prev] \in Priorities \cup {0}
      BY <1>2, <2>2
    <3>2. arg[t].prio \in Priorities
      BY <1>2 DEF Messages
    <3>3. Priorities \cup {0} \subseteq Nat
      BY PrioritiesAssumption
    <3> HIDE DEF prev
    <3> QED
      BY <3>1, <3>2, <3>3, PrioritiesAssumption, Zenon
  <2> QED
    BY <1>5, <2>1, <2>3
<1> QED
  BY <1>1, <1>3, <1>4, <1>6, <1>7, <1>9, <1>10

\* q with e put behind its first k messages.
Inserted(q, len, k, e) ==
    [i \in 1 .. len + 1 |-> IF i <= k THEN q[i] ELSE IF i = k + 1 THEN e ELSE q[i - 1]]

\* The message fills the gap.
LEMMA PutInsertEffect ==
    ASSUME QueueInv, QueueInv', Scanned, NEW t \in Producers, PutInsert(t)
    PROVE  /\ Gap \in 0 .. Filled /\ Filled < msg_count
           /\ Filled' = Filled + 1 /\ msg_count' = msg_count
           /\ mutex = t /\ arg[t] \in Messages
           /\ \A u \in Threads : pc'[u] # "put_scan"
           /\ Contents' = Inserted(Contents, Filled, Gap, arg[t])
<1> USE ThreadSets
<1>1. /\ pc[t] = "put_scan" /\ pc'[t] = "put_post" /\ mutex' = None
      /\ \A u \in Threads \ {t} : pc'[u] = pc[u]
      /\ used' = used /\ head' = head /\ msg_count' = msg_count
      /\ buffer' = [buffer EXCEPT ![ins[t]] = arg[t].msg]
      /\ priorities' = [priorities EXCEPT ![ins[t]] = arg[t].prio]
  BY DEF PutInsert, QueueInv, TypeOK, tokens
<1>2. /\ msg_count \in Nat \ {0} /\ head \in 0 .. msg_count - 1
      /\ Filled \in 0 .. msg_count - 1
      /\ buffer \in [0 .. msg_count - 1 -> Payloads \cup {Garbage}]
      /\ priorities \in [0 .. msg_count - 1 -> Priorities \cup {0}]
      /\ ins[t] \in 0 .. msg_count - 1
      /\ arg[t] \in Messages
  BY <1>1, FillingHasRoom DEF QueueInv, TypeOK, Slots
<1>3. Filled' = Filled + 1
  BY <1>1, FilledStep, FilledIs, CountsAreNatural DEF Moves, Inside, QueueInv, TypeOK
<1>4. mutex = t /\ Gap = Offset(ins[t])
  BY <1>1, GapIs DEF QueueInv
<1>5. Gap \in 0 .. Filled /\ Slot(head, msg_count, Gap) = ins[t]
  <2>1. Offset(ins[t]) <= Filled
    BY <1>1 DEF Scanned
  <2> QED
    BY <1>2, <1>4, <2>1, OffsetIs DEF QueueInv, Slots
<1>6. \A u \in Threads : pc'[u] # "put_scan"
  BY <1>1, ThreadsAssumption DEF QueueInv, MutexHeld
<1>7. Contents = Stored(buffer, priorities, head, msg_count, Filled, Gap)
  BY ContentsAre DEF QueueInv
<1>8. Contents' = Stored(buffer', priorities', head, msg_count, Filled + 1, Filled + 1)
  <2>1. Gap' = Filled'
    BY <1>1 DEF Gap
  <2> QED
    BY <1>1, <1>3, <2>1, ContentsAreNext DEF QueueInv
<1>9. arg[t] = [msg |-> arg[t].msg, prio |-> arg[t].prio]
  BY <1>2 DEF Messages
<1>10. Contents' = Inserted(Contents, Filled, Gap, arg[t])
  <2>1. /\ Written(buffer, buffer', msg_count, ins[t], arg[t].msg)
        /\ Written(priorities, priorities', msg_count, ins[t], arg[t].prio)
    BY <1>1, <1>2 DEF Written
  <2>2. /\ Written(buffer, buffer', msg_count, Slot(head, msg_count, Gap), arg[t].msg)
        /\ Written(priorities, priorities', msg_count, Slot(head, msg_count, Gap), arg[t].prio)
    BY <1>5, <2>1
  <2>3. /\ msg_count \in Nat \ {0} /\ head \in 0 .. msg_count - 1
        /\ Filled \in 0 .. msg_count - 1 /\ Gap \in 0 .. Filled
    BY <1>2, <1>5
  <2>4. Stored(buffer', priorities', head, msg_count, Filled + 1, Filled + 1)
          = Inserted(Stored(buffer, priorities, head, msg_count, Filled, Gap), Filled, Gap,
                     [msg |-> arg[t].msg, prio |-> arg[t].prio])
    BY <2>2, <2>3, StoredInsert DEF Inserted
  <2> QED
    BY <1>7, <1>8, <1>9, <2>4
<1> QED
  BY <1>1, <1>2, <1>3, <1>4, <1>5, <1>6, <1>10

\* A Get takes the first message.
LEMMA GetCopyEffect ==
    ASSUME QueueInv, QueueInv', NEW t \in Consumers, NEW wantsPrio \in BOOLEAN,
           GetCopy(t, wantsPrio)
    PROVE  /\ Filled \in 1 .. msg_count /\ Filled' = Filled - 1 /\ msg_count' = msg_count
           /\ \A u \in Threads : pc'[u] # "put_scan"
           /\ Contents' = [i \in 1 .. Filled - 1 |-> Contents[i + 1]]
           /\ Contents[1] = [msg |-> buffer[head], prio |-> priorities[head]]
<1> USE ThreadSets
<1>1. /\ pc[t] = "get_copy" /\ pc'[t] = "get_post" /\ mutex' = None
      /\ \A u \in Threads \ {t} : pc'[u] = pc[u]
      /\ used' = used /\ msg_count' = msg_count
      /\ buffer' = buffer /\ priorities' = priorities
      /\ head' = next_idx(head, msg_count)
  BY DEF GetCopy, QueueInv, TypeOK, tokens
<1>2. /\ msg_count \in Nat \ {0} /\ msg_count \in 1 .. SemValueMax
      /\ head \in 0 .. msg_count - 1 /\ Filled \in 1 .. msg_count
  BY <1>1, EmptyingHasMessage, WordAssumption DEF QueueInv, TypeOK
<1>3. Filled' = Filled - 1
  BY <1>1, FilledStep, FilledIs, CountsAreNatural DEF Moves, Inside, QueueInv, TypeOK
<1>4. \A u \in Threads : pc[u] # "put_scan" /\ pc'[u] # "put_scan"
  BY <1>1 DEF QueueInv, MutexHeld
<1>5. Gap = Filled
  BY <1>4, GapIs DEF QueueInv
<1>6. Gap' = Filled'
  BY <1>1 DEF Gap
<1>7. head' = Slot(head, msg_count, 1)
  <2>1. head' = IF head + 1 = msg_count THEN 0 ELSE head + 1
    BY <1>1, <1>2, NextIdx
  <2>2. 1 \in 0 .. msg_count
    BY <1>2
  <2>3. Slot(head, msg_count, 1) = IF head + 1 < msg_count THEN head + 1 ELSE head + 1 - msg_count
    BY <1>2, <2>2, SlotIs
  <2> QED
    BY <1>2, <2>1, <2>3
<1>8. Contents = Stored(buffer, priorities, head, msg_count, Filled, Filled)
  BY <1>5, ContentsAre DEF QueueInv
<1>9. Contents' = Stored(buffer, priorities, Slot(head, msg_count, 1), msg_count,
                         Filled - 1, Filled - 1)
  BY <1>1, <1>3, <1>6, <1>7, ContentsAreNext DEF QueueInv
<1>10. /\ Contents' = [i \in 1 .. Filled - 1 |-> Contents[i + 1]]
       /\ Contents[1] = [msg |-> buffer[head], prio |-> priorities[head]]
  BY <1>2, <1>8, <1>9, StoredCopy
<1> QED
  BY <1>1, <1>2, <1>3, <1>4, <1>10

\* Creating and deleting a queue leaves it empty.
LEMMA NewDeleteEffect ==
    ASSUME QueueInv, QueueInv', Delete \/ \E n \in 1 .. SemValueMax : New(n)
    PROVE  Contents' = <<>> /\ Filled' = 0 /\ \A t \in Threads : pc'[t] = "idle"
<1>1. pc' = pc /\ pc = [t \in Threads |-> "idle"] /\ used' = 0
  BY DEF New, Delete, QueueInv, TypeOK, At
<1>2. NUnposted' = 0 /\ NEmptying' = 0
  BY <1>1, IdleCounts DEF NUnposted, NEmptying
<1>3. Filled' = 0
  BY <1>1, <1>2, FilledIsNext
<1>4. Contents' = <<>>
  <2>1. Contents' = Stored(buffer', priorities', head', msg_count', 0, Gap')
    BY <1>3, ContentsAreNext DEF QueueInv
  <2> QED
    BY <2>1, StoredNone
<1> QED
  BY <1>1, <1>3, <1>4

-----------------------------------------------------------------------------
(* Order. *)

\* A thread carries a message exactly where Put has one to store, and holds a
\* received one exactly where Get has one to return.
Carried ==
    \A t \in Threads :
        /\ pc[t] \notin {"put_wait", "put_lock", "put_scan"} => arg[t] = None
        /\ pc[t] = "get_post" <=> box[t] # None

OrderInv == QueueInv /\ PriorityOrdered /\ Scanned /\ Carried

\* The contents are a sequence of as many messages as are counted.
LEMMA ContentsType ==
    ASSUME TypeOK, MutexHeld, PriorityOrdered
    PROVE  /\ Filled \in Nat
           /\ Contents \in [1 .. Filled -> Messages]
           /\ Contents \in Seq(Messages) /\ Len(Contents) = Filled
<1>1. Filled \in Nat
  BY GapIs
<1>2. Contents \in [1 .. Filled -> Messages]
  BY ContentsAre DEF Stored, PriorityOrdered
<1> QED
  BY <1>1, <1>2

\* What the scan has found out when it ends: its message belongs where the
\* gap is, behind all of its own or a higher priority, before all others.
LEMMA Fits ==
    ASSUME OrderInv, NEW t \in Producers, PutInsert(t)
    PROVE  \A i \in 1 .. Filled : i <= Gap <=> Contents[i].prio >= arg[t].prio
<1> USE ThreadSets
<1>1. pc[t] = "put_scan" /\ ScanDone(t)
  BY DEF PutInsert
<1>2. /\ msg_count \in Nat \ {0} /\ head \in 0 .. msg_count - 1
      /\ ins[t] \in Slots /\ arg[t] \in Messages /\ Filled \in Nat
      /\ \A i \in 1 .. Filled : Contents[i].prio \in Nat
  <2>1. \A m \in Messages : m.prio \in Nat
    BY PrioritiesAssumption DEF Messages
  <2> QED
    BY <1>1, <2>1, FillingHasRoom, ContentsType DEF OrderInv, QueueInv, TypeOK
<1>3. arg[t].prio \in Nat
  BY <1>2, PrioritiesAssumption DEF Messages
<1>4. Gap = Offset(ins[t]) /\ Gap \in 0 .. Filled
  <2>1. Gap = Offset(ins[t])
    BY <1>1, GapIs DEF OrderInv, QueueInv
  <2>2. Offset(ins[t]) <= Filled
    BY <1>1 DEF OrderInv, Scanned
  <2> QED
    BY <1>2, <2>1, <2>2, OffsetIs DEF OrderInv, QueueInv
<1>5. ASSUME NEW i \in 1 .. Filled, i > Gap
      PROVE  Contents[i].prio < arg[t].prio
  BY <1>1, <1>4, <1>5, <1>2 DEF OrderInv, Scanned
<1>6. ASSUME NEW i \in 1 .. Filled, i <= Gap
      PROVE  Contents[i].prio >= arg[t].prio
  <2> DEFINE prev == prev_idx(ins[t], msg_count)
  <2>1. Gap \in 1 .. Filled /\ ins[t] # head
    BY <1>2, <1>4, <1>6, OffsetIs DEF OrderInv, QueueInv
  <2>2. arg[t].prio <= priorities[prev]
    BY <1>1, <2>1 DEF ScanDone
  <2>3. Contents[Gap].prio = priorities[prev]
    <3>1. Slot(head, msg_count, Gap - 1) = prev
      BY <1>2, <1>4, <2>1, OffsetIs DEF OrderInv, QueueInv
    <3>2. Contents = Stored(buffer, priorities, head, msg_count, Filled, Gap)
      BY ContentsAre DEF OrderInv, QueueInv
    <3>3. (IF Gap > Gap THEN Gap ELSE Gap - 1) = Gap - 1
      BY <2>1
    <3> HIDE DEF prev
    <3> QED
      BY <2>1, <3>1, <3>2, <3>3 DEF Stored
  <2>4. Contents[i].prio >= Contents[Gap].prio
    <3>1. CASE i = Gap
      BY <1>2, <3>1
    <3>2. CASE i < Gap
      BY <2>1, <3>2 DEF OrderInv, PriorityOrdered
    <3> QED
      BY <1>4, <1>6, <3>1, <3>2
  <2> HIDE DEF prev
  <2> QED
    BY <1>2, <1>3, <2>1, <2>2, <2>3, <2>4
<1> QED
  BY <1>2, <1>3, <1>4, <1>5, <1>6

\* Putting a message where it belongs keeps the order.
LEMMA InsertedInOrder ==
    ASSUME NEW len \in Nat, NEW q \in [1 .. len -> Messages], NEW e \in Messages,
           NEW k \in 0 .. len,
           \A i, j \in 1 .. len : i < j => q[i].prio >= q[j].prio,
           \A i \in 1 .. len : i <= k <=> q[i].prio >= e.prio
    PROVE  LET r == Inserted(q, len, k, e)
           IN  /\ \A i \in 1 .. len + 1 : r[i] \in Messages
               /\ \A i, j \in 1 .. len + 1 : i < j => r[i].prio >= r[j].prio
<1> DEFINE r == Inserted(q, len, k, e)
<1>1. \A m \in Messages : m.prio \in Nat
  BY PrioritiesAssumption DEF Messages
<1>2. e.prio \in Nat /\ \A i \in 1 .. len : q[i].prio \in Nat
  BY <1>1
<1>3. ASSUME NEW i \in 1 .. len + 1
      PROVE  /\ i <= k => i \in 1 .. len /\ r[i] = q[i]
             /\ i = k + 1 => r[i] = e
             /\ i > k + 1 => i - 1 \in 1 .. len /\ i - 1 > k /\ r[i] = q[i - 1]
  BY DEF Inserted
<1> HIDE DEF r
<1>4. ASSUME NEW i \in 1 .. len + 1
      PROVE  r[i] \in Messages
  BY <1>3
<1>5. ASSUME NEW i \in 1 .. len + 1, NEW j \in 1 .. len + 1, i < j
      PROVE  r[i].prio >= r[j].prio
  <2>1. CASE j <= k
    BY <1>3, <1>5, <2>1
  <2>2. CASE j = k + 1
    BY <1>3, <1>5, <2>2
  <2>3. CASE j > k + 1
    <3>1. r[j] = q[j - 1] /\ j - 1 \in 1 .. len /\ j - 1 > k
      BY <1>3, <2>3
    <3>2. CASE i <= k
      BY <1>3, <1>5, <3>1, <3>2
    <3>3. CASE i = k + 1
      <4>1. ~ (q[j - 1].prio >= e.prio)
        BY <3>1
      <4> QED
        BY <1>2, <1>3, <3>1, <3>3, <4>1
    <3>4. CASE i > k + 1
      BY <1>3, <1>5, <3>1, <3>4
    <3> QED
      BY <3>2, <3>3, <3>4
  <2> QED
    BY <2>1, <2>2, <2>3
<1> QED
  BY <1>4, <1>5 DEF r

\* Every step is one of six kinds.
LEMMA Kinds ==
    ASSUME [Next]_vars
    PROVE  \/ TokenStep
           \/ \E t \in Producers : PutLock(t) \/ PutShift(t) \/ PutInsert(t)
           \/ \E t \in Consumers, wantsPrio \in BOOLEAN : GetCopy(t, wantsPrio)
           \/ Delete \/ \E n \in 1 .. SemValueMax : New(n)
           \/ UNCHANGED vars
BY DEF Next, PutStep, GetStep, TokenStep

\* Messages are carried where the program counter says.
LEMMA CarriedStep == TypeOK /\ Carried /\ [Next]_vars => Carried'
<1> SUFFICES ASSUME TypeOK, Carried, [Next]_vars PROVE Carried'
  OBVIOUS
<1> USE ThreadSets DEF Carried
<1>0. DOMAIN pc = Threads /\ DOMAIN arg = Threads /\ DOMAIN box = Threads
  BY DEF TypeOK
<1>1. ASSUME TokenStep
      PROVE  Carried'
  BY <1>0, <1>1 DEF TokenStep, PutCall, PutWake, PutFail, PutPost, GetCall, GetWake, GetFail,
         GetLock, GetPost
<1>2. ASSUME NEW t \in Producers, PutLock(t) \/ PutShift(t) \/ PutInsert(t)
      PROVE  Carried'
  BY <1>0, <1>2 DEF PutLock, PutShift, PutInsert
<1>3. ASSUME NEW t \in Consumers, NEW wantsPrio \in BOOLEAN, GetCopy(t, wantsPrio)
      PROVE  Carried'
  <2> DEFINE m == [msg  |-> buffer[head],
                   prio |-> IF wantsPrio THEN priorities[head] ELSE None]
  <2>1. m # None
    <3>1. buffer[head] \in Payloads \cup {Garbage} /\ priorities[head] \in Priorities \cup {0}
      <4>1. head \in Slots
        BY <1>3 DEF GetCopy, TypeOK
      <4> QED
        BY <4>1 DEF TypeOK
    <3> QED
      BY <3>1, MessagesAssumption
  <2>2. box' = [box EXCEPT ![t] = m]
    BY <1>3 DEF GetCopy
  <2> HIDE DEF m
  <2> QED
    BY <1>0, <1>3, <2>1, <2>2 DEF GetCopy
<1>4. ASSUME Delete \/ \E n \in 1 .. SemValueMax : New(n)
      PROVE  Carried'
  BY <1>4 DEF New, Delete
<1>5. CASE UNCHANGED vars
  BY <1>5 DEF vars
<1> QED
  BY <1>1, <1>2, <1>3, <1>4, <1>5, Kinds

\* Every step keeps the order, and a scan that goes on has passed only
\* messages that are less urgent than its own.
LEMMA OrderStep == OrderInv /\ [Next]_vars => OrderInv'
<1> SUFFICES ASSUME OrderInv, [Next]_vars PROVE OrderInv'
  OBVIOUS
<1> USE ThreadSets
<1>0. QueueInv' /\ QueueInv /\ PriorityOrdered /\ Scanned /\ Carried'
  BY TypeStep, MutexStep, RingStep, CarriedStep DEF OrderInv, QueueInv
<1>1. ASSUME TokenStep
      PROVE  PriorityOrdered' /\ Scanned'
  BY <1>0, <1>1, TokenStepEffect DEF PriorityOrdered, Scanned, Offset
<1>2. ASSUME NEW t \in Producers, PutLock(t)
      PROVE  PriorityOrdered' /\ Scanned'
  <2>1. Filled \in Nat
    BY <1>0, GapIs DEF QueueInv
  <2> QED
    BY <1>0, <1>2, <2>1, PutLockEffect DEF PriorityOrdered, Scanned
<1>3. ASSUME NEW t \in Producers, PutShift(t)
      PROVE  PriorityOrdered' /\ Scanned'
  <2>1. /\ Contents' = Contents /\ Filled' = Filled /\ mutex = t /\ pc' = pc /\ arg' = arg
        /\ Gap \in 1 .. Filled /\ Offset(ins[t]) = Gap /\ Offset(ins[t])' = Gap - 1
        /\ Contents[Gap].prio < arg[t].prio
    BY <1>0, <1>3, PutShiftEffect
  <2>2. Filled \in Nat
    BY <1>0, GapIs DEF QueueInv
  <2>3. pc[t] = "put_scan" /\ \A u \in Threads : pc[u] = "put_scan" => u = t
    BY <1>0, <1>3, <2>1 DEF PutShift, QueueInv, MutexHeld
  <2>4. \A i \in Gap + 1 .. Filled : Contents[i].prio < arg[t].prio
    BY <1>0, <2>1, <2>3 DEF Scanned
  <2>5. \A i \in (Gap - 1) + 1 .. Filled : Contents[i].prio < arg[t].prio
    <3>1. ASSUME NEW i \in (Gap - 1) + 1 .. Filled
          PROVE  i = Gap \/ i \in Gap + 1 .. Filled
      BY <2>1, <2>2
    <3> QED
      BY <2>1, <2>4, <3>1
  <2>6. Scanned'
    BY <2>1, <2>2, <2>3, <2>5 DEF Scanned
  <2> QED
    BY <1>0, <2>1, <2>6 DEF PriorityOrdered
<1>4. ASSUME NEW t \in Producers, PutInsert(t)
      PROVE  PriorityOrdered' /\ Scanned'
  <2>1. /\ Gap \in 0 .. Filled /\ Filled' = Filled + 1 /\ arg[t] \in Messages
        /\ \A u \in Threads : pc'[u] # "put_scan"
        /\ Contents' = Inserted(Contents, Filled, Gap, arg[t])
    BY <1>0, <1>4, PutInsertEffect
  <2>2. \A i \in 1 .. Filled : i <= Gap <=> Contents[i].prio >= arg[t].prio
    BY <1>4, Fits
  <2>3. Filled \in Nat /\ Contents \in [1 .. Filled -> Messages]
    BY <1>0, ContentsType DEF QueueInv
  <2>4. PriorityOrdered'
    BY <1>0, <2>1, <2>2, <2>3, InsertedInOrder DEF PriorityOrdered
  <2> QED
    BY <2>1, <2>4 DEF Scanned
<1>5. ASSUME NEW t \in Consumers, NEW wantsPrio \in BOOLEAN, GetCopy(t, wantsPrio)
      PROVE  PriorityOrdered' /\ Scanned'
  <2>1. /\ Filled \in 1 .. msg_count /\ Filled' = Filled - 1
        /\ \A u \in Threads : pc'[u] # "put_scan"
        /\ Contents' = [i \in 1 .. Filled - 1 |-> Contents[i + 1]]
    BY <1>0, <1>5, GetCopyEffect
  <2>2. Filled \in Nat
    BY <1>0, GapIs DEF QueueInv
  <2>3. ASSUME NEW i \in 1 .. Filled'
        PROVE  i + 1 \in 1 .. Filled /\ Contents'[i] = Contents[i + 1]
    BY <2>1, <2>2
  <2>4. PriorityOrdered'
    <3>1. ASSUME NEW i \in 1 .. Filled'
          PROVE  Contents'[i] \in Messages
      BY <1>0, <2>3 DEF PriorityOrdered
    <3>2. ASSUME NEW i \in 1 .. Filled', NEW j \in 1 .. Filled', i < j
          PROVE  Contents'[i].prio >= Contents'[j].prio
      <4>1. i + 1 < j + 1
        BY <3>2
      <4> QED
        BY <1>0, <2>3, <4>1 DEF PriorityOrdered
    <3> QED
      BY <3>1, <3>2 DEF PriorityOrdered
  <2> QED
    BY <2>1, <2>4 DEF Scanned
<1>6. ASSUME Delete \/ \E n \in 1 .. SemValueMax : New(n)
      PROVE  PriorityOrdered' /\ Scanned'
  BY <1>0, <1>6, NewDeleteEffect DEF PriorityOrdered, Scanned
<1>7. ASSUME UNCHANGED vars
      PROVE  PriorityOrdered' /\ Scanned'
  <2>1. Contents' = Contents /\ Filled' = Filled
    BY <1>7 DEF vars, ring, tokens, Contents, Filled, Unposted, Emptying, At, Offset
  <2> QED
    BY <1>0, <1>7, <2>1 DEF PriorityOrdered, Scanned, vars, ring, Offset
<1> QED
  BY <1>0, <1>1, <1>2, <1>3, <1>4, <1>5, <1>6, <1>7, Kinds DEF OrderInv

\* There is nothing to order before there is a queue.
LEMMA OrderInit == Init => OrderInv
<1> SUFFICES ASSUME Init PROVE OrderInv
  OBVIOUS
<1>1. QueueInv
  BY TypeInit, RingInit, ThreadsAssumption DEF Init, QueueInv, MutexHeld
<1>2. Filled = 0
  BY IdleCounts, FilledIs DEF Init
<1> QED
  BY <1>1, <1>2 DEF Init, OrderInv, PriorityOrdered, Scanned, Carried

\* OrderInv is inductive.
LEMMA OrderInvariant == Spec => []OrderInv
BY OrderInit, OrderStep, PTL DEF Spec

\* The ring holds messages that were put, the most urgent first, for any
\* number of threads, any priorities and any size, also while a scan shifts
\* messages under the mutex and tokens move outside it.
THEOREM MessagesOrdered == Spec => []PriorityOrdered
<1>1. OrderInv => PriorityOrdered
  BY DEF OrderInv
<1> QED
  BY <1>1, OrderInvariant, PTL

-----------------------------------------------------------------------------
(* The scan ends, and it looks like one step. *)

\* A scan passes one message with every iteration, nobody else moves it or what
\* is stored, and it has no more messages before it than there are.
ScanAdvances ==
    \A t \in Producers : pc[t] = "put_scan" =>
        /\ Offset(ins[t]) \in 0 .. Filled
        /\ PutShift(t) => Offset(ins[t])' = Offset(ins[t]) - 1
        /\ pc'[t] = "put_scan" => /\ Contents' = Contents
                                  /\ Offset(ins[t])' <= Offset(ins[t])
                                  /\ ~ PutShift(t) => Offset(ins[t])' = Offset(ins[t])

LEMMA ScanStep == OrderInv /\ OrderInv' /\ [Next]_vars => ScanAdvances
<1> SUFFICES ASSUME OrderInv, OrderInv', [Next]_vars,
                    NEW t \in Producers, pc[t] = "put_scan"
             PROVE  /\ Offset(ins[t]) \in 0 .. Filled
                    /\ PutShift(t) => Offset(ins[t])' = Offset(ins[t]) - 1
                    /\ pc'[t] = "put_scan" =>
                          /\ Contents' = Contents
                          /\ Offset(ins[t])' <= Offset(ins[t])
                          /\ ~ PutShift(t) => Offset(ins[t])' = Offset(ins[t])
  BY DEF ScanAdvances
<1> USE ThreadSets
<1>0. QueueInv /\ QueueInv' /\ Scanned
  BY DEF OrderInv
<1>1. /\ Filled \in Nat /\ Offset(ins[t]) \in 0 .. Filled
      /\ mutex = t /\ mutex # None /\ At({"idle"}) # Threads /\ msg_count # 0
  <2>1. mutex = t /\ mutex # None /\ Filled \in Nat
    BY <1>0, GapIs, ThreadsAssumption DEF QueueInv
  <2>2. msg_count # 0 /\ At({"idle"}) # Threads
    BY <1>0 DEF QueueInv, TypeOK, At
  <2>3. Offset(ins[t]) \in 0 .. msg_count - 1
    BY <1>0, <2>2, OffsetIs DEF QueueInv, TypeOK
  <2>4. Offset(ins[t]) <= Filled
    BY <1>0 DEF Scanned
  <2>5. Offset(ins[t]) \in Nat
    BY <1>0, <2>3 DEF QueueInv, TypeOK
  <2> QED
    BY <2>1, <2>2, <2>4, <2>5
<1>2. PutShift(t) => /\ Offset(ins[t])' = Offset(ins[t]) - 1
                     /\ Contents' = Contents
  BY <1>0, PutShiftEffect
<1>3. ASSUME pc'[t] = "put_scan", ~ PutShift(t)
      PROVE  Contents' = Contents /\ Offset(ins[t])' = Offset(ins[t])
  <2>1. CASE TokenStep
    BY <1>0, <2>1, TokenStepEffect DEF Offset
  <2>2. ASSUME NEW u \in Producers, PutLock(u) \/ PutShift(u) \/ PutInsert(u)
        PROVE  FALSE
    <3>1. CASE PutLock(u)
      BY <1>1, <3>1 DEF PutLock
    <3>2. CASE PutShift(u)
      BY <1>0, <1>1, <1>3, <3>2, PutShiftEffect
    <3>3. CASE PutInsert(u)
      <4>1. u = t
        BY <1>0, <1>1, <3>3 DEF PutInsert, QueueInv, MutexHeld
      <4> QED
        BY <1>0, <1>3, <3>3, <4>1 DEF PutInsert, QueueInv, TypeOK
    <3> QED
      BY <2>2, <3>1, <3>2, <3>3
  <2>3. ASSUME NEW u \in Consumers, NEW wantsPrio \in BOOLEAN, GetCopy(u, wantsPrio)
        PROVE  FALSE
    BY <1>0, <1>1, <2>3 DEF GetCopy, QueueInv, MutexHeld
  <2>4. ASSUME Delete \/ \E n \in 1 .. SemValueMax : New(n)
        PROVE  FALSE
    BY <1>1, <2>4 DEF Delete, New
  <2>5. CASE UNCHANGED vars
    <3>1. Filled' = Filled /\ Gap' = Gap /\ Offset(ins[t])' = Offset(ins[t])
      BY <2>5 DEF vars, tokens, ring, Filled, Gap, Offset, Unposted, Emptying, At
    <3>2. Contents' = Contents
      BY <1>0, <2>5, <3>1, Untouched DEF vars, tokens, ring, QueueInv
    <3> QED
      BY <3>1, <3>2
  <2> QED
    BY <2>1, <2>2, <2>3, <2>4, <2>5, Kinds
<1> QED
  BY <1>1, <1>2, <1>3

\* The loop of line 154 ends after at most as many iterations as there are
\* messages, although other threads go on beside it, and what is stored is the
\* same until it ends: to everybody else the insertion is one step.
THEOREM ScansEnd == Spec => [][ScanAdvances]_vars
<1>1. OrderInv /\ OrderInv' /\ [Next]_vars => ScanAdvances
  BY ScanStep
<1> QED
  BY <1>1, OrderInvariant, PTL DEF Spec

-----------------------------------------------------------------------------
(* Refinement: each step of the ring is a step of the priority queue that   *)
(* the callers see, or none.                                                *)

\* What the callers have in hand.
Pending == [t \in Producers |-> arg[t]]
Received == [t \in Consumers |-> box[t]]

\* Inserted is what the abstract queue does to its sequence.
LEMMA InsertedIsInsertAt ==
    ASSUME NEW S, NEW q \in Seq(S), NEW e \in S, NEW k \in 0 .. Len(q)
    PROVE  PQ!InsertAt(q, k + 1, e) = Inserted(q, Len(q), k, e)
<1> DEFINE front == SubSeq(q, 1, k)
           first == front \o <<e>>
           rest == SubSeq(q, k + 1, Len(q))
           len == Len(q)
<1>1. PQ!InsertAt(q, k + 1, e) = first \o rest
  <2>1. (k + 1) - 1 = k
    OBVIOUS
  <2> QED
    BY <2>1 DEF PQ!InsertAt
<1>2. /\ len \in Nat
      /\ front \in Seq(S) /\ Len(front) = k /\ \A i \in 1 .. k : front[i] = q[i]
      /\ rest \in Seq(S) /\ Len(rest) = len - k
      /\ \A i \in 1 .. len - k : rest[i] = q[k + i]
  BY SubSeqProperties
<1> HIDE DEF front, rest
<1>3. /\ first \in Seq(S) /\ Len(first) = k + 1
      /\ \A i \in 1 .. k : first[i] = q[i]
      /\ first[k + 1] = e
  <2>1. <<e>> \in Seq(S) /\ Len(<<e>>) = 1 /\ <<e>>[1] = e
    OBVIOUS
  <2> QED
    BY <1>2, <2>1, ConcatProperties
<1> HIDE DEF first
<1> DEFINE r == first \o rest
<1>4. /\ r \in Seq(S) /\ Len(r) = Len(first) + Len(rest)
      /\ \A i \in 1 .. Len(first) + Len(rest) :
            r[i] = IF i <= Len(first) THEN first[i] ELSE rest[i - Len(first)]
  BY <1>2, <1>3, ConcatProperties
<1> HIDE DEF r, len
<1>5. len \in Nat /\ k \in 0 .. len /\ len = Len(q)
  BY <1>2 DEF len
<1>6. ASSUME NEW i \in 1 .. len + 1
      PROVE  r[i] = IF i <= k THEN q[i] ELSE IF i = k + 1 THEN e ELSE q[i - 1]
  <2>1. r[i] = IF i <= k + 1 THEN first[i] ELSE rest[i - (k + 1)]
    <3>1. Len(first) = k + 1 /\ i \in 1 .. Len(first) + Len(rest)
      BY <1>2, <1>3, <1>5
    <3> QED
      BY <1>4, <3>1
  <2>2. CASE i <= k + 1
    BY <1>3, <1>5, <2>1, <2>2
  <2>3. CASE i > k + 1
    <3>1. i - (k + 1) \in 1 .. len - k /\ k + (i - (k + 1)) = i - 1
      BY <1>5, <2>3
    <3> QED
      BY <1>2, <1>5, <2>1, <2>3, <3>1
  <2> QED
    BY <1>5, <2>2, <2>3
<1>7. Len(r) = len + 1
  BY <1>2, <1>3, <1>4, <1>5
<1>8. r = [i \in 1 .. len + 1 |-> r[i]]
  BY <1>4, <1>7
<1>9. r = Inserted(q, len, k, e)
  BY <1>6, <1>8 DEF Inserted
<1> QED
  BY <1>1, <1>5, <1>9 DEF r

\* Taking the first message away is what the abstract queue does.
LEMMA TailIs ==
    ASSUME NEW S, NEW q \in Seq(S), Len(q) \in Nat \ {0}
    PROVE  /\ q # <<>> /\ Head(q) = q[1]
           /\ Tail(q) = [i \in 1 .. Len(q) - 1 |-> q[i + 1]]
<1>1. q # <<>>
  BY EmptySeq
<1>2. /\ Head(q) = q[1] /\ Tail(q) \in Seq(S) /\ Len(Tail(q)) = Len(q) - 1
      /\ \A i \in 1 .. Len(Tail(q)) : Tail(q)[i] = q[i + 1]
  BY <1>1, HeadTailProperties
<1>3. Tail(q) = [i \in 1 .. Len(q) - 1 |-> Tail(q)[i]]
  BY <1>2, LenProperties
<1> QED
  BY <1>1, <1>2, <1>3

\* The initial state is the abstract one.
LEMMA AbstractInit == Init => PQ!Init
<1> SUFFICES ASSUME Init PROVE PQ!Init
  OBVIOUS
<1> USE ThreadSets
<1>1. Contents = <<>>
  <2>1. Filled = 0
    BY IdleCounts, FilledIs DEF Init
  <2>2. TypeOK /\ MutexHeld
    BY TypeInit, ThreadsAssumption DEF Init, MutexHeld
  <2> QED
    BY <2>1, <2>2, ContentsAre, StoredNone
<1>2. Pending = [t \in Producers |-> None] /\ Received = [t \in Consumers |-> None]
  BY DEF Init, Pending, Received
<1> QED
  BY <1>1, <1>2 DEF Init, PQ!Init, Pending, Received

\* Every step is an abstract one or changes nothing the callers see.
LEMMA AbstractStep == OrderInv /\ OrderInv' /\ [Next]_vars => [PQ!Next]_(PQ!vars)
<1> SUFFICES ASSUME OrderInv, OrderInv', [Next]_vars PROVE PQ!Next \/ UNCHANGED PQ!vars
  OBVIOUS
<1> USE ThreadSets
<1>0. /\ QueueInv /\ QueueInv' /\ PriorityOrdered /\ Scanned /\ Carried
      /\ DOMAIN pc = Threads /\ DOMAIN arg = Threads /\ DOMAIN box = Threads
      /\ Filled \in Nat /\ Contents \in Seq(Messages) /\ Len(Contents) = Filled
  BY ContentsType DEF OrderInv, QueueInv, TypeOK
<1>s. UNCHANGED PQ!vars <=> UNCHANGED <<msg_count, Contents, Pending, Received>>
  BY DEF PQ!vars, Pending, Received
<1>1. ASSUME TokenStep
      PROVE  PQ!Next \/ UNCHANGED PQ!vars
  <2>0. Contents' = Contents /\ msg_count' = msg_count
    BY <1>0, <1>1, TokenStepEffect
  <2>1. ASSUME NEW t \in Producers, NEW e \in Messages, NEW finite \in BOOLEAN,
               PutCall(t, e, finite)
        PROVE  PQ!Offer(t, e)
    <3>1. Pending[t] = None /\ Pending' = [Pending EXCEPT ![t] = e] /\ Received' = Received
      BY <1>0, <2>1 DEF PutCall, Carried, Pending, Received
    <3> QED
      BY <2>0, <2>1, <3>1 DEF PutCall, PQ!Offer, Pending, Received
  <2>2. ASSUME NEW t \in Producers, PutFail(t)
        PROVE  PQ!Withdraw(t)
    <3>1. arg[t] # None
      <4>1. arg[t] \in Messages
        BY <1>0, <2>2 DEF PutFail, QueueInv, TypeOK
      <4> QED
        BY <4>1, MessagesAssumption DEF Messages
    <3>2. Pending[t] # None /\ Pending' = [Pending EXCEPT ![t] = None] /\ Received' = Received
      BY <1>0, <2>2, <3>1 DEF PutFail, Pending, Received
    <3> QED
      BY <2>0, <3>2 DEF PQ!Withdraw, Pending, Received
  <2>3. ASSUME NEW t \in Consumers, GetPost(t)
        PROVE  PQ!Consume(t)
    <3>1. Received[t] # None /\ Received' = [Received EXCEPT ![t] = None] /\ Pending' = Pending
      BY <1>0, <2>3 DEF GetPost, Carried, Pending, Received
    <3> QED
      BY <2>0, <3>1 DEF PQ!Consume, Pending, Received
  <2>4. ASSUME NEW t \in Threads,
               PutWake(t) \/ PutPost(t) \/ (\E finite \in BOOLEAN : GetCall(t, finite))
                  \/ GetWake(t) \/ GetFail(t) \/ GetLock(t)
        PROVE  UNCHANGED PQ!vars
    <3>1. arg' = arg /\ box' = box
      BY <2>4 DEF PutWake, PutPost, GetCall, GetWake, GetFail, GetLock
    <3> QED
      BY <1>s, <2>0, <3>1 DEF Pending, Received
  <2> QED
    BY <1>1, <2>1, <2>2, <2>3, <2>4 DEF TokenStep, PQ!Next, Messages, PQ!Messages
<1>2. ASSUME NEW t \in Producers, PutLock(t) \/ PutShift(t)
      PROVE  UNCHANGED PQ!vars
  <2>1. Contents' = Contents /\ msg_count' = msg_count
    BY <1>0, <1>2, PutLockEffect, PutShiftEffect
  <2>2. arg' = arg /\ box' = box
    BY <1>2 DEF PutLock, PutShift
  <2> QED
    BY <1>s, <2>1, <2>2 DEF Pending, Received
<1>3. ASSUME NEW t \in Producers, PutInsert(t)
      PROVE  PQ!Store(t)
  <2>1. /\ Gap \in 0 .. Filled /\ Filled < msg_count /\ msg_count' = msg_count
        /\ arg[t] \in Messages
        /\ Contents' = Inserted(Contents, Filled, Gap, arg[t])
    BY <1>0, <1>3, PutInsertEffect
  <2>2. arg[t] # None
    BY <2>1, MessagesAssumption DEF Messages
  <2>3. /\ Pending[t] = arg[t] /\ Pending' = [Pending EXCEPT ![t] = None]
        /\ Received' = Received
    BY <1>0, <1>3 DEF PutInsert, Pending, Received
  <2>4. PQ!Belongs(arg[t], Contents, Gap)
    <3>1. DOMAIN Contents = 1 .. Filled
      BY <1>0
    <3> QED
      BY <1>3, <3>1, Fits DEF PQ!Belongs
  <2>5. Contents' = PQ!InsertAt(Contents, Gap + 1, arg[t])
    BY <1>0, <2>1, InsertedIsInsertAt
  <2> QED
    BY <1>0, <2>1, <2>2, <2>3, <2>4, <2>5 DEF PQ!Store, Pending, Received
<1>4. ASSUME NEW t \in Consumers, NEW wantsPrio \in BOOLEAN, GetCopy(t, wantsPrio)
      PROVE  PQ!Receive(t, wantsPrio)
  <2> DEFINE m == [msg  |-> buffer[head],
                   prio |-> IF wantsPrio THEN priorities[head] ELSE None]
  <2>1. /\ Filled \in 1 .. msg_count /\ msg_count' = msg_count
        /\ Contents' = [i \in 1 .. Filled - 1 |-> Contents[i + 1]]
        /\ Contents[1] = [msg |-> buffer[head], prio |-> priorities[head]]
    BY <1>0, <1>4, GetCopyEffect
  <2>2. /\ Received[t] = None /\ Received' = [Received EXCEPT ![t] = m]
        /\ Pending' = Pending
    BY <1>0, <1>4 DEF GetCopy, Carried, Pending, Received
  <2>3. Contents # <<>> /\ Head(Contents) = Contents[1] /\ Tail(Contents) = Contents'
    <3>1. Len(Contents) \in Nat \ {0}
      BY <1>0, <2>1
    <3> QED
      BY <1>0, <2>1, <3>1, TailIs
  <2>4. [Head(Contents) EXCEPT !.prio = IF wantsPrio THEN @ ELSE None] = m
    BY <2>1, <2>3
  <2> HIDE DEF m
  <2> QED
    BY <2>1, <2>2, <2>3, <2>4 DEF PQ!Receive, Pending, Received
<1>5. ASSUME NEW n \in 1 .. SemValueMax, New(n)
      PROVE  PQ!Create(n)
  <2>1. Contents' = <<>>
    BY <1>0, <1>5, NewDeleteEffect
  <2>2. Contents = <<>>
    <3>1. msg_count = 0
      BY <1>5 DEF New
    <3>2. Filled = 0
      BY <1>0, <3>1, FilledIs DEF QueueInv, RingInv, TypeOK
    <3> QED
      BY <1>0, <3>2
  <2> QED
    BY <1>5, <2>1, <2>2 DEF New, PQ!Create
<1>6. ASSUME Delete
      PROVE  PQ!Destroy
  <2>1. Contents' = <<>>
    BY <1>0, <1>6, NewDeleteEffect
  <2>2. \A t \in Threads : arg[t] = None
    BY <1>0, <1>6 DEF Delete, At, Carried
  <2>3. \A t \in Producers : Pending[t] = None
    BY <2>2 DEF Pending
  <2> QED
    BY <1>6, <2>1, <2>3 DEF Delete, PQ!Destroy, Pending
<1>7. ASSUME UNCHANGED vars
      PROVE  UNCHANGED PQ!vars
  <2>1. Contents' = Contents
    BY <1>7 DEF vars, ring, tokens, Contents, Filled, Unposted, Emptying, At, Offset
  <2> QED
    BY <1>7, <1>s, <2>1 DEF vars, Pending, Received
<1> QED
  BY <1>1, <1>2, <1>3, <1>4, <1>5, <1>6, <1>7, Kinds DEF PQ!Next

\* A queue built from two semaphores, a mutex and a ring is, for its callers,
\* the bounded priority queue: with any number of threads, any messages and
\* any size, no message is lost, duplicated, altered or overtaken by one that
\* is not more urgent, and the capacity is never exceeded.
THEOREM Refinement == Spec => ImplementsPriorityQueue
<1>1. OrderInv /\ [Next]_vars => OrderInv'
  BY OrderStep
<1> QED
  BY <1>1, OrderInvariant, AbstractInit, AbstractStep, PTL
     DEF Spec, ImplementsPriorityQueue, PQ!Spec

\* All of this holds with New and Delete part by part: what run mq checks on
\* small rings holds for every ring.
THEOREM DetailedQueueIsCorrect ==
    CSpec => /\ [](TypeOK /\ TokenConservation /\ MutexHeld /\ RingMatchesTokens)
             /\ [](PriorityOrdered /\ NothingLeft)
             /\ ImplementsPriorityQueue
BY CreationIsCovered, NothingIsLeft, TypeCorrect, TokensConserved, MutualExclusion,
   RingAgreesWithTokens, MessagesOrdered, Refinement, PTL
=============================================================================
