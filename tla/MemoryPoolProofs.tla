-------------------------- MODULE MemoryPoolProofs --------------------------
(* Proofs about MemoryPool for any clients and any number of blocks that     *)
(* sem_init accepts.                                                         *)
EXTENDS MemoryPoolCreation, Counting

-----------------------------------------------------------------------------
(* Types, and what a call has in hand. *)

\* Each call has a block in hand exactly while it is between finding it, or
\* being given it, and marking or clearing its flag; and the mutex names the
\* one call that looks at the flags.
InHand ==
    /\ \A t \in Threads :
          /\ pc[t] \in {"alloc_scan", "alloc_mark", "free_scan"} <=> mutex = t
          /\ pc[t] \notin {"alloc_mark", "free_lock", "free_scan"} => block[t] = None
          /\ pc[t] = "alloc_mark" => block[t] \in Blocks \ Used

\* TypeOK needs to know that idle threads hold no block of a deleted pool.
TypeInv == TypeOK /\ InHand

\* Before a pool is created there is nothing.
LEMMA TypeInit == Init => TypeInv
BY WordAssumption, ThreadsAssumption DEF Init, Idle, TypeInv, TypeOK, InHand, At, Blocks

\* Every operation keeps the types and what calls have in hand.
LEMMA TypeStep == TypeInv /\ [Next]_vars => TypeInv'
<1> SUFFICES ASSUME TypeOK, InHand, [Next]_vars PROVE TypeOK' /\ InHand'
  BY DEF TypeInv
<1> USE WordAssumption, ThreadsAssumption, BlockCountsAssumption, StrayAssumption
<1>1. ASSUME NEW n \in BlockCounts, New(n)
      PROVE  TypeOK' /\ InHand'
  <2>1. pc' = [t \in Threads |-> "idle"] /\ block_count' = n /\ mutex' = None /\ block' = block
    BY <1>1 DEF New, TypeOK, Idle
  <2>2. \A t \in Threads : block[t] = None
    BY <1>1, <2>1 DEF New, InHand
  <2> QED
    BY <1>1, <2>1, <2>2 DEF New, TypeOK, InHand, Idle, At, Blocks, Used
<1>2. CASE Delete
  <2>1. \A t \in Threads : pc[t] = "idle" /\ block[t] = None
    BY <1>2 DEF Delete, Idle, InHand
  <2> QED
    BY <1>2, <2>1 DEF Delete, TypeOK, InHand, Idle, At, Blocks, Used
<1>3. ASSUME NEW t \in Threads, NEW finite \in BOOLEAN, AllocCall(t, finite)
      PROVE  TypeOK' /\ InHand'
  <2>1. CASE sem > 0 /\ sem' = sem - 1 /\ pc' = [pc EXCEPT ![t] = "alloc_lock"] /\ timed' = timed
    BY <1>3, <2>1 DEF AllocCall, TypeOK, InHand, Idle, At, Blocks, Used
  <2>2. CASE sem' = sem /\ pc' = [pc EXCEPT ![t] = "alloc_wait"]
             /\ timed' = [timed EXCEPT ![t] = finite]
    BY <1>3, <2>2 DEF AllocCall, TypeOK, InHand, Idle, At, Blocks, Used
  <2> QED
    BY <1>3, <2>1, <2>2 DEF AllocCall
<1>4. ASSUME NEW t \in Threads, AllocWake(t)
      PROVE  TypeOK' /\ InHand'
  BY <1>4 DEF AllocWake, TypeOK, InHand, Idle, At, Blocks, Used
<1>5. ASSUME NEW t \in Threads, AllocFail(t)
      PROVE  TypeOK' /\ InHand'
  BY <1>5 DEF AllocFail, TypeOK, InHand, Idle, At, Blocks, Used
<1>6. ASSUME NEW t \in Threads, AllocLock(t)
      PROVE  TypeOK' /\ InHand'
  BY <1>6 DEF AllocLock, TypeOK, InHand, Idle, At, Blocks, Used
<1>7. ASSUME NEW t \in Threads, AllocScan(t)
      PROVE  TypeOK' /\ InHand'
  <2>1. ASSUME NEW b \in Blocks \ Used, block' = [block EXCEPT ![t] = b],
               pc' = [pc EXCEPT ![t] = "alloc_mark"], mutex' = mutex
        PROVE  TypeOK' /\ InHand'
    BY <1>7, <2>1 DEF AllocScan, TypeOK, InHand, Idle, At, Blocks, Used
  <2>2. CASE mutex' = None /\ pc' = [pc EXCEPT ![t] = "idle"] /\ block' = block
    BY <1>7, <2>2 DEF AllocScan, TypeOK, InHand, Idle, At, Blocks, Used
  <2> QED
    BY <1>7, <2>1, <2>2 DEF AllocScan
<1>8. ASSUME NEW t \in Threads, AllocMark(t)
      PROVE  TypeOK' /\ InHand'
  BY <1>8 DEF AllocMark, TypeOK, InHand, Idle, At, Blocks, Used
<1>9. ASSUME NEW t \in Threads, NEW b \in Blocks \cup {Stray}, FreeCall(t, b)
      PROVE  TypeOK' /\ InHand'
  BY <1>9 DEF FreeCall, TypeOK, InHand, Idle, At, Blocks, Used
<1>10. ASSUME NEW t \in Threads, FreeLock(t)
       PROVE  TypeOK' /\ InHand'
  BY <1>10 DEF FreeLock, TypeOK, InHand, Idle, At, Blocks, Used
<1>11. ASSUME NEW t \in Threads, FreeScan(t)
       PROVE  TypeOK' /\ InHand'
  <2>1. CASE /\ used_flags' = [used_flags EXCEPT ![block[t]] = FALSE]
             /\ pc' = [pc EXCEPT ![t] = "free_post"]
    BY <1>11, <2>1 DEF FreeScan, TypeOK, InHand, Idle, At, Blocks, Used
  <2>2. CASE used_flags' = used_flags /\ pc' = [pc EXCEPT ![t] = "idle"]
    BY <1>11, <2>2 DEF FreeScan, TypeOK, InHand, Idle, At, Blocks, Used
  <2> QED
    BY <1>11, <2>1, <2>2 DEF FreeScan
<1>12. ASSUME NEW t \in Threads, FreePost(t)
       PROVE  TypeOK' /\ InHand'
  BY <1>12 DEF FreePost, SemPost, TypeOK, InHand, Idle, At, Blocks, Used
<1>13. CASE UNCHANGED vars
  BY <1>13 DEF vars, TypeOK, InHand, Idle, At, Blocks, Used
<1> QED
  BY <1>1, <1>2, <1>3, <1>4, <1>5, <1>6, <1>7, <1>8, <1>9, <1>10, <1>11, <1>12, <1>13
     DEF Next

\* Values keep their types whatever the clients pass to Free, and no call
\* outlives the pool.
THEOREM TypeCorrect == Spec => []TypeOK
<1>1. TypeInv => TypeOK
  BY DEF TypeInv
<1> QED
  BY <1>1, TypeInit, TypeStep, PTL DEF Spec

-----------------------------------------------------------------------------
(* Blocks and tokens. *)

NAllocating == Cardinality(Among(Threads, pc, {"alloc_lock", "alloc_scan", "alloc_mark"}))
NFreed == Cardinality(Among(Threads, pc, {"free_post"}))
NUsed == Cardinality(Used)

\* BlockConservation as arithmetic on the three counts.
Conserved ==
    /\ NAllocating \in Nat /\ NFreed \in Nat
    /\ sem + NAllocating + NUsed + NFreed = block_count

\* The sets of calls that are counted are finite.
LEMMA CountsAreNatural == NAllocating \in Nat /\ NFreed \in Nat
BY ThreadsAssumption, AmongFinite DEF NAllocating, NFreed

\* The blocks in use can be counted, and are all blocks only when there are
\* block_count of them.
LEMMA UsedIsFinite ==
    ASSUME TypeOK
    PROVE  /\ IsFiniteSet(Used) /\ NUsed \in Nat
           /\ Used = Blocks => NUsed = block_count
           /\ Cardinality(Blocks \ Used) = block_count - NUsed
<1>1. block_count \in Nat
  BY BlockCountsAssumption, WordAssumption DEF TypeOK
<1>2. IsFiniteSet(Blocks) /\ Cardinality(Blocks) = block_count
  BY <1>1, FS_Interval DEF Blocks
<1>3. Used \subseteq Blocks
  BY DEF Used
<1>4. Cardinality(Blocks \ Used) = block_count - NUsed
  <2>1. Cardinality(Blocks \ Used) = Cardinality(Blocks) - Cardinality(Blocks \cap Used)
    BY <1>2, FS_Difference
  <2>2. Blocks \cap Used = Used
    BY <1>3
  <2> QED
    BY <1>2, <2>1, <2>2 DEF NUsed
<1> QED
  BY <1>2, <1>3, <1>4, FS_Subset, FS_CardinalityType DEF NUsed

\* Conserved is what the property says.
LEMMA ConservedMeaning == TypeOK /\ Conserved => BlockConservation
<1> SUFFICES ASSUME TypeOK, Conserved PROVE BlockConservation
  OBVIOUS
<1>1. /\ Cardinality(Allocating) = NAllocating /\ Cardinality(Used) = NUsed
      /\ Cardinality(At({"free_post"})) = NFreed
  BY DEF Allocating, At, Among, NAllocating, NFreed, NUsed
<1>2. /\ NUsed \in Nat /\ Cardinality(Blocks \ Used) = block_count - NUsed
      /\ sem \in Nat /\ block_count \in Nat
  BY UsedIsFinite, BlockCountsAssumption, WordAssumption DEF TypeOK
<1> QED
  BY <1>1, <1>2 DEF Conserved, BlockConservation, osMemoryPoolGetCount, osMemoryPoolGetSpace

\* Without calls in flight there is nothing to count.
LEMMA IdleCounts == Idle => NAllocating = 0 /\ NFreed = 0
BY AmongNone DEF Idle, NAllocating, NFreed

\* How a step of thread t from label at to label to changes the counts.
LEMMA CountStep ==
    ASSUME NEW t \in Threads, NEW at, NEW to, Moves(Threads, pc, pc', t, at, to)
    PROVE  /\ NAllocating' \in Nat /\ NFreed' \in Nat
           /\ NAllocating' = NAllocating
                                + Inside(to, {"alloc_lock", "alloc_scan", "alloc_mark"})
                                - Inside(at, {"alloc_lock", "alloc_scan", "alloc_mark"})
           /\ NFreed' = NFreed + Inside(to, {"free_post"}) - Inside(at, {"free_post"})
<1>1. pc[t] = at /\ pc'[t] = to /\ \A u \in Threads \ {t} : pc'[u] = pc[u]
  BY DEF Moves
<1>2. ASSUME NEW labels
      PROVE  LET old == Cardinality(Among(Threads, pc, labels))
                 new == Cardinality(Among(Threads, pc', labels))
             IN  new \in Nat /\ new = old + Inside(to, labels) - Inside(at, labels)
  BY <1>1, ThreadsAssumption, AmongStep
<1> QED
  BY <1>2 DEF NAllocating, NFreed

\* A call of Alloc that got its token finds an unused block.
LEMMA TokenFindsBlock ==
    ASSUME TypeOK, Conserved, NEW t \in Threads,
           pc[t] \in {"alloc_lock", "alloc_scan", "alloc_mark"}
    PROVE  Used # Blocks
<1> DEFINE A == Among(Threads, pc, {"alloc_lock", "alloc_scan", "alloc_mark"})
<1>1. IsFiniteSet(A) /\ t \in A
  BY ThreadsAssumption, AmongFinite DEF Among
<1>2. NAllocating # 0
  BY <1>1, FS_EmptySet DEF NAllocating
<1>3. sem \in Nat /\ NUsed \in Nat
  BY UsedIsFinite DEF TypeOK
<1> QED
  BY <1>2, <1>3, UsedIsFinite DEF Conserved

\* Every operation keeps the sum, whatever the clients pass to Free.
LEMMA ConservedStep == TypeInv /\ Conserved /\ [Next]_vars => Conserved'
<1> SUFFICES ASSUME TypeOK, InHand, Conserved, [Next]_vars PROVE Conserved'
  BY DEF TypeInv
<1> USE WordAssumption, BlockCountsAssumption
<1>t. /\ sem \in 0 .. SemValueMax /\ block_count \in 0 .. SemValueMax
      /\ NAllocating \in Nat /\ NFreed \in Nat /\ NUsed \in Nat /\ IsFiniteSet(Used)
      /\ sem + NAllocating + NUsed + NFreed = block_count
  BY UsedIsFinite DEF TypeOK, Conserved
<1>1. ASSUME NEW n \in BlockCounts, New(n)
      PROVE  Conserved'
  <2>1. NAllocating' = 0 /\ NFreed' = 0
    BY <1>1, IdleCounts DEF New, TypeOK, NAllocating, NFreed
  <2>2. Used' = {}
    BY <1>1 DEF New, Used, Blocks
  <2>3. NUsed' = 0
    BY <2>2, FS_EmptySet DEF NUsed
  <2> QED
    BY <1>1, <2>1, <2>3 DEF New, Conserved
<1>2. CASE Delete
  <2>1. NAllocating' = 0 /\ NFreed' = 0
    BY <1>2, IdleCounts DEF Delete, NAllocating, NFreed
  <2>2. Used' = {}
    BY <1>2 DEF Delete, Used, Blocks
  <2>3. NUsed' = 0
    BY <2>2, FS_EmptySet DEF NUsed
  <2> QED
    BY <1>2, <2>1, <2>3 DEF Delete, Conserved
<1>3. ASSUME NEW t \in Threads, NEW finite \in BOOLEAN, AllocCall(t, finite)
      PROVE  Conserved'
  <2>u. NUsed' = NUsed
    BY <1>3 DEF AllocCall, NUsed, Used, Blocks
  <2>1. CASE sem > 0 /\ sem' = sem - 1 /\ pc' = [pc EXCEPT ![t] = "alloc_lock"]
    <3>1. Moves(Threads, pc, pc', t, "idle", "alloc_lock")
      BY <1>3, <2>1 DEF AllocCall, TypeOK, Moves
    <3>2. /\ NAllocating' = NAllocating + 1 /\ NFreed' = NFreed
          /\ NAllocating' \in Nat /\ NFreed' \in Nat
      BY <1>t, <3>1, CountStep DEF Inside
    <3> QED
      BY <1>3, <1>t, <2>u, <2>1, <3>2 DEF AllocCall, Conserved
  <2>2. CASE sem' = sem /\ pc' = [pc EXCEPT ![t] = "alloc_wait"]
    <3>1. Moves(Threads, pc, pc', t, "idle", "alloc_wait")
      BY <1>3, <2>2 DEF AllocCall, TypeOK, Moves
    <3>2. /\ NAllocating' = NAllocating /\ NFreed' = NFreed
          /\ NAllocating' \in Nat /\ NFreed' \in Nat
      BY <1>t, <3>1, CountStep DEF Inside
    <3> QED
      BY <1>3, <1>t, <2>u, <2>2, <3>2 DEF AllocCall, Conserved
  <2> QED
    BY <1>3, <2>1, <2>2 DEF AllocCall
<1>4. ASSUME NEW t \in Threads, AllocWake(t)
      PROVE  Conserved'
  <2>1. Moves(Threads, pc, pc', t, "alloc_wait", "alloc_lock")
    BY <1>4 DEF AllocWake, TypeOK, Moves
  <2>2. /\ NAllocating' = NAllocating + 1 /\ NFreed' = NFreed
        /\ NAllocating' \in Nat /\ NFreed' \in Nat
    BY <1>t, <2>1, CountStep DEF Inside
  <2>3. NUsed' = NUsed
    BY <1>4 DEF AllocWake, NUsed, Used, Blocks
  <2> QED
    BY <1>4, <1>t, <2>2, <2>3 DEF AllocWake, Conserved
<1>5. ASSUME NEW t \in Threads, AllocFail(t)
      PROVE  Conserved'
  <2>1. Moves(Threads, pc, pc', t, "alloc_wait", "idle")
    BY <1>5 DEF AllocFail, TypeOK, Moves
  <2>2. /\ NAllocating' = NAllocating /\ NFreed' = NFreed
        /\ NAllocating' \in Nat /\ NFreed' \in Nat
    BY <1>t, <2>1, CountStep DEF Inside
  <2>3. NUsed' = NUsed
    BY <1>5 DEF AllocFail, NUsed, Used, Blocks
  <2> QED
    BY <1>5, <1>t, <2>2, <2>3 DEF AllocFail, Conserved
<1>6. ASSUME NEW t \in Threads, AllocLock(t)
      PROVE  Conserved'
  <2>1. Moves(Threads, pc, pc', t, "alloc_lock", "alloc_scan")
    BY <1>6 DEF AllocLock, TypeOK, Moves
  <2>2. /\ NAllocating' = NAllocating /\ NFreed' = NFreed
        /\ NAllocating' \in Nat /\ NFreed' \in Nat
    BY <1>t, <2>1, CountStep DEF Inside
  <2>3. NUsed' = NUsed
    BY <1>6 DEF AllocLock, NUsed, Used, Blocks
  <2> QED
    BY <1>6, <1>t, <2>2, <2>3 DEF AllocLock, Conserved
<1>7. ASSUME NEW t \in Threads, AllocScan(t)
      PROVE  Conserved'
  <2>1. Used # Blocks
    BY <1>7, TokenFindsBlock DEF AllocScan
  <2>2. Moves(Threads, pc, pc', t, "alloc_scan", "alloc_mark")
    BY <1>7, <2>1 DEF AllocScan, TypeOK, Moves
  <2>3. /\ NAllocating' = NAllocating /\ NFreed' = NFreed
        /\ NAllocating' \in Nat /\ NFreed' \in Nat
    BY <1>t, <2>2, CountStep DEF Inside
  <2>4. NUsed' = NUsed
    BY <1>7 DEF AllocScan, NUsed, Used, Blocks
  <2> QED
    BY <1>7, <1>t, <2>3, <2>4 DEF AllocScan, Conserved
<1>8. ASSUME NEW t \in Threads, AllocMark(t)
      PROVE  Conserved'
  <2>1. Moves(Threads, pc, pc', t, "alloc_mark", "idle")
    BY <1>8 DEF AllocMark, TypeOK, Moves
  <2>2. /\ NAllocating' = NAllocating - 1 /\ NFreed' = NFreed
        /\ NAllocating' \in Nat /\ NFreed' \in Nat
    BY <1>t, <2>1, CountStep DEF Inside
  <2>3. block[t] \in Blocks \ Used
    BY <1>8 DEF AllocMark, InHand
  <2>4. Used' = Used \cup {block[t]}
    BY <1>8, <2>3 DEF AllocMark, TypeOK, Used, Blocks
  <2>5. NUsed' = NUsed + 1
    BY <1>t, <2>3, <2>4, FS_AddElement DEF NUsed
  <2> QED
    BY <1>8, <1>t, <2>2, <2>5 DEF AllocMark, Conserved
<1>9. ASSUME NEW t \in Threads, NEW b \in Blocks \cup {Stray}, FreeCall(t, b)
      PROVE  Conserved'
  <2>1. Moves(Threads, pc, pc', t, "idle", "free_lock")
    BY <1>9 DEF FreeCall, TypeOK, Moves
  <2>2. /\ NAllocating' = NAllocating /\ NFreed' = NFreed
        /\ NAllocating' \in Nat /\ NFreed' \in Nat
    BY <1>t, <2>1, CountStep DEF Inside
  <2>3. NUsed' = NUsed
    BY <1>9 DEF FreeCall, NUsed, Used, Blocks
  <2> QED
    BY <1>9, <1>t, <2>2, <2>3 DEF FreeCall, Conserved
<1>10. ASSUME NEW t \in Threads, FreeLock(t)
      PROVE  Conserved'
  <2>1. Moves(Threads, pc, pc', t, "free_lock", "free_scan")
    BY <1>10 DEF FreeLock, TypeOK, Moves
  <2>2. /\ NAllocating' = NAllocating /\ NFreed' = NFreed
        /\ NAllocating' \in Nat /\ NFreed' \in Nat
    BY <1>t, <2>1, CountStep DEF Inside
  <2>3. NUsed' = NUsed
    BY <1>10 DEF FreeLock, NUsed, Used, Blocks
  <2> QED
    BY <1>10, <1>t, <2>2, <2>3 DEF FreeLock, Conserved
<1>11. ASSUME NEW t \in Threads, FreeScan(t)
       PROVE  Conserved'
  <2>1. CASE block[t] \in Used
    <3>1. Moves(Threads, pc, pc', t, "free_scan", "free_post")
      BY <1>11, <2>1 DEF FreeScan, TypeOK, Moves
    <3>2. /\ NAllocating' = NAllocating /\ NFreed' = NFreed + 1
          /\ NAllocating' \in Nat /\ NFreed' \in Nat
      BY <1>t, <3>1, CountStep DEF Inside
    <3>3. Used' = Used \ {block[t]}
      BY <1>11, <2>1 DEF FreeScan, TypeOK, Used, Blocks
    <3>4. NUsed' = NUsed - 1
      BY <1>t, <2>1, <3>3, FS_RemoveElement DEF NUsed
    <3> QED
      BY <1>11, <1>t, <3>2, <3>4 DEF FreeScan, Conserved
  <2>2. CASE block[t] \notin Used
    <3>1. Moves(Threads, pc, pc', t, "free_scan", "idle")
      BY <1>11, <2>2 DEF FreeScan, TypeOK, Moves
    <3>2. /\ NAllocating' = NAllocating /\ NFreed' = NFreed
          /\ NAllocating' \in Nat /\ NFreed' \in Nat
      BY <1>t, <3>1, CountStep DEF Inside
    <3>3. NUsed' = NUsed
      BY <1>11, <2>2 DEF FreeScan, NUsed, Used, Blocks
    <3> QED
      BY <1>11, <1>t, <3>2, <3>3 DEF FreeScan, Conserved
  <2> QED
    BY <2>1, <2>2
<1>12. ASSUME NEW t \in Threads, FreePost(t)
      PROVE  Conserved'
  <2>1. Moves(Threads, pc, pc', t, "free_post", "idle")
    BY <1>12 DEF FreePost, TypeOK, Moves
  <2>2. /\ NAllocating' = NAllocating /\ NFreed' = NFreed - 1
        /\ NAllocating' \in Nat /\ NFreed' \in Nat
    BY <1>t, <2>1, CountStep DEF Inside
  <2>3. NUsed' = NUsed
    BY <1>12 DEF FreePost, NUsed, Used, Blocks
  <2> QED
    BY <1>12, <1>t, <2>2, <2>3 DEF FreePost, SemPost, Conserved
<1>13. CASE UNCHANGED vars
  BY <1>13 DEF vars, Conserved, NAllocating, NFreed, NUsed, Used, Blocks
<1> QED
  BY <1>1, <1>2, <1>3, <1>4, <1>5, <1>6, <1>7, <1>8, <1>9, <1>10, <1>11, <1>12, <1>13
     DEF Next

\* In the initial state all counts are 0.
LEMMA ConservedInit == Init => Conserved
<1> SUFFICES ASSUME Init PROVE Conserved
  OBVIOUS
<1>1. NAllocating = 0 /\ NFreed = 0
  BY IdleCounts DEF Init
<1>2. Used = {}
  BY DEF Init, Used, Blocks
<1>3. NUsed = 0
  BY <1>2, FS_EmptySet DEF NUsed
<1> QED
  BY <1>1, <1>3 DEF Init, Conserved

\* TypeInv and Conserved are together inductive.
LEMMA PoolInvariant == Spec => [](TypeInv /\ Conserved)
<1>1. Init => TypeInv /\ Conserved
  BY TypeInit, ConservedInit
<1>2. TypeInv /\ Conserved /\ [Next]_vars => (TypeInv /\ Conserved)'
  BY TypeStep, ConservedStep
<1> QED
  BY <1>1, <1>2, PTL DEF Spec

\* Blocks, flags and tokens agree for any number of clients and blocks, whatever
\* is freed twice, by others or was never allocated.
THEOREM BlocksConserved == Spec => []BlockConservation
BY PoolInvariant, ConservedMeaning, PTL DEF TypeInv

\* An Alloc that got past the semaphore never finds all blocks in use.
THEOREM AllocSucceeds == Spec => []AllocFindsBlock
<1>1. TypeInv /\ Conserved => AllocFindsBlock
  BY TokenFindsBlock DEF TypeInv, AllocFindsBlock, At
<1> QED
  BY <1>1, PoolInvariant, PTL

-----------------------------------------------------------------------------
(* Ownership. *)

\* With clients that free only what they own, no block changes hands before
\* its owner has freed it.
LEMMA OwnershipStep ==
    Disciplined /\ TypeInv /\ ExclusiveOwnership /\ [Next]_vars => ExclusiveOwnership'
<1> SUFFICES ASSUME Disciplined, TypeOK, InHand, ExclusiveOwnership, [Next]_vars
             PROVE  ExclusiveOwnership'
  BY DEF TypeInv
<1> USE ThreadsAssumption, StrayAssumption DEF ExclusiveOwnership, At
<1>1. ASSUME NEW n \in BlockCounts, New(n)
      PROVE  ExclusiveOwnership'
  <2>1. pc' = [t \in Threads |-> "idle"]
    BY <1>1 DEF New, TypeOK, Idle
  <2> QED
    BY <1>1, <2>1 DEF New, Blocks
<1>2. CASE Delete
  BY <1>2 DEF Delete, Idle, Blocks
<1>3. ASSUME NEW t \in Threads, NEW finite \in BOOLEAN, AllocCall(t, finite)
      PROVE  ExclusiveOwnership'
  BY <1>3 DEF AllocCall, TypeOK, InHand, Used, Blocks
<1>4. ASSUME NEW t \in Threads, AllocWake(t)
      PROVE  ExclusiveOwnership'
  BY <1>4 DEF AllocWake, TypeOK, InHand, Used, Blocks
<1>5. ASSUME NEW t \in Threads, AllocFail(t)
      PROVE  ExclusiveOwnership'
  BY <1>5 DEF AllocFail, TypeOK, InHand, Used, Blocks
<1>6. ASSUME NEW t \in Threads, AllocLock(t)
      PROVE  ExclusiveOwnership'
  BY <1>6 DEF AllocLock, TypeOK, InHand, Used, Blocks
<1>7. ASSUME NEW t \in Threads, AllocScan(t)
      PROVE  ExclusiveOwnership'
  BY <1>7 DEF AllocScan, TypeOK, InHand, Used, Blocks
<1>8. ASSUME NEW t \in Threads, AllocMark(t)
      PROVE  ExclusiveOwnership'
  BY <1>8 DEF AllocMark, TypeOK, InHand, Used, Blocks
<1>9. ASSUME NEW t \in Threads, NEW b \in Blocks \cup {Stray}, FreeCall(t, b)
      PROVE  ExclusiveOwnership'
  BY <1>9 DEF FreeCall, TypeOK, InHand, Used, Blocks
<1>10. ASSUME NEW t \in Threads, FreeLock(t)
      PROVE  ExclusiveOwnership'
  BY <1>10 DEF FreeLock, TypeOK, InHand, Used, Blocks
<1>11. ASSUME NEW t \in Threads, FreeScan(t)
      PROVE  ExclusiveOwnership'
  <2>1. /\ block' = [block EXCEPT ![t] = None] /\ owner' = owner
        /\ block_count' = block_count /\ pc[t] = "free_scan"
    BY <1>11 DEF FreeScan
  <2>n. None \notin Blocks /\ Stray \notin Blocks /\ Blocks' = Blocks /\ Used \subseteq Blocks
    BY <2>1 DEF Blocks, Used
  <2>2. CASE block[t] \in Used
    <3>1. /\ used_flags' = [used_flags EXCEPT ![block[t]] = FALSE]
          /\ pc' = [pc EXCEPT ![t] = "free_post"]
      BY <1>11, <2>2 DEF FreeScan
    <3>2. Used' = Used \ {block[t]} /\ block[t] # Stray
      BY <2>n, <2>2, <3>1 DEF TypeOK, Used
    <3> QED
      BY <2>1, <2>n, <2>2, <3>1, <3>2 DEF TypeOK
  <2>3. CASE block[t] \notin Used
    <3>1. used_flags' = used_flags /\ pc' = [pc EXCEPT ![t] = "idle"]
      BY <1>11, <2>3 DEF FreeScan
    <3>2. Used' = Used
      BY <2>n, <3>1 DEF Used
    <3> QED
      BY <2>1, <2>n, <2>3, <3>1, <3>2 DEF TypeOK
  <2> QED
    BY <2>2, <2>3
<1>12. ASSUME NEW t \in Threads, FreePost(t)
      PROVE  ExclusiveOwnership'
  BY <1>12 DEF FreePost, TypeOK, InHand, Used, Blocks
<1>13. CASE UNCHANGED vars
  BY <1>13 DEF vars, Used, Blocks
<1> QED
  BY <1>1, <1>2, <1>3, <1>4, <1>5, <1>6, <1>7, <1>8, <1>9, <1>10, <1>11, <1>12, <1>13
     DEF Next

\* For clients that free only what they own, or pointers that are no block, a
\* block has one owner from the Alloc that returned it to the Free of it.
THEOREM BlocksAreExclusive == Disciplined => (Spec => []ExclusiveOwnership)
<1> SUFFICES ASSUME Disciplined PROVE Spec => []ExclusiveOwnership
  OBVIOUS
<1>1. Init => TypeInv /\ ExclusiveOwnership
  BY TypeInit DEF Init, Idle, ExclusiveOwnership, At, Blocks
<1>2. TypeInv /\ ExclusiveOwnership /\ [Next]_vars => (TypeInv /\ ExclusiveOwnership)'
  BY TypeStep, OwnershipStep
<1> QED
  BY <1>1, <1>2, PTL DEF Spec

-----------------------------------------------------------------------------
(* Creation and deletion in detail. *)

\* What osMemoryPoolNew has after it initialised its first n parts.
Built(n) == {Parts[i] : i \in 1 .. n}

\* Before the arrays New has the first parts, up to its stage, each of them
\* once; it returns a pool that has everything.
CreationInv ==
    /\ stage \in 0 .. 5
    /\ made \in [Deleted -> {0, 1}]
    /\ stage <= 3 => \A p \in Deleted : made[p] = 1 <=> p \in Built(stage)
    /\ stage = 4 => \A p \in Built(3) : made[p] = 1
    /\ stage = 5 => \A p \in Deleted : made[p] = 1
    /\ stage = 5 <=> block_count # 0

\* The parts, spelled out: Delete releases whatever New may have.
LEMMA PartsAre ==
    /\ Len(Parts) = 3 /\ C!Allocated = 4 /\ C!Ready = 5
    /\ C!Everything = Deleted
    /\ Deleted = Built(3) \cup Arrays /\ Built(3) \cap Arrays = {}
<1>1. Len(Parts) = 3
  BY DEF Parts
<1>2. Built(3) = {"mem_pool", "sem", "mutex"}
  <2>1. 1 .. 3 = {1, 2, 3}
    OBVIOUS
  <2> QED
    BY <2>1 DEF Built, Parts
<1>3. C!Everything = Built(3) \cup Arrays
  BY <1>1 DEF C!Everything, Built
<1> QED
  BY <1>1, <1>2, <1>3 DEF Arrays, Deleted, C!Allocated, C!Ready

\* Where a part cannot be had, New releases exactly what it has.
LEMMA CleanupIs ==
    ASSUME NEW n \in 0 .. 2
    PROVE  /\ Cleanup[n + 1] = Built(n)
           /\ Built(n + 1) = Built(n) \cup {Parts[n + 1]}
           /\ Parts[n + 1] \in Deleted \ Built(n)
<1>1. /\ Built(0) = {} /\ Built(1) = {"mem_pool"} /\ Built(2) = {"mem_pool", "sem"}
      /\ Built(3) = {"mem_pool", "sem", "mutex"}
  <2>1. 1 .. 0 = {} /\ 1 .. 1 = {1} /\ 1 .. 2 = {1, 2} /\ 1 .. 3 = {1, 2, 3}
    OBVIOUS
  <2> QED
    BY <2>1 DEF Built, Parts
<1>2. Cleanup[1] = Built(0) /\ Cleanup[2] = Built(1) /\ Cleanup[3] = Built(2)
  BY <1>1 DEF Cleanup
<1>3. Parts[1] = "mem_pool" /\ Parts[2] = "sem" /\ Parts[3] = "mutex"
  BY DEF Parts
<1>4. n = 0 \/ n = 1 \/ n = 2
  OBVIOUS
<1> QED
  BY <1>1, <1>2, <1>3, <1>4 DEF Deleted

\* Nothing has been made at first.
LEMMA CreationInit == CInit => CreationInv
<1>1. Built(0) = {}
  BY DEF Built
<1> QED
  BY <1>1, PartsAre DEF CInit, C!Init, Init, CreationInv

\* Every step of New and Delete keeps the account of the parts.
LEMMA CreationStep == CreationInv /\ [CNext]_<<vars, cvars>> => CreationInv'
<1> SUFFICES ASSUME CreationInv, [CNext]_<<vars, cvars>> PROVE CreationInv'
  OBVIOUS
<1> USE PartsAre DEF CreationInv
<1>0. Built(0) = {}
  BY DEF Built
<1>1. ASSUME C!Initialise, UNCHANGED vars
      PROVE  CreationInv'
  <2>1. /\ stage \in 0 .. 2 /\ stage' = stage + 1 /\ block_count' = block_count
        /\ made' = [p \in Deleted |-> IF p \in {Parts[stage + 1]} THEN made[p] + 1 ELSE made[p]]
    BY <1>1 DEF C!Initialise, C!Add, vars
  <2> QED
    BY <2>1, CleanupIs
<1>2. ASSUME C!InitialiseFails, UNCHANGED vars
      PROVE  CreationInv'
  <2>1. /\ stage \in 0 .. 2 /\ stage' = 0 /\ block_count' = block_count
        /\ made' = [p \in Deleted |-> IF p \in Built(stage) THEN made[p] + (-1) ELSE made[p]]
    BY <1>2, CleanupIs DEF C!InitialiseFails, C!Add, vars
  <2> QED
    BY <1>0, <2>1
<1>3. ASSUME C!Allocate, UNCHANGED vars
      PROVE  CreationInv'
  <2>1. PICK got \in SUBSET Arrays :
          made' = [p \in Deleted |-> IF p \in got THEN made[p] + 1 ELSE made[p]]
    BY <1>3 DEF C!Allocate, C!Add
  <2>2. stage = 3 /\ stage' = 4 /\ block_count' = block_count
    BY <1>3 DEF C!Allocate, vars
  <2>3. \A p \in Deleted : (made[p] = 1 <=> p \in Built(3)) /\ (p \in got => p \notin Built(3))
    BY <2>2
  <2> QED
    BY <2>1, <2>2, <2>3
<1>4. ASSUME C!Destroy, stage \in {4, 5}, block_count' = 0
      PROVE  CreationInv'
  <2>1. /\ made' = [p \in Deleted |->
                      IF p \in Deleted \ C!Missing THEN made[p] + (-1) ELSE made[p]]
        /\ stage' = 0
    BY <1>4 DEF C!Destroy, C!Add
  <2>2. ASSUME NEW p \in Deleted
        PROVE  p \in Deleted \ C!Missing <=> made[p] = 1
    BY <1>4 DEF C!Missing
  <2> QED
    BY <1>0, <1>4, <2>1, <2>2
<1>5. ASSUME C!Discard, UNCHANGED vars
      PROVE  CreationInv'
  BY <1>4, <1>5 DEF C!Discard, vars
<1>6. ASSUME C!Return, NEW n \in BlockCounts, New(n)
      PROVE  CreationInv'
  <2>1. stage = 4 /\ stage' = 5 /\ block_count' # 0
    BY <1>6, BlockCountsAssumption DEF C!Return, New
  <2>2. \A p \in Deleted : made[p] = 1
    BY <1>6, <2>1 DEF C!Return, C!Missing
  <2>3. made' = [p \in Deleted |-> made[p]]
    BY <1>6 DEF C!Return, C!Add, Temporary
  <2> QED
    BY <2>1, <2>2, <2>3
<1>7. ASSUME CDelete
      PROVE  CreationInv'
  BY <1>4, <1>7 DEF CDelete, C!Delete, Delete
<1>8. ASSUME UNCHANGED cvars, block_count' = block_count
      PROVE  CreationInv'
  BY <1>8 DEF cvars
<1> QED
  BY <1>1, <1>2, <1>3, <1>5, <1>6, <1>7, <1>8 DEF CNext, CNew, vars

\* Wherever New fails it leaves nothing behind and releases only what it had,
\* and whoever has a pool has all of it, until Delete releases all of it.
THEOREM NothingIsLeft == CSpec => []NothingLeft
<1>1. CreationInv => NothingLeft
  BY PartsAre DEF CreationInv, NothingLeft, Built
<1> QED
  BY <1>1, CreationInit, CreationStep, PTL DEF CSpec

\* Every behaviour of the pool with its creation in detail is one of the
\* pool, which is what the other theorems are about.
THEOREM CreationIsCovered == CSpec => Spec
<1>1. CInit => Init
  BY DEF CInit
<1>2. [CNext]_<<vars, cvars>> => [Next]_vars
  BY DEF CNext, CNew, CDelete, Next
<1> QED
  BY <1>1, <1>2, PTL DEF CSpec, Spec

\* So blocks and tokens agree, and blocks have one owner if clients free only
\* what they own, also with New and Delete part by part, as run pool has them.
THEOREM DetailedPoolIsCorrect ==
    CSpec => /\ [](TypeOK /\ BlockConservation /\ AllocFindsBlock /\ NothingLeft)
             /\ Disciplined => []ExclusiveOwnership
BY CreationIsCovered, NothingIsLeft, TypeCorrect, BlocksConserved, AllocSucceeds,
   BlocksAreExclusive, PTL
=============================================================================
