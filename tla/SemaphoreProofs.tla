-------------------------- MODULE SemaphoreProofs --------------------------
(* Proofs about Semaphore for any threads and any values of max_count, and  *)
(* about its clients that release only what they acquired.                  *)
EXTENDS SemaphoreHolders, Counting

\* Where a thread of the model can be.
Labels == {"idle", "acq_wait", "acq_post", "rel_post"}

\* Acquirers and releasers are threads.
LEMMA ThreadSets == Acquirers \subseteq Threads /\ Releasers \subseteq Threads
BY DEF Threads

\* Before a semaphore is created there is nothing.
LEMMA TypeInit == Init => TypeOK
BY WordAssumption DEF Init, TypeOK, Idle

\* Every operation keeps the types; sem_post does so by refusing to pass the limit.
LEMMA TypeStep == TypeOK /\ [Next]_vars => TypeOK'
<1> SUFFICES ASSUME TypeOK, [Next]_vars PROVE TypeOK'
  OBVIOUS
<1> USE WordAssumption, MaxCountsAssumption, ThreadSets
<1>1. ASSUME NEW max \in MaxCounts, NEW n \in 0 .. max, New(max, n)
      PROVE  TypeOK'
  BY <1>1 DEF New, TypeOK, Idle
<1>2. CASE Delete
  BY <1>2 DEF Delete, TypeOK, Idle
<1>3. ASSUME NEW t \in Acquirers, NEW finite \in BOOLEAN, AcquireCall(t, finite)
      PROVE  TypeOK'
  BY <1>3 DEF AcquireCall, TypeOK, Idle
<1>4. ASSUME NEW t \in Acquirers, AcquireWake(t)
      PROVE  TypeOK'
  BY <1>4 DEF AcquireWake, TypeOK, Idle
<1>5. ASSUME NEW t \in Acquirers, AcquireFail(t)
      PROVE  TypeOK'
  BY <1>5 DEF AcquireFail, TypeOK, Idle
<1>6. ASSUME NEW t \in Acquirers, AcquirePost(t)
      PROVE  TypeOK'
  BY <1>6 DEF AcquirePost, SemPost, TypeOK, Idle
<1>7. ASSUME NEW t \in Releasers, ReleaseCall(t)
      PROVE  TypeOK'
  BY <1>7 DEF ReleaseCall, TypeOK, Idle
<1>8. ASSUME NEW t \in Releasers, ReleasePost(t)
      PROVE  TypeOK'
  BY <1>8 DEF ReleasePost, SemPost, TypeOK, Idle
<1>9. CASE UNCHANGED vars
  BY <1>9 DEF vars, TypeOK, Idle
<1> QED
  BY <1>1, <1>2, <1>3, <1>4, <1>5, <1>6, <1>7, <1>8, <1>9 DEF Next

\* Both semaphores stay within the limit of the C library and no call outlives
\* the semaphore, for every max_count, those above SEM_VALUE_MAX included.
THEOREM TypeCorrect == Spec => []TypeOK
BY TypeInit, TypeStep, PTL DEF Spec

-----------------------------------------------------------------------------
(* Conservation. *)

Acquiring == Cardinality(Among(Threads, pc, {"acq_post"}))
Releasing == Cardinality(Among(Threads, pc, {"rel_post"}))

\* All tokens, wherever they are.
Total == avail + used + Acquiring + Releasing

\* A total that TokenConservation allows.
Accounted(total, max) == total = max \/ (SemValueMax <= total /\ total < max)

\* TokenConservation as arithmetic on the two counts.
LEMMA Conservation == TokenConservation <=> Accounted(Total, max_count)
BY DEF TokenConservation, osSemaphoreGetCount, At, Among, Acquiring, Releasing, Total, Accounted

\* The sets of calls that are counted are finite.
LEMMA CountsAreNatural == Acquiring \in Nat /\ Releasing \in Nat
BY ThreadsAssumption, AmongFinite DEF Acquiring, Releasing

\* Without calls in flight there is nothing to count.
LEMMA IdleCounts == Idle => Acquiring = 0 /\ Releasing = 0
BY AmongNone DEF Idle, Acquiring, Releasing

\* Before a semaphore is created there are no tokens.
LEMMA ConservationInit == Init => TokenConservation
BY IdleCounts, Conservation DEF Init, Total, Accounted

\* How a step of thread t from label at to label to changes the two counts.
LEMMA CountStep ==
    ASSUME NEW t \in Threads, NEW at, NEW to, Moves(Threads, pc, pc', t, at, to)
    PROVE  /\ Acquiring' \in Nat /\ Releasing' \in Nat
           /\ Acquiring' = Acquiring + Inside(to, {"acq_post"}) - Inside(at, {"acq_post"})
           /\ Releasing' = Releasing + Inside(to, {"rel_post"}) - Inside(at, {"rel_post"})
<1>1. pc[t] = at /\ pc'[t] = to /\ \A u \in Threads \ {t} : pc'[u] = pc[u]
  BY DEF Moves
<1>2. ASSUME NEW labels
      PROVE  LET old == Cardinality(Among(Threads, pc, labels))
                 new == Cardinality(Among(Threads, pc', labels))
             IN  new \in Nat /\ new = old + Inside(to, labels) - Inside(at, labels)
  BY <1>1, ThreadsAssumption, AmongStep
<1> QED
  BY <1>2 DEF Acquiring, Releasing

\* Only a sem_post at its limit loses a token, and then SemValueMax others are
\* in the semaphore that is full.
LEMMA ConservationStep ==
    TypeOK /\ TokenConservation /\ [Next]_vars => TokenConservation'
<1> SUFFICES ASSUME TypeOK, TokenConservation, [Next]_vars
             PROVE  TokenConservation'
  OBVIOUS
<1> USE WordAssumption, MaxCountsAssumption, ThreadSets
<1>t. /\ avail \in 0 .. SemValueMax /\ used \in 0 .. SemValueMax
      /\ max_count \in Nat /\ SemValueMax \in Nat
      /\ Acquiring \in Nat /\ Releasing \in Nat
      /\ Accounted(Total, max_count)
  BY Conservation, CountsAreNatural DEF TypeOK
<1>p. SUFFICES Accounted(Total', max_count')
  BY DEF TokenConservation, osSemaphoreGetCount, At, Among, Acquiring, Releasing, Total, Accounted
<1>1. ASSUME NEW max \in MaxCounts, NEW n \in 0 .. max, New(max, n)
      PROVE  Accounted(Total', max_count')
  <2>1. Acquiring = 0 /\ Releasing = 0
    BY <1>1, IdleCounts DEF New, TypeOK
  <2>2. Acquiring' = Acquiring /\ Releasing' = Releasing
    BY <1>1 DEF New, Acquiring, Releasing
  <2> QED
    BY <1>1, <2>1, <2>2 DEF New, Total, Accounted
<1>2. CASE Delete
  <2>1. Acquiring = 0 /\ Releasing = 0
    BY <1>2, IdleCounts DEF Delete
  <2>2. Acquiring' = Acquiring /\ Releasing' = Releasing
    BY <1>2 DEF Delete, Acquiring, Releasing
  <2> QED
    BY <1>2, <2>1, <2>2 DEF Delete, Total, Accounted
<1>3. ASSUME NEW t \in Acquirers, NEW finite \in BOOLEAN, AcquireCall(t, finite)
      PROVE  Accounted(Total', max_count')
  <2>1. CASE pc' = [pc EXCEPT ![t] = "acq_post"] /\ avail > 0 /\ avail' = avail - 1
    <3>1. Moves(Threads, pc, pc', t, "idle", "acq_post")
      BY <1>3, <2>1 DEF AcquireCall, TypeOK, Moves
    <3>2. Acquiring' = Acquiring + 1 /\ Releasing' = Releasing
      BY <1>t, <3>1, CountStep DEF Inside
    <3> QED
      BY <1>3, <1>t, <2>1, <3>2 DEF AcquireCall, Total, Accounted
  <2>2. CASE pc' = [pc EXCEPT ![t] = "acq_wait"] /\ avail' = avail
    <3>1. Moves(Threads, pc, pc', t, "idle", "acq_wait")
      BY <1>3, <2>2 DEF AcquireCall, TypeOK, Moves
    <3>2. Acquiring' = Acquiring /\ Releasing' = Releasing
      BY <1>t, <3>1, CountStep DEF Inside
    <3> QED
      BY <1>3, <1>t, <2>2, <3>2 DEF AcquireCall, Total, Accounted
  <2> QED
    BY <1>3, <2>1, <2>2 DEF AcquireCall
<1>4. ASSUME NEW t \in Acquirers, AcquireWake(t)
      PROVE  Accounted(Total', max_count')
  <2>1. Moves(Threads, pc, pc', t, "acq_wait", "acq_post")
    BY <1>4 DEF AcquireWake, TypeOK, Moves
  <2>2. /\ Acquiring' = Acquiring + 1 /\ Releasing' = Releasing
        /\ Acquiring' \in Nat /\ Releasing' \in Nat
    BY <1>t, <2>1, CountStep DEF Inside
  <2> QED
    BY <1>4, <1>t, <2>2 DEF AcquireWake, Total, Accounted
<1>5. ASSUME NEW t \in Acquirers, AcquireFail(t)
      PROVE  Accounted(Total', max_count')
  <2>1. Moves(Threads, pc, pc', t, "acq_wait", "idle")
    BY <1>5 DEF AcquireFail, TypeOK, Moves
  <2>2. /\ Acquiring' = Acquiring /\ Releasing' = Releasing
        /\ Acquiring' \in Nat /\ Releasing' \in Nat
    BY <1>t, <2>1, CountStep DEF Inside
  <2> QED
    BY <1>5, <1>t, <2>2 DEF AcquireFail, Total, Accounted
<1>6. ASSUME NEW t \in Acquirers, AcquirePost(t)
      PROVE  Accounted(Total', max_count')
  <2>1. Moves(Threads, pc, pc', t, "acq_post", "idle")
    BY <1>6 DEF AcquirePost, TypeOK, Moves
  <2>2. /\ Acquiring' = Acquiring - 1 /\ Releasing' = Releasing
        /\ Acquiring' \in Nat /\ Releasing' \in Nat
    BY <1>t, <2>1, CountStep DEF Inside
  <2> QED
    BY <1>6, <1>t, <2>2 DEF AcquirePost, SemPost, Total, Accounted
<1>7. ASSUME NEW t \in Releasers, ReleaseCall(t)
      PROVE  Accounted(Total', max_count')
  <2>1. Moves(Threads, pc, pc', t, "idle", "rel_post")
    BY <1>7 DEF ReleaseCall, TypeOK, Moves
  <2>2. /\ Acquiring' = Acquiring /\ Releasing' = Releasing + 1
        /\ Acquiring' \in Nat /\ Releasing' \in Nat
    BY <1>t, <2>1, CountStep DEF Inside
  <2> QED
    BY <1>7, <1>t, <2>2 DEF ReleaseCall, Total, Accounted
<1>8. ASSUME NEW t \in Releasers, ReleasePost(t)
      PROVE  Accounted(Total', max_count')
  <2>1. Moves(Threads, pc, pc', t, "rel_post", "idle")
    BY <1>8 DEF ReleasePost, TypeOK, Moves
  <2>2. /\ Acquiring' = Acquiring /\ Releasing' = Releasing - 1
        /\ Acquiring' \in Nat /\ Releasing' \in Nat
    BY <1>t, <2>1, CountStep DEF Inside
  <2> QED
    BY <1>8, <1>t, <2>2 DEF ReleasePost, SemPost, Total, Accounted
<1>9. CASE UNCHANGED vars
  BY <1>9, <1>t DEF vars, Acquiring, Releasing, Total, Accounted
<1> QED
  BY <1>1, <1>2, <1>3, <1>4, <1>5, <1>6, <1>7, <1>8, <1>9 DEF Next

\* Acquire and Release never invent a token, and lose none unless the semaphore
\* was asked to count beyond SEM_VALUE_MAX; then SEM_VALUE_MAX of them are left.
THEOREM TokensConserved == Spec => []TokenConservation
<1>1. Init => TypeOK /\ TokenConservation
  BY TypeInit, ConservationInit
<1>2. TypeOK /\ TokenConservation /\ [Next]_vars => (TypeOK /\ TokenConservation)'
  BY TypeStep, ConservationStep
<1> QED
  BY <1>1, <1>2, PTL DEF Spec

-----------------------------------------------------------------------------
(* Clients that release only what they acquired. *)

\* A thread that holds a token is outside every call.
HoldersIdle ==
    /\ holders \subseteq Threads
    /\ \A t \in holders : pc[t] = "idle"
    /\ initial \in Nat
    /\ initial <= max_count /\ initial <= SemValueMax

\* Inductive: between its calls a client's token is counted in used.
HInv == TypeOK /\ TokenConservation /\ HoldersIdle /\ AtMostInitial

\* A step of the clients is a step of the semaphore.
LEMMA HNextRefines == [HNext]_hvars => [Next]_vars
<1> SUFFICES ASSUME [HNext]_hvars PROVE [Next]_vars
  OBVIOUS
<1>1. ASSUME NEW max \in MaxCounts, NEW n \in 1 .. max, HNew(max, n) PROVE Next
  <2>1. n \in 0 .. max
    BY MaxCountsAssumption
  <2> QED
    BY <1>1, <2>1 DEF HNew, Next
<1>2. CASE HDelete
  BY <1>2 DEF HDelete, Next
<1>3. ASSUME NEW t \in Clients, HAcquire(t) PROVE Next
  BY <1>3 DEF HAcquire, Next, Clients
<1>4. ASSUME NEW t \in Clients, HAcquired(t) PROVE Next
  BY <1>4 DEF HAcquired, Next, Clients
<1>5. ASSUME NEW t \in Clients, HRelease(t) PROVE Next
  BY <1>5 DEF HRelease, Next, Clients
<1>6. ASSUME NEW t \in Clients, HReleased(t) PROVE Next
  BY <1>6 DEF HReleased, Next, Clients
<1>7. CASE UNCHANGED hvars
  BY <1>7 DEF hvars, vars
<1> QED
  BY <1>1, <1>2, <1>3, <1>4, <1>5, <1>6, <1>7 DEF HNext

\* Before a semaphore is created nobody holds a token.
LEMMA HInvInit == HInit => HInv
<1> SUFFICES ASSUME HInit PROVE HInv
  OBVIOUS
<1>1. TypeOK /\ TokenConservation
  BY TypeInit, ConservationInit DEF HInit
<1>2. Acquiring = 0 /\ Releasing = 0 /\ Cardinality({}) = 0
  BY IdleCounts, FS_EmptySet DEF HInit, Init
<1> QED
  BY <1>1, <1>2, WordAssumption
     DEF HInit, Init, HInv, HoldersIdle, AtMostInitial, Acquiring, Releasing, At, Among

\* AtMostInitial in terms of the counts of SemaphoreProofs.
LEMMA Outstanding ==
    AtMostInitial <=> avail + Acquiring + Cardinality(holders) + Releasing = initial
BY DEF AtMostInitial, At, Among, Acquiring, Releasing

\* A client's token moves from avail to the client and back, never twice.  The
\* tokens the clients share fit avail, so the post of a Release succeeds.
LEMMA HInvStep == HInv /\ [HNext]_hvars => HInv'
<1> SUFFICES ASSUME HInv, [HNext]_hvars PROVE HInv'
  OBVIOUS
<1>a. TypeOK' /\ TokenConservation'
  BY HNextRefines, TypeStep, ConservationStep DEF HInv
<1>t. /\ avail \in 0 .. SemValueMax /\ max_count \in Nat
      /\ Acquiring \in Nat /\ Releasing \in Nat
      /\ IsFiniteSet(holders) /\ Cardinality(holders) \in Nat
      /\ SemValueMax \in Nat /\ initial \in Nat /\ initial <= max_count /\ initial <= SemValueMax
      /\ avail + Acquiring + Cardinality(holders) + Releasing = initial
  BY Outstanding, CountsAreNatural, ThreadsAssumption, WordAssumption, MaxCountsAssumption,
     FS_Subset, FS_CardinalityType
     DEF HInv, TypeOK, HoldersIdle
<1>g. SUFFICES /\ HoldersIdle'
               /\ avail' + Acquiring' + Cardinality(holders') + Releasing' = initial'
  BY <1>a DEF HInv, AtMostInitial, At, Among, Acquiring, Releasing
<1>c. Clients \subseteq Threads
  BY ThreadSets DEF Clients
<1>1. ASSUME NEW max \in MaxCounts, NEW n \in 1 .. max, HNew(max, n)
      PROVE  /\ HoldersIdle'
             /\ avail' + Acquiring' + Cardinality(holders') + Releasing' = initial'
  <2>1. Acquiring = 0 /\ Releasing = 0
    BY <1>1, IdleCounts DEF HNew, New, HInv, TypeOK
  <2>2. Acquiring' = Acquiring /\ Releasing' = Releasing
    BY <1>1 DEF HNew, New, Acquiring, Releasing
  <2>3. Cardinality(holders) = 0
    BY <1>1, <1>t, <2>1 DEF HNew, New
  <2> QED
    BY <1>1, <1>t, <2>1, <2>2, <2>3, MaxCountsAssumption, WordAssumption
       DEF HNew, New, HInv, HoldersIdle
<1>2. CASE HDelete
  <2>1. Acquiring = 0 /\ Releasing = 0
    BY <1>2, IdleCounts DEF HDelete, Delete
  <2>2. Acquiring' = Acquiring /\ Releasing' = Releasing
    BY <1>2 DEF HDelete, Delete, Acquiring, Releasing
  <2> QED
    BY <1>2, <1>t, <2>1, <2>2, FS_EmptySet DEF HDelete, Delete, HInv, HoldersIdle
<1>3. ASSUME NEW t \in Clients, HAcquire(t)
      PROVE  /\ HoldersIdle'
             /\ avail' + Acquiring' + Cardinality(holders') + Releasing' = initial'
  <2>1. HoldersIdle'
    BY <1>3, <1>c DEF HAcquire, AcquireCall, AcquireWake, AcquireFail, HInv, HoldersIdle, TypeOK
  <2>2. CASE Moves(Threads, pc, pc', t, pc[t], "acq_post") /\ pc[t] # "acq_post"
             /\ pc[t] # "rel_post" /\ avail' = avail - 1
    <3>1. Acquiring' = Acquiring + 1 /\ Releasing' = Releasing
      BY CountsAreNatural, <1>c, <2>2, CountStep DEF Inside
    <3> QED
      BY <1>3, <1>t, <2>1, <2>2, <3>1 DEF HAcquire
  <2>3. ASSUME NEW to \in {"acq_wait", "idle"},
               Moves(Threads, pc, pc', t, pc[t], to), pc[t] # "acq_post",
               pc[t] # "rel_post", avail' = avail
        PROVE  avail' + Acquiring' + Cardinality(holders') + Releasing' = initial'
    <3>1. Acquiring' = Acquiring /\ Releasing' = Releasing
      BY CountsAreNatural, <1>c, <2>3, CountStep DEF Inside
    <3> QED
      BY <1>3, <1>t, <2>3, <3>1 DEF HAcquire
  <2>4. ASSUME NEW finite \in BOOLEAN, AcquireCall(t, finite)
        PROVE  avail' + Acquiring' + Cardinality(holders') + Releasing' = initial'
    BY <2>1, <2>2, <2>3, <2>4, <1>c DEF AcquireCall, Moves, HInv, TypeOK
  <2>5. CASE AcquireWake(t)
    BY <2>1, <2>2, <2>5, <1>c DEF AcquireWake, Moves, HInv, TypeOK
  <2>6. CASE AcquireFail(t)
    BY <2>1, <2>3, <2>6, <1>c DEF AcquireFail, Moves, HInv, TypeOK
  <2> QED
    BY <1>3, <2>1, <2>4, <2>5, <2>6 DEF HAcquire
<1>4. ASSUME NEW t \in Clients, HAcquired(t)
      PROVE  /\ HoldersIdle'
             /\ avail' + Acquiring' + Cardinality(holders') + Releasing' = initial'
  <2>1. Moves(Threads, pc, pc', t, "acq_post", "idle")
    BY <1>4, <1>c DEF HAcquired, AcquirePost, HInv, TypeOK, Moves
  <2>2. Acquiring' = Acquiring - 1 /\ Releasing' = Releasing /\ Acquiring' \in Nat
    BY CountsAreNatural, <1>c, <2>1, CountStep DEF Inside
  <2>3. t \notin holders
    BY <1>4 DEF HAcquired, AcquirePost, HInv, HoldersIdle
  <2>4. Cardinality(holders \cup {t}) = Cardinality(holders) + 1
    BY <1>t, <2>3, FS_AddElement
  <2>5. HoldersIdle'
    BY <1>4, <1>c, <2>1 DEF HAcquired, AcquirePost, HInv, HoldersIdle, Moves
  <2> QED
    BY <1>4, <1>t, <2>2, <2>4, <2>5 DEF HAcquired, AcquirePost
<1>5. ASSUME NEW t \in Clients, HRelease(t)
      PROVE  /\ HoldersIdle'
             /\ avail' + Acquiring' + Cardinality(holders') + Releasing' = initial'
  <2>1. Moves(Threads, pc, pc', t, "idle", "rel_post")
    BY <1>5, <1>c DEF HRelease, ReleaseCall, HInv, TypeOK, Moves
  <2>2. Acquiring' = Acquiring /\ Releasing' = Releasing + 1
    BY CountsAreNatural, <1>c, <2>1, CountStep DEF Inside
  <2>3. Cardinality(holders \ {t}) = Cardinality(holders) - 1
    BY <1>5, <1>t, FS_RemoveElement DEF HRelease
  <2>4. HoldersIdle'
    BY <1>5, <2>1 DEF HRelease, ReleaseCall, HInv, HoldersIdle, Moves
  <2> QED
    BY <1>5, <1>t, <2>2, <2>3, <2>4 DEF HRelease, ReleaseCall
<1>6. ASSUME NEW t \in Clients, HReleased(t)
      PROVE  /\ HoldersIdle'
             /\ avail' + Acquiring' + Cardinality(holders') + Releasing' = initial'
  <2>1. Moves(Threads, pc, pc', t, "rel_post", "idle")
    BY <1>6, <1>c DEF HReleased, ReleasePost, HInv, TypeOK, Moves
  <2>2. Acquiring' = Acquiring /\ Releasing' = Releasing - 1 /\ Releasing' \in Nat
    BY CountsAreNatural, <1>c, <2>1, CountStep DEF Inside
  <2>3. HoldersIdle'
    BY <1>6, <2>1 DEF HReleased, ReleasePost, HInv, HoldersIdle, Moves
  <2> QED
    BY <1>6, <1>t, <2>2, <2>3 DEF HReleased, ReleasePost, SemPost
<1>7. CASE UNCHANGED hvars
  BY <1>7, <1>t DEF hvars, vars, HInv, HoldersIdle, Acquiring, Releasing
<1> QED
  BY <1>1, <1>2, <1>3, <1>4, <1>5, <1>6, <1>7 DEF HNext

\* HInv is inductive.
LEMMA HInvHolds == HSpec => []HInv
<1>1. HInv /\ [HNext]_hvars => HInv'
  BY HInvStep
<1> QED
  BY <1>1, HInvInit, PTL DEF HSpec

\* Clients that release only what they acquired never hold more tokens than
\* the semaphore was created with.
THEOREM TokensBounded == HSpec => []AtMostInitial
<1>1. HInv => AtMostInitial
  BY DEF HInv
<1> QED
  BY <1>1, HInvHolds, PTL

\* For every number of clients and every size, a holder's Release finds a used
\* token: conservation and the bound on the holders leave no room for it to be
\* missing.
THEOREM HoldersCanRelease == HSpec => []HolderReleaseSucceeds
<1>1. HInv => HolderReleaseSucceeds
  <2> SUFFICES ASSUME HInv, NEW t \in holders PROVE used > 0
    BY DEF HolderReleaseSucceeds
  <2>1. /\ used \in Int /\ avail \in Int /\ max_count \in Int /\ initial \in Int
        /\ Acquiring \in Nat /\ Releasing \in Nat
        /\ Accounted(avail + used + Acquiring + Releasing, max_count)
        /\ avail + Acquiring + Cardinality(holders) + Releasing = initial
        /\ initial <= max_count /\ initial <= SemValueMax /\ SemValueMax \in Int
    BY Conservation, Outstanding, CountsAreNatural, WordAssumption, MaxCountsAssumption
       DEF HInv, TypeOK, HoldersIdle, Total
  <2>2. Cardinality(holders) \in Nat \ {0}
    BY ThreadsAssumption, FS_Subset, FS_CardinalityType, FS_EmptySet DEF HInv, HoldersIdle
  <2> QED
    BY <2>1, <2>2 DEF Accounted
<1> QED
  BY <1>1, HInvHolds, PTL
=============================================================================
