---------------------------- MODULE MutexProofs ----------------------------
(* Proofs about Mutex for any threads, both types of mutex and any nesting. *)
EXTENDS MutexCreation, TLAPS

\* A recursive mutex never makes its holder wait; so nobody who waits can
\* exceed the bound on nesting when it is let in.
WaiterIsNotHolder ==
    \A t \in Threads : kind = "recursive" /\ pc[t] = "acq_wait" => holder # t

\* TypeOK needs to know who can be waiting.
TypeInv == TypeOK /\ WaiterIsNotHolder

\* Before a mutex is created nobody holds one.
LEMMA TypeInit == Init => TypeInv
BY DepthAssumption DEF Init, Idle, TypeInv, TypeOK, WaiterIsNotHolder

\* Every operation, by clients careful or not, keeps the types.
LEMMA TypeStep == TypeInv /\ [Next]_vars => TypeInv'
<1> SUFFICES ASSUME TypeOK, WaiterIsNotHolder, [Next]_vars PROVE TypeInv'
  BY DEF TypeInv
<1> USE DepthAssumption, KindsAssumption, ThreadsAssumption DEF TypeInv
<1>1. ASSUME NEW k \in Kinds, New(k)
      PROVE  TypeInv'
  BY <1>1 DEF New, TypeOK, WaiterIsNotHolder, Idle
<1>2. CASE Delete
  BY <1>2 DEF Delete, TypeOK, WaiterIsNotHolder, Idle
<1>3. ASSUME NEW t \in Threads, NEW finite \in BOOLEAN, AcquireCall(t, finite)
      PROVE  TypeInv'
  <2>1. CASE Lockable(t) /\ Lock(t) /\ pc' = [pc EXCEPT ![t] = "acq_set"] /\ timed' = timed
    BY <1>3, <2>1 DEF AcquireCall, Lockable, Lock, TypeOK, WaiterIsNotHolder, Idle
  <2>2. CASE /\ ~ Lockable(t)
             /\ pc' = [pc EXCEPT ![t] = "acq_wait"]
             /\ timed' = [timed EXCEPT ![t] = finite]
             /\ holder' = holder /\ depth' = depth
    BY <1>3, <2>2 DEF AcquireCall, Lockable, TypeOK, WaiterIsNotHolder, Idle
  <2> QED
    BY <1>3, <2>1, <2>2 DEF AcquireCall
<1>4. ASSUME NEW t \in Threads, AcquireWake(t)
      PROVE  TypeInv'
  BY <1>4 DEF AcquireWake, Lockable, Lock, TypeOK, WaiterIsNotHolder, Idle
<1>5. ASSUME NEW t \in Threads, AcquireTimeout(t)
      PROVE  TypeInv'
  BY <1>5 DEF AcquireTimeout, TypeOK, WaiterIsNotHolder, Idle
<1>6. ASSUME NEW t \in Threads, AcquireSet(t)
      PROVE  TypeInv'
  BY <1>6 DEF AcquireSet, TypeOK, WaiterIsNotHolder, Idle
<1>7. ASSUME NEW t \in Threads, ReleaseCall(t)
      PROVE  TypeInv'
  BY <1>7 DEF ReleaseCall, Unlockable, Unlock, TypeOK, WaiterIsNotHolder, Idle
<1>8. ASSUME NEW t \in Threads, ReleaseClear(t)
      PROVE  TypeInv'
  BY <1>8 DEF ReleaseClear, TypeOK, WaiterIsNotHolder, Idle
<1>9. CASE UNCHANGED vars
  BY <1>9 DEF vars, TypeOK, WaiterIsNotHolder, Idle
<1> QED
  BY <1>1, <1>2, <1>3, <1>4, <1>5, <1>6, <1>7, <1>8, <1>9 DEF Next

\* Holder and number of locks agree, and a normal mutex is locked once at most,
\* for clients careful or not.
THEOREM TypeCorrect == Spec => []TypeOK
<1>1. TypeInv => TypeOK
  BY DEF TypeInv
<1> QED
  BY <1>1, TypeInit, TypeStep, PTL DEF Spec

-----------------------------------------------------------------------------
(* The owner field. *)

\* A thread about to write owner still holds the mutex.  Only careful clients
\* guarantee that: another thread could unlock a normal mutex under it.
OwnerInv ==
    /\ OwnerNamesHolder
    /\ \A t \in Threads : pc[t] = "acq_set" => holder = t

\* A new Release or Acquire only ever leaves owner naming the holder, or a
\* thread that is inside its Release.
LEMMA OwnerStep == Careful /\ TypeOK /\ OwnerInv /\ [Next]_vars => OwnerInv'
<1> SUFFICES ASSUME Careful, TypeOK, OwnerInv, [Next]_vars PROVE OwnerInv'
  OBVIOUS
<1> USE ThreadsAssumption DEF OwnerInv, OwnerNamesHolder, osMutexGetOwner
<1>1. ASSUME NEW k \in Kinds, New(k)
      PROVE  OwnerInv'
  BY <1>1 DEF New, TypeOK, Idle
<1>2. CASE Delete
  BY <1>2 DEF Delete, TypeOK, Idle
<1>3. ASSUME NEW t \in Threads, NEW finite \in BOOLEAN, AcquireCall(t, finite)
      PROVE  OwnerInv'
  <2>1. CASE Lockable(t) /\ Lock(t) /\ pc' = [pc EXCEPT ![t] = "acq_set"]
    BY <1>3, <2>1 DEF AcquireCall, Lockable, Lock, TypeOK
  <2>2. CASE holder' = holder /\ pc' = [pc EXCEPT ![t] = "acq_wait"]
    BY <1>3, <2>2 DEF AcquireCall, TypeOK
  <2> QED
    BY <1>3, <2>1, <2>2 DEF AcquireCall
<1>4. ASSUME NEW t \in Threads, AcquireWake(t)
      PROVE  OwnerInv'
  BY <1>4 DEF AcquireWake, Lockable, Lock, TypeOK
<1>5. ASSUME NEW t \in Threads, AcquireTimeout(t)
      PROVE  OwnerInv'
  BY <1>5 DEF AcquireTimeout, TypeOK
<1>6. ASSUME NEW t \in Threads, AcquireSet(t)
      PROVE  OwnerInv'
  BY <1>6 DEF AcquireSet, TypeOK
<1>7. ASSUME NEW t \in Threads, ReleaseCall(t)
      PROVE  OwnerInv'
  BY <1>7 DEF ReleaseCall, Unlock, TypeOK
<1>8. ASSUME NEW t \in Threads, ReleaseClear(t)
      PROVE  OwnerInv'
  BY <1>8 DEF ReleaseClear, TypeOK
<1>9. CASE UNCHANGED vars
  BY <1>9 DEF vars
<1> QED
  BY <1>1, <1>2, <1>3, <1>4, <1>5, <1>6, <1>7, <1>8, <1>9 DEF Next

\* With clients that release only what they hold, the owner that
\* osMutexGetOwner reports holds the mutex or is inside the Release of it.
THEOREM OwnerIsNeverStranger == Careful => (Spec => []OwnerNamesHolder)
<1> SUFFICES ASSUME Careful PROVE Spec => []OwnerNamesHolder
  OBVIOUS
<1>1. Init => TypeInv /\ OwnerInv
  BY TypeInit DEF Init, Idle, OwnerInv, OwnerNamesHolder, osMutexGetOwner
<1>2. TypeInv /\ OwnerInv /\ [Next]_vars => (TypeInv /\ OwnerInv)'
  BY TypeStep, OwnerStep DEF TypeInv
<1>3. OwnerInv => OwnerNamesHolder
  BY DEF OwnerInv
<1> QED
  BY <1>1, <1>2, <1>3, PTL DEF Spec

-----------------------------------------------------------------------------
(* Creation and deletion in detail. *)

\* Before it returns New has the first parts, up to its stage, each of them
\* once; the mutex it returns has all but the attributes.
CreationInv ==
    /\ stage \in 0 .. 5
    /\ made \in [C!Everything -> {0, 1}]
    /\ \A p \in C!Everything :
          made[p] = 1 <=> \/ stage \in 1 .. 4 /\ p = "mutex_attr"
                          \/ stage \in 2 .. 5 /\ p = "handler"
                          \/ stage \in 3 .. 5 /\ p = "mutex"
    /\ stage = 5 <=> kind # None

\* The parts, spelled out, and what New releases when one cannot be had.
LEMMA PartsAre ==
    /\ Len(Parts) = 3 /\ C!Allocated = 4 /\ C!Ready = 5
    /\ C!Everything = {"mutex_attr", "handler", "mutex"}
    /\ Parts[1] = "mutex_attr" /\ Parts[2] = "handler" /\ Parts[3] = "mutex"
    /\ Cleanup[1] = {} /\ Cleanup[2] = {"mutex_attr"}
    /\ Cleanup[3] = {"mutex_attr", "handler"}
<1>1. /\ Len(Parts) = 3
      /\ Parts[1] = "mutex_attr" /\ Parts[2] = "handler" /\ Parts[3] = "mutex"
  BY DEF Parts
<1>2. C!Everything = {"mutex_attr", "handler", "mutex"}
  <2>1. 1 .. 3 = {1, 2, 3}
    OBVIOUS
  <2> QED
    BY <1>1, <2>1 DEF C!Everything, Arrays
<1>3. Cleanup[1] = {} /\ Cleanup[2] = {"mutex_attr"} /\ Cleanup[3] = {"mutex_attr", "handler"}
  BY DEF Cleanup, error_exit
<1> QED
  BY <1>1, <1>2, <1>3 DEF C!Allocated, C!Ready

\* Nothing has been made at first.
LEMMA CreationInit == CInit => CreationInv
BY PartsAre DEF CInit, C!Init, Init, CreationInv

\* Every step of New and Delete keeps the account of the parts.
LEMMA CreationStep == CreationInv /\ [CNext]_<<vars, cvars>> => CreationInv'
<1> SUFFICES ASSUME CreationInv, [CNext]_<<vars, cvars>> PROVE CreationInv'
  OBVIOUS
<1> USE PartsAre DEF CreationInv
<1>1. ASSUME C!Initialise, UNCHANGED vars
      PROVE  CreationInv'
  <2>1. stage \in 0 .. 2 /\ stage' = stage + 1 /\ kind' = kind
    BY <1>1 DEF C!Initialise, vars
  <2>2. made' = [p \in C!Everything |-> IF p = Parts[stage + 1] THEN made[p] + 1 ELSE made[p]]
    BY <1>1 DEF C!Initialise, C!Add
  <2>3. stage = 0 \/ stage = 1 \/ stage = 2
    BY <2>1
  <2> QED
    BY <2>1, <2>2, <2>3
<1>2. ASSUME C!InitialiseFails, UNCHANGED vars
      PROVE  CreationInv'
  <2>1. stage \in 0 .. 2 /\ stage' = 0 /\ kind' = kind
    BY <1>2 DEF C!InitialiseFails, vars
  <2>2. made' = [p \in C!Everything |->
                    IF p \in Cleanup[stage + 1] THEN made[p] + (-1) ELSE made[p]]
    BY <1>2 DEF C!InitialiseFails, C!Add
  <2>3. stage = 0 \/ stage = 1 \/ stage = 2
    BY <2>1
  <2> QED
    BY <2>1, <2>2, <2>3
<1>3. ASSUME C!Allocate, UNCHANGED vars
      PROVE  CreationInv'
  <2>1. made' = [p \in C!Everything |-> made[p]]
    BY <1>3 DEF C!Allocate, C!Add, Arrays
  <2> QED
    BY <1>3, <2>1 DEF C!Allocate, vars
<1>4. ASSUME C!Return, NEW k \in Kinds, New(k)
      PROVE  CreationInv'
  <2>1. made' = [p \in C!Everything |-> IF p = "mutex_attr" THEN made[p] + (-1) ELSE made[p]]
    BY <1>4 DEF C!Return, C!Add, Temporary
  <2>2. stage = 4 /\ stage' = 5 /\ kind' # None
    BY <1>4, KindsAssumption DEF C!Return, New
  <2> QED
    BY <2>1, <2>2
<1>5. ASSUME CDelete
      PROVE  CreationInv'
  <2>1. made' = [p \in C!Everything |->
                    IF p \in {"mutex", "handler"} THEN made[p] + (-1) ELSE made[p]]
    BY <1>5 DEF CDelete, C!Delete, C!Destroy, C!Missing, C!Add, Deleted, Arrays
  <2>2. stage = 5 /\ stage' = 0 /\ kind' = None
    BY <1>5 DEF CDelete, C!Delete, C!Destroy, Delete
  <2> QED
    BY <2>1, <2>2
<1>6. ASSUME UNCHANGED cvars, kind' = kind
      PROVE  CreationInv'
  BY <1>6 DEF cvars
<1> QED
  BY <1>1, <1>2, <1>3, <1>4, <1>5, <1>6 DEF CNext, CNew, vars

\* Wherever New fails it leaves nothing behind and releases only what it had;
\* whoever has a mutex has its handler and its pthread mutex but no attributes,
\* until Delete, which may refuse a locked mutex, releases both.
THEOREM NothingIsLeft == CSpec => []NothingLeft
<1>1. CreationInv => NothingLeft
  BY PartsAre DEF CreationInv, NothingLeft
<1> QED
  BY <1>1, CreationInit, CreationStep, PTL DEF CSpec

\* Every behaviour of the mutex with its creation in detail is one of the
\* mutex, which is what the other theorems are about.
THEOREM CreationIsCovered == CSpec => Spec
<1>1. CInit => Init
  BY DEF CInit
<1>2. [CNext]_<<vars, cvars>> => [Next]_vars
  BY DEF CNext, CNew, CDelete, Next
<1> QED
  BY <1>1, <1>2, PTL DEF CSpec, Spec

\* So a reported owner is no stranger with New and Delete part by part, as run
\* mutex has them, if clients release only what they hold.
THEOREM DetailedMutexIsCorrect ==
    CSpec => /\ [](TypeOK /\ NothingLeft)
             /\ Careful => []OwnerNamesHolder
BY CreationIsCovered, NothingIsLeft, TypeCorrect, OwnerIsNeverStranger, PTL
=============================================================================
