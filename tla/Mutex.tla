------------------------------- MODULE Mutex -------------------------------
(***************************************************************************)
(* osMutex* of cmsisPosix_Mutex.c: a pthread mutex and, beside it, the      *)
(* field owner that osMutexGetOwner reads.  Acquire writes owner after it   *)
(* locked; Release clears it after it unlocked, when the mutex may already  *)
(* belong to somebody else.                                                 *)
(*                                                                          *)
(* The pthread mutex (holder, depth) is modelled by what the C library      *)
(* does: a recursive mutex counts its locks and lets only its holder        *)
(* unlock, a normal one does not know who unlocks it.                       *)
(***************************************************************************)
EXTENDS Posix

CONSTANTS
    Threads,    \* threads made by osThreadNew; others are refused at line 125
    Kinds,      \* types of mutex that osMutexNew is asked for
    DepthLimit, \* bound on the nesting of locks
    Careful     \* TRUE if clients use the mutex as its contract asks

ASSUME ThreadsAssumption == IsFiniteSet(Threads) /\ None \notin Threads
ASSUME KindsAssumption == Kinds \subseteq {"normal", "recursive"} /\ None \notin Kinds
ASSUME DepthAssumption == DepthLimit \in Nat \ {0}
ASSUME CarefulAssumption == Careful \in BOOLEAN

VARIABLES
    kind,    \* the type of the mutex, or None while there is none
    holder,  \* the thread that locked the pthread mutex, or None
    depth,   \* how often it did
    owner,   \* the field owner: a thread, or None for NULL
    pc,      \* where each thread is in its call
    timed    \* TRUE for a waiting thread whose timeout is finite

vars == <<kind, holder, depth, owner, pc, timed>>

At(labels) == {t \in Threads : pc[t] \in labels}
Idle == pc = [t \in Threads |-> "idle"]

Init ==
    /\ kind = None
    /\ holder = None /\ depth = 0
    /\ owner = None
    /\ Idle
    /\ timed = [t \in Threads |-> FALSE]

\* Asked for priority inheritance or robustness the code returns NULL.
New(k) ==
    /\ kind = None
    /\ kind' = k
    /\ holder' = None /\ depth' = 0
    /\ owner' = None
    /\ UNCHANGED <<pc, timed>>

\* Fault: the result of pthread_mutex_destroy is ignored.
Delete_busy ==
    /\ kind # None
    /\ Idle
    /\ kind' = None
    /\ owner' = None
    /\ UNCHANGED <<holder, depth, pc, timed>>

\* pthread_mutex_destroy refuses a mutex that is locked or waited for.
Delete ==
    /\ kind # None
    /\ Idle
    /\ holder = None
    /\ kind' = None
    /\ owner' = None
    /\ UNCHANGED <<holder, depth, pc, timed>>

-----------------------------------------------------------------------------
(* The pthread mutex. *)

Lockable(t) == holder = None \/ (kind = "recursive" /\ holder = t)

Lock(t) ==
    /\ holder' = t
    /\ depth' = depth + 1

\* A normal mutex opens for whoever asks; one lock of a recursive mutex goes.
Unlockable(t) == kind = "recursive" => holder = t

Unlock ==
    /\ depth' = IF depth = 0 THEN 0 ELSE depth - 1
    /\ holder' = IF depth > 1 THEN holder ELSE None

-----------------------------------------------------------------------------
(* osMutexAcquire and osMutexRelease. *)

\* With timeout 0 and the mutex taken the call returns osErrorResource at
\* once.  A careful client does not lock a normal mutex it holds.
AcquireCall(t, finite) ==
    /\ kind # None
    /\ pc[t] = "idle"
    /\ Careful /\ kind = "normal" => holder # t
    /\ \/ /\ Lockable(t)
          /\ depth < DepthLimit
          /\ Lock(t)
          /\ pc' = [pc EXCEPT ![t] = "acq_set"]
          /\ UNCHANGED timed
       \/ /\ ~ Lockable(t)
          /\ pc' = [pc EXCEPT ![t] = "acq_wait"]
          /\ timed' = [timed EXCEPT ![t] = finite]
          /\ UNCHANGED <<holder, depth>>
    /\ UNCHANGED <<kind, owner>>

AcquireWake(t) ==
    /\ pc[t] = "acq_wait"
    /\ Lockable(t)
    /\ Lock(t)
    /\ pc' = [pc EXCEPT ![t] = "acq_set"]
    /\ timed' = [timed EXCEPT ![t] = FALSE]
    /\ UNCHANGED <<kind, owner>>

\* Fault: a lock that timed out falls through to the assignment of owner.
AcquireTimeout_owns(t) ==
    /\ pc[t] = "acq_wait"
    /\ timed[t]
    /\ owner' = t
    /\ pc' = [pc EXCEPT ![t] = "idle"]
    /\ timed' = [timed EXCEPT ![t] = FALSE]
    /\ UNCHANGED <<kind, holder, depth>>

\* ETIMEDOUT; pthread_mutex_lock is not interrupted by signals.
AcquireTimeout(t) ==
    /\ pc[t] = "acq_wait"
    /\ timed[t]
    /\ pc' = [pc EXCEPT ![t] = "idle"]
    /\ timed' = [timed EXCEPT ![t] = FALSE]
    /\ UNCHANGED <<kind, holder, depth, owner>>

AcquireSet(t) ==
    /\ pc[t] = "acq_set"
    /\ owner' = t
    /\ pc' = [pc EXCEPT ![t] = "idle"]
    /\ UNCHANGED <<kind, holder, depth, timed>>

\* Fault: the owner is cleared and the mutex kept.
ReleaseCall_keeps(t) ==
    /\ kind # None
    /\ pc[t] = "idle"
    /\ Careful => holder = t
    /\ Unlockable(t)
    /\ pc' = [pc EXCEPT ![t] = "rel_clear"]
    /\ UNCHANGED <<kind, holder, depth, owner, timed>>

\* A failing unlock (EPERM) returns osErrorResource at once.  A careful client
\* releases only a mutex it acquired.
ReleaseCall(t) ==
    /\ kind # None
    /\ pc[t] = "idle"
    /\ Careful => holder = t
    /\ Unlockable(t)
    /\ Unlock
    /\ pc' = [pc EXCEPT ![t] = "rel_clear"]
    /\ UNCHANGED <<kind, owner, timed>>

ReleaseClear(t) ==
    /\ pc[t] = "rel_clear"
    /\ owner' = None
    /\ pc' = [pc EXCEPT ![t] = "idle"]
    /\ UNCHANGED <<kind, holder, depth, timed>>

\* Reads the field without any lock.
osMutexGetOwner == owner

-----------------------------------------------------------------------------
Next ==
    \/ \E k \in Kinds : New(k)
    \/ Delete
    \/ \E t \in Threads :
          \/ \E finite \in BOOLEAN : AcquireCall(t, finite)
          \/ AcquireWake(t) \/ AcquireTimeout(t) \/ AcquireSet(t)
          \/ ReleaseCall(t) \/ ReleaseClear(t)

Spec == Init /\ [][Next]_vars

\* A thread inside a call runs on whenever it can, and clients release what
\* they hold.
Fairness ==
    \A t \in Threads :
        WF_vars(AcquireWake(t) \/ AcquireSet(t) \/ ReleaseCall(t) \/ ReleaseClear(t))

-----------------------------------------------------------------------------
\* The holder and the number of its locks go together, owner is a thread id or
\* NULL, and only an existing mutex is held or called.
TypeOK ==
    /\ kind \in Kinds \cup {None}
    /\ holder \in Threads \cup {None}
    /\ depth \in 0 .. DepthLimit
    /\ holder = None <=> depth = 0
    /\ kind = "normal" => depth <= 1
    /\ owner \in Threads \cup {None}
    /\ pc \in [Threads -> {"idle", "acq_wait", "acq_set", "rel_clear"}]
    /\ timed \in [Threads -> BOOLEAN]
    /\ kind = None => Idle /\ holder = None

\* osMutexGetOwner is late but never wrong for longer than a call lasts: the
\* thread it names holds the mutex or is still inside the Release that gave it
\* up.  So a thread that reads its own id does hold the mutex (lines 165,
\* 179-182, 200).
OwnerNamesHolder ==
    osMutexGetOwner # None =>
        holder = osMutexGetOwner \/ pc[osMutexGetOwner] = "rel_clear"

\* As long as some thread waits without a timeout, locks keep being granted:
\* the mutex does not stay taken, nor free with everybody asleep (lines 141,
\* 179).  Who gets it is open: a waiter, a caller that comes later, or the
\* holder of a recursive mutex once more.
MutexIsHandedOver ==
    (\E t \in Threads : pc[t] = "acq_wait" /\ ~ timed[t]) ~> At({"acq_set"}) # {}

\* osMutexGetOwner names the thread whose Acquire succeeded until it calls
\* Release (cmsis_os2.h line 681: "thread ID of owner thread or NULL when mutex
\* was not acquired.").
OwnerWhileHeld ==
    \A t \in Threads : holder = t /\ pc[t] = "idle" => osMutexGetOwner = t

\* POSIX sees to it that only the owner unlocks (comment of line 181: "No need
\* to ensure current thread is the owner before releasing, this is handled by
\* POSIX").
OnlyOwnerReleases ==
    [][\A t \in Threads : pc[t] = "idle" /\ pc'[t] = "rel_clear" => holder = t]_vars
=============================================================================
