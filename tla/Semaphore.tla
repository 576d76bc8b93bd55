----------------------------- MODULE Semaphore -----------------------------
(***************************************************************************)
(* osSemaphore* of cmsisPosix_Semaphore.c.  A POSIX semaphore has no upper  *)
(* bound, so the wrapper keeps two of them: avail, the tokens left, and     *)
(* used, the tokens that may still be released.  Acquire moves a token from *)
(* avail to used, Release from used to avail, each in two steps between     *)
(* which the token is in neither.                                           *)
(***************************************************************************)
EXTENDS Posix

CONSTANTS
    Acquirers,  \* threads that call osSemaphoreAcquire
    Releasers,  \* threads that call osSemaphoreRelease (the sets may overlap)
    MaxCounts   \* values of max_count

Threads == Acquirers \cup Releasers

ASSUME ThreadsAssumption == IsFiniteSet(Threads)
ASSUME MaxCountsAssumption == MaxCounts \subseteq 1 .. Word - 1

VARIABLES
    max_count,  \* 0 while no semaphore exists
    avail,      \* value of the semaphore avail
    used,       \* value of the semaphore used
    pc,         \* where each thread is in its call
    timed       \* TRUE for a waiting thread whose timeout is finite

vars == <<max_count, avail, used, pc, timed>>

At(labels) == {t \in Threads : pc[t] \in labels}
Idle == pc = [t \in Threads |-> "idle"]

Init ==
    /\ max_count = 0
    /\ avail = 0 /\ used = 0
    /\ Idle
    /\ timed = [t \in Threads |-> FALSE]

\* Fault: the result of the second sem_init is not looked at, and a count it
\* refuses leaves used what malloc returned.
New_unchecked(max, initial) ==
    /\ max_count = 0
    /\ initial <= max
    /\ initial <= SemValueMax
    /\ max_count' = max
    /\ avail' = initial
    /\ IF max - initial <= SemValueMax
       THEN used' = max - initial
       ELSE used' \in 0 .. Word - 1
    /\ UNCHANGED <<pc, timed>>

\* Counts that line 26 or sem_init refuses leave no semaphore.
New(max, initial) ==
    /\ max_count = 0
    /\ initial <= max
    /\ initial <= SemValueMax /\ max - initial <= SemValueMax
    /\ max_count' = max
    /\ avail' = initial
    /\ used' = max - initial
    /\ UNCHANGED <<pc, timed>>

\* Called when no thread is inside a call on the semaphore.
Delete ==
    /\ max_count # 0
    /\ Idle
    /\ max_count' = 0
    /\ avail' = 0 /\ used' = 0
    /\ UNCHANGED <<pc, timed>>

\* With timeout 0 and no token the call returns osErrorResource at once.
AcquireCall(t, finite) ==
    /\ max_count # 0
    /\ pc[t] = "idle"
    /\ \/ /\ avail > 0
          /\ avail' = avail - 1
          /\ pc' = [pc EXCEPT ![t] = "acq_post"]
          /\ UNCHANGED timed
       \/ /\ avail = 0
          /\ pc' = [pc EXCEPT ![t] = "acq_wait"]
          /\ timed' = [timed EXCEPT ![t] = finite]
          /\ UNCHANGED avail
    /\ UNCHANGED <<max_count, used>>

AcquireWake(t) ==
    /\ pc[t] = "acq_wait"
    /\ avail > 0
    /\ avail' = avail - 1
    /\ pc' = [pc EXCEPT ![t] = "acq_post"]
    /\ timed' = [timed EXCEPT ![t] = FALSE]
    /\ UNCHANGED <<max_count, used>>

\* Fault: a wait that failed gives back a token it never took.
AcquireFail_posts(t) ==
    /\ pc[t] = "acq_wait"
    /\ timed[t] \/ Signals
    /\ avail' = SemPost(avail)
    /\ pc' = [pc EXCEPT ![t] = "idle"]
    /\ timed' = [timed EXCEPT ![t] = FALSE]
    /\ UNCHANGED <<max_count, used>>

\* ETIMEDOUT returns osErrorTimeout, EINTR osErrorResource.
AcquireFail(t) ==
    /\ pc[t] = "acq_wait"
    /\ timed[t] \/ Signals
    /\ pc' = [pc EXCEPT ![t] = "idle"]
    /\ timed' = [timed EXCEPT ![t] = FALSE]
    /\ UNCHANGED <<max_count, avail, used>>

\* Fault: the token an Acquire took is never recorded as used.
AcquirePost_silent(t) ==
    /\ pc[t] = "acq_post"
    /\ pc' = [pc EXCEPT ![t] = "idle"]
    /\ UNCHANGED <<max_count, avail, used, timed>>

AcquirePost(t) ==
    /\ pc[t] = "acq_post"
    /\ used' = SemPost(used)
    /\ pc' = [pc EXCEPT ![t] = "idle"]
    /\ UNCHANGED <<max_count, avail, timed>>

\* Fault: Release does not look whether a token is in use.
ReleaseCall_unchecked(t) ==
    /\ max_count # 0
    /\ pc[t] = "idle"
    /\ pc' = [pc EXCEPT ![t] = "rel_post"]
    /\ UNCHANGED <<max_count, avail, used, timed>>

\* When sem_trywait fails the call returns osErrorResource at once.
ReleaseCall(t) ==
    /\ max_count # 0
    /\ pc[t] = "idle"
    /\ used > 0
    /\ used' = used - 1
    /\ pc' = [pc EXCEPT ![t] = "rel_post"]
    /\ UNCHANGED <<max_count, avail, timed>>

\* Fault: the wrong semaphore is posted.
ReleasePost_used(t) ==
    /\ pc[t] = "rel_post"
    /\ used' = SemPost(used)
    /\ pc' = [pc EXCEPT ![t] = "idle"]
    /\ UNCHANGED <<max_count, avail, timed>>

ReleasePost(t) ==
    /\ pc[t] = "rel_post"
    /\ avail' = SemPost(avail)
    /\ pc' = [pc EXCEPT ![t] = "idle"]
    /\ UNCHANGED <<max_count, used, timed>>

\* Tokens that calls in flight have given up or not yet got are not reported.
osSemaphoreGetCount == avail

Next ==
    \/ \E max \in MaxCounts : \E initial \in 0 .. max : New(max, initial)
    \/ Delete
    \/ \E t \in Acquirers :
          \/ \E finite \in BOOLEAN : AcquireCall(t, finite)
          \/ AcquireWake(t) \/ AcquireFail(t) \/ AcquirePost(t)
    \/ \E t \in Releasers : ReleaseCall(t) \/ ReleasePost(t)

Spec == Init /\ [][Next]_vars

\* A thread inside a call runs on whenever it can.
Fairness ==
    /\ \A t \in Acquirers : WF_vars(AcquireWake(t) \/ AcquirePost(t))
    /\ \A t \in Releasers : WF_vars(ReleasePost(t))

LiveSpec == Spec /\ Fairness

-----------------------------------------------------------------------------
\* Both semaphores are within what sem_init accepted, and calls in flight
\* only exist while the semaphore does.
TypeOK ==
    /\ max_count \in MaxCounts \cup {0}
    /\ avail \in 0 .. SemValueMax /\ used \in 0 .. SemValueMax
    /\ pc \in [Threads -> {"idle", "acq_wait", "acq_post", "rel_post"}]
    /\ timed \in [Threads -> BOOLEAN]
    /\ max_count = 0 => Idle

\* A token is in avail, in used or in the hands of one call: whatever
\* interleaving of Acquire and Release (lines 77-98, 117-121), and whatever
\* waits time out, none appears, and none is lost.  A semaphore that was asked
\* to count beyond SEM_VALUE_MAX, which lines 26-46 let pass, does lose the
\* tokens of a post that fails (lines 97, 120), but keeps SEM_VALUE_MAX.
TokenConservation ==
    LET total == osSemaphoreGetCount + used + Cardinality(At({"acq_post"}))
                                 + Cardinality(At({"rel_post"}))
    IN  total = max_count \/ (SemValueMax <= total /\ total < max_count)

\* A token that a Release has begun to give back while some thread waits for
\* ever is not left lying: it is posted, and one of the waiters or a later
\* caller leaves with it (lines 85, 120).
SignalWakes ==
    (\E t \in Acquirers : pc[t] = "acq_wait" /\ ~ timed[t]) /\ At({"rel_post"}) # {}
        ~> At({"acq_post"}) # {}

\* A Release succeeds unless the semaphore already has all its tokens
\* (cmsis_os2.h line 710: "Release a Semaphore token up to the initial maximum
\* count.").  The code refuses it as well while the token of an Acquire has
\* left avail and not yet reached used (lines 77-97 against 117).
ReleaseUpToMaximum == avail < max_count /\ At({"rel_post"}) = {} => used > 0
=============================================================================
