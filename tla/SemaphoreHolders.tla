-------------------------- MODULE SemaphoreHolders --------------------------
(***************************************************************************)
(* A semaphore used to count a resource: its clients release only what they *)
(* acquired, one token each.  The semaphore may start with fewer tokens     *)
(* than max_count; those it started with are all its clients ever share.    *)
(***************************************************************************)
EXTENDS Semaphore

VARIABLES
    holders,    \* clients that acquired the token they will release
    initial     \* tokens the semaphore was created with

\* Threads that both acquire and release.
Clients == Acquirers \cap Releasers

hvars == <<vars, holders, initial>>

HInit == Init /\ holders = {} /\ initial = 0

HNew(max, n) ==
    /\ New(max, n)
    /\ initial' = n
    /\ UNCHANGED holders

HDelete ==
    /\ holders = {}
    /\ Delete
    /\ initial' = 0
    /\ UNCHANGED holders

\* Calls that leave the client without a token.
HAcquire(t) ==
    /\ t \notin holders
    /\ \/ \E finite \in BOOLEAN : AcquireCall(t, finite)
       \/ AcquireWake(t)
       \/ AcquireFail(t)
    /\ UNCHANGED <<holders, initial>>

HAcquired(t) ==
    /\ AcquirePost(t)
    /\ holders' = holders \cup {t}
    /\ UNCHANGED initial

HRelease(t) ==
    /\ t \in holders
    /\ ReleaseCall(t)
    /\ holders' = holders \ {t}
    /\ UNCHANGED initial

HReleased(t) ==
    /\ ReleasePost(t)
    /\ UNCHANGED <<holders, initial>>

HNext ==
    \/ \E max \in MaxCounts : \E n \in 1 .. max : HNew(max, n)
    \/ HDelete
    \/ \E t \in Clients : HAcquire(t) \/ HAcquired(t) \/ HRelease(t) \/ HReleased(t)

HSpec == HInit /\ [][HNext]_hvars

\* Clients finish their calls and give back what they hold.
HFairness ==
    \A t \in Clients :
        /\ WF_hvars(AcquireWake(t) /\ HAcquire(t))
        /\ WF_hvars(HAcquired(t) \/ HRelease(t) \/ HReleased(t))

HLiveSpec == HSpec /\ HFairness

-----------------------------------------------------------------------------
\* Never more clients between a successful Acquire and their Release than the
\* semaphore had tokens, and the rest are in avail or on their way.
AtMostInitial ==
    avail + Cardinality(At({"acq_post"})) + Cardinality(holders)
          + Cardinality(At({"rel_post"})) = initial

\* A client that holds a token is never refused its Release: although used is
\* raised after avail is taken and lowered by whoever releases first, there
\* is a used token for every holder (lines 97, 117).
HolderReleaseSucceeds ==
    \A t \in holders : pc[t] = "idle" => used > 0

\* While a client waits for ever, clients keep acquiring: a token that is
\* given back reaches avail and wakes somebody.
WaitersProceed ==
    (\E t \in Clients : pc[t] = "acq_wait" /\ ~ timed[t])
        ~> (\E t \in Clients : pc[t] = "acq_post")
=============================================================================
