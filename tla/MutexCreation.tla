---------------------------- MODULE MutexCreation ----------------------------
(* osMutexNew and osMutexDelete in detail, around the threads that use the   *)
(* mutex in between.  The attributes live on the stack of osMutexNew.        *)
EXTENDS Mutex, Sequences

VARIABLES stage, made

\* The label error_exit; free(NULL) does nothing.
error_exit == {"mutex_attr", "handler"}

\* The mutex cannot be had if priority inheritance or robustness is asked for,
\* or if pthread_mutexattr_settype or pthread_mutex_init fails.
Parts == <<"mutex_attr", "handler", "mutex">>

\* osMutexNew has no second stage of allocations.
Arrays == {}

Cleanup == <<{}, error_exit \ {"handler"}, error_exit>>

\* Fault: the attributes are destroyed on the path of an error only.
Temporary_kept == {}

Temporary == {"mutex_attr"}

Deleted == {"mutex", "handler"}

C == INSTANCE Creation

cvars == <<stage, made>>

CInit == Init /\ C!Init

CNew ==
    \/ (C!Initialise \/ C!InitialiseFails \/ C!Allocate) /\ UNCHANGED vars
    \/ C!Return /\ \E k \in Kinds : New(k)

CDelete == C!Delete /\ Delete

CNext ==
    \/ CNew
    \/ CDelete
    \/ Next /\ kind' = kind /\ UNCHANGED cvars

CSpec == CInit /\ [][CNext]_<<vars, cvars>> /\ Fairness

-----------------------------------------------------------------------------
\* Wherever New fails, it leaves nothing behind and releases only what it had
\* initialised; whoever has a mutex has its handler and its pthread mutex, but
\* no attributes, also when Delete refused to destroy it while it was locked
\* (lines 30-110, 212-220).
NothingLeft ==
    /\ \A p \in C!Everything :
          /\ made[p] \in {0, 1}
          /\ stage = 0 => made[p] = 0
          /\ kind # None => (made[p] = 1 <=> p # "mutex_attr")
    /\ stage = C!Ready <=> kind # None
=============================================================================
