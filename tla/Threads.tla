------------------------------ MODULE Threads ------------------------------
(***************************************************************************)
(* osThread* of cmsisPosix_Thread.c with osKernelInitialize and             *)
(* osKernelStart of cmsisPosix_Kernel.c.  A thread id is a pointer to a     *)
(* handler on the heap.  The creator allocates it, both the creator and the *)
(* new thread store the pthread_t in it, and the destructor of a            *)
(* thread-specific key frees it when the thread ends.                       *)
(*                                                                          *)
(* Which thread runs is decided by the scheduler: with SCHED_RR a thread of *)
(* the highest priority, several of them in turns; SCHED_FIFO allows a part *)
(* of that; with SCHED_OTHER, or when the threads could not be pinned to    *)
(* one CPU, any thread.  Priorities are relative to cp_threadMinPriority.   *)
(***************************************************************************)
EXTENDS Integers, FiniteSets

CONSTANTS
    Main,            \* the thread that calls osKernelInitialize
    Threads,         \* pthreads that can exist besides; a pthread_t is reused
    Handlers,        \* places of the heap for a handler
    Requests,        \* priorities the clients ask for, 0 for the default
    osPriorityNormal,
    osPriorityISR,
    Highest,         \* the greatest priority of the scheduling policy
    Policies,        \* values of CP_SCHED
    AffinityMayFail, \* TRUE if CPU 0 may be forbidden to the process
    Patient,         \* TRUE if threads do not end before osThreadNew returned
    None

ASSUME PrioritiesAssumption ==
    /\ {osPriorityNormal, osPriorityISR, Highest} \subseteq Nat
    /\ 0 < osPriorityNormal /\ osPriorityNormal < osPriorityISR
    /\ osPriorityISR <= Highest
    \* Of the enumerators only osPriorityReserved lies above osPriorityISR.
    /\ \A p \in Requests : p \in Nat /\ (p <= osPriorityISR \/ p > Highest)
ASSUME NamesAssumption ==
    /\ Main \notin Threads
    /\ None \notin Threads \cup Handlers \cup {Main}
ASSUME SchedulingAssumption ==
    /\ Policies \subseteq {"SCHED_OTHER", "SCHED_RR"}
    /\ AffinityMayFail \in BOOLEAN /\ Patient \in BOOLEAN

VARIABLES
    policy,   \* CP_SCHED
    pinned,   \* TRUE once all threads share one CPU
    pc,       \* where each thread is
    prio,     \* its priority
    arg,      \* the handler given to pthread_create for it, or None
    key,      \* its value of cp_threadDataKey
    detached, \* threads that pthread_detach was called for
    live,     \* handlers that are allocated
    thread,   \* the field thread of each handler
    new       \* the handler and the thread an osThreadNew is about

vars == <<policy, pinned, pc, prio, arg, key, detached, live, thread, new>>

Everybody == Threads \cup {Main}
NoCall == [handler |-> None, child |-> None]

-----------------------------------------------------------------------------
(* The scheduler. *)

Runnable(t) == pc[t] \notin {"blocked", "ended"}

\* With SCHED_OTHER there are no priorities.
Level(p) == IF policy = "SCHED_OTHER" THEN 0 ELSE p

\* Whether priorities decide who runs.
Real == policy # "SCHED_OTHER" /\ pinned

\* The main thread has SCHED_FIFO: equal priority does not preempt it.
MayRun(t) ==
    /\ Runnable(t)
    /\ Real => \A u \in Everybody \ {t} :
                  Runnable(u) => prio[u] < prio[t] \/ (prio[u] = prio[t] /\ u # Main)

Init ==
    /\ policy \in Policies
    /\ pinned = FALSE
    /\ pc = [t \in Everybody |-> IF t = Main THEN "boot" ELSE "ended"]
    /\ prio = [t \in Everybody |-> 0]
    /\ arg = [t \in Threads |-> None]
    /\ key = [t \in Threads |-> None]
    /\ detached = Threads
    /\ live = {}
    /\ thread = [h \in Handlers |-> None]
    /\ new = [t \in Everybody |-> NoCall]

-----------------------------------------------------------------------------
(* osKernelInitialize and osKernelStart. *)

\* That the affinity is refused is printed and ignored.
cp_threadUseSingleCpu ==
    pinned' \in (IF AffinityMayFail THEN BOOLEAN ELSE {TRUE})

\* Fault: the main thread gets the priority of any other.
osKernelInitialize_normal ==
    /\ pc[Main] = "boot"
    /\ cp_threadUseSingleCpu
    /\ prio' = [prio EXCEPT ![Main] = Level(osPriorityNormal)]
    /\ pc' = [pc EXCEPT ![Main] = "body"]
    /\ UNCHANGED <<policy, arg, key, detached, live, thread, new>>

\* The key is created, and the policy has the priorities the code checks for
\* (PrioritiesAssumption): without them osError is returned.
osKernelInitialize ==
    /\ pc[Main] = "boot"
    /\ cp_threadUseSingleCpu
    /\ prio' = [prio EXCEPT ![Main] = Level(osPriorityISR)]
    /\ pc' = [pc EXCEPT ![Main] = "body"]
    /\ UNCHANGED <<policy, arg, key, detached, live, thread, new>>

\* Fault: the function returns and the main thread goes on.
osKernelStart_returns ==
    /\ MayRun(Main)
    /\ pc[Main] = "body"
    /\ UNCHANGED vars

\* The main thread ends; it has no handler.
osKernelStart ==
    /\ MayRun(Main)
    /\ pc[Main] = "body"
    /\ pc' = [pc EXCEPT ![Main] = "ended"]
    /\ UNCHANGED <<policy, pinned, prio, arg, key, detached, live, thread, new>>

-----------------------------------------------------------------------------
(* osThreadNew, called by t. *)

\* A thread that ended and is detached is gone; its pthread_t is used again.
Unused == {c \in detached : pc[c] = "ended"}

Asked(request) == IF request > 0 THEN request ELSE osPriorityNormal

\* The policy refuses the priority: NULL is returned and the handler is lost.
NewRefused(t, request) ==
    /\ MayRun(t)
    /\ pc[t] = "body"
    /\ policy # "SCHED_OTHER" /\ Asked(request) > Highest
    /\ \E h \in Handlers \ live : live' = live \cup {h}
    /\ UNCHANGED <<policy, pinned, pc, prio, arg, key, detached, thread, new>>

\* pthread_create succeeds and from here on c may run, or it fails.
NewCreate(t, request) ==
    /\ MayRun(t)
    /\ pc[t] = "body"
    /\ policy # "SCHED_OTHER" => Asked(request) <= Highest
    /\ \E h \in Handlers \ live :
          /\ live' = live \cup {h}
          /\ \/ \E c \in Unused :
                  /\ pc' = [pc EXCEPT ![c] = "ready", ![t] = "store"]
                  /\ prio' = [prio EXCEPT ![c] = Level(Asked(request))]
                  /\ arg' = [arg EXCEPT ![c] = h]
                  /\ detached' = detached \ {c}
                  /\ new' = [new EXCEPT ![t] = [handler |-> h, child |-> c]]
             \/ /\ pc' = [pc EXCEPT ![t] = "store"]
                /\ new' = [new EXCEPT ![t] = [handler |-> h, child |-> None]]
                /\ UNCHANGED <<prio, arg, detached>>
    /\ UNCHANGED <<policy, pinned, key, thread>>

\* Line 165: wherever the handler is by now.
NewStore(t) ==
    /\ MayRun(t)
    /\ pc[t] = "store"
    /\ thread' = [thread EXCEPT ![new[t].handler] = new[t].child]
    /\ pc' = [pc EXCEPT ![t] = "return"]
    /\ UNCHANGED <<policy, pinned, prio, arg, key, detached, live, new>>

Return(t) ==
    /\ MayRun(t)
    /\ pc[t] = "return"
    /\ pc' = [pc EXCEPT ![t] = "body"]
    /\ new' = [new EXCEPT ![t] = NoCall]
    /\ UNCHANGED <<policy, pinned, prio, arg, key, thread>>

\* Fault: the handler is kept.
NewFail_leaks(t) ==
    /\ new[t].child = None
    /\ Return(t)
    /\ UNCHANGED <<live, detached>>

\* Fault: a thread that was not created is detached.
NewFail_detaches(t) ==
    /\ new[t].child = None
    /\ Return(t)
    /\ live' = live \ {new[t].handler}
    /\ detached' = detached \cup {new[t].child}

\* pthread_create failed: the handler is freed.
NewFail(t) ==
    /\ new[t].child = None
    /\ Return(t)
    /\ live' = live \ {new[t].handler}
    /\ UNCHANGED detached

\* Fault: the thread stays joinable.
NewReturn_joinable(t) ==
    /\ new[t].child # None
    /\ Return(t)
    /\ UNCHANGED <<live, detached>>

\* The thread is detached, whether it still runs or has ended.
NewReturn(t) ==
    /\ new[t].child # None
    /\ Return(t)
    /\ detached' = detached \cup {new[t].child}
    /\ UNCHANGED live

-----------------------------------------------------------------------------
(* The life of a thread. *)

\* The osThreadNew that made c has not returned.
BeingMade(c) == \E t \in Everybody : pc[t] \in {"store", "return"} /\ new[t].child = c

\* Fault: the thread relies on its creator to have stored the pthread_t.
cp_threadWrapper_trusts(c) ==
    /\ MayRun(c)
    /\ pc[c] = "ready"
    /\ key' = [key EXCEPT ![c] = arg[c]]
    /\ pc' = [pc EXCEPT ![c] = "body"]
    /\ UNCHANGED <<policy, pinned, prio, arg, detached, live, thread, new>>

cp_threadWrapper(c) ==
    /\ MayRun(c)
    /\ pc[c] = "ready"
    /\ thread' = [thread EXCEPT ![arg[c]] = c]
    /\ key' = [key EXCEPT ![c] = arg[c]]
    /\ pc' = [pc EXCEPT ![c] = "body"]
    /\ UNCHANGED <<policy, pinned, prio, arg, detached, live, new>>

\* The destructor of the key frees what the thread stored there.
cp_threadDataCleanup(c) == live' = live \ {key[c]}

\* The thread returns or calls osThreadExit.  Patient threads wait for their
\* creator, unless that is the main thread, which priorities are said to
\* protect.
osThreadExit(c) ==
    /\ MayRun(c)
    /\ pc[c] = "body"
    /\ Patient /\ BeingMade(c) => Real /\ new[Main].child = c
    /\ cp_threadDataCleanup(c)
    /\ key' = [key EXCEPT ![c] = None]
    /\ arg' = [arg EXCEPT ![c] = None]
    /\ prio' = [prio EXCEPT ![c] = 0]
    /\ pc' = [pc EXCEPT ![c] = "ended"]
    /\ UNCHANGED <<policy, pinned, detached, thread, new>>

\* A thread waits for something and gets it.
Block(c) ==
    /\ MayRun(c)
    /\ pc[c] = "body"
    /\ pc' = [pc EXCEPT ![c] = "blocked"]
    /\ UNCHANGED <<policy, pinned, prio, arg, key, detached, live, thread, new>>

Unblock(c) ==
    /\ pc[c] = "blocked"
    /\ pc' = [pc EXCEPT ![c] = "body"]
    /\ UNCHANGED <<policy, pinned, prio, arg, key, detached, live, thread, new>>

\* What pthread_getspecific finds is the id; the main thread has none.
osThreadGetId(c) == key[c]

\* What clients keep to, not a check of the code: they know the id of c from
\* osThreadNew or from c itself, and use it only until c ends.
Known(c) ==
    /\ pc[c] # "ended"
    /\ c \in detached \/ pc[c] # "ready"

osThreadSetPriority(t, c, p) ==
    /\ MayRun(t)
    /\ pc[t] = "body"
    /\ Known(c)
    /\ policy # "SCHED_OTHER" /\ p <= Highest
    /\ prio' = [prio EXCEPT ![thread[arg[c]]] = p]
    /\ UNCHANGED <<policy, pinned, pc, arg, key, detached, live, thread, new>>

-----------------------------------------------------------------------------
Next ==
    \/ osKernelInitialize
    \/ osKernelStart
    \/ \E t \in Everybody :
          \/ \E p \in Requests :
                \/ NewRefused(t, p) \/ NewCreate(t, p)
                \/ \E c \in Threads : osThreadSetPriority(t, c, p)
          \/ NewStore(t) \/ NewFail(t) \/ NewReturn(t)
    \/ \E c \in Threads :
          cp_threadWrapper(c) \/ osThreadExit(c) \/ Block(c) \/ Unblock(c)

Spec == Init /\ [][Next]_vars

\* A thread that may run does, and the main thread starts the kernel after
\* finitely many calls of osThreadNew.
Fairness ==
    /\ WF_vars(osKernelInitialize) /\ SF_vars(osKernelStart)
    /\ \A t \in Everybody : WF_vars(NewStore(t) \/ NewFail(t) \/ NewReturn(t))
    /\ \A c \in Threads : WF_vars(cp_threadWrapper(c))

LiveSpec == Spec /\ Fairness

-----------------------------------------------------------------------------
\* Every value has its type; a thread has a handler until it ends, and a call
\* of osThreadNew has one while it is in progress.
TypeOK ==
    /\ policy \in Policies
    /\ pinned \in BOOLEAN
    /\ pc \in [Everybody -> {"boot", "ready", "body", "blocked", "store", "return", "ended"}]
    /\ prio \in [Everybody -> 0 .. Highest]
    /\ arg \in [Threads -> Handlers \cup {None}]
    /\ key \in [Threads -> Handlers \cup {None}]
    /\ detached \subseteq Threads
    /\ live \subseteq Handlers
    /\ thread \in [Handlers -> Threads \cup {None}]
    /\ new \in [Everybody -> [handler : Handlers, child : Threads \cup {None}] \cup {NoCall}]
    /\ \A c \in Threads : arg[c] = None <=> pc[c] = "ended"
    /\ \A t \in Everybody : pc[t] \in {"store", "return"} <=> new[t] # NoCall

\* With priorities that decide, no thread runs before the main thread has left
\* in osKernelStart, whatever priorities the threads were given (comment of
\* line 96).
NobodyBeforeStart ==
    Real /\ pc[Main] # "ended" => \A c \in Threads : pc[c] \in {"ready", "ended"}

\* osThreadGetId gives the id that osThreadNew returned or will return, and
\* through it osThreadSetPriority reaches that very thread, whether the
\* creator or the thread came first to lines 60 and 165.
HandlerNamesThread ==
    \A c \in Threads : pc[c] \notin {"ready", "ended"} =>
        /\ osThreadGetId(c) = arg[c] /\ osThreadGetId(c) \in live
        /\ thread[osThreadGetId(c)] = c

\* The creator's store at line 165 goes to the handler it allocated, and to
\* nobody else's, also when the thread came first (comments of lines 60 and
\* 165: "Storing here in case ran before the wrapper function ran").
StoreHitsOwnHandler ==
    \A t \in Everybody : pc[t] = "store" =>
        /\ new[t].handler \in live
        /\ \A c \in Threads : arg[c] = new[t].handler => c = new[t].child

InUse ==
    {arg[c] : c \in {u \in Threads : pc[u] # "ended"}}
    \cup {new[t].handler : t \in {u \in Everybody : new[u] # NoCall /\ new[u].child = None}}

\* A handler stays with its thread or its creation until it is freed: none is
\* lost when pthread_create fails or a thread ends, and none is freed while it
\* is needed (lines 34, 171).  What lines 149 and 154 lose was never in use.
HandlersAreFreed ==
    [][InUse' \subseteq live' /\ InUse \subseteq InUse' \cup (Handlers \ live')]_vars

\* A thread that ended is detached or about to be by its creator; its stack
\* and its pthread_t are not kept for a join that never comes (line 176).
NoZombies == \A c \in Threads : pc[c] = "ended" => c \in detached \/ BeingMade(c)

\* The main thread makes way: a new thread gets to run unless threads of its
\* own priority or a higher one keep the CPU (line 20 of cmsisPosix_Kernel.c).
MainMakesWay ==
    \A c \in Threads :
        pc[c] = "ready" ~>
            \/ pc[c] # "ready"
            \/ Real /\ \E u \in Threads \ {c} : Runnable(u) /\ prio[u] >= prio[c]
=============================================================================
