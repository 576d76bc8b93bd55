# Formal models of CMSIS-POSIX

CMSIS-POSIX implements a part of the CMSIS-RTOS2 API on top of pthreads and
POSIX semaphores. Each kind of object is a C file of a few hundred lines that
wraps one or several POSIX objects. None of the wrappers is hard by itself;
what is hard is that each is built from *several* POSIX objects that are taken
and given back at different moments, so that what the wrapper promises only
holds across the calls that are in flight. That is what is modelled here.

## Inventory

| Component | State | Operations | Hard part | Correct when |
|---|---|---|---|---|
| Message queue (`cmsisPosix_MessageQueue.c`) | semaphores `avail` and `used`, a mutex, ring `buffer`/`priorities`/`head`/`tail` | New, Put, Get, Delete; queries | tokens are taken before and posted after the mutex; the scan of Put shifts messages one by one | it is a bounded priority queue, first in first out within a priority; nobody waits for what is there |
| Memory pool (`cmsisPosix_MemoryPool.c`) | semaphore `sem`, a mutex, `used_flags` | New, Alloc, Free, Delete; queries | the token is taken before the flag is set and posted after it is cleared; Free gets any pointer | a block has one owner; an Alloc with a token finds a block |
| Semaphore (`cmsisPosix_Semaphore.c`) | POSIX semaphores `avail` and `used`, `max_count` | New, Acquire, Release, Delete; query | a token moves between the two in two steps | tokens are neither lost nor invented; holders may release; signals wake |
| Mutex (`cmsisPosix_Mutex.c`) | a pthread mutex and the field `owner` | New, Acquire, Release, GetOwner, Delete | `owner` is written outside the critical section | the reported owner holds the mutex; locks keep being granted while somebody waits |
| Threads (`cmsisPosix_Thread.c`) | one handler per thread, freed by the destructor of a thread-specific key; CPU affinity | New, GetId, GetName, SetPriority, Yield, Exit | creator and new thread both write the handler, which its thread frees when it ends | an id names its thread until that ends; threads, and the handlers they had, are freed |
| Kernel (`cmsisPosix_Kernel.c`) | none of its own | Initialize, Start, tick count and frequency | Initialize relies on priorities, Start ends the main thread; the tick count wraps | the tick count measures delays; no thread runs before Start when priorities are real |
| Delays and time-outs (`cmsisPosix_Delay.c`, `cmsisPosix_Common.c`) | the deadline of a sleeping call | Delay, DelayUntil, `cp_timeoutToTimespec` | 32-bit tick arithmetic, carries into seconds, two readings of the clock, signals | deadlines are as far ahead as the target; no delay is measured too short |
| Configuration and API header (`inc/`) | compile-time constants: the scheduling policy, the length of a tick | - | - | - |

The components meet in three places. Message queues, pools, semaphores and
mutexes turn a time-out into an absolute time with `cp_timeoutToTimespec`;
Mutex.Acquire asks `osThreadGetId` and refuses callers that have no handler;
Kernel.Initialize calls `cp_threadInitSystem`. All other interaction is between
threads through one object.

All threads are pinned to one CPU, but they are preempted anywhere, so the
modules interleave freely. Only `Threads`, which is about priorities, says who may
run.

## Modules

| Module | What it is |
|---|---|
| `Posix` | widths and limits of the platform, `sem_post` at its limit |
| `PriorityQueue` | abstract specification of a message queue: a bounded sequence |
| `MessageQueue` | the message queue in detail, and the mapping to `PriorityQueue` |
| `Creation` | how New builds an object from parts of which any may fail, and how Delete takes it apart |
| `MessageQueueCreation`, `MemoryPoolCreation`, `MutexCreation` | the queue, the pool and the mutex with their New and Delete in these steps |
| `MCMessageQueue` | instances of the queue for TLC |
| `Semaphore` | the semaphore, used by any threads in any way |
| `SemaphoreHolders` | the same with clients that release only what they acquired |
| `MemoryPool` | the memory pool, with disciplined or undisciplined clients |
| `Mutex` | the mutex and its owner field, with careful or careless clients |
| `Threads` | threads, their handlers and their priorities, from Initialize to Start and beyond |
| `Ticks` | the conversion of ticks to deadlines, the tick count, delays |
| `Counting` | lemmas on how a step of one thread changes a count of threads |
| `*Proofs` | theorems about the module they are named after |

### How they correspond to the code

One step is one operation on a POSIX object, together with the thread-local
code around it. `pc[t]` says before which operation thread `t` is:
`put_lock` is before line 152 of the message queue, `put_post` before line 179,
and so on. A call that fails without waiting (time-out 0 and no token, a null
argument, a refused size) changes nothing and is no step at all. Everything
that happens while a mutex is held by one thread could be one step; it is split
where a broken mutex would show (the message queue's scan takes one step per
iteration, an Alloc finds a block and marks it in two).

A POSIX semaphore is its value. A wait (`sem_wait`, `sem_timedwait`) either
takes a token at once or moves the thread to a waiting label, from which it
goes on when the value allows it (`...Wake`) or gives up (`...Fail`). The model
says nothing about the order of waiters; neither does POSIX for the default
scheduling. `timed[t]` records whether the time-out is finite: only such a wait
times out. There time itself is abstracted: a time-out is an event that may happen at
any moment of such a wait. With `Signals` TRUE every semaphore wait may also
end with EINTR.

A pthread mutex is its holder (and for `osMutex` the number of locks).
`sem_post` at `SEM_VALUE_MAX` fails; the wrappers ignore its result, so `SemPost`
leaves the value alone. `osSemaphoreNew` accepts a `max_count` above that limit, and
`Semaphore` has such sizes.

The queries (`osMessageQueueGetCount` and so on) change nothing. They are operators
that say what a call would return at this moment, and the properties about tokens and owners
are stated with them.

In `MessageQueueCreation`, `MemoryPoolCreation` and `MutexCreation`, New is a sequence of
initialisations each of which may fail (`InitialiseFails` releases what the code lists at
that place), then the two allocations, then `Return` (which is the New of the module
they extend) or `Discard` (which passes the unfinished object to Delete). `made`
counts for every part how often it was initialised and not released. `Temporary` is what
New destroys when it succeeds: the attributes of a mutex.

Objects are created before the threads use them and deleted when no call on
them is in flight. This is how the tests use them, and the code does not
survive anything else: it frees the memory without any check.

`Ticks` has time: the real-time clock in nanoseconds, advanced between any two
steps of a thread that calls `osDelay` and `osDelayUntil` with any number of
ticks. `cp_timeoutToTimespec` and `osKernelGetTickCount` get the clock they read as
an argument. `pc` is "until" between the two readings of an `osDelayUntil`.
`start` and `target` are not in the code: they record the moment of the call and the tick the caller
wants to sleep until, numbered from the epoch without wrapping (for `osDelayUntil` the first tick from
now on at which the count reads the argument). The properties compare the deadline and the time slept with
`target`, not with the `delta` the code computes, so a wrong subtraction at line 35 would show.
Seconds and nanoseconds are 64 bits wide and do not overflow in this century, so
only the tick counts are reduced modulo `Word`.

`Threads` has a heap of `Handlers`; `malloc` picks any that is not `live`, `free`
takes it out of `live`, and `pthread_create` likewise uses a `pthread_t` again once its
thread has ended and is detached. A store to a handler goes where the pointer points,
whoever owns that memory by then. The two stores of the `pthread_t` (lines 60 and 165)
are the actions `cp_threadWrapper` and `NewStore`. Which thread may run (`MayRun`) is a guard of the
actions: with real priorities (`Real`: a real-time policy on one CPU) one of the
highest runnable priority, several of them in any turns, which covers `SCHED_RR` with
any time slice and all that `SCHED_FIFO` does; the main thread has `SCHED_FIFO` and is not
preempted by its equals. With `SCHED_OTHER`, or if the affinity was refused, anybody
runs. Priorities are relative to `cp_threadMinPriority`. A thread may block and be
unblocked at any moment; the main thread is not assumed to block before it calls
`osKernelStart`. `Patient` is the discipline that makes the store of line 165 safe: no thread ends
before the `osThreadNew` that made it has returned, unless the priority of the main
thread sees to it (`StoreHitsOwnHandler`); what happens without it is the run `threads_early`, and `NoZombies` is
proved without it (`NothingToJoin`). Clients use an id only until its thread ends: `Known` is this
duty of theirs, the code has no such check.

Message contents are model values, sizes in bytes are left out. The indices of
the ring are numbers modulo `Word`, as in the code.

Operators whose comment begins with "Fault:" are not part of any
specification. Each is a definition of the module with a plausible bug, kept
beside the original to show that a property would find it.

## Runs

| Run | Config | Shows |
|---|---|---|
| `mq` | `MCMessageQueue.cfg` | types, tokens, ring indices and order; every behaviour is one of `PriorityQueue`; a failing New leaves nothing behind |
| `mq_live` | `MessageQueueLive.cfg` | a waiting Get is fed, waiting Puts go through, urgent messages are delivered |
| `sem` | `Semaphore.cfg` | no token is invented, none lost that POSIX can count; a signal wakes a waiter |
| `sem_release` | `SemaphoreRelease.cfg` | violation: Release refused below the maximum |
| `sem_holders` | `SemaphoreHolders.cfg` | at most `initial` holders, each may release, tokens keep being acquired while somebody waits |
| `pool` | `MemoryPool.cfg` | blocks have one owner, an Alloc with a token finds one, a freed one is allocated again while somebody waits; a failing New leaves nothing behind |
| `mutex` | `Mutex.cfg` | the reported owner holds the mutex or is releasing it; while somebody waits, locks keep being granted (to the waiter, to another caller, or once more to the holder of a recursive mutex); a failing New leaves nothing behind |
| `ticks` | `Ticks.cfg` | deadlines are valid and exactly as far ahead as the target named by the caller; the tick count never shows a delay too short |
| `threads` | `Threads.cfg` | ids name their threads, threads and the handlers they had are not leaked (the handler of a refused osThreadNew is, see Findings), nobody runs before Start and then everybody may |
| `threads_early` | `ThreadsEarly.cfg` | violation: osThreadNew writes into a handler that was freed |
| `mutex_owner` | `MutexOwner.cfg` | violation: owner lost to the Release of another thread or of an inner lock |
| `mutex_non_owner` | `MutexNonOwner.cfg` | violation: a thread releases a mutex it does not hold |

### Bounds

* Message queue: rings of 1, 2 and 3 slots (`SemValueMax` is the bound, New
  chooses) so that head and tail meet full, empty and wrapped; two priorities
  and two payloads so that a message can overtake, be overtaken and be
  confused; two threads per role, one of them in both roles, so that every pair
  of actions of two calls of the same or of different operations interleaves.
  Permuting payloads permutes behaviours, so they are a symmetry set of that
  run, which checks safety only.
* Liveness of the message queue: two producers and one consumer with up to two
  slots. With several consumers a given one may lose the semaphore to another
  for ever, which is no fault of the code, hence the single consumer.
* Semaphore: sizes 1 to 3, and 5, which is above `SemValueMax`, with every initial count
  `sem_init` accepts; three or four threads.
* Memory pool: one or two blocks for three clients, so that clients wait.
  `pool` does not check for deadlock: clients that keep all blocks and ask for
  another wait for ever, rightly.
* Ticks: a second of 5 and a tick of 3 nanoseconds, so that a tick does not
  divide a second and the nanoseconds carry in every way; the tick count wraps at 8 and
  the clock runs to 60, enough for it to wrap twice and for the longest delay
  to end. Every number of ticks is tried at every moment.
* Threads: the main thread and two others, each of which may create the other again; three
  handlers, so that memory is used again and some may be lost to refused priorities; priorities
  below, at and above the default and beyond the policy; both kinds of policy, with
  the affinity granted or refused. `threads` and `threads_early` do not check for deadlock:
  a program whose threads have all ended has stopped.
* Creation: every part and every array may fail, in all instances of `mq`, `pool` and `mutex`.
* Mutex: three clients; recursive locks nest twice (`DepthLimit`), enough for
  an inner Release.
* `Word` is 8 and `SemValueMax` 2 or 3: as in the real sizes (2^32 and 2^31 - 1)
  twice the largest ring fits the word, which is the assumption the arithmetic
  needs (`WordAssumption`).

### Fairness

A thread inside a call runs on whenever it can: weak fairness of its steps.
This is what a scheduler that does not starve runnable threads gives
(`SCHED_OTHER`, `SCHED_RR`); under `SCHED_FIFO` it holds while no thread of a
higher priority spins. A wait that gives up is never forced to.

* `MessageQueue`: also, the consumers keep calling Get. Nothing is assumed
  about the order in which the mutex is granted: a ring of finite size limits how
  often the others can have it before the waiting call must.
* `MemoryPool`: nothing is assumed of the mutex here either. Before the next block is
  handed out only as many real frees as there are owned blocks can overtake a waiting
  Free. Frees of stray pointers are held back by no semaphore, and the default pthread
  mutex of glibc may be granted to them for ever; `FreedBlockIsReused` therefore
  excepts behaviours in which clients free stray pointers for ever, and says nothing
  of them. Clients are not assumed to free anything.
* `SemaphoreHolders`, `Mutex`: clients release what they hold.
* `Threads`: weak fairness of a started `osThreadNew` and of a thread's first step, whenever
  `MayRun` allows them, and strong fairness of `osKernelStart`: the main thread makes finitely
  many calls before it, as every program does. Nobody else is assumed to make way:
  `MainMakesWay` excepts threads that are kept from the CPU by their equals or betters.

## Findings

1. **`osThreadNew` writes into a handler that may be gone** (`threads_early`). The
   line that stores the `pthread_t` after `pthread_create` is meant for the case that the
   new thread has not run yet. If that thread has run to its end instead, which the default
   `SCHED_RR` with equal priorities allows, or any thread that is made by one of a lower
   priority, the destructor has freed the handler. The write then hits free memory
   or another thread's handler, and the id that is returned is dangling. Before
   `osKernelStart` the priority of the main thread prevents this; after it nothing does. Storing
   the `pthread_t` in the wrapper alone would not do either, as the caller may use the id before
   the wrapper has run.
2. **Release can be refused below the maximum count** (`sem_release`). Acquire
   takes `avail` and then posts `used`; a Release in between finds `used` empty.
   Clients that release only what they acquired never see it
   (`HolderReleaseSucceeds`, proved).
3. **GetOwner reports NULL for a held mutex** (`mutex_owner`). Release clears
   `owner` after the unlock, which erases what the next holder wrote, and does
   so for inner locks, too. What does hold is `OwnerNamesHolder`: an owner that *is*
   reported is never a thread that neither holds the mutex nor is inside the
   Release of it.
4. **A normal mutex may be released by anybody** (`mutex_non_owner`); the comment
   in Release relies on POSIX, which checks it for recursive mutexes only.

Met on the way, without a run that expects a violation:

* `sem_wait` returns EINTR after a signal handler, and Put, Get, Acquire and Alloc
  turn this into an error, also with `osWaitForever` ("Wait forever timeout value.").
  `osDelay` repeats its wait. The models have it as `Signals`, and no token is lost by it.
* A semaphore with `max_count` above `SEM_VALUE_MAX` loses tokens at unchecked
  `sem_post`s. `TokenConservation` says how many may be lost: at least
  `SEM_VALUE_MAX` are left. Holders can release nevertheless.
* `GetCount` and `GetSpace` of a queue can both be 0 for a moment. `TokenConservation` says
  by how much they lag. `osMemoryPoolGetCount` errs to the other side, it never reports fewer
  blocks than are in use.
* `osThreadNew` leaks its handler on two error paths (`NewRefused`, lines 149 and 154). `HandlersAreFreed`
  is about handlers that were in use and does not see it.
* `osKernelInitialize` checks that the policy has `osPriorityISR - osPriorityIdle` priorities above the lowest,
  but gives the main thread the one `osPriorityISR` above it: with a range exactly that long the check passes
  and the assertion of line 100 fails.
* The null check of the `GetName` functions of queues, pools and semaphores is a
  statement without `return` (line 108 of the message queue), so a null id is dereferenced.
* A target of `osDelayUntil` that has just passed becomes a delay of almost 2^32 ticks.

## Proofs

TLC checks the runs above on small instances; the following is proved with
TLAPS for any sets of threads (finite), messages and priorities and any sizes,
from the assumptions named in the modules (`WordAssumption`: the platform's
limits; `ThreadsAssumption`: the threads can be counted, and `None` is no thread;
`MessagesAssumption`, `KindsAssumption`: nor is it a message or a kind of mutex;
`PrioritiesAssumption`: priorities are natural numbers).

| Theorem | Property |
|---|---|
| `MessageQueueProofs!TypeCorrect` | `TypeOK`: indices never leave the ring |
| `MessageQueueProofs!MutualExclusion` | `MutexHeld` |
| `MessageQueueProofs!TokensConserved` | `TokenConservation` |
| `MessageQueueProofs!RingAgreesWithTokens` | `RingMatchesTokens` |
| `MessageQueueProofs!NobodySleepsInVain` | `WaitsAreJustified`: unless a call has yet to post, a waiting Put faces a full ring and a waiting Get an empty one |
| `MessageQueueProofs!NothingIsLeft` | `NothingLeft` |
| `PriorityQueueProofs!MessagesOrdered` | `PriorityOrdered` |
| `PriorityQueueProofs!ScansEnd` | `ScanAdvances` of every step: a scan comes closer to the head with each iteration, and until it ends the stored messages stay as they are |
| `PriorityQueueProofs!Refinement` | `ImplementsPriorityQueue` |
| `PriorityQueueProofs!DetailedQueueIsCorrect` | all properties of run `mq`, for `CSpec` |
| `SemaphoreProofs!TypeCorrect` | `TypeOK` |
| `SemaphoreProofs!TokensConserved` | `TokenConservation` |
| `SemaphoreProofs!TokensBounded` | `AtMostInitial` |
| `SemaphoreProofs!HoldersCanRelease` | `HolderReleaseSucceeds` |
| `MemoryPoolProofs!TypeCorrect` | `TypeOK` |
| `MemoryPoolProofs!BlocksConserved` | `BlockConservation` |
| `MemoryPoolProofs!AllocSucceeds` | `AllocFindsBlock` |
| `MemoryPoolProofs!BlocksAreExclusive` | `ExclusiveOwnership`, if `Disciplined` |
| `MemoryPoolProofs!NothingIsLeft` | `NothingLeft` |
| `MemoryPoolProofs!DetailedPoolIsCorrect` | all safety properties of run `pool`, for `CSpec` |
| `MutexProofs!TypeCorrect` | `TypeOK` |
| `MutexProofs!OwnerIsNeverStranger` | `OwnerNamesHolder`, if `Careful` |
| `MutexProofs!NothingIsLeft` | `NothingLeft` |
| `MutexProofs!DetailedMutexIsCorrect` | all safety properties of run `mutex`, for `CSpec` |
| `ThreadsProofs!TypeCorrect` | `TypeOK` |
| `ThreadsProofs!ThreadsWaitForStart` | `NobodyBeforeStart` |
| `ThreadsProofs!NothingToJoin` | `NoZombies` |
| `ThreadsProofs!StoresAreSafe` | `StoreHitsOwnHandler`, if `Patient` |
| `ThreadsProofs!IdsNameThreads` | `HandlerNamesThread`, if `Patient` |
| `ThreadsProofs!HandlersReturn` | `HandlersAreFreed` |
| `TicksProofs!TypeCorrect` | `TypeOK`: no deadline is refused with EINVAL |
| `TicksProofs!DelaysAimExactly` | `AimsExactly` |
| `TicksProofs!DelaysAreMeasured` | `MeasuredDelay` |

The arguments:

* **Counting.** The token invariants are sums of cardinalities of sets of
  threads. `Counting` proves once how such a cardinality changes when one
  thread moves from one label to another (`AmongStep`); each module wraps that
  in a lemma `CountStep`, and a step of the specification becomes arithmetic.
* **Ring.** `RingInv` is `TokenConservation` and `RingMatchesTokens` together,
  and only together they are inductive: an insertion keeps the distance of head
  and tail right because the Put owns a slot that the sum says is free, a copy
  because the Get owns one that is filled. `NextIdx` and `PrevIdx` show that the
  32-bit arithmetic never wraps for a ring `sem_init` accepts.
* **Order.** While a scan shifts messages up, the ring has a gap. `Stored` describes the
  messages of a ring with a gap anywhere, and four lemmas about it say what the assignments of
  the code do to the *sequence* of messages: a shift moves the gap and changes no message
  (`StoredShift`), filling the gap inserts (`StoredInsert`), moving the head drops the first
  message (`StoredCopy`). `...Effect` lifts each to an action of the module: only `PutInsert`, `GetCopy`
  and `Delete` change `Contents`. The inductive invariant `OrderInv` then needs two facts besides the earlier
  invariants: `Scanned` (all messages behind the gap are less urgent than the one that is put)
  and `Carried` (a thread has a message in hand exactly at the labels where it must). An insertion keeps
  the order because of what `Scanned` says of the messages behind the gap and `ScanDone` of the one before it.
* **Refinement.** `OrderInv` also gives each step its abstract counterpart: `PutCall` is `Offer`, `PutFail` is
  `Withdraw`, `PutInsert` is `Store` (`InsertedIsInsertAt`), `GetCopy` is `Receive`, `GetPost` is `Consume`, New and
  Delete are `Create` and `Destroy`. All others, every iteration of the scan among them, are stutters.
  `ScansEnd` adds what a refinement cannot say: the stutters of a scan are finitely many.
* **Creation.** `CreationInv` says that New has the first `stage` parts, once each, before the arrays, everything
  when it returns, and never a part twice; that each error path releases just these is a fact about
  the lists `Parts` and `Cleanup` (`CleanupIs`), read off the code line by line. `CreationIsCovered`
  (`CSpec => Spec`) carries all theorems over to the modules with the detailed New, which the runs check.
* **Semaphore.** `TokenConservation` is inductive with `TypeOK`: as long as the sum is
  `max_count` and that is at most `SEM_VALUE_MAX`, it leaves no semaphore at its limit while a
  post is due; above, a post that fails finds a semaphore at `SEM_VALUE_MAX`, so that many tokens
  are left. For the clients of
  `SemaphoreHolders` the inductive invariant `HInv` adds that a holder is between
  calls, and that the tokens the clients share are the initial ones; subtracting the two
  sums gives that `used` is at least the number of holders.
* **Pool.** `TypeOK` is inductive only together with `InHand`: which block each
  call has in hand, and that the mutex names the one call that looks at the
  flags. Then `Conserved` gives `AllocFindsBlock` (fewer blocks than
  `block_count` are in use while a token is in hand), and ownership follows from
  `InHand` without counting.
* **Mutex.** `TypeOK` needs `WaiterIsNotHolder`, `OwnerNamesHolder` needs that a
  thread about to write `owner` still holds the mutex, which is where clients
  have to be careful.
* **Threads.** The inductive invariant has five parts. `TypeOK`; `MainIsFirst` (the main thread
  never blocks, and once it is initialised nobody has a higher priority), from which
  `NobodyBeforeStart` follows because `MayRun` then excludes everybody else (lemma `OnlyMainRuns`);
  `Joinable` (a thread is not detached exactly while one call is making it), which gives `NoZombies`;
  `Owned` (a live handler for every thread that has not ended and every call that failed, and no
  two of these share one), which gives `HandlersAreFreed`. These four hold whatever the clients do. `Stored` (until the creator
  has stored the `pthread_t`, its thread has not ended) needs `Patient` and gives the
  other two.
* **Ticks.** `NextReadingIs` shows that the difference of line 35, modulo the word, is how far the target is ahead
  of the call, so that `delta = Wanted` is inductive (`WantedStep`). `TimespecExact` shows that the two carries lose nothing: the
  timespec is normalised and stands for the clock plus the ticks. With both
  `AimsExactly` is inductive once one knows that the clock has not passed the
  call. For the tick count, `WholeTicks` and `WholeTicksAtMost` bound the number of whole
  ticks between two moments, and `WrappedDifference` recovers it from two
  counters that may have wrapped in between, as the tests of the repository do.

Only model-checked: the liveness properties (`BlockedGetIsFed`, `BlockedPutsProceed`,
`UrgentIsDelivered`, `SignalWakes`, `WaitersProceed`, `FreedBlockIsReused`, `MutexIsHandedOver`,
`MainMakesWay`), as fairness is out of the prover's reach. Every invariant, action property and
refinement that a passing run checks is proved; `NobodySleepsInVain` and `ScansEnd` are the parts of the queue's
liveness that are safety: there is something to wake up for, and the one loop under the mutex ends.

The undisciplined use of the pool (`Disciplined` FALSE: blocks freed twice or by
others) has no run of its own: `BlockConservation` and `AllocFindsBlock` are
proved for it.

## Not modelled

* The order in which waiters are served and thread priorities: the objects
  leave them to the scheduler.
* New of a semaphore step by step: two `sem_init`s without arrays. Their failures leave no object
  and are no step.
* A failing `pthread_setspecific` (it returns ENOMEM, which the wrapper ignores: the thread then
  has no id and its handler is lost), a second `osKernelInitialize`, and the assertions that the
  process may use real-time priorities at all.
* The two `osError`s of `cp_threadInitSystem`: a failing `pthread_key_create` (lines 72-75), and a policy with too few
  priorities (lines 89-92), which `PrioritiesAssumption` (`osPriorityISR <= Highest`) excludes. A program that gets
  them has no kernel to start.
* The `osError` of `osDelay` (lines 25-28). Besides EINTR `clock_nanosleep` fails only for an invalid timespec, which
  `TypeOK` of `Ticks` excludes, or an invalid clock.
* Sizes in bytes, with the 32-bit products of line 91 of the message queue and line 66 of
  the pool, and the copying of payloads (a message is one value). Copying
  happens under the mutex, whose exclusion is `MutexHeld`.
* `attr`, names, `osThreadYield` and the queries that return a field nobody changes.
* Priority inheritance and robust mutexes: New refuses them (the code for them is
  compiled out).
* Deleting an object that is in use.
* Setting the real-time clock while a thread sleeps or waits: no property of
  `Ticks` is promised by the code then.
* `osKernelGetTickFreq`, a constant (1000000000 / `CP_CONFIG_NANO_IN_TICK`, rounded down).

## Plan

1. `Ticks`: a periodic client of `osDelayUntil` that may overrun its target, and
   what then is true of the next wake-up.
2. An abstract counter for the semaphore and an abstract allocator for the pool, in the manner of
   `PriorityQueue`.
