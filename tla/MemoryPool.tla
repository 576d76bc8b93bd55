----------------------------- MODULE MemoryPool -----------------------------
(***************************************************************************)
(* osMemoryPool* of cmsisPosix_MemoryPool.c.  The semaphore sem counts the  *)
(* blocks that may be allocated, the flags under the mutex say which blocks *)
(* are in use.  Alloc takes a token and then looks for a block; Free clears *)
(* the flag and then gives the token back.                                  *)
(*                                                                          *)
(* Each loop over the flags is one step, except that Alloc marks the block  *)
(* it found in a second one.  owner is not in the code: it records which    *)
(* client was given a block and has not passed it to Free.                  *)
(***************************************************************************)
EXTENDS Posix

CONSTANTS
    Threads,      \* clients of the pool
    BlockCounts,  \* values of block_count
    Disciplined,  \* TRUE if clients free only what they own, and stray pointers
    Stray         \* a pointer that is no block of the pool

ASSUME ThreadsAssumption == IsFiniteSet(Threads) /\ None \notin Threads
ASSUME BlockCountsAssumption == BlockCounts \subseteq 1 .. SemValueMax
ASSUME StrayAssumption == Stray \notin Nat /\ None \notin Nat /\ Stray # None
ASSUME DisciplinedAssumption == Disciplined \in BOOLEAN

VARIABLES
    block_count, \* 0 while no pool exists
    sem,         \* value of the semaphore sem
    mutex,       \* the thread that holds the mutex, or None
    used_flags,  \* for each block, whether it is in use
    pc,          \* where each thread is in its call
    timed,       \* TRUE for a waiting thread whose timeout is finite
    block,       \* the block each call of Free was given or of Alloc has found
    owner        \* for each block, the client it belongs to, or None

vars == <<block_count, sem, mutex, used_flags, pc, timed, block, owner>>

Blocks == 0 .. block_count - 1
At(labels) == {t \in Threads : pc[t] \in labels}
Idle == pc = [t \in Threads |-> "idle"]
Used == {b \in Blocks : used_flags[b]}

Init ==
    /\ block_count = 0
    /\ sem = 0
    /\ mutex = None
    /\ used_flags = <<>>
    /\ Idle
    /\ timed = [t \in Threads |-> FALSE]
    /\ block = [t \in Threads |-> None]
    /\ owner = <<>>

New(n) ==
    /\ block_count = 0
    /\ block_count' = n
    /\ sem' = n
    /\ mutex' = None
    /\ used_flags' = [b \in 0 .. n - 1 |-> FALSE]
    /\ owner' = [b \in 0 .. n - 1 |-> None]
    /\ UNCHANGED <<pc, timed, block>>

\* Called when no thread is inside a call on the pool; blocks still in use
\* are freed with the arena.
Delete ==
    /\ block_count # 0
    /\ Idle
    /\ block_count' = 0
    /\ sem' = 0
    /\ mutex' = None
    /\ used_flags' = <<>>
    /\ owner' = <<>>
    /\ UNCHANGED <<pc, timed, block>>

-----------------------------------------------------------------------------
(* osMemoryPoolAlloc. *)

\* With timeout 0 and no token the call returns NULL at once.
AllocCall(t, finite) ==
    /\ block_count # 0
    /\ pc[t] = "idle"
    /\ \/ /\ sem > 0
          /\ sem' = sem - 1
          /\ pc' = [pc EXCEPT ![t] = "alloc_lock"]
          /\ UNCHANGED timed
       \/ /\ sem = 0
          /\ pc' = [pc EXCEPT ![t] = "alloc_wait"]
          /\ timed' = [timed EXCEPT ![t] = finite]
          /\ UNCHANGED sem
    /\ UNCHANGED <<block_count, mutex, used_flags, block, owner>>

AllocWake(t) ==
    /\ pc[t] = "alloc_wait"
    /\ sem > 0
    /\ sem' = sem - 1
    /\ pc' = [pc EXCEPT ![t] = "alloc_lock"]
    /\ timed' = [timed EXCEPT ![t] = FALSE]
    /\ UNCHANGED <<block_count, mutex, used_flags, block, owner>>

\* ETIMEDOUT and EINTR both return NULL.
AllocFail(t) ==
    /\ pc[t] = "alloc_wait"
    /\ timed[t] \/ Signals
    /\ pc' = [pc EXCEPT ![t] = "idle"]
    /\ timed' = [timed EXCEPT ![t] = FALSE]
    /\ UNCHANGED <<block_count, sem, mutex, used_flags, block, owner>>

\* Fault: the flags are searched without the mutex being waited for.
AllocLock_barges(t) ==
    /\ pc[t] = "alloc_lock"
    /\ mutex' = t
    /\ pc' = [pc EXCEPT ![t] = "alloc_scan"]
    /\ UNCHANGED <<block_count, sem, used_flags, timed, block, owner>>

AllocLock(t) ==
    /\ pc[t] = "alloc_lock"
    /\ mutex = None
    /\ mutex' = t
    /\ pc' = [pc EXCEPT ![t] = "alloc_scan"]
    /\ UNCHANGED <<block_count, sem, used_flags, timed, block, owner>>

\* Fault: the loop counts the blocks from one.
AllocScan_fromOne(t) ==
    /\ pc[t] = "alloc_scan"
    /\ \E b \in 1 .. block_count :
          /\ b \notin Used
          /\ \A i \in 1 .. b - 1 : i \in Used
          /\ block' = [block EXCEPT ![t] = b]
    /\ pc' = [pc EXCEPT ![t] = "alloc_mark"]
    /\ UNCHANGED <<block_count, sem, mutex, used_flags, timed, owner>>

\* The loop stops at the first unused block.  If there were none the call
\* would unlock and return NULL, its token gone.
AllocScan(t) ==
    /\ pc[t] = "alloc_scan"
    /\ \/ \E b \in Blocks \ Used :
             /\ \A i \in 0 .. b - 1 : i \in Used
             /\ block' = [block EXCEPT ![t] = b]
             /\ pc' = [pc EXCEPT ![t] = "alloc_mark"]
             /\ UNCHANGED mutex
       \/ /\ Used = Blocks
          /\ mutex' = None
          /\ pc' = [pc EXCEPT ![t] = "idle"]
          /\ UNCHANGED block
    /\ UNCHANGED <<block_count, sem, used_flags, timed, owner>>

AllocMark(t) ==
    /\ pc[t] = "alloc_mark"
    /\ used_flags' = [used_flags EXCEPT ![block[t]] = TRUE]
    /\ owner' = [owner EXCEPT ![block[t]] = t]
    /\ block' = [block EXCEPT ![t] = None]
    /\ mutex' = None
    /\ pc' = [pc EXCEPT ![t] = "idle"]
    /\ UNCHANGED <<block_count, sem, timed>>

-----------------------------------------------------------------------------
(* osMemoryPoolFree. *)

\* The client gives the block up when it makes the call.
FreeCall(t, b) ==
    /\ block_count # 0
    /\ pc[t] = "idle"
    /\ Disciplined => b \in {Stray} \cup {i \in Blocks : owner[i] = t}
    /\ pc' = [pc EXCEPT ![t] = "free_lock"]
    /\ block' = [block EXCEPT ![t] = b]
    /\ owner' = IF b = Stray THEN owner ELSE [owner EXCEPT ![b] = None]
    /\ UNCHANGED <<block_count, sem, mutex, used_flags, timed>>

FreeLock(t) ==
    /\ pc[t] = "free_lock"
    /\ mutex = None
    /\ mutex' = t
    /\ pc' = [pc EXCEPT ![t] = "free_scan"]
    /\ UNCHANGED <<block_count, sem, used_flags, timed, block, owner>>

\* Fault: whatever the pointer is, the token is posted.
FreeScan_posts(t) ==
    /\ pc[t] = "free_scan"
    /\ used_flags' = [b \in Blocks |-> used_flags[b] /\ b # block[t]]
    /\ pc' = [pc EXCEPT ![t] = "free_post"]
    /\ mutex' = None
    /\ block' = [block EXCEPT ![t] = None]
    /\ UNCHANGED <<block_count, sem, timed, owner>>

\* Fault: the flag is cleared and the token forgotten.
FreeScan_returns(t) ==
    /\ pc[t] = "free_scan"
    /\ used_flags' = [b \in Blocks |-> used_flags[b] /\ b # block[t]]
    /\ pc' = [pc EXCEPT ![t] = "idle"]
    /\ mutex' = None
    /\ block' = [block EXCEPT ![t] = None]
    /\ UNCHANGED <<block_count, sem, timed, owner>>

\* A pointer that is no block, or a block not in use, changes nothing and
\* returns osErrorParameter.
FreeScan(t) ==
    /\ pc[t] = "free_scan"
    /\ \/ /\ block[t] \in Used
          /\ used_flags' = [used_flags EXCEPT ![block[t]] = FALSE]
          /\ pc' = [pc EXCEPT ![t] = "free_post"]
       \/ /\ block[t] \notin Used
          /\ pc' = [pc EXCEPT ![t] = "idle"]
          /\ UNCHANGED used_flags
    /\ mutex' = None
    /\ block' = [block EXCEPT ![t] = None]
    /\ UNCHANGED <<block_count, sem, timed, owner>>

FreePost(t) ==
    /\ pc[t] = "free_post"
    /\ sem' = SemPost(sem)
    /\ pc' = [pc EXCEPT ![t] = "idle"]
    /\ UNCHANGED <<block_count, mutex, used_flags, timed, block, owner>>

-----------------------------------------------------------------------------
(* The queries read the semaphore, without the mutex. *)

osMemoryPoolGetCount == block_count - sem
osMemoryPoolGetSpace == sem

-----------------------------------------------------------------------------
Next ==
    \/ \E n \in BlockCounts : New(n)
    \/ Delete
    \/ \E t \in Threads :
          \/ \E finite \in BOOLEAN : AllocCall(t, finite)
          \/ AllocWake(t) \/ AllocFail(t) \/ AllocLock(t)
          \/ AllocScan(t) \/ AllocMark(t)
          \/ \E b \in Blocks \cup {Stray} : FreeCall(t, b)
          \/ FreeLock(t) \/ FreeScan(t) \/ FreePost(t)

Spec == Init /\ [][Next]_vars

\* A thread inside a call runs on when it can.  The grant of the mutex is
\* weakly fair only: a caller may be overtaken at the mutex for ever.
Fairness ==
    \A t \in Threads :
        WF_vars(\/ AllocWake(t) \/ AllocLock(t) \/ AllocScan(t) \/ AllocMark(t)
                \/ FreeLock(t) \/ FreeScan(t) \/ FreePost(t))

-----------------------------------------------------------------------------
\* Calls of Alloc that own a block they have not marked.
Allocating == At({"alloc_lock", "alloc_scan", "alloc_mark"})

\* Values are of their C types, and a call of Free that has not reached line
\* 157 still has its argument.
TypeOK ==
    /\ block_count \in BlockCounts \cup {0}
    /\ sem \in 0 .. SemValueMax
    /\ mutex \in Threads \cup {None}
    /\ used_flags \in [Blocks -> BOOLEAN]
    /\ owner \in [Blocks -> Threads \cup {None}]
    /\ pc \in [Threads -> {"idle", "alloc_wait", "alloc_lock", "alloc_scan",
                           "alloc_mark", "free_lock", "free_scan", "free_post"}]
    /\ timed \in [Threads -> BOOLEAN]
    /\ block \in [Threads -> Blocks \cup {Stray, None}]
    /\ \A t \in At({"alloc_mark"}) : block[t] \in Blocks
    /\ block_count = 0 => Idle

\* What osMemoryPoolGetCount reports are the blocks in use, those an Alloc has
\* a token for and those whose Free has not posted yet: read at any moment, it
\* is never less than what the clients have, and exact when no call is in
\* flight; osMemoryPoolGetSpace never promises a block that is in use (lines
\* 99-137, 151-171, 200-231).  This holds whatever the clients
\* pass to Free, double frees and stray pointers included.
BlockConservation ==
    /\ osMemoryPoolGetCount = Cardinality(Allocating) + Cardinality(Used)
                                 + Cardinality(At({"free_post"}))
    /\ osMemoryPoolGetSpace <= Cardinality(Blocks \ Used)

\* An Alloc that got past the semaphore finds a block: NULL is returned only
\* for a wait that failed (lines 123-136).
AllocFindsBlock ==
    At({"alloc_lock", "alloc_scan"}) # {} => Used # Blocks

\* No block is handed to a second client while the first has not freed it:
\* the flag stays set as long as somebody owns the block or is about to clear
\* the flag, and only one call is about to (lines 127-131, 154-160).
ExclusiveOwnership ==
    /\ \A b \in Blocks : owner[b] # None => b \in Used
    /\ \A t \in At({"free_lock", "free_scan"}) :
          block[t] # Stray =>
             /\ block[t] \in Used
             /\ owner[block[t]] = None
             /\ \A u \in Threads \ {t} : block[u] # block[t]

\* When a client frees its block while another waits for one, somebody's
\* Alloc gets a block, although flag and token are given back separately and
\* other calls compete for the mutex in between (lines 107, 151-170): before
\* the next block is handed out only so many frees can overtake.  Clients that
\* free stray pointers for ever are left out: they may keep the mutex busy.
FreedBlockIsReused ==
    \/ []<><<\E t \in Threads : FreeCall(t, Stray)>>_vars
    \/ (/\ \E t \in Threads : pc[t] = "alloc_wait" /\ ~ timed[t]
        /\ \E t \in Threads : pc[t] = "free_lock" /\ block[t] # Stray)
            ~> At({"alloc_mark"}) # {}
=============================================================================
