------------------------- MODULE MemoryPoolCreation -------------------------
(* osMemoryPoolNew and osMemoryPoolDelete in detail, around the threads that *)
(* use the pool in between.                                                  *)
EXTENDS MemoryPool, Sequences

VARIABLES stage, made

Parts == <<"mem_pool", "sem", "mutex">>
Arrays == {"used_flags", "arena"}
Temporary == {}

Cleanup == <<{}, {"mem_pool"}, {"sem", "mem_pool"}>>

\* Fault: the flags are not freed.
Deleted_keeps == {"sem", "mutex", "arena", "mem_pool"}

Deleted == {"sem", "mutex", "arena", "used_flags", "mem_pool"}

C == INSTANCE Creation

cvars == <<stage, made>>

CInit == Init /\ C!Init

CNew ==
    \/ (C!Initialise \/ C!InitialiseFails \/ C!Allocate \/ C!Discard) /\ UNCHANGED vars
    \/ C!Return /\ \E n \in BlockCounts : New(n)

CDelete == C!Delete /\ Delete

CNext ==
    \/ CNew
    \/ CDelete
    \/ Next /\ block_count' = block_count /\ UNCHANGED cvars

CSpec == CInit /\ [][CNext]_<<vars, cvars>> /\ Fairness

-----------------------------------------------------------------------------
\* Wherever New fails, it leaves nothing behind and releases only what it had
\* initialised, also when Delete gets a pool without its flags or its arena;
\* whoever has a pool has all of it (lines 40-71, 243-247).
NothingLeft ==
    /\ \A p \in C!Everything :
          /\ made[p] \in {0, 1}
          /\ stage = 0 => made[p] = 0
          /\ block_count # 0 => made[p] = 1
    /\ stage = C!Ready <=> block_count # 0
=============================================================================
