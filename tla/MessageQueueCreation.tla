------------------------ MODULE MessageQueueCreation ------------------------
(* osMessageQueueNew and osMessageQueueDelete in detail, around the threads  *)
(* that use the queue in between.                                            *)
EXTENDS MessageQueue, Sequences

VARIABLES stage, made

Parts == <<"queue", "avail", "used", "mutex">>
Arrays == {"priorities", "buffer"}
Temporary == {}

\* Fault: the semaphore initialised last is forgotten.
Cleanup_forgets == <<{}, {"queue"}, {"avail", "queue"}, {"avail", "queue"}>>

Cleanup == <<{}, {"queue"}, {"avail", "queue"}, {"avail", "used", "queue"}>>

Deleted == {"avail", "used", "mutex", "buffer", "priorities", "queue"}

C == INSTANCE Creation

cvars == <<stage, made>>

CInit == Init /\ C!Init

CNew ==
    \/ (C!Initialise \/ C!InitialiseFails \/ C!Allocate \/ C!Discard) /\ UNCHANGED vars
    \/ C!Return /\ \E n \in 1 .. SemValueMax : New(n)

CDelete == C!Delete /\ Delete

CNext ==
    \/ CNew
    \/ CDelete
    \/ Next /\ msg_count' = msg_count /\ UNCHANGED cvars

CSpec == CInit /\ [][CNext]_<<vars, cvars>>

-----------------------------------------------------------------------------
\* Wherever New fails, it leaves nothing behind and releases only what it had
\* initialised, also when Delete gets a queue without its arrays; whoever has
\* a queue has all of it (lines 55-97, 302-307).
NothingLeft ==
    /\ \A p \in C!Everything :
          /\ made[p] \in {0, 1}
          /\ stage = 0 => made[p] = 0
          /\ msg_count # 0 => made[p] = 1
    /\ stage = C!Ready <=> msg_count # 0
=============================================================================
