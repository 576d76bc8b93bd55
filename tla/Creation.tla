------------------------------ MODULE Creation ------------------------------
(***************************************************************************)
(* How osMessageQueueNew, osMemoryPoolNew and osMutexNew build an object:   *)
(* its parts are initialised one after the other, each of which may fail,   *)
(* and its arrays, if it has any, are allocated last.  Where a part cannot  *)
(* be had, New releases what is listed at that place; where an array cannot *)
(* be had, it passes the unfinished object to Delete.                       *)
(***************************************************************************)
EXTENDS Integers, Sequences

CONSTANTS
    Parts,     \* what is initialised, in this order
    Cleanup,   \* Cleanup[i]: what New releases if Parts[i] cannot be had
    Arrays,    \* what is allocated last
    Temporary, \* what New needs only until it returns the object
    Deleted    \* what Delete releases

VARIABLES
    stage,   \* how far New is
    made     \* for each part, how often it was initialised but not released

cvars == <<stage, made>>

Everything == {Parts[i] : i \in 1 .. Len(Parts)} \cup Arrays
Allocated == Len(Parts) + 1
Ready == Len(Parts) + 2

Init == stage = 0 /\ made = [p \in Everything |-> 0]

Add(S, n) == [p \in Everything |-> IF p \in S THEN made[p] + n ELSE made[p]]

Initialise ==
    /\ stage < Len(Parts)
    /\ stage' = stage + 1
    /\ made' = Add({Parts[stage + 1]}, 1)

InitialiseFails ==
    /\ stage < Len(Parts)
    /\ stage' = 0
    /\ made' = Add(Cleanup[stage + 1], -1)

\* Both allocations are tried before either is looked at.
Allocate ==
    /\ stage = Len(Parts)
    /\ stage' = Allocated
    /\ \E got \in SUBSET Arrays : made' = Add(got, 1)

\* free(NULL) does nothing.
Missing == {a \in Arrays : made[a] = 0}
Destroy == stage' = 0 /\ made' = Add(Deleted \ Missing, -1)

Discard == stage = Allocated /\ Missing # {} /\ Destroy

Return ==
    /\ stage = Allocated
    /\ Missing = {}
    /\ stage' = Ready
    /\ made' = Add(Temporary, -1)

Delete == stage = Ready /\ Destroy
=============================================================================
