------------------------------- MODULE Posix -------------------------------
(* What the wrappers rely on from the C library: the width of an integer,   *)
(* the limit of a semaphore, and whether a wait can be interrupted.         *)
EXTENDS Integers, FiniteSets

CONSTANTS
    Word,        \* number of values of a uint32_t
    SemValueMax, \* SEM_VALUE_MAX, what sem_init accepts at most
    Signals,     \* TRUE if a signal handler may interrupt a wait (EINTR)
    None         \* no thread, no object

\* SEM_VALUE_MAX is INT_MAX: twice as much still fits a uint32_t.
ASSUME WordAssumption ==
    /\ Word \in Nat
    /\ SemValueMax \in Nat \ {0}
    /\ 2 * SemValueMax < Word
ASSUME SignalsAssumption == Signals \in BOOLEAN

\* sem_post on a semaphore at its limit fails with EOVERFLOW; the wrappers
\* ignore its result.
SemPost(value) == IF value < SemValueMax THEN value + 1 ELSE value
=============================================================================
