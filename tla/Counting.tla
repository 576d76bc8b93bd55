------------------------------ MODULE Counting ------------------------------
(* How many threads are at certain points of the code, and how that changes *)
(* when one of them takes a step.                                           *)
EXTENDS Integers, FiniteSets, FiniteSetTheorems, TLAPS

Among(S, pc, labels) == {t \in S : pc[t] \in labels}

\* Any set of threads selected by their program counter can be counted.
LEMMA AmongFinite ==
    ASSUME NEW S, IsFiniteSet(S), NEW pc, NEW labels
    PROVE  /\ IsFiniteSet(Among(S, pc, labels))
           /\ Cardinality(Among(S, pc, labels)) \in Nat
<1>1. Among(S, pc, labels) \subseteq S
  BY DEF Among
<1>2. IsFiniteSet(Among(S, pc, labels))
  BY <1>1, FS_Subset
<1> QED
  BY <1>2, FS_CardinalityType

\* 1 for a program counter among the labels, else 0.
Inside(label, labels) == IF label \in labels THEN 1 ELSE 0

\* A thread that enters the labels raises their count by one, one that leaves
\* them lowers it, and one that moves within or without leaves it alone.
LEMMA AmongStep ==
    ASSUME NEW S, IsFiniteSet(S), NEW labels, NEW pc, NEW next, NEW t \in S,
           \A u \in S \ {t} : next[u] = pc[u]
    PROVE  /\ Cardinality(Among(S, pc, labels)) \in Nat
           /\ Cardinality(Among(S, next, labels)) \in Nat
           /\ Cardinality(Among(S, next, labels)) =
                 Cardinality(Among(S, pc, labels))
                    + Inside(next[t], labels) - Inside(pc[t], labels)
<1> DEFINE A == Among(S, pc, labels)
           B == Among(S, next, labels)
<1>1. IsFiniteSet(A) /\ IsFiniteSet(B) /\ Cardinality(A) \in Nat /\ Cardinality(B) \in Nat
  BY AmongFinite
<1>2. ASSUME pc[t] \notin labels, next[t] \in labels
      PROVE  Cardinality(B) = Cardinality(A) + 1
  <2>1. B = A \cup {t} /\ t \notin A
    BY <1>2 DEF Among
  <2> QED
    BY <2>1, <1>1, FS_AddElement
<1>3. ASSUME pc[t] \in labels, next[t] \notin labels
      PROVE  Cardinality(B) = Cardinality(A) - 1
  <2>1. B = A \ {t} /\ t \in A
    BY <1>3 DEF Among
  <2> QED
    BY <2>1, <1>1, FS_RemoveElement
<1>4. ASSUME pc[t] \in labels <=> next[t] \in labels
      PROVE  B = A
  BY <1>4 DEF Among
<1> QED
  BY <1>1, <1>2, <1>3, <1>4 DEF Inside

\* Between the program counters pc and next, only thread t moves.
Moves(S, pc, next, t, at, to) ==
    /\ pc[t] = at
    /\ next[t] = to
    /\ \A u \in S \ {t} : next[u] = pc[u]

\* Nobody is anywhere when everybody is somewhere else.
LEMMA AmongNone ==
    ASSUME NEW S, NEW pc, NEW labels, \A t \in S : pc[t] \notin labels
    PROVE  Cardinality(Among(S, pc, labels)) = 0
<1>1. Among(S, pc, labels) = {}
  BY DEF Among
<1> QED
  BY <1>1, FS_EmptySet
=============================================================================
