--------------------------- MODULE MCMessageQueue ---------------------------
(* Instances of MessageQueue for TLC. *)
EXTENDS MessageQueueCreation, TLC

\* Payloads are only copied, never compared or computed with: permuting
\* them permutes behaviours.
Symmetry == Permutations(Payloads)
=============================================================================
