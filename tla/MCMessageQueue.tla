--------------------------- MODULE MCMessageQueue ---------------------------
(* Small instances of MessageQueue for TLC. *)
EXTENDS MessageQueue, TLC

CONSTANTS s1, s2, s3, r1, r2, m1, m2, m3, m4

\* Threads of one role, and messages that may expire, are interchangeable.
Symmetry == Permutations(Senders) \cup Permutations(Receivers) \cup Permutations(Messages)
=============================================================================
