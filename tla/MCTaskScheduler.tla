-------------------------- MODULE MCTaskScheduler --------------------------
(* Small instances of TaskScheduler for TLC. *)
EXTENDS TaskScheduler, TLC

CONSTANTS w1, w2, w3, c1, c2, t1, t2, t3, t4, t5

NoneFar == {}

\* t1 prefers the node of w1, and every other worker is too far away from it.
PinnedToW1 == {t1} \X (Workers \ {w1})

\* Tasks that neither Far nor Exits tells apart are interchangeable.
Symmetry == Permutations({t \in Tasks \ Exits : \A w \in Workers : <<t, w>> \notin Far})
=============================================================================
