---------------------------- MODULE MCRoundRobin ----------------------------
(* Small instances of RoundRobin for TLC. *)
EXTENDS RoundRobin

CONSTANTS p1, p2, c1, c2

\* One urgent process and one that has to age to overtake it.
OneUrgent == [p \in Procs |-> IF p = p1 THEN 0 ELSE 1]

\* Without is the list comprehension "[p for p in q if p is not incoming]".
ASSUME WithoutSelects ==
    \A n \in 0..5 : \A q \in [1..n -> {p1, p2, c1}] :
        Without(q, p1) = SelectSeq(q, LAMBDA x : x # p1)
=============================================================================
