---------------------------- MODULE TaskLifecycle ----------------------------
(***************************************************************************)
(* What AIOSScheduler keeps of a task, whatever threads, deques and queues *)
(* it passes through: it is pending from submit on; a worker takes it up   *)
(* only if its future was not set before, and then calls it, whether or    *)
(* not it is cancelled meanwhile; it is called at most once, and ends with *)
(* its future set - unless its function ends the worker that runs it.      *)
(* The rebalancer may lose a pending task, never one that was taken up.    *)
(***************************************************************************)
CONSTANTS Tasks, Exits

VARIABLES life, event

vars == <<life, event>>

Init == /\ life = [t \in Tasks |-> "new"]
        /\ event = [t \in Tasks |-> FALSE]

Moves(t, from, to) == life[t] = from /\ life' = [life EXCEPT ![t] = to]

IsSet(t) == event' = [event EXCEPT ![t] = TRUE]

Submit(t) == Moves(t, "new", "pending") /\ UNCHANGED event

Take(t) == ~event[t] /\ Moves(t, "pending", "taken") /\ UNCHANGED event

Run(t) == Moves(t, "taken", "running") /\ UNCHANGED event

Skip(t) == event[t] /\ Moves(t, "pending", "ended") /\ UNCHANGED event

End(t) == t \notin Exits /\ Moves(t, "running", "ended") /\ IsSet(t)

Crash(t) == t \in Exits /\ Moves(t, "running", "ended") /\ UNCHANGED event

Lose(t) == ~event[t] /\ Moves(t, "pending", "lost") /\ UNCHANGED event

\* A cancel may set the future at any time after the task was submitted.
Cancel(t) == life[t] \notin {"new", "lost"} /\ IsSet(t) /\ UNCHANGED life

CancelLost(t) == Moves(t, "lost", "ended") /\ IsSet(t)

Next == \E t \in Tasks : \/ Submit(t) \/ Take(t) \/ Run(t) \/ Skip(t) \/ End(t) \/ Crash(t)
                         \/ Lose(t) \/ Cancel(t) \/ CancelLost(t)

Spec == Init /\ [][Next]_vars
=============================================================================
