---------------------------- MODULE TaskScheduler ----------------------------
(***************************************************************************)
(* AIOSScheduler of os/scheduler/aios_scheduler.py: worker threads with    *)
(* work-stealing deques, a global overflow queue, a thread that drains it, *)
(* a rebalancer thread, and clients that submit and cancel.                *)
(*                                                                         *)
(* Each deque and the global queue has a lock of its own and nothing is    *)
(* held across two of them: a task on its way from one to the other is in  *)
(* the hands of a thread (held), and every action is the stretch of one    *)
(* thread between two lock operations that others can observe.  Which      *)
(* worker PlacementScorer picks (it weighs NUMA distance, load and two     *)
(* measured averages) and which overflow task is first by aged priority    *)
(* are left open; a scheduler without workers (submit then runs the task   *)
(* itself) is left out.  Reading a stop flag is merged with the next step  *)
(* of a worker, which alone reads it; the two background threads sleep     *)
(* between the two, so there the reading is a step of its own.             *)
(***************************************************************************)
EXTENDS Naturals, Sequences, FiniteSets, SequencesExt

CONSTANTS Workers, Clients, Tasks,
          Rebalancer, Drainer,     \* the two background threads
          Depth,                   \* _MAX_QUEUE_DEPTH
          Far,       \* <<t, w>>: w is beyond _DIST_THRESHOLD of t's preferred node
          Exits,     \* tasks whose function raises SystemExit or the like
          MayCancel, MayStop,      \* whether clients call cancel, and stop
          NoTask

Actors == Workers \cup Clients \cup {Rebalancer, Drainer}

ASSUME SchedulerAssumption ==
    /\ IsFiniteSet(Workers) /\ Workers # {}
    /\ Workers \cap Clients = {}
    /\ Rebalancer \notin Workers \cup Clients
    /\ Drainer \notin Workers \cup Clients \cup {Rebalancer}
    /\ NoTask \notin Tasks
    /\ Depth \in Nat \ {0}
    /\ Far \subseteq Tasks \X Workers
    /\ Exits \subseteq Tasks
    /\ MayCancel \in BOOLEAN /\ MayStop \in BOOLEAN

VARIABLES
    fresh,       \* tasks not submitted yet
    dq,          \* the deque of each worker, its head (owner's end) first
    gq,          \* _gq
    held,        \* the task in the hands of each thread
    pc,          \* where each worker is in its loop
    victim,      \* the peer a worker is about to steal from
    checked,     \* whether the drainer has looked at future.done of its task
    draining,    \* whether the drainer has passed the test of _drain_stop
    balancing,   \* whether the rebalancer has passed the test of _shutdown
    loads,       \* the queue lengths it has read in this pass
    move,        \* what it does then: donor, recipient, steals left
    cancelling,  \* the future each client is about to set to CANCELLED
    event,       \* TaskFuture._event is set
    runs,        \* number of times the function of the task was called
    started, stopped, drainStop, rebStop, shutdown,
    stopping     \* stop is going through the workers

futures == <<event, runs>>
flags   == <<started, stopped, drainStop, rebStop, shutdown, stopping>>
drainer == <<checked, draining>>
balancer == <<balancing, loads, move>>
vars    == <<fresh, dq, gq, held, pc, victim, drainer, balancer, cancelling, futures, flags>>

NoLoads == [w \in {} |-> 0]
NoMove  == [left |-> 0, donor |-> NoTask, recipient |-> NoTask]

Init ==
    /\ fresh = Tasks
    /\ dq = [w \in Workers |-> <<>>]
    /\ gq = {}
    /\ held = [a \in Actors |-> NoTask]
    /\ pc = [w \in Workers |-> "unstarted"]
    /\ victim = [w \in Workers |-> w]
    /\ checked = FALSE /\ draining = FALSE
    /\ balancing = FALSE /\ loads = NoLoads /\ move = NoMove
    /\ cancelling = [c \in Clients |-> NoTask]
    /\ event = [t \in Tasks |-> FALSE]
    /\ runs = [t \in Tasks |-> 0]
    /\ started = FALSE /\ stopped = FALSE
    /\ drainStop = FALSE /\ rebStop = FALSE
    /\ shutdown = [w \in Workers |-> FALSE]
    /\ stopping = FALSE

-----------------------------------------------------------------------------
(* WorkStealingDeque, TaskFuture and what threads carry. *)

HasRoom(w) == Len(dq[w]) < Depth

PushLocal(w, t) == dq' = [dq EXCEPT ![w] = <<t>> \o @]

\* push_local with its result ignored: a full deque leaves t nowhere.
PushOrLose(w, t) == IF HasRoom(w) THEN PushLocal(w, t) ELSE UNCHANGED dq

Grabs(a, t) == held' = [held EXCEPT ![a] = t]
LetsGo(a)   == held' = [held EXCEPT ![a] = NoTask]

Signal(t) == event' = [event EXCEPT ![t] = TRUE]

Goto(w, label) == pc' = [pc EXCEPT ![w] = label]

-----------------------------------------------------------------------------
(* Clients. *)

ClientIdle(c) == held[c] = NoTask /\ cancelling[c] = NoTask

Submit(c, t) ==
    /\ ClientIdle(c) /\ t \in fresh
    /\ fresh' = fresh \ {t}
    /\ Grabs(c, t)
    /\ UNCHANGED <<dq, gq, pc, victim, drainer, balancer, cancelling, futures, flags>>

SubmitPushes(c, w) ==
    /\ held[c] # NoTask /\ HasRoom(w)
    /\ PushLocal(w, held[c])
    /\ LetsGo(c)
    /\ UNCHANGED <<fresh, gq, pc, victim, drainer, balancer, cancelling, futures, flags>>

\* The chosen worker is full.
SubmitOverflows(c, w) ==
    /\ held[c] # NoTask /\ ~HasRoom(w)
    /\ gq' = gq \cup {held[c]}
    /\ LetsGo(c)
    /\ UNCHANGED <<fresh, dq, pc, victim, drainer, balancer, cancelling, futures, flags>>

\* The caller of submit has the future once submit has returned.
HasFuture(t) == t \notin fresh /\ \A c \in Clients : held[c] # t

CancelChecks(c, t) ==
    /\ MayCancel /\ ClientIdle(c) /\ HasFuture(t) /\ ~event[t]
    /\ cancelling' = [cancelling EXCEPT ![c] = t]
    /\ UNCHANGED <<fresh, dq, gq, held, pc, victim, drainer, balancer, futures, flags>>

CancelSets(c) ==
    /\ cancelling[c] # NoTask
    /\ Signal(cancelling[c])
    /\ cancelling' = [cancelling EXCEPT ![c] = NoTask]
    /\ UNCHANGED <<fresh, dq, gq, held, pc, victim, drainer, balancer, runs, flags>>

-----------------------------------------------------------------------------
(* Worker threads. *)

PopLocal(w) ==
    /\ pc[w] = "loop" /\ ~shutdown[w]
    /\ IF dq[w] # <<>>
       THEN /\ Grabs(w, Head(dq[w]))
            /\ dq' = [dq EXCEPT ![w] = Tail(@)]
            /\ Goto(w, "check")
       ELSE Goto(w, "steal") /\ UNCHANGED <<dq, held>>
    /\ UNCHANGED <<fresh, gq, victim, drainer, balancer, cancelling, futures, flags>>

\* A fault: the peers of a worker were never wired.
NoCandidates(w) == {}

Candidates(w) == {v \in Workers \ {w} : dq[v] # <<>>}

\* Nobody has work: back off.
FindsNoVictim(w) ==
    /\ pc[w] = "steal" /\ Candidates(w) = {}
    /\ Goto(w, "loop")
    /\ UNCHANGED <<fresh, dq, gq, held, victim, drainer, balancer, cancelling, futures, flags>>

ChoosesVictim(w, v) ==
    /\ pc[w] = "steal" /\ v \in Candidates(w)
    /\ victim' = [victim EXCEPT ![w] = v]
    /\ Goto(w, "grab")
    /\ UNCHANGED <<fresh, dq, gq, held, drainer, balancer, cancelling, futures, flags>>

\* A fault: the victim keeps the task that is stolen.
StealPeeks(w) ==
    LET v == victim[w] IN
    /\ pc[w] = "grab"
    /\ IF dq[v] # <<>>
       THEN Grabs(w, Last(dq[v])) /\ Goto(w, "check")
       ELSE Goto(w, "loop") /\ UNCHANGED held
    /\ victim' = [victim EXCEPT ![w] = w]
    /\ UNCHANGED <<fresh, dq, gq, drainer, balancer, cancelling, futures, flags>>

Steal(w) ==
    LET v == victim[w] IN
    /\ pc[w] = "grab"
    /\ IF dq[v] # <<>>
       THEN /\ Grabs(w, Last(dq[v]))
            /\ dq' = [dq EXCEPT ![v] = Front(@)]
            /\ Goto(w, "check")
       ELSE Goto(w, "loop") /\ UNCHANGED <<dq, held>>
    /\ victim' = [victim EXCEPT ![w] = w]
    /\ UNCHANGED <<fresh, gq, drainer, balancer, cancelling, futures, flags>>

SkipsDone(w) ==
    /\ pc[w] = "check" /\ event[held[w]]
    /\ LetsGo(w) /\ Goto(w, "loop")
    /\ UNCHANGED <<fresh, dq, gq, victim, drainer, balancer, cancelling, futures, flags>>

\* A fault: future.done is not looked at before the task is taken up.
BeginsUnchecked(w) ==
    /\ pc[w] = "check"
    /\ Goto(w, "begin")
    /\ UNCHANGED <<fresh, dq, gq, held, victim, drainer, balancer, cancelling, futures, flags>>

\* future.done is not looked at again, however long opening the counters takes.
Begins(w) ==
    /\ pc[w] = "check" /\ ~event[held[w]]
    /\ Goto(w, "begin")
    /\ UNCHANGED <<fresh, dq, gq, held, victim, drainer, balancer, cancelling, futures, flags>>

Execute(w) ==
    /\ pc[w] = "begin"
    /\ runs' = [runs EXCEPT ![held[w]] = @ + 1]
    /\ Goto(w, "run")
    /\ UNCHANGED <<fresh, dq, gq, held, victim, drainer, balancer, cancelling,
                   event, flags>>

\* The function returned or raised an Exception.
Finish(w) ==
    /\ pc[w] = "run" /\ held[w] \notin Exits
    /\ Signal(held[w])
    /\ LetsGo(w) /\ Goto(w, "loop")
    /\ UNCHANGED <<fresh, dq, gq, victim, drainer, balancer, cancelling, runs, flags>>

\* It raised what "except Exception" does not catch: the thread ends.
Dies(w) ==
    /\ pc[w] = "run" /\ held[w] \in Exits
    /\ LetsGo(w) /\ Goto(w, "dead")
    /\ UNCHANGED <<fresh, dq, gq, victim, drainer, balancer, cancelling, futures, flags>>

Leaves(w) ==
    /\ pc[w] = "loop" /\ shutdown[w]
    /\ Goto(w, "exited")
    /\ UNCHANGED <<fresh, dq, gq, held, victim, drainer, balancer, cancelling, futures, flags>>

WorkerStep(w) ==
    \/ PopLocal(w) \/ FindsNoVictim(w) \/ (\E v \in Workers : ChoosesVictim(w, v))
    \/ Steal(w) \/ SkipsDone(w) \/ Begins(w) \/ Execute(w) \/ Finish(w) \/ Dies(w) \/ Leaves(w)

-----------------------------------------------------------------------------
(* _drain_global_queue. *)

DrainWakes ==
    /\ started /\ ~drainStop /\ ~draining
    /\ draining' = TRUE
    /\ UNCHANGED <<fresh, dq, gq, held, pc, victim, checked, balancer, cancelling, futures, flags>>

DrainPops(t) ==
    /\ draining /\ held[Drainer] = NoTask
    /\ t \in gq
    /\ gq' = gq \ {t}
    /\ Grabs(Drainer, t)
    /\ UNCHANGED <<fresh, dq, pc, victim, drainer, balancer, cancelling, futures, flags>>

DrainPauses ==
    /\ draining /\ held[Drainer] = NoTask /\ gq = {}
    /\ draining' = FALSE
    /\ UNCHANGED <<fresh, dq, gq, held, pc, victim, checked, balancer, cancelling, futures, flags>>

DrainChecks ==
    /\ held[Drainer] # NoTask /\ ~checked
    /\ IF event[held[Drainer]] THEN LetsGo(Drainer) /\ UNCHANGED checked
                               ELSE checked' = TRUE /\ UNCHANGED held
    /\ UNCHANGED <<fresh, dq, gq, pc, victim, draining, balancer, cancelling, futures, flags>>

\* A fault: the "continue" after a successful submit is missing.
DrainPlacesFallsThrough(w) ==
    /\ held[Drainer] # NoTask /\ checked /\ HasRoom(w)
    /\ PushLocal(w, held[Drainer])
    /\ gq' = gq \cup {held[Drainer]}
    /\ LetsGo(Drainer)
    /\ draining' = FALSE /\ checked' = FALSE
    /\ UNCHANGED <<fresh, pc, victim, balancer, cancelling, futures, flags>>

DrainPlaces(w) ==
    /\ held[Drainer] # NoTask /\ checked /\ HasRoom(w)
    /\ PushLocal(w, held[Drainer])
    /\ LetsGo(Drainer)
    /\ checked' = FALSE
    /\ UNCHANGED <<fresh, gq, pc, victim, draining, balancer, cancelling, futures, flags>>

DrainPutsBack(w) ==
    /\ held[Drainer] # NoTask /\ checked /\ ~HasRoom(w)
    /\ gq' = gq \cup {held[Drainer]}
    /\ LetsGo(Drainer)
    /\ draining' = FALSE /\ checked' = FALSE
    /\ UNCHANGED <<fresh, dq, pc, victim, balancer, cancelling, futures, flags>>

DrainStep ==
    \/ DrainWakes \/ (\E t \in gq : DrainPops(t)) \/ DrainPauses \/ DrainChecks
    \/ \E w \in Workers : DrainPlaces(w) \/ DrainPutsBack(w)

-----------------------------------------------------------------------------
(* AdaptiveRebalancer._rebalance_once. *)

RebalanceWakes ==
    /\ started /\ ~rebStop /\ ~balancing
    /\ balancing' = TRUE
    /\ UNCHANGED <<fresh, dq, gq, held, pc, victim, drainer, loads, move, cancelling,
                   futures, flags>>

\* The load factors are read one deque after the other.
RebalanceReads(w) ==
    /\ balancing /\ move.left = 0 /\ w \notin DOMAIN loads
    /\ loads' = [v \in DOMAIN loads \cup {w} |-> IF v = w THEN Len(dq[w]) ELSE loads[v]]
    /\ UNCHANGED <<fresh, dq, gq, held, pc, victim, drainer, balancing, move, cancelling,
                   futures, flags>>

\* sigma > 0.25 for the load factors loads[w] / Depth, without fractions.
LoadSum     == MapThenSumSet(LAMBDA w : loads[w], Workers)
LoadSquares == MapThenSumSet(LAMBDA w : loads[w] * loads[w], Workers)
Imbalanced  == LET N == Cardinality(Workers) IN
               16 * (N * LoadSquares - LoadSum * LoadSum) > N * N * Depth * Depth

Half(n) == IF n >= 2 THEN n \div 2 ELSE 1

RebalanceRests ==
    /\ balancing /\ move.left = 0 /\ DOMAIN loads = Workers
    /\ ~Imbalanced
    /\ balancing' = FALSE /\ loads' = NoLoads
    /\ UNCHANGED <<fresh, dq, gq, held, pc, victim, drainer, move, cancelling, futures, flags>>

RebalanceBegins(d, r) ==
    /\ balancing /\ move.left = 0 /\ DOMAIN loads = Workers
    /\ Imbalanced
    /\ \A w \in Workers : loads[d] >= loads[w] /\ loads[w] >= loads[r]
    /\ move' = [left |-> Half(loads[d] - loads[r]), donor |-> d, recipient |-> r]
    /\ loads' = NoLoads
    /\ UNCHANGED <<fresh, dq, gq, held, pc, victim, drainer, balancing, cancelling,
                   futures, flags>>

EndOfPass == move' = NoMove /\ balancing' = FALSE /\ UNCHANGED loads

NextSteal == IF move.left > 1
             THEN move' = [move EXCEPT !.left = @ - 1] /\ UNCHANGED <<balancing, loads>>
             ELSE EndOfPass

RebalanceSteals ==
    /\ move.left > 0 /\ held[Rebalancer] = NoTask
    /\ LET d == move.donor IN
       IF dq[d] # <<>>
       THEN /\ Grabs(Rebalancer, Last(dq[d]))
            /\ dq' = [dq EXCEPT ![d] = Front(@)]
            /\ UNCHANGED balancer
       ELSE EndOfPass /\ UNCHANGED <<dq, held>>
    /\ UNCHANGED <<fresh, gq, pc, victim, drainer, cancelling, futures, flags>>

\* A fault: a task that the data-locality guard holds back is not returned.
RebalanceSkipsForgets ==
    /\ held[Rebalancer] # NoTask
    /\ <<held[Rebalancer], move.recipient>> \in Far
    /\ NextSteal
    /\ LetsGo(Rebalancer)
    /\ UNCHANGED <<fresh, dq, gq, pc, victim, drainer, cancelling, futures, flags>>

\* The data-locality guard: back to the donor, whatever push_local returns.
RebalanceSkips ==
    /\ held[Rebalancer] # NoTask
    /\ <<held[Rebalancer], move.recipient>> \in Far
    /\ PushOrLose(move.donor, held[Rebalancer])
    /\ NextSteal
    /\ LetsGo(Rebalancer)
    /\ UNCHANGED <<fresh, gq, pc, victim, drainer, cancelling, futures, flags>>

RebalanceMoves ==
    /\ held[Rebalancer] # NoTask
    /\ <<held[Rebalancer], move.recipient>> \notin Far
    /\ HasRoom(move.recipient)
    /\ PushLocal(move.recipient, held[Rebalancer])
    /\ NextSteal
    /\ LetsGo(Rebalancer)
    /\ UNCHANGED <<fresh, gq, pc, victim, drainer, cancelling, futures, flags>>

\* The recipient filled up meanwhile: back to the donor, whatever push_local
\* returns, and the pass ends.
RebalanceGivesUp ==
    /\ held[Rebalancer] # NoTask
    /\ <<held[Rebalancer], move.recipient>> \notin Far
    /\ ~HasRoom(move.recipient)
    /\ PushOrLose(move.donor, held[Rebalancer])
    /\ EndOfPass
    /\ LetsGo(Rebalancer)
    /\ UNCHANGED <<fresh, gq, pc, victim, drainer, cancelling, futures, flags>>

RebalanceStep ==
    \/ RebalanceWakes \/ (\E w \in Workers : RebalanceReads(w)) \/ RebalanceRests
    \/ \E d, r \in Workers : RebalanceBegins(d, r)
    \/ RebalanceSteals \/ RebalanceSkips \/ RebalanceMoves \/ RebalanceGivesUp

-----------------------------------------------------------------------------
(* start and stop. *)

Start ==
    /\ ~started /\ started' = TRUE
    /\ pc' = [w \in Workers |-> "loop"]
    /\ UNCHANGED <<fresh, dq, gq, held, victim, drainer, balancer, cancelling, futures,
                   stopped, drainStop, rebStop, shutdown, stopping>>

\* stop raises its flags and the rebalancer's.  Before start() that is all it
\* does: joining a thread that was never started raises RuntimeError.
Stop ==
    /\ MayStop /\ ~stopped
    /\ stopped' = TRUE /\ drainStop' = TRUE /\ rebStop' = TRUE
    /\ stopping' = started
    /\ UNCHANGED <<fresh, dq, gq, held, pc, victim, drainer, balancer, cancelling, futures,
                   started, shutdown>>

\* Worker.stop of the next worker, once the joins before it returned or timed out.
StopWorker(w) ==
    /\ stopping /\ ~shutdown[w]
    /\ shutdown' = [shutdown EXCEPT ![w] = TRUE]
    /\ UNCHANGED <<fresh, dq, gq, held, pc, victim, drainer, balancer, cancelling, futures,
                   started, stopped, drainStop, rebStop, stopping>>

Next ==
    \/ \E c \in Clients :
          \/ \E t \in Tasks : Submit(c, t) \/ CancelChecks(c, t)
          \/ \E w \in Workers : SubmitPushes(c, w) \/ SubmitOverflows(c, w)
          \/ CancelSets(c)
    \/ \E w \in Workers : WorkerStep(w) \/ StopWorker(w)
    \/ DrainStep
    \/ RebalanceStep
    \/ Start \/ Stop

Spec == Init /\ [][Next]_vars

\* Every thread that can take a step of its loop is scheduled again; a client
\* inside submit or cancel returns; start is called.
FairSpec ==
    /\ Spec
    /\ \A w \in Workers : WF_vars(WorkerStep(w)) /\ WF_vars(StopWorker(w))
    /\ WF_vars(DrainStep) /\ WF_vars(RebalanceStep) /\ WF_vars(Start)
    /\ \A c \in Clients : /\ WF_vars(CancelSets(c))
                          /\ WF_vars(\E w \in Workers : SubmitPushes(c, w) \/ SubmitOverflows(c, w))

-----------------------------------------------------------------------------
QueuesOK ==
    /\ fresh \subseteq Tasks
    /\ dq \in [Workers -> Seq(Tasks)]
    /\ \A w \in Workers : Len(dq[w]) <= Depth
    /\ gq \subseteq Tasks

ThreadsOK ==
    /\ held \in [Actors -> Tasks \cup {NoTask}]
    /\ pc \in [Workers -> {"unstarted", "loop", "steal", "grab", "check", "begin", "run", "dead", "exited"}]
    /\ \A w \in Workers : pc[w] \in {"check", "begin", "run"} <=> held[w] # NoTask
    /\ started \in BOOLEAN
    /\ ~started => \A w \in Workers : pc[w] = "unstarted"
    /\ victim \in [Workers -> Workers]

BackgroundOK ==
    /\ checked \in BOOLEAN /\ draining \in BOOLEAN
    /\ move \in [left : Nat, donor : Workers \cup {NoTask}, recipient : Workers \cup {NoTask}]
    /\ move.left > 0 => move.donor \in Workers /\ move.recipient \in Workers
    /\ held[Rebalancer] # NoTask => move.left > 0
    /\ balancing \in BOOLEAN
    /\ move.left > 0 => balancing
    /\ DOMAIN loads \subseteq Workers /\ \A w \in DOMAIN loads : loads[w] \in Nat

FuturesOK ==
    /\ cancelling \in [Clients -> Tasks \cup {NoTask}]
    /\ event \in [Tasks -> BOOLEAN]
    /\ runs \in [Tasks -> Nat]

FlagsOK ==
    /\ stopped \in BOOLEAN /\ stopping \in BOOLEAN
    /\ drainStop \in BOOLEAN /\ rebStop \in BOOLEAN
    /\ shutdown \in [Workers -> BOOLEAN]

\* The types, with what ties them: a worker has a task in its hands exactly
\* from the check of its future to the end of its function, the rebalancer only in the middle of a pass.
TypeOK == QueuesOK /\ ThreadsOK /\ BackgroundOK /\ FuturesOK /\ FlagsOK

InDeque(t) == \E w \in Workers : \E i \in 1..Len(dq[w]) : dq[w][i] = t
InHand(t)  == \E a \in Actors : held[a] = t
Placed(t)  == t \in gq \/ InDeque(t) \/ InHand(t)

\* A task is in one place at a time: one slot of one deque, the overflow queue
\* or one thread's hands.  Popping, stealing, migrating, draining and putting
\* back never leave a second copy behind for another worker to run.
DequesDisjoint ==
    \A w, v \in Workers : \A i \in 1..Len(dq[w]), j \in 1..Len(dq[v]) :
        dq[w][i] = dq[v][j] => w = v /\ i = j

HandsDisjoint == \A a, b \in Actors : held[a] = held[b] /\ held[a] # NoTask => a = b

KindsDisjoint ==
    \A t \in Tasks : /\ ~(t \in gq /\ InDeque(t))
                     /\ ~(t \in gq /\ InHand(t))
                     /\ ~(InDeque(t) /\ InHand(t))

FreshUnplaced == \A t \in fresh : ~Placed(t)

OnePlace == DequesDisjoint /\ HandsDisjoint /\ KindsDisjoint /\ FreshUnplaced

\* No worker calls the function of a task twice, whatever is stolen, migrated,
\* cancelled or put back.
RunsOnce == \A t \in Tasks : runs[t] <= 1

\* "No task is silently dropped": a submitted task whose future is not set is
\* still somewhere, unless it ended its worker.
NoTaskDropped ==
    \A t \in Tasks \ fresh : event[t] \/ Placed(t) \/ (t \in Exits /\ runs[t] > 0)

\* "Every submitted task gets exactly one TaskFuture signal".
EverySubmittedSignalled ==
    \A t \in Tasks : (started /\ t \notin fresh) ~> event[t]

\* The same of the tasks that do not end their worker.
OrdinaryTasksSignalled ==
    \A t \in Tasks \ Exits : (started /\ t \notin fresh) ~> event[t]

-----------------------------------------------------------------------------
(* What a client is promised, stated in TaskLifecycle. *)

At(t, label) == \E w \in Workers : pc[w] = label /\ held[w] = t

Taken(t)   == At(t, "begin")
Running(t) == At(t, "run")
Waits(t)   == Placed(t) /\ ~Taken(t) /\ ~Running(t)

Life(t) == CASE t \in fresh  -> "new"
             [] Taken(t)     -> "taken"
             [] Running(t)   -> "running"
             [] Waits(t)     -> "pending"
             [] ~Placed(t) /\ t \notin fresh /\ (event[t] \/ runs[t] > 0)    -> "ended"
             [] ~Placed(t) /\ t \notin fresh /\ ~event[t] /\ runs[t] = 0      -> "lost"

Lifecycle == INSTANCE TaskLifecycle WITH life <- [t \in Tasks |-> Life(t)]

KeepsLifecycle == Lifecycle!Spec

\* "Mark the future cancelled before it begins execution": no function is called
\* after its future was set.
CancelledNotCalled == [][\A t \in Tasks : event[t] => runs'[t] = runs[t]]_vars
=============================================================================
