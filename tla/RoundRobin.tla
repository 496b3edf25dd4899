----------------------------- MODULE RoundRobin -----------------------------
(***************************************************************************)
(* The process scheduler of os/core/aios_process.py: RoundRobinScheduler,  *)
(* the timer interrupt that drives it (TimerDriver) and the system calls   *)
(* that threads make on behalf of the current process (SysCallGate).       *)
(*                                                                         *)
(* The scheduler's methods hold its lock; the system call gate reads the   *)
(* current process before a handler takes it, and the timer handler walks  *)
(* its sleep table between two calls of the scheduler.                     *)
(*                                                                         *)
(* wait is not counted beyond the value that makes a process most urgent,  *)
(* nor ticks below 0: the code tells those values apart nowhere.  The      *)
(* branch of _schedule_next_locked that switches from a running process    *)
(* is left out, because every caller clears _running first, and so is r12, *)
(* where SYS_SLEEP leaves its argument, because nothing reads it.          *)
(***************************************************************************)
EXTENDS Naturals, Sequences, FiniteSets

CONSTANTS Procs,          \* the processes that may be created
          Callers,        \* threads that make system calls
          Base,           \* base_priority of each process, 0 the most urgent
          AgingPeriod,    \* 1 / _AGING_RATE
          QuantumBase,    \* _QUANTUM_BASE_TICKS
          QuantumStep,    \* _QUANTUM_BASE_TICKS * _QUANTUM_BETA
          MaxSleep,       \* bound on the countdowns given to sleep_pid
          NoProc

ASSUME RoundRobinAssumption ==
    /\ Base \in [Procs -> Nat]
    /\ AgingPeriod \in Nat \ {0} /\ QuantumBase \in Nat \ {0}
    /\ QuantumStep \in Nat /\ MaxSleep \in Nat \ {0}
    /\ NoProc \notin Procs

VARIABLES
    state,      \* the state of each PCB
    ready,      \* _ready_q
    running,    \* _running
    wait,       \* wait_ticks
    ticks,      \* ticks_remaining
    caller,     \* the process that each caller's system call acts for
    sleep,      \* _sleep_table, 0 for a process without an entry
    timer,      \* where the timer handler is
    left,       \* the sleepers that it has not visited yet
    waking      \* the sleeper it is about to unblock

scheduler == <<state, ready, running, wait, ticks>>
handler   == <<sleep, timer, left, waking>>
vars      == <<scheduler, caller, handler>>

Init ==
    /\ state = [p \in Procs |-> "NEW"]
    /\ ready = <<>>
    /\ running = NoProc
    /\ wait = [p \in Procs |-> 0]
    /\ ticks = [p \in Procs |-> 0]
    /\ caller = [c \in Callers |-> NoProc]
    /\ sleep = [p \in Procs |-> 0]
    /\ timer = "off" /\ left = {} /\ waking = NoProc

-----------------------------------------------------------------------------
Less(a, b) == IF a > b THEN a - b ELSE 0

Quantum(n) == QuantumBase + QuantumStep * Less(n, 1)

\* A fault: waiting does not make a process more urgent.
NoAging(p, w) == Base[p]

\* effective_priority of p when it has waited for w[p] ticks.
Urgency(p, w) == Less(Base[p], w[p] \div AgingPeriod)

\* The stable sort's first: the earliest of the most urgent processes in q.
First(q, w) ==
    q[CHOOSE i \in 1..Len(q) :
        /\ \A j \in 1..Len(q) : Urgency(q[i], w) <= Urgency(q[j], w)
        /\ \A j \in 1..i - 1  : Urgency(q[i], w) <  Urgency(q[j], w)]

\* The n-th smallest number in S.
Nth(S, n) == CHOOSE i \in S : Cardinality({j \in S : j <= i}) = n

\* q without the entries for p: SelectSeq's result, in a form to reason about.
Without(q, p) ==
    LET kept == {i \in 1..Len(q) : q[i] # p}
    IN [n \in 1..Cardinality(kept) |-> q[Nth(kept, n)]]

\* A fault: only the first entry of the chosen process is removed.
DispatchRemovesHead(q, w, s) ==
    IF q = <<>>
    THEN /\ running' = NoProc
         /\ ready' = q /\ wait' = w /\ state' = s
    ELSE LET p == First(q, w) IN
         /\ running' = p
         /\ ready' = Tail(q)
         /\ wait' = [w EXCEPT ![p] = 0]
         /\ state' = [s EXCEPT ![p] = "RUNNING"]

\* _schedule_next_locked, called with no process running.
Dispatch(q, w, s) ==
    IF q = <<>>
    THEN /\ running' = NoProc
         /\ ready' = q /\ wait' = w /\ state' = s
    ELSE LET p == First(q, w) IN
         /\ running' = p
         /\ ready' = Without(q, p)
         /\ wait' = [w EXCEPT ![p] = 0]
         /\ state' = [s EXCEPT ![p] = "RUNNING"]

\* A process became READY and is given a quantum.
Enqueue(p) ==
    /\ state' = [state EXCEPT ![p] = "READY"]
    /\ ticks' = [ticks EXCEPT ![p] = Quantum(Len(ready))]
    /\ ready' = Append(ready, p)
    /\ UNCHANGED <<running, wait>>

-----------------------------------------------------------------------------
(* Processes and their system calls. *)

\* create_process: insert into the process table and admit.
Create(p) ==
    /\ state[p] = "NEW"
    /\ Enqueue(p)
    /\ UNCHANGED <<caller, handler>>

Schedule ==
    /\ running = NoProc
    /\ Dispatch(ready, wait, state)
    /\ UNCHANGED <<ticks, caller, handler>>

\* A caller enters the gate, which reads current_process (with no current
\* process a system call does nothing).
Enters(c) ==
    /\ caller[c] = NoProc /\ running # NoProc
    /\ caller' = [caller EXCEPT ![c] = running]
    /\ UNCHANGED <<scheduler, handler>>

Returns(c) == caller' = [caller EXCEPT ![c] = NoProc]

\* A fault: the processor is given to nobody.
StopsOnly(p, s) ==
    /\ state' = [state EXCEPT ![p] = s]
    /\ running' = IF running = p THEN NoProc ELSE running
    /\ UNCHANGED <<ready, wait, ticks>>

\* A process stops for good or for a while; if it was running, the next one runs.
Stops(p, s) ==
    /\ IF running = p THEN Dispatch(ready, wait, [state EXCEPT ![p] = s])
       ELSE state' = [state EXCEPT ![p] = s] /\ UNCHANGED <<ready, running, wait>>
    /\ UNCHANGED ticks

SysExit(c) ==
    /\ caller[c] # NoProc
    /\ Stops(caller[c], "ZOMBIE")
    /\ Returns(c) /\ UNCHANGED handler

\* A fault: block does not insist on a RUNNING process.
SysSleepUnchecked(c) ==
    /\ caller[c] # NoProc
    /\ Stops(caller[c], "BLOCKED")
    /\ Returns(c) /\ UNCHANGED handler

SysSleep(c) ==
    /\ caller[c] # NoProc /\ state[caller[c]] = "RUNNING"
    /\ Stops(caller[c], "BLOCKED")
    /\ Returns(c) /\ UNCHANGED handler

SysYield(c) ==
    /\ caller[c] # NoProc /\ state[caller[c]] = "RUNNING"
    /\ ticks' = [ticks EXCEPT ![caller[c]] = 0]
    /\ Returns(c) /\ UNCHANGED <<state, ready, running, wait, handler>>

\* SYS_GETPID, an unknown number, a block() that raises or a yield in vain.
SysNothing(c) ==
    /\ caller[c] # NoProc
    /\ Returns(c) /\ UNCHANGED <<scheduler, handler>>

SleepPid(p, n) ==
    /\ state[p] # "NEW"
    /\ sleep' = [sleep EXCEPT ![p] = n]
    /\ UNCHANGED <<scheduler, caller, timer, left, waking>>

-----------------------------------------------------------------------------
(* The timer interrupt. *)

Copies(p) == Cardinality({i \in 1..Len(ready) : ready[i] = p})

\* A process ages once for each of its entries in the queue.
Aged == [p \in Procs |-> IF wait[p] + Copies(p) < Base[p] * AgingPeriod
                         THEN wait[p] + Copies(p) ELSE Base[p] * AgingPeriod]

\* A fault: the preempted process is not put back.
PreemptForgets ==
    /\ ticks' = [ticks EXCEPT ![running] = 0]
    /\ Dispatch(ready, Aged, state)

\* The quantum is used up: back to the tail, and the next one runs.
Preempt ==
    /\ ticks' = [ticks EXCEPT ![running] = 0]
    /\ Dispatch(Append(ready, running), Aged, state)

\* scheduler.tick(), the first thing _isr does.
Tick ==
    /\ timer = "off"
    /\ timer' = "waking"
    /\ left' = {p \in Procs : sleep[p] > 0}
    /\ IF running = NoProc
       THEN wait' = Aged /\ UNCHANGED <<state, ready, running, ticks>>
       ELSE IF ticks[running] <= 1 THEN Preempt
       ELSE /\ ticks' = [ticks EXCEPT ![running] = @ - 1]
            /\ wait' = Aged
            /\ UNCHANGED <<state, ready, running>>
    /\ UNCHANGED <<caller, sleep, waking>>

Visits(p) ==
    /\ timer = "waking" /\ waking = NoProc /\ p \in left
    /\ left' = left \ {p}
    /\ sleep' = [sleep EXCEPT ![p] = @ - 1]
    /\ waking' = IF sleep[p] = 1 /\ state[p] = "BLOCKED" THEN p ELSE NoProc
    /\ UNCHANGED <<scheduler, caller, timer>>

Unblocks ==
    /\ waking # NoProc /\ state[waking] = "BLOCKED"
    /\ Enqueue(waking)
    /\ waking' = NoProc
    /\ UNCHANGED <<caller, sleep, timer, left>>

\* unblock raises, which ends the handler: dispatch swallows what it raises.
UnblockRaises ==
    /\ waking # NoProc /\ state[waking] # "BLOCKED"
    /\ waking' = NoProc
    /\ timer' = "off" /\ left' = {}
    /\ UNCHANGED <<scheduler, caller, sleep>>

\* Every sleeper was visited; the handler sends EOI and returns.
Eoi ==
    /\ timer = "waking" /\ waking = NoProc /\ left = {}
    /\ timer' = "off"
    /\ UNCHANGED <<scheduler, caller, sleep, left, waking>>

TimerStep == Tick \/ (\E p \in Procs : Visits(p)) \/ Unblocks \/ UnblockRaises \/ Eoi

Next ==
    \/ \E p \in Procs : Create(p) \/ \E n \in 1..MaxSleep : SleepPid(p, n)
    \/ \E c \in Callers : Enters(c) \/ SysExit(c) \/ SysSleep(c) \/ SysYield(c) \/ SysNothing(c)
    \/ Schedule
    \/ TimerStep

Spec == Init /\ [][Next]_vars

\* The timer goes on interrupting; nobody has to make a system call.
FairSpec == Spec /\ WF_vars(TimerStep)

-----------------------------------------------------------------------------
Queued(p) == \E i \in 1..Len(ready) : ready[i] = p

TypeOK ==
    /\ state \in [Procs -> {"NEW", "READY", "RUNNING", "BLOCKED", "ZOMBIE"}]
    /\ ready \in Seq(Procs)
    /\ running \in Procs \cup {NoProc}
    /\ wait \in [Procs -> Nat]
    /\ ticks \in [Procs -> Nat]
    /\ caller \in [Callers -> Procs \cup {NoProc}]
    /\ sleep \in [Procs -> Nat]
    /\ timer \in {"off", "waking"} /\ left \subseteq Procs
    /\ waking \in Procs \cup {NoProc}

\* The process that has the processor is RUNNING and waits in no queue, so no
\* preemption, late system call or wakeup makes it run twice at once.
RunningIsOut == running # NoProc => state[running] = "RUNNING" /\ ~Queued(running)

\* A process that can run is not lost: it has the processor or is queued for it.
RunnableNotLost ==
    \A p \in Procs : state[p] \in {"READY", "RUNNING"} => running = p \/ Queued(p)

\* However stale the system calls are, the ready queue stays bounded: a process
\* that was blocked in the queue and woken has two entries, never more.
QueueBounded == \A p \in Procs : Copies(p) <= 2

\* Nobody runs twice at once, nobody who can run is lost and the queue is bounded.
ProcessesKept == TypeOK /\ RunningIsOut /\ RunnableNotLost /\ QueueBounded

\* The processor is given up only when nobody is queued for it.
IdlesOnlyWhenEmpty == [][running # NoProc /\ running' = NoProc => ready' = <<>>]_vars

\* "Priority aging prevents starvation": once the scheduler is running, a queued
\* process gets the processor, whatever arrives, sleeps, yields or exits.
NoStarvation == \A p \in Procs : (running # NoProc /\ Queued(p)) ~> (running = p)

-----------------------------------------------------------------------------
\* "terminate calling process": who exited never runs again.
ExitIsFinal == [][\A p \in Procs : state[p] = "ZOMBIE" => state'[p] = "ZOMBIE"]_vars
=============================================================================
