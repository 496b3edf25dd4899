-------------------------- MODULE RoundRobinProofs --------------------------
(***************************************************************************)
(* What holds of the process scheduler for every number of processes,      *)
(* callers and priorities, and whatever its quantum.                       *)
(***************************************************************************)
EXTENDS RoundRobin, FiniteSetTheorems, SequenceTheorems, WellFoundedInduction, TLAPS

-----------------------------------------------------------------------------
(* Numbers, and the queue without the entries of a process. *)

LEMMA LeastOfNaturals ==
    ASSUME NEW T \in SUBSET Nat, T # {}
    PROVE  \E m \in T : \A n \in T : m <= n
<1>1. PICK m \in T : \A n \in T : ~(<<n, m>> \in OpToRel(<, Nat))
    BY NatLessThanWellFounded, WFMin
<1>2. \A n \in T : ~(n < m)
    BY <1>1 DEF OpToRel
<1>3. QED BY <1>2

\* Every position up to the size of a finite set of numbers is that of one member.
LEMMA NthExists ==
    ASSUME NEW N \in Nat, NEW S \in SUBSET (1..N)
    PROVE  /\ IsFiniteSet(S) /\ Cardinality(S) \in Nat
           /\ \A n \in 1..Cardinality(S) :
                 Nth(S, n) \in S /\ Cardinality({j \in S : j <= Nth(S, n)}) = n
           /\ \A i \in S : \E n \in 1..Cardinality(S) : Nth(S, n) = i
<1> DEFINE Upto(i) == {j \in S : j <= i}
           rank == [i \in S |-> Cardinality(Upto(i))]
<1>0. IsFiniteSet(1..N)
    BY FS_Interval
<1>1. IsFiniteSet(S) /\ Cardinality(S) \in Nat
    BY <1>0, FS_Subset, FS_CardinalityType
<1>2. ASSUME NEW i \in S
      PROVE  IsFiniteSet(Upto(i)) /\ Cardinality(Upto(i)) \in 1..Cardinality(S)
    <2>1. IsFiniteSet(Upto(i)) /\ Cardinality(Upto(i)) <= Cardinality(S)
        BY <1>1, FS_Subset
    <2>2. Cardinality(Upto(i)) # 0
        BY <2>1, FS_EmptySet
    <2>3. QED BY <1>1, <2>1, <2>2, FS_CardinalityType
<1>3. ASSUME NEW i \in S, NEW k \in S, i < k
      PROVE  Cardinality(Upto(i)) # Cardinality(Upto(k))
    <2>0. i \in Int /\ k \in Int /\ \A j \in S : j \in Int
        OBVIOUS
    <2>1. Upto(i) \in SUBSET Upto(k) /\ k \in Upto(k) /\ k \notin Upto(i)
        <3>1. \A j \in S : j <= i => j <= k
            BY <2>0, <1>3
        <3>2. k <= k /\ ~(k <= i)
            BY <2>0, <1>3
        <3>3. QED BY <3>1, <3>2
    <2>2. QED BY <1>2, <2>1, FS_Subset
<1>4. rank \in [S -> 1..Cardinality(S)]
    BY <1>2
<1>5. ASSUME NEW i \in S, NEW k \in S, rank[i] = rank[k] PROVE i = k
    <2>1. i \in Int /\ k \in Int /\ ~(i < k) /\ ~(k < i)
        BY <1>3, <1>5
    <2>2. QED BY <2>1
<1>6. rank \in Injection(S, 1..Cardinality(S))
    BY <1>4, <1>5 DEF Injection, IsInjective
<1>7. IsFiniteSet(1..Cardinality(S)) /\ Cardinality(1..Cardinality(S)) = Cardinality(S)
    BY <1>1, FS_Interval
<1>8. rank \in Surjection(S, 1..Cardinality(S))
    BY <1>1, <1>6, <1>7, FS_Injection
<1>9. ASSUME NEW n \in 1..Cardinality(S)
      PROVE  Nth(S, n) \in S /\ Cardinality(Upto(Nth(S, n))) = n
    <2>1. \E i \in S : Cardinality(Upto(i)) = n
        BY <1>8 DEF Surjection
    <2>2. QED BY <2>1 DEF Nth
<1>10. ASSUME NEW i \in S PROVE \E n \in 1..Cardinality(S) : Nth(S, n) = i
    <2> DEFINE n == Cardinality(Upto(i))
    <2>1. n \in 1..Cardinality(S)
        BY <1>2
    <2>2. Nth(S, n) \in S /\ rank[Nth(S, n)] = rank[i]
        BY <1>9, <2>1
    <2>3. QED BY <1>5, <2>1, <2>2
<1>11. QED BY <1>1, <1>9, <1>10

\* How often a process is in a queue, and where.
Places(q, p) == {i \in 1..Len(q) : q[i] = p}
CopiesIn(q, p) == Cardinality(Places(q, p))
IsIn(q, p) == \E i \in 1..Len(q) : q[i] = p

LEMMA CopiesAreFinite ==
    ASSUME NEW q \in Seq(Procs), NEW p
    PROVE  /\ IsFiniteSet(Places(q, p)) /\ CopiesIn(q, p) \in Nat
           /\ IsIn(q, p) <=> CopiesIn(q, p) # 0
<1>1. Places(q, p) \in SUBSET (1..Len(q)) /\ Len(q) \in Nat
    BY DEF Places
<1>2. IsFiniteSet(Places(q, p))
    <2>1. IsFiniteSet(1..Len(q))
        BY <1>1, FS_Interval
    <2>2. QED BY <1>1, <2>1, FS_Subset
<1>3. QED BY <1>2, FS_CardinalityType, FS_EmptySet DEF CopiesIn, IsIn, Places

LEMMA AppendedCopies ==
    ASSUME NEW q \in Seq(Procs), NEW p \in Procs, NEW r \in Procs
    PROVE  /\ Append(q, p) \in Seq(Procs) /\ Append(q, p) # <<>>
           /\ CopiesIn(Append(q, p), r) = CopiesIn(q, r) + IF r = p THEN 1 ELSE 0
           /\ IsIn(Append(q, p), r) <=> IsIn(q, r) \/ r = p
<1> DEFINE a == Append(q, p)
<1>1. /\ a \in Seq(Procs) /\ a # <<>> /\ Len(a) = Len(q) + 1 /\ Len(q) \in Nat
      /\ a[Len(q) + 1] = p /\ \A i \in 1..Len(q) : a[i] = q[i]
    OBVIOUS
<1> HIDE DEF a
<1>2. CASE r = p
    <2>1. Places(a, r) = Places(q, r) \cup {Len(q) + 1} /\ Len(q) + 1 \notin Places(q, r)
        BY <1>1, <1>2 DEF Places
    <2>2. CopiesIn(a, r) = CopiesIn(q, r) + 1
        BY <2>1, CopiesAreFinite, FS_AddElement DEF CopiesIn
    <2>3. IsIn(a, r)
        BY <1>1, <1>2 DEF IsIn
    <2>4. QED BY <1>1, <1>2, <2>2, <2>3 DEF a
<1>3. CASE r # p
    <2>1. Places(a, r) = Places(q, r)
        BY <1>1, <1>3 DEF Places
    <2>2. CopiesIn(a, r) = CopiesIn(q, r)
        BY <2>1 DEF CopiesIn
    <2>3. IsIn(a, r) <=> IsIn(q, r)
        BY <1>1, <2>2, CopiesAreFinite
    <2>4. QED BY <1>1, <1>3, <2>2, <2>3, CopiesAreFinite DEF a
<1>4. QED BY <1>2, <1>3

LEMMA WithoutOneProcess ==
    ASSUME NEW q \in Seq(Procs), NEW p
    PROVE  /\ Without(q, p) \in Seq(Procs)
           /\ ~IsIn(Without(q, p), p)
           /\ \A r \in Procs : r # p /\ IsIn(q, r) => IsIn(Without(q, p), r)
           /\ \A r \in Procs : CopiesIn(Without(q, p), r) <= CopiesIn(q, r)
<1> DEFINE kept == {i \in 1..Len(q) : q[i] # p}
           size == Cardinality(kept)
           s == Without(q, p)
<1>1. Len(q) \in Nat /\ kept \in SUBSET (1..Len(q))
    OBVIOUS
<1>2. /\ size \in Nat
      /\ \A n \in 1..size :
            Nth(kept, n) \in kept /\ Cardinality({j \in kept : j <= Nth(kept, n)}) = n
      /\ \A i \in kept : \E n \in 1..size : Nth(kept, n) = i
    BY <1>1, NthExists
<1>3. s = [n \in 1..size |-> q[Nth(kept, n)]]
    BY DEF Without
<1>4. \A i \in 1..Len(q) : q[i] \in Procs
    OBVIOUS
<1>5. \A i \in kept : i \in 1..Len(q) /\ q[i] # p
    OBVIOUS
<1> HIDE DEF kept, size, s
<1>6. /\ s \in Seq(Procs) /\ Len(s) = size
      /\ \A n \in 1..size : s[n] = q[Nth(kept, n)]
    <2>1. s \in [1..size -> Procs]
        BY <1>2, <1>3, <1>4, <1>5
    <2>2. QED BY <1>2, <1>3, <2>1, SeqDef
<1>7. ~IsIn(s, p)
    BY <1>2, <1>5, <1>6 DEF IsIn
<1>8. ASSUME NEW r \in Procs, r # p, IsIn(q, r) PROVE IsIn(s, r)
    <2>1. PICK i \in 1..Len(q) : q[i] = r
        BY <1>8 DEF IsIn
    <2>2. i \in kept
        BY <1>8, <2>1 DEF kept
    <2>3. PICK n \in 1..size : Nth(kept, n) = i
        BY <1>2, <2>2
    <2>4. QED BY <1>6, <2>1, <2>3 DEF IsIn
<1>9. ASSUME NEW r \in Procs PROVE CopiesIn(s, r) <= CopiesIn(q, r)
    <2> DEFINE f == [n \in Places(s, r) |-> Nth(kept, n)]
    <2>1. \A n \in Places(s, r) : n \in 1..size /\ Nth(kept, n) \in Places(q, r)
        BY <1>2, <1>5, <1>6 DEF Places
    <2>2. f \in [Places(s, r) -> Places(q, r)]
        BY <2>1
    <2>3. \A m, n \in Places(s, r) : f[m] = f[n] => m = n
        BY <1>2, <2>1
    <2>4. f \in Injection(Places(s, r), Places(q, r))
        BY <2>2, <2>3 DEF Injection, IsInjective
    <2>5. QED BY <2>4, CopiesAreFinite, FS_Injection DEF CopiesIn
<1>10. QED BY <1>6, <1>7, <1>8, <1>9 DEF s

-----------------------------------------------------------------------------
(* Urgency and the choice of the next process. *)

LEMMA UrgencyIsNatural ==
    ASSUME NEW p \in Procs, NEW w \in [Procs -> Nat]
    PROVE  Urgency(p, w) \in Nat
<1>1. Base[p] \in Nat /\ w[p] \div AgingPeriod \in Int
    BY RoundRobinAssumption
<1>2. QED BY <1>1 DEF Urgency, Less

\* A queue that is not empty has a first entry, which is one of its processes.
LEMMA FirstIsQueued ==
    ASSUME NEW q \in Seq(Procs), q # <<>>, NEW w \in [Procs -> Nat]
    PROVE  First(q, w) \in Procs /\ IsIn(q, First(q, w))
<1> DEFINE u(i) == Urgency(q[i], w)
           levels == {u(i) : i \in 1..Len(q)}
<1>1. Len(q) \in Nat /\ 1 \in 1..Len(q) /\ \A i \in 1..Len(q) : q[i] \in Procs
    BY EmptySeq
<1>2. \A i \in 1..Len(q) : u(i) \in Nat
    BY <1>1, UrgencyIsNatural
<1> HIDE DEF u
<1>3. PICK m \in levels : \A n \in levels : m <= n
    <2>1. levels \in SUBSET Nat /\ levels # {}
        BY <1>1, <1>2
    <2> HIDE DEF levels
    <2>2. QED BY <2>1, LeastOfNaturals
<1> DEFINE urgent == {i \in 1..Len(q) : u(i) = m}
<1>4. urgent \in SUBSET Nat /\ urgent # {}
    BY <1>1, <1>3
<1>5. PICK i \in urgent : \A j \in urgent : i <= j
    BY <1>4, LeastOfNaturals
<1>6. /\ i \in 1..Len(q)
      /\ \A j \in 1..Len(q) : u(i) <= u(j)
      /\ \A j \in 1..i - 1 : u(i) < u(j)
    <2>1. \A j \in 1..Len(q) : u(i) <= u(j)
        BY <1>3, <1>5
    <2>2. ASSUME NEW j \in 1..i - 1 PROVE u(i) < u(j)
        <3>1. j \in 1..Len(q) /\ ~(i <= j)
            BY <1>1
        <3>2. u(j) # m
            BY <1>5, <3>1
        <3>3. u(i) <= u(j) /\ u(i) = m /\ u(i) \in Nat /\ u(j) \in Nat
            BY <1>2, <2>1, <3>1
        <3>4. QED BY <3>2, <3>3
    <2>3. QED BY <2>1, <2>2
<1>7. \E k \in 1..Len(q) : First(q, w) = q[k]
    BY <1>6 DEF First, u
<1>8. QED BY <1>1, <1>7 DEF IsIn

LEMMA AgedTyped == ASSUME TypeOK PROVE Aged \in [Procs -> Nat]
<1>1. ASSUME NEW p \in Procs PROVE Copies(p) \in Nat
    BY CopiesAreFinite DEF Copies, CopiesIn, Places, TypeOK
<1>2. ASSUME NEW p \in Procs PROVE Base[p] * AgingPeriod \in Nat
    BY RoundRobinAssumption
<1>3. QED BY <1>1, <1>2 DEF Aged, TypeOK

LEMMA QuantumTyped == ASSUME NEW n \in Nat PROVE Quantum(n) \in Nat
<1>1. Less(n, 1) \in Nat
    BY DEF Less
<1>2. QED BY <1>1, RoundRobinAssumption DEF Quantum

-----------------------------------------------------------------------------
(* The inductive invariant *)

(* How often a process may be queued depends on its state: a preempted process is   *)
(* queued and still RUNNING, so a late SYS_SLEEP can block it in the queue, and a    *)
(* wakeup adds a second entry.  Only RUNNING ones are ever blocked, and a dispatch   *)
(* removes every entry, so that there is no third.                                   *)
QueuedByState(q, s) ==
    \A p \in Procs :
        /\ s[p] = "NEW" => CopiesIn(q, p) = 0
        /\ s[p] \in {"RUNNING", "BLOCKED"} => CopiesIn(q, p) <= 1
        /\ CopiesIn(q, p) <= 2

\* Who can run is in the queue or the processor's.
Kept(q, s, r) == \A p \in Procs : s[p] \in {"READY", "RUNNING"} => r = p \/ IsIn(q, p)

\* The processor's process is RUNNING and not in the queue.
Out(q, s, r) == r # NoProc => s[r] = "RUNNING" /\ ~IsIn(q, r)

\* The timer visits each sleeper once, so no countdown falls below zero.
SleepersCount == \A p \in left : sleep[p] > 0

SchedulerInv ==
    /\ TypeOK /\ SleepersCount
    /\ QueuedByState(ready, state)
    /\ Kept(ready, state, running) /\ Out(ready, state, running)

States == {"NEW", "READY", "RUNNING", "BLOCKED", "ZOMBIE"}

\* What a dispatch establishes, from a queue in which everybody who can run is.
LEMMA DispatchKeeps ==
    ASSUME NEW q \in Seq(Procs), NEW w \in [Procs -> Nat], NEW s \in [Procs -> States],
           QueuedByState(q, s), \A p \in Procs : s[p] \in {"READY", "RUNNING"} => IsIn(q, p),
           Dispatch(q, w, s)
    PROVE  /\ ready' \in Seq(Procs) /\ running' \in Procs \cup {NoProc}
           /\ wait' \in [Procs -> Nat] /\ state' \in [Procs -> States]
           /\ QueuedByState(ready', state')
           /\ Kept(ready', state', running') /\ Out(ready', state', running')
           /\ running' = NoProc => ready' = <<>>
<1>1. CASE q = <<>>
    <2>1. ready' = q /\ wait' = w /\ state' = s /\ running' = NoProc
        BY <1>1 DEF Dispatch
    <2>2. QED BY <1>1, <2>1 DEF Kept, Out
<1>2. CASE q # <<>>
    <2> DEFINE p == First(q, w)
    <2>1. /\ running' = p /\ ready' = Without(q, p)
          /\ wait' = [w EXCEPT ![p] = 0] /\ state' = [s EXCEPT ![p] = "RUNNING"]
        BY <1>2 DEF Dispatch
    <2>2. p \in Procs
        BY <1>2, FirstIsQueued
    <2> HIDE DEF p
    <2>3. /\ ready' \in Seq(Procs) /\ ~IsIn(ready', p)
          /\ \A r \in Procs : r # p /\ IsIn(q, r) => IsIn(ready', r)
          /\ \A r \in Procs : CopiesIn(ready', r) <= CopiesIn(q, r)
        BY <2>1, WithoutOneProcess
    <2>4. /\ state' \in [Procs -> States] /\ state'[p] = "RUNNING"
          /\ \A r \in Procs : r # p => state'[r] = s[r]
        BY <2>1, <2>2 DEF States
    <2>5. ASSUME NEW r \in Procs
          PROVE  /\ state'[r] = "NEW" => CopiesIn(ready', r) = 0
                 /\ state'[r] \in {"RUNNING", "BLOCKED"} => CopiesIn(ready', r) <= 1
                 /\ CopiesIn(ready', r) <= 2
        <3>1. CopiesIn(ready', r) \in Nat /\ CopiesIn(q, r) \in Nat
              /\ CopiesIn(ready', r) <= CopiesIn(q, r)
            BY <2>3, CopiesAreFinite
        <3>2. CASE r = p
            BY <2>3, <2>4, <3>2, CopiesAreFinite
        <3>3. CASE r # p
            BY <2>4, <3>1, <3>3 DEF QueuedByState
        <3>4. QED BY <3>2, <3>3
    <2>6. Kept(ready', state', running')
        BY <2>1, <2>3, <2>4 DEF Kept
    <2>7. Out(ready', state', running')
        BY <2>1, <2>3, <2>4 DEF Out
    <2>8. wait' \in [Procs -> Nat]
        BY <2>1, <2>2
    <2>9. running' # NoProc
        BY <2>1, <2>2, RoundRobinAssumption
    <2>10. QED BY <2>1, <2>2, <2>3, <2>4, <2>5, <2>6, <2>7, <2>8, <2>9 DEF QueuedByState
<1>3. QED BY <1>1, <1>2

\* The same for a process that becomes READY.
LEMMA EnqueueKeeps ==
    ASSUME SchedulerInv, NEW p \in Procs, state[p] \in {"NEW", "BLOCKED"}, Enqueue(p)
    PROVE  /\ ready' \in Seq(Procs) /\ running' \in Procs \cup {NoProc}
           /\ wait' \in [Procs -> Nat] /\ state' \in [Procs -> States]
           /\ ticks' \in [Procs -> Nat]
           /\ QueuedByState(ready', state')
           /\ Kept(ready', state', running') /\ Out(ready', state', running')
<1>1. /\ ready \in Seq(Procs) /\ running \in Procs \cup {NoProc} /\ Len(ready) \in Nat
      /\ wait \in [Procs -> Nat] /\ state \in [Procs -> States] /\ ticks \in [Procs -> Nat]
    BY DEF SchedulerInv, TypeOK, States
<1>2. /\ state' = [state EXCEPT ![p] = "READY"] /\ ready' = Append(ready, p)
      /\ ticks' = [ticks EXCEPT ![p] = Quantum(Len(ready))]
      /\ running' = running /\ wait' = wait
    BY DEF Enqueue
<1>3. /\ state' \in [Procs -> States] /\ ticks' \in [Procs -> Nat]
      /\ state'[p] = "READY" /\ \A r \in Procs : r # p => state'[r] = state[r]
    BY <1>1, <1>2, QuantumTyped DEF States
<1>4. /\ ready' \in Seq(Procs)
      /\ \A r \in Procs : /\ CopiesIn(ready', r) = CopiesIn(ready, r) + IF r = p THEN 1 ELSE 0
                          /\ IsIn(ready', r) <=> IsIn(ready, r) \/ r = p
                          /\ CopiesIn(ready, r) \in Nat
    BY <1>1, <1>2, AppendedCopies, CopiesAreFinite
<1>5. CopiesIn(ready, p) <= 1
    BY <1>4 DEF SchedulerInv, QueuedByState
<1>6. QueuedByState(ready', state')
    <2>1. ASSUME NEW r \in Procs
          PROVE  /\ state'[r] = "NEW" => CopiesIn(ready', r) = 0
                 /\ state'[r] \in {"RUNNING", "BLOCKED"} => CopiesIn(ready', r) <= 1
                 /\ CopiesIn(ready', r) <= 2
        <3>1. CASE r = p
            BY <1>3, <1>4, <1>5, <3>1
        <3>2. CASE r # p
            <4>1. CopiesIn(ready', r) = CopiesIn(ready, r) /\ state'[r] = state[r]
                BY <1>3, <1>4, <3>2
            <4>2. QED BY <4>1 DEF SchedulerInv, QueuedByState
        <3>3. QED BY <3>1, <3>2
    <2>2. QED BY <2>1 DEF QueuedByState
<1>7. Kept(ready', state', running')
    BY <1>2, <1>3, <1>4 DEF SchedulerInv, Kept
<1>8. Out(ready', state', running')
    BY <1>1, <1>2, <1>3, <1>4 DEF SchedulerInv, Out
<1>9. QED BY <1>1, <1>2, <1>3, <1>4, <1>6, <1>7, <1>8

\* The scheduler's variables and the rest.
SchedulerKept ==
    /\ state \in [Procs -> States] /\ ready \in Seq(Procs) /\ running \in Procs \cup {NoProc}
    /\ wait \in [Procs -> Nat] /\ ticks \in [Procs -> Nat]
    /\ QueuedByState(ready, state) /\ Kept(ready, state, running) /\ Out(ready, state, running)

RestTyped ==
    /\ caller \in [Callers -> Procs \cup {NoProc}]
    /\ sleep \in [Procs -> Nat]
    /\ timer \in {"off", "waking"} /\ left \subseteq Procs
    /\ waking \in Procs \cup {NoProc}
    /\ SleepersCount

LEMMA InvSplit ==
    (SchedulerInv <=> SchedulerKept /\ RestTyped) /\ (SchedulerInv <=> SchedulerKept /\ RestTyped)'
BY DEF SchedulerInv, SchedulerKept, RestTyped, TypeOK, States

LEMMA SchedulerUntouched == SchedulerKept /\ UNCHANGED scheduler => SchedulerKept'
BY DEF SchedulerKept, scheduler, QueuedByState, Kept, Out, CopiesIn, IsIn, Places

LEMMA RestUntouched == RestTyped /\ UNCHANGED <<caller, handler>> => RestTyped'
BY DEF RestTyped, handler, SleepersCount

LEMMA SchedulerStarts == Init => SchedulerInv
<1> SUFFICES ASSUME Init PROVE SchedulerInv
    OBVIOUS
<1>1. TypeOK
    BY DEF Init, TypeOK
<1>2. \A p \in Procs : CopiesIn(ready, p) = 0
    <2>1. ASSUME NEW p \in Procs PROVE Places(ready, p) = {}
        BY DEF Init, Places
    <2>2. QED BY <2>1, FS_EmptySet DEF CopiesIn
<1>3. QueuedByState(ready, state)
    BY <1>2 DEF QueuedByState
<1>4. Kept(ready, state, running) /\ Out(ready, state, running)
    BY DEF Init, Kept, Out
<1>5. QED BY <1>1, <1>3, <1>4 DEF SchedulerInv, SleepersCount, Init

\* A system call whose process stops: SYS_EXIT of any process, SYS_SLEEP of a RUNNING one.
LEMMA StopsKeeps ==
    ASSUME SchedulerKept, NEW p \in Procs, NEW s \in {"ZOMBIE", "BLOCKED"},
           s = "BLOCKED" => state[p] = "RUNNING",
           Stops(p, s)
    PROVE  SchedulerKept' /\ (running # NoProc /\ running' = NoProc => ready' = <<>>)
<1> DEFINE st == [state EXCEPT ![p] = s]
<1>1. /\ ready \in Seq(Procs) /\ running \in Procs \cup {NoProc} /\ ticks' = ticks
      /\ wait \in [Procs -> Nat] /\ state \in [Procs -> States] /\ ticks \in [Procs -> Nat]
    BY DEF SchedulerKept, Stops
<1>2. /\ st \in [Procs -> States] /\ st[p] = s
      /\ \A r \in Procs : r # p => st[r] = state[r]
    BY <1>1 DEF States
<1> HIDE DEF st
<1>3. QueuedByState(ready, st)
    BY <1>2 DEF SchedulerKept, QueuedByState
<1>4. CASE running = p
    <2>1. Dispatch(ready, wait, st)
        BY <1>4 DEF Stops, st
    <2>2. \A r \in Procs : st[r] \in {"READY", "RUNNING"} => IsIn(ready, r)
        BY <1>2, <1>4 DEF SchedulerKept, Kept
    <2>3. QED BY <1>1, <1>2, <1>3, <2>1, <2>2, DispatchKeeps DEF SchedulerKept
<1>5. CASE running # p
    <2>1. state' = st /\ UNCHANGED <<ready, running, wait>>
        BY <1>5 DEF Stops, st
    <2>2. QueuedByState(ready', state')
        BY <1>3, <2>1
    <2>3. Kept(ready', state', running')
        BY <1>2, <2>1 DEF SchedulerKept, Kept
    <2>4. Out(ready', state', running')
        BY <1>1, <1>2, <1>5, <2>1 DEF SchedulerKept, Out
    <2>5. QED BY <1>1, <1>2, <2>1, <2>2, <2>3, <2>4 DEF SchedulerKept
<1>6. QED BY <1>4, <1>5

LEMMA TickKeeps ==
    ASSUME SchedulerInv, Tick
    PROVE  SchedulerInv' /\ (running # NoProc /\ running' = NoProc => ready' = <<>>)
<1>0. SchedulerKept /\ RestTyped /\ TypeOK
    BY InvSplit DEF SchedulerInv
<1>1. /\ ready \in Seq(Procs) /\ running \in Procs \cup {NoProc} /\ Aged \in [Procs -> Nat]
      /\ wait \in [Procs -> Nat] /\ state \in [Procs -> States] /\ ticks \in [Procs -> Nat]
    BY <1>0, AgedTyped DEF SchedulerKept
<1>2. RestTyped'
    BY <1>0 DEF Tick, RestTyped, SleepersCount
<1>3. CASE /\ wait' = Aged /\ UNCHANGED <<state, ready, running>>
           /\ ticks' \in [Procs -> Nat]
    <2>1. SchedulerKept'
        BY <1>0, <1>1, <1>3
        DEF SchedulerKept, QueuedByState, Kept, Out, CopiesIn, IsIn, Places
    <2>2. QED BY <1>2, <1>3, <2>1, InvSplit
<1>4. CASE running # NoProc /\ Preempt
    <2> DEFINE q == Append(ready, running)
    <2>1. running \in Procs /\ state[running] = "RUNNING" /\ ~IsIn(ready, running)
        BY <1>0, <1>1, <1>4 DEF SchedulerKept, Out
    <2>2. /\ q \in Seq(Procs)
          /\ \A r \in Procs : /\ CopiesIn(q, r) = CopiesIn(ready, r) + IF r = running THEN 1 ELSE 0
                              /\ IsIn(q, r) <=> IsIn(ready, r) \/ r = running
                              /\ CopiesIn(ready, r) \in Nat
        BY <1>1, <2>1, AppendedCopies, CopiesAreFinite
    <2>3. CopiesIn(ready, running) = 0
        BY <1>1, <2>1, CopiesAreFinite
    <2>4. Dispatch(q, Aged, state) /\ ticks' = [ticks EXCEPT ![running] = 0]
        BY <1>4 DEF Preempt
    <2> HIDE DEF q
    <2>5. QueuedByState(q, state)
        <3>1. ASSUME NEW r \in Procs
              PROVE  /\ state[r] = "NEW" => CopiesIn(q, r) = 0
                     /\ state[r] \in {"RUNNING", "BLOCKED"} => CopiesIn(q, r) <= 1
                     /\ CopiesIn(q, r) <= 2
            <4>1. CASE r = running
                BY <2>1, <2>2, <2>3, <4>1
            <4>2. CASE r # running
                <5>1. CopiesIn(q, r) = CopiesIn(ready, r)
                    BY <2>2, <4>2
                <5>2. QED BY <1>0, <5>1 DEF SchedulerKept, QueuedByState
            <4>3. QED BY <4>1, <4>2
        <3>2. QED BY <3>1 DEF QueuedByState
    <2>6. \A r \in Procs : state[r] \in {"READY", "RUNNING"} => IsIn(q, r)
        BY <1>0, <2>2 DEF SchedulerKept, Kept
    <2>7. ticks' \in [Procs -> Nat]
        BY <1>1, <2>1, <2>4
    <2>8. /\ ready' \in Seq(Procs) /\ running' \in Procs \cup {NoProc}
          /\ wait' \in [Procs -> Nat] /\ state' \in [Procs -> States]
          /\ QueuedByState(ready', state')
          /\ Kept(ready', state', running') /\ Out(ready', state', running')
          /\ running' = NoProc => ready' = <<>>
        BY <1>1, <2>2, <2>4, <2>5, <2>6, DispatchKeeps
    <2>9. SchedulerKept'
        BY <2>7, <2>8 DEF SchedulerKept
    <2>10. QED BY <1>2, <2>8, <2>9, InvSplit
<1>5. CASE running = NoProc
    BY <1>1, <1>3, <1>5 DEF Tick
<1>6. CASE running # NoProc /\ ~(ticks[running] <= 1)
    <2>1. running \in Procs /\ ticks[running] \in Nat
        BY <1>1, <1>6
    <2>2. ticks' = [ticks EXCEPT ![running] = @ - 1] /\ wait' = Aged
          /\ UNCHANGED <<state, ready, running>>
        BY <1>6 DEF Tick
    <2>3. ticks' \in [Procs -> Nat]
        BY <1>1, <1>6, <2>1, <2>2
    <2>4. QED BY <1>3, <2>2, <2>3
<1>7. QED BY <1>4, <1>5, <1>6 DEF Tick

-----------------------------------------------------------------------------
\* Every step, and when it leaves the processor idle.
LEMMA SchedulerSteps ==
    ASSUME SchedulerInv, [Next]_vars
    PROVE  SchedulerInv' /\ (running # NoProc /\ running' = NoProc => ready' = <<>>)
<1>0. SchedulerKept /\ RestTyped
    BY InvSplit
<1>a. ASSUME SchedulerKept', RestTyped' PROVE SchedulerInv'
    BY <1>a, InvSplit
<1>b. ASSUME UNCHANGED scheduler, RestTyped'
      PROVE  SchedulerInv' /\ (running # NoProc /\ running' = NoProc => ready' = <<>>)
    <2>1. SchedulerKept' /\ running' = running
        BY <1>0, <1>b, SchedulerUntouched DEF scheduler
    <2>2. QED BY <1>a, <1>b, <2>1
<1>c. ASSUME NEW p \in Procs, state[p] \in {"NEW", "BLOCKED"}, Enqueue(p), RestTyped'
      PROVE  SchedulerInv' /\ (running # NoProc /\ running' = NoProc => ready' = <<>>)
    <2>1. SchedulerKept'
        BY <1>c, EnqueueKeeps DEF SchedulerKept
    <2>2. running' = running
        BY <1>c DEF Enqueue
    <2>3. QED BY <1>a, <1>c, <2>1, <2>2
<1>1. ASSUME NEW p \in Procs, Create(p)
      PROVE  SchedulerInv' /\ (running # NoProc /\ running' = NoProc => ready' = <<>>)
    BY <1>0, <1>1, <1>c, RestUntouched DEF Create
<1>2. ASSUME NEW p \in Procs, NEW n \in 1..MaxSleep, SleepPid(p, n)
      PROVE  SchedulerInv' /\ (running # NoProc /\ running' = NoProc => ready' = <<>>)
    <2>1. RestTyped'
        BY <1>0, <1>2, RoundRobinAssumption DEF SleepPid, RestTyped, SleepersCount
    <2>2. QED BY <1>2, <1>b, <2>1 DEF SleepPid
<1>3. ASSUME NEW c \in Callers, NEW p \in Procs \cup {NoProc},
             caller' = [caller EXCEPT ![c] = p], UNCHANGED handler
      PROVE  RestTyped'
    BY <1>0, <1>3 DEF RestTyped, handler, SleepersCount
<1>4. ASSUME NEW c \in Callers, Enters(c)
      PROVE  SchedulerInv' /\ (running # NoProc /\ running' = NoProc => ready' = <<>>)
    <2>1. running \in Procs \cup {NoProc}
        BY <1>0 DEF SchedulerKept
    <2>2. QED BY <1>3, <1>4, <1>b, <2>1 DEF Enters
<1>5. ASSUME NEW c \in Callers, SysExit(c) \/ SysSleep(c)
      PROVE  SchedulerInv' /\ (running # NoProc /\ running' = NoProc => ready' = <<>>)
    <2>1. caller[c] \in Procs /\ RestTyped'
        BY <1>0, <1>3, <1>5 DEF SysExit, SysSleep, Returns, RestTyped
    <2>2. /\ SchedulerKept'
          /\ (running # NoProc /\ running' = NoProc => ready' = <<>>)
        BY <1>0, <1>5, <2>1, StopsKeeps DEF SysExit, SysSleep
    <2>3. QED BY <1>a, <2>1, <2>2
<1>6. ASSUME NEW c \in Callers, SysYield(c)
      PROVE  SchedulerInv' /\ (running # NoProc /\ running' = NoProc => ready' = <<>>)
    <2>1. RestTyped'
        BY <1>3, <1>6 DEF SysYield, Returns
    <2>2. ticks' \in [Procs -> Nat] /\ UNCHANGED <<state, ready, running, wait>>
        BY <1>0, <1>6 DEF SysYield, SchedulerKept
    <2>3. SchedulerKept'
        BY <1>0, <2>2 DEF SchedulerKept, QueuedByState, Kept, Out, CopiesIn, IsIn, Places
    <2>4. QED BY <1>a, <2>1, <2>2, <2>3
<1>7. ASSUME NEW c \in Callers, SysNothing(c)
      PROVE  SchedulerInv' /\ (running # NoProc /\ running' = NoProc => ready' = <<>>)
    <2>1. RestTyped'
        BY <1>3, <1>7 DEF SysNothing, Returns
    <2>2. QED BY <1>7, <1>b, <2>1 DEF SysNothing
<1>8. CASE Schedule
    <2>1. \A p \in Procs : state[p] \in {"READY", "RUNNING"} => IsIn(ready, p)
        BY <1>0, <1>8, RoundRobinAssumption DEF Schedule, SchedulerKept, Kept
    <2>2. SchedulerKept'
        BY <1>0, <1>8, <2>1, DispatchKeeps DEF Schedule, SchedulerKept
    <2>3. RestTyped'
        BY <1>0, <1>8, RestUntouched DEF Schedule
    <2>4. QED BY <1>8, <1>a, <2>2, <2>3 DEF Schedule
<1>9. CASE TimerStep
    <2>1. ASSUME NEW p \in Procs, Visits(p) PROVE RestTyped' /\ UNCHANGED scheduler
        <3>1. p \in left /\ sleep[p] \in Nat /\ sleep[p] > 0
            BY <1>0, <2>1 DEF RestTyped, SleepersCount, Visits
        <3>2. QED BY <1>0, <2>1, <3>1 DEF RestTyped, SleepersCount, Visits
    <2>2. CASE Unblocks
        BY <1>0, <1>c, <2>2 DEF Unblocks, RestTyped, SleepersCount
    <2>3. CASE UnblockRaises \/ Eoi
        BY <1>0, <1>b, <2>3 DEF UnblockRaises, Eoi, RestTyped, SleepersCount
    <2>4. QED BY <1>9, <1>b, <2>1, <2>2, <2>3, TickKeeps DEF TimerStep
<1>10. CASE UNCHANGED vars
    BY <1>0, <1>10, <1>b, RestUntouched DEF vars
<1>11. QED BY <1>1, <1>2, <1>4, <1>5, <1>6, <1>7, <1>8, <1>9, <1>10 DEF Next

\* However many processes there are and however stale the system calls of their callers:
\* nobody runs twice at once, nobody who can run is lost, and the ready queue holds a
\* process at most twice (RoundRobinScheduler).
THEOREM ProcessesAlwaysKept == Spec => []ProcessesKept
<1>1. SchedulerInv => ProcessesKept
    <2> SUFFICES ASSUME SchedulerInv PROVE ProcessesKept
        OBVIOUS
    <2>1. \A p : Copies(p) = CopiesIn(ready, p) /\ (Queued(p) <=> IsIn(ready, p))
        BY DEF Copies, CopiesIn, Places, Queued, IsIn
    <2>2. RunningIsOut /\ RunnableNotLost /\ QueueBounded
        BY <2>1 DEF SchedulerInv, Out, Kept, QueuedByState, RunningIsOut, RunnableNotLost, QueueBounded
    <2>3. QED BY <2>2 DEF ProcessesKept, SchedulerInv
<1>2. SchedulerInv /\ [Next]_vars => SchedulerInv'
    BY SchedulerSteps
<1>3. QED BY SchedulerStarts, <1>1, <1>2, PTL DEF Spec

\* The processor is given up only when nobody is queued for it: every handler that takes it
\* from a process gives it to the next one (_schedule_next_locked).
THEOREM GivenUpOnlyWhenEmpty == Spec => IdlesOnlyWhenEmpty
<1>1. SchedulerInv /\ [Next]_vars => SchedulerInv'
    BY SchedulerSteps
<1>2. SchedulerInv /\ [Next]_vars => [running # NoProc /\ running' = NoProc => ready' = <<>>]_vars
    BY SchedulerSteps
<1>3. QED BY SchedulerStarts, <1>1, <1>2, PTL DEF Spec, IdlesOnlyWhenEmpty
=============================================================================
