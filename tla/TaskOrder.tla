------------------------------ MODULE TaskOrder ------------------------------
(***************************************************************************)
(* What TaskScheduler leaves open of os/scheduler/aios_scheduler.py: the   *)
(* order of the overflow queue, whose priorities age; the worker that      *)
(* PlacementScorer picks, from the topology and the measured averages; and *)
(* map, which collects the results of many tasks.  Each part has variables *)
(* of its own.                                                             *)
(***************************************************************************)
EXTENDS Integers, Sequences, FiniteSets, SequencesExt, FiniteSetsExt

-----------------------------------------------------------------------------
(***************************************************************************)
(* _GlobalQueue.  A task's priority is one level better for every interval *)
(* that it has been waiting.  push rates the task before it takes the      *)
(* lock, re_sort rates all again, every tenth cycle of the drainer, which  *)
(* in each cycle pops tasks until one finds its worker full.  The clock    *)
(* counts aging intervals; an id is that of the call that made the task.   *)
(***************************************************************************)

CONSTANTS
    TaskPriorities,     \* of the tasks that are submitted, 0 is CRITICAL
    MaxTasks, MaxClock,
    SortEvery       \* cycles of the drainer to a re_sort: ten

ASSUME OverflowAssumption == TaskPriorities \subseteq Nat /\ SortEvery \in Nat \ {0}

VARIABLES
    taskClock,
    task,       \* what was submitted: <<priority, enqueue time>> of each id
    overflowing,    \* the tasks whose worker was full and that are not pushed yet
    rated,      \* those whose push waits for the lock, as items
    items,      \* _items: [id, ep, at], with the time it was rated
    drained,    \* the task that the drainer has in its hands, 0 if none
    cycle,      \* of the drainer, modulo SortEvery
    popped      \* the last pop: its task and the items that it left

overflowVars == <<taskClock, task, overflowing, rated, items, drained, cycle, popped>>

NoPop == [id |-> 0, left |-> << >>]

OverflowInit ==
    /\ taskClock = 0 /\ task = << >> /\ overflowing = {} /\ rated = {} /\ items = << >>
    /\ drained = 0 /\ cycle = 0 /\ popped = NoPop

Enqueued(id) == task[id][2]
\* A fault: waiting does not count.
BasePriority(id) == task[id][1]
EffectivePriority(id) == Max({0, task[id][1] - (taskClock - Enqueued(id))})
Rated(id) == [id |-> id, ep |-> EffectivePriority(id), at |-> taskClock]

\* The order of the sort, which leaves equals as they are.
Before(a, b) == a.ep < b.ep \/ (a.ep = b.ep /\ Enqueued(a.id) < Enqueued(b.id))
EntersQueue(queue, item) ==
    InsertAt(queue, 1 + Cardinality({i \in DOMAIN queue : ~Before(item, queue[i])}), item)

\* submit, as far as the task's worker is full.
SubmitTask(p) ==
    /\ Len(task) < MaxTasks /\ task' = Append(task, <<p, taskClock>>)
    /\ overflowing' = overflowing \union {Len(task')}
    /\ UNCHANGED <<taskClock, rated, items, drained, cycle, popped>>

\* push: the rating ...
Rates(id) ==
    /\ overflowing' = overflowing \ {id} /\ rated' = rated \union {Rated(id)}
    /\ UNCHANGED <<taskClock, task, items, drained, cycle, popped>>

\* ... and the locked section.
Pushes(item) ==
    /\ items' = EntersQueue(items, item) /\ rated' = rated \ {item}
    /\ UNCHANGED <<taskClock, task, overflowing, drained, cycle, popped>>

\* re_sort: every item is rated anew and enters the queue in the order of the list.
ReSorted ==
    LET sorted[n \in 0..Len(items)] ==
            IF n = 0 THEN << >> ELSE EntersQueue(sorted[n - 1], Rated(items[n].id))
    IN sorted[Len(items)]

DrainCycle ==
    /\ drained = 0 /\ cycle' = (cycle + 1) % SortEvery
    /\ items' = IF cycle' # 0 THEN items ELSE ReSorted
    /\ UNCHANGED <<taskClock, task, overflowing, rated, drained, popped>>

PopBest ==
    /\ drained = 0 /\ items # << >>
    /\ drained' = Head(items).id /\ items' = Tail(items)
    /\ popped' = [id |-> Head(items).id, left |-> Tail(items)]
    /\ UNCHANGED <<taskClock, task, overflowing, rated, cycle>>

\* The worker takes the task, which is out of this queue for good ...
Placed == drained # 0 /\ drained' = 0 /\ UNCHANGED <<taskClock, task, overflowing, rated, items, cycle, popped>>

\* ... or is full: the drainer pushes the task again.
PutBack ==
    /\ drained # 0 /\ drained' = 0
    /\ rated' = rated \union {Rated(drained)}
    /\ UNCHANGED <<taskClock, task, overflowing, items, cycle, popped>>

TasksAge == taskClock < MaxClock /\ taskClock' = taskClock + 1 /\ UNCHANGED <<task, overflowing, rated, items, drained, cycle, popped>>

OverflowNext ==
    \/ \E p \in TaskPriorities : SubmitTask(p)
    \/ \E id \in overflowing : Rates(id)
    \/ \E item \in rated : Pushes(item)
    \/ DrainCycle \/ PopBest \/ Placed \/ PutBack \/ TasksAge

OverflowSpec == OverflowInit /\ [][OverflowNext]_overflowVars

\* "This prevents indefinite starvation of LOW-priority tasks": a task that had waited its priority's
\* number of intervals when it was rated last is passed by no later one, however the pushes
\* and the re_sorts interleave.
AgedAreNotPassed ==
    \A i \in DOMAIN popped.left :
        LET a == popped.left[i] IN
        Enqueued(a.id) < Enqueued(popped.id) => a.at - Enqueued(a.id) < task[a.id][1]

\* "Within the same priority, FIFO by enqueue_ns": false, a task that is pushed late was
\* rated later than those that wait for the next re_sort.
SamePriorityFifo ==
    \A i \in DOMAIN popped.left :
        task[popped.left[i].id][1] = task[popped.id][1] => Enqueued(popped.id) <= Enqueued(popped.left[i].id)

-----------------------------------------------------------------------------
(***************************************************************************)
(* PlacementScorer and WorkerStats on the workers that from_hardware makes *)
(* of a topology.  Averages are in thousandths, those of the instructions  *)
(* per cycle of one; a score is 8000 * Depth times the code's.             *)
(***************************************************************************)

CONSTANTS
    Topologies,     \* sequences of nodes [id, dist], dist a partial table of distances
    PerNode,        \* workers_per_node
    WantedNodes,    \* the preferred nodes of tasks, and Anywhere
    Anywhere,
    QueueDepth,     \* _MAX_QUEUE_DEPTH
    IpcSamples, MissSamples, MaxFinished

ASSUME PlacementAssumption ==
    /\ {PerNode, QueueDepth} \subseteq Nat \ {0}
    /\ IpcSamples \subseteq Nat /\ \A miss \in MissSamples : miss \in Nat /\ miss <= 1000
    /\ \A top \in Topologies :
          /\ top \in Seq(ToSet(top))
          /\ \A i \in DOMAIN top :
                top[i].id # Anywhere /\ \A n \in DOMAIN top[i].dist : top[i].dist[n] \in Nat
    /\ Anywhere # 0

VARIABLES
    topology,
    worker,     \* per worker: the length of its deque, and its statistics
    choice      \* the last task that was placed: the node it wanted and its worker

placementVars == <<topology, worker, choice>>

\* ipc_ema = 2.0, miss_rate_ema = 0.02
FreshWorker == [len |-> 0, ipc |-> 2000, miss |-> 20, done |-> 0]
NoChoice == [node |-> Anywhere, by |-> 0]

\* An empty list of nodes is replaced by one node.
TopologyOf(top) == IF top = << >> THEN <<[id |-> 0, dist |-> [n \in {0} |-> 10]]>> ELSE top

PlacementInit ==
    /\ topology \in {TopologyOf(top) : top \in Topologies}
    /\ worker = [w \in 1..(PerNode * Len(topology)) |-> FreshWorker]
    /\ choice = NoChoice

NodeOf(w) == topology[1 + (w - 1) \div PerNode].id

\* The distance table has every node of the topology, and each is 10 from itself unless the
\* hardware says otherwise; what it has not is 10 away.
Distance(from, to) ==
    IF from \notin {topology[i].id : i \in DOMAIN topology} THEN 10
    ELSE LET dist == topology[CHOOSE i \in DOMAIN topology : topology[i].id = from].dist
         IN IF to \in DOMAIN dist THEN dist[to] ELSE 10

\* A fault: the rate of misses in per cent.
ScoreByPercent(w, node) ==
    QueueDepth * (1600 * (IF node = Anywhere THEN 10 ELSE Distance(node, NodeOf(w)))
                  + (4000 - Min({worker[w].ipc, 4000})) + 800 * worker[w].miss)
    + 12000 * Min({worker[w].len, QueueDepth})

Score(w, node) ==
    LET d == IF node = Anywhere THEN 10 ELSE Distance(node, NodeOf(w))
        stats == worker[w]
    IN QueueDepth * (1600 * d + (4000 - Min({stats.ipc, 4000})) + 8 * stats.miss)
       + 12000 * Min({stats.len, QueueDepth})

\* The best so far gives way to a better one, and to an equal one that has done less.
Better(w, best, node) ==
    \/ Score(w, node) < Score(best, node)
    \/ Score(w, node) = Score(best, node) /\ worker[w].done < worker[best].done

BestWorker(node) ==
    LET best[w \in DOMAIN worker] ==
            IF w = 1 THEN 1 ELSE IF Better(w, best[w - 1], node) THEN w ELSE best[w - 1]
    IN best[Len(worker)]

\* submit: a worker that has no room leaves the task to the overflow queue.
PlaceTask(node) ==
    LET w == BestWorker(node) IN
    /\ choice' = [node |-> node, by |-> w]
    /\ worker' = IF worker[w].len < QueueDepth THEN [worker EXCEPT ![w].len = @ + 1] ELSE worker
    /\ UNCHANGED topology

Average(old, sample) == (2 * sample + 7 * old) \div 9

\* The end of _execute; without counters the samples are the averages themselves.
FinishTask(w, ipc, miss) ==
    /\ worker[w].len > 0
    /\ FoldFunction(LAMBDA a, n : a.done + n, 0, worker) < MaxFinished
    /\ worker' = [worker EXCEPT ![w] = [len |-> @.len - 1, ipc |-> Average(@.ipc, ipc),
                                        miss |-> Average(@.miss, miss), done |-> @.done + 1]]
    /\ UNCHANGED <<topology, choice>>

PlacementNext ==
    \/ \E node \in WantedNodes : PlaceTask(node)
    \/ \E w \in DOMAIN worker :
         \E ipc \in IpcSamples \union {worker[w].ipc}, miss \in MissSamples \union {worker[w].miss} :
             FinishTask(w, ipc, miss)

PlacementSpec == PlacementInit /\ [][PlacementNext]_placementVars

\* The weights keep a task within 15 of the distance to its own node: load, stalls and
\* misses together, whatever was measured, outweigh one hop but never two.
NoTwoHops ==
    choice.by # 0 =>
        \A w \in DOMAIN worker :
            Distance(choice.node, NodeOf(choice.by)) <= Distance(choice.node, NodeOf(w)) + 15

\* Where only one worker has room, the overflow queue is used all the same: false that the
\* chosen worker has room whenever any has ("If all workers are full").
ChoosesRoom ==
    \A node \in WantedNodes :
        (\E w \in DOMAIN worker : worker[w].len < QueueDepth) => worker[BestWorker(node)].len < QueueDepth

-----------------------------------------------------------------------------
(***************************************************************************)
(* map and submit_many: one task for each item, submitted in order, whose  *)
(* results are waited for in order.  A scheduler without workers runs a    *)
(* task in submit.  A task whose worker died is never settled.             *)
(***************************************************************************)

CONSTANTS ItemCount, MayTimeOut

ASSUME MapAssumption == ItemCount \in Nat /\ MayTimeOut \in BOOLEAN

VARIABLES
    workerless,
    fates,      \* of the tasks submitted so far: "pending", "done" or "failed"
    results,    \* the items whose values map has collected
    mapping     \* "submits", "collects", or how it ended

mapVars == <<workerless, fates, results, mapping>>

MapInit == workerless \in BOOLEAN /\ fates = << >> /\ results = << >> /\ mapping = "submits"

\* What submit leaves a task as: without workers it has run it.
Submitted == IF workerless THEN {"done", "failed"} ELSE {"pending"}

MapSubmits ==
    /\ mapping = "submits"
    /\ IF Len(fates) = ItemCount THEN mapping' = "collects" /\ UNCHANGED fates
       ELSE (\E fate \in Submitted : fates' = Append(fates, fate)) /\ UNCHANGED mapping
    /\ UNCHANGED <<workerless, results>>

TaskSettles(i) ==
    /\ fates[i] = "pending"
    /\ \E fate \in {"done", "failed"} : fates' = [fates EXCEPT ![i] = fate]
    /\ UNCHANGED <<workerless, results, mapping>>

\* A fault: a task that failed gives its item no value.
MapSkipsFailed ==
    /\ mapping = "collects"
    /\ LET i == Len(results) + 1 IN
       IF i > ItemCount THEN mapping' = "returned" /\ UNCHANGED results
       ELSE fates[i] # "pending" /\ results' = Append(results, i) /\ UNCHANGED mapping
    /\ UNCHANGED <<workerless, fates>>

MapCollects ==
    /\ mapping = "collects"
    /\ LET i == Len(results) + 1 IN
       IF i > ItemCount THEN mapping' = "returned" /\ UNCHANGED results
       ELSE \/ fates[i] = "pending" /\ MayTimeOut /\ mapping' = "timed out" /\ UNCHANGED results
            \/ fates[i] = "failed" /\ mapping' = "raised" /\ UNCHANGED results
            \/ fates[i] = "done" /\ results' = Append(results, i) /\ UNCHANGED mapping
    /\ UNCHANGED <<workerless, fates>>

MapNext == MapSubmits \/ MapCollects \/ \E i \in DOMAIN fates : TaskSettles(i)

MapSpec == MapInit /\ [][MapNext]_mapVars

\* "collecting results in order": map returns only when every task is done, with one value
\* for each item; it raises the failure of the first item that failed although later ones
\* may have failed before it; and it does not time out where submit ran the tasks.
MapInOrder ==
    /\ results = [i \in 1..Len(results) |-> i] /\ \A i \in DOMAIN results : fates[i] = "done"
    /\ mapping = "returned" => Len(results) = ItemCount
    /\ mapping = "raised" => SelectInSeq(fates, LAMBDA fate : fate = "failed") = Len(results) + 1
    /\ workerless => mapping # "timed out"
=============================================================================
