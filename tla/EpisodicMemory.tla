--------------------------- MODULE EpisodicMemory ---------------------------
(***************************************************************************)
(* MemoryKernel of os/core/aios_memory.py over its EpisodicMemory,         *)
(* SemanticMemory, LSHIndex and HopfieldMemory.  Each of them has its own  *)
(* lock and remember, recall, the sleep cycle and load take them one after *)
(* another, so their steps interleave.  An episode is known by its number; *)
(* load makes new objects for the numbers it brings in.  Embeddings and    *)
(* scores are left out: retrieval and the eviction order are any choice.   *)
(***************************************************************************)
EXTENDS Naturals, FiniteSets

CONSTANTS MemoryUsers, Important, Capacity, FactCapacity, MaxEpisodes, MaxAccess, MaxEpisodeLoads, PromoteAccess, MaxMemoryCalls

ASSUME EpisodicMemoryAssumption == Capacity \in Nat \ {0} /\ FactCapacity \in Nat \ {0}

VARIABLES
    episodes,   \* EpisodicMemory._episodes: number -> object
    access,     \* access_count of each object made
    faded,      \* the objects whose importance has decayed below prune_thr
    heap,       \* the objects with an up-to-date entry in EpisodicMemory._heap
    facts,      \* SemanticMemory: the episodes its facts were promoted from
    index,      \* LSHIndex: how often its tables have each number
    patterns,   \* HopfieldMemory: the numbers whose embeddings it stores
    snapshot,   \* the access counts by number in the file that was saved last
    episodeLoads,      \* how often it was loaded
    loaded,     \* the objects a load put in place
    doing,      \* what each user's call has left to do
    memoryCalls \* how many calls were made

memoryVars == <<episodes, access, faded, heap, facts, index, patterns, snapshot, episodeLoads, loaded, doing,
               memoryCalls>>

NoCall == [at |-> "none"]

Numbers == 1..MaxEpisodes

EpisodicInit ==
    /\ episodes = << >> /\ access = << >> /\ faded = {} /\ heap = {}
    /\ facts = {} /\ index = [n \in Numbers |-> 0] /\ patterns = {}
    /\ snapshot = << >> /\ episodeLoads = 0 /\ loaded = {}
    /\ doing = [u \in MemoryUsers |-> NoCall] /\ memoryCalls = 0

Object(number, generation) == <<number, generation>>
Once(ns) == [n \in Numbers |-> IF n \in ns THEN 1 ELSE 0]
Keeps(f, xs) == [x \in xs |-> f[x]]
Does(u, step) == doing' = [doing EXCEPT ![u] = step]

\* _evict_lri pops entries until one is up to date and its number is stored, and evicts that
\* number; up-to-date entries of numbers that are gone may be popped before it.
Evicts(left, rest) ==
    LET stored == {o \in heap : o[1] \in DOMAIN episodes} IN
    \/ stored = {} /\ left = DOMAIN episodes /\ rest = {}
    \/ \E o \in stored, gone \in SUBSET (heap \ stored) :
          left = DOMAIN episodes \ {o[1]} /\ rest = heap \ (gone \union {o})

-----------------------------------------------------------------------------
\* remember: the episode is stored, evicting one at capacity...
Remember(u) ==
    LET n == Cardinality({o \in DOMAIN access : o[2] = 0}) + 1
        new == Object(n, 0)
    IN /\ doing[u] = NoCall /\ n \in Numbers
       /\ \E left \in SUBSET DOMAIN episodes, rest \in SUBSET heap :
            /\ IF Cardinality(DOMAIN episodes) >= Capacity THEN Evicts(left, rest)
               ELSE left = DOMAIN episodes /\ rest = heap
            /\ episodes' = [k \in left \union {n} |-> IF k = n THEN new ELSE episodes[k]]
            /\ heap' = rest \union {new}
       /\ access' = [o \in DOMAIN access \union {new} |-> IF o = new THEN 0 ELSE access[o]]
       /\ Does(u, [at |-> "index", n |-> n])
       /\ UNCHANGED <<faded, facts, index, patterns, snapshot, episodeLoads, loaded>>

\* ... then indexed, and kept as a pattern when it is important.
RememberIndexes(u) ==
    /\ doing[u].at = "index"
    /\ index' = [index EXCEPT ![doing[u].n] = @ + 1]
    /\ patterns' = (IF doing[u].n \in Important THEN patterns \union {doing[u].n} ELSE patterns)
    /\ Does(u, NoCall)
    /\ UNCHANGED <<episodes, access, faded, heap, facts, snapshot, episodeLoads, loaded>>

\* recall: retrieve ranks a copy of the episodes, and touches the ones it returns later.
Recall(u) ==
    /\ doing[u] = NoCall
    /\ \E n \in DOMAIN episodes : Does(u, [at |-> "touch", n |-> n])
    /\ UNCHANGED <<episodes, access, faded, heap, facts, index, patterns, snapshot, episodeLoads, loaded>>

\* A fault: a touched episode keeps its old entry in the heap.
TouchOnly(u) ==
    LET n == doing[u].n IN
    /\ doing[u].at = "touch" /\ (n \in DOMAIN episodes => access[episodes[n]] < MaxAccess)
    /\ IF n \notin DOMAIN episodes THEN UNCHANGED <<access, faded, heap>>
       ELSE /\ access' = [access EXCEPT ![episodes[n]] = @ + 1] /\ faded' = faded \ {episodes[n]}
            /\ heap' = heap \ {episodes[n]}
    /\ Does(u, NoCall)
    /\ UNCHANGED <<episodes, facts, index, patterns, snapshot, episodeLoads, loaded>>

Touch(u) ==
    LET n == doing[u].n IN
    /\ doing[u].at = "touch" /\ (n \in DOMAIN episodes => access[episodes[n]] < MaxAccess)
    /\ IF n \notin DOMAIN episodes THEN UNCHANGED <<access, faded, heap>>
       ELSE /\ access' = [access EXCEPT ![episodes[n]] = @ + 1] /\ faded' = faded \ {episodes[n]}
            /\ heap' = heap \union {episodes[n]}
    /\ Does(u, NoCall)
    /\ UNCHANGED <<episodes, facts, index, patterns, snapshot, episodeLoads, loaded>>

Fade == /\ \E o \in {episodes[n] : n \in DOMAIN episodes} \ faded : faded' = faded \union {o}
        /\ UNCHANGED <<episodes, access, heap, facts, index, patterns, snapshot, episodeLoads, loaded, doing>>

Forget(u) ==
    /\ doing[u] = NoCall
    /\ \E n \in DOMAIN episodes : /\ episodes' = Keeps(episodes, DOMAIN episodes \ {n})
                                  /\ Does(u, [at |-> "unindex", n |-> n])
    /\ UNCHANGED <<access, faded, heap, facts, index, patterns, snapshot, episodeLoads, loaded>>

ForgetUnindexes(u) ==
    /\ doing[u].at = "unindex"
    /\ index' = [index EXCEPT ![doing[u].n] = IF @ = 0 THEN 0 ELSE @ - 1] /\ Does(u, NoCall)
    /\ UNCHANGED <<episodes, access, faded, heap, facts, patterns, snapshot, episodeLoads, loaded>>

-----------------------------------------------------------------------------
\* The sleep cycle (one at a time) promotes from a copy of the episodes.  A full semantic
\* memory drops a fact for the new one.
SleepPromotes(u) ==
    /\ doing[u] = NoCall /\ DOMAIN episodes # {}
    /\ \A v \in MemoryUsers : doing[v].at \notin {"prune", "rebuild"}
    /\ LET due == {n \in DOMAIN episodes : access[episodes[n]] >= PromoteAccess /\ episodes[n] \notin faded} IN
       \E kept \in SUBSET (facts \union due) :
          /\ Cardinality(kept) = (IF Cardinality(facts \union due) > FactCapacity THEN FactCapacity
                                  ELSE Cardinality(facts \union due))
          /\ facts' = kept
    /\ Does(u, [at |-> "prune"])
    /\ UNCHANGED <<episodes, access, faded, heap, index, patterns, snapshot, episodeLoads, loaded>>

\* Under pressure, faded episodes that were never accessed go; the survivors are copied.
SleepPrunes(u) ==
    /\ doing[u].at = "prune"
    /\ LET left == IF 100 * Cardinality(DOMAIN episodes) < 85 * Capacity THEN DOMAIN episodes
                   ELSE {n \in DOMAIN episodes : ~(episodes[n] \in faded /\ access[episodes[n]] = 0)}
       IN episodes' = Keeps(episodes, left) /\ Does(u, [at |-> "rebuild", ns |-> left])
    /\ UNCHANGED <<access, faded, heap, facts, index, patterns, snapshot, episodeLoads, loaded>>

\* The index and the patterns are made again from that copy.
SleepRebuilds(u) ==
    /\ doing[u].at = "rebuild"
    /\ index' = Once(doing[u].ns) /\ patterns' = doing[u].ns /\ Does(u, NoCall)
    /\ UNCHANGED <<episodes, access, faded, heap, facts, snapshot, episodeLoads, loaded>>

Save(u) ==
    /\ doing[u] = NoCall
    /\ snapshot' = [n \in DOMAIN episodes |-> access[episodes[n]]]
    /\ UNCHANGED <<episodes, access, faded, heap, facts, index, patterns, episodeLoads, loaded, doing>>

\* load puts new objects in place, over those with the same number, and rebuilds the index;
\* it neither looks at the capacity nor enters anything in the heap.
LoadEpisodes(u) ==
    LET new == {Object(n, episodeLoads + 1) : n \in DOMAIN snapshot} IN
    /\ doing[u] = NoCall /\ new # {} /\ episodeLoads < MaxEpisodeLoads
    /\ episodeLoads' = episodeLoads + 1
    /\ episodes' = [n \in DOMAIN episodes \union DOMAIN snapshot |->
                      IF n \in DOMAIN snapshot THEN Object(n, episodeLoads + 1) ELSE episodes[n]]
    /\ access' = [o \in DOMAIN access \union new |-> IF o \in new THEN snapshot[o[1]] ELSE access[o]]
    /\ loaded' = loaded \union new
    /\ index' = Once(DOMAIN episodes \union DOMAIN snapshot)
    /\ UNCHANGED <<faded, heap, facts, patterns, snapshot, doing>>

\* The calls, and what the ones that were made go on with.
EpisodicNext ==
    \/ /\ memoryCalls < MaxMemoryCalls /\ memoryCalls' = memoryCalls + 1
       /\ \/ \E u \in MemoryUsers :
               Remember(u) \/ Recall(u) \/ Forget(u) \/ SleepPromotes(u) \/ Save(u) \/ LoadEpisodes(u)
          \/ Fade
    \/ /\ UNCHANGED memoryCalls
       /\ \E u \in MemoryUsers :
            RememberIndexes(u) \/ Touch(u) \/ ForgetUnindexes(u) \/ SleepPrunes(u) \/ SleepRebuilds(u)

EpisodicSpec == EpisodicInit /\ [][EpisodicNext]_memoryVars

-----------------------------------------------------------------------------
\* "Lazy deletion check: verify the item hasn't been touched and is still in the episodes
\* dict": whatever was touched, forgotten or pruned, every stored episode that was not
\* loaded from a file has an up-to-date entry in the heap, so that a full store can evict it.
EvictionFinds ==
    \A n \in DOMAIN episodes :
        episodes[n] \in loaded \/ episodes[n] \in heap

\* "Fixed-capacity long-term episode store": what exceeds the capacity was loaded.
CapacityExceededByLoads ==
    Cardinality(DOMAIN episodes) <= Capacity + Cardinality({n \in DOMAIN episodes : episodes[n] \in loaded})

\* The same without the exception: a store that was loaded from a file outgrows its capacity.
CapacityKept == Cardinality(DOMAIN episodes) <= Capacity

\* An episode that remember has finished with is in the index until it is forgotten: the
\* sleep cycle's rebuild loses the ones stored after its copy.
FinishedAreIndexed ==
    \A n \in DOMAIN episodes : (\A u \in MemoryUsers : doing[u].at = "index" => doing[u].n # n) => index[n] > 0
=============================================================================
