---------------------------- MODULE MemoryStores ----------------------------
(***************************************************************************)
(* The stores beside the episodes in os/core/aios_memory.py: the working   *)
(* memory with its attention weights, the facts of the semantic memory,    *)
(* the tables of the LSH index, and the learning of the projector from     *)
(* episodes drawn by priority.  Each has its own lock and variables here.  *)
(***************************************************************************)
EXTENDS Integers, Sequences, FiniteSets, SequencesExt, FiniteSetsExt

-----------------------------------------------------------------------------
(***************************************************************************)
(* WorkingMemory: a window of the latest observations.  attend copies the  *)
(* slots, computes a weight for each and stores the weights, by position,  *)
(* in the slots that are there then.  A slot is the number of its push, a  *)
(* weight the slot that it was computed of.                                *)
(***************************************************************************)

CONSTANTS Attenders, SlotCapacity, MaxObservations

ASSUME WorkingMemoryAssumption == SlotCapacity \in Nat \ {0}

VARIABLES
    slots,      \* _slots
    observed,   \* the number of pushes
    weight,     \* attn_weight of every slot so far, 0 before it has one
    attending,  \* each thread's copy of the slots, empty when it attends to nothing
    unattended  \* the lengths of the copies whose attend ended with an IndexError

windowVars == <<slots, observed, weight, attending, unattended>>

WindowInit ==
    /\ slots = << >> /\ observed = 0 /\ weight = << >>
    /\ attending = [u \in Attenders |-> << >>] /\ unattended = {}

Observe ==
    /\ observed < MaxObservations /\ observed' = observed + 1
    /\ slots' = (IF Len(slots) = SlotCapacity THEN Tail(slots) ELSE slots) \o <<observed + 1>>
    /\ weight' = Append(weight, 0)
    /\ UNCHANGED <<attending, unattended>>

AttendReads(u) ==
    /\ attending[u] = << >> /\ slots # << >>
    /\ attending' = [attending EXCEPT ![u] = slots]
    /\ UNCHANGED <<slots, observed, weight, unattended>>

\* The slots that have outgrown the copy have no weight: the call fails there.
AttendWrites(u) ==
    /\ attending[u] # << >> /\ attending' = [attending EXCEPT ![u] = << >>]
    /\ weight' = [s \in DOMAIN weight |->
                    IF \E i \in DOMAIN slots \cap DOMAIN attending[u] : slots[i] = s
                    THEN attending[u][CHOOSE i \in DOMAIN slots : slots[i] = s] ELSE weight[s]]
    /\ unattended' = (IF Len(slots) > Len(attending[u]) THEN unattended \union {Len(attending[u])} ELSE unattended)
    /\ UNCHANGED <<slots, observed>>

ClearWindow == slots # << >> /\ slots' = << >> /\ UNCHANGED <<observed, weight, attending, unattended>>

WindowNext == Observe \/ ClearWindow \/ \E u \in Attenders : AttendReads(u) \/ AttendWrites(u)

\* "Store weights back for introspection": whatever was pushed or cleared between the two
\* locked sections of attend, a slot's weight is its own or that of an older observation,
\* and attend fails only where the window was still growing.
WeightsAreNotNewer ==
    /\ \A s \in DOMAIN weight : weight[s] <= s
    /\ \A n \in unattended : n < SlotCapacity

\* A slot's weight is its own: false once something is pushed between the two sections.
WeightsAreTheirs == \A s \in DOMAIN weight : weight[s] \in {0, s}

-----------------------------------------------------------------------------
(***************************************************************************)
(* SemanticMemory: facts by the id that is made of the first dimensions of *)
(* their key, which other keys may share.  A fact with a similar key is    *)
(* updated; a full store gives up the fact it trusts the least.  A         *)
(* snapshot keeps a part of the keys only: what is similar to a fact that  *)
(* was loaded is anything.  Keys are numbers, similar to their neighbours; *)
(* a fact's value is the call that gave it.                                *)
(***************************************************************************)

CONSTANTS
    FactIdOf,       \* key -> the id that is made of it
    Confidences,    \* what callers give, in ten-thousandths
    StoreCapacity, MaxFacts, MaxFactLoads

ASSUME SemanticAssumption ==
    DOMAIN FactIdOf \subseteq Nat /\ Confidences \subseteq Nat /\ StoreCapacity \in Nat \ {0}

VARIABLES
    known,      \* _facts, in the order of the dictionary: [id, key, whole, trust, value]
    told,       \* the calls of store_fact: the id each returned
    snapped,    \* the facts in the snapshot that was saved last
    toLoad,     \* the facts that a load has yet to put in
    factLoads   \* how often a snapshot was loaded

factVars == <<known, told, snapped, toLoad, factLoads>>

FactInit == known = << >> /\ told = << >> /\ snapped = << >> /\ toLoad = << >> /\ factLoads = 0

Near(a, b) == a - b \in -1..1
Similar(key, fact) == fact.whole /\ Near(key, fact.key)

\* Confidence in ten-thousandths: c + 0.1 * (1 - c).
Certain == 10000
Reassured(c) == c + (Certain - c) \div 10

\* A fact's place in the dictionary is that of the fact with its id, or the end.
Placed(fs, fact) ==
    IF \E i \in DOMAIN fs : fs[i].id = fact.id
    THEN [i \in DOMAIN fs |-> IF fs[i].id = fact.id THEN fact ELSE fs[i]]
    ELSE Append(fs, fact)

\* The first of the least trusted.
Weakest(fs) ==
    LET least == Min({fs[i].trust : i \in DOMAIN fs})
    IN Min({i \in DOMAIN fs : fs[i].trust = least})

Spared(fs) == IF Len(fs) >= StoreCapacity THEN RemoveAt(fs, Weakest(fs)) ELSE fs

\* store_fact, called by teach and by the sleep cycle's promotions.
StoreFact(key, trust) ==
    \E loadedHits \in SUBSET {i \in DOMAIN known : ~known[i].whole} :
        LET same == {i \in DOMAIN known : Similar(key, known[i])} \union loadedHits
            call == Len(told) + 1
        IN /\ call <= MaxFacts
           /\ IF same # {}
              THEN LET i == Min(same) IN
                   /\ known' = [known EXCEPT ![i].trust = Reassured(@), ![i].value = call]
                   /\ told' = Append(told, known[i].id)
              ELSE /\ known' = Placed(Spared(known), [id |-> FactIdOf[key], key |-> key, whole |-> TRUE,
                                                      trust |-> trust, value |-> call])
                   /\ told' = Append(told, FactIdOf[key])
           /\ UNCHANGED <<snapped, toLoad, factLoads>>

SaveFacts ==
    /\ known # << >>
    /\ snapped' = [i \in DOMAIN known |-> [known[i] EXCEPT !.whole = FALSE]]
    /\ UNCHANGED <<known, told, toLoad, factLoads>>

\* load puts in fact after fact, each under the lock of its own, whether its id is there or not.
LoadBegins ==
    /\ snapped # << >> /\ toLoad = << >> /\ factLoads < MaxFactLoads /\ factLoads' = factLoads + 1
    /\ toLoad' = snapped
    /\ UNCHANGED <<known, told, snapped>>

LoadsFact ==
    /\ toLoad # << >> /\ toLoad' = Tail(toLoad)
    /\ known' = Placed(known, Head(toLoad))
    /\ UNCHANGED <<told, snapped, factLoads>>

FactNext ==
    \/ \E key \in DOMAIN FactIdOf, trust \in Confidences : StoreFact(key, trust)
    \/ SaveFacts \/ LoadBegins \/ LoadsFact

\* "If a fact with a very similar key exists, update it rather than inserting a duplicate":
\* no two facts that were not loaded are similar, each has the value of the last call that
\* returned its id, and a store that loaded no snapshot keeps its capacity.
FactsAreApart ==
    /\ \A i, j \in DOMAIN known : i # j /\ known[i].whole => ~Similar(known[i].key, known[j])
    /\ \A i \in DOMAIN known : known[i].whole =>
         known[i].value = Max({c \in DOMAIN told : told[c] = known[i].id})
    /\ factLoads = 0 => Len(known) <= StoreCapacity

\* The same of all facts: false, what was loaded is told apart by its id alone, and the key
\* that shares the id of another takes its place.
LoadedAreApart == \A i, j \in DOMAIN known : i # j => ~Near(known[i].key, known[j].key)
-----------------------------------------------------------------------------
(***************************************************************************)
(* LSHIndex: in each table, an embedding's bucket is told by the signs of  *)
(* its products with the table's planes.  An id may be inserted again, and *)
(* its embedding is always the same.                                       *)
(***************************************************************************)

CONSTANTS
    EmbeddingOf,    \* id -> embedding
    Planes,         \* table -> the planes of its bits
    MaxInserts

VARIABLES
    tables,     \* _tables: table -> bucket -> ids
    entered,    \* how many entries of each id there should be
    inserts

lshVars == <<tables, entered, inserts>>

EpisodeIds == DOMAIN EmbeddingOf
Codes(t) == [DOMAIN Planes[t] -> BOOLEAN]
EmptyTables == [t \in DOMAIN Planes |-> [code \in Codes(t) |-> << >>]]

LshInit == tables = EmptyTables /\ entered = [id \in EpisodeIds |-> 0] /\ inserts = 0

DotOf(a, b) == FoldLeft(LAMBDA sum, j : sum + a[j] * b[j], 0, [j \in DOMAIN a |-> j])
HashIn(t, embedding) == [bit \in DOMAIN Planes[t] |-> DotOf(Planes[t][bit], embedding) >= 0]

Entered(ts, id) ==
    [t \in DOMAIN ts |-> [ts[t] EXCEPT ![HashIn(t, EmbeddingOf[id])] = Append(@, id)]]

InsertId(id) ==
    /\ inserts < MaxInserts /\ inserts' = inserts + 1
    /\ tables' = Entered(tables, id) /\ entered' = [entered EXCEPT ![id] = @ + 1]

\* One entry in every bucket that has the id.
RemoveId(id) ==
    /\ tables' = [t \in DOMAIN tables |-> [code \in Codes(t) |-> RemoveFirst(tables[t][code], id)]]
    /\ entered' = [entered EXCEPT ![id] = IF @ = 0 THEN 0 ELSE @ - 1]
    /\ UNCHANGED inserts

RebuildIndex(ids) ==
    /\ tables' = FoldLeft(Entered, EmptyTables, SetToSeq(ids))
    /\ entered' = [id \in EpisodeIds |-> IF id \in ids THEN 1 ELSE 0]
    /\ UNCHANGED inserts

QueryFor(embedding) == UNION {ToSet(tables[t][HashIn(t, embedding)]) : t \in DOMAIN tables}

LshNext ==
    \/ \E id \in EpisodeIds : InsertId(id) \/ RemoveId(id)
    \/ \E ids \in SUBSET EpisodeIds : RebuildIndex(ids)

\* A query for an episode's own embedding finds it exactly as long as it was entered more
\* often than removed, and whatever else it finds shares one of its buckets.
QueriesFindEntered ==
    \A id \in EpisodeIds :
        LET found == QueryFor(EmbeddingOf[id]) IN
        /\ id \in found <=> entered[id] > 0
        /\ \A other \in found : \E t \in DOMAIN Planes :
             HashIn(t, EmbeddingOf[other]) = HashIn(t, EmbeddingOf[id])

-----------------------------------------------------------------------------
(***************************************************************************)
(* PERConsolidator and EmbeddingProjector: a batch is drawn by how far the *)
(* importances deviate from their mean, each draw is weighted against its  *)
(* probability, and the projector's parameters are saved and restored as   *)
(* one flat list.  Importances are whole numbers; what a deviation, times  *)
(* their number, becomes with the epsilon and the power alpha is a         *)
(* constant.  The weights of the draws and the gradient are left out.      *)
(***************************************************************************)

CONSTANTS
    Importances,    \* sequences of importances to draw from
    PowerOf,        \* deviation -> priority, which is never 0
    DimIn, DimOut   \* d_in and d_emb

ASSUME ProjectorAssumption ==
    /\ Importances \subseteq Seq(Nat) /\ {DimIn, DimOut} \subseteq Nat \ {0}
    /\ \A d \in DOMAIN PowerOf : PowerOf[d] \in Nat \ {0}

VARIABLES
    episodesDrawnOf,  \* the importances of the episodes
    draw,             \* the last draw: the random number and the index, 0 before one
    projector         \* [W, b]

drawVars == <<episodesDrawnOf, draw, projector>>

DrawInit ==
    /\ episodesDrawnOf \in Importances /\ draw = [r |-> 0, idx |-> 0]
    /\ projector = [W |-> [i \in 1..DimOut |-> [j \in 1..DimIn |-> <<"W", i, j>>]],
                    b |-> [i \in 1..DimOut |-> <<"b", i, 0>>]]

RawPriorities ==
    LET n == Len(episodesDrawnOf)
        sum == FoldLeft(LAMBDA a, b : a + b, 0, episodesDrawnOf)
        dev(i) == n * episodesDrawnOf[i] - sum
    IN [i \in 1..n |-> PowerOf[IF dev(i) < 0 THEN -dev(i) ELSE dev(i)]]

Cumulative(ps) == [i \in DOMAIN ps |-> FoldLeft(LAMBDA a, b : a + b, 0, SubSeq(ps, 1, i))]

\* The first interval that ends at r or behind it; the total has an epsilon more than the
\* last one, where the loop ends with the first index.
DrawIndex(r) ==
    LET ends == Cumulative(RawPriorities)
        behind == {i \in DOMAIN ends : r <= ends[i]}
    IN IF behind = {} THEN 1 ELSE Min(behind)

Consolidate ==
    /\ Len(episodesDrawnOf) >= 2
    /\ \E r \in 1..(Last(Cumulative(RawPriorities)) + 1) : draw' = [r |-> r, idx |-> DrawIndex(r)]
    /\ UNCHANGED <<episodesDrawnOf, projector>>

ToFlat(p) == FlattenSeq(p.W) \o p.b

\* from_flat: too few numbers are refused before anything is changed.
FromFlat(data) ==
    /\ projector' = IF Len(data) < DimOut * DimIn + DimOut THEN projector
                    ELSE [W |-> [i \in 1..DimOut |-> [j \in 1..DimIn |-> data[(i - 1) * DimIn + j]]],
                          b |-> [i \in 1..DimOut |-> data[DimOut * DimIn + i]]]
    /\ UNCHANGED <<episodesDrawnOf, draw>>

\* A snapshot's payload ends early when its writing did, and goes on with the embeddings.
DrawNext ==
    \/ Consolidate
    \/ LET flat == ToFlat(projector) IN
       \E data \in {Front(flat), flat, Append(flat, <<"e", 0, 0>>)} : FromFlat(data)

\* A draw is the index whose share of the cumulative priorities holds the random number,
\* except in the epsilon; and a restored projector is the one that was saved.
DrawsByShare ==
    /\ draw.idx # 0 /\ draw.r <= Last(Cumulative(RawPriorities)) =>
         LET before == FoldLeft(LAMBDA a, b : a + b, 0, SubSeq(RawPriorities, 1, draw.idx - 1))
         IN before < draw.r /\ draw.r <= before + RawPriorities[draw.idx]
    /\ \A i \in 1..DimOut : projector.b[i] = <<"b", i, 0>> /\ \A j \in 1..DimIn : projector.W[i][j] = <<"W", i, j>>
=============================================================================
