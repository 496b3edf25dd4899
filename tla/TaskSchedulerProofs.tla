------------------------- MODULE TaskSchedulerProofs -------------------------
(***************************************************************************)
(* What holds of TaskScheduler for every set of workers, clients and tasks *)
(* and every deque depth: no step of any thread ever leaves a task in two  *)
(* places.                                                                 *)
(***************************************************************************)
EXTENDS TaskScheduler, SequenceTheorems, FiniteSetTheorems, TLAPS

\* The part of the state a task's place is read from.
PlaceType ==
    /\ fresh \subseteq Tasks
    /\ dq \in [Workers -> Seq(Tasks)]
    /\ gq \subseteq Tasks
    /\ held \in [Actors -> Tasks \cup {NoTask}]
    /\ \A w \in Workers : pc[w] \in {"check", "begin", "run"} <=> held[w] # NoTask
    /\ move.left > 0 => move.donor \in Workers /\ move.recipient \in Workers
    /\ held[Rebalancer] # NoTask => move.left > 0

LEMMA PlaceTypeOfTypeOK == TypeOK => PlaceType
    BY DEF TypeOK, QueuesOK, ThreadsOK, BackgroundOK, PlaceType

-----------------------------------------------------------------------------
(* How the slots of the deques change. *)

LEMMA PushSlots ==
    ASSUME dq \in [Workers -> Seq(Tasks)], NEW w \in Workers, NEW t \in Tasks, PushLocal(w, t)
    PROVE  /\ dq' \in [Workers -> Seq(Tasks)]
           /\ Len(dq'[w]) = Len(dq[w]) + 1
           /\ dq'[w][1] = t
           /\ \A i \in 1..Len(dq[w]) : dq'[w][i + 1] = dq[w][i]
           /\ \A i \in 2..Len(dq'[w]) : dq'[w][i] = dq[w][i - 1]
           /\ \A v \in Workers \ {w} : dq'[v] = dq[v]
<1>1. <<t>> \in Seq(Tasks) /\ Len(<<t>>) = 1 /\ <<t>>[1] = t
    OBVIOUS
<1>2. dq[w] \in Seq(Tasks) /\ Len(dq[w]) \in Nat
    BY LenProperties
<1>3. dq'[w] = <<t>> \o dq[w] /\ \A v \in Workers \ {w} : dq'[v] = dq[v]
    BY DEF PushLocal
<1>4. /\ <<t>> \o dq[w] \in Seq(Tasks)
      /\ Len(<<t>> \o dq[w]) = Len(dq[w]) + 1
      /\ \A i \in 1..Len(dq[w]) + 1 :
            (<<t>> \o dq[w])[i] = IF i <= 1 THEN <<t>>[i] ELSE dq[w][i - 1]
    BY <1>1, <1>2, ConcatProperties
<1>5. dq' \in [Workers -> Seq(Tasks)]
    BY <1>3, <1>4 DEF PushLocal
<1>6. QED BY <1>1, <1>2, <1>3, <1>4, <1>5

LEMMA PopSlots ==
    ASSUME dq \in [Workers -> Seq(Tasks)], NEW w \in Workers, dq[w] # <<>>,
           dq' = [dq EXCEPT ![w] = Tail(@)]
    PROVE  /\ dq' \in [Workers -> Seq(Tasks)]
           /\ Len(dq[w]) \in Nat \ {0} /\ Len(dq'[w]) = Len(dq[w]) - 1
           /\ Head(dq[w]) = dq[w][1] /\ Head(dq[w]) \in Tasks
           /\ \A i \in 1..Len(dq'[w]) : dq'[w][i] = dq[w][i + 1]
           /\ \A v \in Workers \ {w} : dq'[v] = dq[v]
<1>1. /\ Head(dq[w]) \in Tasks /\ Tail(dq[w]) \in Seq(Tasks)
      /\ Len(Tail(dq[w])) = Len(dq[w]) - 1
      /\ \A i \in 1..Len(Tail(dq[w])) : Tail(dq[w])[i] = dq[w][i + 1]
    BY HeadTailProperties
<1>2. Len(dq[w]) \in Nat \ {0} /\ Head(dq[w]) = dq[w][1]
    BY EmptySeq
<1>3. QED BY <1>1, <1>2

LEMMA StealSlots ==
    ASSUME dq \in [Workers -> Seq(Tasks)], NEW w \in Workers, dq[w] # <<>>,
           dq' = [dq EXCEPT ![w] = Front(@)]
    PROVE  /\ dq' \in [Workers -> Seq(Tasks)]
           /\ Len(dq[w]) \in Nat \ {0} /\ Len(dq'[w]) = Len(dq[w]) - 1
           /\ Last(dq[w]) = dq[w][Len(dq[w])] /\ Last(dq[w]) \in Tasks
           /\ \A i \in 1..Len(dq'[w]) : dq'[w][i] = dq[w][i]
           /\ \A v \in Workers \ {w} : dq'[v] = dq[v]
<1>1. Len(dq[w]) \in Nat \ {0} /\ \A i \in 1..Len(dq[w]) : dq[w][i] \in Tasks
    BY EmptySeq, ElementOfSeq
<1>2. /\ Front(dq[w]) \in Seq(Tasks) /\ Len(Front(dq[w])) = Len(dq[w]) - 1
      /\ \A i \in 1..Len(dq[w]) - 1 : Front(dq[w])[i] = dq[w][i]
    <2> DEFINE s == dq[w]
               n == Len(s) - 1
    <2>1. n \in Nat /\ \A i \in 1..n : s[i] \in Tasks
        BY <1>1
    <2> HIDE DEF s, n
    <2>2. /\ SubSeq(s, 1, n) \in Seq(Tasks)
          /\ Len(SubSeq(s, 1, n)) = IF 1 <= n THEN n - 1 + 1 ELSE 0
          /\ \A i \in 1..n - 1 + 1 : SubSeq(s, 1, n)[i] = s[1 + i - 1]
        <3>1. n \in Int /\ 1 \in Int
            BY <2>1
        <3>2. QED BY <2>1, <3>1, SubSeqProperties
    <2>3. /\ SubSeq(s, 1, n) \in Seq(Tasks)
          /\ Len(SubSeq(s, 1, n)) = n
          /\ \A i \in 1..n : SubSeq(s, 1, n)[i] = s[i]
        BY <2>1, <2>2
    <2>4. QED BY <2>3 DEF Front, s, n
<1>3. Last(dq[w]) = dq[w][Len(dq[w])] /\ Last(dq[w]) \in Tasks
    BY <1>1 DEF Last
<1>4. QED BY <1>1, <1>2, <1>3

-----------------------------------------------------------------------------
(* One lemma for each way a task changes its place. *)

\* From the hands of a to the head of a deque.
LEMMA HandToDeque ==
    ASSUME PlaceType, OnePlace, NEW a \in Actors, NEW w \in Workers, held[a] # NoTask,
           PushLocal(w, held[a]), LetsGo(a), UNCHANGED <<fresh, gq>>
    PROVE  OnePlace'
<1> DEFINE t == held[a]
<1>0. t \in Tasks /\ dq \in [Workers -> Seq(Tasks)] /\ \A v \in Workers : Len(dq[v]) \in Nat
    BY LenProperties DEF PlaceType
<1>1. /\ Len(dq'[w]) = Len(dq[w]) + 1
      /\ dq'[w][1] = t
      /\ \A i \in 1..Len(dq[w]) : dq'[w][i + 1] = dq[w][i]
      /\ \A i \in 2..Len(dq'[w]) : dq'[w][i] = dq[w][i - 1]
      /\ \A v \in Workers \ {w} : dq'[v] = dq[v]
    BY <1>0, PushSlots
<1>2. /\ t \notin gq /\ ~InDeque(t) /\ t \notin fresh
      /\ \A b \in Actors : held[b] = t => b = a
    BY <1>0 DEF OnePlace, KindsDisjoint, HandsDisjoint, FreshUnplaced, Placed, InHand
<1>3. /\ \A b \in Actors \ {a} : held'[b] = held[b]
      /\ held'[a] = NoTask /\ NoTask \notin Tasks
    BY SchedulerAssumption DEF LetsGo, PlaceType
<1>4. \A x \in Tasks : InHand(x)' <=> InHand(x) /\ x # t
    BY <1>2, <1>3 DEF InHand
<1>5. \A x \in Tasks : InDeque(x)' => InDeque(x) \/ x = t
    <2>1. SUFFICES ASSUME NEW x \in Tasks, NEW v \in Workers, NEW i \in 1..Len(dq'[v]), dq'[v][i] = x
                   PROVE  InDeque(x) \/ x = t
        BY DEF InDeque
    <2>2. CASE v # w
        BY <1>1, <2>1, <2>2 DEF InDeque
    <2>3. CASE v = w /\ i # 1
        <3>1. i \in 2..Len(dq'[w]) /\ i - 1 \in 1..Len(dq[w])
            BY <1>0, <1>1, <2>3
        <3>2. dq[w][i - 1] = x
            BY <1>1, <2>1, <2>3, <3>1
        <3>3. QED BY <3>1, <3>2 DEF InDeque
    <2>4. CASE v = w /\ i = 1
        BY <1>1, <2>1, <2>4
    <2>5. QED BY <2>2, <2>3, <2>4
<1>6. DequesDisjoint'
    <2>1. SUFFICES ASSUME NEW u \in Workers, NEW v \in Workers,
                          NEW i \in 1..Len(dq'[u]), NEW j \in 1..Len(dq'[v]),
                          dq'[u][i] = dq'[v][j]
                   PROVE  u = v /\ i = j
        BY DEF DequesDisjoint
    <2> DEFINE old(x, k) == IF x = w THEN k - 1 ELSE k
    <2>2. \A x \in Workers : \A k \in 1..Len(dq'[x]) :
             IF x = w /\ k = 1 THEN dq'[x][k] = t
             ELSE old(x, k) \in 1..Len(dq[x]) /\ dq'[x][k] = dq[x][old(x, k)]
        BY <1>0, <1>1
    <2>3. \A x \in Workers : \A k \in 1..Len(dq[x]) : dq[x][k] # t
        BY <1>2 DEF InDeque
    <2>4. \A x, y \in Workers : \A k \in 1..Len(dq[x]), l \in 1..Len(dq[y]) :
             dq[x][k] = dq[y][l] => x = y /\ k = l
        BY DEF OnePlace, DequesDisjoint
    <2>5. CASE (u = w /\ i = 1) \/ (v = w /\ j = 1)
        BY <2>1, <2>2, <2>3, <2>5, SMTT(30)
    <2>6. CASE ~((u = w /\ i = 1) \/ (v = w /\ j = 1))
        <3>1. old(u, i) \in 1..Len(dq[u]) /\ old(v, j) \in 1..Len(dq[v])
              /\ dq[u][old(u, i)] = dq[v][old(v, j)]
            BY <2>1, <2>2, <2>6
        <3>2. u = v /\ old(u, i) = old(v, j)
            BY <2>4, <3>1
        <3>3. QED BY <3>2
    <2>7. QED BY <2>5, <2>6
<1>7. HandsDisjoint'
    BY <1>3 DEF OnePlace, HandsDisjoint
<1>8. KindsDisjoint' /\ FreshUnplaced'
    BY <1>2, <1>4, <1>5 DEF OnePlace, KindsDisjoint, FreshUnplaced, Placed, PlaceType
<1>9. QED BY <1>6, <1>7, <1>8 DEF OnePlace

\* From either end of a deque to the empty hands of a: shift is 1 when the head
\* was taken and 0 when the tail was.
LEMMA DequeToHand ==
    ASSUME PlaceType, OnePlace, NEW a \in Actors, NEW w \in Workers, NEW k \in 1..Len(dq[w]),
           NEW shift \in {0, 1}, (shift = 1 /\ k = 1) \/ (shift = 0 /\ k = Len(dq[w])),
           Len(dq'[w]) = Len(dq[w]) - 1,
           \A i \in 1..Len(dq'[w]) : dq'[w][i] = dq[w][i + shift],
           \A v \in Workers \ {w} : dq'[v] = dq[v],
           held[a] = NoTask, Grabs(a, dq[w][k]), UNCHANGED <<fresh, gq>>
    PROVE  OnePlace'
<1> DEFINE t == dq[w][k]
           old(v, i) == IF v = w THEN i + shift ELSE i
<1>0. t \in Tasks /\ \A v \in Workers : Len(dq[v]) \in Nat
    BY LenProperties, ElementOfSeq DEF PlaceType
<1>1. \A v \in Workers : \A i \in 1..Len(dq'[v]) :
         old(v, i) \in 1..Len(dq[v]) /\ dq'[v][i] = dq[v][old(v, i)] /\ (v = w => old(v, i) # k)
    BY <1>0
<1>2. t \notin gq /\ ~InHand(t) /\ t \notin fresh
    BY <1>0 DEF OnePlace, KindsDisjoint, FreshUnplaced, Placed, InDeque
<1>3. held'[a] = t /\ \A b \in Actors \ {a} : held'[b] = held[b]
    BY DEF Grabs, PlaceType
<1>4. \A x, y \in Workers : \A i \in 1..Len(dq[x]), j \in 1..Len(dq[y]) :
         dq[x][i] = dq[y][j] => x = y /\ i = j
    BY DEF OnePlace, DequesDisjoint
<1>5. \A x \in Tasks : InDeque(x)' => InDeque(x) /\ x # t
    <2>1. SUFFICES ASSUME NEW x \in Tasks, NEW v \in Workers, NEW i \in 1..Len(dq'[v]), dq'[v][i] = x
                   PROVE  InDeque(x) /\ x # t
        BY DEF InDeque
    <2>2. old(v, i) \in 1..Len(dq[v]) /\ dq[v][old(v, i)] = x /\ (v = w => old(v, i) # k)
        BY <1>1, <2>1
    <2> HIDE DEF old
    <2>3. InDeque(x)
        BY <2>2 DEF InDeque
    <2>4. x # t
        BY <1>4, <2>2
    <2>5. QED BY <2>3, <2>4
<1>6. \A x \in Tasks : InHand(x)' => InHand(x) \/ x = t
    BY <1>3 DEF InHand
<1>7. DequesDisjoint'
    <2>1. SUFFICES ASSUME NEW u \in Workers, NEW v \in Workers,
                          NEW i \in 1..Len(dq'[u]), NEW j \in 1..Len(dq'[v]),
                          dq'[u][i] = dq'[v][j]
                   PROVE  u = v /\ i = j
        BY DEF DequesDisjoint
    <2>2. /\ old(u, i) \in 1..Len(dq[u]) /\ old(v, j) \in 1..Len(dq[v])
          /\ dq[u][old(u, i)] = dq[v][old(v, j)]
        BY <1>1, <2>1
    <2>3. u = v /\ old(u, i) = old(v, j)
        <3> HIDE DEF old
        <3>1. QED BY <1>4, <2>2
    <2>4. QED BY <2>3
<1>8. HandsDisjoint'
    <2>1. \A b \in Actors : held[b] # t
        BY <1>2 DEF InHand
    <2>2. \A b, c \in Actors : held[b] = held[c] /\ held[b] # NoTask => b = c
        BY DEF OnePlace, HandsDisjoint
    <2>3. SUFFICES ASSUME NEW b \in Actors, NEW c \in Actors,
                          held'[b] = held'[c], held'[b] # NoTask
                   PROVE  b = c
        BY DEF HandsDisjoint
    <2> HIDE DEF t
    <2>4. QED BY <1>3, <2>1, <2>2, <2>3
<1>9. KindsDisjoint' /\ FreshUnplaced'
    <2> HIDE DEF t
    <2>1. QED BY <1>2, <1>5, <1>6 DEF OnePlace, KindsDisjoint, FreshUnplaced, Placed, PlaceType
<1>10. QED BY <1>7, <1>8, <1>9 DEF OnePlace

\* Steps that touch no deque: a thread lets go of a task, which may go to the
\* overflow queue, or takes one from there or from the tasks not yet submitted.
LEMMA OutsideDeques ==
    ASSUME PlaceType, OnePlace, UNCHANGED dq, NEW a \in Actors, NEW t \in Tasks,
           \/ held[a] = t /\ LetsGo(a) /\ gq' \in {gq, gq \cup {t}} /\ UNCHANGED fresh
           \/ held[a] = NoTask /\ t \in gq /\ Grabs(a, t) /\ gq' = gq \ {t} /\ UNCHANGED fresh
           \/ held[a] = NoTask /\ t \in fresh /\ Grabs(a, t) /\ fresh' = fresh \ {t} /\ UNCHANGED gq
    PROVE  OnePlace'
<1>1. DequesDisjoint' /\ \A x \in Tasks : InDeque(x)' <=> InDeque(x)
    BY DEF OnePlace, DequesDisjoint, InDeque
<1>2. NoTask \notin Tasks /\ t # NoTask
    BY SchedulerAssumption
<1>3. \A b, c \in Actors : held[b] = held[c] /\ held[b] # NoTask => b = c
    BY DEF OnePlace, HandsDisjoint
<1>4. \A b \in Actors \ {a} : held'[b] = held[b]
    BY DEF Grabs, LetsGo, PlaceType
<1>5. CASE held[a] = t /\ LetsGo(a) /\ gq' \in {gq, gq \cup {t}} /\ UNCHANGED fresh
    <2>1. held'[a] = NoTask
        BY <1>5 DEF LetsGo, PlaceType
    <2>2. HandsDisjoint'
        BY <1>3, <1>4, <2>1 DEF HandsDisjoint
    <2>3. \A x \in Tasks : InHand(x)' <=> InHand(x) /\ x # t
        BY <1>2, <1>3, <1>4, <1>5, <2>1 DEF InHand
    <2>4. InHand(t)
        BY <1>5 DEF InHand
    <2>5. KindsDisjoint' /\ FreshUnplaced'
        BY <1>1, <1>5, <2>3, <2>4 DEF OnePlace, KindsDisjoint, FreshUnplaced, Placed, PlaceType
    <2>6. QED BY <1>1, <2>2, <2>5 DEF OnePlace
<1>6. CASE held[a] = NoTask /\ ~InHand(t) /\ Grabs(a, t) /\ gq' = gq \ {t}
           /\ fresh' = fresh \ {t} /\ (t \in gq \/ t \in fresh)
    <2>1. held'[a] = t
        BY <1>6 DEF Grabs, PlaceType
    <2>2. HandsDisjoint'
        BY <1>2, <1>3, <1>4, <1>6, <2>1 DEF HandsDisjoint, InHand
    <2>3. \A x \in Tasks : InHand(x)' <=> InHand(x) \/ x = t
        BY <1>2, <1>4, <1>6, <2>1 DEF InHand
    <2>4. ~InDeque(t)
        BY <1>6 DEF OnePlace, KindsDisjoint, FreshUnplaced, Placed
    <2>5. KindsDisjoint' /\ FreshUnplaced'
        BY <1>1, <1>6, <2>3, <2>4 DEF OnePlace, KindsDisjoint, FreshUnplaced, Placed, PlaceType
    <2>6. QED BY <1>1, <2>2, <2>5 DEF OnePlace
<1>7. CASE held[a] = NoTask /\ t \in gq /\ Grabs(a, t) /\ gq' = gq \ {t} /\ UNCHANGED fresh
    <2>1. ~InHand(t) /\ t \notin fresh
        BY <1>7 DEF OnePlace, KindsDisjoint, FreshUnplaced, Placed
    <2>2. QED BY <1>6, <1>7, <2>1
<1>8. CASE held[a] = NoTask /\ t \in fresh /\ Grabs(a, t) /\ fresh' = fresh \ {t} /\ UNCHANGED gq
    <2>1. ~InHand(t) /\ t \notin gq
        BY <1>8 DEF OnePlace, FreshUnplaced, Placed
    <2>2. QED BY <1>6, <1>8, <2>1
<1>9. QED BY <1>5, <1>7, <1>8

LEMMA PlacesUnchanged ==
    ASSUME OnePlace, UNCHANGED <<fresh, dq, gq, held>>
    PROVE  OnePlace'
BY DEF OnePlace, DequesDisjoint, HandsDisjoint, KindsDisjoint, FreshUnplaced,
       Placed, InDeque, InHand

-----------------------------------------------------------------------------
(* Types. *)

\* The typing of a deque after a push and after a removal at either end.
LEMMA PushType ==
    ASSUME TypeOK, NEW w \in Workers, NEW t \in Tasks, HasRoom(w), PushLocal(w, t)
    PROVE  dq' \in [Workers -> Seq(Tasks)] /\ \A v \in Workers : Len(dq'[v]) <= Depth
<1>1. /\ dq \in [Workers -> Seq(Tasks)]
      /\ \A v \in Workers : Len(dq[v]) \in Nat /\ Len(dq[v]) <= Depth
    BY LenProperties DEF TypeOK, QueuesOK
<1>2. /\ dq' \in [Workers -> Seq(Tasks)] /\ Len(dq'[w]) = Len(dq[w]) + 1
      /\ \A v \in Workers \ {w} : dq'[v] = dq[v]
    BY <1>1, PushSlots
<1>3. Depth \in Nat
    BY SchedulerAssumption
<1>4. Len(dq[w]) \in Nat /\ Len(dq[w]) < Depth
    BY <1>1 DEF HasRoom
<1>5. Len(dq'[w]) <= Depth
    BY <1>2, <1>3, <1>4
<1>6. QED BY <1>1, <1>2, <1>5

LEMMA RemoveType ==
    ASSUME TypeOK, NEW w \in Workers, dq[w] # <<>>,
           dq' = [dq EXCEPT ![w] = Tail(@)] \/ dq' = [dq EXCEPT ![w] = Front(@)]
    PROVE  /\ dq' \in [Workers -> Seq(Tasks)] /\ \A v \in Workers : Len(dq'[v]) <= Depth
           /\ Head(dq[w]) \in Tasks /\ Last(dq[w]) \in Tasks
<1>1. /\ dq \in [Workers -> Seq(Tasks)]
      /\ \A v \in Workers : Len(dq[v]) \in Nat /\ Len(dq[v]) <= Depth
    BY LenProperties DEF TypeOK, QueuesOK
<1>2. Len(dq[w]) \in Nat \ {0} /\ Head(dq[w]) \in Tasks
    BY <1>1, EmptySeq, HeadTailProperties
<1>3. Last(dq[w]) \in Tasks
    BY <1>1, <1>2, ElementOfSeq DEF Last
<1>4. /\ dq' \in [Workers -> Seq(Tasks)] /\ Len(dq'[w]) = Len(dq[w]) - 1
      /\ \A v \in Workers \ {w} : dq'[v] = dq[v]
    <2>1. CASE dq' = [dq EXCEPT ![w] = Tail(@)]
        BY <1>1, <2>1, PopSlots
    <2>2. CASE dq' = [dq EXCEPT ![w] = Front(@)]
        BY <1>1, <2>2, StealSlots
    <2>3. QED BY <2>1, <2>2
<1>5. Depth \in Nat
    BY SchedulerAssumption
<1>6. QED BY <1>1, <1>2, <1>3, <1>4, <1>5

LEMMA ActorSorts ==
    /\ \A w \in Workers : w \in Actors /\ w # Rebalancer /\ w # Drainer
    /\ \A c \in Clients : c \in Actors /\ c \notin Workers /\ c # Rebalancer
    /\ Rebalancer \in Actors /\ Rebalancer \notin Workers
    /\ Drainer \in Actors /\ Drainer \notin Workers /\ Drainer # Rebalancer
    /\ NoTask \notin Tasks
BY SchedulerAssumption DEF Actors

LEMMA InitType == Init => TypeOK
<1> SUFFICES ASSUME Init PROVE TypeOK
    OBVIOUS
<1> USE DEF Init
<1>1. <<>> \in Seq(Tasks) /\ Len(<<>>) = 0 /\ 0 <= Depth
    BY SchedulerAssumption
<1>2. QueuesOK
    BY <1>1 DEF QueuesOK
<1>3. ThreadsOK
    BY ActorSorts DEF ThreadsOK
<1>4. BackgroundOK
    <2>1. move = [left |-> 0, donor |-> NoTask, recipient |-> NoTask]
        BY DEF NoMove
    <2>2. held[Rebalancer] = NoTask
        BY ActorSorts
    <2>3. checked \in BOOLEAN /\ draining \in BOOLEAN
        OBVIOUS
    <2> HIDE DEF Init
    <2>4. /\ move \in [left : Nat, donor : Workers \cup {NoTask}, recipient : Workers \cup {NoTask}]
          /\ move.left = 0
        BY <2>1
    <2>5. balancing \in BOOLEAN
        BY DEF Init
    <2>6. DOMAIN loads = {}
        BY DEF Init, NoLoads
    <2>7. QED BY <2>2, <2>3, <2>4, <2>5, <2>6 DEF BackgroundOK
<1>5. FuturesOK /\ FlagsOK
    BY DEF FuturesOK, FlagsOK
<1>6. QED BY <1>2, <1>3, <1>4, <1>5 DEF TypeOK

\* The steps of clients keep the types.
LEMMA ClientType ==
    ASSUME TypeOK, NEW c \in Clients,
           \/ \E t \in Tasks : Submit(c, t) \/ CancelChecks(c, t)
           \/ \E w \in Workers : SubmitPushes(c, w) \/ SubmitOverflows(c, w)
           \/ CancelSets(c)
    PROVE  TypeOK'
<1> USE ActorSorts DEF flags, futures, drainer, balancer
<1>1. ASSUME NEW t \in Tasks, Submit(c, t) PROVE TypeOK'
    <2>1. QueuesOK'
        BY <1>1 DEF TypeOK, QueuesOK, Submit
    <2>2. ThreadsOK'
        BY <1>1 DEF TypeOK, ThreadsOK, Submit, Grabs
    <2>3. BackgroundOK'
        BY <1>1 DEF TypeOK, BackgroundOK, Submit, Grabs
    <2>4. FuturesOK' /\ FlagsOK'
        BY <1>1 DEF TypeOK, FuturesOK, FlagsOK, Submit
    <2>5. QED BY <2>1, <2>2, <2>3, <2>4 DEF TypeOK
<1>2. ASSUME NEW t \in Tasks, CancelChecks(c, t) PROVE TypeOK'
    <2>1. FuturesOK'
        BY <1>2 DEF TypeOK, FuturesOK, CancelChecks
    <2>2. QueuesOK' /\ ThreadsOK' /\ BackgroundOK' /\ FlagsOK'
        BY <1>2 DEF TypeOK, QueuesOK, ThreadsOK, BackgroundOK, FlagsOK, CancelChecks
    <2>3. QED BY <2>1, <2>2 DEF TypeOK
<1>3. ASSUME NEW w \in Workers, SubmitPushes(c, w) PROVE TypeOK'
    <2>1. held[c] \in Tasks
        BY <1>3 DEF TypeOK, ThreadsOK, SubmitPushes
    <2>2. dq' \in [Workers -> Seq(Tasks)] /\ \A v \in Workers : Len(dq'[v]) <= Depth
        BY <1>3, <2>1, PushType DEF SubmitPushes
    <2>3. QueuesOK'
        BY <1>3, <2>2 DEF TypeOK, QueuesOK, SubmitPushes
    <2>4. ThreadsOK'
        BY <1>3 DEF TypeOK, ThreadsOK, SubmitPushes, LetsGo
    <2>5. BackgroundOK'
        BY <1>3 DEF TypeOK, BackgroundOK, SubmitPushes, LetsGo
    <2>6. FuturesOK' /\ FlagsOK'
        BY <1>3 DEF TypeOK, FuturesOK, FlagsOK, SubmitPushes
    <2>7. QED BY <2>3, <2>4, <2>5, <2>6 DEF TypeOK
<1>4. ASSUME NEW w \in Workers, SubmitOverflows(c, w) PROVE TypeOK'
    <2>1. QueuesOK'
        BY <1>4 DEF TypeOK, QueuesOK, SubmitOverflows, ThreadsOK
    <2>2. ThreadsOK'
        BY <1>4 DEF TypeOK, ThreadsOK, SubmitOverflows, LetsGo
    <2>3. BackgroundOK'
        BY <1>4 DEF TypeOK, BackgroundOK, SubmitOverflows, LetsGo
    <2>4. FuturesOK' /\ FlagsOK'
        BY <1>4 DEF TypeOK, FuturesOK, FlagsOK, SubmitOverflows
    <2>5. QED BY <2>1, <2>2, <2>3, <2>4 DEF TypeOK
<1>5. ASSUME CancelSets(c) PROVE TypeOK'
    <2>1. FuturesOK'
        BY <1>5 DEF TypeOK, FuturesOK, CancelSets, Signal
    <2>2. QueuesOK' /\ ThreadsOK' /\ BackgroundOK' /\ FlagsOK'
        BY <1>5 DEF TypeOK, QueuesOK, ThreadsOK, BackgroundOK, FlagsOK, CancelSets
    <2>3. QED BY <2>1, <2>2 DEF TypeOK
<1>6. QED BY <1>1, <1>2, <1>3, <1>4, <1>5

\* A worker that takes a task goes on to check it.
LEMMA Grabbing ==
    ASSUME TypeOK, NEW w \in Workers, NEW t \in Tasks, pc[w] \in {"loop", "grab"},
           Grabs(w, t), Goto(w, "check"), UNCHANGED started, victim' \in [Workers -> Workers]
    PROVE  ThreadsOK' /\ held'[Rebalancer] = held[Rebalancer]
<1>1. /\ held \in [Actors -> Tasks \cup {NoTask}]
      /\ \A v \in Workers : pc[v] \in {"check", "begin", "run"} <=> held[v] # NoTask
      /\ started \in BOOLEAN
      /\ ~started => \A v \in Workers : pc[v] = "unstarted"
    BY DEF TypeOK, ThreadsOK
<1>2. /\ held' \in [Actors -> Tasks \cup {NoTask}] /\ held'[w] = t /\ t # NoTask
      /\ \A v \in Actors \ {w} : held'[v] = held[v]
    BY <1>1, ActorSorts DEF Grabs
<1>3. /\ pc' \in [Workers -> {"unstarted", "loop", "steal", "grab", "check", "begin", "run", "dead", "exited"}]
      /\ pc'[w] = "check" /\ \A v \in Workers \ {w} : pc'[v] = pc[v]
    BY DEF TypeOK, ThreadsOK, Goto
<1>4. \A v \in Workers : pc'[v] \in {"check", "begin", "run"} <=> held'[v] # NoTask
    BY <1>1, <1>2, <1>3, ActorSorts
<1>5. started
    BY <1>1
<1>6. QED BY <1>1, <1>2, <1>3, <1>4, <1>5, ActorSorts DEF ThreadsOK

\* The steps of a worker keep the types.
LEMMA WorkerType ==
    ASSUME TypeOK, NEW w \in Workers, WorkerStep(w)
    PROVE  TypeOK'
<1> USE ActorSorts DEF flags, futures, drainer, balancer
<1>1. CASE PopLocal(w) /\ dq[w] # <<>>
    <2>1. /\ dq' \in [Workers -> Seq(Tasks)] /\ \A v \in Workers : Len(dq'[v]) <= Depth
          /\ Head(dq[w]) \in Tasks
        BY <1>1, RemoveType DEF PopLocal
    <2>2. QueuesOK'
        BY <1>1, <2>1 DEF TypeOK, QueuesOK, PopLocal
    <2>3. ThreadsOK' /\ held'[Rebalancer] = held[Rebalancer]
        <3>1. victim' \in [Workers -> Workers]
            BY <1>1 DEF TypeOK, ThreadsOK, PopLocal
        <3>2. QED BY <1>1, <2>1, <3>1, Grabbing DEF PopLocal
    <2>4. BackgroundOK'
        BY <1>1, <2>3 DEF TypeOK, BackgroundOK, PopLocal
    <2>5. FuturesOK' /\ FlagsOK'
        BY <1>1 DEF TypeOK, FuturesOK, FlagsOK, PopLocal
    <2>6. QED BY <2>2, <2>3, <2>4, <2>5 DEF TypeOK
<1>2. CASE PopLocal(w) /\ dq[w] = <<>>
    <2>1. ThreadsOK'
        BY <1>2 DEF TypeOK, ThreadsOK, PopLocal, Goto
    <2>2. QueuesOK' /\ BackgroundOK' /\ FuturesOK' /\ FlagsOK'
        BY <1>2 DEF TypeOK, QueuesOK, BackgroundOK, FuturesOK, FlagsOK, PopLocal
    <2>3. QED BY <2>1, <2>2 DEF TypeOK
<1>3. CASE FindsNoVictim(w)
    <2>1. ThreadsOK'
        BY <1>3 DEF TypeOK, ThreadsOK, FindsNoVictim, Goto
    <2>2. QueuesOK' /\ BackgroundOK' /\ FuturesOK' /\ FlagsOK'
        BY <1>3 DEF TypeOK, QueuesOK, BackgroundOK, FuturesOK, FlagsOK, FindsNoVictim
    <2>3. QED BY <2>1, <2>2 DEF TypeOK
<1>4. ASSUME NEW v \in Workers, ChoosesVictim(w, v) PROVE TypeOK'
    <2>1. ThreadsOK'
        BY <1>4 DEF TypeOK, ThreadsOK, ChoosesVictim, Goto
    <2>2. QueuesOK' /\ BackgroundOK' /\ FuturesOK' /\ FlagsOK'
        BY <1>4 DEF TypeOK, QueuesOK, BackgroundOK, FuturesOK, FlagsOK, ChoosesVictim
    <2>3. QED BY <2>1, <2>2 DEF TypeOK
<1>5. CASE Steal(w) /\ dq[victim[w]] # <<>>
    <2>1. victim[w] \in Workers
        BY DEF TypeOK, ThreadsOK
    <2>2. /\ dq' \in [Workers -> Seq(Tasks)] /\ \A v \in Workers : Len(dq'[v]) <= Depth
          /\ Last(dq[victim[w]]) \in Tasks
        BY <1>5, <2>1, RemoveType DEF Steal
    <2>3. QueuesOK'
        BY <1>5, <2>2 DEF TypeOK, QueuesOK, Steal
    <2>4. ThreadsOK' /\ held'[Rebalancer] = held[Rebalancer]
        <3>1. victim' \in [Workers -> Workers]
            BY <1>5 DEF TypeOK, ThreadsOK, Steal
        <3>2. QED BY <1>5, <2>2, <3>1, Grabbing DEF Steal
    <2>5. BackgroundOK'
        BY <1>5, <2>4 DEF TypeOK, BackgroundOK, Steal
    <2>6. FuturesOK' /\ FlagsOK'
        BY <1>5 DEF TypeOK, FuturesOK, FlagsOK, Steal
    <2>7. QED BY <2>3, <2>4, <2>5, <2>6 DEF TypeOK
<1>6. CASE Steal(w) /\ dq[victim[w]] = <<>>
    <2>1. ThreadsOK'
        BY <1>6 DEF TypeOK, ThreadsOK, Steal, Goto
    <2>2. QueuesOK' /\ BackgroundOK' /\ FuturesOK' /\ FlagsOK'
        BY <1>6 DEF TypeOK, QueuesOK, BackgroundOK, FuturesOK, FlagsOK, Steal
    <2>3. QED BY <2>1, <2>2 DEF TypeOK
<1>7. CASE SkipsDone(w)
    <2>1. ThreadsOK'
        BY <1>7 DEF TypeOK, ThreadsOK, SkipsDone, LetsGo, Goto
    <2>2. BackgroundOK'
        BY <1>7 DEF TypeOK, BackgroundOK, SkipsDone, LetsGo
    <2>3. QueuesOK' /\ FuturesOK' /\ FlagsOK'
        BY <1>7 DEF TypeOK, QueuesOK, FuturesOK, FlagsOK, SkipsDone
    <2>4. QED BY <2>1, <2>2, <2>3 DEF TypeOK
<1>7a. CASE Begins(w)
    <2>1. ThreadsOK'
        BY <1>7a DEF TypeOK, ThreadsOK, Begins, Goto
    <2>2. QueuesOK' /\ BackgroundOK' /\ FuturesOK' /\ FlagsOK'
        BY <1>7a DEF TypeOK, QueuesOK, BackgroundOK, FuturesOK, FlagsOK, Begins
    <2>3. QED BY <2>1, <2>2 DEF TypeOK
<1>8. CASE Execute(w)
    <2>1. held[w] \in Tasks
        BY <1>8 DEF TypeOK, ThreadsOK, Execute
    <2>2. ThreadsOK'
        BY <1>8 DEF TypeOK, ThreadsOK, Execute, Goto
    <2>3. FuturesOK'
        BY <1>8, <2>1 DEF TypeOK, FuturesOK, Execute
    <2>4. QueuesOK' /\ BackgroundOK' /\ FlagsOK'
        BY <1>8 DEF TypeOK, QueuesOK, BackgroundOK, FlagsOK, Execute
    <2>5. QED BY <2>2, <2>3, <2>4 DEF TypeOK
<1>9. CASE Finish(w)
    <2>1. held[w] \in Tasks
        BY <1>9 DEF TypeOK, ThreadsOK, Finish
    <2>2. ThreadsOK'
        BY <1>9 DEF TypeOK, ThreadsOK, Finish, LetsGo, Goto
    <2>3. BackgroundOK'
        BY <1>9 DEF TypeOK, BackgroundOK, Finish, LetsGo
    <2>4. FuturesOK'
        BY <1>9, <2>1 DEF TypeOK, FuturesOK, Finish, Signal
    <2>5. QueuesOK' /\ FlagsOK'
        BY <1>9 DEF TypeOK, QueuesOK, FlagsOK, Finish
    <2>6. QED BY <2>2, <2>3, <2>4, <2>5 DEF TypeOK
<1>10. CASE Dies(w)
    <2>1. ThreadsOK'
        BY <1>10 DEF TypeOK, ThreadsOK, Dies, LetsGo, Goto
    <2>2. BackgroundOK'
        BY <1>10 DEF TypeOK, BackgroundOK, Dies, LetsGo
    <2>3. QueuesOK' /\ FuturesOK' /\ FlagsOK'
        BY <1>10 DEF TypeOK, QueuesOK, FuturesOK, FlagsOK, Dies
    <2>4. QED BY <2>1, <2>2, <2>3 DEF TypeOK
<1>11. CASE Leaves(w)
    <2>1. ThreadsOK'
        BY <1>11 DEF TypeOK, ThreadsOK, Leaves, Goto
    <2>2. QueuesOK' /\ BackgroundOK' /\ FuturesOK' /\ FlagsOK'
        BY <1>11 DEF TypeOK, QueuesOK, BackgroundOK, FuturesOK, FlagsOK, Leaves
    <2>3. QED BY <2>1, <2>2 DEF TypeOK
<1>12. QED BY <1>1, <1>2, <1>3, <1>4, <1>5, <1>6, <1>7, <1>7a, <1>8, <1>9, <1>10, <1>11
         DEF WorkerStep

\* The steps of the draining thread keep the types.
LEMMA DrainType ==
    ASSUME TypeOK, DrainStep
    PROVE  TypeOK'
<1> USE ActorSorts DEF flags, futures, drainer, balancer
<1>1. ASSUME NEW t \in gq, DrainPops(t) PROVE TypeOK'
    <2>1. QueuesOK'
        BY <1>1 DEF TypeOK, QueuesOK, DrainPops
    <2>2. ThreadsOK'
        BY <1>1 DEF TypeOK, ThreadsOK, DrainPops, QueuesOK, Grabs
    <2>3. BackgroundOK'
        BY <1>1 DEF TypeOK, BackgroundOK, DrainPops, ThreadsOK, QueuesOK, Grabs
    <2>4. FuturesOK' /\ FlagsOK'
        BY <1>1 DEF TypeOK, FuturesOK, FlagsOK, DrainPops
    <2>5. QED BY <2>1, <2>2, <2>3, <2>4 DEF TypeOK
<1>2. CASE DrainPauses
    <2>1. BackgroundOK'
        BY <1>2 DEF TypeOK, BackgroundOK, DrainPauses
    <2>2. QueuesOK' /\ ThreadsOK' /\ FuturesOK' /\ FlagsOK'
        BY <1>2 DEF TypeOK, QueuesOK, ThreadsOK, FuturesOK, FlagsOK, DrainPauses
    <2>3. QED BY <2>1, <2>2 DEF TypeOK
<1>3. CASE DrainChecks
    <2>1. ThreadsOK'
        BY <1>3 DEF TypeOK, ThreadsOK, DrainChecks, LetsGo
    <2>2. BackgroundOK'
        BY <1>3 DEF TypeOK, BackgroundOK, DrainChecks, ThreadsOK, LetsGo
    <2>3. QueuesOK' /\ FuturesOK' /\ FlagsOK'
        BY <1>3 DEF TypeOK, QueuesOK, FuturesOK, FlagsOK, DrainChecks
    <2>4. QED BY <2>1, <2>2, <2>3 DEF TypeOK
<1>4. ASSUME NEW w \in Workers, DrainPlaces(w) PROVE TypeOK'
    <2>1. held[Drainer] \in Tasks
        BY <1>4 DEF TypeOK, ThreadsOK, DrainPlaces
    <2>2. dq' \in [Workers -> Seq(Tasks)] /\ \A v \in Workers : Len(dq'[v]) <= Depth
        BY <1>4, <2>1, PushType DEF DrainPlaces
    <2>3. QueuesOK'
        BY <1>4, <2>2 DEF TypeOK, QueuesOK, DrainPlaces
    <2>4. ThreadsOK'
        BY <1>4 DEF TypeOK, ThreadsOK, DrainPlaces, LetsGo
    <2>5. BackgroundOK'
        BY <1>4 DEF TypeOK, BackgroundOK, DrainPlaces, ThreadsOK, LetsGo
    <2>6. FuturesOK' /\ FlagsOK'
        BY <1>4 DEF TypeOK, FuturesOK, FlagsOK, DrainPlaces
    <2>7. QED BY <2>3, <2>4, <2>5, <2>6 DEF TypeOK
<1>5. ASSUME NEW w \in Workers, DrainPutsBack(w) PROVE TypeOK'
    <2>1. QueuesOK'
        BY <1>5 DEF TypeOK, QueuesOK, DrainPutsBack, ThreadsOK
    <2>2. ThreadsOK'
        BY <1>5 DEF TypeOK, ThreadsOK, DrainPutsBack, LetsGo
    <2>3. BackgroundOK'
        BY <1>5 DEF TypeOK, BackgroundOK, DrainPutsBack, ThreadsOK, LetsGo
    <2>4. FuturesOK' /\ FlagsOK'
        BY <1>5 DEF TypeOK, FuturesOK, FlagsOK, DrainPutsBack
    <2>5. QED BY <2>1, <2>2, <2>3, <2>4 DEF TypeOK
<1>6. CASE DrainWakes
    <2>1. BackgroundOK'
        BY <1>6 DEF TypeOK, BackgroundOK, DrainWakes
    <2>2. QueuesOK' /\ ThreadsOK' /\ FuturesOK' /\ FlagsOK'
        BY <1>6 DEF TypeOK, QueuesOK, ThreadsOK, FuturesOK, FlagsOK, DrainWakes
    <2>3. QED BY <2>1, <2>2 DEF TypeOK
<1>7. QED BY <1>1, <1>2, <1>3, <1>4, <1>5, <1>6 DEF DrainStep

LEMMA HalfType == ASSUME NEW n \in Nat PROVE Half(n) \in Nat \ {0}
BY DEF Half

\* How a pass ends or goes on.
LEMMA PassType ==
    ASSUME TypeOK, held'[Rebalancer] = NoTask, UNCHANGED drainer,
           \/ move.left > 0 /\ NextSteal
           \/ EndOfPass
    PROVE  BackgroundOK'
<1> DEFINE MoveType == [left : Nat, donor : Workers \cup {NoTask}, recipient : Workers \cup {NoTask}]
<1>1. /\ move \in MoveType /\ (move.left > 0 => move.donor \in Workers /\ move.recipient \in Workers)
      /\ DOMAIN loads \subseteq Workers /\ \A w \in DOMAIN loads : loads[w] \in Nat
      /\ checked \in BOOLEAN /\ draining \in BOOLEAN
    BY DEF TypeOK, BackgroundOK
<1>2. /\ DOMAIN loads' \subseteq Workers /\ \A w \in DOMAIN loads' : loads'[w] \in Nat
      /\ checked' \in BOOLEAN /\ draining' \in BOOLEAN
    <2>1. loads' = loads /\ checked' = checked /\ draining' = draining
        BY DEF NextSteal, EndOfPass, drainer
    <2>2. QED BY <1>1, <2>1
<1>3. CASE move.left > 1 /\ NextSteal
    <2>1. move' = [move EXCEPT !.left = @ - 1] /\ balancing' /\ balancing' \in BOOLEAN
        BY <1>3 DEF NextSteal, TypeOK, BackgroundOK
    <2>2. /\ move'.donor = move.donor /\ move'.recipient = move.recipient
          /\ move' \in MoveType
        BY <1>1, <1>3, <2>1
    <2>3. move.donor \in Workers /\ move.recipient \in Workers
        BY <1>1, <1>3
    <2>4. QED BY <1>2, <2>1, <2>2, <2>3 DEF BackgroundOK
<1>4. ASSUME move' = NoMove, balancing' = FALSE PROVE BackgroundOK'
    <2>1. move' \in MoveType /\ move'.left = 0
        BY <1>4 DEF NoMove
    <2>2. ~(move'.left > 0)
        BY <2>1
    <2>9. balancing' \in BOOLEAN
        BY <1>4
    <2> HIDE DEF MoveType
    <2>3. move' \in [left : Nat, donor : Workers \cup {NoTask}, recipient : Workers \cup {NoTask}]
        BY <2>1 DEF MoveType
    <2>4. QED BY <1>2, <2>2, <2>3, <2>9 DEF BackgroundOK
<1>5. CASE EndOfPass
    BY <1>4, <1>5 DEF EndOfPass
<1>6. QED BY <1>3, <1>5 DEF NextSteal

\* The steps of the rebalancer keep the types.
LEMMA RebalanceType ==
    ASSUME TypeOK, RebalanceStep
    PROVE  TypeOK'
<1> USE ActorSorts DEF flags, futures, drainer, balancer
<1>1. ASSUME NEW d \in Workers, NEW r \in Workers, RebalanceBegins(d, r) PROVE TypeOK'
    <2>1. /\ loads[d] \in Nat /\ loads[r] \in Nat /\ loads[d] - loads[r] \in Nat
          /\ move.left = 0 /\ balancing = TRUE
        BY <1>1 DEF TypeOK, BackgroundOK, RebalanceBegins
    <2>2. Half(loads[d] - loads[r]) \in Nat
        BY <2>1, HalfType
    <2>3. held[Rebalancer] = NoTask
        BY <1>1 DEF TypeOK, BackgroundOK, RebalanceBegins
    <2>4. BackgroundOK'
        BY <1>1, <2>1, <2>2, <2>3 DEF TypeOK, BackgroundOK, RebalanceBegins, NoLoads
    <2>5. QueuesOK' /\ ThreadsOK' /\ FuturesOK' /\ FlagsOK'
        BY <1>1 DEF TypeOK, QueuesOK, ThreadsOK, FuturesOK, FlagsOK, RebalanceBegins
    <2>6. QED BY <2>4, <2>5 DEF TypeOK
<1>2. CASE RebalanceSteals /\ dq[move.donor] # <<>>
    <2>1. move.donor \in Workers
        BY <1>2 DEF TypeOK, BackgroundOK, RebalanceSteals
    <2>2. /\ dq' \in [Workers -> Seq(Tasks)] /\ \A v \in Workers : Len(dq'[v]) <= Depth
          /\ Last(dq[move.donor]) \in Tasks
        BY <1>2, <2>1, RemoveType DEF RebalanceSteals
    <2>3. QueuesOK'
        BY <1>2, <2>2 DEF TypeOK, QueuesOK, RebalanceSteals
    <2>4. ThreadsOK'
        <3>1. /\ held' \in [Actors -> Tasks \cup {NoTask}]
              /\ \A w \in Workers : held'[w] = held[w]
            <4>1. PICK t \in Tasks : held' = [held EXCEPT ![Rebalancer] = t]
                BY <1>2, <2>2 DEF RebalanceSteals, Grabs
            <4>2. held \in [Actors -> Tasks \cup {NoTask}]
                BY DEF TypeOK, ThreadsOK
            <4>3. QED BY <4>1, <4>2
        <3>2. UNCHANGED <<pc, victim, started>>
            BY <1>2 DEF RebalanceSteals
        <3>3. QED BY <3>1, <3>2 DEF TypeOK, ThreadsOK
    <2>5. BackgroundOK'
        <3>1. /\ UNCHANGED <<balancing, loads, move, checked, draining>>
              /\ move.left > 0
            BY <1>2 DEF RebalanceSteals
        <3>2. QED BY <3>1 DEF TypeOK, BackgroundOK
    <2>6. FuturesOK' /\ FlagsOK'
        BY <1>2 DEF TypeOK, FuturesOK, FlagsOK, RebalanceSteals
    <2>7. QED BY <2>3, <2>4, <2>5, <2>6 DEF TypeOK
<1>3. CASE RebalanceSteals /\ dq[move.donor] = <<>>
    <2>1. BackgroundOK'
        BY <1>3, PassType DEF TypeOK, BackgroundOK, RebalanceSteals
    <2>2. QueuesOK' /\ ThreadsOK' /\ FuturesOK' /\ FlagsOK'
        BY <1>3 DEF TypeOK, QueuesOK, ThreadsOK, FuturesOK, FlagsOK, RebalanceSteals
    <2>3. QED BY <2>1, <2>2 DEF TypeOK
<1>4. ASSUME held[Rebalancer] # NoTask
      PROVE  held[Rebalancer] \in Tasks /\ move.donor \in Workers /\ move.recipient \in Workers
    BY <1>4 DEF TypeOK, ThreadsOK, BackgroundOK
<1>5. ASSUME held[Rebalancer] # NoTask, PushOrLose(move.donor, held[Rebalancer])
      PROVE  dq' \in [Workers -> Seq(Tasks)] /\ \A v \in Workers : Len(dq'[v]) <= Depth
    <2>1. CASE HasRoom(move.donor)
        BY <1>4, <1>5, <2>1, PushType DEF PushOrLose
    <2>2. CASE ~HasRoom(move.donor)
        BY <1>5, <2>2 DEF PushOrLose, TypeOK, QueuesOK
    <2>3. QED BY <2>1, <2>2
<1>6. ASSUME LetsGo(Rebalancer)
      PROVE  held' \in [Actors -> Tasks \cup {NoTask}] /\ held'[Rebalancer] = NoTask
             /\ \A w \in Workers : held'[w] = held[w]
    BY <1>6 DEF TypeOK, ThreadsOK, LetsGo
<1>7. CASE RebalanceSkips
    <2>1. dq' \in [Workers -> Seq(Tasks)] /\ \A v \in Workers : Len(dq'[v]) <= Depth
        BY <1>5, <1>7 DEF RebalanceSkips
    <2>2. QueuesOK'
        BY <1>7, <2>1 DEF TypeOK, QueuesOK, RebalanceSkips
    <2>3. ThreadsOK'
        BY <1>7, <1>6 DEF TypeOK, ThreadsOK, RebalanceSkips
    <2>4. BackgroundOK'
        BY <1>7, <1>6, PassType DEF TypeOK, BackgroundOK, RebalanceSkips
    <2>5. FuturesOK' /\ FlagsOK'
        BY <1>7 DEF TypeOK, FuturesOK, FlagsOK, RebalanceSkips
    <2>6. QED BY <2>2, <2>3, <2>4, <2>5 DEF TypeOK
<1>8. CASE RebalanceMoves
    <2>1. dq' \in [Workers -> Seq(Tasks)] /\ \A v \in Workers : Len(dq'[v]) <= Depth
        BY <1>4, <1>8, PushType DEF RebalanceMoves
    <2>2. QueuesOK'
        BY <1>8, <2>1 DEF TypeOK, QueuesOK, RebalanceMoves
    <2>3. ThreadsOK'
        BY <1>8, <1>6 DEF TypeOK, ThreadsOK, RebalanceMoves
    <2>4. BackgroundOK'
        BY <1>8, <1>6, PassType DEF TypeOK, BackgroundOK, RebalanceMoves
    <2>5. FuturesOK' /\ FlagsOK'
        BY <1>8 DEF TypeOK, FuturesOK, FlagsOK, RebalanceMoves
    <2>6. QED BY <2>2, <2>3, <2>4, <2>5 DEF TypeOK
<1>9. CASE RebalanceGivesUp
    <2>1. dq' \in [Workers -> Seq(Tasks)] /\ \A v \in Workers : Len(dq'[v]) <= Depth
        BY <1>5, <1>9 DEF RebalanceGivesUp
    <2>2. QueuesOK'
        BY <1>9, <2>1 DEF TypeOK, QueuesOK, RebalanceGivesUp
    <2>3. ThreadsOK'
        BY <1>9, <1>6 DEF TypeOK, ThreadsOK, RebalanceGivesUp
    <2>4. BackgroundOK'
        BY <1>9, <1>6, PassType DEF TypeOK, BackgroundOK, RebalanceGivesUp
    <2>5. FuturesOK' /\ FlagsOK'
        BY <1>9 DEF TypeOK, FuturesOK, FlagsOK, RebalanceGivesUp
    <2>6. QED BY <2>2, <2>3, <2>4, <2>5 DEF TypeOK
<1>10. CASE RebalanceWakes \/ RebalanceRests
    <2>1. BackgroundOK'
        <3>1. CASE RebalanceWakes
            BY <3>1 DEF TypeOK, BackgroundOK, RebalanceWakes
        <3>2. CASE RebalanceRests
            <4>1. /\ loads' = NoLoads /\ balancing' = FALSE /\ ~(move.left > 0)
                  /\ UNCHANGED <<held, checked, draining, move>>
                BY <3>2 DEF TypeOK, BackgroundOK, RebalanceRests
            <4>2. DOMAIN loads' = {}
                BY <4>1 DEF NoLoads
            <4>3. QED BY <4>1, <4>2 DEF TypeOK, BackgroundOK
        <3>3. QED BY <1>10, <3>1, <3>2
    <2>2. QueuesOK' /\ ThreadsOK' /\ FuturesOK' /\ FlagsOK'
        BY <1>10 DEF TypeOK, QueuesOK, ThreadsOK, FuturesOK, FlagsOK, RebalanceWakes, RebalanceRests
    <2>3. QED BY <2>1, <2>2 DEF TypeOK
<1>11. ASSUME NEW w \in Workers, RebalanceReads(w) PROVE TypeOK'
    <2>1. Len(dq[w]) \in Nat
        BY LenProperties DEF TypeOK, QueuesOK
    <2>2. DOMAIN loads' \subseteq Workers /\ \A v \in DOMAIN loads' : loads'[v] \in Nat
        BY <1>11, <2>1 DEF TypeOK, BackgroundOK, RebalanceReads
    <2>3. BackgroundOK'
        BY <1>11, <2>2 DEF TypeOK, BackgroundOK, RebalanceReads
    <2>4. QueuesOK' /\ ThreadsOK' /\ FuturesOK' /\ FlagsOK'
        BY <1>11 DEF TypeOK, QueuesOK, ThreadsOK, FuturesOK, FlagsOK, RebalanceReads
    <2>5. QED BY <2>3, <2>4 DEF TypeOK
<1>12. QED BY <1>1, <1>2, <1>3, <1>7, <1>8, <1>9, <1>10, <1>11 DEF RebalanceStep

\* The types hold in every reachable state: in particular a worker has a task
\* in its hands exactly while it checks or runs one, and no deque outgrows
\* _MAX_QUEUE_DEPTH.
THEOREM TypeCorrect == Spec => []TypeOK
<1>1. TypeOK /\ [Next]_vars => TypeOK'
    <2> SUFFICES ASSUME TypeOK, [Next]_vars PROVE TypeOK'
        OBVIOUS
    <2> USE DEF futures, flags, drainer, balancer
    <2>1. CASE UNCHANGED vars
        BY <2>1 DEF TypeOK, QueuesOK, ThreadsOK, BackgroundOK, FuturesOK, FlagsOK, vars
    <2>2. ASSUME NEW w \in Workers, StopWorker(w) PROVE TypeOK'
        BY <2>2 DEF TypeOK, QueuesOK, ThreadsOK, BackgroundOK, FuturesOK, FlagsOK, StopWorker
    <2>3. CASE Start
        <3>1. ThreadsOK'
            BY <2>3 DEF TypeOK, ThreadsOK, Start
        <3>2. QED BY <2>3, <3>1 DEF TypeOK, QueuesOK, BackgroundOK, FuturesOK, FlagsOK, Start
    <2>4. CASE Stop
        BY <2>4 DEF TypeOK, QueuesOK, ThreadsOK, BackgroundOK, FuturesOK, FlagsOK, Stop
    <2>5. QED BY <2>1, <2>2, <2>3, <2>4, ClientType, WorkerType, DrainType, RebalanceType DEF Next
<1>2. QED BY <1>1, InitType, PTL DEF Spec

-----------------------------------------------------------------------------
(* A task is in one place. *)

\* A thread with empty hands takes an end of a deque.
LEMMA TakesEnd ==
    ASSUME PlaceType, OnePlace, NEW a \in Actors, NEW w \in Workers, dq[w] # <<>>, held[a] = NoTask,
           \/ dq' = [dq EXCEPT ![w] = Tail(@)] /\ Grabs(a, Head(dq[w]))
           \/ dq' = [dq EXCEPT ![w] = Front(@)] /\ Grabs(a, Last(dq[w])),
           UNCHANGED <<fresh, gq>>
    PROVE  OnePlace'
<1>1. dq \in [Workers -> Seq(Tasks)]
    BY DEF PlaceType
<1>2. CASE dq' = [dq EXCEPT ![w] = Tail(@)] /\ Grabs(a, Head(dq[w]))
    <2>1. /\ Len(dq[w]) \in Nat \ {0} /\ Len(dq'[w]) = Len(dq[w]) - 1
          /\ Head(dq[w]) = dq[w][1]
          /\ \A i \in 1..Len(dq'[w]) : dq'[w][i] = dq[w][i + 1]
          /\ \A v \in Workers \ {w} : dq'[v] = dq[v]
        BY <1>1, <1>2, PopSlots
    <2>2. 1 \in 1..Len(dq[w]) /\ 1 \in {0, 1} /\ Grabs(a, dq[w][1])
        BY <1>2, <2>1
    <2>3. QED BY <2>1, <2>2, DequeToHand
<1>3. CASE dq' = [dq EXCEPT ![w] = Front(@)] /\ Grabs(a, Last(dq[w]))
    <2> DEFINE n == Len(dq[w])
    <2>1. /\ n \in Nat \ {0} /\ Len(dq'[w]) = n - 1
          /\ Last(dq[w]) = dq[w][n]
          /\ \A i \in 1..Len(dq'[w]) : dq'[w][i] = dq[w][i]
          /\ \A v \in Workers \ {w} : dq'[v] = dq[v]
        BY <1>1, <1>3, StealSlots
    <2>2. /\ n \in 1..Len(dq[w]) /\ 0 \in {0, 1} /\ Grabs(a, dq[w][n])
          /\ \A i \in 1..Len(dq'[w]) : dq'[w][i] = dq[w][i + 0]
        BY <1>3, <2>1
    <2>3. QED BY <2>1, <2>2, DequeToHand
<1>4. QED BY <1>2, <1>3

\* A thread puts its task back on a deque without looking at the answer.
LEMMA PushesOrLoses ==
    ASSUME PlaceType, OnePlace, NEW a \in Actors, NEW w \in Workers, held[a] # NoTask,
           PushOrLose(w, held[a]), LetsGo(a), UNCHANGED <<fresh, gq>>
    PROVE  OnePlace'
<1>1. CASE HasRoom(w)
    BY <1>1, HandToDeque DEF PushOrLose
<1>2. CASE ~HasRoom(w)
    <2>1. held[a] \in Tasks
        BY DEF PlaceType
    <2>2. UNCHANGED dq
        BY <1>2 DEF PushOrLose
    <2>3. QED BY <2>1, <2>2, OutsideDeques
<1>3. QED BY <1>1, <1>2

LEMMA ClientPlaces ==
    ASSUME PlaceType, OnePlace, NEW c \in Clients,
           \/ \E t \in Tasks : Submit(c, t) \/ CancelChecks(c, t)
           \/ \E w \in Workers : SubmitPushes(c, w) \/ SubmitOverflows(c, w)
           \/ CancelSets(c)
    PROVE  OnePlace'
<1>0. c \in Actors /\ (held[c] # NoTask => held[c] \in Tasks)
    BY ActorSorts DEF PlaceType
<1>1. ASSUME NEW t \in Tasks, Submit(c, t) PROVE OnePlace'
    BY <1>0, <1>1, OutsideDeques DEF Submit, ClientIdle
<1>2. ASSUME NEW t \in Tasks, CancelChecks(c, t) PROVE OnePlace'
    BY <1>2, PlacesUnchanged DEF CancelChecks
<1>3. ASSUME NEW w \in Workers, SubmitPushes(c, w) PROVE OnePlace'
    BY <1>0, <1>3, HandToDeque DEF SubmitPushes
<1>4. ASSUME NEW w \in Workers, SubmitOverflows(c, w) PROVE OnePlace'
    BY <1>0, <1>4, OutsideDeques DEF SubmitOverflows
<1>5. ASSUME CancelSets(c) PROVE OnePlace'
    BY <1>5, PlacesUnchanged DEF CancelSets
<1>6. QED BY <1>1, <1>2, <1>3, <1>4, <1>5

LEMMA WorkerPlaces ==
    ASSUME PlaceType, OnePlace, victim \in [Workers -> Workers], NEW w \in Workers, WorkerStep(w)
    PROVE  OnePlace'
<1>0. w \in Actors /\ (held[w] # NoTask => held[w] \in Tasks)
    BY ActorSorts DEF PlaceType
<1>1. ASSUME pc[w] \in {"loop", "grab"} PROVE held[w] = NoTask
    BY <1>1 DEF PlaceType
<1>2. ASSUME pc[w] \in {"check", "begin", "run"} PROVE held[w] \in Tasks
    BY <1>0, <1>2 DEF PlaceType
<1>3. CASE PopLocal(w) /\ dq[w] # <<>>
    BY <1>0, <1>1, <1>3, TakesEnd DEF PopLocal
<1>4. CASE PopLocal(w) /\ dq[w] = <<>>
    BY <1>4, PlacesUnchanged DEF PopLocal
<1>5. CASE FindsNoVictim(w) \/ Begins(w) \/ Execute(w) \/ Leaves(w)
    BY <1>5, PlacesUnchanged DEF FindsNoVictim, Begins, Execute, Leaves
<1>6. ASSUME NEW v \in Workers, ChoosesVictim(w, v) PROVE OnePlace'
    BY <1>6, PlacesUnchanged DEF ChoosesVictim
<1>7. CASE Steal(w) /\ dq[victim[w]] # <<>>
    BY <1>0, <1>1, <1>7, TakesEnd DEF Steal
<1>8. CASE Steal(w) /\ dq[victim[w]] = <<>>
    BY <1>8, PlacesUnchanged DEF Steal
<1>9. CASE SkipsDone(w) \/ Finish(w) \/ Dies(w)
    <2>1. LetsGo(w) /\ UNCHANGED <<fresh, dq, gq>> /\ held[w] \in Tasks
        BY <1>2, <1>9 DEF SkipsDone, Finish, Dies
    <2>2. QED BY <1>0, <2>1, OutsideDeques
<1>10. QED BY <1>3, <1>4, <1>5, <1>6, <1>7, <1>8, <1>9 DEF WorkerStep

LEMMA DrainerPlaces ==
    ASSUME PlaceType, OnePlace, DrainStep
    PROVE  OnePlace'
<1>0. Drainer \in Actors /\ (held[Drainer] # NoTask => held[Drainer] \in Tasks)
    BY ActorSorts DEF PlaceType
<1>1. ASSUME NEW t \in gq, DrainPops(t) PROVE OnePlace'
    <2>1. t \in Tasks
        BY DEF PlaceType
    <2>2. QED BY <1>0, <1>1, <2>1, OutsideDeques DEF DrainPops
<1>2. CASE DrainPauses \/ DrainWakes
    BY <1>2, PlacesUnchanged DEF DrainPauses, DrainWakes
<1>3. CASE DrainChecks /\ event[held[Drainer]]
    BY <1>0, <1>3, OutsideDeques DEF DrainChecks
<1>4. CASE DrainChecks /\ ~event[held[Drainer]]
    BY <1>4, PlacesUnchanged DEF DrainChecks
<1>5. ASSUME NEW w \in Workers, DrainPlaces(w) PROVE OnePlace'
    BY <1>0, <1>5, HandToDeque DEF DrainPlaces
<1>6. ASSUME NEW w \in Workers, DrainPutsBack(w) PROVE OnePlace'
    BY <1>0, <1>6, OutsideDeques DEF DrainPutsBack
<1>7. QED BY <1>1, <1>2, <1>3, <1>4, <1>5, <1>6 DEF DrainStep

LEMMA RebalancePlaces ==
    ASSUME PlaceType, OnePlace, RebalanceStep
    PROVE  OnePlace'
<1>0. /\ Rebalancer \in Actors
      /\ held[Rebalancer] # NoTask =>
            held[Rebalancer] \in Tasks /\ move.donor \in Workers /\ move.recipient \in Workers
      /\ move.left > 0 => move.donor \in Workers
    BY ActorSorts DEF PlaceType
<1>1. ASSUME \/ \E d, r \in Workers : RebalanceBegins(d, r)
             \/ \E w \in Workers : RebalanceReads(w)
             \/ RebalanceWakes \/ RebalanceRests
      PROVE  OnePlace'
    BY <1>1, PlacesUnchanged DEF RebalanceBegins, RebalanceReads, RebalanceWakes, RebalanceRests
<1>2. CASE RebalanceSteals /\ dq[move.donor] # <<>>
    BY <1>0, <1>2, TakesEnd DEF RebalanceSteals
<1>3. CASE RebalanceSteals /\ dq[move.donor] = <<>>
    BY <1>3, PlacesUnchanged DEF RebalanceSteals
<1>4. CASE RebalanceSkips
    BY <1>0, <1>4, PushesOrLoses DEF RebalanceSkips
<1>5. CASE RebalanceMoves
    BY <1>0, <1>5, HandToDeque DEF RebalanceMoves
<1>6. CASE RebalanceGivesUp
    BY <1>0, <1>6, PushesOrLoses DEF RebalanceGivesUp
<1>7. QED BY <1>1, <1>2, <1>3, <1>4, <1>5, <1>6 DEF RebalanceStep

LEMMA PlacesInit == Init => OnePlace
BY SchedulerAssumption
DEF Init, OnePlace, DequesDisjoint, HandsDisjoint, KindsDisjoint, FreshUnplaced,
    Placed, InDeque, InHand

\* No step of any thread leaves a task in two places: two slots, two threads'
\* hands, a slot and the overflow queue, or anywhere before it was submitted.
THEOREM OnePlaceAlways == Spec => []OnePlace
<1>1. Init => OnePlace
    BY PlacesInit
<1>2. TypeOK /\ OnePlace /\ [Next]_vars => OnePlace'
    <2> SUFFICES ASSUME TypeOK, OnePlace, [Next]_vars PROVE OnePlace'
        OBVIOUS
    <2>1. PlaceType /\ victim \in [Workers -> Workers]
        BY PlaceTypeOfTypeOK DEF TypeOK, ThreadsOK
    <2>2. CASE UNCHANGED vars
        BY <2>2, PlacesUnchanged DEF vars
    <2>3. ASSUME NEW w \in Workers, StopWorker(w) PROVE OnePlace'
        BY <2>3, PlacesUnchanged DEF StopWorker
    <2>4. CASE Start \/ Stop
        BY <2>4, PlacesUnchanged DEF Start, Stop
    <2>5. QED BY <2>1, <2>2, <2>3, <2>4, ClientPlaces, WorkerPlaces, DrainerPlaces, RebalancePlaces
              DEF Next
<1>3. QED BY <1>1, <1>2, TypeCorrect, PTL DEF Spec

-----------------------------------------------------------------------------
(* A task is called at most once. *)

\* t is somewhere from which a worker may still come to call it.
Uncalled(t) ==
    \/ t \in fresh \/ t \in gq \/ InDeque(t)
    \/ \E a \in Actors : held[a] = t /\ ~(a \in Workers /\ pc[a] = "run")

\* What RunsOnce rests on: a task that was called is in nobody's reach.
CalledOnce == \A t \in Tasks : runs[t] <= 1 /\ (Uncalled(t) => runs[t] = 0)

Backwards == \A t \in Tasks : Uncalled(t)' => Uncalled(t)

LEMMA PushReach ==
    ASSUME PlaceType, NEW w \in Workers, NEW t \in Tasks, PushLocal(w, t)
    PROVE  \A x \in Tasks : InDeque(x)' => InDeque(x) \/ x = t
<1>1. dq \in [Workers -> Seq(Tasks)] /\ Len(dq[w]) \in Nat
    BY LenProperties DEF PlaceType
<1>2. /\ Len(dq'[w]) = Len(dq[w]) + 1
      /\ dq'[w][1] = t
      /\ \A i \in 2..Len(dq'[w]) : dq'[w][i] = dq[w][i - 1]
      /\ \A v \in Workers \ {w} : dq'[v] = dq[v]
    BY <1>1, PushSlots
<1>3. SUFFICES ASSUME NEW x \in Tasks, NEW v \in Workers, NEW i \in 1..Len(dq'[v]), dq'[v][i] = x
               PROVE  InDeque(x) \/ x = t
    BY DEF InDeque
<1>4. CASE v # w
    BY <1>2, <1>3, <1>4 DEF InDeque
<1>5. CASE v = w /\ i # 1
    <2>1. i \in 2..Len(dq'[w]) /\ i - 1 \in 1..Len(dq[w])
        BY <1>1, <1>2, <1>5
    <2>2. dq[w][i - 1] = x
        BY <1>2, <1>3, <1>5, <2>1
    <2>3. QED BY <2>1, <2>2 DEF InDeque
<1>6. CASE v = w /\ i = 1
    BY <1>2, <1>3, <1>6
<1>7. QED BY <1>4, <1>5, <1>6

LEMMA RemoveReach ==
    ASSUME PlaceType, NEW w \in Workers, dq[w] # <<>>,
           dq' = [dq EXCEPT ![w] = Tail(@)] \/ dq' = [dq EXCEPT ![w] = Front(@)]
    PROVE  /\ \A x \in Tasks : InDeque(x)' => InDeque(x)
           /\ Head(dq[w]) \in Tasks /\ InDeque(Head(dq[w]))
           /\ Last(dq[w]) \in Tasks /\ InDeque(Last(dq[w]))
<1>1. dq \in [Workers -> Seq(Tasks)]
    BY DEF PlaceType
<1>2. /\ Len(dq[w]) \in Nat \ {0} /\ Head(dq[w]) = dq[w][1] /\ Head(dq[w]) \in Tasks
      /\ Last(dq[w]) = dq[w][Len(dq[w])]
    BY <1>1, EmptySeq, HeadTailProperties DEF Last
<1>3. 1 \in 1..Len(dq[w]) /\ Len(dq[w]) \in 1..Len(dq[w])
    BY <1>2
<1>4. Last(dq[w]) \in Tasks
    BY <1>1, <1>2, <1>3, ElementOfSeq
<1>5. InDeque(Head(dq[w])) /\ InDeque(Last(dq[w]))
    BY <1>2, <1>3 DEF InDeque
<1>6. PICK shift \in {0, 1} :
          /\ Len(dq'[w]) = Len(dq[w]) - 1
          /\ \A i \in 1..Len(dq'[w]) : dq'[w][i] = dq[w][i + shift]
          /\ \A v \in Workers \ {w} : dq'[v] = dq[v]
    <2>1. CASE dq' = [dq EXCEPT ![w] = Tail(@)]
        <3>1. /\ Len(dq'[w]) = Len(dq[w]) - 1
              /\ \A i \in 1..Len(dq'[w]) : dq'[w][i] = dq[w][i + 1]
              /\ \A v \in Workers \ {w} : dq'[v] = dq[v]
            BY <1>1, <2>1, PopSlots
        <3>2. QED BY <3>1
    <2>2. CASE dq' = [dq EXCEPT ![w] = Front(@)]
        <3>1. /\ Len(dq'[w]) = Len(dq[w]) - 1
              /\ \A i \in 1..Len(dq'[w]) : dq'[w][i] = dq[w][i]
              /\ \A v \in Workers \ {w} : dq'[v] = dq[v]
            BY <1>1, <2>2, StealSlots
        <3>2. \A i \in 1..Len(dq'[w]) : dq'[w][i] = dq[w][i + 0]
            BY <3>1
        <3>3. QED BY <3>1, <3>2
    <2>3. QED BY <2>1, <2>2
<1>7. ASSUME NEW x \in Tasks, NEW v \in Workers, NEW i \in 1..Len(dq'[v]), dq'[v][i] = x
      PROVE  InDeque(x)
    <2>1. CASE v # w
        BY <1>6, <1>7, <2>1 DEF InDeque
    <2>2. CASE v = w
        <3>1. i + shift \in 1..Len(dq[w]) /\ dq[w][i + shift] = x
            BY <1>2, <1>6, <1>7, <2>2
        <3>2. QED BY <3>1 DEF InDeque
    <2>3. QED BY <2>1, <2>2
<1>8. QED BY <1>2, <1>4, <1>5, <1>7 DEF InDeque

LEMMA SameDeques ==
    ASSUME UNCHANGED dq PROVE \A x \in Tasks : InDeque(x)' <=> InDeque(x)
BY DEF InDeque

\* A thread that is not calling its task lets go of it, and the task is in
\* the queues afterwards only if it was this one or was there before.
LEMMA LetsGoBackwards ==
    ASSUME PlaceType, NEW a \in Actors, held[a] \in Tasks, LetsGo(a),
           ~(a \in Workers /\ pc[a] = "run"),
           \A v \in Workers \ {a} : pc'[v] = pc[v], UNCHANGED fresh,
           \A x \in Tasks : x \in gq' => x \in gq \/ x = held[a],
           \A x \in Tasks : InDeque(x)' => InDeque(x) \/ x = held[a]
    PROVE  Backwards
<1>1. held'[a] = NoTask /\ \A b \in Actors \ {a} : held'[b] = held[b]
    BY DEF LetsGo, PlaceType
<1>2. NoTask \notin Tasks
    BY SchedulerAssumption
<1>3. QED BY <1>1, <1>2 DEF Backwards, Uncalled

\* A worker lets go of the task it called.
LEMMA EndsBackwards ==
    ASSUME PlaceType, NEW a \in Actors, LetsGo(a),
           \A v \in Workers \ {a} : pc'[v] = pc[v], UNCHANGED <<fresh, dq, gq>>
    PROVE  Backwards
<1>1. held'[a] = NoTask /\ \A b \in Actors \ {a} : held'[b] = held[b]
    BY DEF LetsGo, PlaceType
<1>2. NoTask \notin Tasks
    BY SchedulerAssumption
<1>3. QED BY <1>1, <1>2, SameDeques DEF Backwards, Uncalled

\* A thread takes a task that was in one of the queues or not yet submitted.
LEMMA GrabsBackwards ==
    ASSUME PlaceType, NEW a \in Actors, NEW t \in Tasks, Grabs(a, t),
           t \in fresh \/ t \in gq \/ InDeque(t),
           \A v \in Workers \ {a} : pc'[v] = pc[v],
           fresh' \subseteq fresh, gq' \subseteq gq,
           \A x \in Tasks : InDeque(x)' => InDeque(x)
    PROVE  Backwards
<1>1. held'[a] = t /\ \A b \in Actors \ {a} : held'[b] = held[b]
    BY DEF Grabs, PlaceType
<1>2. QED BY <1>1 DEF Backwards, Uncalled

\* A worker with empty hands moves on in its loop, or nobody moves.
LEMMA StandsBackwards ==
    ASSUME PlaceType, NEW w \in Workers, pc[w] # "run",
           \A v \in Workers \ {w} : pc'[v] = pc[v], UNCHANGED <<fresh, dq, gq, held>>
    PROVE  Backwards
BY SameDeques DEF Backwards, Uncalled

LEMMA NothingMovesBackwards ==
    ASSUME UNCHANGED <<fresh, dq, gq, held, pc>> PROVE Backwards
BY SameDeques DEF Backwards, Uncalled

LEMMA BackwardsKeeps ==
    ASSUME CalledOnce, Backwards, UNCHANGED runs PROVE CalledOnce'
BY DEF CalledOnce, Backwards

LEMMA ClientCalls ==
    ASSUME PlaceType, CalledOnce, NEW c \in Clients,
           \/ \E t \in Tasks : Submit(c, t) \/ CancelChecks(c, t)
           \/ \E w \in Workers : SubmitPushes(c, w) \/ SubmitOverflows(c, w)
           \/ CancelSets(c)
    PROVE  CalledOnce'
<1> USE DEF futures
<1>0. c \in Actors /\ c \notin Workers /\ (held[c] # NoTask => held[c] \in Tasks)
    BY ActorSorts DEF PlaceType
<1>1. ASSUME NEW t \in Tasks, Submit(c, t) PROVE CalledOnce'
    BY <1>0, <1>1, SameDeques, GrabsBackwards, BackwardsKeeps DEF Submit
<1>2. ASSUME NEW t \in Tasks, CancelChecks(c, t) PROVE CalledOnce'
    BY <1>2, NothingMovesBackwards, BackwardsKeeps DEF CancelChecks
<1>3. ASSUME NEW w \in Workers, SubmitPushes(c, w) PROVE CalledOnce'
    BY <1>0, <1>3, PushReach, LetsGoBackwards, BackwardsKeeps DEF SubmitPushes
<1>4. ASSUME NEW w \in Workers, SubmitOverflows(c, w) PROVE CalledOnce'
    BY <1>0, <1>4, SameDeques, LetsGoBackwards, BackwardsKeeps DEF SubmitOverflows
<1>5. ASSUME CancelSets(c) PROVE CalledOnce'
    BY <1>5, NothingMovesBackwards, BackwardsKeeps DEF CancelSets
<1>6. QED BY <1>1, <1>2, <1>3, <1>4, <1>5

LEMMA WorkerCalls ==
    ASSUME TypeOK, PlaceType, OnePlace, CalledOnce, NEW w \in Workers, WorkerStep(w)
    PROVE  CalledOnce'
<1> USE DEF futures
<1>0. /\ w \in Actors /\ (held[w] # NoTask => held[w] \in Tasks)
      /\ pc[w] \in {"check", "begin", "run"} => held[w] \in Tasks
      /\ victim[w] \in Workers
    BY ActorSorts DEF PlaceType, TypeOK, ThreadsOK
<1>1. ASSUME NEW label, Goto(w, label)
      PROVE  pc'[w] = label /\ \A v \in Workers \ {w} : pc'[v] = pc[v]
    BY <1>1 DEF Goto, TypeOK, ThreadsOK
<1>2. CASE PopLocal(w) /\ dq[w] # <<>>
    <2>1. /\ \A x \in Tasks : InDeque(x)' => InDeque(x)
          /\ Head(dq[w]) \in Tasks /\ InDeque(Head(dq[w]))
        BY <1>2, RemoveReach DEF PopLocal
    <2>2. \A v \in Workers \ {w} : pc'[v] = pc[v]
        BY <1>1, <1>2 DEF PopLocal
    <2>3. Backwards
        BY <1>0, <1>2, <2>1, <2>2, GrabsBackwards DEF PopLocal
    <2>4. QED BY <1>2, <2>3, BackwardsKeeps DEF PopLocal
<1>3. CASE Steal(w) /\ dq[victim[w]] # <<>>
    <2> DEFINE v == victim[w]
    <2>1. /\ \A x \in Tasks : InDeque(x)' => InDeque(x)
          /\ Last(dq[v]) \in Tasks /\ InDeque(Last(dq[v]))
        BY <1>0, <1>3, RemoveReach DEF Steal
    <2>2. \A u \in Workers \ {w} : pc'[u] = pc[u]
        BY <1>1, <1>3 DEF Steal
    <2>3. Backwards
        BY <1>0, <1>3, <2>1, <2>2, GrabsBackwards DEF Steal
    <2>4. QED BY <1>3, <2>3, BackwardsKeeps DEF Steal
<1>4. ASSUME \/ PopLocal(w) /\ dq[w] = <<>>
             \/ Steal(w) /\ dq[victim[w]] = <<>>
             \/ FindsNoVictim(w) \/ Begins(w) \/ Leaves(w)
             \/ \E v \in Workers : ChoosesVictim(w, v)
      PROVE  CalledOnce'
    <2>1. /\ pc[w] # "run" /\ \A v \in Workers \ {w} : pc'[v] = pc[v]
          /\ UNCHANGED <<fresh, dq, gq, held, runs>>
        BY <1>1, <1>4 DEF PopLocal, Steal, FindsNoVictim, Begins, Leaves, ChoosesVictim
    <2>2. QED BY <2>1, StandsBackwards, BackwardsKeeps
<1>5. CASE SkipsDone(w) \/ Finish(w) \/ Dies(w)
    <2>1. /\ LetsGo(w) /\ \A v \in Workers \ {w} : pc'[v] = pc[v]
          /\ UNCHANGED <<fresh, dq, gq, runs>>
        BY <1>1, <1>5 DEF SkipsDone, Finish, Dies
    <2>2. QED BY <1>0, <2>1, EndsBackwards, BackwardsKeeps
<1>6. CASE Execute(w)
    <2> DEFINE t == held[w]
    <2>1. /\ t \in Tasks /\ pc[w] = "begin" /\ pc'[w] = "run"
          /\ \A v \in Workers \ {w} : pc'[v] = pc[v]
          /\ UNCHANGED <<fresh, dq, gq, held>>
        BY <1>0, <1>1, <1>6 DEF Execute
    <2>2. Uncalled(t)
        BY <1>0, <2>1 DEF Uncalled
    <2>3. runs[t] = 0 /\ runs'[t] = 1 /\ \A x \in Tasks \ {t} : runs'[x] = runs[x]
        BY <1>6, <2>1, <2>2 DEF Execute, CalledOnce, TypeOK, FuturesOK
    <2>4. InHand(t) /\ \A b \in Actors : held[b] = t => b = w
        BY <1>0, <2>1, SchedulerAssumption DEF InHand, OnePlace, HandsDisjoint
    <2>5. ~(t \in fresh \/ t \in gq \/ InDeque(t))
        BY <2>1, <2>4 DEF OnePlace, KindsDisjoint, FreshUnplaced, Placed
    <2>6. \A x \in Tasks : Uncalled(x)' => Uncalled(x) /\ x # t
        BY <1>0, <2>1, <2>4, <2>5, SameDeques DEF Uncalled
    <2> HIDE DEF t
    <2>7. QED BY <2>1, <2>3, <2>6 DEF CalledOnce
<1>7. QED BY <1>2, <1>3, <1>4, <1>5, <1>6 DEF WorkerStep

LEMMA DrainCalls ==
    ASSUME PlaceType, CalledOnce, DrainStep
    PROVE  CalledOnce'
<1> USE DEF futures
<1>0. Drainer \in Actors /\ Drainer \notin Workers /\ (held[Drainer] # NoTask => held[Drainer] \in Tasks)
    BY ActorSorts DEF PlaceType
<1>1. ASSUME NEW t \in gq, DrainPops(t) PROVE CalledOnce'
    <2>1. t \in Tasks
        BY DEF PlaceType
    <2>2. QED BY <1>0, <1>1, <2>1, SameDeques, GrabsBackwards, BackwardsKeeps DEF DrainPops
<1>2. CASE DrainPauses \/ DrainWakes \/ (DrainChecks /\ ~event[held[Drainer]])
    BY <1>2, NothingMovesBackwards, BackwardsKeeps DEF DrainPauses, DrainWakes, DrainChecks
<1>3. CASE DrainChecks /\ event[held[Drainer]]
    BY <1>0, <1>3, EndsBackwards, BackwardsKeeps DEF DrainChecks
<1>4. ASSUME NEW w \in Workers, DrainPlaces(w) PROVE CalledOnce'
    BY <1>0, <1>4, PushReach, LetsGoBackwards, BackwardsKeeps DEF DrainPlaces
<1>5. ASSUME NEW w \in Workers, DrainPutsBack(w) PROVE CalledOnce'
    BY <1>0, <1>5, SameDeques, LetsGoBackwards, BackwardsKeeps DEF DrainPutsBack
<1>6. QED BY <1>1, <1>2, <1>3, <1>4, <1>5 DEF DrainStep

LEMMA RebalanceCalls ==
    ASSUME PlaceType, CalledOnce, RebalanceStep
    PROVE  CalledOnce'
<1> USE DEF futures
<1>0. /\ Rebalancer \in Actors /\ Rebalancer \notin Workers
      /\ held[Rebalancer] # NoTask =>
            held[Rebalancer] \in Tasks /\ move.donor \in Workers /\ move.recipient \in Workers
      /\ move.left > 0 => move.donor \in Workers
    BY ActorSorts DEF PlaceType
<1>1. ASSUME \/ \E d, r \in Workers : RebalanceBegins(d, r)
             \/ \E w \in Workers : RebalanceReads(w)
             \/ RebalanceWakes \/ RebalanceRests
      PROVE  CalledOnce'
    BY <1>1, NothingMovesBackwards, BackwardsKeeps
    DEF RebalanceBegins, RebalanceReads, RebalanceWakes, RebalanceRests
<1>2. CASE RebalanceSteals /\ dq[move.donor] # <<>>
    <2>1. /\ \A x \in Tasks : InDeque(x)' => InDeque(x)
          /\ Last(dq[move.donor]) \in Tasks /\ InDeque(Last(dq[move.donor]))
        BY <1>0, <1>2, RemoveReach DEF RebalanceSteals
    <2>2. QED BY <1>0, <1>2, <2>1, GrabsBackwards, BackwardsKeeps DEF RebalanceSteals
<1>3. CASE RebalanceSteals /\ dq[move.donor] = <<>>
    BY <1>3, NothingMovesBackwards, BackwardsKeeps DEF RebalanceSteals
<1>4. ASSUME NEW w \in Workers, held[Rebalancer] # NoTask, LetsGo(Rebalancer),
             PushLocal(w, held[Rebalancer]) \/ UNCHANGED dq, UNCHANGED <<fresh, gq, pc, runs>>
      PROVE  CalledOnce'
    <2>1. \A x \in Tasks : InDeque(x)' => InDeque(x) \/ x = held[Rebalancer]
        BY <1>0, <1>4, PushReach, SameDeques
    <2>2. QED BY <1>0, <1>4, <2>1, LetsGoBackwards, BackwardsKeeps
<1>5. CASE RebalanceSkips
    BY <1>0, <1>4, <1>5 DEF RebalanceSkips, PushOrLose
<1>6. CASE RebalanceMoves
    BY <1>0, <1>4, <1>6 DEF RebalanceMoves
<1>7. CASE RebalanceGivesUp
    BY <1>0, <1>4, <1>7 DEF RebalanceGivesUp, PushOrLose
<1>8. QED BY <1>1, <1>2, <1>3, <1>5, <1>6, <1>7 DEF RebalanceStep

LEMMA CalledOnceAlways == Spec => []CalledOnce
<1>1. Init => CalledOnce
    <2>1. ASSUME Init, NEW t \in Tasks PROVE runs[t] = 0
        BY <2>1 DEF Init
    <2>2. QED BY <2>1 DEF CalledOnce
<1>2. TypeOK /\ OnePlace /\ CalledOnce /\ [Next]_vars => CalledOnce'
    <2> SUFFICES ASSUME TypeOK, OnePlace, CalledOnce, [Next]_vars PROVE CalledOnce'
        OBVIOUS
    <2>1. PlaceType
        BY PlaceTypeOfTypeOK
    <2>2. CASE UNCHANGED vars
        BY <2>2, NothingMovesBackwards, BackwardsKeeps DEF vars, futures
    <2>3. ASSUME NEW w \in Workers, StopWorker(w) PROVE CalledOnce'
        BY <2>3, NothingMovesBackwards, BackwardsKeeps DEF StopWorker, futures
    <2>4. CASE Stop
        BY <2>4, NothingMovesBackwards, BackwardsKeeps DEF Stop, futures
    <2>5. CASE Start
        <3>1. \A w \in Workers : held[w] = NoTask
            BY <2>1, <2>5 DEF Start, TypeOK, ThreadsOK
        <3>2. Backwards
            BY <2>5, <3>1, SameDeques, SchedulerAssumption DEF Start, Backwards, Uncalled
        <3>3. QED BY <2>5, <3>2, BackwardsKeeps DEF Start, futures
    <2>6. QED BY <2>1, <2>2, <2>3, <2>4, <2>5, ClientCalls, WorkerCalls, DrainCalls, RebalanceCalls
              DEF Next
<1>3. QED BY <1>1, <1>2, TypeCorrect, OnePlaceAlways, PTL DEF Spec

\* No function of a task is called twice, whatever is stolen, migrated,
\* drained, put back or cancelled in between.
THEOREM RunsOnceAlways == Spec => []RunsOnce
<1>1. CalledOnce => RunsOnce
    BY DEF CalledOnce, RunsOnce
<1>2. QED BY <1>1, CalledOnceAlways, PTL

-----------------------------------------------------------------------------
(***************************************************************************)
(* The refinement of TaskLifecycle.  A step of a thread moves at most one  *)
(* task, so it is enough to see what it does to the life of that one.      *)
(***************************************************************************)
LifeStep == [Lifecycle!Next]_(Lifecycle!vars)

\* A task that runs was called, and only what was submitted is cancelled.
LifeInv ==
    /\ \A w \in Workers : pc[w] = "run" => runs[held[w]] = 1
    /\ \A c \in Clients : cancelling[c] # NoTask => cancelling[c] \notin fresh

\* Nothing a task's life is read from changes for t.
Rests(t) ==
    /\ (t \in fresh)' <=> t \in fresh
    /\ Placed(t)' <=> Placed(t)
    /\ Running(t)' <=> Running(t)
    /\ Taken(t)' <=> Taken(t)
    /\ event'[t] = event[t]
    /\ runs'[t] = runs[t]

\* What the other lemmas need of a state, and of the one after it.
Known == TypeOK /\ PlaceType /\ OnePlace /\ CalledOnce /\ LifeInv

\* The six lives of a task, before and after a step.
LEMMA LifeIs ==
    ASSUME PlaceType, OnePlace, NEW t \in Tasks
    PROVE  /\ t \in fresh => Life(t) = "new"
           /\ Taken(t) => Life(t) = "taken"
           /\ Running(t) => Life(t) = "running"
           /\ Waits(t) => Life(t) = "pending"
           /\ ~Placed(t) /\ t \notin fresh /\ (event[t] \/ runs[t] > 0) => Life(t) = "ended"
           /\ ~Placed(t) /\ t \notin fresh /\ ~event[t] /\ runs[t] = 0 => Life(t) = "lost"
<1>1. Running(t) \/ Taken(t) => Placed(t)
    BY ActorSorts DEF Running, Taken, At, Placed, InHand
<1>2. Placed(t) => t \notin fresh
    BY DEF OnePlace, FreshUnplaced
<1>3. ~(Running(t) /\ Taken(t))
    BY ActorSorts, SchedulerAssumption DEF Running, Taken, At, OnePlace, HandsDisjoint
<1>4. QED BY <1>1, <1>2, <1>3 DEF Life, Waits

LEMMA LifeIsNext ==
    ASSUME OnePlace', NEW t \in Tasks
    PROVE  /\ (t \in fresh)' => Life(t)' = "new"
           /\ Taken(t)' => Life(t)' = "taken"
           /\ Running(t)' => Life(t)' = "running"
           /\ Waits(t)' => Life(t)' = "pending"
           /\ ~Placed(t)' /\ (t \notin fresh)' /\ (event'[t] \/ runs'[t] > 0) => Life(t)' = "ended"
           /\ ~Placed(t)' /\ (t \notin fresh)' /\ ~event'[t] /\ runs'[t] = 0 => Life(t)' = "lost"
<1>1. (Running(t) \/ Taken(t))' => Placed(t)'
    BY ActorSorts DEF Running, Taken, At, Placed, InHand
<1>2. Placed(t)' => (t \notin fresh)'
    BY DEF OnePlace, FreshUnplaced
<1>3. ~(Running(t)' /\ Taken(t)')
    BY ActorSorts, SchedulerAssumption DEF Running, Taken, At, OnePlace, HandsDisjoint
<1>4. QED BY <1>1, <1>2, <1>3 DEF Life, Waits

LEMMA RestsKeepsLife ==
    ASSUME Known, OnePlace', NEW t \in Tasks, Rests(t) PROVE Life(t)' = Life(t)
<1>1. PlaceType /\ OnePlace /\ runs[t] \in Nat
    BY DEF Known, TypeOK, FuturesOK
<1>2. Running(t) \/ Taken(t) => Placed(t)
    BY <1>1, ActorSorts DEF Running, Taken, At, Placed, InHand
<1>3. CASE t \in fresh
    BY <1>1, <1>3, LifeIs, LifeIsNext DEF Rests
<1>4. CASE Running(t) \/ Taken(t)
    BY <1>1, <1>4, LifeIs, LifeIsNext DEF Rests
<1>5. CASE Waits(t)
    <2>1. Waits(t)'
        BY <1>5 DEF Rests, Waits
    <2>2. QED BY <1>1, <1>5, <2>1, LifeIs, LifeIsNext
<1>6. CASE ~Placed(t) /\ t \notin fresh
    <2>1. CASE event[t]
        <3>1. Life(t) = "ended"
            BY <1>1, <1>6, <2>1, LifeIs
        <3>2. event'[t] /\ ~Placed(t)' /\ (t \notin fresh)'
            BY <1>6, <2>1 DEF Rests
        <3>3. Life(t)' = "ended"
            BY <3>2, LifeIsNext
        <3>4. QED BY <3>1, <3>3
    <2>2. CASE ~event[t] /\ runs[t] > 0
        BY <1>1, <1>6, <2>2, LifeIs, LifeIsNext DEF Rests
    <2>3. CASE ~event[t] /\ runs[t] = 0
        BY <1>1, <1>6, <2>3, LifeIs, LifeIsNext DEF Rests
    <2>4. QED BY <1>1, <2>1, <2>2, <2>3
<1>7. QED BY <1>2, <1>3, <1>4, <1>5, <1>6 DEF Waits

\* A change of one task's life is a step of TaskLifecycle.
LEMMA StandIsStep ==
    ASSUME \A x \in Tasks : Life(x)' = Life(x), UNCHANGED event
    PROVE  LifeStep
BY DEF LifeStep, Lifecycle!vars

LEMMA MoveIsStep ==
    ASSUME NEW t \in Tasks, \A x \in Tasks \ {t} : Life(x)' = Life(x), UNCHANGED event,
           \/ Life(t) = "new" /\ Life(t)' = "pending"
           \/ Life(t) = "pending" /\ Life(t)' = "taken" /\ ~event[t]
           \/ Life(t) = "taken" /\ Life(t)' = "running"
           \/ Life(t) = "pending" /\ Life(t)' = "ended" /\ event[t]
           \/ Life(t) = "pending" /\ Life(t)' = "lost" /\ ~event[t]
           \/ Life(t) = "running" /\ Life(t)' = "ended" /\ t \in Exits
    PROVE  LifeStep
<1> DEFINE life == [x \in Tasks |-> Life(x)]
<1>1. /\ life[t] = Life(t)
      /\ life' = [life EXCEPT ![t] = Life(t)']
    OBVIOUS
<1>2. Lifecycle!Next
    BY <1>1 DEF Lifecycle!Next, Lifecycle!Submit, Lifecycle!Take, Lifecycle!Run,
                Lifecycle!Skip, Lifecycle!Lose, Lifecycle!Crash, Lifecycle!Moves
<1>3. QED BY <1>2 DEF LifeStep

LEMMA SignalIsStep ==
    ASSUME NEW t \in Tasks, \A x \in Tasks \ {t} : Life(x)' = Life(x), Signal(t),
           \/ Life(t) = "running" /\ Life(t)' = "ended" /\ t \notin Exits
           \/ Life(t) \notin {"new", "lost"} /\ Life(t)' = Life(t)
           \/ Life(t) = "lost" /\ Life(t)' = "ended"
    PROVE  LifeStep
<1> DEFINE life == [x \in Tasks |-> Life(x)]
<1>1. /\ life[t] = Life(t)
      /\ life' = [life EXCEPT ![t] = Life(t)']
    OBVIOUS
<1>2. ASSUME Life(t)' = Life(t) PROVE life' = life
    <2>1. \A x \in Tasks : Life(x)' = Life(x)
        BY <1>2
    <2>2. QED BY <2>1
<1>3. Lifecycle!Next
    BY <1>1, <1>2 DEF Lifecycle!Next, Lifecycle!End, Lifecycle!Cancel, Lifecycle!CancelLost,
                Lifecycle!Moves, Lifecycle!IsSet, Signal
<1>4. QED BY <1>3 DEF LifeStep

\* How places change.
LEMMA PushPlaces ==
    ASSUME PlaceType, OnePlace, NEW a \in Actors, NEW w \in Workers, held[a] # NoTask,
           PushLocal(w, held[a]), LetsGo(a), UNCHANGED gq
    PROVE  \A x \in Tasks : Placed(x)' <=> Placed(x)
<1>0. PICK t \in Tasks : t = held[a]
    BY DEF PlaceType
<1>1. dq \in [Workers -> Seq(Tasks)] /\ Len(dq[w]) \in Nat
    BY LenProperties DEF PlaceType
<1>2. /\ Len(dq'[w]) = Len(dq[w]) + 1
      /\ dq'[w][1] = t
      /\ \A i \in 1..Len(dq[w]) : dq'[w][i + 1] = dq[w][i]
      /\ \A v \in Workers \ {w} : dq'[v] = dq[v]
    BY <1>0, <1>1, PushSlots
<1>3. InDeque(t)'
    <2>1. 1 \in 1..Len(dq'[w])
        BY <1>1, <1>2
    <2>2. QED BY <1>2, <2>1 DEF InDeque
<1>4. ASSUME NEW x \in Tasks, NEW v \in Workers, NEW i \in 1..Len(dq[v]), dq[v][i] = x
      PROVE  InDeque(x)'
    <2>1. CASE v # w
        BY <1>2, <1>4, <2>1 DEF InDeque
    <2>2. CASE v = w
        <3>1. i + 1 \in 1..Len(dq'[w]) /\ dq'[w][i + 1] = x
            BY <1>1, <1>2, <1>4, <2>2
        <3>2. QED BY <3>1 DEF InDeque
    <2>3. QED BY <2>1, <2>2
<1>5. \A x \in Tasks : InDeque(x) => InDeque(x)'
    BY <1>4 DEF InDeque
<1>6. \A x \in Tasks : InDeque(x)' => InDeque(x) \/ x = t
    BY <1>0, PushReach
<1>7. InHand(t) /\ \A x \in Tasks \ {t} : InHand(x)' <=> InHand(x)
    BY <1>0, <1>1, SchedulerAssumption DEF InHand, LetsGo, PlaceType
<1>8. ASSUME NEW x \in Tasks PROVE Placed(x)' <=> Placed(x)
    <2>1. CASE x = t
        BY <1>3, <1>7, <2>1 DEF Placed
    <2>2. CASE x # t
        BY <1>5, <1>6, <1>7, <2>2 DEF Placed
    <2>3. QED BY <2>1, <2>2
<1>9. QED BY <1>8

LEMMA TakePlaces ==
    ASSUME PlaceType, NEW a \in Actors, held[a] = NoTask, NEW w \in Workers, dq[w] # <<>>,
           \/ Grabs(a, Head(dq[w])) /\ dq' = [dq EXCEPT ![w] = Tail(@)]
           \/ Grabs(a, Last(dq[w])) /\ dq' = [dq EXCEPT ![w] = Front(@)],
           UNCHANGED gq
    PROVE  \A x \in Tasks : Placed(x)' <=> Placed(x)
<1>1. dq \in [Workers -> Seq(Tasks)]
    BY DEF PlaceType
<1>2. PICK shift \in {0, 1} : \E k \in 1..Len(dq[w]) :
          /\ (shift = 1 /\ k = 1) \/ (shift = 0 /\ k = Len(dq[w]))
          /\ Len(dq'[w]) = Len(dq[w]) - 1 /\ Len(dq[w]) \in Nat
          /\ \A i \in 1..Len(dq'[w]) : dq'[w][i] = dq[w][i + shift]
          /\ \A v \in Workers \ {w} : dq'[v] = dq[v]
          /\ Grabs(a, dq[w][k]) /\ dq[w][k] \in Tasks
    <2>1. CASE Grabs(a, Head(dq[w])) /\ dq' = [dq EXCEPT ![w] = Tail(@)]
        <3>1. /\ Len(dq[w]) \in Nat \ {0} /\ Len(dq'[w]) = Len(dq[w]) - 1
              /\ Head(dq[w]) = dq[w][1] /\ Head(dq[w]) \in Tasks
              /\ \A i \in 1..Len(dq'[w]) : dq'[w][i] = dq[w][i + 1]
              /\ \A v \in Workers \ {w} : dq'[v] = dq[v]
            BY <1>1, <2>1, PopSlots
        <3>2. 1 \in 1..Len(dq[w]) /\ Grabs(a, dq[w][1]) /\ dq[w][1] \in Tasks
            BY <2>1, <3>1
        <3>3. QED BY <3>1, <3>2
    <2>2. CASE Grabs(a, Last(dq[w])) /\ dq' = [dq EXCEPT ![w] = Front(@)]
        <3>1. /\ Len(dq[w]) \in Nat \ {0} /\ Len(dq'[w]) = Len(dq[w]) - 1
              /\ Last(dq[w]) = dq[w][Len(dq[w])] /\ Last(dq[w]) \in Tasks
              /\ \A i \in 1..Len(dq'[w]) : dq'[w][i] = dq[w][i]
              /\ \A v \in Workers \ {w} : dq'[v] = dq[v]
            BY <1>1, <2>2, StealSlots
        <3>2. \A i \in 1..Len(dq'[w]) : dq'[w][i] = dq[w][i + 0]
            BY <3>1
        <3>3. Len(dq[w]) \in 1..Len(dq[w]) /\ Grabs(a, dq[w][Len(dq[w])])
              /\ dq[w][Len(dq[w])] \in Tasks
            BY <2>2, <3>1
        <3>4. QED BY <3>1, <3>2, <3>3
    <2>3. QED BY <2>1, <2>2
<1>3. PICK k \in 1..Len(dq[w]) :
          /\ (shift = 1 /\ k = 1) \/ (shift = 0 /\ k = Len(dq[w]))
          /\ Len(dq'[w]) = Len(dq[w]) - 1 /\ Len(dq[w]) \in Nat
          /\ \A i \in 1..Len(dq'[w]) : dq'[w][i] = dq[w][i + shift]
          /\ \A v \in Workers \ {w} : dq'[v] = dq[v]
          /\ Grabs(a, dq[w][k]) /\ dq[w][k] \in Tasks
    BY <1>2
<1> PICK t \in Tasks : t = dq[w][k] /\ Grabs(a, t)
    BY <1>3
<1>4. ASSUME NEW x \in Tasks, x # t, NEW v \in Workers, NEW i \in 1..Len(dq[v]), dq[v][i] = x
      PROVE  InDeque(x)'
    <2>1. CASE v # w
        BY <1>3, <1>4, <2>1 DEF InDeque
    <2>2. CASE v = w
        <3>1. i # k
            BY <1>4, <2>2
        <3>2. i - shift \in 1..Len(dq'[w]) /\ (i - shift) + shift = i
            BY <1>3, <2>2, <3>1
        <3>3. dq'[w][i - shift] = x
            BY <1>3, <1>4, <2>2, <3>2
        <3>4. QED BY <3>2, <3>3 DEF InDeque
    <2>3. QED BY <2>1, <2>2
<1>5. \A x \in Tasks \ {t} : InDeque(x) => InDeque(x)'
    BY <1>4 DEF InDeque
<1>6. \A x \in Tasks : InDeque(x)' => InDeque(x)
    BY RemoveReach
<1>7. InDeque(t)
    BY DEF InDeque
<1>8. InHand(t)' /\ \A x \in Tasks \ {t} : InHand(x)' <=> InHand(x)
    BY <1>3, SchedulerAssumption DEF InHand, Grabs, PlaceType
<1>9. ASSUME NEW x \in Tasks PROVE Placed(x)' <=> Placed(x)
    <2>1. CASE x = t
        BY <1>7, <1>8, <2>1 DEF Placed
    <2>2. CASE x # t
        BY <1>5, <1>6, <1>8, <2>2 DEF Placed
    <2>3. QED BY <2>1, <2>2
<1>10. QED BY <1>9

\* A thread lets go of a task that goes to the overflow queue or nowhere.
LEMMA DropPlaces ==
    ASSUME PlaceType, OnePlace, NEW a \in Actors, NEW t \in Tasks, held[a] = t, LetsGo(a),
           UNCHANGED dq
    PROVE  /\ gq' = gq \cup {t} => \A x \in Tasks : Placed(x)' <=> Placed(x)
           /\ UNCHANGED gq =>
                 /\ ~Placed(t)'
                 /\ \A x \in Tasks \ {t} : Placed(x)' <=> Placed(x)
<1>1. NoTask # t
    BY SchedulerAssumption
<1>2. held'[a] = NoTask /\ \A b \in Actors \ {a} : held'[b] = held[b]
    BY DEF LetsGo, PlaceType
<1>3. InHand(t) /\ ~InHand(t)' /\ \A x \in Tasks \ {t} : InHand(x)' <=> InHand(x)
    <2>1. \A b \in Actors \ {a} : held[b] # t
        BY <1>1 DEF OnePlace, HandsDisjoint
    <2>2. InHand(t) /\ ~InHand(t)'
        BY <1>1, <1>2, <2>1 DEF InHand
    <2>3. ASSUME NEW x \in Tasks \ {t} PROVE InHand(x)' <=> InHand(x)
        <3>1. x # NoTask
            BY SchedulerAssumption
        <3>2. QED BY <1>2, <3>1 DEF InHand
    <2>4. QED BY <2>2, <2>3
<1>4. t \notin gq /\ ~InDeque(t)
    BY <1>1, <1>3 DEF OnePlace, KindsDisjoint
<1>5. ASSUME gq' = gq \cup {t}, NEW x \in Tasks PROVE Placed(x)' <=> Placed(x)
    <2>1. CASE x = t
        BY <1>3, <1>5, <2>1 DEF Placed
    <2>2. CASE x # t
        BY <1>3, <1>5, <2>2, SameDeques DEF Placed
    <2>3. QED BY <2>1, <2>2
<1>6. ASSUME UNCHANGED gq
      PROVE  ~Placed(t)' /\ \A x \in Tasks \ {t} : Placed(x)' <=> Placed(x)
    BY <1>1, <1>3, <1>4, <1>6, SameDeques DEF Placed
<1>7. QED BY <1>5, <1>6

LEMMA SamePlaces ==
    ASSUME UNCHANGED <<dq, gq, held>> PROVE \A x \in Tasks : Placed(x)' <=> Placed(x)
BY DEF Placed, InDeque, InHand

\* No worker takes a task up, begins or ends to run it.
Busy == {"begin", "run"}

StaysBusy == \A w \in Workers, label \in Busy : pc'[w] = label <=> pc[w] = label

RunningKept ==
    /\ StaysBusy
    /\ \A w \in Workers : pc[w] \in Busy => held'[w] = held[w]

LEMMA SameRunning ==
    ASSUME RunningKept
    PROVE  \A x \in Tasks : (Running(x)' <=> Running(x)) /\ (Taken(x)' <=> Taken(x))
BY DEF RunningKept, StaysBusy, Busy, Running, Taken, At

LEMMA SameThreads ==
    ASSUME UNCHANGED <<pc, held>> PROVE RunningKept
BY DEF RunningKept, StaysBusy

\* A thread that runs nothing changes what it holds.
LEMMA OtherHands ==
    ASSUME PlaceType, NEW a \in Actors, ~(a \in Workers /\ pc[a] \in Busy),
           LetsGo(a) \/ \E t \in Tasks : Grabs(a, t),
           StaysBusy
    PROVE  RunningKept
<1>1. \A b \in Actors \ {a} : held'[b] = held[b]
    BY DEF LetsGo, Grabs, PlaceType
<1>2. \A w \in Workers : pc[w] \in Busy => w # a /\ w \in Actors
    BY ActorSorts
<1>3. QED BY <1>1, <1>2 DEF RunningKept

\* The task moves about, in the reach of the threads.
LEMMA MovesAbout ==
    ASSUME Known, OnePlace', RunningKept, UNCHANGED <<fresh, event, runs>>,
           \A x \in Tasks : Placed(x)' <=> Placed(x)
    PROVE  LifeStep
<1>1. \A x \in Tasks : Rests(x)
    BY SameRunning DEF Rests
<1>2. QED BY <1>1, RestsKeepsLife, StandIsStep

\* A task held by a thread that does not run it disappears.
LEMMA Disappears ==
    ASSUME Known, OnePlace', NEW a \in Actors, NEW t \in Tasks,
           held[a] = t, ~(a \in Workers /\ pc[a] \in Busy),
           LetsGo(a), RunningKept, UNCHANGED <<fresh, dq, gq, event, runs>>
    PROVE  LifeStep
<1>0. TypeOK /\ PlaceType /\ OnePlace /\ CalledOnce /\ event \in [Tasks -> BOOLEAN]
    BY DEF Known, TypeOK, FuturesOK
<1>1. NoTask # t
    BY SchedulerAssumption
<1>2. Placed(t) /\ ~Placed(t)' /\ \A x \in Tasks \ {t} : Placed(x)' <=> Placed(x)
    BY <1>0, DropPlaces DEF Placed, InHand
<1>3. ~Running(t) /\ ~Taken(t)
    BY <1>0, <1>1, ActorSorts DEF Busy, Running, Taken, At, OnePlace, HandsDisjoint
<1>4. ~Running(t)'
    BY <1>1, <1>3, SameRunning
<1>5. runs[t] = 0
    BY <1>0, <1>1 DEF CalledOnce, Uncalled, Busy
<1>6. t \notin fresh
    BY <1>0, <1>1, <1>2 DEF OnePlace, FreshUnplaced
<1>7. \A x \in Tasks \ {t} : Life(x)' = Life(x)
    BY <1>2, SameRunning, RestsKeepsLife DEF Rests
<1>8. Life(t) = "pending"
    BY <1>0, <1>1, <1>2, <1>3, LifeIs DEF Waits
<1>9. IF event[t] THEN Life(t)' = "ended" ELSE Life(t)' = "lost"
    BY <1>0, <1>1, <1>2, <1>4, <1>5, <1>6, LifeIsNext
<1>10. QED BY <1>0, <1>1, <1>7, <1>8, <1>9, MoveIsStep

LEMMA LifeClient ==
    ASSUME Known, OnePlace', NEW c \in Clients,
           \/ \E t \in Tasks : Submit(c, t) \/ CancelChecks(c, t)
           \/ \E w \in Workers : SubmitPushes(c, w) \/ SubmitOverflows(c, w)
           \/ CancelSets(c)
    PROVE  LifeStep
<1> USE DEF futures, Known
<1>0. c \in Actors /\ c \notin Workers /\ (held[c] # NoTask => held[c] \in Tasks)
    BY ActorSorts DEF PlaceType
<1>1. ASSUME NEW t \in Tasks, Submit(c, t) PROVE LifeStep
    <2>1. RunningKept
        BY <1>0, <1>1, OtherHands DEF Submit, StaysBusy
    <2>2. held'[c] = t /\ \A a \in Actors \ {c} : held'[a] = held[a]
        BY <1>0, <1>1 DEF Submit, Grabs, PlaceType
    <2>3. held[c] = NoTask /\ NoTask \notin Tasks
        BY <1>1, SchedulerAssumption DEF Submit, ClientIdle
    <2>4. \A x \in Tasks \ {t} : InHand(x)' <=> InHand(x)
        BY <1>0, <2>2, <2>3 DEF InHand
    <2>5. Placed(t)' /\ \A x \in Tasks \ {t} : Placed(x)' <=> Placed(x)
        BY <1>0, <1>1, <2>2, <2>4, SameDeques DEF Submit, Placed, InHand
    <2>6. t \in fresh /\ ~Placed(t) /\ \A x \in Tasks \ {t} : x \in fresh' <=> x \in fresh
        BY <1>1 DEF Submit, OnePlace, FreshUnplaced
    <2>7. ~Running(t)' /\ ~Taken(t)'
        BY <2>1, <2>6, SameRunning, ActorSorts DEF Running, Taken, At, Placed, InHand
    <2>8. \A x \in Tasks \ {t} : Life(x)' = Life(x)
        BY <1>1, <2>1, <2>5, <2>6, SameRunning, RestsKeepsLife DEF Submit, Rests
    <2>9. Life(t) = "new" /\ Life(t)' = "pending"
        BY <2>5, <2>6, <2>7, LifeIs, LifeIsNext DEF Waits
    <2>10. QED BY <1>1, <2>8, <2>9, MoveIsStep DEF Submit
<1>2. ASSUME NEW t \in Tasks, CancelChecks(c, t) PROVE LifeStep
    BY <1>2, SamePlaces, SameThreads, MovesAbout DEF CancelChecks
<1>3. ASSUME NEW w \in Workers, SubmitPushes(c, w) PROVE LifeStep
    <2>1. RunningKept
        BY <1>0, <1>3, OtherHands DEF SubmitPushes, StaysBusy
    <2>2. \A x \in Tasks : Placed(x)' <=> Placed(x)
        BY <1>0, <1>3, PushPlaces DEF SubmitPushes
    <2>3. QED BY <1>3, <2>1, <2>2, MovesAbout DEF SubmitPushes
<1>4. ASSUME NEW w \in Workers, SubmitOverflows(c, w) PROVE LifeStep
    <2>1. RunningKept
        BY <1>0, <1>4, OtherHands DEF SubmitOverflows, StaysBusy
    <2>2. \A x \in Tasks : Placed(x)' <=> Placed(x)
        BY <1>0, <1>4, DropPlaces DEF SubmitOverflows
    <2>3. QED BY <1>4, <2>1, <2>2, MovesAbout DEF SubmitOverflows
<1>5. ASSUME CancelSets(c) PROVE LifeStep
    <2>1. PICK t \in Tasks : t = cancelling[c] /\ t \notin fresh
        BY <1>5 DEF CancelSets, TypeOK, FuturesOK, LifeInv
    <2>2. /\ \A x \in Tasks : Placed(x)' <=> Placed(x)
          /\ \A x \in Tasks : (Running(x)' <=> Running(x)) /\ (Taken(x)' <=> Taken(x))
        BY <1>5, SamePlaces, SameThreads, SameRunning DEF CancelSets
    <2>3. event' = [event EXCEPT ![t] = TRUE] /\ event \in [Tasks -> BOOLEAN]
          /\ UNCHANGED <<fresh, runs>>
        BY <1>5, <2>1 DEF CancelSets, Signal, TypeOK, FuturesOK
    <2>4. \A x \in Tasks \ {t} : Life(x)' = Life(x)
        BY <2>2, <2>3, RestsKeepsLife DEF Rests
    <2>5. event'[t] = TRUE /\ t \notin fresh'
        BY <2>1, <2>3
    <2>6. runs[t] \in Nat
        BY DEF TypeOK, FuturesOK
    <2>7. \/ Life(t) \notin {"new", "lost"} /\ Life(t)' = Life(t)
          \/ Life(t) = "lost" /\ Life(t)' = "ended"
        <3>1. CASE Running(t) \/ Taken(t)
            BY <2>2, <3>1, LifeIs, LifeIsNext
        <3>2. CASE Waits(t)
            <4>1. Waits(t)'
                BY <2>2, <3>2 DEF Waits
            <4>2. QED BY <3>2, <4>1, LifeIs, LifeIsNext
        <3>3. CASE ~Placed(t)
            BY <2>1, <2>2, <2>5, <2>6, <3>3, LifeIs, LifeIsNext
        <3>4. QED BY <3>1, <3>2, <3>3 DEF Waits
    <2>8. QED BY <2>3, <2>4, <2>7, SignalIsStep DEF Signal
<1>6. QED BY <1>1, <1>2, <1>3, <1>4, <1>5

LEMMA LifeWorker ==
    ASSUME Known, OnePlace', NEW w \in Workers, WorkerStep(w)
    PROVE  LifeStep
<1> USE DEF futures, Known
<1>0. /\ w \in Actors /\ (held[w] # NoTask => held[w] \in Tasks)
      /\ pc[w] \in {"check", "begin", "run"} <=> held[w] # NoTask
      /\ victim[w] \in Workers /\ event \in [Tasks -> BOOLEAN]
      /\ NoTask \notin Tasks
    BY ActorSorts DEF PlaceType, TypeOK, ThreadsOK, FuturesOK
<1>1. ASSUME NEW label, Goto(w, label)
      PROVE  pc'[w] = label /\ \A v \in Workers \ {w} : pc'[v] = pc[v]
    BY <1>1 DEF Goto, TypeOK, ThreadsOK
<1>2. ASSUME NEW label, Goto(w, label), label \notin Busy, pc[w] \notin Busy
      PROVE  StaysBusy
    BY <1>1, <1>2 DEF StaysBusy
<1>3. CASE PopLocal(w) /\ dq[w] # <<>>
    <2>1. Head(dq[w]) \in Tasks
        BY <1>3, RemoveReach DEF PopLocal
    <2>2. RunningKept
        BY <1>0, <1>2, <1>3, <2>1, OtherHands DEF PopLocal, Busy
    <2>3. \A x \in Tasks : Placed(x)' <=> Placed(x)
        BY <1>0, <1>3, TakePlaces DEF PopLocal
    <2>4. QED BY <1>3, <2>2, <2>3, MovesAbout DEF PopLocal
<1>4. CASE Steal(w) /\ dq[victim[w]] # <<>>
    <2>1. Last(dq[victim[w]]) \in Tasks
        BY <1>0, <1>4, RemoveReach DEF Steal
    <2>2. RunningKept
        BY <1>0, <1>2, <1>4, <2>1, OtherHands DEF Steal, Busy
    <2>3. \A x \in Tasks : Placed(x)' <=> Placed(x)
        BY <1>0, <1>4, TakePlaces DEF Steal
    <2>4. QED BY <1>4, <2>2, <2>3, MovesAbout DEF Steal
<1>5. ASSUME \/ PopLocal(w) /\ dq[w] = <<>>
             \/ Steal(w) /\ dq[victim[w]] = <<>>
             \/ FindsNoVictim(w) \/ Leaves(w) \/ \E v \in Workers : ChoosesVictim(w, v)
      PROVE  LifeStep
    <2>1. /\ StaysBusy
          /\ UNCHANGED <<fresh, dq, gq, held, event, runs>>
        BY <1>2, <1>5 DEF PopLocal, Steal, FindsNoVictim, Leaves, ChoosesVictim, Busy
    <2>2. QED BY <2>1, SamePlaces, MovesAbout DEF RunningKept
<1>6. CASE SkipsDone(w)
    <2>1. PICK t \in Tasks : t = held[w]
        BY <1>0, <1>6 DEF SkipsDone
    <2>2. RunningKept
        BY <1>0, <1>2, <1>6, OtherHands DEF SkipsDone, Busy
    <2>3. QED BY <1>0, <1>6, <2>1, <2>2, Disappears DEF SkipsDone, Busy
<1>7. CASE Begins(w) \/ Execute(w)
    <2>1. PICK t \in Tasks : t = held[w]
        BY <1>0, <1>7 DEF Begins, Execute
    <2>2. /\ \A v \in Workers \ {w} : pc'[v] = pc[v]
          /\ UNCHANGED <<fresh, dq, gq, held, event>>
          /\ \A x \in Tasks \ {t} : runs'[x] = runs[x]
        BY <1>1, <1>7, <2>1 DEF Begins, Execute, TypeOK, FuturesOK
    <2>3. \A x \in Tasks \ {t} : (Running(x)' <=> Running(x)) /\ (Taken(x)' <=> Taken(x))
        BY <2>1, <2>2 DEF Running, Taken, At
    <2>4. Placed(t) /\ \A x \in Tasks : Placed(x)' <=> Placed(x)
        BY <1>0, <2>1, <2>2, SamePlaces DEF Placed, InHand
    <2>5. \A x \in Tasks \ {t} : Life(x)' = Life(x)
        BY <2>2, <2>3, <2>4, RestsKeepsLife DEF Rests
    <2>6. \A v \in Workers : held[v] = t => v = w
        BY <1>0, <2>1, ActorSorts DEF OnePlace, HandsDisjoint
    <2>7. CASE Begins(w)
        <3>1. pc[w] = "check" /\ pc'[w] = "begin" /\ ~event[t]
            BY <1>1, <2>1, <2>7 DEF Begins
        <3>2. Waits(t) /\ Taken(t)'
            BY <2>1, <2>2, <2>4, <2>6, <3>1 DEF Waits, Running, Taken, At
        <3>3. Life(t) = "pending" /\ Life(t)' = "taken"
            BY <3>2, LifeIs, LifeIsNext
        <3>4. QED BY <2>2, <2>5, <3>1, <3>3, MoveIsStep
    <2>8. CASE Execute(w)
        <3>1. pc[w] = "begin" /\ pc'[w] = "run"
            BY <1>1, <2>1, <2>8 DEF Execute
        <3>2. Taken(t) /\ Running(t)'
            BY <2>1, <2>2, <3>1 DEF Running, Taken, At
        <3>3. Life(t) = "taken" /\ Life(t)' = "running"
            BY <3>2, LifeIs, LifeIsNext
        <3>4. QED BY <2>2, <2>5, <3>3, MoveIsStep
    <2>9. QED BY <1>7, <2>7, <2>8
<1>8. CASE Finish(w) \/ Dies(w)
    <2>1. PICK t \in Tasks : t = held[w]
        BY <1>0, <1>8 DEF Finish, Dies
    <2>2. /\ pc[w] = "run" /\ pc'[w] \notin Busy /\ \A v \in Workers \ {w} : pc'[v] = pc[v]
          /\ LetsGo(w) /\ UNCHANGED <<fresh, dq, gq, runs>>
        BY <1>1, <1>8 DEF Finish, Dies, Busy
    <2>3. held'[w] = NoTask /\ \A b \in Actors \ {w} : held'[b] = held[b]
        BY <1>0, <2>2 DEF LetsGo, PlaceType
    <2>4. /\ Running(t)
          /\ \A x \in Tasks \ {t} : (Running(x)' <=> Running(x)) /\ (Taken(x)' <=> Taken(x))
        BY <1>0, <2>1, <2>2, <2>3, ActorSorts DEF Running, Taken, At, Busy
    <2>5. /\ ~Placed(t)' /\ t \notin fresh
          /\ \A x \in Tasks \ {t} : Placed(x)' <=> Placed(x)
        BY <1>0, <2>1, <2>2, DropPlaces DEF OnePlace, FreshUnplaced, Placed, InHand
    <2>6. runs'[t] > 0
        BY <2>1, <2>2 DEF LifeInv
    <2>7. Life(t) = "running" /\ Life(t)' = "ended"
        BY <2>2, <2>4, <2>5, <2>6, LifeIs, LifeIsNext
    <2>8. \A x \in Tasks \ {t} : event'[x] = event[x]
        BY <1>0, <1>8, <2>1 DEF Finish, Dies, Signal
    <2>9. \A x \in Tasks \ {t} : Life(x)' = Life(x)
        BY <2>2, <2>4, <2>5, <2>8, RestsKeepsLife DEF Rests
    <2>10. CASE Finish(w)
        BY <2>1, <2>7, <2>9, <2>10, SignalIsStep DEF Finish
    <2>11. CASE Dies(w)
        BY <2>1, <2>7, <2>9, <2>11, MoveIsStep DEF Dies
    <2>12. QED BY <1>8, <2>10, <2>11
<1>9. QED BY <1>3, <1>4, <1>5, <1>6, <1>7, <1>8 DEF WorkerStep

LEMMA LifeDrainer ==
    ASSUME Known, OnePlace', DrainStep
    PROVE  LifeStep
<1> USE DEF futures, Known
<1>0. /\ Drainer \in Actors /\ Drainer \notin Workers
      /\ held[Drainer] # NoTask => held[Drainer] \in Tasks
      /\ event \in [Tasks -> BOOLEAN]
    BY ActorSorts DEF PlaceType, TypeOK, FuturesOK
<1>1. ASSUME NEW t \in gq, DrainPops(t) PROVE LifeStep
    <2>1. t \in Tasks
        BY DEF PlaceType
    <2>2. RunningKept
        BY <1>0, <1>1, <2>1, OtherHands DEF DrainPops, StaysBusy
    <2>3. held'[Drainer] = t /\ \A a \in Actors \ {Drainer} : held'[a] = held[a]
        BY <1>0, <1>1 DEF DrainPops, Grabs, PlaceType
    <2>4. \A x \in Tasks \ {t} : InHand(x)' <=> InHand(x)
        BY <1>0, <1>1, <2>3, SchedulerAssumption DEF DrainPops, InHand
    <2>5. ASSUME NEW x \in Tasks PROVE Placed(x)' <=> Placed(x)
        <3>1. CASE x = t
            BY <1>0, <2>3, <3>1 DEF Placed, InHand
        <3>2. CASE x # t
            BY <1>1, <2>4, <3>2, SameDeques DEF DrainPops, Placed
        <3>3. QED BY <3>1, <3>2
    <2>6. QED BY <1>1, <2>2, <2>5, MovesAbout DEF DrainPops
<1>2. CASE DrainPauses \/ DrainWakes \/ (DrainChecks /\ ~event[held[Drainer]])
    BY <1>2, SamePlaces, SameThreads, MovesAbout DEF DrainPauses, DrainWakes, DrainChecks
<1>3. CASE DrainChecks /\ event[held[Drainer]]
    <2>1. PICK t \in Tasks : t = held[Drainer]
        BY <1>0, <1>3 DEF DrainChecks
    <2>2. RunningKept
        BY <1>0, <1>3, OtherHands DEF DrainChecks, StaysBusy
    <2>3. QED BY <1>0, <1>3, <2>1, <2>2, Disappears DEF DrainChecks
<1>4. ASSUME NEW w \in Workers, DrainPlaces(w) PROVE LifeStep
    <2>1. RunningKept
        BY <1>0, <1>4, OtherHands DEF DrainPlaces, StaysBusy
    <2>2. \A x \in Tasks : Placed(x)' <=> Placed(x)
        BY <1>0, <1>4, PushPlaces DEF DrainPlaces
    <2>3. QED BY <1>4, <2>1, <2>2, MovesAbout DEF DrainPlaces
<1>5. ASSUME NEW w \in Workers, DrainPutsBack(w) PROVE LifeStep
    <2>1. RunningKept
        BY <1>0, <1>5, OtherHands DEF DrainPutsBack, StaysBusy
    <2>2. \A x \in Tasks : Placed(x)' <=> Placed(x)
        BY <1>0, <1>5, DropPlaces DEF DrainPutsBack
    <2>3. QED BY <1>5, <2>1, <2>2, MovesAbout DEF DrainPutsBack
<1>6. QED BY <1>1, <1>2, <1>3, <1>4, <1>5 DEF DrainStep

LEMMA LifeRebalancer ==
    ASSUME Known, OnePlace', RebalanceStep
    PROVE  LifeStep
<1> USE DEF futures, Known
<1>0. /\ Rebalancer \in Actors /\ Rebalancer \notin Workers
      /\ held[Rebalancer] # NoTask =>
            held[Rebalancer] \in Tasks /\ move.donor \in Workers /\ move.recipient \in Workers
      /\ move.left > 0 => move.donor \in Workers
      /\ event \in [Tasks -> BOOLEAN]
    BY ActorSorts DEF PlaceType, TypeOK, FuturesOK
<1>1. ASSUME \/ \E d, r \in Workers : RebalanceBegins(d, r)
             \/ \E w \in Workers : RebalanceReads(w)
             \/ RebalanceWakes \/ RebalanceRests
             \/ RebalanceSteals /\ dq[move.donor] = <<>>
      PROVE  LifeStep
    <2>1. UNCHANGED <<fresh, dq, gq, held, pc, event, runs>>
        BY <1>1 DEF RebalanceBegins, RebalanceReads, RebalanceWakes, RebalanceRests, RebalanceSteals
    <2>2. QED BY <2>1, SamePlaces, SameThreads, MovesAbout
<1>2. CASE RebalanceSteals /\ dq[move.donor] # <<>>
    <2>1. Last(dq[move.donor]) \in Tasks
        BY <1>0, <1>2, RemoveReach DEF RebalanceSteals
    <2>2. RunningKept
        BY <1>0, <1>2, <2>1, OtherHands DEF RebalanceSteals, StaysBusy
    <2>3. \A x \in Tasks : Placed(x)' <=> Placed(x)
        BY <1>0, <1>2, TakePlaces DEF RebalanceSteals
    <2>4. QED BY <1>2, <2>2, <2>3, MovesAbout DEF RebalanceSteals
<1>3. ASSUME NEW w \in Workers, held[Rebalancer] # NoTask, LetsGo(Rebalancer),
             PushLocal(w, held[Rebalancer]) \/ UNCHANGED dq,
             UNCHANGED <<fresh, gq, pc, event, runs>>
      PROVE  LifeStep
    <2>1. RunningKept
        BY <1>0, <1>3, OtherHands DEF StaysBusy
    <2>2. CASE PushLocal(w, held[Rebalancer])
        <3>1. \A x \in Tasks : Placed(x)' <=> Placed(x)
            BY <1>0, <1>3, <2>2, PushPlaces
        <3>2. QED BY <1>3, <2>1, <3>1, MovesAbout
    <2>3. CASE UNCHANGED dq
        <3>1. PICK t \in Tasks : t = held[Rebalancer]
            BY <1>0, <1>3
        <3>2. QED BY <1>0, <1>3, <2>1, <2>3, <3>1, Disappears
    <2>4. QED BY <1>3, <2>2, <2>3
<1>4. CASE RebalanceSkips
    BY <1>0, <1>3, <1>4 DEF RebalanceSkips, PushOrLose
<1>5. CASE RebalanceMoves
    BY <1>0, <1>3, <1>5 DEF RebalanceMoves
<1>6. CASE RebalanceGivesUp
    BY <1>0, <1>3, <1>6 DEF RebalanceGivesUp, PushOrLose
<1>7. QED BY <1>1, <1>2, <1>4, <1>5, <1>6 DEF RebalanceStep

\* The two facts about runs and cancelling are kept by every step.
LEMMA LifeInvNext == Known /\ TypeOK' /\ [Next]_vars => LifeInv'
<1> SUFFICES ASSUME Known, TypeOK', [Next]_vars PROVE LifeInv'
    OBVIOUS
<1> USE DEF futures, Known
<1>1. ASSUME UNCHANGED <<pc, runs>>, \A w \in Workers : pc[w] = "run" => held'[w] = held[w]
      PROVE  \A w \in Workers : pc'[w] = "run" => runs'[held'[w]] = 1
    BY <1>1 DEF LifeInv
<1>2. ASSUME UNCHANGED cancelling, fresh' \subseteq fresh
      PROVE  \A c \in Clients : cancelling'[c] # NoTask => cancelling'[c] \notin fresh'
    BY <1>2 DEF LifeInv
<1>3. ASSUME NEW a \in Actors \ Workers, LetsGo(a) \/ \E t : Grabs(a, t)
      PROVE  \A w \in Workers : held'[w] = held[w]
    BY <1>3, ActorSorts DEF LetsGo, Grabs, PlaceType
<1>4. ASSUME NEW c \in Clients, NEW t \in Tasks, Submit(c, t) \/ CancelChecks(c, t)
      PROVE  LifeInv'
    <2>1. c \in Actors \ Workers
        BY ActorSorts
    <2>2. CASE Submit(c, t)
        BY <1>1, <1>2, <1>3, <2>1, <2>2 DEF Submit, LifeInv
    <2>3. CASE CancelChecks(c, t)
        <3>1. cancelling' = [cancelling EXCEPT ![c] = t] /\ t \notin fresh /\ fresh' = fresh
            BY <2>3 DEF CancelChecks, HasFuture
        <3>2. \A d \in Clients : cancelling'[d] # NoTask => cancelling'[d] \notin fresh'
            BY <3>1 DEF LifeInv, TypeOK, FuturesOK
        <3>3. QED BY <1>1, <2>3, <3>2 DEF CancelChecks, LifeInv
    <2>4. QED BY <1>4, <2>2, <2>3
<1>5. ASSUME NEW c \in Clients, NEW w \in Workers, SubmitPushes(c, w) \/ SubmitOverflows(c, w)
      PROVE  LifeInv'
    <2>1. c \in Actors \ Workers
        BY ActorSorts
    <2>2. QED BY <1>1, <1>2, <1>3, <1>5, <2>1 DEF SubmitPushes, SubmitOverflows, LifeInv
<1>6. ASSUME NEW c \in Clients, CancelSets(c) PROVE LifeInv'
    <2>1. \A d \in Clients : cancelling'[d] # NoTask => cancelling'[d] \notin fresh'
        BY <1>6 DEF CancelSets, LifeInv, TypeOK, FuturesOK
    <2>2. QED BY <1>1, <1>6, <2>1 DEF CancelSets, LifeInv
<1>7. ASSUME NEW w \in Workers, WorkerStep(w) PROVE LifeInv'
    <2>1. UNCHANGED <<cancelling, fresh>>
        BY <1>7 DEF WorkerStep, PopLocal, FindsNoVictim, ChoosesVictim, Steal, SkipsDone,
                    Begins, Execute, Finish, Dies, Leaves
    <2>2. CASE Execute(w)
        <3>1. PICK t \in Tasks : t = held[w]
            BY <2>2, ActorSorts DEF Execute, PlaceType
        <3>2. /\ pc[w] = "begin" /\ pc' = [pc EXCEPT ![w] = "run"] /\ held' = held
              /\ runs' = [runs EXCEPT ![t] = runs[t] + 1]
            BY <2>2, <3>1 DEF Execute, Goto
        <3>3. runs[t] = 0
            BY <3>1, <3>2, ActorSorts DEF CalledOnce, Uncalled
        <3>4. \A v \in Workers \ {w} : held[v] # t
            BY <3>1, ActorSorts, SchedulerAssumption DEF OnePlace, HandsDisjoint
        <3>5. runs'[t] = 1 /\ \A x \in Tasks \ {t} : runs'[x] = runs[x]
            BY <3>2, <3>3 DEF TypeOK, FuturesOK
        <3>6. \A v \in Workers \ {w} : pc[v] = "run" => held[v] \in Tasks \ {t}
            BY <3>4, ActorSorts DEF PlaceType
        <3>7. \A v \in Workers : pc'[v] = "run" => runs'[held'[v]] = 1
            BY <3>1, <3>2, <3>5, <3>6 DEF LifeInv, TypeOK, ThreadsOK
        <3>8. QED BY <1>2, <2>1, <3>7 DEF LifeInv
    <2>3. CASE ~Execute(w)
        <3>1. UNCHANGED runs /\ \E label : Goto(w, label) /\ label # "run"
            BY <1>7, <2>3
            DEF WorkerStep, PopLocal, FindsNoVictim, ChoosesVictim, Steal, SkipsDone,
                Begins, Finish, Dies, Leaves
        <3>2. (\E t : Grabs(w, t)) \/ LetsGo(w) \/ UNCHANGED held
            BY <1>7, <2>3
            DEF WorkerStep, PopLocal, FindsNoVictim, ChoosesVictim, Steal, SkipsDone,
                Begins, Finish, Dies, Leaves
        <3>3. pc'[w] # "run" /\ \A v \in Workers \ {w} : pc'[v] = pc[v]
            BY <3>1 DEF Goto, TypeOK, ThreadsOK
        <3>4. \A v \in Workers \ {w} : held'[v] = held[v]
            BY <3>2, ActorSorts DEF Grabs, LetsGo, PlaceType
        <3>5. \A v \in Workers : pc'[v] = "run" => runs'[held'[v]] = 1
            BY <3>1, <3>3, <3>4 DEF LifeInv
        <3>6. QED BY <1>2, <2>1, <3>5 DEF LifeInv
    <2>4. QED BY <2>2, <2>3
<1>8. CASE DrainStep
    <2>1. Drainer \in Actors \ Workers
        BY ActorSorts
    <2>2. UNCHANGED <<pc, runs, cancelling, fresh>>
        BY <1>8 DEF DrainStep, DrainWakes, DrainPops, DrainPauses, DrainChecks, DrainPlaces,
                    DrainPutsBack
    <2>3. LetsGo(Drainer) \/ (\E t : Grabs(Drainer, t)) \/ UNCHANGED held
        BY <1>8 DEF DrainStep, DrainWakes, DrainPops, DrainPauses, DrainChecks, DrainPlaces,
                    DrainPutsBack
    <2>4. QED BY <1>1, <1>2, <1>3, <2>1, <2>2, <2>3 DEF LifeInv
<1>9. CASE RebalanceStep
    <2>1. Rebalancer \in Actors \ Workers
        BY ActorSorts
    <2>2. UNCHANGED <<pc, runs, cancelling, fresh>>
        BY <1>9 DEF RebalanceStep, RebalanceWakes, RebalanceReads, RebalanceRests,
                    RebalanceBegins, RebalanceSteals, RebalanceSkips, RebalanceMoves,
                    RebalanceGivesUp
    <2>3. LetsGo(Rebalancer) \/ (\E t : Grabs(Rebalancer, t)) \/ UNCHANGED held
        BY <1>9 DEF RebalanceStep, RebalanceWakes, RebalanceReads, RebalanceRests,
                    RebalanceBegins, RebalanceSteals, RebalanceSkips, RebalanceMoves,
                    RebalanceGivesUp
    <2>4. QED BY <1>1, <1>2, <1>3, <2>1, <2>2, <2>3 DEF LifeInv
<1>10. CASE Start
    <2>1. \A w \in Workers : pc'[w] # "run"
        BY <1>10 DEF Start
    <2>2. QED BY <1>2, <1>10, <2>1 DEF Start, LifeInv
<1>11. CASE Stop \/ (\E w \in Workers : StopWorker(w)) \/ UNCHANGED vars
    BY <1>1, <1>2, <1>11 DEF Stop, StopWorker, vars, LifeInv
<1>12. QED BY <1>4, <1>5, <1>6, <1>7, <1>8, <1>9, <1>10, <1>11 DEF Next

LEMMA LifeNext == Known /\ OnePlace' /\ [Next]_vars => LifeStep
<1> SUFFICES ASSUME Known, OnePlace', [Next]_vars PROVE LifeStep
    OBVIOUS
<1>1. CASE Start
    <2>1. /\ \A w \in Workers : pc[w] \notin Busy /\ pc'[w] \notin Busy
          /\ UNCHANGED <<fresh, dq, gq, held, event, runs>>
        BY <1>1 DEF Start, Known, TypeOK, ThreadsOK, futures, Busy
    <2>2. QED BY <2>1, SamePlaces, MovesAbout DEF RunningKept, StaysBusy
<1>2. CASE Stop \/ (\E w \in Workers : StopWorker(w)) \/ UNCHANGED vars
    <2>1. UNCHANGED <<fresh, dq, gq, held, pc, event, runs>>
        BY <1>2 DEF Stop, StopWorker, vars, futures
    <2>2. QED BY <2>1, SamePlaces, SameThreads, MovesAbout
<1>3. QED BY <1>1, <1>2, LifeClient, LifeWorker, LifeDrainer, LifeRebalancer DEF Next

LEMMA LifeInit == Init => Lifecycle!Init /\ LifeInv
<1> SUFFICES ASSUME Init PROVE Lifecycle!Init /\ LifeInv
    OBVIOUS
<1>1. \A w \in Workers : pc[w] # "run"
    BY DEF Init
<1>2. \A t \in Tasks : Life(t) = "new"
    <2>1. PlaceType /\ OnePlace
        BY InitType, PlaceTypeOfTypeOK, PlacesInit
    <2>2. QED BY <2>1, LifeIs DEF Init
<1>3. QED BY <1>1, <1>2 DEF Init, Lifecycle!Init, LifeInv

\* What clients are promised of a task holds of the whole scheduler: through
\* every steal, drain, migration, cancel and stop, a task is taken up and called
\* at most once, taken up only while its future is unset, and a task that was
\* taken up is never lost; only a pending one may be.
THEOREM LifecycleKept == Spec => KeepsLifecycle
<1>1. Init => Lifecycle!Init /\ LifeInv
    BY LifeInit
<1>2. TypeOK /\ OnePlace /\ CalledOnce /\ LifeInv /\ TypeOK' /\ [Next]_vars => LifeInv'
    BY LifeInvNext, PlaceTypeOfTypeOK DEF Known
<1>3. TypeOK /\ OnePlace /\ CalledOnce /\ LifeInv /\ OnePlace' /\ [Next]_vars => LifeStep
    BY LifeNext, PlaceTypeOfTypeOK DEF Known
<1>4. LifeStep <=> [Lifecycle!Next]_(Lifecycle!vars)
    BY DEF LifeStep
<1>5. QED BY <1>1, <1>2, <1>3, <1>4, TypeCorrect, OnePlaceAlways, CalledOnceAlways, PTL
          DEF Spec, KeepsLifecycle, Lifecycle!Spec
-----------------------------------------------------------------------------
(***************************************************************************)
(* What full deques have to do with lost tasks.  The rebalancer ignores    *)
(* whether push_local found room when it returns a task to its donor; as   *)
(* long as there are no more tasks than slots in a deque, there is room.   *)
(***************************************************************************)
RoomForAll == IsFiniteSet(Tasks) /\ Cardinality(Tasks) <= Depth

\* A deque without t holds different tasks, hence fewer than there are.
LEMMA RoomLeft ==
    ASSUME RoomForAll, PlaceType, OnePlace, NEW w \in Workers, NEW t \in Tasks, ~InDeque(t)
    PROVE  HasRoom(w)
<1> DEFINE n == Len(dq[w])
           slot == [i \in 1..n |-> dq[w][i]]
           others == Tasks \ {t}
<1>1. dq[w] \in Seq(Tasks) /\ n \in Nat
    BY LenProperties DEF PlaceType
<1>2. \A i \in 1..n : dq[w][i] \in others
    BY <1>1, ElementOfSeq DEF InDeque
<1>3. \A i, j \in 1..n : dq[w][i] = dq[w][j] => i = j
    BY DEF OnePlace, DequesDisjoint
<1>4. slot \in Injection(1..n, others)
    BY <1>2, <1>3 DEF Injection, IsInjective
<1>5. IsFiniteSet(others) /\ Cardinality(others) = Cardinality(Tasks) - 1
    BY FS_RemoveElement DEF RoomForAll
<1>6. Cardinality(1..n) <= Cardinality(others)
    BY <1>4, <1>5, FS_Injection
<1>7. IsFiniteSet(1..n) /\ Cardinality(1..n) = n
    <2>1. 1 \in Int /\ n \in Int
        BY <1>1
    <2>2. IsFiniteSet(1..n) /\ Cardinality(1..n) = IF 1 > n THEN 0 ELSE n - 1 + 1
        BY <2>1, FS_Interval
    <2>3. (IF 1 > n THEN 0 ELSE n - 1 + 1) = n
        BY <1>1
    <2>4. QED BY <2>2, <2>3
<1>8. Cardinality(Tasks) \in Nat /\ Depth \in Nat
    BY FS_CardinalityType, SchedulerAssumption DEF RoomForAll
<1>9. QED BY <1>1, <1>5, <1>6, <1>7, <1>8 DEF RoomForAll, HasRoom

\* What became of t is known: its future is set, a thread can still reach it, or it ended
\* the thread that ran it.
Accounted(t) == event[t] \/ Placed(t) \/ (t \in Exits /\ runs[t] > 0)

\* A step that sets no future back and drops only what is done loses nothing.
LEMMA LosesNothing ==
    ASSUME NoTaskDropped, TypeOK, fresh' = fresh,
           \A x \in Tasks : event[x] => event'[x],
           \A x \in Tasks : runs[x] > 0 => runs'[x] > 0,
           \A x \in Tasks : Placed(x) => Accounted(x)'
    PROVE  NoTaskDropped'
<1>1. ASSUME NEW x \in Tasks \ fresh' PROVE Accounted(x)'
    <2>1. Accounted(x)
        BY <1>1 DEF NoTaskDropped, Accounted
    <2>2. QED BY <2>1 DEF Accounted
<1>2. QED BY <1>1 DEF NoTaskDropped, Accounted

\* A task that only changes its place is still accounted for.
LEMMA MovesLoseNothing ==
    ASSUME NoTaskDropped, TypeOK, UNCHANGED <<fresh, event, runs>>,
           \A x \in Tasks : Placed(x)' <=> Placed(x)
    PROVE  NoTaskDropped'
BY LosesNothing DEF Accounted

\* A thread that lets go of a task whose future is set loses nothing.
LEMMA DroppingDone ==
    ASSUME NoTaskDropped, Known, NEW a \in Actors, NEW t \in Tasks, held[a] = t, LetsGo(a),
           UNCHANGED <<fresh, dq, gq>>,
           \A x \in Tasks : event[x] => event'[x],
           \A x \in Tasks : runs[x] > 0 => runs'[x] > 0,
           event'[t] \/ (t \in Exits /\ runs'[t] > 0)
    PROVE  NoTaskDropped'
<1>1. TypeOK /\ \A x \in Tasks \ {t} : Placed(x)' <=> Placed(x)
    BY DropPlaces DEF Known
<1>2. \A x \in Tasks : Placed(x) => Accounted(x)'
    BY <1>1 DEF Accounted
<1>3. QED BY <1>1, <1>2, LosesNothing

LEMMA ClientLosesNothing ==
    ASSUME NoTaskDropped, Known, NEW c \in Clients,
           \/ \E t \in Tasks : Submit(c, t) \/ CancelChecks(c, t)
           \/ \E w \in Workers : SubmitPushes(c, w) \/ SubmitOverflows(c, w)
           \/ CancelSets(c)
    PROVE  NoTaskDropped'
<1> USE DEF futures, Known
<1>0. c \in Actors /\ (held[c] # NoTask => held[c] \in Tasks) /\ NoTask \notin Tasks
    BY ActorSorts, SchedulerAssumption DEF PlaceType
<1>1. ASSUME NEW t \in Tasks, Submit(c, t) PROVE NoTaskDropped'
    <2>1. held'[c] = t /\ \A a \in Actors \ {c} : held'[a] = held[a]
        BY <1>0, <1>1 DEF Submit, Grabs, PlaceType
    <2>2. held[c] = NoTask
        BY <1>1 DEF Submit, ClientIdle
    <2>3. \A x \in Tasks : InHand(x) => InHand(x)'
        BY <1>0, <2>1, <2>2 DEF InHand
    <2>4. Placed(t)' /\ \A x \in Tasks : Placed(x) => Placed(x)'
        BY <1>0, <1>1, <2>1, <2>3, SameDeques DEF Submit, Placed, InHand
    <2>5. ASSUME NEW x \in Tasks \ fresh' PROVE Accounted(x)'
        <3>1. x = t \/ Accounted(x)
            BY <1>1, <2>5 DEF Submit, NoTaskDropped, Accounted
        <3>2. QED BY <1>1, <2>4, <3>1 DEF Submit, Accounted
    <2>6. QED BY <2>5 DEF NoTaskDropped, Accounted
<1>2. ASSUME NEW t \in Tasks, CancelChecks(c, t) PROVE NoTaskDropped'
    BY <1>2, SamePlaces, MovesLoseNothing DEF CancelChecks
<1>3. ASSUME NEW w \in Workers, SubmitPushes(c, w) PROVE NoTaskDropped'
    <2>1. \A x \in Tasks : Placed(x)' <=> Placed(x)
        BY <1>0, <1>3, PushPlaces DEF SubmitPushes
    <2>2. QED BY <1>3, <2>1, MovesLoseNothing DEF SubmitPushes
<1>4. ASSUME NEW w \in Workers, SubmitOverflows(c, w) PROVE NoTaskDropped'
    <2>1. \A x \in Tasks : Placed(x)' <=> Placed(x)
        BY <1>0, <1>4, DropPlaces DEF SubmitOverflows
    <2>2. QED BY <1>4, <2>1, MovesLoseNothing DEF SubmitOverflows
<1>5. ASSUME CancelSets(c) PROVE NoTaskDropped'
    <2>1. \A x \in Tasks : Placed(x)' <=> Placed(x)
        BY <1>5, SamePlaces DEF CancelSets
    <2>2. \A x \in Tasks : event[x] => event'[x]
        BY <1>5 DEF CancelSets, Signal, TypeOK, FuturesOK
    <2>3. QED BY <1>5, <2>1, <2>2, LosesNothing DEF CancelSets, Accounted
<1>6. QED BY <1>1, <1>2, <1>3, <1>4, <1>5

LEMMA WorkerLosesNothing ==
    ASSUME NoTaskDropped, Known, NEW w \in Workers, WorkerStep(w)
    PROVE  NoTaskDropped'
<1> USE DEF futures, Known
<1>0. /\ w \in Actors /\ (held[w] # NoTask => held[w] \in Tasks)
      /\ pc[w] \in {"check", "begin", "run"} <=> held[w] # NoTask
      /\ victim[w] \in Workers /\ event \in [Tasks -> BOOLEAN] /\ runs \in [Tasks -> Nat]
    BY ActorSorts DEF PlaceType, TypeOK, ThreadsOK, FuturesOK
<1>1. CASE PopLocal(w) /\ dq[w] # <<>>
    <2>1. \A x \in Tasks : Placed(x)' <=> Placed(x)
        BY <1>0, <1>1, TakePlaces DEF PopLocal
    <2>2. QED BY <1>1, <2>1, MovesLoseNothing DEF PopLocal
<1>2. CASE Steal(w) /\ dq[victim[w]] # <<>>
    <2>1. \A x \in Tasks : Placed(x)' <=> Placed(x)
        BY <1>0, <1>2, TakePlaces DEF Steal
    <2>2. QED BY <1>2, <2>1, MovesLoseNothing DEF Steal
<1>3. ASSUME \/ PopLocal(w) /\ dq[w] = <<>>
             \/ Steal(w) /\ dq[victim[w]] = <<>>
             \/ FindsNoVictim(w) \/ Begins(w) \/ Leaves(w)
             \/ \E v \in Workers : ChoosesVictim(w, v)
      PROVE  NoTaskDropped'
    <2>1. UNCHANGED <<fresh, dq, gq, held, event, runs>>
        BY <1>3 DEF PopLocal, Steal, FindsNoVictim, Begins, Leaves, ChoosesVictim
    <2>2. QED BY <2>1, SamePlaces, MovesLoseNothing
<1>4. CASE SkipsDone(w)
    BY <1>0, <1>4, DroppingDone DEF SkipsDone
<1>5. CASE Execute(w)
    <2>1. \A x \in Tasks : runs[x] > 0 => runs'[x] > 0
        BY <1>0, <1>5 DEF Execute
    <2>2. \A x \in Tasks : Placed(x)' <=> Placed(x)
        BY <1>5, SamePlaces DEF Execute
    <2>3. QED BY <1>5, <2>1, <2>2, LosesNothing DEF Execute, Accounted
<1>6. CASE Finish(w)
    <2>1. event'[held[w]] /\ \A x \in Tasks : event[x] => event'[x]
        BY <1>0, <1>6 DEF Finish, Signal
    <2>2. QED BY <1>0, <1>6, <2>1, DroppingDone DEF Finish
<1>7. CASE Dies(w)
    <2>1. runs'[held[w]] > 0
        BY <1>0, <1>7 DEF Dies, LifeInv
    <2>2. QED BY <1>0, <1>7, <2>1, DroppingDone DEF Dies
<1>8. QED BY <1>1, <1>2, <1>3, <1>4, <1>5, <1>6, <1>7 DEF WorkerStep

LEMMA DrainerLosesNothing ==
    ASSUME NoTaskDropped, Known, DrainStep
    PROVE  NoTaskDropped'
<1> USE DEF futures, Known
<1>0. /\ Drainer \in Actors
      /\ held[Drainer] # NoTask => held[Drainer] \in Tasks
    BY ActorSorts DEF PlaceType
<1>1. ASSUME NEW t \in gq, DrainPops(t) PROVE NoTaskDropped'
    <2>1. held'[Drainer] = t /\ \A a \in Actors \ {Drainer} : held'[a] = held[a]
        BY <1>0, <1>1 DEF DrainPops, Grabs, PlaceType
    <2>2. \A x \in Tasks : InHand(x) => InHand(x)'
        BY <1>0, <1>1, <2>1, SchedulerAssumption DEF DrainPops, InHand
    <2>3. ASSUME NEW x \in Tasks, Placed(x) PROVE Placed(x)'
        <3>1. CASE x = t
            BY <1>0, <2>1, <3>1 DEF Placed, InHand
        <3>2. CASE x # t
            BY <1>1, <2>2, <2>3, <3>2, SameDeques DEF DrainPops, Placed
        <3>3. QED BY <3>1, <3>2
    <2>4. QED BY <1>1, <2>3, LosesNothing DEF DrainPops, Accounted
<1>2. CASE DrainPauses \/ DrainWakes \/ (DrainChecks /\ ~event[held[Drainer]])
    BY <1>2, SamePlaces, MovesLoseNothing DEF DrainPauses, DrainWakes, DrainChecks
<1>3. CASE DrainChecks /\ event[held[Drainer]]
    BY <1>0, <1>3, DroppingDone DEF DrainChecks
<1>4. ASSUME NEW w \in Workers, DrainPlaces(w) PROVE NoTaskDropped'
    <2>1. \A x \in Tasks : Placed(x)' <=> Placed(x)
        BY <1>0, <1>4, PushPlaces DEF DrainPlaces
    <2>2. QED BY <1>4, <2>1, MovesLoseNothing DEF DrainPlaces
<1>5. ASSUME NEW w \in Workers, DrainPutsBack(w) PROVE NoTaskDropped'
    <2>1. \A x \in Tasks : Placed(x)' <=> Placed(x)
        BY <1>0, <1>5, DropPlaces DEF DrainPutsBack
    <2>2. QED BY <1>5, <2>1, MovesLoseNothing DEF DrainPutsBack
<1>6. QED BY <1>1, <1>2, <1>3, <1>4, <1>5 DEF DrainStep

\* Here the room is needed: the donor takes back what is returned to it.
LEMMA RebalancerLosesNothing ==
    ASSUME RoomForAll, NoTaskDropped, Known, RebalanceStep
    PROVE  NoTaskDropped'
<1> USE DEF futures, Known
<1>0. /\ Rebalancer \in Actors
      /\ held[Rebalancer] # NoTask =>
            held[Rebalancer] \in Tasks /\ move.donor \in Workers /\ move.recipient \in Workers
      /\ move.left > 0 => move.donor \in Workers
      /\ NoTask \notin Tasks
    BY ActorSorts, SchedulerAssumption DEF PlaceType
<1>1. ASSUME \/ \E d, r \in Workers : RebalanceBegins(d, r)
             \/ \E w \in Workers : RebalanceReads(w)
             \/ RebalanceWakes \/ RebalanceRests
             \/ RebalanceSteals /\ dq[move.donor] = <<>>
      PROVE  NoTaskDropped'
    <2>1. UNCHANGED <<fresh, dq, gq, held, event, runs>>
        BY <1>1 DEF RebalanceBegins, RebalanceReads, RebalanceWakes, RebalanceRests, RebalanceSteals
    <2>2. QED BY <2>1, SamePlaces, MovesLoseNothing
<1>2. CASE RebalanceSteals /\ dq[move.donor] # <<>>
    <2>1. \A x \in Tasks : Placed(x)' <=> Placed(x)
        BY <1>0, <1>2, TakePlaces DEF RebalanceSteals
    <2>2. QED BY <1>2, <2>1, MovesLoseNothing DEF RebalanceSteals
<1>3. ASSUME NEW w \in Workers, held[Rebalancer] # NoTask, LetsGo(Rebalancer),
             PushLocal(w, held[Rebalancer]), UNCHANGED <<fresh, gq, event, runs>>
      PROVE  NoTaskDropped'
    BY <1>0, <1>3, PushPlaces, MovesLoseNothing
<1>4. ASSUME held[Rebalancer] # NoTask PROVE HasRoom(move.donor)
    <2>1. ~InDeque(held[Rebalancer])
        BY <1>0, <1>4 DEF OnePlace, KindsDisjoint, InHand
    <2>2. QED BY <1>0, <1>4, <2>1, RoomLeft
<1>5. CASE RebalanceSkips
    BY <1>0, <1>3, <1>4, <1>5 DEF RebalanceSkips, PushOrLose
<1>6. CASE RebalanceMoves
    BY <1>0, <1>3, <1>6 DEF RebalanceMoves
<1>7. CASE RebalanceGivesUp
    BY <1>0, <1>3, <1>4, <1>7 DEF RebalanceGivesUp, PushOrLose
<1>8. QED BY <1>1, <1>2, <1>5, <1>6, <1>7 DEF RebalanceStep

LEMMA NothingLostNext ==
    RoomForAll /\ NoTaskDropped /\ Known /\ [Next]_vars => NoTaskDropped'
<1> SUFFICES ASSUME RoomForAll, NoTaskDropped, Known, [Next]_vars PROVE NoTaskDropped'
    OBVIOUS
<1>1. CASE Start \/ Stop \/ (\E w \in Workers : StopWorker(w)) \/ UNCHANGED vars
    <2>1. UNCHANGED <<fresh, dq, gq, held, event, runs>>
        BY <1>1 DEF Start, Stop, StopWorker, vars, futures
    <2>2. QED BY <2>1, SamePlaces, MovesLoseNothing DEF Known
<1>2. QED BY <1>1, ClientLosesNothing, WorkerLosesNothing, DrainerLosesNothing,
             RebalancerLosesNothing DEF Next

\* As long as there are no more tasks than a deque has slots, no task is dropped: through
\* every steal, migration, drain and stop, a submitted task has its future set, is where a
\* thread can reach it, or ended the thread that ran it (_rebalance_once and push_local of
\* aios_scheduler.py).
THEOREM NothingDroppedWithRoom == RoomForAll => (Spec => []NoTaskDropped)
<1>1. Init => NoTaskDropped /\ LifeInv
    BY LifeInit DEF Init, NoTaskDropped
<1>2. TypeOK /\ OnePlace /\ CalledOnce /\ LifeInv /\ TypeOK' /\ [Next]_vars => LifeInv'
    BY LifeInvNext, PlaceTypeOfTypeOK DEF Known
<1>3. RoomForAll /\ NoTaskDropped /\ TypeOK /\ OnePlace /\ CalledOnce /\ LifeInv /\ [Next]_vars
      => NoTaskDropped'
    BY NothingLostNext, PlaceTypeOfTypeOK DEF Known
<1>4. SUFFICES ASSUME RoomForAll PROVE Spec => []NoTaskDropped
    OBVIOUS
<1>5. TypeOK /\ OnePlace /\ CalledOnce /\ LifeInv /\ NoTaskDropped /\ [Next]_vars => NoTaskDropped'
    BY <1>3, <1>4
<1>6. QED BY <1>1, <1>2, <1>5, TypeCorrect, OnePlaceAlways, CalledOnceAlways, PTL DEF Spec
=============================================================================
