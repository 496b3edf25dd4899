---------------------------- MODULE ServiceProofs ---------------------------
(***************************************************************************)
(* What holds of the services for every number of threads, names, permits  *)
(* and addresses: the semaphores, the namespace, the event bus and the     *)
(* channels of os/core/aios_ipc.py, the address cache, the sentinel and the *)
(* name queries of os/networking/aios_network.py, the order in which the task *)
(* queues hand tasks out, and the swarm that answers them.                 *)
(***************************************************************************)
EXTENDS IpcServices, AddressCache, Sentinel, NameQueries, FrameDecoding, TaskOrder, Swarm,
        FiniteSetTheorems, SequenceTheorems, WellFoundedInduction, TLAPS

\* A topic reaches the subscribers whose pattern it fits and whom the index finds, a name
\* leads everybody to one object, and a reply answers the request that waits for it
\* (EventBus, IPCNamespace and Channel of aios_ipc.py).
MessagesFindTheirWay == RoutesByTopic /\ IndexFinds /\ HoldersAgree /\ RepliesMatch

\* Every task of the swarm is answered as often as its kind of task is, aged tasks are not
\* passed, a task goes at most one hop away from its node, and map gives the results in order
\* (SwarmController of asis_enhanced.py, _GlobalQueue, PlacementScorer and map of
\* aios_scheduler.py).
TasksAreServed == TasksAnswered /\ AgedAreNotPassed /\ NoTwoHops /\ MapInOrder

-----------------------------------------------------------------------------
(* Semaphores *)

(* Permits are counted in natural numbers.  That they never exceed MaxValue is not *)
(* needed here: it follows from the sum of what the threads own.                   *)
PermitsTyped ==
    /\ permits \in Nat
    /\ want \in [Threads -> Nat] /\ owned \in [Threads -> Nat]
    /\ waiting \in [Threads -> {"no", "asleep", "woken", "late"}]

SemaphoreInv == PermitsTyped /\ SleepersLackPermits

\* Semaphore.acquire and release: nobody sleeps while the permits it waits for are there.
\* An acquire sleeps only when they are not, a later acquire takes some away, and a
\* release, the only step that adds some, leaves nobody asleep.
THEOREM NobodyOversleeps == SemaphoreSpec => []SleepersLackPermits
<1> USE SemaphoreAssumption DEF SemaphoreInv, PermitsTyped, SleepersLackPermits
<1>1. SemaphoreInit => SemaphoreInv
    BY DEF SemaphoreInit
<1>2. SemaphoreInv /\ [SemaphoreNext]_semaphoreVars => SemaphoreInv'
    <2> SUFFICES ASSUME SemaphoreInv, [SemaphoreNext]_semaphoreVars PROVE SemaphoreInv'
        OBVIOUS
    <2>1. ASSUME NEW t \in Threads, NEW n \in 1..MaxValue, Acquire(t, n) PROVE SemaphoreInv'
        BY <2>1 DEF Acquire, SleepsForPermits, TakesPermits
    <2>2. ASSUME NEW t \in Threads, NEW n \in 1..MaxValue, Release(t, n) PROVE SemaphoreInv'
        BY <2>2 DEF Release
    <2>3. ASSUME NEW t \in Threads, LooksAgain(t) PROVE SemaphoreInv'
        BY <2>3 DEF LooksAgain, SleepsForPermits, TakesPermits
    <2>4. ASSUME NEW t \in Threads, AcquireTimesOut(t) PROVE SemaphoreInv'
        BY <2>4 DEF AcquireTimesOut
    <2>5. CASE UNCHANGED semaphoreVars
        BY <2>5 DEF semaphoreVars
    <2>6. QED BY <2>1, <2>2, <2>3, <2>4, <2>5 DEF SemaphoreNext
<1>3. SemaphoreInv => SleepersLackPermits
    OBVIOUS
<1>4. QED BY <1>1, <1>2, <1>3, PTL DEF SemaphoreSpec

-----------------------------------------------------------------------------
(* The namespace *)

NamespaceTyped ==
    /\ objects \in 0..MaxObjects
    /\ registry \in [Kinds -> [ObjectNames -> 0..objects]]
    /\ DOMAIN named = 1..MaxObjects
    /\ handle \in [Users -> 0..objects]
    /\ retired \subseteq 1..objects

(* A registered object was made for the name it is registered under, and every object *)
(* that was made and not retired is still registered: so there is one per name.       *)
RegistryKeeps ==
    /\ \A k \in Kinds, n \in ObjectNames : registry[k][n] # 0 =>
          named[registry[k][n]] = [kind |-> k, name |-> n]
    /\ \A o \in 1..objects \ retired : \E k \in Kinds, n \in ObjectNames :
          named[o] = [kind |-> k, name |-> n] /\ registry[k][n] = o

NamespaceInv == NamespaceTyped /\ RegistryKeeps

LEMMA NamespaceStarts == NamespaceInit => NamespaceInv
BY NamespaceAssumption DEF NamespaceInit, NamespaceInv, NamespaceTyped, RegistryKeeps

\* A step that leaves the dictionaries alone, and hands out at most what is in them.
LEMMA RegistryStays ==
    ASSUME NamespaceInv, UNCHANGED <<objects, registry, named, retired>>,
           handle' \in [Users -> 0..objects]
    PROVE  NamespaceInv'
<1>1. NamespaceTyped'
    BY DEF NamespaceInv, NamespaceTyped
<1>2. RegistryKeeps'
    <2>1. RegistryKeeps' = RegistryKeeps
        BY DEF RegistryKeeps
    <2>2. QED BY <2>1 DEF NamespaceInv
<1>3. QED BY <1>1, <1>2 DEF NamespaceInv

LEMMA GetsRegistered ==
    ASSUME NamespaceTyped, NEW k \in Kinds, NEW n \in ObjectNames
    PROVE  registry[k][n] \in 0..objects
BY DEF NamespaceTyped

LEMMA NamespaceSteps == NamespaceInv /\ [NamespaceNext]_namespaceVars => NamespaceInv'
<1> SUFFICES ASSUME NamespaceInv, [NamespaceNext]_namespaceVars PROVE NamespaceInv'
    OBVIOUS
<1>0. NamespaceTyped /\ RegistryKeeps
    BY DEF NamespaceInv
<1>a. ASSUME NEW u \in Users, NEW o \in 0..objects PROVE [handle EXCEPT ![u] = o] \in [Users -> 0..objects]
    BY <1>0, <1>a DEF NamespaceTyped
<1>1. ASSUME NEW u \in Users, NEW k \in Kinds, NEW n \in ObjectNames, GetOrCreate(u, k, n)
      PROVE  NamespaceInv'
    <2>1. CASE /\ handle' = [handle EXCEPT ![u] = registry[k][n]]
               /\ UNCHANGED <<objects, registry, named, contents>>
        BY <2>1, <1>0, <1>a, GetsRegistered, RegistryStays DEF contents
    <2>2. CASE /\ registry[k][n] = 0 /\ objects' = objects + 1 /\ objects < MaxObjects
               /\ registry' = [registry EXCEPT ![k][n] = objects + 1]
               /\ named' = [named EXCEPT ![objects + 1] = [kind |-> k, name |-> n]]
               /\ handle' = [handle EXCEPT ![u] = objects + 1]
               /\ UNCHANGED <<retired>>
        <3>1. NamespaceTyped'
            BY <1>0, <2>2, NamespaceAssumption DEF NamespaceTyped
        <3>2. \A l \in Kinds, m \in ObjectNames :
                 registry'[l][m] = IF l = k /\ m = n THEN objects + 1 ELSE registry[l][m]
            BY <1>0, <2>2 DEF NamespaceTyped
        <3>3. \A o \in 1..MaxObjects :
                 named'[o] = IF o = objects + 1 THEN [kind |-> k, name |-> n] ELSE named[o]
            BY <1>0, <2>2 DEF NamespaceTyped
        <3>4. objects + 1 \in 1..MaxObjects /\ \A o \in 0..objects : o # objects + 1
            BY <1>0, <2>2, NamespaceAssumption DEF NamespaceTyped
        <3>5. ASSUME NEW l \in Kinds, NEW m \in ObjectNames, registry'[l][m] # 0
              PROVE  named'[registry'[l][m]] = [kind |-> l, name |-> m]
            <4>1. CASE l = k /\ m = n
                BY <3>2, <3>3, <3>4, <4>1
            <4>2. CASE ~(l = k /\ m = n)
                <5>1. registry'[l][m] = registry[l][m] /\ registry[l][m] \in 1..objects
                    BY <1>0, <3>2, <3>5, <4>2, GetsRegistered DEF NamespaceTyped
                <5>2. registry[l][m] \in 1..MaxObjects /\ registry[l][m] # objects + 1
                    BY <1>0, <5>1, NamespaceAssumption DEF NamespaceTyped
                <5>3. QED BY <1>0, <3>3, <5>1, <5>2 DEF RegistryKeeps
            <4>3. QED BY <4>1, <4>2
        <3>6. ASSUME NEW o \in 1..objects' \ retired'
              PROVE  \E l \in Kinds, m \in ObjectNames :
                        named'[o] = [kind |-> l, name |-> m] /\ registry'[l][m] = o
            <4>1. CASE o = objects + 1
                BY <3>2, <3>3, <3>4, <4>1
            <4>2. CASE o # objects + 1
                <5>1. o \in 1..objects \ retired /\ o \in 1..MaxObjects
                    BY <1>0, <2>2, <4>2, NamespaceAssumption DEF NamespaceTyped
                <5>2. PICK l \in Kinds, m \in ObjectNames :
                         named[o] = [kind |-> l, name |-> m] /\ registry[l][m] = o
                    BY <1>0, <5>1 DEF RegistryKeeps
                <5>3. ~(l = k /\ m = n)
                    BY <2>2, <5>1, <5>2
                <5>4. named'[o] = named[o] /\ registry'[l][m] = registry[l][m]
                    BY <3>2, <3>3, <4>2, <5>1, <5>3
                <5>5. QED BY <5>2, <5>4
            <4>3. QED BY <4>1, <4>2
        <3>7. QED BY <3>1, <3>5, <3>6 DEF RegistryKeeps, NamespaceInv
    <2>3. QED BY <1>1, <2>1, <2>2 DEF GetOrCreate, contents
<1>2. ASSUME NEW u \in Users, NEW k \in Kinds, NEW n \in ObjectNames, Get(u, k, n)
      PROVE  NamespaceInv'
    BY <1>0, <1>2, <1>a, GetsRegistered, RegistryStays DEF Get, contents
<1>3. ASSUME NEW n \in ObjectNames, CloseQueue(n) PROVE NamespaceInv'
    <2> DEFINE o == registry["queue"][n]
    <2>1. /\ o # 0
          /\ registry' = [registry EXCEPT !["queue"][n] = 0]
          /\ retired' = retired \cup {o}
          /\ UNCHANGED <<objects, named, handle>>
        BY <1>3 DEF CloseQueue
    <2>2. "queue" \in Kinds /\ o \in 1..objects
        BY <1>0, <2>1, GetsRegistered DEF Kinds, NamespaceTyped
    <2>3. NamespaceTyped'
        <3>1. registry' \in [Kinds -> [ObjectNames -> 0..objects]]
            BY <1>0, <2>1, <2>2 DEF NamespaceTyped
        <3>2. QED BY <1>0, <2>1, <2>2, <3>1 DEF NamespaceTyped
    <2>4. \A l \in Kinds, m \in ObjectNames :
             registry'[l][m] = IF l = "queue" /\ m = n THEN 0 ELSE registry[l][m]
        BY <1>0, <2>1, <2>2 DEF NamespaceTyped
    <2>5. \A l \in Kinds, m \in ObjectNames : registry'[l][m] # 0 =>
             named'[registry'[l][m]] = [kind |-> l, name |-> m]
        BY <1>0, <2>1, <2>4 DEF RegistryKeeps
    <2>6. ASSUME NEW p \in 1..objects' \ retired'
          PROVE  \E l \in Kinds, m \in ObjectNames :
                    named'[p] = [kind |-> l, name |-> m] /\ registry'[l][m] = p
        <3>1. p \in 1..objects \ retired /\ p # o
            BY <2>1
        <3>2. PICK l \in Kinds, m \in ObjectNames :
                 named[p] = [kind |-> l, name |-> m] /\ registry[l][m] = p
            BY <1>0, <3>1 DEF RegistryKeeps
        <3>3. registry'[l][m] = p /\ named'[p] = named[p]
            BY <2>1, <2>4, <3>1, <3>2
        <3>4. QED BY <3>2, <3>3
    <2>7. QED BY <2>3, <2>5, <2>6 DEF RegistryKeeps, NamespaceInv
<1>4. ASSUME UNCHANGED <<objects, registry, named, retired, handle>> PROVE NamespaceInv'
    BY <1>0, <1>4, RegistryStays DEF NamespaceTyped
<1>5. ASSUME NEW u \in Users, SendsOn(u) \/ ReceivesFrom(u) PROVE NamespaceInv'
    BY <1>4, <1>5 DEF SendsOn, ReceivesFrom
<1>6. CASE UNCHANGED namespaceVars
    BY <1>4, <1>6 DEF namespaceVars
<1>7. QED BY <1>1, <1>2, <1>3, <1>5, <1>6 DEF NamespaceNext

\* "Objects are registered by name and can be retrieved from any thread/agent"
\* (IPCNamespace): whoever holds objects of one kind and name holds the same one, unless
\* close_queue was asked to close one of them.
THEOREM NamesLeadToOne == NamespaceSpec => []HoldersAgree
<1>1. NamespaceInv => HoldersAgree
    <2> SUFFICES ASSUME NamespaceInv, NEW u \in Users, NEW v \in Users,
                        handle[u] # 0, handle[v] # 0, SameName(handle[u], handle[v]),
                        handle[u] \notin retired, handle[v] \notin retired
                 PROVE  handle[u] = handle[v]
        BY DEF HoldersAgree
    <2>1. handle[u] \in 1..objects \ retired /\ handle[v] \in 1..objects \ retired
        BY DEF NamespaceInv, NamespaceTyped
    <2>2. PICK k \in Kinds, n \in ObjectNames :
             named[handle[u]] = [kind |-> k, name |-> n] /\ registry[k][n] = handle[u]
        BY <2>1 DEF NamespaceInv, RegistryKeeps
    <2>3. PICK l \in Kinds, m \in ObjectNames :
             named[handle[v]] = [kind |-> l, name |-> m] /\ registry[l][m] = handle[v]
        BY <2>1 DEF NamespaceInv, RegistryKeeps
    <2>4. [kind |-> k, name |-> n] = [kind |-> l, name |-> m]
        BY <2>2, <2>3 DEF SameName
    <2>5. k = l /\ n = m
        BY <2>4
    <2>6. QED BY <2>2, <2>3, <2>5
<1>2. QED BY <1>1, NamespaceStarts, NamespaceSteps, PTL DEF NamespaceSpec

-----------------------------------------------------------------------------
(* Channels *)

Messages == [from : ChannelAgents, kind : {"request", "reply"}, of : Nat]

ChannelTyped ==
    /\ side \in [ChannelAgents -> Sides \cup {"none", "refused"}]
    /\ mailbox \in [Sides -> Seq(Messages)]
    /\ request \in [ChannelAgents -> Nat] /\ asked \in [ChannelAgents -> Nat]
    /\ gaveUp \in [ChannelAgents -> BOOLEAN]
    /\ answers \in [ChannelAgents -> [to : Nat, of : Nat]]

\* A side has one endpoint, and the first one to be given is side a.
EndpointsApart ==
    /\ \A a, b \in ChannelAgents : side[a] \in Sides /\ side[b] = side[a] => a = b
    /\ \A b \in ChannelAgents : side[b] = "b" => \E a \in ChannelAgents : side[a] = "a"

\* Who sent a message has the endpoint of the other side.
SentFromOpposite ==
    \A s \in Sides : \A i \in DOMAIN mailbox[s] : side[mailbox[s][i].from] = Other(s)

\* Only who has an endpoint and has asked waits, for what it asked last.
WaitsForLast ==
    \A a \in ChannelAgents : request[a] # 0 =>
        request[a] = asked[a] /\ side[a] \in Sides

\* The agent's requests are the only ones, and each was answered in time.
AloneAndPatient(a) == ~gaveUp[a] /\ \A b \in ChannelAgents \ {a} : asked[b] = 0

(* What travels then: nothing between two requests of the agent, and during one either *)
(* the request to the partner or the reply from it, and nothing else.                  *)
OneAtATime(a) ==
    /\ request[a] = 0 => \A s \in Sides : mailbox[s] = <<>>
    /\ request[a] # 0 =>
          \/ mailbox[side[a]] = <<>> /\ \E m \in Messages :
                mailbox[Other(side[a])] = <<m>> /\ m.of = request[a]
          \/ mailbox[Other(side[a])] = <<>> /\ \E m \in Messages :
                mailbox[side[a]] = <<m>> /\ m.kind = "reply" /\ m.of = request[a]
    /\ answers[a].of = answers[a].to

ChannelInv ==
    /\ ChannelTyped /\ EndpointsApart /\ SentFromOpposite /\ WaitsForLast
    /\ \A a \in ChannelAgents : AloneAndPatient(a) => OneAtATime(a)

LEMMA OtherSide ==
    /\ \A s \in Sides : Other(s) \in Sides /\ Other(s) # s /\ Other(Other(s)) = s
    /\ \A s, r \in Sides : s # r => r = Other(s)
    /\ "none" \notin Sides /\ "refused" \notin Sides
BY DEF Other, Sides

LEMMA MessageFields ==
    ASSUME NEW q \in Seq(Messages), NEW i \in DOMAIN q
    PROVE  q[i] \in Messages /\ q[i].from \in ChannelAgents /\ q[i].of \in Nat
<1>1. q[i] \in Messages
    OBVIOUS
<1>2. QED BY <1>1 DEF Messages

LEMMA TailAt ==
    ASSUME NEW q \in Seq(Messages), q # <<>>, NEW i \in DOMAIN Tail(q)
    PROVE  i + 1 \in DOMAIN q /\ Tail(q)[i] = q[i + 1]
<1>1. Len(Tail(q)) = Len(q) - 1 /\ i \in 1..Len(Tail(q)) /\ Len(q) \in Nat
    OBVIOUS
<1>2. QED BY <1>1

LEMMA ChannelStarts == ChannelInit => ChannelInv
<1> SUFFICES ASSUME ChannelInit PROVE ChannelInv
    OBVIOUS
<1>1. ChannelTyped
    BY DEF ChannelInit, ChannelTyped
<1>2. EndpointsApart /\ SentFromOpposite /\ WaitsForLast
    BY OtherSide DEF ChannelInit, EndpointsApart, SentFromOpposite, WaitsForLast, Sides
<1>3. \A a \in ChannelAgents : OneAtATime(a)
    BY DEF ChannelInit, OneAtATime
<1>4. QED BY <1>1, <1>2, <1>3 DEF ChannelInv

\* endpoint(name) of ChannelEndpoint's channel, given to an agent that has none.
LEMMA EndpointKeeps ==
    ASSUME ChannelInv, NEW a \in ChannelAgents, Endpoint(a)
    PROVE  ChannelInv'
<1>0. ChannelTyped /\ EndpointsApart /\ SentFromOpposite /\ WaitsForLast
    BY DEF ChannelInv
<1>1. /\ side[a] = "none" /\ side' = [side EXCEPT ![a] = NextSide]
      /\ UNCHANGED <<mailbox, request, asked, gaveUp, answers>>
    BY DEF Endpoint
<1>2. NextSide \in Sides \cup {"refused"}
    BY DEF NextSide, Sides
<1>3. /\ side'[a] = NextSide
      /\ \A b \in ChannelAgents : b # a => side'[b] = side[b]
    BY <1>0, <1>1 DEF ChannelTyped
<1>4. ChannelTyped'
    BY <1>0, <1>1, <1>2 DEF ChannelTyped
<1>5. ASSUME NextSide \in Sides PROVE \A b \in ChannelAgents : side[b] # NextSide
    BY <1>0, <1>5, OtherSide DEF NextSide, Taken, EndpointsApart, Sides
<1>6. EndpointsApart'
    <2>1. ASSUME NEW b \in ChannelAgents, NEW c \in ChannelAgents,
                 side'[b] \in Sides, side'[c] = side'[b]
          PROVE  b = c
        BY <1>0, <1>3, <1>5, <2>1 DEF EndpointsApart
    <2>2. ASSUME NEW b \in ChannelAgents, side'[b] = "b"
          PROVE  \E c \in ChannelAgents : side'[c] = "a"
        <3>1. CASE b # a
            <4>1. PICK c \in ChannelAgents : side[c] = "a"
                BY <1>0, <1>3, <2>2, <3>1 DEF EndpointsApart
            <4>2. QED BY <1>1, <1>3, <4>1
        <3>2. CASE b = a
            <4>1. Taken # {}
                BY <1>3, <2>2, <3>2 DEF NextSide
            <4>2. PICK c \in ChannelAgents : side[c] = "a"
                BY <1>0, <4>1 DEF Taken, EndpointsApart, Sides
            <4>3. QED BY <1>1, <1>3, <4>2
        <3>3. QED BY <3>1, <3>2
    <2>3. QED BY <2>1, <2>2 DEF EndpointsApart
<1>7. SentFromOpposite'
    <2>1. ASSUME NEW s \in Sides, NEW i \in DOMAIN mailbox[s]
          PROVE  side'[mailbox[s][i].from] = Other(s)
        <3>1. mailbox[s][i].from \in ChannelAgents
            BY <1>0, MessageFields DEF ChannelTyped
        <3>2. side[mailbox[s][i].from] = Other(s)
            BY <1>0 DEF SentFromOpposite
        <3>3. QED BY <1>1, <1>3, <3>1, <3>2, OtherSide
    <2>2. QED BY <1>1, <2>1 DEF SentFromOpposite
<1>8. WaitsForLast'
    BY <1>0, <1>1, <1>3, OtherSide DEF WaitsForLast
<1>9. ASSUME NEW b \in ChannelAgents, AloneAndPatient(b)' PROVE OneAtATime(b)'
    <2>1. OneAtATime(b)
        BY <1>1, <1>9 DEF AloneAndPatient, ChannelInv
    <2>2. request[b] # 0 => side'[b] = side[b]
        BY <1>0, <1>1, <1>3, OtherSide DEF WaitsForLast
    <2>3. QED BY <1>1, <2>1, <2>2 DEF OneAtATime
<1>10. QED BY <1>4, <1>6, <1>7, <1>8, <1>9 DEF ChannelInv

\* request, the first half.
LEMMA RequestKeeps ==
    ASSUME ChannelInv, NEW a \in ChannelAgents, Request(a)
    PROVE  ChannelInv'
<1>0. ChannelTyped /\ EndpointsApart /\ SentFromOpposite /\ WaitsForLast
    BY DEF ChannelInv
<1> DEFINE m == [from |-> a, kind |-> "request", of |-> asked[a] + 1]
           far == Other(side[a])
<1>1. /\ side[a] \in Sides /\ request[a] = 0
      /\ asked' = [asked EXCEPT ![a] = asked[a] + 1]
      /\ request' = [request EXCEPT ![a] = asked[a] + 1]
      /\ mailbox' = [mailbox EXCEPT ![far] = Append(mailbox[far], m)]
      /\ UNCHANGED <<side, gaveUp, answers>>
    BY <1>0 DEF Request, CanSend, ChannelTyped
<1>2. far \in Sides /\ m \in Messages /\ far # side[a] /\ Other(far) = side[a]
    BY <1>0, <1>1, OtherSide DEF ChannelTyped, Messages
<1>3. ChannelTyped'
    BY <1>0, <1>1, <1>2 DEF ChannelTyped
<1>4. /\ mailbox'[far] = Append(mailbox[far], m) /\ mailbox[far] \in Seq(Messages)
      /\ \A s \in Sides : s # far => mailbox'[s] = mailbox[s]
    BY <1>0, <1>1, <1>2 DEF ChannelTyped
<1>5. EndpointsApart'
    BY <1>0, <1>1 DEF EndpointsApart
<1>6. SentFromOpposite'
    <2>1. ASSUME NEW s \in Sides, NEW i \in DOMAIN mailbox'[s]
          PROVE  side[mailbox'[s][i].from] = Other(s)
        <3>1. CASE s # far
            BY <1>0, <1>4, <2>1, <3>1 DEF SentFromOpposite
        <3>2. CASE s = far /\ i \in DOMAIN mailbox[far]
            <4>1. mailbox'[s][i] = mailbox[far][i]
                BY <1>2, <1>4, <3>2
            <4>2. QED BY <1>0, <1>2, <3>2, <4>1 DEF SentFromOpposite
        <3>3. CASE s = far /\ i \notin DOMAIN mailbox[far]
            <4>1. mailbox'[s][i] = m
                BY <1>2, <1>4, <2>1, <3>3
            <4>2. QED BY <1>2, <3>3, <4>1
        <3>4. QED BY <3>1, <3>2, <3>3
    <2>2. QED BY <1>1, <2>1 DEF SentFromOpposite
<1>7. WaitsForLast'
    BY <1>0, <1>1 DEF WaitsForLast, ChannelTyped
<1>8. ASSUME NEW b \in ChannelAgents, AloneAndPatient(b)' PROVE OneAtATime(b)'
    <2>1. a = b
        BY <1>0, <1>1, <1>8 DEF AloneAndPatient, ChannelTyped
    <2>2. AloneAndPatient(a)
        BY <1>0, <1>1, <1>8, <2>1 DEF AloneAndPatient, ChannelTyped
    <2>3. OneAtATime(a)
        BY <2>2 DEF ChannelInv
    <2>4. mailbox'[far] = <<m>> /\ mailbox'[side[a]] = <<>>
        <3>1. mailbox[far] = <<>> /\ mailbox[side[a]] = <<>>
            BY <1>1, <1>2, <2>3 DEF OneAtATime
        <3>2. Append(<<>>, m) = <<m>>
            OBVIOUS
        <3>3. QED BY <1>1, <1>2, <1>4, <3>1, <3>2
    <2>5. request'[a] = m.of /\ request'[a] # 0
        BY <1>0, <1>1 DEF ChannelTyped
    <2>6. QED BY <1>1, <1>2, <2>1, <2>3, <2>4, <2>5 DEF OneAtATime
<1>9. QED BY <1>3, <1>5, <1>6, <1>7, <1>8 DEF ChannelInv

\* ... and the second half: what comes next is the reply.
LEMMA RequestReturnsKeeps ==
    ASSUME ChannelInv, NEW a \in ChannelAgents, RequestReturns(a)
    PROVE  ChannelInv'
<1>0. ChannelTyped /\ EndpointsApart /\ SentFromOpposite /\ WaitsForLast
    BY DEF ChannelInv
<1> DEFINE near == side[a]
           q == mailbox[near]
           answer == [to |-> request[a], of |-> IF Head(q).kind = "reply" THEN Head(q).of ELSE 0]
<1>1. /\ request[a] # 0 /\ q # <<>>
      /\ answers' = [answers EXCEPT ![a] = answer]
      /\ mailbox' = [mailbox EXCEPT ![near] = Tail(q)]
      /\ request' = [request EXCEPT ![a] = 0]
      /\ UNCHANGED <<side, asked, gaveUp>>
    BY <1>0 DEF RequestReturns, WaitsForLast, ChannelTyped
<1>2. near \in Sides /\ q \in Seq(Messages) /\ Head(q) = q[1] /\ 1 \in DOMAIN q
    BY <1>0, <1>1 DEF WaitsForLast, ChannelTyped
<1>3. answer \in [to : Nat, of : Nat]
    <2>1. Head(q).of \in Nat
        BY <1>2, MessageFields
    <2>2. QED BY <1>0, <2>1 DEF ChannelTyped
<1>4. ChannelTyped'
    <2>1. Tail(q) \in Seq(Messages)
        BY <1>1, <1>2
    <2>2. answers' \in [ChannelAgents -> [to : Nat, of : Nat]]
        <3> HIDE DEF answer
        <3>1. QED BY <1>0, <1>1, <1>3 DEF ChannelTyped
    <2>3. mailbox' \in [Sides -> Seq(Messages)]
        BY <1>0, <1>1, <1>2, <2>1 DEF ChannelTyped
    <2>4. QED BY <1>0, <1>1, <2>2, <2>3 DEF ChannelTyped
<1>5. mailbox'[near] = Tail(q) /\ \A s \in Sides : s # near => mailbox'[s] = mailbox[s]
    BY <1>0, <1>1, <1>2 DEF ChannelTyped
<1>6. EndpointsApart' /\ WaitsForLast'
    BY <1>0, <1>1 DEF EndpointsApart, WaitsForLast, ChannelTyped
<1>7. SentFromOpposite'
    <2>1. ASSUME NEW s \in Sides, NEW i \in DOMAIN mailbox'[s]
          PROVE  side[mailbox'[s][i].from] = Other(s)
        <3>1. CASE s # near
            BY <1>0, <1>5, <2>1, <3>1 DEF SentFromOpposite
        <3>2. CASE s = near
            <4>1. i + 1 \in DOMAIN q /\ mailbox'[s][i] = q[i + 1]
                <5>1. mailbox'[s] = Tail(q) /\ i \in DOMAIN Tail(q)
                    BY <1>5, <2>1, <3>2
                <5>2. q \in Seq(Messages) /\ q # <<>>
                    BY <1>1, <1>2
                <5> HIDE DEF q, near
                <5>3. QED BY <5>1, <5>2, TailAt
            <4>2. QED BY <1>0, <1>2, <3>2, <4>1 DEF SentFromOpposite
        <3>3. QED BY <3>1, <3>2
    <2>2. QED BY <1>1, <2>1 DEF SentFromOpposite
<1>8. ASSUME NEW b \in ChannelAgents, AloneAndPatient(b)' PROVE OneAtATime(b)'
    <2>1. asked[a] # 0
        BY <1>0, <1>1 DEF WaitsForLast
    <2>2. a = b
        BY <1>1, <1>8, <2>1 DEF AloneAndPatient
    <2>3. OneAtATime(a)
        BY <1>1, <1>8, <2>2 DEF AloneAndPatient, ChannelInv
    <2>4. PICK m \in Messages : mailbox[Other(near)] = <<>> /\ q = <<m>> /\ m.kind = "reply"
                                /\ m.of = request[a]
        BY <1>1, <2>3 DEF OneAtATime
    <2>5. Head(q) = m /\ Tail(q) = <<>>
        BY <2>4
    <2>6. answers'[a] = [to |-> request[a], of |-> request[a]]
        BY <1>0, <1>1, <2>4, <2>5 DEF ChannelTyped
    <2>7. request'[a] = 0
        BY <1>0, <1>1 DEF ChannelTyped
    <2>8. \A s \in Sides : mailbox'[s] = <<>>
        BY <1>2, <1>5, <2>4, <2>5, OtherSide
    <2>9. QED BY <2>2, <2>6, <2>7, <2>8 DEF OneAtATime
<1>9. QED BY <1>4, <1>6, <1>7, <1>8 DEF ChannelInv

LEMMA TimeoutKeeps ==
    ASSUME ChannelInv, NEW a \in ChannelAgents, RequestTimesOut(a)
    PROVE  ChannelInv'
<1>0. ChannelTyped /\ EndpointsApart /\ SentFromOpposite /\ WaitsForLast
    BY DEF ChannelInv
<1>1. /\ request[a] # 0
      /\ request' = [request EXCEPT ![a] = 0]
      /\ gaveUp' = [gaveUp EXCEPT ![a] = TRUE]
      /\ UNCHANGED <<side, mailbox, asked, answers>>
    BY DEF RequestTimesOut
<1>2. gaveUp' \in [ChannelAgents -> BOOLEAN]
    BY <1>0, <1>1, Zenon DEF ChannelTyped
<1>3. ChannelTyped'
    BY <1>0, <1>1, <1>2 DEF ChannelTyped
<1>4. EndpointsApart' /\ WaitsForLast'
    BY <1>0, <1>1 DEF EndpointsApart, WaitsForLast, ChannelTyped
<1>5. SentFromOpposite'
    BY <1>0, <1>1 DEF SentFromOpposite
<1>6. ~AloneAndPatient(a)'
    BY <1>0, <1>1, Zenon DEF AloneAndPatient, ChannelTyped
<1>7. \A b \in ChannelAgents : b # a => ~AloneAndPatient(b)'
    BY <1>0, <1>1 DEF AloneAndPatient, WaitsForLast
<1>8. QED BY <1>3, <1>4, <1>5, <1>6, <1>7 DEF ChannelInv

\* The partner turns the request into the reply.
LEMMA ServesKeeps ==
    ASSUME ChannelInv, NEW a \in ChannelAgents, Serves(a)
    PROVE  ChannelInv'
<1>0. ChannelTyped /\ EndpointsApart /\ SentFromOpposite /\ WaitsForLast
    BY DEF ChannelInv
<1> DEFINE near == side[a]
           far == Other(near)
           q == mailbox[near]
           reply == [Head(q) EXCEPT !.kind = "reply", !.from = a]
<1>1. /\ asked[a] = 0 /\ near \in Sides /\ q # <<>>
      /\ mailbox' = [mailbox EXCEPT ![near] = Tail(@), ![far] = Append(@, reply)]
      /\ UNCHANGED <<side, request, asked, gaveUp, answers>>
    BY DEF Serves, CanSend
<1>2. /\ far \in Sides /\ near # far /\ Other(far) = near
      /\ q \in Seq(Messages) /\ mailbox[far] \in Seq(Messages)
      /\ 1 \in DOMAIN q /\ Head(q) = q[1]
    BY <1>0, <1>1, OtherSide DEF ChannelTyped
<1>3. /\ reply \in Messages /\ reply.from = a /\ reply.kind = "reply"
      /\ reply.of = Head(q).of
    <2>1. Head(q) \in Messages
        BY <1>2, MessageFields
    <2>2. QED BY <2>1 DEF Messages
<1>4. /\ mailbox'[near] = Tail(q) /\ mailbox'[far] = Append(mailbox[far], reply)
      /\ \A s \in Sides : s = near \/ s = far
    BY <1>0, <1>1, <1>2, OtherSide DEF ChannelTyped
<1> HIDE DEF reply
<1>5. ChannelTyped'
    <2>1. Tail(q) \in Seq(Messages) /\ Append(mailbox[far], reply) \in Seq(Messages)
        BY <1>1, <1>2, <1>3
    <2>2. mailbox' \in [Sides -> Seq(Messages)]
        BY <1>0, <1>1, <1>2, <2>1 DEF ChannelTyped
    <2>3. QED BY <1>0, <1>1, <2>2 DEF ChannelTyped
<1>6. EndpointsApart' /\ WaitsForLast'
    BY <1>0, <1>1 DEF EndpointsApart, WaitsForLast
<1>7. SentFromOpposite'
    <2>1. ASSUME NEW i \in DOMAIN mailbox'[near]
          PROVE  side[mailbox'[near][i].from] = far
        <3>1. i + 1 \in DOMAIN q /\ mailbox'[near][i] = q[i + 1]
            <4>1. mailbox'[near] = Tail(q) /\ i \in DOMAIN Tail(q)
                BY <1>4, <2>1
            <4>2. q \in Seq(Messages) /\ q # <<>>
                BY <1>1, <1>2
            <4> HIDE DEF q, near
            <4>3. QED BY <4>1, <4>2, TailAt
        <3>2. QED BY <1>0, <1>1, <3>1 DEF SentFromOpposite
    <2>2. ASSUME NEW i \in DOMAIN mailbox'[far]
          PROVE  side[mailbox'[far][i].from] = near
        <3>1. CASE i \in DOMAIN mailbox[far]
            <4>1. mailbox'[far][i] = mailbox[far][i]
                BY <1>2, <1>3, <1>4, <3>1
            <4>2. QED BY <1>0, <1>2, <3>1, <4>1 DEF SentFromOpposite
        <3>2. CASE i \notin DOMAIN mailbox[far]
            <4>1. mailbox'[far][i] = reply
                BY <1>2, <1>3, <1>4, <2>2, <3>2
            <4>2. QED BY <1>3, <4>1
        <3>3. QED BY <3>1, <3>2
    <2>3. QED BY <1>1, <1>2, <1>4, <2>1, <2>2 DEF SentFromOpposite
<1>8. ASSUME NEW b \in ChannelAgents, AloneAndPatient(b)' PROVE OneAtATime(b)'
    <2>1. OneAtATime(b)
        BY <1>1, <1>8 DEF AloneAndPatient, ChannelInv
    <2>2. request[b] # 0
        BY <1>1, <2>1 DEF OneAtATime
    <2>3. b # a /\ side[b] \in Sides
        BY <1>0, <1>1, <2>2 DEF WaitsForLast
    <2>4. side[b] = far
        BY <1>0, <1>1, <1>4, <2>3 DEF EndpointsApart
    <2>5. PICK m \in Messages : mailbox[far] = <<>> /\ q = <<m>> /\ m.of = request[b]
        BY <1>1, <1>2, <2>1, <2>2, <2>4 DEF OneAtATime
    <2>6. mailbox'[near] = <<>> /\ mailbox'[far] = <<reply>> /\ reply.of = request[b]
        BY <1>3, <1>4, <2>5
    <2>7. QED BY <1>1, <1>2, <1>3, <2>1, <2>2, <2>4, <2>6 DEF OneAtATime
<1>9. QED BY <1>5, <1>6, <1>7, <1>8 DEF ChannelInv

\* "Send msg and wait for a reply on the same channel" (ChannelEndpoint.request): if the
\* partner only answers and none of the agent's requests timed out, every request returns
\* its own reply; and nobody ever receives what it sent itself.
THEOREM RepliesAreToTheQuestion == ChannelSpec => []RepliesMatch
<1>1. ChannelInv /\ [ChannelNext]_channelVars => ChannelInv'
    <2> SUFFICES ASSUME ChannelInv, [ChannelNext]_channelVars PROVE ChannelInv'
        OBVIOUS
    <2>1. ASSUME NEW a \in ChannelAgents,
                 \/ Endpoint(a) \/ Request(a) \/ RequestReturns(a)
                 \/ RequestTimesOut(a) \/ Serves(a)
          PROVE  ChannelInv'
        BY <2>1, EndpointKeeps, RequestKeeps, RequestReturnsKeeps, TimeoutKeeps, ServesKeeps
    <2>2. CASE UNCHANGED channelVars
        BY <2>2 DEF channelVars, ChannelInv, ChannelTyped, EndpointsApart, SentFromOpposite,
                    WaitsForLast, AloneAndPatient, OneAtATime
    <2>3. QED BY <2>1, <2>2 DEF ChannelNext
<1>2. ChannelInv => RepliesMatch
    <2> SUFFICES ASSUME ChannelInv PROVE RepliesMatch
        OBVIOUS
    <2>1. \A a \in ChannelAgents, s \in Sides : \A i \in DOMAIN mailbox[s] :
             mailbox[s][i].from = a => side[a] = Other(s)
        BY DEF ChannelInv, SentFromOpposite
    <2>2. ASSUME NEW a \in ChannelAgents, ~gaveUp[a],
                 \A b \in ChannelAgents \ {a} : asked[b] = 0
          PROVE  answers[a].of = answers[a].to
        BY <2>2 DEF ChannelInv, AloneAndPatient, OneAtATime
    <2>3. QED BY <2>1, <2>2 DEF RepliesMatch
<1>3. QED BY ChannelStarts, <1>1, <1>2, PTL DEF ChannelSpec

-----------------------------------------------------------------------------
(* The event bus: patterns *)

LEMMA LeastNumber ==
    ASSUME NEW T \in SUBSET Nat, T # {}
    PROVE  \E m \in T : \A n \in T : m <= n
<1>1. PICK m \in T : \A n \in T : ~(<<n, m>> \in OpToRel(<, Nat))
    BY NatLessThanWellFounded, WFMin
<1>2. \A n \in T : ~(n < m)
    BY <1>1 DEF OpToRel
<1>3. QED BY <1>2

\* cut gives the segments of the pattern from the p-th on their stretches of the topic from
\* the t-th on: what TopicMatches looks for from (p, t).
CutsFrom(cut, pattern, topic, p, t) ==
    /\ cut \in [p - 1..Len(pattern) -> 0..Len(topic)]
    /\ cut[p - 1] = t - 1 /\ cut[Len(pattern)] = Len(topic)
    /\ \A k \in p..Len(pattern) :
          IF pattern[k] = "**" THEN cut[k - 1] <= cut[k]
          ELSE cut[k] = cut[k - 1] + 1 /\ pattern[k] \in {"*", topic[cut[k]]}

CoversFrom(pattern, topic, p, t) == \E cut : CutsFrom(cut, pattern, topic, p, t)

LEMMA CoversFromStart ==
    ASSUME NEW pattern, NEW topic, Len(pattern) \in Nat, Len(topic) \in Nat
    PROVE  Covers(pattern, topic) <=> CoversFrom(pattern, topic, 1, 1)
    BY DEF Covers, CoversFrom, CutsFrom

\* Behind the last segment of the pattern, the topic has to be over.
LEMMA CoversAtEnd ==
    ASSUME NEW pattern, NEW topic, Len(pattern) \in Nat, Len(topic) \in Nat,
           NEW p, p = Len(pattern) + 1, NEW t \in 1..Len(topic) + 1
    PROVE  CoversFrom(pattern, topic, p, t) <=> t > Len(topic)
<1>1. ASSUME NEW cut, CutsFrom(cut, pattern, topic, p, t) PROVE t > Len(topic)
    BY <1>1 DEF CutsFrom
<1>2. ASSUME t > Len(topic) PROVE CoversFrom(pattern, topic, p, t)
    <2> DEFINE cut == [k \in p - 1..Len(pattern) |-> t - 1]
    <2>1. CutsFrom(cut, pattern, topic, p, t)
        BY <1>2 DEF CutsFrom
    <2>2. QED BY <2>1 DEF CoversFrom
<1>3. QED BY <1>1, <1>2 DEF CoversFrom

\* A stretch for the p-th segment, and stretches for the ones behind it.
LEMMA CoversNext ==
    ASSUME NEW pattern, NEW topic, Len(pattern) \in Nat, Len(topic) \in Nat,
           NEW p \in 1..Len(pattern), NEW t \in 1..Len(topic) + 1
    PROVE  CoversFrom(pattern, topic, p, t) <=>
             IF pattern[p] = "**"
             THEN \E skip \in t..Len(topic) + 1 : CoversFrom(pattern, topic, p + 1, skip)
             ELSE /\ t <= Len(topic) /\ pattern[p] \in {"*", topic[t]}
                  /\ CoversFrom(pattern, topic, p + 1, t + 1)
<1>1. ASSUME NEW cut, CutsFrom(cut, pattern, topic, p, t)
      PROVE  /\ cut[p] \in 0..Len(topic) /\ CoversFrom(pattern, topic, p + 1, cut[p] + 1)
             /\ IF pattern[p] = "**" THEN t - 1 <= cut[p]
                ELSE cut[p] = t /\ pattern[p] \in {"*", topic[t]}
    <2> DEFINE rest == [k \in p..Len(pattern) |-> cut[k]]
    <2>1. CutsFrom(rest, pattern, topic, p + 1, cut[p] + 1)
        BY <1>1 DEF CutsFrom
    <2>2. CoversFrom(pattern, topic, p + 1, cut[p] + 1)
        BY <2>1 DEF CoversFrom
    <2>3. QED BY <1>1, <2>2, SMTT(30) DEF CutsFrom
<1>2. ASSUME NEW skip \in t..Len(topic) + 1, CoversFrom(pattern, topic, p + 1, skip),
             IF pattern[p] = "**" THEN TRUE
             ELSE skip = t + 1 /\ t <= Len(topic) /\ pattern[p] \in {"*", topic[t]}
      PROVE  CoversFrom(pattern, topic, p, t)
    <2>1. PICK rest : CutsFrom(rest, pattern, topic, p + 1, skip)
        BY <1>2 DEF CoversFrom
    <2> DEFINE cut == [k \in p - 1..Len(pattern) |-> IF k = p - 1 THEN t - 1 ELSE rest[k]]
    <2>2. /\ rest \in [p..Len(pattern) -> 0..Len(topic)]
          /\ rest[p] = skip - 1 /\ rest[Len(pattern)] = Len(topic)
        BY <2>1 DEF CutsFrom
    <2>3. cut \in [p - 1..Len(pattern) -> 0..Len(topic)]
        BY <2>2, SMTT(30)
    <2>4. cut[p - 1] = t - 1 /\ cut[p] = skip - 1 /\ cut[Len(pattern)] = Len(topic)
        BY <2>2
    <2>5. ASSUME NEW k \in p..Len(pattern)
          PROVE  IF pattern[k] = "**" THEN cut[k - 1] <= cut[k]
                 ELSE cut[k] = cut[k - 1] + 1 /\ pattern[k] \in {"*", topic[cut[k]]}
        <3>1. CASE k = p
            BY <1>2, <2>4, <3>1, SMTT(30)
        <3>2. CASE k # p
            <4>1. k \in p + 1..Len(pattern) /\ cut[k] = rest[k] /\ cut[k - 1] = rest[k - 1]
                BY <3>2
            <4>2. QED BY <2>1, <4>1 DEF CutsFrom
        <3>3. QED BY <3>1, <3>2
    <2> HIDE DEF cut
    <2>6. CutsFrom(cut, pattern, topic, p, t)
        BY <2>3, <2>4, <2>5 DEF CutsFrom
    <2>7. QED BY <2>6 DEF CoversFrom
<1>3. ASSUME CoversFrom(pattern, topic, p, t)
      PROVE  IF pattern[p] = "**"
             THEN \E skip \in t..Len(topic) + 1 : CoversFrom(pattern, topic, p + 1, skip)
             ELSE /\ t <= Len(topic) /\ pattern[p] \in {"*", topic[t]}
                  /\ CoversFrom(pattern, topic, p + 1, t + 1)
    <2>1. PICK cut : CutsFrom(cut, pattern, topic, p, t)
        BY <1>3 DEF CoversFrom
    <2> DEFINE at == cut[p]
    <2>2. /\ at \in 0..Len(topic) /\ CoversFrom(pattern, topic, p + 1, at + 1)
          /\ IF pattern[p] = "**" THEN t - 1 <= at ELSE at = t /\ pattern[p] \in {"*", topic[t]}
        BY <1>1, <2>1
    <2> HIDE DEF at
    <2>3. QED BY <2>2
<1>4. QED
    <2>1. CASE pattern[p] = "**"
        BY <1>2, <1>3, <2>1
    <2>2. CASE pattern[p] # "**"
        <3>1. t <= Len(topic) => t + 1 \in t..Len(topic) + 1
            OBVIOUS
        <3>2. QED BY <1>2, <1>3, <2>2, <3>1
    <2>3. QED BY <2>1, <2>2

\* What _topic_matches computes along its recursion.
IsMatch(match, pattern, topic) ==
    match = [p \in 1..Len(pattern) + 1 |-> [t \in 1..Len(topic) + 1 |->
                IF p > Len(pattern) THEN t > Len(topic)
                ELSE IF pattern[p] = "**" THEN \E skip \in t..Len(topic) + 1 : match[p + 1][skip]
                ELSE t <= Len(topic) /\ pattern[p] \in {"*", topic[t]} /\ match[p + 1][t + 1]]]

LEMMA MatchExists ==
    ASSUME NEW pattern, NEW topic, Len(pattern) \in Nat, Len(topic) \in Nat
    PROVE  \E match : IsMatch(match, pattern, topic) /\ (match[1][1] <=> Covers(pattern, topic))
<1> DEFINE match == [p \in 1..Len(pattern) + 1 |->
                        [t \in 1..Len(topic) + 1 |-> CoversFrom(pattern, topic, p, t)]]
<1>1. ASSUME NEW p \in 1..Len(pattern) + 1, NEW t \in 1..Len(topic) + 1
      PROVE  match[p][t] = CoversFrom(pattern, topic, p, t)
    OBVIOUS
<1>2. ASSUME NEW p \in 1..Len(pattern) + 1, NEW t \in 1..Len(topic) + 1
      PROVE  CoversFrom(pattern, topic, p, t) =
                IF p > Len(pattern) THEN t > Len(topic)
                ELSE IF pattern[p] = "**" THEN \E skip \in t..Len(topic) + 1 : match[p + 1][skip]
                ELSE t <= Len(topic) /\ pattern[p] \in {"*", topic[t]} /\ match[p + 1][t + 1]
    <2> HIDE DEF match
    <2>1. CASE p > Len(pattern)
        <3>1. p = Len(pattern) + 1
            BY <2>1
        <3>2. CoversFrom(pattern, topic, p, t) <=> t > Len(topic)
            BY <3>1, CoversAtEnd
        <3>3. CoversFrom(pattern, topic, p, t) \in BOOLEAN /\ (t > Len(topic)) \in BOOLEAN
            BY DEF CoversFrom
        <3>4. QED BY <2>1, <3>2, <3>3
    <2>2. CASE ~(p > Len(pattern))
        <3>1. p \in 1..Len(pattern) /\ p + 1 \in 1..Len(pattern) + 1
            BY <2>2
        <3>2. \A skip \in 1..Len(topic) + 1 : match[p + 1][skip] = CoversFrom(pattern, topic, p + 1, skip)
            BY <1>1, <3>1
        <3>3. t <= Len(topic) => t + 1 \in 1..Len(topic) + 1
            OBVIOUS
        <3>4. \A skip \in t..Len(topic) + 1 : skip \in 1..Len(topic) + 1
            OBVIOUS
        <3>5. CASE pattern[p] = "**"
            <4>1. CoversFrom(pattern, topic, p, t)
                    <=> \E skip \in t..Len(topic) + 1 : match[p + 1][skip]
                BY <3>1, <3>2, <3>4, <3>5, CoversNext
            <4>2. QED BY <2>2, <3>5, <4>1 DEF CoversFrom
        <3>6. CASE pattern[p] # "**"
            <4>1. CoversFrom(pattern, topic, p, t)
                    <=> t <= Len(topic) /\ pattern[p] \in {"*", topic[t]} /\ match[p + 1][t + 1]
                BY <3>1, <3>2, <3>3, <3>6, CoversNext
            <4>2. QED BY <2>2, <3>6, <4>1 DEF CoversFrom
        <3>7. QED BY <3>5, <3>6
    <2>3. QED BY <2>1, <2>2
<1>3. IsMatch(match, pattern, topic)
    BY <1>2 DEF IsMatch
<1>4. match[1][1] <=> Covers(pattern, topic)
    BY CoversFromStart
<1>5. QED BY <1>3, <1>4

LEMMA MatchRule ==
    ASSUME NEW pattern, NEW topic, Len(pattern) \in Nat, Len(topic) \in Nat,
           NEW h, IsMatch(h, pattern, topic),
           NEW p \in 1..Len(pattern) + 1, NEW t \in 1..Len(topic) + 1
    PROVE  /\ h[p][t] \in BOOLEAN
           /\ p > Len(pattern) => (h[p][t] <=> t > Len(topic))
           /\ p <= Len(pattern) /\ pattern[p] = "**" =>
                 (h[p][t] <=> \E skip \in t..Len(topic) + 1 : h[p + 1][skip])
           /\ p <= Len(pattern) /\ pattern[p] # "**" =>
                 (h[p][t] <=> t <= Len(topic) /\ pattern[p] \in {"*", topic[t]} /\ h[p + 1][t + 1])
<1>1. h[p] = [u \in 1..Len(topic) + 1 |->
                IF p > Len(pattern) THEN u > Len(topic)
                ELSE IF pattern[p] = "**" THEN \E skip \in u..Len(topic) + 1 : h[p + 1][skip]
                ELSE u <= Len(topic) /\ pattern[p] \in {"*", topic[u]} /\ h[p + 1][u + 1]]
    BY DEF IsMatch
<1>2. h[p][t] = IF p > Len(pattern) THEN t > Len(topic)
                ELSE IF pattern[p] = "**" THEN \E skip \in t..Len(topic) + 1 : h[p + 1][skip]
                ELSE t <= Len(topic) /\ pattern[p] \in {"*", topic[t]} /\ h[p + 1][t + 1]
    BY <1>1, Zenon
<1>3. CASE p > Len(pattern)
    <2>1. ~(p <= Len(pattern))
        BY <1>3
    <2> DEFINE late == p > Len(pattern)
               over == t > Len(topic)
               inside == IF pattern[p] = "**" THEN \E skip \in t..Len(topic) + 1 : h[p + 1][skip]
                         ELSE t <= Len(topic) /\ pattern[p] \in {"*", topic[t]} /\ h[p + 1][t + 1]
    <2>2. h[p][t] = IF late THEN over ELSE inside
        BY <1>2, Zenon
    <2>3. late /\ over \in BOOLEAN
        BY <1>3
    <2> HIDE DEF late, over, inside
    <2>4. h[p][t] = over
        BY <2>2, <2>3
    <2>5. QED BY <1>3, <2>1, <2>3, <2>4 DEF over
<1>4. CASE ~(p > Len(pattern)) /\ pattern[p] = "**"
    <2>1. h[p][t] = \E skip \in t..Len(topic) + 1 : h[p + 1][skip]
        BY <1>2, <1>4, Zenon
    <2>2. QED BY <2>1, <1>4
<1>5. CASE ~(p > Len(pattern)) /\ pattern[p] # "**"
    <2>1. h[p][t] = (t <= Len(topic) /\ pattern[p] \in {"*", topic[t]} /\ h[p + 1][t + 1])
        BY <1>2, <1>5, Zenon
    <2>2. QED BY <2>1, <1>5
<1>6. QED BY <1>3, <1>4, <1>5

\* Two such functions are one: of the pairs where they differ, one with the greatest p.
LEMMA MatchIsOne ==
    ASSUME NEW pattern, NEW topic, Len(pattern) \in Nat, Len(topic) \in Nat,
           NEW f, IsMatch(f, pattern, topic), NEW g, IsMatch(g, pattern, topic)
    PROVE  f[1][1] = g[1][1]
<1> DEFINE n == Len(pattern) + 1
           m == Len(topic) + 1
           Differ(r) == \E t \in 1..m : f[n - r][t] # g[n - r][t]
           S == {r \in 0..Len(pattern) : Differ(r)}
<1>2. S = {}
    <2> SUFFICES ASSUME S # {} PROVE FALSE
        OBVIOUS
    <2>1. S \in SUBSET Nat
        OBVIOUS
    <2>2. PICK r \in S : \A q \in S : r <= q
        <3> HIDE DEF S
        <3>1. QED BY <2>1, LeastNumber
    <2>3. r \in 0..Len(pattern) /\ Differ(r)
        OBVIOUS
    <2>4. PICK t \in 1..m : f[n - r][t] # g[n - r][t]
        BY <2>3
    <2>5. n - r \in 1..n
        BY <2>3
    <2>6. r # 0
        <3> SUFFICES ASSUME r = 0 PROVE FALSE
            OBVIOUS
        <3>1. n - r = n /\ n \in 1..Len(pattern) + 1 /\ n > Len(pattern)
            OBVIOUS
        <3>2. (f[n][t] <=> t > Len(topic)) /\ (g[n][t] <=> t > Len(topic))
              /\ f[n][t] \in BOOLEAN /\ g[n][t] \in BOOLEAN
            BY <3>1, MatchRule
        <3>3. f[n][t] = g[n][t]
            BY <3>2
        <3>4. QED BY <2>4, <3>1, <3>3
    <2>7. r - 1 \in 0..Len(pattern) /\ r - 1 \notin S /\ n - (r - 1) = n - r + 1
        <3> HIDE DEF S
        <3>1. r \in Nat /\ r # 0 /\ r <= Len(pattern)
            BY <2>3, <2>6
        <3>2. r - 1 \in Nat /\ ~(r <= r - 1) /\ r - 1 \in 0..Len(pattern)
            BY <3>1
        <3>3. n - (r - 1) = n - r + 1
            BY <3>1
        <3>4. r - 1 \notin S
            BY <2>2, <3>2
        <3>5. QED BY <3>2, <3>3, <3>4
    <2>8. \A s \in 1..m : f[n - r + 1][s] = g[n - r + 1][s]
        BY <2>7
    <2>9. /\ \A s \in t..Len(topic) + 1 : s \in 1..m
          /\ t <= Len(topic) => t + 1 \in 1..m
        OBVIOUS
    <2>10. f[n - r][t] = g[n - r][t]
        <3> DEFINE p == n - r
        <3>1. p \in 1..n /\ ~(p > Len(pattern))
            BY <2>5, <2>6, <2>3
        <3>2. \A s \in 1..m : f[p + 1][s] = g[p + 1][s]
            BY <2>8
        <3> HIDE DEF p
        <3>3. p \in 1..Len(pattern) + 1 /\ p <= Len(pattern)
            BY <3>1
        <3>4. CASE pattern[p] = "**"
            <4>1. /\ f[p][t] <=> \E skip \in t..Len(topic) + 1 : f[p + 1][skip]
                  /\ g[p][t] <=> \E skip \in t..Len(topic) + 1 : g[p + 1][skip]
                  /\ f[p][t] \in BOOLEAN /\ g[p][t] \in BOOLEAN
                BY <3>3, <3>4, MatchRule
            <4>2. (\E skip \in t..Len(topic) + 1 : f[p + 1][skip])
                    <=> (\E skip \in t..Len(topic) + 1 : g[p + 1][skip])
                BY <2>9, <3>2
            <4>3. f[p][t] = g[p][t]
                BY <4>1, <4>2
            <4>4. QED BY <4>3 DEF p
        <3>5. CASE pattern[p] # "**"
            <4> DEFINE fits == t <= Len(topic) /\ pattern[p] \in {"*", topic[t]}
            <4>1. /\ f[p][t] <=> fits /\ f[p + 1][t + 1]
                  /\ g[p][t] <=> fits /\ g[p + 1][t + 1]
                  /\ f[p][t] \in BOOLEAN /\ g[p][t] \in BOOLEAN
                BY <3>3, <3>5, MatchRule
            <4>2. fits => f[p + 1][t + 1] = g[p + 1][t + 1]
                BY <2>9, <3>2
            <4> HIDE DEF fits
            <4>3. f[p][t] = g[p][t]
                BY <4>1, <4>2
            <4>4. QED BY <4>3 DEF p
        <3>6. QED BY <3>4, <3>5
    <2>11. QED BY <2>4, <2>10
<1>3. Len(pattern) \in 0..Len(pattern) /\ n - Len(pattern) = 1 /\ 1 \in 1..m
    OBVIOUS
<1>4. ~Differ(Len(pattern))
    BY <1>2, <1>3
<1>5. QED BY <1>3, <1>4

\* _topic_matches finds out whether the pattern covers the topic.
LEMMA MatchingIsCovering ==
    ASSUME NEW pattern, NEW topic, Len(pattern) \in Nat, Len(topic) \in Nat
    PROVE  TopicMatches(pattern, topic) <=> Covers(pattern, topic)
<1> DEFINE f == CHOOSE match : IsMatch(match, pattern, topic)
<1>1. TopicMatches(pattern, topic) = f[1][1]
    BY DEF TopicMatches, IsMatch
<1>2. PICK g : IsMatch(g, pattern, topic) /\ (g[1][1] <=> Covers(pattern, topic))
    BY MatchExists
<1>3. IsMatch(f, pattern, topic)
    BY <1>2
<1> HIDE DEF f
<1>4. f[1][1] = g[1][1]
    BY <1>2, <1>3, MatchIsOne
<1>5. QED BY <1>1, <1>2, <1>4

-----------------------------------------------------------------------------
(* The event bus: lists and the index *)

\* Every position up to the size of a finite set of numbers is that of one member.
LEMMA NthExists ==
    ASSUME NEW N \in Nat, NEW S \in SUBSET (1..N)
    PROVE  /\ IsFiniteSet(S) /\ Cardinality(S) \in Nat
           /\ \A n \in 1..Cardinality(S) :
                 Nth(S, n) \in S /\ Cardinality({j \in S : j <= Nth(S, n)}) = n
           /\ \A i \in S : \E n \in 1..Cardinality(S) : Nth(S, n) = i
<1> DEFINE Upto(i) == {j \in S : j <= i}
           rank == [i \in S |-> Cardinality(Upto(i))]
<1>0. IsFiniteSet(1..N)
    BY FS_Interval
<1>1. IsFiniteSet(S) /\ Cardinality(S) \in Nat
    BY <1>0, FS_Subset, FS_CardinalityType
<1>2. ASSUME NEW i \in S
      PROVE  IsFiniteSet(Upto(i)) /\ Cardinality(Upto(i)) \in 1..Cardinality(S)
    <2>1. IsFiniteSet(Upto(i)) /\ Cardinality(Upto(i)) <= Cardinality(S)
        BY <1>1, FS_Subset
    <2>2. Cardinality(Upto(i)) # 0
        BY <2>1, FS_EmptySet
    <2>3. QED BY <1>1, <2>1, <2>2, FS_CardinalityType
<1>3. ASSUME NEW i \in S, NEW k \in S, i < k
      PROVE  Cardinality(Upto(i)) # Cardinality(Upto(k))
    <2>0. i \in Int /\ k \in Int /\ \A j \in S : j \in Int
        OBVIOUS
    <2>1. Upto(i) \in SUBSET Upto(k) /\ k \in Upto(k) /\ k \notin Upto(i)
        <3>1. \A j \in S : j <= i => j <= k
            BY <2>0, <1>3
        <3>2. k <= k /\ ~(k <= i)
            BY <2>0, <1>3
        <3>3. QED BY <3>1, <3>2
    <2>2. QED BY <1>2, <2>1, FS_Subset
<1>4. rank \in [S -> 1..Cardinality(S)]
    BY <1>2
<1>5. ASSUME NEW i \in S, NEW k \in S, rank[i] = rank[k] PROVE i = k
    <2>1. i \in Int /\ k \in Int /\ ~(i < k) /\ ~(k < i)
        BY <1>3, <1>5
    <2>2. QED BY <2>1
<1>6. rank \in Injection(S, 1..Cardinality(S))
    BY <1>4, <1>5 DEF Injection, IsInjective
<1>7. IsFiniteSet(1..Cardinality(S)) /\ Cardinality(1..Cardinality(S)) = Cardinality(S)
    BY <1>1, FS_Interval
<1>8. rank \in Surjection(S, 1..Cardinality(S))
    BY <1>1, <1>6, <1>7, FS_Injection
<1>9. ASSUME NEW n \in 1..Cardinality(S)
      PROVE  Nth(S, n) \in S /\ Cardinality(Upto(Nth(S, n))) = n
    <2>1. \E i \in S : Cardinality(Upto(i)) = n
        BY <1>8 DEF Surjection
    <2>2. QED BY <2>1 DEF Nth
<1>10. ASSUME NEW i \in S PROVE \E n \in 1..Cardinality(S) : Nth(S, n) = i
    <2> DEFINE n == Cardinality(Upto(i))
    <2>1. n \in 1..Cardinality(S)
        BY <1>2
    <2>2. Nth(S, n) \in S /\ rank[Nth(S, n)] = rank[i]
        BY <1>9, <2>1
    <2>3. QED BY <1>5, <2>1, <2>2
<1>11. QED BY <1>1, <1>9, <1>10

\* place tells where in the list each entry of its part r stood.
IsPart(r, list, S, place) ==
    /\ place \in [1..Len(r) -> 1..Len(list)]
    /\ \A n \in 1..Len(r) : r[n] = list[place[n]] /\ r[n] \in S
    /\ \A m, n \in 1..Len(r) : m < n => place[m] < place[n]
    /\ \A i \in 1..Len(list) : list[i] \in S => \E n \in 1..Len(r) : place[n] = i

LEMMA ThoseAreAPart ==
    ASSUME NEW T, NEW list \in Seq(T), NEW S
    PROVE  Those(list, S) \in Seq(T) /\ \E place : IsPart(Those(list, S), list, S, place)
<1> DEFINE at == {k \in DOMAIN list : list[k] \in S}
           size == Cardinality(at)
           r == Those(list, S)
           place == [n \in 1..size |-> Nth(at, n)]
<1>1. Len(list) \in Nat /\ DOMAIN list = 1..Len(list) /\ at \in SUBSET (1..Len(list))
      /\ \A i \in 1..Len(list) : list[i] \in T
    OBVIOUS
<1>2. \A i : i \in at <=> i \in 1..Len(list) /\ list[i] \in S
    BY <1>1
<1>3. r = [n \in 1..size |-> list[Nth(at, n)]]
    BY DEF Those
<1> HIDE DEF at, r
<1>4. /\ IsFiniteSet(at) /\ size \in Nat
      /\ \A n \in 1..size : Nth(at, n) \in at /\ Cardinality({j \in at : j <= Nth(at, n)}) = n
      /\ \A i \in at : \E n \in 1..size : Nth(at, n) = i
    BY <1>1, NthExists
<1>5. ASSUME NEW m \in 1..size, NEW n \in 1..size, m < n PROVE Nth(at, m) < Nth(at, n)
    <2> SUFFICES ASSUME ~(Nth(at, m) < Nth(at, n)) PROVE FALSE
        OBVIOUS
    <2> DEFINE low == {j \in at : j <= Nth(at, n)}
               high == {j \in at : j <= Nth(at, m)}
    <2>1. Nth(at, m) \in Nat /\ Nth(at, n) \in Nat /\ \A j \in at : j \in Nat
        <3>1. \A j \in at : j \in Nat
            BY <1>1
        <3>2. Nth(at, m) \in at /\ Nth(at, n) \in at
            BY <1>4
        <3>3. QED BY <3>1, <3>2
    <2>2. low \in SUBSET high /\ high \in SUBSET at
        BY <2>1
    <2>3. Cardinality(low) = n /\ Cardinality(high) = m
        BY <1>4
    <2>4. IsFiniteSet(high)
        BY <1>4, <2>2, FS_Subset
    <2> HIDE DEF low, high
    <2>5. Cardinality(low) <= Cardinality(high)
        BY <2>2, <2>4, FS_Subset
    <2>6. QED BY <1>4, <1>5, <2>3, <2>5
<1> HIDE DEF size
<1>6. r \in [1..size -> T]
    BY <1>1, <1>2, <1>3, <1>4
<1>7. r \in Seq(T) /\ Len(r) = size
    BY <1>4, <1>6, SeqDef
<1>8. IsPart(r, list, S, place)
    <2>1. \A n \in 1..size : place[n] = Nth(at, n) /\ r[n] = list[Nth(at, n)]
        BY <1>3
    <2>2. place \in [1..size -> 1..Len(list)]
        BY <1>2, <1>4
    <2> HIDE DEF place
    <2>3. \A n \in 1..size : r[n] = list[place[n]] /\ r[n] \in S
        BY <1>2, <1>4, <2>1
    <2>4. \A m, n \in 1..size : m < n => place[m] < place[n]
        BY <1>5, <2>1
    <2>5. \A i \in 1..Len(list) : list[i] \in S => \E n \in 1..size : place[n] = i
        BY <1>2, <1>4, <2>1
    <2>6. QED BY <1>7, <2>2, <2>3, <2>4, <2>5 DEF IsPart
<1>9. QED BY <1>7, <1>8 DEF r

LEMMA InsertedAt ==
    ASSUME NEW T, NEW list \in Seq(T), NEW k \in 1..Len(list) + 1, NEW e \in T
    PROVE  /\ InsertAt(list, k, e) \in Seq(T) /\ Len(InsertAt(list, k, e)) = Len(list) + 1
           /\ \A i \in 1..Len(list) + 1 :
                 InsertAt(list, k, e)[i] = IF i < k THEN list[i] ELSE IF i = k THEN e ELSE list[i - 1]
<1> DEFINE front == SubSeq(list, 1, k - 1)
           back == SubSeq(list, k, Len(list))
<1>1. /\ front \in Seq(T) /\ Len(front) = k - 1 /\ \A i \in 1..k - 1 : front[i] = list[i]
      /\ back \in Seq(T) /\ Len(back) = Len(list) - k + 1 /\ \A i \in 1..Len(back) : back[i] = list[k + i - 1]
    BY SubSeqProperties
<1>2. InsertAt(list, k, e) = (front \o <<e>>) \o back
    BY DEF InsertAt
<1> HIDE DEF front, back
<1> DEFINE one == front \o <<e>>
<1>3. one \in Seq(T) /\ Len(one) = k /\ \A i \in 1..k : one[i] = IF i < k THEN list[i] ELSE e
    BY <1>1
<1> HIDE DEF one
<1>4. InsertAt(list, k, e) = one \o back
    BY <1>2 DEF one
<1>5. /\ one \o back \in Seq(T) /\ Len(one \o back) = Len(list) + 1
      /\ \A i \in 1..Len(list) + 1 : (one \o back)[i] = IF i <= k THEN one[i] ELSE back[i - k]
    BY <1>1, <1>3
<1>6. ASSUME NEW i \in 1..Len(list) + 1
      PROVE  (one \o back)[i] = IF i < k THEN list[i] ELSE IF i = k THEN e ELSE list[i - 1]
    <2>1. CASE i <= k
        BY <1>3, <1>5, <2>1
    <2>2. CASE i > k
        <3> DEFINE j == i - k
        <3>1. j \in 1..Len(back) /\ k + j - 1 = i - 1
            BY <1>1, <2>2
        <3>2. (one \o back)[i] = back[j]
            BY <1>5, <2>2
        <3>3. ~(i < k) /\ i # k
            BY <2>2
        <3> HIDE DEF j
        <3>4. back[j] = list[i - 1]
            BY <1>1, <3>1
        <3>5. QED BY <3>2, <3>3, <3>4, Zenon
    <2>3. i <= k \/ i > k
        OBVIOUS
    <2>4. QED BY <2>1, <2>2, <2>3, Zenon
<1>7. QED BY <1>4, <1>5, <1>6

(* What InsertedAt says, under one name. *)
IsInsertion(longer, list, k, e) ==
    /\ Len(longer) = Len(list) + 1
    /\ \A i \in 1..Len(list) + 1 :
          longer[i] = IF i < k THEN list[i] ELSE IF i = k THEN e ELSE list[i - 1]

LEMMA InsertionIs ==
    ASSUME NEW T, NEW list \in Seq(T), NEW k \in 1..Len(list) + 1, NEW e \in T
    PROVE  InsertAt(list, k, e) \in Seq(T) /\ IsInsertion(InsertAt(list, k, e), list, k, e)
BY InsertedAt DEF IsInsertion

\* The rebuilt index is of the list.
LEMMA IndexIsOfList ==
    ASSUME NEW list, Len(list) \in Nat, DOMAIN list = 1..Len(list), NEW subs, NEW i \in SubIds
    PROVE  /\ Indexed(list, subs)[i] # 0 =>
                 Indexed(list, subs)[i] \in DOMAIN list /\ subs[list[Indexed(list, subs)[i]]].id = i
           /\ \A k \in DOMAIN list : subs[list[k]].id = i => Indexed(list, subs)[i] # 0
<1> DEFINE at == {k \in DOMAIN list : subs[list[k]].id = i}
<1>1. Indexed(list, subs)[i] = IF at = {} THEN 0 ELSE CHOOSE k \in at : \A l \in at : l <= k
    BY DEF Indexed
<1>2. at \in SUBSET (1..Len(list)) /\ \A k : k \in at <=> k \in DOMAIN list /\ subs[list[k]].id = i
    OBVIOUS
<1> HIDE DEF at
<1>3. ASSUME at # {} PROVE \E k \in at : \A l \in at : l <= k
    <2> DEFINE far == {Len(list) - k : k \in at}
    <2>1. far \in SUBSET Nat /\ far # {}
        BY <1>2, <1>3
    <2> HIDE DEF far
    <2>2. PICK m \in far : \A n \in far : m <= n
        BY <2>1, LeastNumber
    <2>3. PICK k \in at : m = Len(list) - k
        BY <2>2 DEF far
    <2>4. ASSUME NEW l \in at PROVE l <= k
        <3>1. Len(list) - l \in far /\ l \in Int /\ k \in Int
            BY <1>2, <2>3 DEF far
        <3>2. Len(list) - k <= Len(list) - l
            BY <2>2, <2>3, <3>1
        <3>3. QED BY <3>1, <3>2
    <2>5. QED BY <2>4
<1>4. QED BY <1>1, <1>2, <1>3

-----------------------------------------------------------------------------
(* The event bus: its steps *)

Subscribers == [id : SubIds, pattern : Patterns, priority : Priorities, active : BOOLEAN]

LEMMA SubscriberIs ==
    ASSUME NEW subs \in Seq(Subscribers), NEW s \in 1..Len(subs)
    PROVE  /\ subs[s] \in Subscribers
           /\ subs[s].id \in SubIds /\ subs[s].pattern \in Patterns /\ subs[s].priority \in Priorities
           /\ subs[s].active \in BOOLEAN
<1>1. subs[s] \in Subscribers
    OBVIOUS
<1>2. QED BY <1>1 DEF Subscribers

(* The list has the active subscribers, each once, in the order of their priorities. *)
ListKept(list, subs) ==
    /\ list \in Seq(1..Len(subs))
    /\ \A i, j \in 1..Len(list) : i < j =>
          list[i] # list[j] /\ subs[list[i]].priority <= subs[list[j]].priority
    /\ \A s \in 1..Len(subs) : subs[s].active <=> \E k \in 1..Len(list) : list[k] = s

(* A publish under way: the served and the matched are those it is for. *)
PublishTyped(b, subs) ==
    /\ b = [topic |-> b.topic, matched |-> b.matched, served |-> b.served, upto |-> b.upto]
    /\ b.topic \in Topics \cup {<<>>} /\ b.matched \in Seq(1..Len(subs))
    /\ b.served \subseteq 1..Len(subs) /\ b.upto \in 0..Len(subs)

Routed(b, subs) ==
    /\ \A s \in b.served : Covers(subs[s].pattern, b.topic)
    /\ \A k \in 1..Len(b.matched) : Covers(subs[b.matched[k]].pattern, b.topic)
    /\ \A i, j \in 1..Len(b.matched) : i < j =>
          subs[b.matched[i]].priority <= subs[b.matched[j]].priority
    /\ \A s \in 1..Len(subs) : subs[s].active /\ Covers(subs[s].pattern, b.topic) =>
          s \in b.served \/ s > b.upto \/ \E k \in 1..Len(b.matched) : b.matched[k] = s

EventBusInv ==
    /\ subscriber \in Seq(Subscribers)
    /\ ListKept(listed, subscriber)
    /\ subIndex = Indexed(listed, subscriber)
    /\ DOMAIN publish = Publishers
    /\ \A p \in Publishers :
          /\ PublishTyped(publish[p], subscriber)
          /\ publish[p].topic # <<>> => Routed(publish[p], subscriber)

LEMMA BusIsRight == EventBusInv => IndexFinds /\ RoutesByTopic
<1> SUFFICES ASSUME EventBusInv PROVE IndexFinds /\ RoutesByTopic
    OBVIOUS
<1>1. /\ Len(listed) \in Nat /\ DOMAIN listed = 1..Len(listed)
      /\ Len(subscriber) \in Nat /\ DOMAIN subscriber = 1..Len(subscriber)
      /\ \A k \in DOMAIN listed : listed[k] \in 1..Len(subscriber)
      /\ \A s \in DOMAIN subscriber : subscriber[s].id \in SubIds
    <2>1. /\ Len(listed) \in Nat /\ DOMAIN listed = 1..Len(listed)
          /\ \A k \in 1..Len(listed) : listed[k] \in 1..Len(subscriber)
        BY DEF EventBusInv, ListKept
    <2>2. Len(subscriber) \in Nat /\ DOMAIN subscriber = 1..Len(subscriber)
        BY DEF EventBusInv
    <2>3. \A s \in 1..Len(subscriber) : subscriber[s].id \in SubIds
        BY SubscriberIs DEF EventBusInv
    <2>4. QED BY <2>1, <2>2, <2>3
<1>2. \A i \in SubIds : subIndex[i] # 0 =>
          subIndex[i] \in DOMAIN listed /\ subscriber[listed[subIndex[i]]].id = i
    BY <1>1, IndexIsOfList DEF EventBusInv
<1>3. ASSUME NEW k \in DOMAIN listed PROVE subIndex[subscriber[listed[k]].id] # 0
    <2> DEFINE i == subscriber[listed[k]].id
    <2>1. i \in SubIds /\ subscriber[listed[k]].id = i
        BY <1>1
    <2> HIDE DEF i
    <2>2. Indexed(listed, subscriber)[i] # 0
        BY <1>1, <2>1, IndexIsOfList
    <2>3. QED BY <2>2 DEF EventBusInv, i
<1>4. \A s \in DOMAIN subscriber : subscriber[s].active <=> Contains(listed, s)
    BY <1>1 DEF EventBusInv, ListKept, Contains
<1>5. IndexFinds
    BY <1>2, <1>3, <1>4 DEF IndexFinds
<1>6. ASSUME NEW p \in Publishers, publish[p].topic # <<>>
      PROVE  LET reached == publish[p].served \cup ToSet(publish[p].matched) IN
             /\ \A s \in reached : Covers(subscriber[s].pattern, publish[p].topic)
             /\ \A i, j \in DOMAIN publish[p].matched : i < j =>
                   subscriber[publish[p].matched[i]].priority <= subscriber[publish[p].matched[j]].priority
             /\ \A s \in DOMAIN subscriber :
                   subscriber[s].active /\ Covers(subscriber[s].pattern, publish[p].topic)
                       => s \in reached \/ s > publish[p].upto
    <2> DEFINE b == publish[p]
               reached == b.served \cup ToSet(b.matched)
    <2>1. Routed(b, subscriber) /\ PublishTyped(b, subscriber)
        BY <1>6 DEF EventBusInv
    <2> HIDE DEF b
    <2>2. /\ DOMAIN b.matched = 1..Len(b.matched)
          /\ \A s : s \in reached <=> s \in b.served \/ \E k \in 1..Len(b.matched) : s = b.matched[k]
        <3>1. DOMAIN b.matched = 1..Len(b.matched)
            BY <2>1 DEF PublishTyped
        <3>2. ToSet(b.matched) = {b.matched[k] : k \in 1..Len(b.matched)}
            BY <3>1 DEF ToSet
        <3>3. QED BY <3>1, <3>2
    <2> HIDE DEF reached
    <2>3. \A s \in reached : Covers(subscriber[s].pattern, b.topic)
        BY <2>1, <2>2 DEF Routed
    <2>4. \A i, j \in DOMAIN b.matched : i < j =>
              subscriber[b.matched[i]].priority <= subscriber[b.matched[j]].priority
        BY <2>1, <2>2 DEF Routed
    <2>5. \A s \in DOMAIN subscriber : subscriber[s].active /\ Covers(subscriber[s].pattern, b.topic)
              => s \in reached \/ s > b.upto
        BY <1>1, <2>1, <2>2 DEF Routed
    <2>6. QED BY <2>3, <2>4, <2>5 DEF b, reached
<1>7. RoutesByTopic
    BY <1>6 DEF RoutesByTopic
<1>8. QED BY <1>5, <1>7

LEMMA EventBusStarts == EventBusInit => EventBusInv
<1> SUFFICES ASSUME EventBusInit PROVE EventBusInv
    OBVIOUS
<1>1. subscriber = <<>> /\ listed = <<>> /\ publish = [p \in Publishers |-> NoPublish]
      /\ Len(subscriber) = 0 /\ subIndex = [i \in SubIds |-> 0]
    BY DEF EventBusInit
<1>2. Indexed(listed, subscriber) = [i \in SubIds |-> 0]
    <2>1. \A i : {k \in DOMAIN listed : subscriber[listed[k]].id = i} = {}
        BY <1>1
    <2>2. QED BY <2>1 DEF Indexed
<1>3. ListKept(listed, subscriber) /\ subscriber \in Seq(Subscribers)
    BY <1>1 DEF ListKept
<1>4. PublishTyped(NoPublish, subscriber) /\ NoPublish.topic = <<>>
    BY <1>1 DEF PublishTyped, NoPublish
<1>5. QED BY <1>1, <1>2, <1>3, <1>4 DEF EventBusInv

\* A new subscriber is last of those of its priority, and the list stays in order.
LEMMA PlaceInOrder ==
    ASSUME EventBusInv, NEW priority \in Priorities
    PROVE  \E k \in 1..Len(listed) + 1 :
              /\ \A s : SortedIn(s, priority) = InsertAt(listed, k, s)
              /\ \A i \in 1..Len(listed) : i < k <=> subscriber[listed[i]].priority <= priority
<1> DEFINE rank(i) == subscriber[listed[i]].priority
           later == {k \in DOMAIN listed : rank(k) > priority}
<1>1. /\ Len(listed) \in Nat /\ DOMAIN listed = 1..Len(listed) /\ priority \in Int
      /\ \A k \in 1..Len(listed) : rank(k) \in Int
    <2>1. \A k \in 1..Len(listed) : listed[k] \in 1..Len(subscriber)
        BY DEF EventBusInv, ListKept
    <2>2. \A s \in 1..Len(subscriber) : subscriber[s].priority \in Priorities
        BY SubscriberIs DEF EventBusInv
    <2>3. \A k \in 1..Len(listed) : rank(k) \in Priorities
        BY <2>1, <2>2
    <2>4. Len(listed) \in Nat /\ DOMAIN listed = 1..Len(listed)
        BY DEF EventBusInv, ListKept
    <2> HIDE DEF rank
    <2>5. QED BY <2>3, <2>4, EventBusAssumption
<1>2. \A i, j \in 1..Len(listed) : i < j => rank(i) <= rank(j)
    BY DEF EventBusInv, ListKept
<1>3. \A s : SortedIn(s, priority) = InsertAt(listed, Len(listed) + 1 - Cardinality(later), s)
    BY DEF SortedIn
<1>4. \A k : k \in later <=> k \in 1..Len(listed) /\ rank(k) > priority
    BY <1>1
<1> HIDE DEF later, rank
<1>5. CASE later = {}
    <2>1. Cardinality(later) = 0
        BY <1>5, FS_EmptySet
    <2>2. \A i \in 1..Len(listed) : rank(i) <= priority
        BY <1>1, <1>4, <1>5
    <2>3. QED BY <1>1, <1>3, <2>1, <2>2 DEF rank
<1>6. CASE later # {}
    <2>1. later \in SUBSET Nat
        BY <1>4
    <2>2. PICK m \in later : \A n \in later : m <= n
        BY <1>6, <2>1, LeastNumber
    <2>3. m \in 1..Len(listed) /\ rank(m) > priority
        BY <1>4, <2>2
    <2>4. ASSUME NEW i \in 1..Len(listed) PROVE i \in later <=> m <= i
        <3>1. i > m => rank(m) <= rank(i)
            BY <1>2, <2>3
        <3>2. i >= m => i \in later
            BY <1>1, <1>4, <2>2, <2>3, <3>1
        <3>3. QED BY <2>2, <2>3, <3>2
    <2>5. later = m..Len(listed)
        <3>1. \A i : i \in m..Len(listed) <=> i \in 1..Len(listed) /\ m <= i
            BY <1>1, <2>3
        <3>2. \A i : i \in later <=> i \in m..Len(listed)
            BY <1>4, <2>4, <3>1
        <3> HIDE DEF later
        <3>3. QED BY <3>2
    <2>6. Cardinality(later) = Len(listed) - m + 1
        BY <1>1, <2>3, <2>5, FS_Interval
    <2>7. Len(listed) + 1 - Cardinality(later) = m /\ m \in 1..Len(listed) + 1
        BY <1>1, <2>3, <2>6
    <2>8. \A i \in 1..Len(listed) : i < m <=> rank(i) <= priority
        BY <1>1, <1>4, <2>3, <2>4
    <2>9. QED BY <1>3, <2>7, <2>8 DEF rank
<1>7. QED BY <1>5, <1>6

LEMMA WiderSeq ==
    ASSUME NEW A, NEW B, A \subseteq B, NEW s \in Seq(A)
    PROVE  s \in Seq(B)
    OBVIOUS

LEMMA SubscribeKeeps ==
    ASSUME EventBusInv, NEW id \in SubIds, NEW pattern \in Patterns, NEW priority \in Priorities,
           Subscribe(id, pattern, priority)
    PROVE  EventBusInv'
<1> DEFINE new == Len(subscriber) + 1
           rec == [id |-> id, pattern |-> pattern, priority |-> priority, active |-> TRUE]
<1>1. /\ subscriber' = Append(subscriber, rec)
      /\ listed' = SortedIn(new, priority)
      /\ subIndex' = Indexed(listed', subscriber')
      /\ UNCHANGED publish
    BY DEF Subscribe, Reindexes
<1>2. /\ subscriber \in Seq(Subscribers) /\ listed \in Seq(1..Len(subscriber))
      /\ Len(subscriber) \in Nat /\ Len(listed) \in Nat /\ rec \in Subscribers
      /\ \A k \in 1..Len(listed) : listed[k] \in 1..Len(subscriber)
    <2>1. subscriber \in Seq(Subscribers) /\ listed \in Seq(1..Len(subscriber))
        BY DEF EventBusInv, ListKept
    <2>2. rec \in Subscribers
        BY DEF Subscribers
    <2>3. QED BY <2>1, <2>2
<1>3. /\ subscriber' \in Seq(Subscribers) /\ Len(subscriber') = new /\ subscriber'[new] = rec
      /\ \A s \in 1..Len(subscriber) : subscriber'[s] = subscriber[s]
    <2> HIDE DEF rec
    <2>1. QED BY <1>1, <1>2
<1>4. rec.active = TRUE /\ rec.priority = priority
    OBVIOUS
<1> HIDE DEF rec
<1>5. PICK at \in 1..Len(listed) + 1 :
          /\ \A s : SortedIn(s, priority) = InsertAt(listed, at, s)
          /\ \A i \in 1..Len(listed) : i < at <=> subscriber[listed[i]].priority <= priority
    BY PlaceInOrder
<1>6. /\ listed' \in Seq(1..new) /\ Len(listed') = Len(listed) + 1
      /\ \A i \in 1..Len(listed) + 1 :
            listed'[i] = IF i < at THEN listed[i] ELSE IF i = at THEN new ELSE listed[i - 1]
    <2>1. listed \in Seq(1..new) /\ new \in 1..new
        <3>1. 1..Len(subscriber) \subseteq 1..new /\ new \in 1..new
            BY <1>2
        <3> HIDE DEF new
        <3>2. listed \in Seq(1..new)
            BY <1>2, <3>1, WiderSeq, Zenon
        <3>3. QED BY <3>1, <3>2, Zenon
    <2> HIDE DEF new
    <2>2. listed' = InsertAt(listed, at, new)
        BY <1>1, <1>5
    <2> DEFINE Made == 1..new
    <2>3. listed \in Seq(Made) /\ new \in Made /\ at \in 1..Len(listed) + 1
        BY <2>1
    <2> HIDE DEF Made
    <2>4. InsertAt(listed, at, new) \in Seq(Made) /\ IsInsertion(InsertAt(listed, at, new), listed, at, new)
        BY <2>3, InsertionIs, Zenon
    <2>5. listed' \in Seq(Made) /\ IsInsertion(listed', listed, at, new)
        BY <2>2, <2>4, Zenon
    <2>6. QED BY <2>5 DEF Made, IsInsertion
<1>7. \A i \in 1..Len(listed) : /\ subscriber'[listed[i]] = subscriber[listed[i]]
                                /\ listed[i] # new
    BY <1>2, <1>3
<1>8. priority \in Int /\ \A i \in 1..Len(listed) : subscriber[listed[i]].priority \in Int
    BY <1>2, SubscriberIs, EventBusAssumption
<1>9. \A i, j \in 1..Len(listed) : i < j =>
          listed[i] # listed[j] /\ subscriber[listed[i]].priority <= subscriber[listed[j]].priority
    BY DEF EventBusInv, ListKept
<1>10. ASSUME NEW i \in 1..Len(listed'), NEW j \in 1..Len(listed'), i < j
       PROVE  listed'[i] # listed'[j] /\ subscriber'[listed'[i]].priority <= subscriber'[listed'[j]].priority
    <2>1. i \in 1..Len(listed) + 1 /\ j \in 1..Len(listed) + 1 /\ i \in Nat /\ j \in Nat /\ at \in Nat
        BY <1>2, <1>6
    <2>2. CASE i < at /\ j < at
        <3>1. i \in 1..Len(listed) /\ j \in 1..Len(listed)
            BY <1>2, <2>1, <2>2
        <3>2. listed'[i] = listed[i] /\ listed'[j] = listed[j]
            BY <1>6, <2>1, <2>2
        <3>3. QED BY <1>7, <1>9, <1>10, <3>1, <3>2
    <2>3. CASE i < at /\ j = at
        <3>1. i \in 1..Len(listed)
            BY <1>2, <2>1, <2>3
        <3>2. listed'[i] = listed[i] /\ listed'[j] = new
            BY <1>6, <2>1, <2>3
        <3>3. QED BY <1>3, <1>4, <1>5, <1>7, <2>3, <3>1, <3>2
    <2>4. CASE i < at /\ j > at
        <3> DEFINE k == j - 1
        <3>1. i \in 1..Len(listed) /\ k \in 1..Len(listed) /\ i < k
            BY <1>2, <2>1, <2>4
        <3>2. listed'[i] = listed[i] /\ listed'[j] = listed[k]
            BY <1>6, <2>1, <2>4
        <3> HIDE DEF k
        <3>3. QED BY <1>7, <1>9, <3>1, <3>2
    <2>5. CASE i = at /\ j > at
        <3> DEFINE k == j - 1
        <3>1. k \in 1..Len(listed) /\ ~(k < at)
            BY <1>2, <2>1, <2>5
        <3>2. listed'[i] = new /\ listed'[j] = listed[k]
            BY <1>6, <2>1, <2>5
        <3> HIDE DEF k
        <3>3. ~(subscriber[listed[k]].priority <= priority)
            BY <1>5, <3>1
        <3>4. priority <= subscriber[listed[k]].priority
            BY <1>8, <3>1, <3>3
        <3>5. QED BY <1>3, <1>4, <1>7, <3>1, <3>2, <3>4
    <2>6. CASE i > at
        <3> DEFINE h == i - 1
                   k == j - 1
        <3>1. h \in 1..Len(listed) /\ k \in 1..Len(listed) /\ h < k
            BY <1>2, <1>10, <2>1, <2>6
        <3>2. listed'[i] = listed[h] /\ listed'[j] = listed[k]
            BY <1>6, <1>10, <2>1, <2>6
        <3> HIDE DEF h, k
        <3>3. QED BY <1>7, <1>9, <3>1, <3>2
    <2>7. QED BY <1>10, <2>1, <2>2, <2>3, <2>4, <2>5, <2>6
<1>11. ASSUME NEW s \in 1..new
       PROVE  subscriber'[s].active <=> \E k \in 1..Len(listed') : listed'[k] = s
    <2>1. CASE s = new
        <3>1. at \in 1..Len(listed') /\ listed'[at] = new
            BY <1>6
        <3>2. QED BY <1>3, <1>4, <2>1, <3>1
    <2>2. CASE s # new
        <3>1. s \in 1..Len(subscriber)
            <4>1. Len(subscriber) \in Nat
                BY <1>2
            <4>2. QED BY <4>1, <2>2
        <3>2. subscriber'[s] = subscriber[s]
            BY <1>3, <3>1
        <3>3. subscriber[s].active <=> \E k \in 1..Len(listed) : listed[k] = s
            BY <3>1, <3>2 DEF EventBusInv, ListKept
        <3>4. ASSUME NEW k \in 1..Len(listed), listed[k] = s PROVE \E l \in 1..Len(listed') : listed'[l] = s
            <4>1. CASE k < at
                <5>1. k \in 1..Len(listed') /\ listed'[k] = s
                    BY <1>2, <1>6, <3>4, <4>1, SMTT(30)
                <5>2. QED BY <5>1
            <4>2. CASE ~(k < at)
                <5>1. k + 1 \in 1..Len(listed') /\ k + 1 > at /\ k + 1 - 1 = k
                    BY <1>2, <1>6, <4>2
                <5>2. listed'[k + 1] = s
                    <6>1. k + 1 \in 1..Len(listed) + 1 /\ ~(k + 1 < at) /\ k + 1 # at
                        BY <1>2, <1>6, <5>1
                    <6>2. \A i \in 1..Len(listed) + 1 :
                              listed'[i] = IF i < at THEN listed[i] ELSE IF i = at THEN new ELSE listed[i - 1]
                        BY <1>6
                    <6>3. listed'[k + 1] = listed[k + 1 - 1]
                        BY <6>1, <6>2
                    <6>4. QED BY <3>4, <5>1, <6>3
                <5>3. QED BY <5>1, <5>2
            <4>3. QED BY <4>1, <4>2
        <3>5. ASSUME NEW l \in 1..Len(listed'), listed'[l] = s PROVE \E k \in 1..Len(listed) : listed[k] = s
            <4>1. l # at
                BY <1>6, <2>2, <3>5
            <4>2. CASE l < at
                <5>1. l \in 1..Len(listed) /\ listed[l] = s
                    BY <1>2, <1>6, <3>5, <4>2, SMTT(30)
                <5>2. QED BY <5>1
            <4>3. CASE l > at
                <5>1. l - 1 \in 1..Len(listed) /\ ~(l < at) /\ l \in 1..Len(listed) + 1
                    BY <1>2, <1>6, <4>3
                <5>2. listed[l - 1] = s
                    BY <1>6, <3>5, <4>1, <5>1
                <5>3. QED BY <5>1, <5>2
            <4>4. QED BY <1>6, <4>1, <4>2, <4>3
        <3>6. QED BY <3>2, <3>3, <3>4, <3>5
    <2>3. QED BY <2>1, <2>2
<1>12. ListKept(listed, subscriber)'
    <2> HIDE DEF new
    <2>1. QED BY <1>3, <1>6, <1>10, <1>11 DEF ListKept
<1>13. ASSUME NEW p \in Publishers
       PROVE  /\ PublishTyped(publish[p], subscriber')
              /\ publish[p].topic # <<>> => Routed(publish[p], subscriber')
    <2> DEFINE b == publish[p]
    <2>1. PublishTyped(b, subscriber) /\ (b.topic # <<>> => Routed(b, subscriber))
        BY DEF EventBusInv
    <2> HIDE DEF b
    <2>2. 1..Len(subscriber) \subseteq 1..new /\ \A k \in 1..Len(b.matched) : b.matched[k] \in 1..Len(subscriber)
        BY <1>2, <2>1, SMTT(30) DEF PublishTyped
    <2>3. Len(b.matched) \in Nat /\ b.upto \in 0..Len(subscriber) /\ b.upto \in 0..new /\ new > b.upto
        BY <1>2, <2>1 DEF PublishTyped
    <2>4. PublishTyped(b, subscriber')
        <3>1. b.matched \in Seq(1..new)
            BY <2>1, <2>2, WiderSeq DEF PublishTyped
        <3> HIDE DEF new
        <3>2. QED BY <1>3, <2>1, <2>2, <2>3, <3>1 DEF PublishTyped
    <2>5. ASSUME b.topic # <<>> PROVE Routed(b, subscriber')
        <3>1. Routed(b, subscriber) /\ b.served \subseteq 1..Len(subscriber)
            BY <2>1, <2>5 DEF PublishTyped
        <3>2. \A s \in b.served : subscriber'[s] = subscriber[s]
            BY <1>3, <3>1
        <3>3. \A k \in 1..Len(b.matched) : subscriber'[b.matched[k]] = subscriber[b.matched[k]]
            BY <1>3, <2>2
        <3>4. \A s \in 1..new : s \in 1..Len(subscriber) \/ s > b.upto
            BY <1>2, <2>3
        <3> HIDE DEF new
        <3>5. QED BY <1>3, <3>1, <3>2, <3>3, <3>4 DEF Routed
    <2>6. QED BY <2>4, <2>5 DEF b
<1>14. QED BY <1>1, <1>3, <1>12, <1>13 DEF EventBusInv

LEMMA UnsubscribeKeeps ==
    ASSUME EventBusInv, NEW id \in SubIds, Unsubscribe(id)
    PROVE  EventBusInv'
<1> DEFINE gone == listed[subIndex[id]]
           S == {s \in DOMAIN subscriber' : subscriber'[s].active}
<1>1. /\ subIndex[id] # 0
      /\ subscriber' = [subscriber EXCEPT ![gone].active = FALSE]
      /\ listed' = Those(listed, S)
      /\ subIndex' = Indexed(listed', subscriber')
      /\ UNCHANGED publish
    BY DEF Unsubscribe, Reindexes
<1>2. /\ subscriber \in Seq(Subscribers) /\ listed \in Seq(1..Len(subscriber))
      /\ Len(subscriber) \in Nat /\ DOMAIN subscriber = 1..Len(subscriber)
      /\ Len(listed) \in Nat /\ \A k \in 1..Len(listed) : listed[k] \in 1..Len(subscriber)
    <2>1. subscriber \in Seq(Subscribers) /\ listed \in Seq(1..Len(subscriber))
        BY DEF EventBusInv, ListKept
    <2>2. QED BY <2>1
<1>3. subIndex[id] \in 1..Len(listed) /\ gone \in 1..Len(subscriber)
    <2>1. IndexFinds
        BY BusIsRight
    <2>2. QED BY <1>1, <1>2, <2>1 DEF IndexFinds
<1> HIDE DEF gone
<1>4. /\ subscriber' \in Seq(Subscribers) /\ Len(subscriber') = Len(subscriber)
      /\ DOMAIN subscriber' = 1..Len(subscriber)
      /\ \A s \in 1..Len(subscriber) :
            /\ subscriber'[s].pattern = subscriber[s].pattern
            /\ subscriber'[s].priority = subscriber[s].priority
            /\ subscriber'[s].active <=> subscriber[s].active /\ s # gone
    <2> DEFINE rec == [subscriber[gone] EXCEPT !.active = FALSE]
    <2>1. subscriber[gone] \in Subscribers
        BY <1>2, <1>3, SubscriberIs
    <2>2. /\ rec \in Subscribers /\ rec.pattern = subscriber[gone].pattern
          /\ rec.priority = subscriber[gone].priority /\ rec.active = FALSE
        BY <2>1 DEF Subscribers
    <2>3. subscriber' = [subscriber EXCEPT ![gone] = rec]
        BY <1>1
    <2> HIDE DEF rec
    <2>4. /\ subscriber' \in Seq(Subscribers) /\ Len(subscriber') = Len(subscriber)
          /\ \A s \in 1..Len(subscriber) : subscriber'[s] = IF s = gone THEN rec ELSE subscriber[s]
        BY <1>2, <1>3, <2>2, <2>3
    <2>5. DOMAIN subscriber' = 1..Len(subscriber)
        BY <2>4
    <2>6. QED BY <2>2, <2>4, <2>5
<1>5. \A s : s \in S <=> s \in 1..Len(subscriber) /\ subscriber[s].active /\ s # gone
    BY <1>4
<1> HIDE DEF S
<1>6. PICK place : listed' \in Seq(1..Len(subscriber)) /\ IsPart(listed', listed, S, place)
    BY <1>1, <1>2, ThoseAreAPart
<1>7. ListKept(listed, subscriber)
    BY DEF EventBusInv
<1>8. /\ Len(listed') \in Nat /\ \A n \in 1..Len(listed') : place[n] \in 1..Len(listed) /\ place[n] \in Nat
      /\ \A n \in 1..Len(listed') : listed'[n] = listed[place[n]] /\ listed'[n] \in S
    <2>1. Len(listed') \in Nat
        BY <1>6
    <2>2. \A n \in 1..Len(listed') : place[n] \in 1..Len(listed)
        BY <1>6 DEF IsPart
    <2>3. QED BY <1>6, <2>1, <2>2, SMTT(30) DEF IsPart
<1>9. ASSUME NEW i \in 1..Len(listed'), NEW j \in 1..Len(listed'), i < j
      PROVE  listed'[i] # listed'[j] /\ subscriber'[listed'[i]].priority <= subscriber'[listed'[j]].priority
    <2>1. place[i] < place[j] /\ place[i] \in 1..Len(listed) /\ place[j] \in 1..Len(listed)
        BY <1>6, <1>8, <1>9 DEF IsPart
    <2>2. /\ listed[place[i]] # listed[place[j]]
          /\ subscriber[listed[place[i]]].priority <= subscriber[listed[place[j]]].priority
        BY <1>7, <2>1 DEF ListKept
    <2>3. listed'[i] = listed[place[i]] /\ listed'[j] = listed[place[j]]
        BY <1>8
    <2>4. listed[place[i]] \in 1..Len(subscriber) /\ listed[place[j]] \in 1..Len(subscriber)
        BY <1>2, <2>1
    <2>5. QED BY <1>4, <2>2, <2>3, <2>4
<1>10. ASSUME NEW s \in 1..Len(subscriber)
       PROVE  subscriber'[s].active <=> \E k \in 1..Len(listed') : listed'[k] = s
    <2>1. ASSUME NEW k \in 1..Len(listed'), listed'[k] = s PROVE subscriber'[s].active
        BY <1>4, <1>5, <1>8, <2>1
    <2>2. ASSUME subscriber'[s].active PROVE \E k \in 1..Len(listed') : listed'[k] = s
        <3>1. s \in S /\ subscriber[s].active
            BY <1>4, <1>5, <2>2
        <3>2. PICK i \in 1..Len(listed) : listed[i] = s
            BY <1>7, <3>1 DEF ListKept
        <3>3. PICK n \in 1..Len(listed') : place[n] = i
            BY <1>6, <3>1, <3>2 DEF IsPart
        <3>4. QED BY <1>8, <3>2, <3>3
    <2>3. QED BY <2>1, <2>2
<1>11. ListKept(listed, subscriber)'
    BY <1>4, <1>6, <1>9, <1>10 DEF ListKept
<1>12. ASSUME NEW p \in Publishers
       PROVE  /\ PublishTyped(publish[p], subscriber')
              /\ publish[p].topic # <<>> => Routed(publish[p], subscriber')
    <2> DEFINE b == publish[p]
    <2>1. PublishTyped(b, subscriber) /\ (b.topic # <<>> => Routed(b, subscriber))
        BY DEF EventBusInv
    <2> HIDE DEF b
    <2>2. PublishTyped(b, subscriber')
        BY <1>4, <2>1 DEF PublishTyped
    <2>3. b.served \subseteq 1..Len(subscriber) /\ \A k \in 1..Len(b.matched) : b.matched[k] \in 1..Len(subscriber)
        BY <2>1 DEF PublishTyped
    <2>4. ASSUME b.topic # <<>> PROVE Routed(b, subscriber')
        <3>1. Routed(b, subscriber)
            BY <2>1, <2>4
        <3>2. \A s \in b.served : subscriber'[s].pattern = subscriber[s].pattern
            BY <1>4, <2>3
        <3>3. \A k \in 1..Len(b.matched) :
                  /\ subscriber'[b.matched[k]].pattern = subscriber[b.matched[k]].pattern
                  /\ subscriber'[b.matched[k]].priority = subscriber[b.matched[k]].priority
            BY <1>4, <2>3
        <3>4. QED BY <1>4, <3>1, <3>2, <3>3 DEF Routed
    <2>5. QED BY <2>2, <2>4 DEF b
<1>13. QED BY <1>1, <1>4, <1>11, <1>12 DEF EventBusInv

\* A publish that goes on is all that changes.
LEMMA PublisherKeeps ==
    ASSUME EventBusInv, NEW p \in Publishers, NEW b, publish' = [publish EXCEPT ![p] = b],
           UNCHANGED <<subscriber, listed, subIndex>>,
           PublishTyped(b, subscriber), b.topic # <<>> => Routed(b, subscriber)
    PROVE  EventBusInv'
<1>1. \A q \in Publishers : publish'[q] = IF q = p THEN b ELSE publish[q]
    BY DEF EventBusInv
<1>2. DOMAIN publish' = Publishers
    BY DEF EventBusInv
<1>3. \A q \in Publishers : /\ PublishTyped(publish'[q], subscriber)
                            /\ publish'[q].topic # <<>> => Routed(publish'[q], subscriber)
    BY <1>1 DEF EventBusInv
<1>4. QED BY <1>2, <1>3 DEF EventBusInv

LEMMA PublishKeeps ==
    ASSUME EventBusInv, NEW p \in Publishers, NEW topic \in Topics, Publish(p, topic)
    PROVE  EventBusInv'
<1> DEFINE S == {s \in DOMAIN subscriber : subscriber[s].active /\ TopicMatches(subscriber[s].pattern, topic)}
           matched == Those(listed, S)
           b == [topic |-> topic, matched |-> matched, served |-> {}, upto |-> Len(subscriber)]
<1>1. publish' = [publish EXCEPT ![p] = b] /\ UNCHANGED <<subscriber, listed, subIndex>>
    BY DEF Publish
<1>2. /\ subscriber \in Seq(Subscribers) /\ ListKept(listed, subscriber)
      /\ listed \in Seq(1..Len(subscriber))
    BY DEF EventBusInv, ListKept
<1>3. Len(subscriber) \in Nat /\ DOMAIN subscriber = 1..Len(subscriber)
    BY <1>2
<1>4. \A s : s \in S <=> /\ s \in 1..Len(subscriber) /\ subscriber[s].active
                         /\ Covers(subscriber[s].pattern, topic)
    <2>1. ASSUME NEW s \in 1..Len(subscriber)
          PROVE  TopicMatches(subscriber[s].pattern, topic) <=> Covers(subscriber[s].pattern, topic)
        <3>1. Len(subscriber[s].pattern) \in Nat /\ Len(topic) \in Nat
            BY <1>2, SubscriberIs, EventBusAssumption
        <3>2. QED BY <3>1, MatchingIsCovering
    <2>2. QED BY <1>3, <2>1
<1> HIDE DEF S
<1>5. PICK place : matched \in Seq(1..Len(subscriber)) /\ IsPart(matched, listed, S, place)
    BY <1>2, ThoseAreAPart
<1> HIDE DEF matched
<1>6. Len(matched) \in Nat /\ \A k \in 1..Len(matched) : matched[k] \in S /\ matched[k] = listed[place[k]]
                                                        /\ place[k] \in 1..Len(listed)
    <2>1. Len(matched) \in Nat
        BY <1>5
    <2>2. QED BY <1>5, <2>1 DEF IsPart
<1>7. \A i, j \in 1..Len(matched) : i < j =>
          subscriber[matched[i]].priority <= subscriber[matched[j]].priority
    <2> SUFFICES ASSUME NEW i \in 1..Len(matched), NEW j \in 1..Len(matched), i < j
                 PROVE  subscriber[matched[i]].priority <= subscriber[matched[j]].priority
        OBVIOUS
    <2>1. place[i] < place[j]
        BY <1>5 DEF IsPart
    <2>2. subscriber[listed[place[i]]].priority <= subscriber[listed[place[j]]].priority
        BY <1>2, <1>6, <2>1 DEF ListKept
    <2>3. QED BY <1>6, <2>2
<1>8. ASSUME NEW s \in 1..Len(subscriber), subscriber[s].active, Covers(subscriber[s].pattern, topic)
      PROVE  \E k \in 1..Len(matched) : matched[k] = s
    <2>1. PICK i \in 1..Len(listed) : listed[i] = s
        BY <1>2, <1>8 DEF ListKept
    <2>2. PICK k \in 1..Len(matched) : place[k] = i
        BY <1>4, <1>5, <1>8, <2>1 DEF IsPart
    <2>3. QED BY <1>6, <2>1, <2>2
<1>9. PublishTyped(b, subscriber)
    BY <1>3, <1>5 DEF PublishTyped
<1>10. Routed(b, subscriber)
    BY <1>4, <1>6, <1>7, <1>8 DEF Routed
<1> HIDE DEF b
<1>11. QED BY <1>1, <1>9, <1>10, PublisherKeeps

LEMMA DeliverKeeps ==
    ASSUME EventBusInv, NEW p \in Publishers, Deliver(p)
    PROVE  EventBusInv'
<1> DEFINE a == publish[p]
           s == Head(a.matched)
           served == IF subscriber[s].active THEN a.served \cup {s} ELSE a.served
           b == [topic |-> a.topic, matched |-> Tail(a.matched), served |-> served, upto |-> a.upto]
<1>1. PublishTyped(a, subscriber) /\ (a.topic # <<>> => Routed(a, subscriber)) /\ DOMAIN publish = Publishers
    BY DEF EventBusInv
<1>2. a.matched # <<>> /\ UNCHANGED <<subscriber, listed, subIndex>>
    BY DEF Deliver
<1>3. publish' = [publish EXCEPT ![p] = b]
    <2> DEFINE rest == [a EXCEPT !.matched = Tail(@)]
    <2>1. publish' = [publish EXCEPT ![p] = IF subscriber[s].active THEN [rest EXCEPT !.served = @ \cup {s}] ELSE rest]
        BY DEF Deliver
    <2> DEFINE t == a.topic
               m == a.matched
               v == a.served
               u == a.upto
    <2>2. /\ a = [topic |-> t, matched |-> m, served |-> v, upto |-> u]
          /\ b = [topic |-> t, matched |-> Tail(m), upto |-> u,
                   served |-> IF subscriber[s].active THEN v \cup {s} ELSE v]
        BY <1>1 DEF PublishTyped
    <2> HIDE DEF t, m, v, u, b
    <2>3. rest = [topic |-> t, matched |-> Tail(m), served |-> v, upto |-> u]
        <3> DEFINE x == Tail(a.matched)
        <3>1. a.matched = m
            BY <2>2
        <3>2. x = Tail(m)
            BY <3>1, Zenon
        <3> HIDE DEF x
        <3>3. [a EXCEPT !.matched = x] = [topic |-> t, matched |-> x, served |-> v, upto |-> u]
            BY <2>2
        <3>4. QED BY <3>2, <3>3, Zenon DEF x
    <2> HIDE DEF rest, a, s
    <2>4. [rest EXCEPT !.served = @ \cup {s}]
            = [topic |-> t, matched |-> Tail(m), served |-> v \cup {s}, upto |-> u]
        <3> DEFINE x == rest.served \cup {s}
                   k == Tail(m)
        <3>1. rest = [topic |-> t, matched |-> k, served |-> v, upto |-> u]
            BY <2>3
        <3> HIDE DEF k
        <3>2. x = v \cup {s}
            BY <3>1
        <3> HIDE DEF x
        <3>3. [rest EXCEPT !.served = x] = [topic |-> t, matched |-> k, served |-> x, upto |-> u]
            BY <3>1
        <3>4. QED BY <3>2, <3>3, Zenon DEF x, k
    <2>5. (IF subscriber[s].active THEN [rest EXCEPT !.served = @ \cup {s}] ELSE rest) = b
        BY <2>2, <2>3, <2>4
    <2>6. QED BY <2>1, <2>5
<1> HIDE DEF a
<1> DEFINE rest == Tail(a.matched)
<1>4. /\ Len(a.matched) \in Nat /\ Len(a.matched) > 0 /\ s = a.matched[1] /\ s \in 1..Len(subscriber)
      /\ rest \in Seq(1..Len(subscriber)) /\ Len(rest) = Len(a.matched) - 1
      /\ \A k \in 1..Len(rest) : rest[k] = a.matched[k + 1]
    <2>1. a.matched \in Seq(1..Len(subscriber))
        BY <1>1 DEF PublishTyped
    <2> DEFINE m == a.matched
    <2>2. m \in Seq(1..Len(subscriber)) /\ m # <<>>
        BY <1>2, <2>1
    <2> HIDE DEF m
    <2>3. /\ Len(m) \in Nat /\ Len(m) > 0 /\ Head(m) = m[1] /\ m[1] \in 1..Len(subscriber)
          /\ Tail(m) \in Seq(1..Len(subscriber)) /\ Len(Tail(m)) = Len(m) - 1
          /\ \A k \in 1..Len(Tail(m)) : Tail(m)[k] = m[k + 1]
        BY <2>2, HeadTailProperties
    <2>4. QED BY <2>3 DEF m
<1> HIDE DEF s, rest
<1>5. PublishTyped(b, subscriber)
    <2>1. served \subseteq 1..Len(subscriber)
        BY <1>1, <1>4 DEF PublishTyped
    <2> HIDE DEF served
    <2>2. QED BY <1>1, <1>4, <2>1 DEF PublishTyped, rest
<1>6. ASSUME a.topic # <<>> PROVE Routed(b, subscriber)
    <2>1. Routed(a, subscriber)
        BY <1>1, <1>6
    <2>2. \A k \in 1..Len(rest) : k + 1 \in 1..Len(a.matched)
        BY <1>4
    <2>3. \A t \in served : Covers(subscriber[t].pattern, a.topic)
        <3>1. Covers(subscriber[s].pattern, a.topic)
            BY <1>4, <2>1 DEF Routed
        <3>2. QED BY <2>1, <3>1 DEF Routed
    <2>4. \A k \in 1..Len(rest) : Covers(subscriber[rest[k]].pattern, a.topic)
        BY <1>4, <2>1, <2>2 DEF Routed
    <2>5. ASSUME NEW i \in 1..Len(rest), NEW j \in 1..Len(rest), i < j
          PROVE  subscriber[rest[i]].priority <= subscriber[rest[j]].priority
        <3>1. i + 1 < j + 1
            BY <2>5
        <3>2. QED BY <1>4, <2>1, <2>2, <3>1 DEF Routed
    <2>6. ASSUME NEW t \in 1..Len(subscriber), subscriber[t].active, Covers(subscriber[t].pattern, a.topic)
          PROVE  t \in served \/ t > a.upto \/ \E k \in 1..Len(rest) : rest[k] = t
        <3>1. t \in a.served \/ t > a.upto \/ \E k \in 1..Len(a.matched) : a.matched[k] = t
            BY <2>1, <2>6 DEF Routed
        <3>2. CASE t \in a.served
            BY <3>2
        <3>3. ASSUME NEW k \in 1..Len(a.matched), a.matched[k] = t
              PROVE  t \in served \/ \E l \in 1..Len(rest) : rest[l] = t
            <4>1. CASE k = 1
                BY <1>4, <2>6, <3>3, <4>1
            <4>2. CASE k # 1
                <5>1. k - 1 \in 1..Len(rest) /\ k - 1 + 1 = k
                    BY <1>4, <4>2
                <5>2. rest[k - 1] = t
                    BY <1>4, <3>3, <5>1
                <5>3. QED BY <5>1, <5>2
            <4>3. QED BY <4>1, <4>2
        <3>4. QED BY <3>1, <3>2, <3>3
    <2> HIDE DEF served
    <2>7. QED BY <2>3, <2>4, <2>5, <2>6 DEF Routed, rest
<1>7. b.topic = a.topic
    OBVIOUS
<1> HIDE DEF b
<1>8. QED BY <1>2, <1>3, <1>5, <1>6, <1>7, PublisherKeeps

LEMMA PublishReturnsKeeps ==
    ASSUME EventBusInv, NEW p \in Publishers, PublishReturns(p)
    PROVE  EventBusInv'
<1>1. publish' = [publish EXCEPT ![p] = NoPublish] /\ UNCHANGED <<subscriber, listed, subIndex>>
    BY DEF PublishReturns
<1>2. Len(subscriber) \in Nat
    BY DEF EventBusInv
<1>3. PublishTyped(NoPublish, subscriber) /\ NoPublish.topic = <<>>
    BY <1>2 DEF PublishTyped, NoPublish
<1>4. QED BY <1>1, <1>3, PublisherKeeps

\* Whatever patterns and topics there are, and however subscriptions come and go between the
\* deliveries of any number of publishes: the index of EventBus finds whom unsubscribe means,
\* and a publish reaches, in the order of priorities, the subscribers whose pattern covers its
\* topic, as _topic_matches decides by its recursion.
THEOREM TopicsAreRouted == EventBusSpec => [](IndexFinds /\ RoutesByTopic)
<1>1. EventBusInv /\ [EventBusNext]_eventBusVars => EventBusInv'
    <2> SUFFICES ASSUME EventBusInv, [EventBusNext]_eventBusVars PROVE EventBusInv'
        OBVIOUS
    <2>1. ASSUME NEW id \in SubIds, NEW pattern \in Patterns, NEW priority \in Priorities,
                 Subscribe(id, pattern, priority)
          PROVE  EventBusInv'
        BY <2>1, SubscribeKeeps
    <2>2. ASSUME NEW id \in SubIds, Unsubscribe(id) PROVE EventBusInv'
        BY <2>2, UnsubscribeKeeps
    <2>3. ASSUME NEW p \in Publishers, NEW topic \in Topics, Publish(p, topic) PROVE EventBusInv'
        BY <2>3, PublishKeeps
    <2>4. ASSUME NEW p \in Publishers, Deliver(p) PROVE EventBusInv'
        BY <2>4, DeliverKeeps
    <2>5. ASSUME NEW p \in Publishers, PublishReturns(p) PROVE EventBusInv'
        BY <2>5, PublishReturnsKeeps
    <2>6. CASE UNCHANGED eventBusVars
        BY <2>6 DEF eventBusVars, EventBusInv
    <2>7. QED BY <2>1, <2>2, <2>3, <2>4, <2>5, <2>6 DEF EventBusNext
<1>2. QED BY EventBusStarts, BusIsRight, <1>1, PTL DEF EventBusSpec

\* Whoever subscribes, publishes, opens, closes, asks and answers, in whatever order: topics
\* are routed, names agree and replies match (EventBus, IPCNamespace, Channel).
THEOREM MessagesAlwaysFind == EventBusSpec /\ NamespaceSpec /\ ChannelSpec => []MessagesFindTheirWay
<1>1. (IndexFinds /\ RoutesByTopic) /\ HoldersAgree /\ RepliesMatch => MessagesFindTheirWay
    BY DEF MessagesFindTheirWay
<1>2. QED BY TopicsAreRouted, NamesLeadToOne, RepliesAreToTheQuestion, <1>1, PTL

-----------------------------------------------------------------------------
(* The address cache *)

\* Every variable of the address cache keeps its type.
THEOREM AddressesTyped == ArpSpec => []ArpTypeOK
<1>1. ArpInit => ArpTypeOK
    BY AddressAssumption DEF ArpInit, ArpTypeOK
<1>2. ArpTypeOK /\ [ArpNext]_arpVars => ArpTypeOK'
    <2> SUFFICES ASSUME ArpTypeOK, [ArpNext]_arpVars PROVE ArpTypeOK'
        OBVIOUS
    <2> USE DEF ArpTypeOK, Goes, Looked, resolvers
    <2>1. ASSUME NEW t \in Resolvers, NEW ip \in Ips, NEW force \in BOOLEAN,
                 ArpResolves(t, ip, force)
          PROVE  ArpTypeOK'
        BY <2>1 DEF ArpResolves
    <2>2. ASSUME NEW t \in Resolvers, Discovers(t) PROVE ArpTypeOK'
        BY <2>2, AddressAssumption DEF Discovers
    <2>3. ASSUME NEW t \in Resolvers, Invalidates(t) PROVE ArpTypeOK'
        BY <2>3 DEF Invalidates
    <2>4. ASSUME NEW t \in Resolvers, SendsRequest(t) PROVE ArpTypeOK'
        BY <2>4 DEF SendsRequest
    <2>5. ASSUME NEW t \in Resolvers, Registers(t) PROVE ArpTypeOK'
        BY <2>5 DEF Registers
    <2>6. ASSUME NEW t \in Resolvers, StopsWaiting(t) PROVE ArpTypeOK'
        BY <2>6 DEF StopsWaiting
    <2>7. ASSUME NEW t \in Resolvers, ReadsResult(t) PROVE ArpTypeOK'
        BY <2>7 DEF ReadsResult
    <2>8. ASSUME NEW t \in Resolvers, Signals(t) PROVE ArpTypeOK'
        BY <2>8 DEF Signals
    <2>9. ASSUME NEW ip \in Ips, Learns(ip) PROVE ArpTypeOK'
        BY <2>9 DEF Learns
    <2>10. ASSUME NEW ip \in Ips, Ages(ip) PROVE ArpTypeOK'
        BY <2>10 DEF Ages
    <2>11. CASE PurgesExpired
        BY <2>11 DEF PurgesExpired
    <2>12. CASE UNCHANGED arpVars
        BY <2>12 DEF arpVars
    <2>13. QED
        BY <2>1, <2>2, <2>3, <2>4, <2>5, <2>6, <2>7, <2>8, <2>9, <2>10, <2>11, <2>12
        DEF ArpNext
<1>3. QED BY <1>1, <1>2, PTL DEF ArpSpec

\* ARPCache.wait_for and set: with the types, the property is inductive.  A registration
\* finds no live entry or does not wait, set() reads whoever is registered at the write,
\* and a thread's signal is taken back only by its own next registration.
THEOREM RepliesAreNotMissed == ArpSpec => []NoReplyMissed
<1>1. ArpInit => NoReplyMissed
    BY DEF ArpInit, NoReplyMissed
<1>2. ArpTypeOK /\ NoReplyMissed /\ [ArpNext]_arpVars => NoReplyMissed'
    <2> SUFFICES ASSUME ArpTypeOK, NoReplyMissed, [ArpNext]_arpVars, NEW u \in Resolvers,
                        phase'[u] = "waits", waiter'[asks'[u]] = u, table'[asks'[u]] = "live"
                 PROVE  signalled'[u] \/ u \in signals'
        BY DEF NoReplyMissed
    <2> USE DEF ArpTypeOK, NoReplyMissed, Goes, Looked, resolvers
    <2>1. ASSUME NEW t \in Resolvers, NEW ip \in Ips, NEW force \in BOOLEAN,
                 ArpResolves(t, ip, force)
          PROVE  signalled'[u] \/ u \in signals'
        BY <2>1 DEF ArpResolves
    <2>2. ASSUME NEW t \in Resolvers, Discovers(t) PROVE signalled'[u] \/ u \in signals'
        BY <2>2 DEF Discovers
    <2>3. ASSUME NEW t \in Resolvers, Invalidates(t) PROVE signalled'[u] \/ u \in signals'
        BY <2>3 DEF Invalidates
    <2>4. ASSUME NEW t \in Resolvers, SendsRequest(t) PROVE signalled'[u] \/ u \in signals'
        BY <2>4 DEF SendsRequest
    <2>5. ASSUME NEW t \in Resolvers, Registers(t) PROVE signalled'[u] \/ u \in signals'
        BY <2>5 DEF Registers
    <2>6. ASSUME NEW t \in Resolvers, StopsWaiting(t) PROVE signalled'[u] \/ u \in signals'
        BY <2>6 DEF StopsWaiting
    <2>7. ASSUME NEW t \in Resolvers, ReadsResult(t) PROVE signalled'[u] \/ u \in signals'
        BY <2>7, AddressAssumption DEF ReadsResult
    <2>8. ASSUME NEW t \in Resolvers, Signals(t) PROVE signalled'[u] \/ u \in signals'
        BY <2>8 DEF Signals
    <2>9. ASSUME NEW ip \in Ips, Learns(ip) PROVE signalled'[u] \/ u \in signals'
        BY <2>9, AddressAssumption DEF Learns
    <2>10. ASSUME NEW ip \in Ips, Ages(ip) PROVE signalled'[u] \/ u \in signals'
        BY <2>10 DEF Ages
    <2>11. CASE PurgesExpired
        BY <2>11 DEF PurgesExpired
    <2>12. CASE UNCHANGED arpVars
        BY <2>12 DEF arpVars
    <2>13. QED
        BY <2>1, <2>2, <2>3, <2>4, <2>5, <2>6, <2>7, <2>8, <2>9, <2>10, <2>11, <2>12
        DEF ArpNext
<1>3. QED BY <1>1, <1>2, AddressesTyped, PTL DEF ArpSpec

-----------------------------------------------------------------------------
(* The life cycle of the sentinel *)

(* What start and stop have done so far at each of their steps.  While the lock is *)
(* held the sentinel does not run; from registers to discovers the socket is open; *)
(* the receive thread is launched before discovers, and told to end before waits.  *)
StepsInOrder ==
    /\ op # "idle" => ~running
    /\ op \in {"opens", "registers", "launches"} => ~polling /\ latest < MaxStarts
    /\ op \in {"registers", "launches", "discovers"} => sock = "open"
    /\ op = "discovers" => polling /\ latest > 0 /\ Alive(latest)
    /\ op \in {"waits", "closes", "clears"} => ~polling
    /\ op = "clears" => sock # "open"
    /\ running => latest > 0

SentinelInv == SentinelTypeOK /\ StepsInOrder /\ OpenWhileRunning

LEMMA SentinelStarts == SentinelInit => SentinelInv
<1> SUFFICES ASSUME SentinelInit PROVE SentinelInv
    OBVIOUS
<1> USE SentinelAssumption DEF SentinelInit, Receivers
<1>1. SentinelTypeOK
    <2>1. running \in BOOLEAN /\ polling \in BOOLEAN
        BY Zenon
    <2>2. receiveHandlers \in Nat /\ latest \in 0..MaxStarts
        OBVIOUS
    <2>3. rx \in [Receivers -> {"new", "polls", "receives", "ended"}]
        OBVIOUS
    <2>4. client \in [Clients -> {"idle", "called", "sends", "surprised"}]
        OBVIOUS
    <2>5. QED BY <2>1, <2>2, <2>3, <2>4 DEF SentinelTypeOK
<1>2. StepsInOrder
    <2>1. ~running /\ ~polling /\ op = "idle"
        OBVIOUS
    <2>2. QED BY <2>1 DEF StepsInOrder
<1>3. OpenWhileRunning
    BY DEF OpenWhileRunning
<1>4. QED BY <1>1, <1>2, <1>3 DEF SentinelInv

LEMMA SentinelSteps == SentinelInv /\ [SentinelNext]_sentinelVars => SentinelInv'
<1> SUFFICES ASSUME SentinelInv, [SentinelNext]_sentinelVars PROVE SentinelInv'
    OBVIOUS
<1> USE SentinelAssumption DEF SentinelInv, SentinelTypeOK, StepsInOrder, OpenWhileRunning,
        Receivers, Alive, interface
<1>1. CASE Start
    BY <1>1 DEF Start
<1>2. CASE Opens
    BY <1>2 DEF Opens
<1>3. CASE RegistersHandlers
    BY <1>3 DEF RegistersHandlers
<1>4. CASE Launches
    BY <1>4 DEF Launches
<1>5. CASE DiscoversRouter
    <2>1. CASE running' = TRUE /\ op' = "idle"
        <3>1. running' /\ sock' = "open" /\ polling' /\ rx' = rx /\ latest' = latest /\ Alive(latest)
            BY <1>5, <2>1 DEF DiscoversRouter
        <3>2. QED BY <1>5, <2>1, <3>1 DEF DiscoversRouter
    <2>2. CASE op' = "joins" /\ UNCHANGED running
        BY <1>5, <2>2 DEF DiscoversRouter
    <2>3. QED BY <1>5, <2>1, <2>2 DEF DiscoversRouter
<1>6. CASE Stop
    BY <1>6 DEF Stop
<1>7. CASE StopsPolling
    BY <1>7 DEF StopsPolling
<1>8. CASE Joins
    BY <1>8 DEF Joins
<1>9. CASE ClosesSocket
    BY <1>9 DEF ClosesSocket
<1>10. CASE ClearsSocket
    BY <1>10 DEF ClearsSocket
<1>11. ASSUME NEW r \in Receivers, Polls(r) PROVE SentinelInv'
    BY <1>11 DEF Polls
<1>12. ASSUME NEW r \in Receivers, Receives(r) PROVE SentinelInv'
    BY <1>12 DEF Receives
<1>13. ASSUME NEW c \in Clients, SentinelCalls(c) \/ ChecksSocket(c) \/ SendsFrame(c)
       PROVE  SentinelInv'
    BY <1>13 DEF SentinelCalls, ChecksSocket, SendsFrame, Steps
<1>14. CASE UNCHANGED sentinelVars
    BY <1>14 DEF sentinelVars
<1>15. QED
    BY <1>1, <1>2, <1>3, <1>4, <1>5, <1>6, <1>7, <1>8, <1>9, <1>10, <1>11, <1>12, <1>13, <1>14
    DEF SentinelNext

\* Every variable of the sentinel keeps its type.
THEOREM SentinelTyped == SentinelSpec => []SentinelTypeOK
<1>1. SentinelInv => SentinelTypeOK
    BY DEF SentinelInv
<1>2. QED BY <1>1, SentinelStarts, SentinelSteps, PTL DEF SentinelSpec

\* "If this method raises, the interface is closed" (EtherSentinel.start), and between two
\* calls of start and stop the socket is open and listened to exactly while it runs.
THEOREM OpenExactlyWhileRunning == SentinelSpec => []OpenWhileRunning
<1>1. SentinelInv => OpenWhileRunning
    BY DEF SentinelInv
<1>2. QED BY <1>1, SentinelStarts, SentinelSteps, PTL DEF SentinelSpec

-----------------------------------------------------------------------------
(* The name queries *)

Answers == {"addresses", "nothing"} \cup Names

Open(c) == call[c].step \in {"sends", "awaits"}

(* The types, with what is known of the answer in the receive thread's hands. *)
QueriesTyped == DnsTypeOK /\ handling \in {Nothing} \cup [to : Callers, what : Answers]

(* An id is held exactly while a query is open. *)
IdsWhileOpen ==
    \A c \in Callers : IF Open(c) THEN call[c].id \in Ids
                      ELSE call[c].id = NoId /\ ~call[c].handled

(* What a resolve_dns has sent and may still send never exceeds the budget it was *)
(* called with: a query that is drawn or sent is still to be counted.             *)
WithinBudget(q) ==
    /\ q.step = "idle" => q.queries = 0
    /\ q.step # "idle" => q.attempt <= q.retries
    /\ q.step \in {"draws", "sends"} => q.queries + (q.retries - q.attempt) < MaxRetries
    /\ q.step = "awaits" => q.queries + (q.retries - q.attempt) <= MaxRetries

BudgetLeft == \A c \in Callers : WithinBudget(call[c])

(* If ids do not collide, an open query is the one registered under its id, and no *)
(* answer to it can arrive before it was sent.                                     *)
OwnId ==
    UniqueIds => \A c \in Callers :
        /\ Open(c) => pending[call[c].id] = c
        /\ call[c].step = "sends" => /\ ~call[c].handled
                                    /\ \A q \in sent : q.id # call[c].id

QueryInv == QueriesTyped /\ IdsWhileOpen /\ BudgetLeft /\ OwnId
            /\ NoAnswerMissed /\ PendingHasWaiter

LEMMA IdleTyped == Idle \in Calls /\ Idle.step = "idle" /\ Idle.id = NoId /\ ~Idle.handled
                   /\ Idle.queries = 0 /\ Idle.answer = "none"
BY QueryAssumption DEF Idle, Calls

\* The locals of resolve that a step leaves behind are of their type.
LEMMA LocalsTyped ==
    ASSUME NEW q \in Calls
    PROVE  /\ \A n \in Names, r \in 0..MaxRetries, a \in 0..MaxRetries :
                /\ [q EXCEPT !.step = "draws", !.name = n, !.retries = r, !.attempt = a] \in Calls
                /\ [q EXCEPT !.name = n, !.retries = r, !.attempt = a] \in Calls
           /\ \A k \in Nat : [q EXCEPT !.step = "awaits", !.queries = k] \in Calls
           /\ \A a \in 0..MaxRetries : [q EXCEPT !.attempt = a] \in Calls
           /\ [q EXCEPT !.step = "draws", !.id = NoId, !.answer = "none", !.handled = FALSE] \in Calls
           /\ \A what \in Answers : [q EXCEPT !.answer = what] \in Calls
BY DEF Calls, Answers

LEMMA QueriesStart == DnsInit => QueryInv
<1> SUFFICES ASSUME DnsInit PROVE QueryInv
    OBVIOUS
<1> USE IdleTyped, QueryAssumption DEF DnsInit
<1>1. \A c \in Callers : call[c] = Idle
    OBVIOUS
<1>2. QueriesTyped
    BY DEF QueriesTyped, DnsTypeOK, Nothing
<1>3. IdsWhileOpen /\ BudgetLeft /\ OwnId
    BY <1>1 DEF IdsWhileOpen, Open, BudgetLeft, WithinBudget, OwnId
<1>4. NoAnswerMissed /\ PendingHasWaiter
    BY <1>1 DEF NoAnswerMissed, PendingHasWaiter
<1>5. QED BY <1>2, <1>3, <1>4 DEF QueryInv

\* Forgets: a caller whose query was open ends its attempt, and what it goes on with holds no id.
LEMMA AttemptEnds ==
    ASSUME QueryInv, NEW c \in Callers, NEW r \in Calls, Open(c), Forgets(c),
           call' = [call EXCEPT ![c] = r], UNCHANGED sent,
           r.step \in {"idle", "draws"}, r.id = NoId, ~r.handled, WithinBudget(r)
    PROVE  QueryInv'
<1> USE QueryAssumption DEF QueryInv, QueriesTyped, DnsTypeOK, Forgets
<1>1. /\ call'[c] = r
      /\ \A d \in Callers \ {c} : call'[d] = call[d]
      /\ call' \in [Callers -> Calls]
    OBVIOUS
<1>2. QueriesTyped'
    <2>1. pending' \in [Ids -> Callers \cup {NoCaller}]
        OBVIOUS
    <2>2. handling' \in {Nothing} \cup [to : Callers, what : Answers]
        OBVIOUS
    <2>3. handling'.to \in Callers \cup {NoCaller}
        BY <2>2 DEF Nothing
    <2>4. QED BY <1>1, <2>1, <2>2, <2>3
<1>3. IdsWhileOpen'
    BY <1>1 DEF IdsWhileOpen, Open
<1>4. BudgetLeft'
    BY <1>1 DEF BudgetLeft, WithinBudget
<1>5. OwnId'
    BY <1>1 DEF OwnId, Open, IdsWhileOpen
<1>6. NoAnswerMissed'
    BY <1>1 DEF NoAnswerMissed
<1>7. PendingHasWaiter'
    BY <1>1 DEF PendingHasWaiter, IdsWhileOpen, Open
<1>8. QED BY <1>2, <1>3, <1>4, <1>5, <1>6, <1>7

LEMMA QueriesStep == QueryInv /\ [DnsNext]_dnsVars => QueryInv'
<1> SUFFICES ASSUME QueryInv, [DnsNext]_dnsVars PROVE QueryInv'
    OBVIOUS
<1> USE QueryAssumption DEF QueryInv, QueriesTyped, DnsTypeOK
<1>1. ASSUME NEW c \in Callers, NEW n \in Names, ResolveDns(c, n) PROVE QueryInv'
    <2> DEFINE Fresh == [Idle EXCEPT !.step = "draws", !.name = n,
                                     !.retries = MaxRetries, !.attempt = 1]
    <2>1. PICK r \in {Idle, Fresh} : call' = [call EXCEPT ![c] = r]
        BY <1>1 DEF ResolveDns, Returns, Continues
    <2>2. /\ r \in Calls /\ r.step \in {"idle", "draws"} /\ r.id = NoId /\ ~r.handled
          /\ WithinBudget(r)
        <3>1. 1 \in 0..MaxRetries /\ MaxRetries \in 0..MaxRetries
            OBVIOUS
        <3>2. Fresh \in Calls
            BY <3>1, IdleTyped, LocalsTyped
        <3>3. /\ Fresh.step = "draws" /\ Fresh.id = NoId /\ ~Fresh.handled
              /\ Fresh.queries = 0 /\ Fresh.retries = MaxRetries /\ Fresh.attempt = 1
            BY IdleTyped DEF Calls
        <3> HIDE DEF Fresh
        <3>4. WithinBudget(Fresh) /\ WithinBudget(Idle)
            BY <3>3, IdleTyped DEF WithinBudget
        <3>5. QED BY <3>2, <3>3, <3>4, IdleTyped
    <2>3. UNCHANGED <<pending, sent, handling>> /\ call[c].step = "idle"
        BY <1>1 DEF ResolveDns
    <2>4. /\ call'[c] = r
          /\ \A d \in Callers \ {c} : call'[d] = call[d]
          /\ call' \in [Callers -> Calls]
        BY <2>1, <2>2
    <2> HIDE DEF Fresh
    <2>5. QueriesTyped'
        BY <2>3, <2>4
    <2>6. IdsWhileOpen' /\ BudgetLeft'
        BY <2>2, <2>4 DEF IdsWhileOpen, Open, BudgetLeft, WithinBudget
    <2>7. OwnId' /\ NoAnswerMissed'
        BY <2>2, <2>3, <2>4 DEF OwnId, Open, NoAnswerMissed
    <2>8. PendingHasWaiter'
        BY <2>2, <2>3, <2>4 DEF PendingHasWaiter
    <2>9. QED BY <2>5, <2>6, <2>7, <2>8
<1>2. ASSUME NEW c \in Callers, NEW i \in Ids, RegistersQuery(c, i) PROVE QueryInv'
    <2> DEFINE r == [call[c] EXCEPT !.step = "sends", !.id = i]
    <2>1. /\ r \in Calls /\ r.step = "sends" /\ r.id = i /\ r.handled = call[c].handled
          /\ r.queries = call[c].queries /\ r.retries = call[c].retries
          /\ r.attempt = call[c].attempt
        BY ZenonT(30) DEF Calls
    <2>2. /\ call[c].step = "draws" /\ (UniqueIds => ~Used(i))
          /\ pending' = [pending EXCEPT ![i] = c]
          /\ call' = [call EXCEPT ![c] = r] /\ UNCHANGED <<sent, handling>>
        BY <1>2 DEF RegistersQuery, Continues
    <2>3. /\ call'[c] = r
          /\ \A d \in Callers \ {c} : call'[d] = call[d]
          /\ call' \in [Callers -> Calls]
        BY <2>1, <2>2
    <2> HIDE DEF r
    <2>4. QueriesTyped'
        BY <2>2, <2>3
    <2>5. IdsWhileOpen' /\ BudgetLeft'
        BY <2>1, <2>2, <2>3 DEF IdsWhileOpen, Open, BudgetLeft, WithinBudget
    <2>6. OwnId'
        BY <2>1, <2>2, <2>3 DEF OwnId, Open, Used, IdsWhileOpen
    <2>7. NoAnswerMissed'
        BY <2>1, <2>2, <2>3 DEF NoAnswerMissed
    <2>8. PendingHasWaiter'
        BY <2>1, <2>2, <2>3 DEF PendingHasWaiter
    <2>9. QED BY <2>4, <2>5, <2>6, <2>7, <2>8
<1>3. ASSUME NEW c \in Callers, SendsQuery(c) PROVE QueryInv'
    <2> DEFINE r == [call[c] EXCEPT !.step = "awaits", !.queries = @ + 1]
    <2>1. /\ r \in Calls /\ r.step = "awaits" /\ r.id = call[c].id
          /\ r.handled = call[c].handled /\ r.answer = call[c].answer
          /\ r.queries = call[c].queries + 1 /\ r.retries = call[c].retries
          /\ r.attempt = call[c].attempt
        <3> DEFINE k == call[c].queries + 1
        <3>1. k \in Nat /\ call[c] \in Calls
            BY DEF Calls
        <3>2. r = [call[c] EXCEPT !.step = "awaits", !.queries = k]
            OBVIOUS
        <3> HIDE DEF k
        <3>3. r \in Calls
            BY <3>1, <3>2, LocalsTyped
        <3>4. QED BY <3>1, <3>3 DEF Calls, k
    <2>2. /\ call[c].step = "sends"
          /\ sent' = sent \cup {[id |-> call[c].id, name |-> call[c].name]}
          /\ call' = [call EXCEPT ![c] = r] /\ UNCHANGED <<pending, handling>>
        BY <1>3 DEF SendsQuery, Continues
    <2>3. /\ call'[c] = r
          /\ \A d \in Callers \ {c} : call'[d] = call[d]
          /\ call' \in [Callers -> Calls]
        BY <2>1, <2>2
    <2> HIDE DEF r
    <2>4. call[c].id \in Ids /\ call[c] \in Calls
        BY <2>2 DEF IdsWhileOpen, Open
    <2>5. QueriesTyped'
        <3>1. sent' \subseteq [id : Ids, name : Names]
            BY <2>2, <2>4 DEF Calls
        <3>2. QED BY <2>2, <2>3, <3>1
    <2>6. IdsWhileOpen'
        BY <2>1, <2>2, <2>3, <2>4 DEF IdsWhileOpen, Open
    <2>7. BudgetLeft'
        BY <2>1, <2>2, <2>3, <2>4 DEF BudgetLeft, WithinBudget, Calls
    <2>8. OwnId'
        BY <2>1, <2>2, <2>3 DEF OwnId, Open
    <2>9. NoAnswerMissed'
        BY <2>1, <2>2, <2>3 DEF NoAnswerMissed, OwnId
    <2>10. PendingHasWaiter'
        BY <2>1, <2>2, <2>3 DEF PendingHasWaiter
    <2>11. QED BY <2>5, <2>6, <2>7, <2>8, <2>9, <2>10
<1>4. ASSUME NEW c \in Callers, SendFails(c) PROVE QueryInv'
    BY <1>4, AttemptEnds, IdleTyped DEF SendFails, Returns, Open, WithinBudget
<1>5. ASSUME NEW c \in Callers, QueryTimesOut(c) PROVE QueryInv'
    <2> DEFINE Next1 == [[call[c] EXCEPT !.attempt = @ + 1]
                           EXCEPT !.step = "draws", !.id = NoId, !.answer = "none", !.handled = FALSE]
    <2>1. CASE call[c].attempt < call[c].retries
        <3>1. /\ Next1 \in Calls /\ Next1.step = "draws" /\ Next1.id = NoId /\ ~Next1.handled
              /\ Next1.queries = call[c].queries /\ Next1.retries = call[c].retries
              /\ Next1.attempt = call[c].attempt + 1 /\ call[c] \in Calls
            <4> DEFINE a == call[c].attempt + 1
                       q == [call[c] EXCEPT !.attempt = a]
            <4>1. a \in 0..MaxRetries /\ call[c] \in Calls
                BY <2>1 DEF Calls
            <4>2. Next1 = [q EXCEPT !.step = "draws", !.id = NoId, !.answer = "none",
                                    !.handled = FALSE]
                OBVIOUS
            <4> HIDE DEF a
            <4>3. q \in Calls
                BY <4>1, LocalsTyped
            <4>4. Next1 \in Calls
                BY <4>2, <4>3, LocalsTyped
            <4>5. QED BY <4>1, <4>2, <4>4 DEF Calls, a
        <3>2. WithinBudget(Next1)
            BY <1>5, <2>1, <3>1 DEF QueryTimesOut, BudgetLeft, WithinBudget, Calls
        <3>3. call' = [call EXCEPT ![c] = Next1] /\ Forgets(c) /\ UNCHANGED sent /\ Open(c)
            BY <1>5, <2>1 DEF QueryTimesOut, Retries, Continues, Open
        <3> HIDE DEF Next1
        <3>4. QED BY <3>1, <3>2, <3>3, AttemptEnds
    <2>2. CASE ~(call[c].attempt < call[c].retries)
        BY <1>5, <2>2, AttemptEnds, IdleTyped DEF QueryTimesOut, Returns, Open, WithinBudget
    <2>3. QED BY <2>1, <2>2
<1>6. ASSUME NEW c \in Callers, ReadsAnswer(c) PROVE QueryInv'
    <2>1. Open(c) /\ Forgets(c) /\ UNCHANGED sent
        BY <1>6 DEF ReadsAnswer, Open
    <2>2. CASE call' = [call EXCEPT ![c] = Idle]
        BY <2>1, <2>2, AttemptEnds, IdleTyped DEF WithinBudget
    <2>3. CASE call' # [call EXCEPT ![c] = Idle]
        <3> DEFINE n == call[c].answer
                   left == call[c].retries - call[c].attempt
                   Alias == [[call[c] EXCEPT !.name = n, !.retries = left, !.attempt = 1]
                               EXCEPT !.step = "draws", !.id = NoId, !.answer = "none",
                                      !.handled = FALSE]
        <3>1. n \in Names /\ left > 0 /\ call' = [call EXCEPT ![c] = Alias]
            BY <1>6, <2>3 DEF ReadsAnswer, FollowsAlias, Returns, Retries, Continues
        <3>2. call[c] \in Calls /\ left \in 1..MaxRetries
            BY <3>1 DEF Calls
        <3>3. /\ Alias \in Calls /\ Alias.step = "draws" /\ Alias.id = NoId /\ ~Alias.handled
              /\ Alias.queries = call[c].queries /\ Alias.retries = left /\ Alias.attempt = 1
            <4> DEFINE q == [call[c] EXCEPT !.name = n, !.retries = left, !.attempt = 1]
            <4>1. left \in 0..MaxRetries /\ 1 \in 0..MaxRetries
                BY <3>2
            <4>2. Alias = [q EXCEPT !.step = "draws", !.id = NoId, !.answer = "none",
                                    !.handled = FALSE]
                OBVIOUS
            <4> HIDE DEF left
            <4>3. q \in Calls
                BY <3>1, <3>2, <4>1, LocalsTyped
            <4>4. Alias \in Calls
                BY <4>2, <4>3, LocalsTyped
            <4>5. QED BY <3>2, <4>2, <4>4 DEF Calls
        <3>4. WithinBudget(Alias)
            BY <1>6, <3>2, <3>3 DEF ReadsAnswer, BudgetLeft, WithinBudget, Calls
        <3> HIDE DEF Alias
        <3>5. QED BY <2>1, <3>1, <3>3, <3>4, AttemptEnds
    <2>4. QED BY <2>2, <2>3
<1>7. ASSUME NEW q \in sent, NEW what \in Answers, HandlesAnswer(q, what) PROVE QueryInv'
    <2>1. q.id \in Ids /\ handling = Nothing /\ UNCHANGED <<pending, sent>>
        BY <1>7 DEF HandlesAnswer
    <2>2. handling' = IF pending[q.id] = NoCaller THEN Nothing
                      ELSE [to |-> pending[q.id], what |-> what]
        BY <1>7 DEF HandlesAnswer
    <2>3. \A d \in Callers :
              /\ call'[d] \in Calls
              /\ call'[d].step = call[d].step /\ call'[d].id = call[d].id
              /\ call'[d].answer = call[d].answer /\ call'[d].queries = call[d].queries
              /\ call'[d].retries = call[d].retries /\ call'[d].attempt = call[d].attempt
              /\ call'[d].handled <=> call[d].handled \/ call[d].id = q.id
        <3> SUFFICES ASSUME NEW d \in Callers
                     PROVE  LET r == call'[d] IN
                            /\ r \in Calls /\ r.step = call[d].step /\ r.id = call[d].id
                            /\ r.answer = call[d].answer /\ r.queries = call[d].queries
                            /\ r.retries = call[d].retries /\ r.attempt = call[d].attempt
                            /\ r.handled <=> call[d].handled \/ call[d].id = q.id
            OBVIOUS
        <3>1. call[d] \in Calls
            OBVIOUS
        <3>2. CASE call[d].id = q.id
            <4>1. call'[d] = [call[d] EXCEPT !.handled = TRUE]
                BY <1>7, <3>2 DEF HandlesAnswer
            <4>2. [call[d] EXCEPT !.handled = TRUE] \in Calls
                BY <3>1 DEF Calls
            <4>3. QED BY <3>1, <3>2, <4>1, <4>2 DEF Calls
        <3>3. CASE call[d].id # q.id
            <4>1. call'[d] = call[d]
                BY <1>7, <3>3 DEF HandlesAnswer
            <4>2. QED BY <3>1, <3>3, <4>1
        <3>4. QED BY <3>2, <3>3
    <2>4. QueriesTyped'
        <3>1. call' \in [Callers -> Calls]
            BY <1>7, <2>3 DEF HandlesAnswer
        <3>2. handling' \in {Nothing} \cup [to : Callers, what : Answers]
            BY <2>1, <2>2
        <3>3. handling'.to \in Callers \cup {NoCaller}
            BY <3>2 DEF Nothing
        <3>4. QED BY <2>1, <3>1, <3>2, <3>3
    <2>5. IdsWhileOpen'
        BY <2>1, <2>3 DEF IdsWhileOpen, Open
    <2>6. BudgetLeft'
        BY <2>3 DEF BudgetLeft, WithinBudget
    <2>7. OwnId'
        BY <2>1, <2>3 DEF OwnId, Open
    <2>8. NoAnswerMissed'
        BY <2>1, <2>2, <2>3 DEF NoAnswerMissed, OwnId, Open, Nothing
    <2>9. PendingHasWaiter'
        BY <2>1, <2>3 DEF PendingHasWaiter
    <2>10. QED BY <2>4, <2>5, <2>6, <2>7, <2>8, <2>9
<1>8. CASE DeliversAnswer
    <2> DEFINE c == handling.to
               a == IF call[c].answer = "none" THEN handling.what ELSE call[c].answer
               r == [call[c] EXCEPT !.answer = a]
    <2>1. /\ c \in Callers /\ handling.what \in Answers /\ call[c] \in Calls
          /\ handling' = Nothing /\ UNCHANGED <<pending, sent>>
        BY <1>8 DEF DeliversAnswer
    <2>2. call' = [call EXCEPT ![c] = r]
        BY <1>8, <2>1 DEF DeliversAnswer
    <2>3. a \in Answers /\ a # "none"
        BY <2>1 DEF Calls, Answers
    <2>4. /\ r \in Calls /\ r.step = call[c].step /\ r.id = call[c].id /\ r.answer = a
          /\ r.queries = call[c].queries /\ r.retries = call[c].retries
          /\ r.attempt = call[c].attempt /\ r.handled = call[c].handled
        <3> HIDE DEF a, c
        <3>1. r \in Calls
            BY <2>1, <2>3, LocalsTyped
        <3>2. QED BY <2>1, <2>3, <3>1 DEF Calls
    <2> HIDE DEF r, a, c
    <2>5. /\ call'[c] = r
          /\ \A d \in Callers \ {c} : call'[d] = call[d]
          /\ call' \in [Callers -> Calls]
        BY <2>1, <2>2, <2>4
    <2>6. QueriesTyped'
        BY <2>1, <2>5 DEF Nothing
    <2>7. IdsWhileOpen'
        BY <2>4, <2>5 DEF IdsWhileOpen, Open
    <2>8. BudgetLeft'
        BY <2>4, <2>5 DEF BudgetLeft, WithinBudget
    <2>9. OwnId'
        BY <2>1, <2>4, <2>5 DEF OwnId, Open
    <2>10. NoAnswerMissed'
        BY <2>3, <2>4, <2>5 DEF NoAnswerMissed, c
    <2>11. PendingHasWaiter'
        BY <2>1, <2>4, <2>5 DEF PendingHasWaiter
    <2>12. QED BY <2>6, <2>7, <2>8, <2>9, <2>10, <2>11
<1>9. CASE UNCHANGED dnsVars
    BY <1>9 DEF dnsVars, IdsWhileOpen, Open, BudgetLeft, OwnId, NoAnswerMissed, PendingHasWaiter
<1>10. QED
    BY <1>1, <1>2, <1>3, <1>4, <1>5, <1>6, <1>7, <1>8, <1>9 DEF DnsNext, Answers

\* Every variable of the name queries keeps its type.
THEOREM QueriesAreTyped == DnsSpec => []DnsTypeOK
<1>1. QueryInv => DnsTypeOK
    BY DEF QueryInv, QueriesTyped
<1>2. QED BY <1>1, QueriesStart, QueriesStep, PTL DEF DnsSpec

\* DNSStub.resolve and handle_udp_payload: no entry outlives its query, an answer to an open
\* query reaches its caller when ids are not drawn twice, and aliases and timeouts share one
\* budget, for every number of callers, names, ids and retries.
THEOREM LookupsAlwaysAnswered == DnsSpec => []LookupsAreAnswered
<1>1. QueryInv => LookupsAreAnswered
    <2> SUFFICES ASSUME QueryInv PROVE RetryBudget
        BY DEF LookupsAreAnswered, QueryInv
    <2> SUFFICES ASSUME NEW c \in Callers PROVE call[c].queries <= MaxRetries
        BY DEF RetryBudget
    <2>1. call[c] \in Calls /\ WithinBudget(call[c])
        BY DEF QueryInv, QueriesTyped, DnsTypeOK, BudgetLeft
    <2>2. QED BY <2>1, QueryAssumption DEF WithinBudget, Calls
<1>2. QED BY <1>1, QueriesStart, QueriesStep, PTL DEF DnsSpec

-----------------------------------------------------------------------------
(* Frames and names *)

DecodingTypeOK ==
    /\ message \in [0..Size - 1 -> Octets]
    /\ offset \in Nat /\ labels \in Nat /\ after \in Nat
    /\ jumped \in BOOLEAN /\ jumps \in 0..MaxJumps + 1
    /\ decoding \in {"reads", "done", "refused"}

(* While decode_name reads, the labels so far fit into the stretches it left by a  *)
(* jump, of at most Size octets each, and the one it is in.                        *)
LabelsFit ==
    /\ decoding # "refused" => jumps <= MaxJumps
    /\ labels <= (MaxJumps + 1) * Size
    /\ decoding = "reads" => labels <= jumps * Size + (IF offset < Size THEN offset ELSE Size)

(* Where it read before its first jump: up to the pointer, or still there; a name that ended *)
(* has its root label there.                                                                 *)
AfterFirstStretch ==
    /\ ~jumped => offset <= Size
    /\ jumped => after \in 2..Size /\ message[after - 2] = Pointer
    /\ decoding = "done" /\ ~jumped => after = offset + 1
    /\ decoding = "done" /\ offset < Size => message[offset] = 0

DecodingInv == DecodingTypeOK /\ LabelsFit /\ AfterFirstStretch

LEMMA DecodingStarts == DecodingInit => DecodingInv
<1> SUFFICES ASSUME DecodingInit PROVE DecodingInv
    OBVIOUS
<1> USE DecodingAssumption DEF DecodingInit
<1>1. DecodingTypeOK
    <2>1. jumped \in BOOLEAN
        BY Zenon
    <2>2. QED BY <2>1 DEF DecodingTypeOK
<1>2. LabelsFit
    <2>1. (MaxJumps + 1) * Size \in Nat /\ 0 * Size = 0
        OBVIOUS
    <2>2. QED BY <2>1 DEF LabelsFit
<1>3. AfterFirstStretch
    BY DEF AfterFirstStretch
<1>4. QED BY <1>1, <1>2, <1>3 DEF DecodingInv

LEMMA DecodingSteps == DecodingInv /\ [DecodingNext]_decodingVars => DecodingInv'
<1> SUFFICES ASSUME DecodingInv, [DecodingNext]_decodingVars PROVE DecodingInv'
    OBVIOUS
<1> USE DecodingAssumption DEF DecodingInv, DecodingTypeOK, Reading
<1>1. CASE RootLabel
    BY <1>1 DEF RootLabel, LabelsFit, AfterFirstStretch
<1>2. CASE CompressionPointer
    <2>1. CASE offset + 1 < Size
        <3>1. /\ after' = (IF jumped THEN after ELSE offset + 2) /\ jumped' = TRUE
              /\ offset' = message[offset + 1] /\ jumps' = jumps + 1
              /\ decoding' = (IF jumps' > MaxJumps THEN "refused" ELSE "reads")
              /\ UNCHANGED <<message, labels>> /\ message[offset] = Pointer
              /\ decoding = "reads" /\ offset < Size
            BY <1>2, <2>1 DEF CompressionPointer, Follows
        <3>2. offset + 1 \in 0..Size - 1 /\ offset \in 0..Size - 1
            BY <2>1
        <3>3. offset' \in Nat /\ jumps' \in 0..MaxJumps + 1
            BY <3>1, <3>2 DEF Octets, Pointer, LabelsFit
        <3>4. DecodingTypeOK'
            BY <3>1, <3>2, <3>3
        <3>5. LabelsFit'
            <4>1. labels <= jumps * Size + Size /\ jumps <= MaxJumps
                BY <3>1 DEF LabelsFit
            <4>2. (jumps + 1) * Size = jumps * Size + Size
                OBVIOUS
            <4>3. labels' <= jumps' * Size
                BY <3>1, <4>1, <4>2
            <4>4. QED BY <3>1, <3>3, <4>1, <4>3 DEF LabelsFit
        <3>6. AfterFirstStretch'
            BY <3>1, <3>2 DEF AfterFirstStretch
        <3>7. QED BY <3>4, <3>5, <3>6
    <2>2. CASE ~(offset + 1 < Size)
        BY <1>2, <2>2 DEF CompressionPointer, LabelsFit, AfterFirstStretch
    <2>3. QED BY <2>1, <2>2
<1>3. CASE ReservedLabel
    BY <1>3 DEF ReservedLabel, LabelsFit, AfterFirstStretch
<1>4. CASE OrdinaryLabel
    <2>1. /\ decoding = "reads" /\ offset < Size /\ message[offset] \in {1, 2}
          /\ UNCHANGED <<message, jumped, jumps, after>>
        BY <1>4 DEF OrdinaryLabel
    <2>2. CASE offset + 1 + message[offset] > Size
        BY <1>4, <2>1, <2>2 DEF OrdinaryLabel, LabelsFit, AfterFirstStretch
    <2>3. CASE ~(offset + 1 + message[offset] > Size)
        <3>1. offset' = offset + 1 + message[offset] /\ labels' = labels + 1 /\ decoding' = decoding
            BY <1>4, <2>3 DEF OrdinaryLabel
        <3>2. offset' \in Nat /\ offset' <= Size /\ offset' > offset
            BY <2>1, <2>3, <3>1
        <3>3. DecodingTypeOK'
            BY <2>1, <3>1, <3>2
        <3>4. LabelsFit'
            <4>1. labels' <= jumps * Size + offset' /\ jumps <= MaxJumps
                BY <2>1, <3>1, <3>2 DEF LabelsFit
            <4>2. jumps * Size <= MaxJumps * Size /\ (MaxJumps + 1) * Size = MaxJumps * Size + Size
                BY <4>1
            <4>3. QED BY <2>1, <3>1, <3>2, <4>1, <4>2, SMTT(30) DEF LabelsFit
        <3>5. AfterFirstStretch'
            BY <2>1, <3>1, <3>2 DEF AfterFirstStretch
        <3>6. QED BY <3>3, <3>4, <3>5
    <2>4. QED BY <2>2, <2>3
<1>5. CASE RunsOut
    BY <1>5 DEF RunsOut, LabelsFit, AfterFirstStretch
<1>6. CASE UNCHANGED decodingVars
    BY <1>6 DEF decodingVars, LabelsFit, AfterFirstStretch
<1>7. QED BY <1>1, <1>2, <1>3, <1>4, <1>5, <1>6 DEF DecodingNext

\* The codecs of UDP, IP and Ethernet compose to the identity on what fits a frame.
LEMMA LengthsAlwaysSurvive == LengthsSurvive
BY DecodingAssumption
   DEF LengthsSurvive, Received, UdpEncode, UdpDecode, IpEncode, IpDecode, EtherEncode,
       UdpHeader, IpHeader, MinPayload, MaxPayload, Malformed

\* decode_name ends with an offset right behind its first pointer or its root label (one octet
\* behind the data for a name that runs off it), whatever octets it reads, after at most
\* max_jumps jumps and (max_jumps + 1) * len(data) labels; a message that fits a frame arrives
\* with its length.
THEOREM FramesAlwaysDecode == DecodingSpec => []FramesDecode
<1>1. DecodingInv => FramesDecode
    <2> SUFFICES ASSUME DecodingInv PROVE NameDecoded
        BY LengthsAlwaysSurvive DEF FramesDecode
    <2> USE DecodingAssumption DEF DecodingInv, DecodingTypeOK, LabelsFit, AfterFirstStretch
    <2>1. labels <= (MaxJumps + 1) * Size
        OBVIOUS
    <2>2. CASE decoding = "done"
        <3>1. jumps <= MaxJumps
            BY <2>2
        <3>2. jumped => after \in 2..Size /\ message[after - 2] = Pointer
            BY <2>2
        <3>3. ~jumped => after = offset + 1 /\ offset <= Size
            BY <2>2
        <3>4. offset < Size => message[offset] = 0
            BY <2>2
        <3>5. ~jumped /\ offset < Size => after \in 1..Size /\ message[after - 1] = 0
            BY <3>3, <3>4
        <3>6. ~jumped /\ offset >= Size => after = Size + 1
            BY <3>3
        <3>7. QED BY <2>1, <2>2, <3>1, <3>2, <3>5, <3>6 DEF NameDecoded
    <2>3. QED BY <2>1, <2>2 DEF NameDecoded
<1>2. QED BY <1>1, DecodingStarts, DecodingSteps, PTL DEF DecodingSpec

-----------------------------------------------------------------------------
(* map *)

Fates == {"pending", "done", "failed"}

(* Nothing is pending in a scheduler without workers.                                   *)
RunsAtOnce == workerless => mapping # "timed out" /\ \A i \in 1..Len(fates) : fates[i] # "pending"

(* map has collected the first items, all of them done.                                *)
Collected ==
    /\ fates \in Seq(Fates) /\ Len(fates) <= ItemCount
    /\ results \in Seq(Nat) /\ Len(results) <= Len(fates)
    /\ \A i \in 1..Len(results) : results[i] = i /\ fates[i] = "done"
    /\ mapping = "submits" => Len(results) = 0
    /\ mapping # "submits" => Len(fates) = ItemCount
    /\ mapping = "returned" => Len(results) = ItemCount
    /\ mapping = "raised" => Len(results) < Len(fates) /\ fates[Len(results) + 1] = "failed"

MapInv == Collected /\ RunsAtOnce

LEMMA FateAdded ==
    ASSUME NEW s \in Seq(Fates), NEW fate \in Fates
    PROVE  /\ Append(s, fate) \in Seq(Fates) /\ Len(Append(s, fate)) = Len(s) + 1
           /\ \A i \in 1..Len(s) + 1 : Append(s, fate)[i] = IF i <= Len(s) THEN s[i] ELSE fate
    OBVIOUS

LEMMA CollectedSteps == Collected /\ [MapNext]_mapVars => Collected'
<1> SUFFICES ASSUME Collected, [MapNext]_mapVars PROVE Collected'
    OBVIOUS
<1>0. ItemCount \in Nat
    BY MapAssumption
<1>1. /\ Len(fates) \in Nat /\ Len(results) \in Nat /\ DOMAIN fates = 1..Len(fates)
      /\ \A i \in 1..Len(fates) : fates[i] \in Fates
    BY DEF Collected
<1>2. ASSUME MapSubmits PROVE Collected'
    <2>1. mapping = "submits" /\ Len(results) = 0 /\ results' = results
        BY <1>2 DEF MapSubmits, Collected
    <2>2. CASE Len(fates) = ItemCount
        <3>1. mapping' = "collects" /\ fates' = fates
            BY <1>2, <2>2 DEF MapSubmits
        <3>2. QED BY <2>1, <2>2, <3>1 DEF Collected
    <2>3. CASE Len(fates) # ItemCount
        <3>1. PICK fate \in Submitted : fates' = Append(fates, fate) /\ mapping' = mapping
            BY <1>2, <2>3 DEF MapSubmits
        <3>2. fate \in Fates
            BY DEF Submitted, Fates
        <3>3. /\ fates' \in Seq(Fates) /\ Len(fates') = Len(fates) + 1
              /\ \A i \in 1..Len(fates') : fates'[i] = IF i <= Len(fates) THEN fates[i] ELSE fate
            BY <3>1, <3>2, FateAdded DEF Collected
        <3>4. Len(fates') <= ItemCount
            <4>1. Len(fates) <= ItemCount
                BY DEF Collected
            <4>2. Len(fates') = Len(fates) + 1 /\ Len(fates) \in Nat
                BY <1>1, <3>3
            <4>3. QED BY <1>0, <2>3, <4>1, <4>2
        <3>5. QED BY <1>1, <2>1, <3>1, <3>3, <3>4 DEF Collected
    <2>4. QED BY <2>2, <2>3
<1>3. ASSUME MapCollects PROVE Collected'
    <2> DEFINE i == Len(results) + 1
    <2>1. mapping = "collects" /\ Len(fates) = ItemCount /\ fates' = fates
        BY <1>3 DEF MapCollects, Collected
    <2>2. CASE i > ItemCount
        <3>1. mapping' = "returned" /\ results' = results
            BY <1>3, <2>2 DEF MapCollects
        <3>2. Len(results) = ItemCount
            BY <1>0, <1>1, <2>1, <2>2 DEF Collected
        <3>3. QED BY <2>1, <3>1, <3>2 DEF Collected
    <2>3. CASE ~(i > ItemCount)
        <3>1. i \in 1..Len(fates)
            BY <1>0, <1>1, <2>1, <2>3
        <3>2. CASE mapping' = "timed out" /\ results' = results
            BY <2>1, <3>1, <3>2 DEF Collected
        <3>3. CASE fates[i] = "failed" /\ mapping' = "raised" /\ results' = results
            BY <1>1, <2>1, <3>1, <3>3 DEF Collected
        <3>4. CASE fates[i] = "done" /\ results' = Append(results, i) /\ mapping' = mapping
            <4>1. i \in Nat
                BY <3>1
            <4>2. /\ results' \in Seq(Nat) /\ Len(results') = Len(results) + 1
                  /\ \A j \in 1..Len(results') :
                        results'[j] = IF j <= Len(results) THEN results[j] ELSE i
                <5>1. results \in Seq(Nat)
                    BY DEF Collected
                <5>2. QED BY <1>1, <3>4, <4>1, <5>1
            <4>3. \A j \in 1..Len(results') : results'[j] = j /\ fates[j] = "done"
                <5>1. \A j \in 1..Len(results) : results[j] = j /\ fates[j] = "done"
                    BY DEF Collected
                <5>2. ASSUME NEW j \in 1..Len(results') PROVE results'[j] = j /\ fates[j] = "done"
                    <6>1. CASE j <= Len(results)
                        BY <1>1, <4>2, <5>1, <6>1
                    <6>2. CASE ~(j <= Len(results))
                        BY <1>1, <3>4, <4>2, <6>2
                    <6>3. QED BY <6>1, <6>2
                <5>3. QED BY <5>2
            <4>4. Len(results') <= Len(fates)
                BY <3>1, <4>2
            <4>5. QED BY <2>1, <3>4, <4>2, <4>3, <4>4 DEF Collected
        <3>5. QED BY <1>3, <2>3, <3>2, <3>3, <3>4 DEF MapCollects
    <2>4. QED BY <2>2, <2>3
<1>4. ASSUME NEW i \in DOMAIN fates, TaskSettles(i) PROVE Collected'
    <2>1. PICK fate \in {"done", "failed"} : fates' = [fates EXCEPT ![i] = fate]
        BY <1>4 DEF TaskSettles
    <2>2. /\ fates[i] = "pending" /\ results' = results /\ mapping' = mapping
          /\ fate \in Fates /\ i \in 1..Len(fates)
        BY <1>1, <1>4 DEF TaskSettles, Fates
    <2>3. /\ fates' \in Seq(Fates) /\ Len(fates') = Len(fates)
          /\ \A j \in 1..Len(fates) : fates'[j] = IF j = i THEN fate ELSE fates[j]
        BY <1>1, <2>1, <2>2 DEF Collected
    <2>4. \A j \in 1..Len(results) : j # i /\ j \in 1..Len(fates)
        <3>1. Len(results) <= Len(fates) /\ \A j \in 1..Len(results) : fates[j] = "done"
            BY DEF Collected
        <3>2. \A j \in 1..Len(results) : j # i
            BY <2>2, <3>1
        <3>3. QED BY <1>1, <3>1, <3>2
    <2>5. mapping = "raised" => Len(results) + 1 # i /\ Len(results) + 1 \in 1..Len(fates)
        BY <1>1, <2>2 DEF Collected
    <2>6. QED BY <1>1, <2>2, <2>3, <2>4, <2>5 DEF Collected
<1>5. CASE UNCHANGED mapVars
    BY <1>5 DEF mapVars, Collected
<1>6. QED BY <1>2, <1>3, <1>4, <1>5 DEF MapNext

LEMMA RunsAtOnceSteps == MapInv /\ [MapNext]_mapVars => RunsAtOnce'
<1> SUFFICES ASSUME Collected, RunsAtOnce, [MapNext]_mapVars, workerless' PROVE
              mapping' # "timed out" /\ \A i \in 1..Len(fates') : fates'[i] # "pending"
    BY DEF MapInv, RunsAtOnce
<1>1. workerless' = workerless
    BY DEF MapNext, mapVars, MapSubmits, MapCollects, TaskSettles
<1>2. mapping # "timed out" /\ \A i \in 1..Len(fates) : fates[i] # "pending"
    BY <1>1 DEF RunsAtOnce
<1>3. ASSUME NEW fate \in Submitted PROVE fate # "pending" /\ fate \in Fates
    <2>1. fate \in {"done", "failed"}
        BY <1>1 DEF Submitted
    <2>2. QED BY <2>1 DEF Fates
<1>4. fates \in Seq(Fates) /\ Len(fates) \in Nat /\ DOMAIN fates = 1..Len(fates)
    BY DEF Collected
<1>5. ASSUME MapSubmits PROVE mapping' # "timed out" /\ \A i \in 1..Len(fates') : fates'[i] # "pending"
    <2>1. mapping' # "timed out"
        BY <1>2, <1>5 DEF MapSubmits
    <2>2. CASE fates' = fates
        BY <1>2, <2>1, <2>2
    <2>3. CASE fates' # fates
        <3>1. PICK fate \in Submitted : fates' = Append(fates, fate)
            BY <1>5, <2>3 DEF MapSubmits
        <3>2. Len(fates') = Len(fates) + 1
              /\ \A i \in 1..Len(fates) + 1 : fates'[i] = IF i <= Len(fates) THEN fates[i] ELSE fate
            BY <1>3, <1>4, <3>1, FateAdded
        <3>3. fate # "pending"
            BY <1>3
        <3>4. \A i \in 1..Len(fates') : fates'[i] # "pending"
            <4>1. ASSUME NEW i \in 1..Len(fates') PROVE fates'[i] # "pending"
                <5>1. i \in 1..Len(fates) + 1 /\ (i <= Len(fates) => i \in 1..Len(fates))
                    BY <1>4, <3>2
                <5>2. CASE i <= Len(fates)
                    BY <1>2, <3>2, <5>1, <5>2
                <5>3. CASE ~(i <= Len(fates))
                    BY <3>2, <3>3, <5>1, <5>3
                <5>4. QED BY <5>2, <5>3
            <4>2. QED BY <4>1
        <3>5. QED BY <2>1, <3>4
    <2>4. QED BY <2>2, <2>3
<1>6. ASSUME MapCollects PROVE mapping' # "timed out" /\ \A i \in 1..Len(fates') : fates'[i] # "pending"
    <2>1. fates' = fates
        BY <1>6 DEF MapCollects
    <2>2. ASSUME mapping' = "timed out" PROVE FALSE
        <3>1. Len(fates) = ItemCount /\ Len(results) \in Nat
            <4>1. mapping = "collects"
                BY <1>6 DEF MapCollects
            <4>2. QED BY <4>1 DEF Collected
        <3>2. ~(Len(results) + 1 > ItemCount) /\ fates[Len(results) + 1] = "pending"
            BY <1>2, <1>6, <2>2 DEF MapCollects
        <3>3. Len(results) + 1 \in 1..Len(fates)
            <4>1. ItemCount \in Nat
                BY MapAssumption
            <4>2. QED BY <3>1, <3>2, <4>1
        <3>4. QED BY <1>2, <3>2, <3>3
    <2>3. QED BY <1>2, <2>1, <2>2
<1>7. ASSUME NEW i \in DOMAIN fates, TaskSettles(i)
      PROVE  mapping' # "timed out" /\ \A j \in 1..Len(fates') : fates'[j] # "pending"
    BY <1>2, <1>4, <1>7 DEF TaskSettles
<1>8. CASE UNCHANGED mapVars
    BY <1>2, <1>8 DEF mapVars
<1>9. QED BY <1>5, <1>6, <1>7, <1>8 DEF MapNext

\* A failure that is raised is the first.
LEMMA RaisesTheFirst ==
    ASSUME Collected, mapping = "raised"
    PROVE  SelectInSeq(fates, LAMBDA fate : fate = "failed") = Len(results) + 1
<1> DEFINE I == {i \in 1..Len(fates) : fates[i] = "failed"}
           m == Len(results) + 1
<1>1. SelectInSeq(fates, LAMBDA fate : fate = "failed") = IF I # {} THEN Min(I) ELSE 0
    BY DEF SelectInSeq
<1>2. m \in I /\ \A i \in I : m <= i
    BY DEF Collected
<1>3. m \in Nat /\ \A i \in I : i \in Nat
    BY DEF Collected
<1> HIDE DEF m, I
<1>4. Min(I) = m
    <2>1. Min(I) \in I /\ \A i \in I : Min(I) <= i
        BY <1>2 DEF Min
    <2>2. Min(I) \in Nat /\ Min(I) <= m /\ m <= Min(I)
        BY <1>2, <1>3, <2>1, Zenon
    <2>3. QED BY <1>3, <2>2
<1>5. QED BY <1>1, <1>2, <1>4 DEF m

\* AIOSScheduler.map: the values come in the order of the items, a failure that is raised is that of
\* the first item that failed, and without workers nothing times out.
THEOREM MapsInOrder == MapSpec => []MapInOrder
<1>1. MapInit => MapInv
    <2>1. MapInit => Collected
        BY MapAssumption DEF MapInit, Collected
    <2>2. MapInit => RunsAtOnce
        BY DEF MapInit, RunsAtOnce
    <2>3. QED BY <2>1, <2>2 DEF MapInv
<1>2. MapInv /\ [MapNext]_mapVars => MapInv'
    BY CollectedSteps, RunsAtOnceSteps DEF MapInv
<1>3. MapInv => MapInOrder
    <2> SUFFICES ASSUME MapInv PROVE MapInOrder
        OBVIOUS
    <2>1. Collected /\ RunsAtOnce
        BY DEF MapInv
    <2>2. results = [i \in 1..Len(results) |-> i] /\ \A i \in DOMAIN results : fates[i] = "done"
        BY <2>1 DEF Collected
    <2>3. mapping = "returned" => Len(results) = ItemCount
        BY <2>1 DEF Collected
    <2>4. mapping = "raised" => SelectInSeq(fates, LAMBDA fate : fate = "failed") = Len(results) + 1
        BY <2>1, RaisesTheFirst
    <2>5. workerless => mapping # "timed out"
        BY <2>1 DEF RunsAtOnce
    <2>6. QED BY <2>2, <2>3, <2>4, <2>5 DEF MapInOrder
<1>4. QED BY <1>1, <1>2, <1>3, PTL DEF MapSpec

-----------------------------------------------------------------------------
(* The overflow queue *)

Items == [id : Nat, ep : Nat, at : Nat]

(* An item has the rating of a time at which its task was waiting. *)
RatedItem(item) ==
    /\ item.id \in 1..Len(task) /\ item.at \in Nat /\ item.ep \in Nat
    /\ item.at >= task[item.id][2]
    /\ item.at - task[item.id][2] >= task[item.id][1] => item.ep = 0

IsQueue(queue) ==
    /\ queue \in Seq(Items)
    /\ \A i \in 1..Len(queue) : RatedItem(queue[i])
    /\ \A i, j \in 1..Len(queue) : i < j => ~Before(queue[j], queue[i])

TasksTyped ==
    /\ taskClock \in Nat
    /\ task \in Seq(Nat \X Nat) /\ \A id \in 1..Len(task) : task[id][2] <= taskClock
    /\ overflowing \subseteq 1..Len(task) /\ drained \in 0..Len(task)

RatingsTyped == \A item \in rated : item \in Items /\ RatedItem(item)

PoppedFits ==
    /\ popped.id \in 0..Len(task) /\ popped.left \in Seq(Items)
    /\ \A i \in 1..Len(popped.left) :
          /\ popped.left[i].id \in 1..Len(task) /\ popped.id # 0
          /\ task[popped.left[i].id][2] < task[popped.id][2] =>
                popped.left[i].at - task[popped.left[i].id][2] < task[popped.left[i].id][1]

(* The queue is in order, and so was what the last pop left. *)
OverflowInv == TasksTyped /\ RatingsTyped /\ IsQueue(items) /\ PoppedFits

LEMMA EffectiveIs ==
    ASSUME OverflowInv, NEW id \in 1..Len(task)
    PROVE  Rated(id) \in Items /\ RatedItem(Rated(id)) /\ Rated(id).id = id
<1> DEFINE left == task[id][1] - (taskClock - task[id][2])
<1>1. /\ task[id][1] \in Nat /\ task[id][2] \in Nat /\ taskClock \in Nat /\ task[id][2] <= taskClock
      /\ id \in Nat
    <2>1. task[id] \in Nat \X Nat
        BY DEF OverflowInv, TasksTyped
    <2>2. QED BY <2>1 DEF OverflowInv, TasksTyped
<1>2. EffectivePriority(id) = IF left > 0 THEN left ELSE 0
    <2>1. EffectivePriority(id) = Max({0, left})
        BY DEF EffectivePriority, Enqueued
    <2>2. left \in Int
        BY <1>1
    <2> HIDE DEF left
    <2>3. Max({0, left}) = CHOOSE x \in {0, left} : \A y \in {0, left} : x >= y
        BY DEF Max
    <2>4. CASE left > 0
        <3>1. \A x \in {0, left} : (\A y \in {0, left} : x >= y) <=> x = left
            BY <2>2, <2>4
        <3>2. QED BY <2>1, <2>3, <2>4, <3>1
    <2>5. CASE ~(left > 0)
        <3>1. \A x \in {0, left} : (\A y \in {0, left} : x >= y) <=> x = 0
            BY <2>2, <2>5
        <3>2. QED BY <2>1, <2>3, <2>5, <3>1
    <2>6. QED BY <2>4, <2>5
<1>3. EffectivePriority(id) \in Nat /\ (left <= 0 => EffectivePriority(id) = 0)
    BY <1>1, <1>2
<1>4. Rated(id) = [id |-> id, ep |-> EffectivePriority(id), at |-> taskClock]
    BY DEF Rated
<1>5. Rated(id) \in Items
    BY <1>1, <1>3, <1>4 DEF Items
<1>6. taskClock - task[id][2] >= task[id][1] => left <= 0
    BY <1>1
<1>7. QED BY <1>1, <1>3, <1>4, <1>5, <1>6 DEF RatedItem
LEMMA BeforeOrders ==
    ASSUME OverflowInv, NEW a \in Items, NEW b \in Items, NEW c \in Items,
           RatedItem(a), RatedItem(b), RatedItem(c)
    PROVE  /\ Before(a, b) => ~Before(b, a)
           /\ Before(a, b) /\ ~Before(c, b) => Before(a, c)
<1>1. a.ep \in Nat /\ b.ep \in Nat /\ c.ep \in Nat
    BY DEF Items
<1>2. Enqueued(a.id) \in Nat /\ Enqueued(b.id) \in Nat /\ Enqueued(c.id) \in Nat
    <2>1. \A id \in 1..Len(task) : task[id] \in Nat \X Nat
        BY DEF OverflowInv, TasksTyped
    <2>2. \A id \in 1..Len(task) : task[id][2] \in Nat
        BY <2>1
    <2>3. QED BY <2>2 DEF RatedItem, Enqueued
<1>3. QED BY <1>1, <1>2 DEF Before

\* The place of an item: after all that it is not before.
LEMMA PlaceInQueue ==
    ASSUME OverflowInv, NEW queue, IsQueue(queue), NEW item \in Items, RatedItem(item)
    PROVE  \E m \in 1..Len(queue) + 1 :
              /\ EntersQueue(queue, item) = InsertAt(queue, m, item)
              /\ \A i \in 1..Len(queue) : i < m <=> ~Before(item, queue[i])
<1>1. /\ queue \in Seq(Items) /\ Len(queue) \in Nat /\ DOMAIN queue = 1..Len(queue)
      /\ \A i \in 1..Len(queue) : queue[i] \in Items /\ RatedItem(queue[i])
      /\ \A i, j \in 1..Len(queue) : i < j => ~Before(queue[j], queue[i])
    BY DEF IsQueue
<1> DEFINE ahead == {i \in DOMAIN queue : ~Before(item, queue[i])}
           behind == {i \in 1..Len(queue) : Before(item, queue[i])}
<1>2. EntersQueue(queue, item) = InsertAt(queue, 1 + Cardinality(ahead), item)
    BY DEF EntersQueue
<1>3. /\ \A i : i \in ahead <=> i \in 1..Len(queue) /\ ~Before(item, queue[i])
      /\ \A i : i \in behind <=> i \in 1..Len(queue) /\ Before(item, queue[i])
    BY <1>1
<1> HIDE DEF ahead, behind
<1>4. ASSUME NEW m \in 1..Len(queue) + 1, \A i \in 1..Len(queue) : i < m <=> ~Before(item, queue[i])
      PROVE  EntersQueue(queue, item) = InsertAt(queue, m, item)
    <2>1. \A i : i \in ahead <=> i \in 1..m - 1
        <3>1. \A i : i \in 1..Len(queue) /\ i < m <=> i \in 1..m - 1
            BY <1>1
        <3>2. QED BY <1>3, <1>4, <3>1
    <2>2. ahead = 1..m - 1
        BY <2>1
    <2>3. Cardinality(ahead) = m - 1
        <3>1. 1 \in Int /\ m - 1 \in Int /\ m \in Nat \ {0}
            BY <1>1
        <3>2. Cardinality(1..m - 1) = IF 1 > m - 1 THEN 0 ELSE (m - 1) - 1 + 1
            BY <3>1, FS_Interval
        <3>3. QED BY <2>2, <3>1, <3>2
    <2>4. 1 + Cardinality(ahead) = m
        BY <1>1, <2>3
    <2>5. QED BY <1>2, <2>4
<1>5. CASE behind = {}
    <2>1. \A i \in 1..Len(queue) : ~Before(item, queue[i])
        BY <1>3, <1>5
    <2>2. Len(queue) + 1 \in 1..Len(queue) + 1 /\ \A i \in 1..Len(queue) : i < Len(queue) + 1
        BY <1>1
    <2>3. QED BY <1>4, <2>1, <2>2
<1>6. CASE behind # {}
    <2>1. behind \in SUBSET Nat
        BY <1>1, <1>3
    <2>2. PICK m \in behind : \A n \in behind : m <= n
        BY <1>6, <2>1, LeastNumber
    <2>3. m \in 1..Len(queue) /\ Before(item, queue[m]) /\ m \in 1..Len(queue) + 1
        BY <1>1, <1>3, <2>2
    <2>4. ASSUME NEW i \in 1..Len(queue) PROVE i < m <=> ~Before(item, queue[i])
        <3>1. i < m => ~Before(item, queue[i])
            BY <1>1, <1>3, <2>2, <2>3
        <3>2. ASSUME i > m PROVE Before(item, queue[i])
            <4>1. ~Before(queue[i], queue[m])
                BY <1>1, <2>3, <3>2
            <4>2. QED BY <1>1, <2>3, <4>1, BeforeOrders
        <3>3. QED BY <1>1, <2>3, <3>1, <3>2
    <2>5. QED BY <1>4, <2>3, <2>4
<1>7. QED BY <1>5, <1>6

\* A queue stays in order when an item enters it.
LEMMA QueueGrows ==
    ASSUME OverflowInv, NEW queue, IsQueue(queue), NEW item \in Items, RatedItem(item)
    PROVE  IsQueue(EntersQueue(queue, item))
<1>1. /\ queue \in Seq(Items) /\ Len(queue) \in Nat
      /\ \A i \in 1..Len(queue) : queue[i] \in Items /\ RatedItem(queue[i])
      /\ \A i, j \in 1..Len(queue) : i < j => ~Before(queue[j], queue[i])
    BY DEF IsQueue
<1>2. PICK m \in 1..Len(queue) + 1 :
          /\ EntersQueue(queue, item) = InsertAt(queue, m, item)
          /\ \A i \in 1..Len(queue) : i < m <=> ~Before(item, queue[i])
    BY PlaceInQueue
<1> DEFINE longer == EntersQueue(queue, item)
           n == Len(queue)
           old(i) == IF i < m THEN i ELSE i - 1
<1>3. /\ longer \in Seq(Items) /\ Len(longer) = n + 1
      /\ \A i \in 1..n + 1 : longer[i] = IF i < m THEN queue[i] ELSE IF i = m THEN item ELSE queue[i - 1]
    <2>1. /\ InsertAt(queue, m, item) \in Seq(Items) /\ Len(InsertAt(queue, m, item)) = n + 1
          /\ \A i \in 1..n + 1 :
                InsertAt(queue, m, item)[i] = IF i < m THEN queue[i] ELSE IF i = m THEN item ELSE queue[i - 1]
        BY <1>1, InsertedAt
    <2>2. longer = InsertAt(queue, m, item)
        BY <1>2
    <2> HIDE DEF longer
    <2>3. QED BY <2>1, <2>2
<1> HIDE DEF longer
<1>4. \A i \in 1..n + 1 : i # m => old(i) \in 1..n /\ longer[i] = queue[old(i)]
    BY <1>1, <1>2, <1>3
<1>5. longer[m] = item
    BY <1>2, <1>3
<1>6. ASSUME NEW i \in 1..n + 1 PROVE RatedItem(longer[i])
    BY <1>1, <1>4, <1>5
<1>7. ASSUME NEW i \in 1..n + 1, NEW j \in 1..n + 1, i < j PROVE ~Before(longer[j], longer[i])
    <2>1. CASE i # m /\ j # m
        <3>1. old(i) < old(j)
            BY <1>1, <1>2, <1>7, <2>1
        <3>2. old(i) \in 1..n /\ old(j) \in 1..n /\ longer[i] = queue[old(i)] /\ longer[j] = queue[old(j)]
            BY <1>4, <2>1
        <3> HIDE DEF old
        <3>3. QED BY <1>1, <3>1, <3>2
    <2>2. CASE i = m
        <3>1. j - 1 \in 1..n /\ ~(j - 1 < m) /\ longer[j] = queue[j - 1]
            BY <1>1, <1>3, <1>7, <2>2
        <3>2. Before(item, queue[j - 1])
            BY <1>2, <3>1
        <3>3. QED BY <1>1, <1>5, <2>2, <3>1, <3>2, BeforeOrders
    <2>3. CASE j = m
        <3>1. i \in 1..n /\ i < m /\ longer[i] = queue[i]
            BY <1>1, <1>3, <1>7, <2>3
        <3>2. QED BY <1>2, <1>5, <2>3, <3>1
    <2>4. QED BY <2>1, <2>2, <2>3
<1>8. IsQueue(longer)
    BY <1>3, <1>6, <1>7 DEF IsQueue
<1>9. QED BY <1>8 DEF longer

\* What holds of a, and of k + 1 when it holds of k, holds from a to b.
LEMMA UpwardInduction ==
    ASSUME NEW a \in Nat, NEW b \in Nat, NEW T, a \in T,
           \A k \in a..b - 1 : k \in T => k + 1 \in T
    PROVE  a..b \subseteq T
<1> SUFFICES ASSUME ~(a..b \subseteq T) PROVE FALSE
    OBVIOUS
<1> DEFINE missed == {k \in a..b : k \notin T}
<1>1. missed \in SUBSET Nat /\ missed # {}
    OBVIOUS
<1>2. PICK k \in missed : \A other \in missed : k <= other
    BY <1>1, LeastNumber
<1>3. k \in a..b /\ k \notin T
    BY <1>2
<1>4. k # a
    BY <1>3
<1>5. k - 1 \in a..b - 1 /\ k - 1 \in a..b /\ (k - 1) + 1 = k
    BY <1>3, <1>4
<1>6. k - 1 \notin T
    BY <1>3, <1>5
<1>7. k - 1 \in missed
    BY <1>5, <1>6
<1> HIDE DEF missed
<1>8. k <= k - 1
    BY <1>2, <1>7
<1>9. QED BY <1>3, <1>8

\* The function on 0..n with the value base at 0, each other value of which comes of the one before.
Iterates(f, n, V, base, step) ==
    f \in [0..n -> V] /\ f[0] = base /\ \A i \in 1..n : f[i] = step[i][f[i - 1]]

LEMMA Iteration ==
    ASSUME NEW n \in Nat, NEW V, NEW base \in V, NEW step \in [1..n -> [V -> V]]
    PROVE  \E f : Iterates(f, n, V, base, step)
<1> DEFINE T == {k \in 0..n : \E f : Iterates(f, k, V, base, step)}
<1>1. 0 \in T
    <2> DEFINE f == [i \in 0..0 |-> base]
    <2>1. f \in [0..0 -> V] /\ f[0] = base /\ \A i \in 1..0 : FALSE
        OBVIOUS
    <2> HIDE DEF f
    <2>2. Iterates(f, 0, V, base, step)
        BY <2>1 DEF Iterates
    <2>3. QED BY <2>2
<1>2. ASSUME NEW k \in 0..n - 1, k \in T PROVE k + 1 \in T
    <2>1. PICK f : Iterates(f, k, V, base, step)
        BY <1>2
    <2>2. f \in [0..k -> V] /\ f[0] = base /\ \A i \in 1..k : f[i] = step[i][f[i - 1]]
        BY <2>1 DEF Iterates
    <2> DEFINE g == [i \in 0..k + 1 |-> IF i = k + 1 THEN step[k + 1][f[k]] ELSE f[i]]
    <2>3. k + 1 \in 1..n /\ k \in 0..k /\ k + 1 \in 0..n
        OBVIOUS
    <2>4. step[k + 1][f[k]] \in V
        BY <2>2, <2>3
    <2>5. /\ \A i \in 0..k + 1 : g[i] = IF i = k + 1 THEN step[k + 1][f[k]] ELSE f[i]
          /\ \A i \in 0..k + 1 : i # k + 1 => i \in 0..k
        OBVIOUS
    <2>6. g \in [0..k + 1 -> V] /\ g[0] = base
        BY <2>2, <2>4, <2>5
    <2> HIDE DEF g
    <2>7. ASSUME NEW i \in 1..k + 1 PROVE g[i] = step[i][g[i - 1]]
        <3>1. i - 1 \in 0..k + 1 /\ i - 1 # k + 1 /\ i \in 0..k + 1
            OBVIOUS
        <3>2. g[i - 1] = f[i - 1]
            BY <2>5, <3>1
        <3>3. CASE i = k + 1
            BY <2>5, <3>1, <3>2, <3>3
        <3>4. CASE i # k + 1
            <4>1. i \in 1..k
                BY <3>4
            <4>2. QED BY <2>2, <2>5, <3>1, <3>2, <3>4, <4>1
        <3>5. QED BY <3>3, <3>4
    <2>8. Iterates(g, k + 1, V, base, step)
        BY <2>6, <2>7 DEF Iterates
    <2>9. QED BY <2>3, <2>8
<1> HIDE DEF T
<1>3. 0..n \subseteq T
    BY <1>1, <1>2, UpwardInduction
<1>4. n \in T
    BY <1>3
<1>5. QED BY <1>4 DEF T

\* re_sort leaves a queue in order.
LEMMA ReSortedIsQueue == ASSUME OverflowInv PROVE IsQueue(ReSorted)
<1> DEFINE n == Len(items)
           V == {q \in Seq(Items) : IsQueue(q)}
           step == [k \in 1..n |-> [q \in V |-> EntersQueue(q, Rated(items[k].id))]]
           Sorts(f) == f = [k \in 0..n |-> IF k = 0 THEN << >>
                                           ELSE EntersQueue(f[k - 1], Rated(items[k].id))]
<1>1. n \in Nat /\ \A k \in 1..n : items[k].id \in 1..Len(task)
    BY DEF OverflowInv, TasksTyped, IsQueue, RatedItem
<1>2. ASSUME NEW k \in 1..n, NEW q \in V PROVE EntersQueue(q, Rated(items[k].id)) \in V
    <2>1. Rated(items[k].id) \in Items /\ RatedItem(Rated(items[k].id))
        BY <1>1, EffectiveIs
    <2>2. IsQueue(EntersQueue(q, Rated(items[k].id)))
        BY <2>1, QueueGrows
    <2>3. QED BY <2>2 DEF IsQueue
<1>3. << >> \in V
    BY DEF IsQueue
<1>4. step \in [1..n -> [V -> V]] /\ \A k \in 1..n, q \in V : step[k][q] = EntersQueue(q, Rated(items[k].id))
    BY <1>2
<1> HIDE DEF step, V
<1>5. PICK all : all \in [0..n -> V] /\ all[0] = << >> /\ \A k \in 1..n : all[k] = step[k][all[k - 1]]
    <2>1. \E f : Iterates(f, n, V, << >>, step)
        BY <1>1, <1>3, <1>4, Iteration
    <2>2. QED BY <2>1 DEF Iterates
<1>6. /\ \A k \in 1..n : k - 1 \in 0..n
      /\ \A k \in 0..n : k = 0 \/ k \in 1..n
    BY <1>1
<1>7. \A k \in 0..n : all[k] = IF k = 0 THEN << >> ELSE EntersQueue(all[k - 1], Rated(items[k].id))
    BY <1>4, <1>5, <1>6
<1>8. Sorts(all)
    BY <1>5, <1>7
<1>9. PICK f : f = (CHOOSE g : Sorts(g)) /\ Sorts(f)
    BY <1>8
<1>10. ReSorted = f[n]
    BY <1>9 DEF ReSorted
<1>11. DOMAIN f = 0..n /\ \A k \in 0..n : f[k] = IF k = 0 THEN << >> ELSE EntersQueue(f[k - 1], Rated(items[k].id))
    BY <1>9
<1> HIDE DEF Sorts
<1> DEFINE T == {k \in 0..n : f[k] \in V}
<1>12. 0 \in T
    BY <1>1, <1>3, <1>11
<1>13. ASSUME NEW k \in 0..n - 1, k \in T PROVE k + 1 \in T
    <2>1. k + 1 \in 1..n /\ k + 1 \in 0..n /\ (k + 1) - 1 = k /\ k + 1 # 0
        BY <1>1
    <2>2. f[k + 1] = EntersQueue(f[k], Rated(items[k + 1].id))
        BY <1>11, <2>1
    <2>3. QED BY <1>2, <1>13, <2>1, <2>2
<1> HIDE DEF T
<1>14. 0..n \subseteq T
    BY <1>1, <1>12, <1>13, UpwardInduction
<1>15. f[n] \in V
    BY <1>1, <1>14 DEF T
<1>16. QED BY <1>10, <1>15 DEF V

LEMMA OverflowStarts == OverflowInit => OverflowInv
<1> SUFFICES ASSUME OverflowInit PROVE OverflowInv
    OBVIOUS
<1>1. TasksTyped
    BY DEF OverflowInit, TasksTyped
<1>2. RatingsTyped
    BY DEF OverflowInit, RatingsTyped
<1>3. IsQueue(items)
    BY DEF OverflowInit, IsQueue
<1>4. PoppedFits
    BY DEF OverflowInit, PoppedFits, NoPop
<1>5. QED BY <1>1, <1>2, <1>3, <1>4 DEF OverflowInv

LEMMA SubmitTaskKeeps == ASSUME OverflowInv, NEW p \in TaskPriorities, SubmitTask(p) PROVE OverflowInv'
<1>1. /\ task \in Seq(Nat \X Nat) /\ Len(task) \in Nat /\ taskClock \in Nat
      /\ \A id \in 1..Len(task) : task[id][2] <= taskClock
      /\ overflowing \subseteq 1..Len(task) /\ drained \in 0..Len(task)
    <2>1. TasksTyped
        BY DEF OverflowInv
    <2>2. QED BY <2>1 DEF TasksTyped
<1>2. p \in Nat
    BY OverflowAssumption
<1>3. /\ task' = Append(task, <<p, taskClock>>) /\ overflowing' = overflowing \union {Len(task')}
      /\ taskClock' = taskClock /\ rated' = rated /\ items' = items /\ drained' = drained /\ popped' = popped
    BY DEF SubmitTask
<1>4. /\ task' \in Seq(Nat \X Nat) /\ Len(task') = Len(task) + 1 /\ task'[Len(task) + 1] = <<p, taskClock>>
      /\ \A id \in 1..Len(task) : task'[id] = task[id]
    <2>1. <<p, taskClock>> \in Nat \X Nat
        BY <1>1, <1>2
    <2>2. QED BY <1>1, <1>3, <2>1
<1>5. TasksTyped'
    <2>1. \A id \in 1..Len(task') : task'[id][2] <= taskClock'
        BY <1>1, <1>3, <1>4
    <2>2. overflowing' \subseteq 1..Len(task') /\ drained' \in 0..Len(task')
        <3>1. /\ Len(task') = Len(task) + 1 /\ Len(task) \in Nat /\ drained' = drained
              /\ overflowing' = overflowing \union {Len(task')}
              /\ overflowing \subseteq 1..Len(task) /\ drained \in 0..Len(task)
            BY <1>1, <1>3, <1>4
        <3>2. /\ \A id \in 1..Len(task) : id \in 1..Len(task')
              /\ \A id \in 0..Len(task) : id \in 0..Len(task')
              /\ Len(task') \in 1..Len(task')
            BY <3>1
        <3>3. \A id \in overflowing' : id \in overflowing \/ id = Len(task')
            BY <3>1
        <3>4. QED BY <3>1, <3>2, <3>3, Zenon
    <2>3. QED BY <1>1, <1>3, <1>4, <2>1, <2>2 DEF TasksTyped
<1>6. \A id \in 1..Len(task) : id \in 1..Len(task') /\ task'[id] = task[id]
    <2>1. Len(task) \in Nat /\ Len(task') = Len(task) + 1
        BY <1>1, <1>4
    <2>2. 1..Len(task) \subseteq 1..Len(task')
        BY <2>1
    <2>3. QED BY <1>4, <2>2, Zenon
<1>7. RatingsTyped'
    <2>1. \A item \in rated : item \in Items /\ RatedItem(item)
        BY DEF OverflowInv, RatingsTyped
    <2>2. QED BY <1>3, <1>6, <2>1 DEF RatingsTyped, RatedItem
<1>8. IsQueue(items)'
    <2>1. IsQueue(items)
        BY DEF OverflowInv
    <2>2. \A i \in 1..Len(items) : items[i].id \in 1..Len(task)
        BY <2>1 DEF IsQueue, RatedItem
    <2>3. QED BY <1>3, <1>6, <2>1, <2>2 DEF IsQueue, RatedItem, Before, Enqueued
<1>9. PoppedFits'
    <2>1. PoppedFits
        BY DEF OverflowInv
    <2>2. popped.id # 0 => popped.id \in 1..Len(task)
        BY <1>1, <2>1 DEF PoppedFits
    <2>3. popped.id \in 0..Len(task')
        BY <1>1, <1>4, <2>1 DEF PoppedFits
    <2>4. QED BY <1>3, <1>6, <2>1, <2>2, <2>3 DEF PoppedFits
<1>10. QED BY <1>5, <1>7, <1>8, <1>9 DEF OverflowInv

\* What a step leaves as it is when it makes no task.
LEMMA SameTasks ==
    ASSUME OverflowInv, task' = task
    PROVE  /\ popped' = popped => PoppedFits'
           /\ IsQueue(items') => IsQueue(items)'
           /\ \A item : RatedItem(item)' <=> RatedItem(item)
<1>1. popped' = popped => PoppedFits'
    BY DEF OverflowInv, PoppedFits
<1>2. \A item : RatedItem(item)' <=> RatedItem(item)
    BY DEF RatedItem
<1>3. IsQueue(items') => IsQueue(items)'
    BY DEF IsQueue, RatedItem, Before, Enqueued
<1>4. QED BY <1>1, <1>2, <1>3

\* A task that is at hand is rated as it is now.
LEMMA RatedNow ==
    ASSUME OverflowInv, NEW id \in 1..Len(task), task' = task, rated' = rated \union {Rated(id)}
    PROVE  RatingsTyped'
<1>1. \A item \in rated : item \in Items /\ RatedItem(item)
    BY DEF OverflowInv, RatingsTyped
<1>2. Rated(id) \in Items /\ RatedItem(Rated(id))
    BY EffectiveIs
<1>3. \A item \in rated' : item \in Items /\ RatedItem(item)
    BY <1>1, <1>2
<1>4. QED BY <1>3, SameTasks DEF RatingsTyped

LEMMA RatesKeeps == ASSUME OverflowInv, NEW id \in overflowing, Rates(id) PROVE OverflowInv'
<1>1. /\ task' = task /\ taskClock' = taskClock /\ items' = items /\ drained' = drained /\ popped' = popped
      /\ overflowing' \subseteq overflowing /\ rated' = rated \union {Rated(id)}
    BY DEF Rates
<1>2. TasksTyped
    BY DEF OverflowInv
<1>3. id \in 1..Len(task)
    BY <1>2 DEF TasksTyped
<1>4. TasksTyped'
    BY <1>1, <1>2 DEF TasksTyped
<1>5. RatingsTyped'
    BY <1>1, <1>3, RatedNow
<1>6. IsQueue(items)' /\ PoppedFits'
    BY <1>1, SameTasks DEF OverflowInv
<1>7. QED BY <1>4, <1>5, <1>6 DEF OverflowInv

LEMMA PushesKeeps == ASSUME OverflowInv, NEW item \in rated, Pushes(item) PROVE OverflowInv'
<1>1. /\ task' = task /\ taskClock' = taskClock /\ overflowing' = overflowing /\ drained' = drained
      /\ popped' = popped /\ items' = EntersQueue(items, item) /\ rated' \subseteq rated
    BY DEF Pushes
<1>2. TasksTyped'
    BY <1>1 DEF OverflowInv, TasksTyped
<1>3. \A it \in rated : it \in Items /\ RatedItem(it)
    BY DEF OverflowInv, RatingsTyped
<1>4. RatingsTyped'
    BY <1>1, <1>3, SameTasks DEF RatingsTyped
<1>5. IsQueue(items')
    BY <1>1, <1>3, QueueGrows DEF OverflowInv
<1>6. IsQueue(items)' /\ PoppedFits'
    BY <1>1, <1>5, SameTasks
<1>7. QED BY <1>2, <1>4, <1>6 DEF OverflowInv

LEMMA DrainCycleKeeps == ASSUME OverflowInv, DrainCycle PROVE OverflowInv'
<1>1. /\ task' = task /\ taskClock' = taskClock /\ overflowing' = overflowing /\ drained' = drained
      /\ popped' = popped /\ rated' = rated /\ (items' = items \/ items' = ReSorted)
    BY DEF DrainCycle
<1>2. TasksTyped'
    BY <1>1 DEF OverflowInv, TasksTyped
<1>3. RatingsTyped'
    BY <1>1, SameTasks DEF OverflowInv, RatingsTyped
<1>4. IsQueue(items')
    BY <1>1, ReSortedIsQueue DEF OverflowInv
<1>5. IsQueue(items)' /\ PoppedFits'
    BY <1>1, <1>4, SameTasks
<1>6. QED BY <1>2, <1>3, <1>5 DEF OverflowInv

\* What is popped is before or level with all that is left: a task that has aged to the top
\* is not left behind by one that came later.
LEMMA PopBestKeeps == ASSUME OverflowInv, PopBest PROVE OverflowInv'
<1>1. /\ task' = task /\ taskClock' = taskClock /\ overflowing' = overflowing /\ rated' = rated
      /\ items # << >> /\ drained' = Head(items).id /\ items' = Tail(items)
      /\ popped' = [id |-> Head(items).id, left |-> Tail(items)]
    BY DEF PopBest
<1>2. /\ items \in Seq(Items) /\ Len(items) \in Nat
      /\ \A i \in 1..Len(items) : items[i] \in Items /\ RatedItem(items[i])
      /\ \A i, j \in 1..Len(items) : i < j => ~Before(items[j], items[i])
    BY DEF OverflowInv, IsQueue
<1>3. /\ Len(items) > 0 /\ Head(items) = items[1] /\ 1 \in 1..Len(items)
      /\ Tail(items) \in Seq(Items) /\ Len(Tail(items)) = Len(items) - 1
      /\ \A i \in 1..Len(items) - 1 : Tail(items)[i] = items[i + 1]
    BY <1>1, <1>2
<1> DEFINE best == items[1]
<1>4. best \in Items /\ RatedItem(best) /\ best.id \in 1..Len(task)
    BY <1>2, <1>3 DEF RatedItem
<1>5. \A i \in 1..Len(items) - 1 : i + 1 \in 1..Len(items) /\ 1 < i + 1
    BY <1>2
<1>6. TasksTyped'
    <2>1. drained' \in 0..Len(task)
        BY <1>1, <1>3, <1>4
    <2>2. TasksTyped
        BY DEF OverflowInv
    <2>3. QED BY <1>1, <2>1, <2>2 DEF TasksTyped
<1>7. RatingsTyped'
    BY <1>1, SameTasks DEF OverflowInv, RatingsTyped
<1>8. IsQueue(items')
    <2>1. \A i \in 1..Len(items') : i + 1 \in 1..Len(items) /\ items'[i] = items[i + 1]
        BY <1>1, <1>3, <1>5
    <2>2. \A i, j \in 1..Len(items') : i < j => i + 1 < j + 1
        BY <1>1, <1>2, <1>3
    <2>3. QED BY <1>1, <1>2, <1>3, <2>1, <2>2 DEF IsQueue
<1>9. ASSUME NEW i \in 1..Len(items) - 1
      PROVE  /\ items[i + 1].id \in 1..Len(task)
             /\ task[items[i + 1].id][2] < task[best.id][2] =>
                   items[i + 1].at - task[items[i + 1].id][2] < task[items[i + 1].id][1]
    <2> DEFINE a == items[i + 1]
    <2>1. a \in Items /\ RatedItem(a) /\ ~Before(a, best)
        BY <1>2, <1>3, <1>5
    <2> HIDE DEF a, best
    <2>2. \A id \in 1..Len(task) : task[id] \in Nat \X Nat
        BY DEF OverflowInv, TasksTyped
    <2>3. \A id \in 1..Len(task) : task[id][1] \in Nat /\ task[id][2] \in Nat
        BY <2>2
    <2>4. a.id \in 1..Len(task) /\ a.at \in Nat /\ a.ep \in Nat /\ best.ep \in Nat
        BY <1>4, <2>1 DEF RatedItem
    <2>5. ASSUME task[a.id][2] < task[best.id][2], ~(a.at - task[a.id][2] < task[a.id][1]) PROVE FALSE
        <3>1. a.at - task[a.id][2] >= task[a.id][1]
            BY <2>3, <2>4, <2>5
        <3>2. a.ep = 0
            BY <2>1, <3>1 DEF RatedItem
        <3>3. Before(a, best)
            BY <2>4, <2>5, <3>2 DEF Before, Enqueued
        <3>4. QED BY <2>1, <3>3
    <2>6. QED BY <2>4, <2>5 DEF a
<1>10. PoppedFits'
    <2>1. popped'.id = best.id /\ popped'.left = Tail(items)
        BY <1>1, <1>3
    <2>2. best.id \in 0..Len(task) /\ best.id # 0
        BY <1>4
    <2>3. \A i \in 1..Len(popped'.left) : i \in 1..Len(items) - 1 /\ popped'.left[i] = items[i + 1]
        BY <1>3, <2>1
    <2> HIDE DEF best
    <2>4. QED BY <1>1, <1>3, <1>9, <2>1, <2>2, <2>3 DEF PoppedFits
<1>11. IsQueue(items)'
    BY <1>1, <1>8, SameTasks
<1>12. QED BY <1>6, <1>7, <1>10, <1>11 DEF OverflowInv

LEMMA PlacedKeeps == ASSUME OverflowInv, Placed \/ PutBack \/ TasksAge PROVE OverflowInv'
<1>1. /\ task' = task /\ overflowing' = overflowing /\ popped' = popped /\ items' = items
      /\ (drained' = 0 \/ drained' = drained) /\ (taskClock' = taskClock \/ taskClock' = taskClock + 1)
    BY DEF Placed, PutBack, TasksAge
<1>2. TasksTyped
    BY DEF OverflowInv
<1>3. TasksTyped'
    <2>1. \A id \in 1..Len(task) : task[id][2] \in Nat
        <3>1. \A id \in 1..Len(task) : task[id] \in Nat \X Nat
            BY <1>2 DEF TasksTyped
        <3>2. QED BY <3>1
    <2>2. taskClock' \in Nat /\ \A id \in 1..Len(task) : task[id][2] <= taskClock'
        BY <1>1, <1>2, <2>1 DEF TasksTyped
    <2>3. QED BY <1>1, <1>2, <2>2 DEF TasksTyped
<1>4. RatingsTyped'
    <2>1. CASE rated' = rated
        BY <1>1, <2>1, SameTasks DEF OverflowInv, RatingsTyped
    <2>2. CASE PutBack
        <3>1. drained \in 1..Len(task) /\ rated' = rated \union {Rated(drained)}
            BY <1>2, <2>2 DEF PutBack, TasksTyped
        <3>2. QED BY <1>1, <3>1, RatedNow
    <2>3. QED BY <2>1, <2>2 DEF Placed, TasksAge
<1>5. IsQueue(items)' /\ PoppedFits'
    BY <1>1, SameTasks DEF OverflowInv
<1>6. QED BY <1>3, <1>4, <1>5 DEF OverflowInv

\* _GlobalQueue, "This prevents indefinite starvation of LOW-priority tasks": whatever pushes,
\* pops and re_sorts interleave, the drainer never takes a task while an earlier one waits whose age
\* had brought its last rating to the top.
THEOREM AgedAreNeverPassed == OverflowSpec => []AgedAreNotPassed
<1>1. ASSUME OverflowInv, [OverflowNext]_overflowVars PROVE OverflowInv'
    <2>1. CASE UNCHANGED overflowVars
        <3>1. /\ task' = task /\ taskClock' = taskClock /\ overflowing' = overflowing /\ drained' = drained
              /\ popped' = popped /\ rated' = rated /\ items' = items
            BY <2>1 DEF overflowVars
        <3>2. TasksTyped'
            BY <1>1, <3>1 DEF OverflowInv, TasksTyped
        <3>3. RatingsTyped'
            BY <1>1, <3>1, SameTasks DEF OverflowInv, RatingsTyped
        <3>4. IsQueue(items)' /\ PoppedFits'
            BY <1>1, <3>1, SameTasks DEF OverflowInv
        <3>5. QED BY <3>2, <3>3, <3>4 DEF OverflowInv
    <2>2. QED BY <1>1, <2>1, SubmitTaskKeeps, RatesKeeps, PushesKeeps, DrainCycleKeeps, PopBestKeeps, PlacedKeeps
          DEF OverflowNext
<1>2. OverflowInv => AgedAreNotPassed
    <2> SUFFICES ASSUME OverflowInv PROVE AgedAreNotPassed
        OBVIOUS
    <2>1. PoppedFits /\ DOMAIN popped.left = 1..Len(popped.left)
        BY DEF OverflowInv, PoppedFits
    <2>2. QED BY <2>1 DEF PoppedFits, AgedAreNotPassed, Enqueued
<1>3. QED BY OverflowStarts, <1>1, <1>2, PTL DEF OverflowSpec

-----------------------------------------------------------------------------
(* The placement of tasks *)

WorkerStats == [len : Nat, ipc : Nat, miss : {m \in Nat : m <= 1000}, done : Nat]

(* Workers have statistics, nodes have distances, and the last choice was a good one. *)
TopologyFits ==
    /\ topology \in Seq(ToSet(topology)) /\ Len(topology) > 0
    /\ \A i \in DOMAIN topology :
          topology[i].id # Anywhere /\ \A n \in DOMAIN topology[i].dist : topology[i].dist[n] \in Nat

WorkersTyped == worker \in [1..(PerNode * Len(topology)) -> WorkerStats]

PlacementInv == TopologyFits /\ WorkersTyped /\ NoTwoHops

LEMMA WorkersAre ==
    ASSUME TopologyFits, WorkersTyped
    PROVE  /\ worker \in Seq(WorkerStats) /\ Len(worker) \in Nat \ {0}
           /\ DOMAIN worker = 1..Len(worker) /\ Len(worker) = PerNode * Len(topology)
           /\ \A w \in DOMAIN worker :
                 worker[w].len \in Nat /\ worker[w].ipc \in Nat /\ worker[w].miss \in Nat /\ worker[w].miss <= 1000 /\ worker[w].done \in Nat
<1> DEFINE n == PerNode * Len(topology)
<1>1. n \in Nat \ {0}
    <2>1. PerNode \in Nat \ {0} /\ Len(topology) \in Nat \ {0}
        BY PlacementAssumption DEF TopologyFits
    <2>2. \A a, b \in Nat \ {0} : a * b \in Nat \ {0}
        OBVIOUS
    <2>3. QED BY <2>1, <2>2
<1> HIDE DEF n
<1>2. worker \in [1..n -> WorkerStats]
    BY DEF n, WorkersTyped
<1>3. worker \in Seq(WorkerStats) /\ Len(worker) = n /\ DOMAIN worker = 1..n
    BY <1>1, <1>2
<1>4. \A w \in 1..n : worker[w] \in WorkerStats
    BY <1>2
<1>5. \A w \in 1..n :
         worker[w].len \in Nat /\ worker[w].ipc \in Nat /\ worker[w].miss \in Nat /\ worker[w].miss <= 1000 /\ worker[w].done \in Nat
    BY <1>4 DEF WorkerStats
<1>6. Len(worker) \in Nat \ {0} /\ DOMAIN worker = 1..Len(worker) /\ Len(worker) = PerNode * Len(topology)
    <2>1. n = PerNode * Len(topology)
        BY DEF n
    <2>2. QED BY <1>1, <1>3, <2>1
<1>7. QED BY <1>3, <1>5, <1>6

LEMMA DistanceIsNat == ASSUME TopologyFits, NEW from, NEW to PROVE Distance(from, to) \in Nat
<1>1. CASE from \notin {topology[i].id : i \in DOMAIN topology}
    BY <1>1 DEF Distance
<1>2. CASE from \in {topology[i].id : i \in DOMAIN topology}
    <2> DEFINE at == CHOOSE i \in DOMAIN topology : topology[i].id = from
    <2>1. at \in DOMAIN topology
        BY <1>2
    <2>2. Distance(from, to) = IF to \in DOMAIN topology[at].dist THEN topology[at].dist[to] ELSE 10
        BY <1>2 DEF Distance
    <2> HIDE DEF at
    <2>3. QED BY <2>1, <2>2 DEF TopologyFits
<1>3. QED BY <1>1, <1>2

LEMMA NobodysDistance == ASSUME TopologyFits, NEW to PROVE Distance(Anywhere, to) = 10
<1>1. Anywhere \notin {topology[i].id : i \in DOMAIN topology}
    BY DEF TopologyFits
<1>2. QED BY <1>1 DEF Distance

LEMMA LesserOf ==
    ASSUME NEW a \in Nat, NEW b \in Nat
    PROVE  Min({a, b}) = IF a <= b THEN a ELSE b
<1>1. Min({a, b}) = CHOOSE x \in {a, b} : \A y \in {a, b} : x <= y
    BY DEF Min
<1>2. CASE a <= b
    <2>1. \A x \in {a, b} : (\A y \in {a, b} : x <= y) <=> x = a
        BY <1>2
    <2>2. QED BY <1>1, <1>2, <2>1
<1>3. CASE ~(a <= b)
    <2>1. \A x \in {a, b} : (\A y \in {a, b} : x <= y) <=> x = b
        BY <1>3
    <2>2. QED BY <1>1, <1>3, <2>1
<1>4. QED BY <1>2, <1>3

\* What a worker's load, stalls and misses may add to the distance.
Adds(score, distance) ==
    \E x \in Nat, y \in 0..QueueDepth :
        x <= 12000 /\ score = QueueDepth * (1600 * distance + x) + 12000 * y

LEMMA ScoreIs ==
    ASSUME TopologyFits, WorkersTyped,
           NEW node, NEW w \in DOMAIN worker
    PROVE  Adds(Score(w, node), Distance(node, NodeOf(w)))
<1> DEFINE d == Distance(node, NodeOf(w))
           stall == 4000 - Min({worker[w].ipc, 4000})
           misses == 8 * worker[w].miss
           load == Min({worker[w].len, QueueDepth})
<1>1. d \in Nat /\ (node = Anywhere => d = 10)
    BY DistanceIsNat, NobodysDistance
<1>2. worker[w].len \in Nat /\ worker[w].ipc \in Nat /\ worker[w].miss \in Nat /\ worker[w].miss <= 1000 /\ QueueDepth \in Nat \ {0}
    BY WorkersAre, PlacementAssumption
<1>3. stall \in Nat /\ stall <= 4000 /\ misses \in Nat /\ misses <= 8000 /\ load \in 0..QueueDepth
    <2>1. Min({worker[w].ipc, 4000}) = IF worker[w].ipc <= 4000 THEN worker[w].ipc ELSE 4000
        BY <1>2, LesserOf
    <2>2. load = IF worker[w].len <= QueueDepth THEN worker[w].len ELSE QueueDepth
        BY <1>2, LesserOf
    <2>3. \A a, b \in Nat : (IF a <= b THEN a ELSE b) \in 0..b
        OBVIOUS
    <2>4. Min({worker[w].ipc, 4000}) \in Nat /\ Min({worker[w].ipc, 4000}) <= 4000 /\ load \in 0..QueueDepth
        BY <1>2, <2>1, <2>2, <2>3
    <2>5. stall \in Nat /\ stall <= 4000
        BY <2>4
    <2>6. misses \in Nat /\ misses <= 8000
        BY <1>2
    <2>7. QED BY <2>4, <2>5, <2>6
<1>4. Score(w, node) = QueueDepth * (1600 * d + stall + misses) + 12000 * load
    <2>1. Score(w, node) = QueueDepth * (1600 * (IF node = Anywhere THEN 10 ELSE d) + stall + misses) + 12000 * load
        BY DEF Score
    <2>2. (IF node = Anywhere THEN 10 ELSE d) = d
        BY <1>1
    <2>3. QED BY <2>1, <2>2
<1> HIDE DEF d, stall, misses, load
<1>5. stall + misses \in Nat /\ stall + misses <= 12000 /\ 1600 * d + stall + misses = 1600 * d + (stall + misses)
    BY <1>1, <1>3
<1> DEFINE x == stall + misses
<1>6. Score(w, node) = QueueDepth * (1600 * d + x) + 12000 * load
    BY <1>4, <1>5
<1>7. x \in Nat /\ x <= 12000
    BY <1>5
<1> HIDE DEF x
<1>8. \E y \in 0..QueueDepth : Score(w, node) = QueueDepth * (1600 * d + x) + 12000 * y
    BY <1>3, <1>6
<1>9. Adds(Score(w, node), d)
    BY <1>7, <1>8 DEF Adds
<1>10. QED BY <1>9 DEF d

\* Of two workers of which one scores no worse than the other it is at most 15 farther away.
LEMMA ScoresCompare ==
    ASSUME NEW q \in Nat \ {0}, NEW a \in Nat, NEW b \in Nat, NEW xa \in Nat, NEW xb \in Nat, xa <= 12000, xb <= 12000,
           NEW ya \in 0..q, NEW yb \in 0..q,
           q * (1600 * a + xa) + 12000 * ya <= q * (1600 * b + xb) + 12000 * yb
    PROVE  a <= b + 15
<1> SUFFICES ASSUME ~(a <= b + 15) PROVE FALSE
    OBVIOUS
<1> DEFINE u == 1600 * a + xa
           v == 1600 * b + xb
           k == u - v - 13600
<1>1. u \in Nat /\ v \in Nat /\ k \in Nat /\ u = v + 13600 + k
    OBVIOUS
<1>2. q * u + 12000 * ya <= q * v + 12000 * yb
    OBVIOUS
<1> HIDE DEF u, v, k
<1>3. q * u = q * v + 13600 * q + q * k
    BY <1>1
<1>4. q * k \in Nat /\ q * v \in Nat /\ q * u \in Nat
    BY <1>1
<1>5. QED BY <1>2, <1>3, <1>4

\* The worker that is chosen scores best.
LEMMA BestIs ==
    ASSUME TopologyFits, WorkersTyped, NEW node
    PROVE  /\ BestWorker(node) \in DOMAIN worker
           /\ \A w \in DOMAIN worker : Score(BestWorker(node), node) <= Score(w, node)
<1> DEFINE n == Len(worker)
           S(w) == Score(w, node)
           step == [k \in 1..n |-> [b \in 1..n |->
                       IF k = 1 THEN 1 ELSE IF Better(k, b, node) THEN k ELSE b]]
           Chooses(f) == f = [w \in DOMAIN worker |->
                       IF w = 1 THEN 1 ELSE IF Better(w, f[w - 1], node) THEN w ELSE f[w - 1]]
<1>1. n \in Nat \ {0} /\ DOMAIN worker = 1..n
    BY WorkersAre
<1>2. \A w \in 1..n : S(w) \in Nat
    <2>1. ASSUME NEW w \in 1..n PROVE S(w) \in Nat
        <3>1. PICK x \in Nat, y \in 0..QueueDepth :
                  x <= 12000 /\ S(w) = QueueDepth * (1600 * Distance(node, NodeOf(w)) + x) + 12000 * y
            <4>1. w \in DOMAIN worker
                BY <1>1
            <4>2. Adds(S(w), Distance(node, NodeOf(w)))
                BY <4>1, ScoreIs
            <4> HIDE DEF S
            <4>3. QED BY <4>2 DEF Adds
        <3>2. QueueDepth \in Nat /\ 1600 * Distance(node, NodeOf(w)) + x \in Nat
            <4>1. Distance(node, NodeOf(w)) \in Nat
                BY DistanceIsNat
            <4>2. QueueDepth \in Nat
                BY PlacementAssumption
            <4>3. QED BY <4>1, <4>2
        <3>3. \A a, b \in Nat : a * b \in Nat
            OBVIOUS
        <3>4. QueueDepth * (1600 * Distance(node, NodeOf(w)) + x) \in Nat
            BY <3>2, <3>3
        <3>5. 12000 * y \in Nat
            BY <3>2
        <3> HIDE DEF S
        <3>6. QED BY <3>1, <3>4, <3>5
    <2>2. QED BY <2>1
<1>3. \A k, b \in 1..n : Better(k, b, node) => S(k) <= S(b)
    BY <1>2 DEF Better
<1>4. \A k, b \in 1..n : ~Better(k, b, node) => S(b) <= S(k)
    BY <1>2 DEF Better
<1> HIDE DEF S
<1>5. /\ 1 \in 1..n
      /\ step \in [1..n -> [1..n -> 1..n]]
      /\ \A k, b \in 1..n : step[k][b] = IF k = 1 THEN 1 ELSE IF Better(k, b, node) THEN k ELSE b
    BY <1>1
<1> HIDE DEF step
<1>6. PICK all : all \in [0..n -> 1..n] /\ all[0] = 1 /\ \A k \in 1..n : all[k] = step[k][all[k - 1]]
    <2>1. \E f : Iterates(f, n, 1..n, 1, step)
        <3>1. n \in Nat
            BY <1>1
        <3>2. QED BY <1>5, <3>1, Iteration
    <2>2. QED BY <2>1 DEF Iterates
<1> DEFINE part == [w \in 1..n |-> all[w]]
<1>7. \A w \in 1..n : w - 1 \in 0..n /\ w \in 0..n /\ (w # 1 => w - 1 \in 1..n)
    BY <1>1
<1>8. \A w \in 1..n : part[w] = IF w = 1 THEN 1 ELSE IF Better(w, part[w - 1], node) THEN w ELSE part[w - 1]
    <2>1. ASSUME NEW w \in 1..n
          PROVE part[w] = IF w = 1 THEN 1 ELSE IF Better(w, part[w - 1], node) THEN w ELSE part[w - 1]
        <3>1. all[w - 1] \in 1..n /\ part[w] = step[w][all[w - 1]]
            BY <1>6, <1>7
        <3>2. CASE w = 1
            BY <1>5, <3>1, <3>2
        <3>3. CASE w # 1
            <4>1. part[w - 1] = all[w - 1]
                BY <1>7, <3>3
            <4>2. QED BY <1>5, <3>1, <3>3, <4>1
        <3>4. QED BY <3>2, <3>3
    <2>2. QED BY <2>1
<1>9. Chooses(part)
    BY <1>1, <1>8
<1> HIDE DEF part
<1>10. PICK f : f = (CHOOSE g : Chooses(g)) /\ Chooses(f)
    BY <1>9
<1>11. BestWorker(node) = f[n]
    BY <1>10 DEF BestWorker
<1>12. \A w \in 1..n : f[w] = IF w = 1 THEN 1 ELSE IF Better(w, f[w - 1], node) THEN w ELSE f[w - 1]
    BY <1>1, <1>10
<1> HIDE DEF Chooses
<1> DEFINE T == {k \in 1..n : f[k] \in 1..n /\ \A w \in 1..k : S(f[k]) <= S(w)}
<1>13. 1 \in T
    <2>1. f[1] = 1 /\ 1 \in 1..n /\ \A w \in 1..1 : w = 1
        BY <1>5, <1>12
    <2>2. S(1) <= S(1)
        BY <1>2, <2>1
    <2>3. QED BY <2>1, <2>2
<1>14. ASSUME NEW k \in 1..n - 1, k \in T PROVE k + 1 \in T
    <2>1. k + 1 \in 1..n /\ k \in 1..n /\ (k + 1) - 1 = k /\ k + 1 # 1
        BY <1>1
    <2>2. f[k + 1] = IF Better(k + 1, f[k], node) THEN k + 1 ELSE f[k]
        BY <1>12, <2>1
    <2>3. f[k] \in 1..n /\ \A w \in 1..k : S(f[k]) <= S(w)
        BY <1>14
    <2>4. f[k + 1] \in 1..n /\ S(f[k + 1]) <= S(k + 1) /\ S(f[k + 1]) <= S(f[k])
        <3>1. S(k + 1) <= S(k + 1) /\ S(f[k]) <= S(f[k])
            BY <1>2, <2>1, <2>3
        <3>2. QED BY <1>3, <1>4, <2>1, <2>2, <2>3, <3>1
    <2>5. ASSUME NEW w \in 1..k + 1 PROVE S(f[k + 1]) <= S(w)
        <3>1. CASE w = k + 1
            BY <2>4, <3>1
        <3>2. CASE w # k + 1
            <4>1. w \in 1..k /\ w \in 1..n
                BY <2>1, <3>2
            <4>2. S(f[k]) <= S(w)
                BY <2>3, <4>1
            <4>3. S(f[k + 1]) \in Nat /\ S(f[k]) \in Nat /\ S(w) \in Nat
                BY <1>2, <2>3, <2>4, <4>1
            <4>4. QED BY <2>4, <4>2, <4>3
        <3>3. QED BY <3>1, <3>2
    <2>6. QED BY <2>1, <2>4, <2>5
<1> HIDE DEF T
<1>15. 1..n \subseteq T
    <2>1. 1 \in Nat /\ n \in Nat
        BY <1>1
    <2>2. QED BY <1>13, <1>14, <2>1, UpwardInduction
<1>16. n \in T
    BY <1>1, <1>15
<1>17. f[n] \in 1..n /\ \A w \in 1..n : S(f[n]) <= S(w)
    BY <1>16 DEF T
<1>18. QED BY <1>1, <1>11, <1>17 DEF S

\* A worker's averages stay in the range of the samples.
LEMMA AverageIs ==
    ASSUME NEW old \in Nat, NEW sample \in Nat
    PROVE  Average(old, sample) \in Nat /\ (old <= 1000 /\ sample <= 1000 => Average(old, sample) <= 1000)
<1> DEFINE sum == 2 * sample + 7 * old
<1>1. sum \in Nat /\ (old <= 1000 /\ sample <= 1000 => sum <= 9000)
    OBVIOUS
<1>2. Average(old, sample) = sum \div 9
    BY DEF Average
<1> HIDE DEF sum
<1>3. sum \div 9 \in Nat /\ (sum <= 9000 => sum \div 9 <= 1000)
    BY <1>1
<1>4. QED BY <1>1, <1>2, <1>3

LEMMA PlacementStarts == PlacementInit => PlacementInv
<1> SUFFICES ASSUME PlacementInit PROVE PlacementInv
    OBVIOUS
<1>1. PICK top \in Topologies : topology = TopologyOf(top)
    BY DEF PlacementInit
<1>2. TopologyFits
    <2>1. CASE top = << >>
        <3>1. topology = <<[id |-> 0, dist |-> [n \in {0} |-> 10]]>>
            BY <1>1, <2>1 DEF TopologyOf
        <3>2. DOMAIN topology = {1} /\ Len(topology) = 1 /\ topology[1].id = 0
              /\ DOMAIN topology[1].dist = {0} /\ topology[1].dist[0] = 10
            BY <3>1
        <3>3. topology \in Seq(ToSet(topology))
            BY <3>1, <3>2 DEF ToSet
        <3>4. Anywhere # 0
            BY PlacementAssumption
        <3>5. QED BY <3>2, <3>3, <3>4 DEF TopologyFits
    <2>2. CASE top # << >>
        <3>1. topology = top
            BY <1>1, <2>2 DEF TopologyOf
        <3>2. /\ top \in Seq(ToSet(top))
              /\ \A i \in DOMAIN top :
                    top[i].id # Anywhere /\ \A n \in DOMAIN top[i].dist : top[i].dist[n] \in Nat
            BY PlacementAssumption
        <3>3. Len(top) > 0
            BY <2>2, <3>2
        <3>4. QED BY <3>1, <3>2, <3>3 DEF TopologyFits
    <2>3. QED BY <2>1, <2>2
<1>3. WorkersTyped
    <2>1. FreshWorker \in WorkerStats
        BY DEF FreshWorker, WorkerStats
    <2>2. QED BY <2>1 DEF PlacementInit, WorkersTyped
<1>4. NoTwoHops
    BY DEF PlacementInit, NoTwoHops, NoChoice
<1>5. QED BY <1>2, <1>3, <1>4 DEF PlacementInv

\* A choice is good: no worker is more than 15 nearer.
LEMMA PlaceTaskKeeps ==
    ASSUME PlacementInv, NEW node \in WantedNodes, PlaceTask(node) PROVE PlacementInv'
<1> DEFINE b == BestWorker(node)
<1>1. TopologyFits /\ WorkersTyped
    BY DEF PlacementInv
<1>2. /\ choice' = [node |-> node, by |-> b] /\ topology' = topology
      /\ (worker' = worker \/ worker' = [worker EXCEPT ![b].len = @ + 1])
    BY DEF PlaceTask
<1>3. b \in DOMAIN worker /\ \A w \in DOMAIN worker : Score(b, node) <= Score(w, node)
    BY <1>1, BestIs
<1> HIDE DEF b
<1>4. TopologyFits'
    BY <1>1, <1>2 DEF TopologyFits
<1>5. WorkersTyped'
    <2>1. CASE worker' = worker
        BY <1>1, <1>2, <2>1 DEF WorkersTyped
    <2>2. CASE worker' = [worker EXCEPT ![b].len = @ + 1]
        <3>1. worker[b] \in WorkerStats
            BY <1>1, <1>3 DEF WorkersTyped
        <3>2. [worker[b] EXCEPT !.len = @ + 1] \in WorkerStats
            BY <3>1 DEF WorkerStats
        <3>3. worker' = [worker EXCEPT ![b] = [worker[b] EXCEPT !.len = @ + 1]]
            BY <2>2
        <3>4. QED BY <1>1, <1>2, <3>2, <3>3, Zenon DEF WorkersTyped
    <2>3. QED BY <1>2, <2>1, <2>2
<1>6. DOMAIN worker' = DOMAIN worker
    BY <1>2
<1>7. ASSUME NEW w \in DOMAIN worker
      PROVE  Distance(node, NodeOf(b)) <= Distance(node, NodeOf(w)) + 15
    <2> DEFINE near == Distance(node, NodeOf(b))
               far == Distance(node, NodeOf(w))
    <2>1. near \in Nat /\ far \in Nat /\ QueueDepth \in Nat \ {0}
        BY <1>1, DistanceIsNat, PlacementAssumption
    <2>2. PICK xa \in Nat, ya \in 0..QueueDepth :
              xa <= 12000 /\ Score(b, node) = QueueDepth * (1600 * near + xa) + 12000 * ya
        <3>1. Adds(Score(b, node), near)
            BY <1>1, <1>3, ScoreIs
        <3> HIDE DEF near
        <3>2. QED BY <3>1 DEF Adds
    <2>3. PICK xb \in Nat, yb \in 0..QueueDepth :
              xb <= 12000 /\ Score(w, node) = QueueDepth * (1600 * far + xb) + 12000 * yb
        <3>1. Adds(Score(w, node), far)
            BY <1>1, ScoreIs
        <3> HIDE DEF far
        <3>2. QED BY <3>1 DEF Adds
    <2>4. Score(b, node) <= Score(w, node)
        BY <1>3
    <2> HIDE DEF near, far
    <2>5. QueueDepth * (1600 * near + xa) + 12000 * ya <= QueueDepth * (1600 * far + xb) + 12000 * yb
        BY <2>2, <2>3, <2>4
    <2>6. near <= far + 15
        BY <2>1, <2>2, <2>3, <2>5, ScoresCompare
    <2>7. QED BY <2>6 DEF near, far
<1>8. NoTwoHops'
    <2>1. choice'.node = node /\ choice'.by = b
        BY <1>2
    <2>2. Distance(choice.node, NodeOf(choice.by))' = Distance(node, NodeOf(b))
        BY <1>2, <2>1 DEF Distance, NodeOf
    <2>3. ASSUME NEW w \in DOMAIN worker'
          PROVE  (Distance(choice.node, NodeOf(choice.by)) <= Distance(choice.node, NodeOf(w)) + 15)'
        <3>1. Distance(choice.node, NodeOf(w))' = Distance(node, NodeOf(w))
            BY <1>2, <2>1 DEF Distance, NodeOf
        <3>2. Distance(node, NodeOf(b)) <= Distance(node, NodeOf(w)) + 15
            BY <1>6, <1>7, <2>3
        <3>3. QED BY <2>2, <3>1, <3>2
    <2>4. QED BY <2>3 DEF NoTwoHops
<1>9. QED BY <1>4, <1>5, <1>8 DEF PlacementInv

LEMMA FinishTaskKeeps ==
    ASSUME PlacementInv, NEW w \in DOMAIN worker,
           NEW ipc \in IpcSamples \union {worker[w].ipc}, NEW miss \in MissSamples \union {worker[w].miss},
           FinishTask(w, ipc, miss)
    PROVE  PlacementInv'
<1>1. TopologyFits /\ WorkersTyped
    BY DEF PlacementInv
<1> DEFINE left == [len |-> worker[w].len - 1, ipc |-> Average(worker[w].ipc, ipc),
                    miss |-> Average(worker[w].miss, miss), done |-> worker[w].done + 1]
<1>2. topology' = topology /\ choice' = choice /\ worker[w].len > 0 /\ worker' = [worker EXCEPT ![w] = left]
    BY DEF FinishTask
<1>3. /\ worker[w].len \in Nat /\ worker[w].ipc \in Nat /\ worker[w].miss \in Nat /\ worker[w].miss <= 1000
      /\ worker[w].done \in Nat
    BY <1>1, WorkersAre
<1>4. ipc \in Nat /\ miss \in Nat /\ miss <= 1000
    <2>1. IpcSamples \subseteq Nat /\ \A sample \in MissSamples : sample \in Nat /\ sample <= 1000
        BY PlacementAssumption, Zenon
    <2>2. QED BY <1>3, <2>1
<1>5. left \in WorkerStats
    <2>1. Average(worker[w].ipc, ipc) \in Nat
        <3> DEFINE old == worker[w].ipc
        <3>1. old \in Nat /\ ipc \in Nat
            BY <1>3, <1>4
        <3> HIDE DEF old
        <3>2. \A x, y \in Nat : Average(x, y) \in Nat
            BY AverageIs
        <3>3. Average(old, ipc) \in Nat
            BY <3>1, <3>2
        <3>4. QED BY <3>3 DEF old
    <2>2. Average(worker[w].miss, miss) \in Nat /\ Average(worker[w].miss, miss) <= 1000
        <3> DEFINE old == worker[w].miss
        <3>1. old \in Nat /\ miss \in Nat /\ old <= 1000 /\ miss <= 1000
            BY <1>3, <1>4
        <3> HIDE DEF old
        <3>2. Average(old, miss) \in Nat /\ Average(old, miss) <= 1000
            BY <3>1, AverageIs
        <3>3. QED BY <3>2 DEF old
    <2>3. worker[w].len - 1 \in Nat /\ worker[w].done + 1 \in Nat
        BY <1>2, <1>3
    <2>4. QED BY <2>1, <2>2, <2>3 DEF WorkerStats
<1> HIDE DEF left
<1>6. WorkersTyped'
    BY <1>1, <1>2, <1>5, Zenon DEF WorkersTyped
<1>7. TopologyFits'
    BY <1>1, <1>2 DEF TopologyFits
<1>8. NoTwoHops'
    <2>1. DOMAIN worker' = DOMAIN worker
        BY <1>2
    <2>2. QED BY <1>2, <2>1 DEF PlacementInv, NoTwoHops, Distance, NodeOf
<1>9. QED BY <1>6, <1>7, <1>8 DEF PlacementInv

\* PlacementScorer: load, stalls and misses outweigh one hop, never two, whatever the topology and
\* whatever was measured.
THEOREM NeverTwoHops == PlacementSpec => []NoTwoHops
<1>1. PlacementInv /\ [PlacementNext]_placementVars => PlacementInv'
    <2> SUFFICES ASSUME PlacementInv, [PlacementNext]_placementVars PROVE PlacementInv'
        OBVIOUS
    <2>1. CASE UNCHANGED placementVars
        BY <2>1 DEF placementVars, PlacementInv, TopologyFits, WorkersTyped, NoTwoHops, Distance, NodeOf
    <2>2. QED BY <2>1, PlaceTaskKeeps, FinishTaskKeeps DEF PlacementNext
<1>2. PlacementInv => NoTwoHops
    BY DEF PlacementInv
<1>3. QED BY PlacementStarts, <1>1, <1>2, PTL DEF PlacementSpec

-----------------------------------------------------------------------------
(* Sums over sequences *)

(* The partial sums of what w gives the elements of s. *)
IsSum(f, s, w) ==
    f \in [0..Len(s) -> Nat] /\ f[0] = 0 /\ \A k \in 1..Len(s) : f[k] = f[k - 1] + w[s[k]]

Total(s, w) == CHOOSE sum : \E f : IsSum(f, s, w) /\ sum = f[Len(s)]

LEMMA SumsExist ==
    ASSUME NEW M, NEW s \in Seq(M), NEW w \in [M -> Nat]
    PROVE  \E f : IsSum(f, s, w)
<1> DEFINE n == Len(s)
           step == [k \in 1..n |-> [x \in Nat |-> x + w[s[k]]]]
<1>1. n \in Nat /\ \A k \in 1..n : s[k] \in M /\ w[s[k]] \in Nat
    OBVIOUS
<1>2. /\ step \in [1..n -> [Nat -> Nat]]
      /\ \A k \in 1..n : \A x \in Nat : step[k][x] = x + w[s[k]]
    BY <1>1
<1> HIDE DEF n, step
<1>3. PICK f : Iterates(f, n, Nat, 0, step)
    <2>1. 0 \in Nat
        OBVIOUS
    <2>2. QED BY <1>1, <1>2, <2>1, Iteration
<1>4. f \in [0..n -> Nat] /\ f[0] = 0 /\ \A k \in 1..n : f[k] = step[k][f[k - 1]]
    BY <1>3 DEF Iterates
<1>5. ASSUME NEW k \in 1..n PROVE f[k] = f[k - 1] + w[s[k]]
    <2>1. k - 1 \in 0..n
        BY <1>1
    <2>2. f[k - 1] \in Nat
        BY <1>4, <2>1
    <2>3. QED BY <1>2, <1>4, <2>2
<1>6. IsSum(f, s, w)
    BY <1>4, <1>5 DEF IsSum, n
<1>7. QED BY <1>6

LEMMA TotalIs ==
    ASSUME NEW M, NEW s \in Seq(M), NEW w \in [M -> Nat], NEW f, IsSum(f, s, w)
    PROVE  Total(s, w) = f[Len(s)] /\ Total(s, w) \in Nat
<1> DEFINE n == Len(s)
<1>1. n \in Nat /\ \A k \in 1..n : w[s[k]] \in Nat
    OBVIOUS
<1>2. PICK g : IsSum(g, s, w) /\ Total(s, w) = g[n]
    BY DEF Total
<1>3. /\ f \in [0..n -> Nat] /\ f[0] = 0 /\ \A k \in 1..n : f[k] = f[k - 1] + w[s[k]]
      /\ g \in [0..n -> Nat] /\ g[0] = 0 /\ \A k \in 1..n : g[k] = g[k - 1] + w[s[k]]
    BY <1>2 DEF IsSum
<1> HIDE DEF n
<1> DEFINE T == {k \in 0..n : f[k] = g[k]}
<1>4. 0 \in T
    BY <1>1, <1>3
<1>5. ASSUME NEW k \in 0..n - 1, k \in T PROVE k + 1 \in T
    <2>1. k + 1 \in 1..n /\ k + 1 \in 0..n /\ (k + 1) - 1 = k
        BY <1>1
    <2>2. f[k + 1] = f[k] + w[s[k + 1]] /\ g[k + 1] = g[k] + w[s[k + 1]]
        BY <1>3, <2>1
    <2>3. QED BY <1>5, <2>1, <2>2
<1> HIDE DEF T
<1>6. 0..n \subseteq T
    BY <1>1, <1>4, <1>5, UpwardInduction
<1>7. n \in T
    BY <1>1, <1>6
<1>8. f[n] = g[n] /\ f[n] \in Nat
    BY <1>1, <1>3, <1>7 DEF T
<1>9. QED BY <1>2, <1>8 DEF n

LEMMA TotalTyped ==
    ASSUME NEW M, NEW s \in Seq(M), NEW w \in [M -> Nat] PROVE Total(s, w) \in Nat
BY SumsExist, TotalIs

LEMMA TotalOfNone ==
    ASSUME NEW M, NEW s \in Seq(M), NEW w \in [M -> Nat], \A k \in 1..Len(s) : w[s[k]] = 0
    PROVE  Total(s, w) = 0
<1> DEFINE f == [k \in 0..Len(s) |-> 0]
<1>1. Len(s) \in Nat
    OBVIOUS
<1>2. IsSum(f, s, w) /\ f[Len(s)] = 0
    BY <1>1 DEF IsSum
<1> HIDE DEF f
<1>3. QED BY <1>2, TotalIs

\* What is said after s adds its own total.
LEMMA TotalOfBoth ==
    ASSUME NEW M, NEW s \in Seq(M), NEW t \in Seq(M), NEW w \in [M -> Nat]
    PROVE  s \o t \in Seq(M) /\ Total(s \o t, w) = Total(s, w) + Total(t, w)
<1> DEFINE m == Len(s)
           n == Len(t)
           both == s \o t
<1>1. /\ both \in Seq(M) /\ Len(both) = m + n /\ m \in Nat /\ n \in Nat
      /\ \A k \in 1..m : both[k] = s[k]
      /\ \A k \in m + 1..m + n : both[k] = t[k - m]
    OBVIOUS
<1>2. PICK f : IsSum(f, s, w)
    BY SumsExist
<1>3. PICK g : IsSum(g, t, w)
    BY SumsExist
<1>4. f \in [0..m -> Nat] /\ f[0] = 0 /\ \A k \in 1..m : f[k] = f[k - 1] + w[s[k]]
    BY <1>2 DEF IsSum
<1>5. g \in [0..n -> Nat] /\ g[0] = 0 /\ \A k \in 1..n : g[k] = g[k - 1] + w[t[k]]
    BY <1>3 DEF IsSum
<1>6. Total(s, w) = f[m] /\ Total(t, w) = g[n]
    BY <1>2, <1>3, TotalIs
<1> HIDE DEF m, n, both
<1> DEFINE h == [k \in 0..m + n |-> IF k <= m THEN f[k] ELSE f[m] + g[k - m]]
<1>7. /\ \A k \in 0..m : k \in 0..m + n /\ h[k] = f[k]
      /\ \A k \in m + 1..m + n : h[k] = f[m] + g[k - m]
    BY <1>1
<1>8. f[m] \in Nat /\ m \in 0..m
    BY <1>1, <1>4
<1>9. \A k \in m..m + n : h[k] = f[m] + g[k - m]
    <2>1. h[m] = f[m] + g[m - m]
        BY <1>1, <1>5, <1>7, <1>8
    <2>2. \A k \in m..m + n : k = m \/ k \in m + 1..m + n
        BY <1>1
    <2>3. QED BY <1>7, <2>1, <2>2
<1>10. h \in [0..m + n -> Nat]
    <2>1. ASSUME NEW k \in 0..m + n PROVE h[k] \in Nat
        <3>1. CASE k <= m
            <4>1. k \in 0..m
                BY <1>1, <3>1
            <4>2. QED BY <1>4, <1>7, <4>1
        <3>2. CASE ~(k <= m)
            <4>1. k \in m..m + n /\ k - m \in 0..n
                BY <1>1, <3>2
            <4>2. g[k - m] \in Nat
                BY <1>5, <4>1
            <4>3. QED BY <1>8, <1>9, <4>1, <4>2
        <3>3. QED BY <3>1, <3>2
    <2>2. QED BY <2>1
<1> HIDE DEF h
<1>11. ASSUME NEW k \in 1..m + n PROVE h[k] = h[k - 1] + w[both[k]]
    <2>1. CASE k <= m
        <3>1. k \in 1..m /\ k \in 0..m /\ k - 1 \in 0..m
            BY <1>1, <2>1
        <3>2. h[k] = f[k] /\ h[k - 1] = f[k - 1] /\ f[k] = f[k - 1] + w[s[k]] /\ both[k] = s[k]
            BY <1>1, <1>4, <1>7, <3>1
        <3>3. QED BY <3>2
    <2>2. CASE ~(k <= m)
        <3>1. k \in m + 1..m + n /\ k \in m..m + n /\ k - 1 \in m..m + n /\ k - m \in 1..n
            BY <1>1, <2>2
        <3>2. (k - 1) - m = (k - m) - 1
            BY <1>1
        <3>3. h[k] = f[m] + g[k - m] /\ h[k - 1] = f[m] + g[(k - m) - 1] /\ both[k] = t[k - m]
            BY <1>1, <1>9, <3>1, <3>2
        <3>4. g[k - m] = g[(k - m) - 1] + w[t[k - m]]
            BY <1>5, <3>1
        <3>5. g[(k - m) - 1] \in Nat /\ w[t[k - m]] \in Nat
            <4>1. (k - m) - 1 \in 0..n
                BY <1>1, <3>1
            <4>2. t[k - m] \in M
                BY <3>1 DEF n
            <4>3. QED BY <1>5, <4>1, <4>2
        <3>6. QED BY <1>8, <3>3, <3>4, <3>5
    <2>3. QED BY <2>1, <2>2
<1>12. h[0] = 0
    BY <1>1, <1>4, <1>7
<1>13. IsSum(h, both, w)
    BY <1>1, <1>10, <1>11, <1>12 DEF IsSum
<1>14. Total(both, w) = h[m + n]
    BY <1>1, <1>13, TotalIs
<1>15. h[m + n] = f[m] + g[n]
    <2>1. m + n \in m..m + n /\ (m + n) - m = n
        BY <1>1
    <2>2. QED BY <1>9, <2>1
<1>16. QED BY <1>1, <1>6, <1>14, <1>15 DEF both

LEMMA TotalOfOne ==
    ASSUME NEW M, NEW e \in M, NEW w \in [M -> Nat]
    PROVE  <<e>> \in Seq(M) /\ Total(<<e>>, w) = w[e]
<1> DEFINE f == [k \in 0..1 |-> IF k = 0 THEN 0 ELSE w[e]]
           s == <<e>>
<1>1. s \in Seq(M) /\ Len(s) = 1 /\ s[1] = e /\ w[e] \in Nat
    OBVIOUS
<1>2. f \in [0..1 -> Nat] /\ f[0] = 0 /\ f[1] = w[e]
    BY <1>1
<1> HIDE DEF f, s
<1>3. \A k \in 1..1 : k = 1
    OBVIOUS
<1>4. f[1] = f[1 - 1] + w[s[1]]
    BY <1>1, <1>2
<1>5. IsSum(f, s, w)
    BY <1>1, <1>2, <1>3, <1>4 DEF IsSum
<1>6. Total(s, w) = f[1]
    BY <1>1, <1>5, TotalIs
<1>7. QED BY <1>1, <1>2, <1>6 DEF s

LEMMA TotalWithLast ==
    ASSUME NEW M, NEW s \in Seq(M), NEW e \in M, NEW w \in [M -> Nat]
    PROVE  Append(s, e) \in Seq(M) /\ Total(Append(s, e), w) = Total(s, w) + w[e]
<1>1. Append(s, e) = s \o <<e>>
    OBVIOUS
<1>2. <<e>> \in Seq(M) /\ Total(<<e>>, w) = w[e]
    BY TotalOfOne
<1> DEFINE one == <<e>>
<1>3. one \in Seq(M)
    BY <1>2
<1>4. Total(s \o one, w) = Total(s, w) + Total(one, w) /\ s \o one \in Seq(M)
    <2> HIDE DEF one
    <2>1. QED BY <1>3, TotalOfBoth
<1>5. QED BY <1>1, <1>2, <1>4

LEMMA TotalOfTwo ==
    ASSUME NEW M, NEW d \in M, NEW e \in M, NEW w \in [M -> Nat]
    PROVE  <<d, e>> \in Seq(M) /\ Total(<<d, e>>, w) = w[d] + w[e]
<1> DEFINE one == <<d>>
<1>1. <<d, e>> = Append(one, e)
    OBVIOUS
<1>2. one \in Seq(M) /\ Total(one, w) = w[d]
    BY TotalOfOne
<1> HIDE DEF one
<1>3. Append(one, e) \in Seq(M) /\ Total(Append(one, e), w) = Total(one, w) + w[e]
    BY <1>2, TotalWithLast
<1>4. QED BY <1>1, <1>2, <1>3

\* Sequences put one behind the other: each of them is added to those before it.
Flattens(all, n, M, seqs) ==
    /\ all \in [0..n -> Seq(M)]
    /\ all[0] = << >> /\ \A k \in 1..n : all[k] = all[k - 1] \o seqs[k]
    /\ FlattenSeq(seqs) = all[n]

LEMMA FlattenIs ==
    ASSUME NEW M, NEW n \in Nat, NEW seqs \in [1..n -> Seq(M)]
    PROVE  \E all : Flattens(all, n, M, seqs)
<1> DEFINE step == [i \in 1..n |-> [v \in Seq(M) |-> v \o seqs[i]]]
           Flat(f) == f = [i \in 1..n |-> IF i = 1 THEN seqs[i] ELSE f[i - 1] \o seqs[i]]
<1>3. step \in [1..n -> [Seq(M) -> Seq(M)]] /\ \A i \in 1..n, v \in Seq(M) : step[i][v] = v \o seqs[i]
    OBVIOUS
<1> HIDE DEF step
<1>4. PICK all \in [0..n -> Seq(M)] : all[0] = << >> /\ \A i \in 1..n : all[i] = step[i][all[i - 1]]
    <2>1. << >> \in Seq(M) /\ step \in [1..n -> [Seq(M) -> Seq(M)]]
        BY <1>3
    <2>2. \E f : Iterates(f, n, Seq(M), << >>, step)
        BY <2>1, Iteration
    <2>3. QED BY <2>2 DEF Iterates
<1>5. \A i \in 1..n : all[i] \in Seq(M) /\ all[i] = all[i - 1] \o seqs[i] /\ all[i - 1] \in Seq(M)
    <2>1. \A i \in 1..n : i \in 0..n /\ i - 1 \in 0..n
        OBVIOUS
    <2>2. QED BY <1>3, <1>4, <2>1
<1>8. FlattenSeq(seqs) = all[n]
    <2>1. Len(seqs) = n
        OBVIOUS
    <2>2. CASE n = 0
        <3>1. seqs = << >>
            BY <2>2
        <3>2. QED BY <1>4, <2>1, <2>2, <3>1 DEF FlattenSeq
    <2>3. CASE n # 0
        <3> DEFINE one == [i \in 1..n |-> all[i]]
        <3>1. one = [i \in 1..n |-> IF i = 1 THEN seqs[i] ELSE one[i - 1] \o seqs[i]]
            <4>1. \A i \in 1..n : i # 1 => i - 1 \in 1..n
                OBVIOUS
            <4>2. all[1] = seqs[1]
                <5>1. 1 \in 1..n /\ 1 - 1 = 0
                    BY <2>3
                <5>2. all[1] = << >> \o seqs[1] /\ seqs[1] \in Seq(M)
                    BY <1>4, <1>5, <5>1
                <5>3. QED BY <5>2, ConcatEmptySeq
            <4>3. \A i \in 1..n : one[i] = IF i = 1 THEN seqs[i] ELSE one[i - 1] \o seqs[i]
                BY <1>5, <4>1, <4>2
            <4>4. QED BY <4>3
        <3> HIDE DEF one
        <3>2. Flat(one)
            BY <3>1
        <3>3. PICK f : f = (CHOOSE g : Flat(g)) /\ Flat(f)
            <4> HIDE DEF Flat
            <4>1. QED BY <3>2
        <3>4. FlattenSeq(seqs) = f[n]
            BY <2>1, <2>3, <3>3 DEF FlattenSeq
        <3>5. \A i \in 1..n : f[i] = IF i = 1 THEN seqs[i] ELSE f[i - 1] \o seqs[i]
            BY <3>3
        <3>6. \A i \in 1..n : one[i] = IF i = 1 THEN seqs[i] ELSE one[i - 1] \o seqs[i]
            BY <3>1
        <3> DEFINE U == {i \in 1..n : f[i] = one[i]}
        <3>7. 1..n \subseteq U
            <4>1. 1 \in U /\ 1 \in Nat
                BY <2>3, <3>5, <3>6
            <4>2. ASSUME NEW i \in 1..n - 1, i \in U PROVE i + 1 \in U
                <5>1. i + 1 \in 1..n /\ i + 1 # 1 /\ (i + 1) - 1 = i
                    OBVIOUS
                <5>2. f[i + 1] = f[i] \o seqs[i + 1] /\ one[i + 1] = one[i] \o seqs[i + 1]
                    BY <3>5, <3>6, <5>1
                <5>3. QED BY <4>2, <5>1, <5>2
            <4> HIDE DEF U
            <4>3. QED BY <4>1, <4>2, UpwardInduction
        <3>8. n \in 1..n
            BY <2>3
        <3>9. f[n] = one[n]
            BY <3>7, <3>8
        <3>10. QED BY <3>4, <3>8, <3>9 DEF one
    <2>4. QED BY <2>2, <2>3
<1>9. Flattens(all, n, M, seqs)
    BY <1>4, <1>5, <1>8 DEF Flattens
<1>10. QED BY <1>9

\* What a sequence has by w, it has by v of its place in s, but for what u takes away.
Outweighs(seqs, M, w, s, S, u, v) ==
    /\ s \in Seq(S) /\ u \in [S -> Nat] /\ v \in [S -> Nat]
    /\ seqs \in [1..Len(s) -> Seq(M)] /\ w \in [M -> Nat]
    /\ \A k \in 1..Len(s) : Total(seqs[k], w) + u[s[k]] = v[s[k]]

\* Where each sequence has what v gives, but for what u takes away, all of them together have.
LEMMA TotalOfAll ==
    ASSUME NEW seqs, NEW M, NEW w, NEW s, NEW S, NEW u, NEW v, Outweighs(seqs, M, w, s, S, u, v)
    PROVE  FlattenSeq(seqs) \in Seq(M) /\ Total(FlattenSeq(seqs), w) + Total(s, u) = Total(s, v)
<1> DEFINE n == Len(s)
<1>0. /\ s \in Seq(S) /\ u \in [S -> Nat] /\ v \in [S -> Nat]
      /\ seqs \in [1..n -> Seq(M)] /\ w \in [M -> Nat]
      /\ \A k \in 1..n : Total(seqs[k], w) + u[s[k]] = v[s[k]]
    BY DEF Outweighs
<1>1. n \in Nat /\ \A k \in 1..n : u[s[k]] \in Nat /\ v[s[k]] \in Nat
    BY <1>0
<1>2. PICK f : IsSum(f, s, u)
    BY <1>0, SumsExist
<1>3. PICK g : IsSum(g, s, v)
    BY <1>0, SumsExist
<1>4. /\ f \in [0..n -> Nat] /\ f[0] = 0 /\ \A k \in 1..n : f[k] = f[k - 1] + u[s[k]]
      /\ g \in [0..n -> Nat] /\ g[0] = 0 /\ \A k \in 1..n : g[k] = g[k - 1] + v[s[k]]
    BY <1>2, <1>3 DEF IsSum
<1>5. Total(s, u) = f[n] /\ Total(s, v) = g[n]
    BY <1>0, <1>2, <1>3, TotalIs
<1>6. \A k \in 1..n : Total(seqs[k], w) + u[s[k]] = v[s[k]] /\ seqs[k] \in Seq(M)
    BY <1>0
<1> HIDE DEF n
<1>7. PICK all \in [0..n -> Seq(M)] :
          /\ all[0] = << >> /\ \A k \in 1..n : all[k] = all[k - 1] \o seqs[k]
          /\ FlattenSeq(seqs) = all[n]
    <2>1. seqs \in [1..n -> Seq(M)]
        BY <1>0
    <2>2. \E all : Flattens(all, n, M, seqs)
        BY <1>1, <2>1, FlattenIs
    <2>3. QED BY <2>2 DEF Flattens
<1> DEFINE T == {k \in 0..n : Total(all[k], w) + f[k] = g[k]}
<1>8. 0 \in T
    <2> DEFINE quiet == << >>
    <2>1. quiet \in Seq(M) /\ \A k \in 1..Len(quiet) : w[quiet[k]] = 0
        OBVIOUS
    <2> HIDE DEF quiet
    <2>2. Total(quiet, w) = 0
        BY <1>0, <2>1, TotalOfNone
    <2>3. QED BY <1>1, <1>4, <1>7, <2>2 DEF quiet
<1>9. ASSUME NEW k \in 0..n - 1, k \in T PROVE k + 1 \in T
    <2>1. k + 1 \in 1..n /\ k + 1 \in 0..n /\ k \in 0..n /\ (k + 1) - 1 = k
        BY <1>1
    <2>2. all[k] \in Seq(M) /\ seqs[k + 1] \in Seq(M) /\ all[k + 1] = all[k] \o seqs[k + 1]
        BY <1>6, <1>7, <2>1
    <2>3. Total(all[k + 1], w) = Total(all[k], w) + Total(seqs[k + 1], w)
        BY <1>0, <2>2, TotalOfBoth
    <2>4. Total(all[k], w) \in Nat /\ Total(seqs[k + 1], w) \in Nat
        BY <1>0, <2>2, TotalTyped
    <2>5. f[k + 1] = f[k] + u[s[k + 1]] /\ g[k + 1] = g[k] + v[s[k + 1]]
        BY <1>4, <2>1
    <2>6. Total(seqs[k + 1], w) + u[s[k + 1]] = v[s[k + 1]] /\ f[k] \in Nat /\ g[k] \in Nat /\ u[s[k + 1]] \in Nat
        BY <1>1, <1>4, <1>6, <2>1
    <2>7. Total(all[k], w) + f[k] = g[k]
        BY <1>9
    <2>8. Total(all[k + 1], w) + f[k + 1] = g[k + 1]
        BY <2>3, <2>4, <2>5, <2>6, <2>7
    <2>9. QED BY <2>1, <2>8
<1>10. n \in T
    <2> HIDE DEF T
    <2>1. 0..n \subseteq T
        BY <1>1, <1>8, <1>9, UpwardInduction
    <2>2. QED BY <1>1, <2>1
<1>11. Total(all[n], w) + f[n] = g[n] /\ all[n] \in Seq(M)
    BY <1>1, <1>7, <1>10
<1>12. QED BY <1>5, <1>7, <1>11 DEF n

\* Where w counts some of the elements, the total is the number of the places where they are.
LEMMA TotalCounts ==
    ASSUME NEW M, NEW s \in Seq(M), NEW w \in [M -> {0, 1}]
    PROVE  Total(s, w) = Cardinality({k \in 1..Len(s) : w[s[k]] = 1})
<1> DEFINE n == Len(s)
           P(k) == {i \in 1..k : w[s[i]] = 1}
<1>1. n \in Nat /\ w \in [M -> Nat] /\ \A k \in 1..n : w[s[k]] \in {0, 1}
    OBVIOUS
<1>2. PICK f : IsSum(f, s, w)
    BY <1>1, SumsExist
<1>3. f \in [0..n -> Nat] /\ f[0] = 0 /\ \A k \in 1..n : f[k] = f[k - 1] + w[s[k]]
    BY <1>2 DEF IsSum
<1>4. Total(s, w) = f[n]
    BY <1>1, <1>2, TotalIs
<1> HIDE DEF n
<1> DEFINE T == {k \in 0..n : IsFiniteSet(P(k)) /\ f[k] = Cardinality(P(k))}
<1>5. 0 \in T
    <2>1. P(0) = {}
        OBVIOUS
    <2>2. QED BY <1>1, <1>3, <2>1, FS_EmptySet
<1>6. ASSUME NEW k \in 0..n - 1, k \in T PROVE k + 1 \in T
    <2>1. k + 1 \in 1..n /\ k + 1 \in 0..n /\ k \in 0..n /\ (k + 1) - 1 = k /\ k \in Nat
        BY <1>1
    <2>2. f[k + 1] = f[k] + w[s[k + 1]] /\ w[s[k + 1]] \in {0, 1}
        BY <1>1, <1>3, <2>1
    <2>3. IsFiniteSet(P(k)) /\ f[k] = Cardinality(P(k))
        BY <1>6
    <2>4. f[k] \in Nat
        BY <1>3, <2>1
    <2>5. CASE w[s[k + 1]] = 0
        <3>1. P(k + 1) = P(k)
            BY <2>1, <2>5
        <3> HIDE DEF P
        <3>2. IsFiniteSet(P(k + 1)) /\ f[k + 1] = Cardinality(P(k + 1))
            BY <2>2, <2>3, <2>4, <2>5, <3>1
        <3>3. QED BY <2>1, <3>2
    <2>6. CASE w[s[k + 1]] = 1
        <3>1. P(k + 1) = P(k) \union {k + 1} /\ k + 1 \notin P(k)
            BY <2>1, <2>6
        <3> HIDE DEF P
        <3>2. IsFiniteSet(P(k + 1)) /\ Cardinality(P(k + 1)) = Cardinality(P(k)) + 1
            BY <2>3, <3>1, FS_AddElement
        <3>3. f[k + 1] = Cardinality(P(k + 1))
            BY <2>2, <2>3, <2>6, <3>2
        <3>4. QED BY <2>1, <3>2, <3>3
    <2>7. QED BY <2>2, <2>5, <2>6
<1>7. n \in T
    <2> HIDE DEF T
    <2>1. 0..n \subseteq T
        BY <1>1, <1>5, <1>6, UpwardInduction
    <2>2. QED BY <1>1, <2>1
<1>8. QED BY <1>4, <1>7 DEF n

-----------------------------------------------------------------------------
(* The swarm *)

Marks == {"COMPOSE", "error"}
MessageTypes == {"DIRECTIVE", "QUERY", "DELEGATION", "RESULT", "SYNTHESIS", "VALIDATION", "FEEDBACK"}
Payloads == [task : Tasks, marks : SUBSET Marks]
Mails == [from : Agents \union {"user"}, to : Agents, type : MessageTypes, payload : Payloads]

(* How often a task will have been answered because of one message that is under way.  *)
Owed(m, t) ==
    CASE m.payload.task # t -> 0
      [] m.payload.task = t /\ m.to = "orchestrator" ->
            IF m.type = "DIRECTIVE" THEN IF "COMPOSE" \in m.payload.marks /\ "error" \notin m.payload.marks THEN 2 ELSE 1
            ELSE IF m.type = "RESULT" THEN 1 ELSE 0
      [] m.payload.task = t /\ m.to = "analyst" -> IF m.type \in {"QUERY", "DELEGATION"} THEN 1 ELSE 0
      [] m.payload.task = t /\ m.to = "planner" ->
            IF m.type \notin {"DIRECTIVE", "DELEGATION"} THEN 0
            ELSE IF "COMPOSE" \in m.payload.marks /\ "error" \in m.payload.marks THEN 1 ELSE 2
      [] m.payload.task = t /\ m.to = "executor" ->
            IF m.type = "DIRECTIVE" /\ "error" \notin m.payload.marks THEN 1 ELSE 0
      [] m.payload.task = t /\ m.to = "validator" ->
            IF m.type = "VALIDATION" /\ "error" \notin m.payload.marks THEN 1 ELSE 0
      [] m.payload.task = t /\ m.to = "synthesizer" -> IF m.type = "SYNTHESIS" THEN 1 ELSE 0

Owing(t) == [m \in Mails |-> Owed(m, t)]
Answering(t) == [m \in Mails |-> IF m.to = "orchestrator" /\ IsAnswer(m, t) THEN 1 ELSE 0]

LEMMA AgentsAre ==
    /\ Agents = {"orchestrator", "analyst", "planner", "executor", "validator", "synthesizer"}
    /\ AgentOrder \in Seq(Agents) /\ Len(AgentOrder) = 6
    /\ AgentOrder[1] = "orchestrator" /\ AgentOrder[2] = "analyst" /\ AgentOrder[3] = "planner"
    /\ AgentOrder[4] = "executor" /\ AgentOrder[5] = "validator" /\ AgentOrder[6] = "synthesizer"
<1>1. /\ Len(AgentOrder) = 6 /\ DOMAIN AgentOrder = 1..6
      /\ AgentOrder[1] = "orchestrator" /\ AgentOrder[2] = "analyst" /\ AgentOrder[3] = "planner"
      /\ AgentOrder[4] = "executor" /\ AgentOrder[5] = "validator" /\ AgentOrder[6] = "synthesizer"
    BY DEF AgentOrder
<1>2. 1..6 = {1, 2, 3, 4, 5, 6}
    OBVIOUS
<1>3. Agents = {AgentOrder[k] : k \in {1, 2, 3, 4, 5, 6}}
    BY <1>1, <1>2, Zenon DEF Agents, ToSet
<1>4. Agents = {"orchestrator", "analyst", "planner", "executor", "validator", "synthesizer"}
    BY <1>1, <1>3
<1>5. AgentOrder \in Seq(Agents)
    BY <1>4 DEF AgentOrder
<1>6. QED BY <1>1, <1>4, <1>5

LEMMA MailFields ==
    ASSUME NEW m \in Mails
    PROVE  /\ m.from \in Agents \union {"user"} /\ m.to \in Agents /\ m.type \in MessageTypes
           /\ m.payload \in Payloads /\ m.payload.task \in Tasks /\ m.payload.marks \subseteq Marks
BY DEF Mails, Payloads

LEMMA OwedIs == ASSUME NEW m \in Mails, NEW t PROVE Owed(m, t) \in 0..2 /\ Owed(m, t) \in Nat
<1>1. m.to \in {"orchestrator", "analyst", "planner", "executor", "validator", "synthesizer"}
    BY MailFields, AgentsAre
<1>2. QED BY <1>1 DEF Owed

LEMMA OwingTyped ==
    ASSUME NEW t
    PROVE  /\ Owing(t) \in [Mails -> Nat] /\ Answering(t) \in [Mails -> {0, 1}] /\ Answering(t) \in [Mails -> Nat]
           /\ \A m \in Mails : Owing(t)[m] = Owed(m, t)
           /\ \A m \in Mails : Answering(t)[m] = IF m.to = "orchestrator" /\ IsAnswer(m, t) THEN 1 ELSE 0
<1>1. \A m \in Mails : Owed(m, t) \in Nat
    BY OwedIs
<1>2. Owing(t) \in [Mails -> Nat]
    BY <1>1 DEF Owing
<1>3. \A m \in Mails : Owing(t)[m] = Owed(m, t)
    BY DEF Owing
<1>4. \A m \in Mails : (IF m.to = "orchestrator" /\ IsAnswer(m, t) THEN 1 ELSE 0) \in {0, 1}
    OBVIOUS
<1>5. Answering(t) \in [Mails -> {0, 1}]
    BY <1>4 DEF Answering
<1>6. Answering(t) \in [Mails -> Nat]
    BY <1>5
<1>7. QED BY <1>2, <1>3, <1>5, <1>6 DEF Answering

\* What is said is a message, and owes what it owes.
LEMMA Says ==
    ASSUME NEW from \in Agents, NEW to \in Agents, NEW type \in MessageTypes, NEW p \in Payloads
    PROVE  LET m == Message(from, to, type, p)
           IN m \in Mails /\ m.from = from /\ m.to = to /\ m.type = type /\ m.payload = p
BY DEF Message, Mails

LEMMA SaysNothing == << >> \in Seq(Mails) /\ \A t : Total(<< >>, Owing(t)) = 0
<1> DEFINE quiet == << >>
<1>1. quiet \in Seq(Mails) /\ Len(quiet) = 0 /\ \A k \in 1..0 : FALSE
    OBVIOUS
<1> HIDE DEF quiet
<1>2. ASSUME NEW t PROVE Total(quiet, Owing(t)) = 0
    <2>1. \A k \in 1..Len(quiet) : Owing(t)[quiet[k]] = 0
        BY <1>1
    <2>2. QED BY <1>1, <2>1, OwingTyped, TotalOfNone
<1>3. QED BY <1>1, <1>2 DEF quiet

LEMMA SaysOne ==
    ASSUME NEW m \in Mails, NEW t
    PROVE  <<m>> \in Seq(Mails) /\ Total(<<m>>, Owing(t)) = Owed(m, t)
<1>1. Owing(t) \in [Mails -> Nat] /\ Owing(t)[m] = Owed(m, t)
    BY OwingTyped
<1>2. QED BY <1>1, TotalOfOne

LEMMA SaysTwo ==
    ASSUME NEW m \in Mails, NEW n \in Mails, NEW t
    PROVE  <<m, n>> \in Seq(Mails) /\ Total(<<m, n>>, Owing(t)) = Owed(m, t) + Owed(n, t)
<1>1. Owing(t) \in [Mails -> Nat] /\ Owing(t)[m] = Owed(m, t) /\ Owing(t)[n] = Owed(n, t)
    BY OwingTyped
<1>2. QED BY <1>1, TotalOfTwo

LEMMA TaggedIs ==
    ASSUME NEW p \in Payloads
    PROVE  /\ Tagged(p) \in Payloads /\ Tagged(p).task = p.task /\ "COMPOSE" \in Tagged(p).marks
           /\ "error" \in Tagged(p).marks <=> "error" \in p.marks
BY DEF Tagged, Payload, Payloads, Marks

(* An agent passes on what a message owes; the orchestrator keeps the answers.          *)
Passes(out, m, t) ==
    out \in Seq(Mails) /\ Total(out, Owing(t)) + (IF m.to = "orchestrator" /\ IsAnswer(m, t) THEN 1 ELSE 0) = Owed(m, t)

LEMMA OrchestratorPasses ==
    ASSUME NEW m \in Mails, m.to = "orchestrator", NEW t PROVE Passes(Orchestrator(m).out, m, t)
<1>1. m.payload \in Payloads /\ {"orchestrator", "analyst", "planner", "synthesizer"} \subseteq Agents
    BY MailFields, AgentsAre
<1> DEFINE p == m.payload
           d == Message("orchestrator", "planner", "DELEGATION", Tagged(p))
           e == Message("orchestrator", "analyst", "DELEGATION", p)
           f == Message("orchestrator", "synthesizer", "SYNTHESIS", p)
<1>2. /\ Tagged(p) \in Payloads /\ Tagged(p).task = p.task /\ "COMPOSE" \in Tagged(p).marks
      /\ "error" \in Tagged(p).marks <=> "error" \in p.marks
    BY <1>1, TaggedIs
<1>3. d \in Mails /\ d.to = "planner" /\ d.type = "DELEGATION" /\ d.payload = Tagged(p)
    BY <1>1, <1>2, Says DEF MessageTypes
<1>4. e \in Mails /\ e.to = "analyst" /\ e.type = "DELEGATION" /\ e.payload = p
    BY <1>1, Says DEF MessageTypes
<1>5. f \in Mails /\ f.to = "synthesizer" /\ f.type = "SYNTHESIS" /\ f.payload = p
    BY <1>1, Says DEF MessageTypes
<1>6. CASE m.type = "DIRECTIVE"
    <2>1. CASE "COMPOSE" \in p.marks
        <3>1. Orchestrator(m).out = <<d>>
            BY <1>6, <2>1 DEF Orchestrator
        <3> HIDE DEF d
        <3>2. <<d>> \in Seq(Mails) /\ Total(<<d>>, Owing(t)) = Owed(d, t)
            BY <1>3, SaysOne
        <3>3. Owed(d, t) = Owed(m, t)
            BY <1>2, <1>3, <1>6, <2>1 DEF Owed
        <3>4. Owed(m, t) \in Nat
            BY OwedIs
        <3>5. QED BY <1>6, <3>1, <3>2, <3>3, <3>4 DEF Passes, IsAnswer
    <2>2. CASE "COMPOSE" \notin p.marks
        <3>1. Orchestrator(m).out = <<e>>
            BY <1>6, <2>2 DEF Orchestrator
        <3> HIDE DEF e
        <3>2. <<e>> \in Seq(Mails) /\ Total(<<e>>, Owing(t)) = Owed(e, t)
            BY <1>4, SaysOne
        <3>3. Owed(e, t) = Owed(m, t)
            BY <1>4, <1>6, <2>2 DEF Owed
        <3>4. Owed(m, t) \in Nat
            BY OwedIs
        <3>5. QED BY <1>6, <3>1, <3>2, <3>3, <3>4 DEF Passes, IsAnswer
    <2>3. QED BY <2>1, <2>2
<1>7. CASE m.type = "RESULT" /\ m.from = "synthesizer"
    <2>1. Orchestrator(m).out = << >>
        BY <1>7 DEF Orchestrator
    <2>2. Owed(m, t) = IF p.task = t THEN 1 ELSE 0
        BY <1>7 DEF Owed
    <2>3. IsAnswer(m, t) <=> p.task = t
        BY <1>7 DEF IsAnswer
    <2>4. QED BY <2>1, <2>2, <2>3, SaysNothing DEF Passes
<1>8. CASE m.type = "RESULT" /\ m.from # "synthesizer"
    <2>1. Orchestrator(m).out = <<f>>
        BY <1>8 DEF Orchestrator
    <2> HIDE DEF f
    <2>2. <<f>> \in Seq(Mails) /\ Total(<<f>>, Owing(t)) = Owed(f, t)
        BY <1>5, SaysOne
    <2>3. Owed(f, t) = Owed(m, t)
        BY <1>5, <1>8 DEF Owed
    <2>4. Owed(m, t) \in Nat
        BY OwedIs
    <2>5. QED BY <1>8, <2>1, <2>2, <2>3, <2>4 DEF Passes, IsAnswer
<1>9. CASE m.type \notin {"DIRECTIVE", "RESULT"}
    <2>1. Orchestrator(m).out = << >>
        BY <1>9 DEF Orchestrator, Silent
    <2>2. Owed(m, t) = 0
        BY <1>9 DEF Owed
    <2>3. ~IsAnswer(m, t)
        BY <1>9 DEF IsAnswer
    <2>4. QED BY <2>1, <2>2, <2>3, SaysNothing DEF Passes
<1>10. QED BY <1>6, <1>7, <1>8, <1>9

\* One message in, at most one out.
LEMMA OnePasses ==
    ASSUME NEW m \in Mails, m.to # "orchestrator", NEW t, NEW d \in Mails, Owed(d, t) = Owed(m, t)
    PROVE  Passes(<<d>>, m, t)
<1>1. <<d>> \in Seq(Mails) /\ Total(<<d>>, Owing(t)) = Owed(d, t)
    BY SaysOne
<1>2. Owed(m, t) \in Nat
    BY OwedIs
<1>3. QED BY <1>1, <1>2 DEF Passes

LEMMA NonePasses ==
    ASSUME NEW m \in Mails, m.to # "orchestrator", NEW t, Owed(m, t) = 0 PROVE Passes(Silent.out, m, t)
BY SaysNothing DEF Passes, Silent

LEMMA AnalystPasses ==
    ASSUME NEW m \in Mails, m.to = "analyst", NEW t PROVE Passes(Analyst(m).out, m, t)
<1> DEFINE p == Payload(m.payload.task, {"COMPOSE"})
           d == Message("analyst", "orchestrator", "RESULT", p)
<1>1. p \in Payloads /\ p.task = m.payload.task
    BY MailFields DEF Payload, Payloads, Marks
<1>2. d \in Mails /\ d.to = "orchestrator" /\ d.type = "RESULT" /\ d.payload = p
    BY <1>1, AgentsAre, Says DEF MessageTypes
<1>3. CASE m.type \in {"QUERY", "DELEGATION"}
    <2>1. Analyst(m).out = <<d>>
        BY <1>3 DEF Analyst
    <2> HIDE DEF d, p
    <2>2. Owed(d, t) = Owed(m, t)
        BY <1>1, <1>2, <1>3 DEF Owed
    <2>3. QED BY <1>2, <2>1, <2>2, OnePasses
<1>4. CASE m.type \notin {"QUERY", "DELEGATION"}
    <2>1. Analyst(m) = Silent /\ Owed(m, t) = 0
        BY <1>4 DEF Analyst, Owed
    <2>2. QED BY <2>1, NonePasses
<1>5. QED BY <1>3, <1>4

LEMMA PlannerPasses ==
    ASSUME NEW m \in Mails, m.to = "planner", NEW t PROVE Passes(Planner(m).out, m, t)
<1> DEFINE p == PlanOf(m)
           d == Message("planner", "executor", "DIRECTIVE", p)
           e == Message("planner", "orchestrator", "RESULT", p)
<1>1. /\ p \in Payloads /\ p.task = m.payload.task
      /\ "error" \in p.marks <=> "COMPOSE" \in m.payload.marks /\ "error" \in m.payload.marks
    BY MailFields DEF PlanOf, Payload, Payloads, Marks
<1> HIDE DEF p
<1>2. /\ d \in Mails /\ d.to = "executor" /\ d.type = "DIRECTIVE" /\ d.payload = p
      /\ e \in Mails /\ e.to = "orchestrator" /\ e.type = "RESULT" /\ e.payload = p
    BY <1>1, AgentsAre, Says DEF MessageTypes
<1>3. CASE m.type \in {"DIRECTIVE", "DELEGATION"}
    <2>1. Planner(m).out = <<d, e>>
        BY <1>3 DEF Planner, p
    <2> HIDE DEF d, e
    <2>2. Owed(d, t) + Owed(e, t) = Owed(m, t)
        BY <1>1, <1>2, <1>3 DEF Owed
    <2>3. <<d, e>> \in Seq(Mails) /\ Total(<<d, e>>, Owing(t)) = Owed(d, t) + Owed(e, t)
        BY <1>2, SaysTwo
    <2>4. Owed(m, t) \in Nat
        BY OwedIs
    <2>5. QED BY <2>1, <2>2, <2>3, <2>4 DEF Passes
<1>4. CASE m.type \notin {"DIRECTIVE", "DELEGATION"}
    <2>1. Planner(m) = Silent /\ Owed(m, t) = 0
        BY <1>4 DEF Planner, Owed
    <2>2. QED BY <2>1, NonePasses
<1>5. QED BY <1>3, <1>4

LEMMA ExecutorPasses ==
    ASSUME NEW m \in Mails, m.to = "executor", NEW t PROVE Passes(Executor(m).out, m, t)
<1> DEFINE p == Tagged(m.payload)
           d == Message("executor", "validator", "VALIDATION", p)
<1>1. p \in Payloads /\ p.task = m.payload.task /\ ("error" \in p.marks <=> "error" \in m.payload.marks)
    BY MailFields, TaggedIs
<1>2. d \in Mails /\ d.to = "validator" /\ d.type = "VALIDATION" /\ d.payload = p
    BY <1>1, AgentsAre, Says DEF MessageTypes
<1>3. CASE m.type = "DIRECTIVE"
    <2>1. Executor(m).out = <<d>>
        BY <1>3 DEF Executor
    <2> HIDE DEF d, p
    <2>2. Owed(d, t) = Owed(m, t)
        BY <1>1, <1>2, <1>3 DEF Owed
    <2>3. QED BY <1>2, <2>1, <2>2, OnePasses
<1>4. CASE m.type # "DIRECTIVE"
    <2>1. Executor(m) = Silent /\ Owed(m, t) = 0
        BY <1>4 DEF Executor, Owed
    <2>2. QED BY <2>1, NonePasses
<1>5. QED BY <1>3, <1>4

LEMMA ValidatorPasses ==
    ASSUME NEW m \in Mails, m.to = "validator", NEW t PROVE Passes(Validator(m).out, m, t)
<1> DEFINE p == m.payload
           d == Message("validator", "executor", "FEEDBACK", p)
           e == Message("validator", "synthesizer", "SYNTHESIS", p)
<1>1. p \in Payloads
    BY MailFields
<1>2. /\ d \in Mails /\ d.to = "executor" /\ d.type = "FEEDBACK" /\ d.payload = p
      /\ e \in Mails /\ e.to = "synthesizer" /\ e.type = "SYNTHESIS" /\ e.payload = p
    <2>1. /\ {"validator", "executor", "synthesizer"} \subseteq Agents
          /\ {"FEEDBACK", "SYNTHESIS"} \subseteq MessageTypes
        BY AgentsAre DEF MessageTypes
    <2>2. QED BY <1>1, <2>1, Says
<1>3. CASE m.type = "VALIDATION" /\ "error" \in p.marks
    <2>1. Validator(m).out = <<d>>
        BY <1>3 DEF Validator
    <2> HIDE DEF d
    <2>2. Owed(d, t) = Owed(m, t)
        BY <1>2, <1>3 DEF Owed
    <2>3. QED BY <1>2, <2>1, <2>2, OnePasses
<1>4. CASE m.type = "VALIDATION" /\ "error" \notin p.marks
    <2>1. Validator(m).out = <<e>>
        BY <1>4 DEF Validator
    <2> HIDE DEF e
    <2>2. Owed(e, t) = Owed(m, t)
        BY <1>2, <1>4 DEF Owed
    <2>3. QED BY <1>2, <2>1, <2>2, OnePasses
<1>5. CASE m.type # "VALIDATION"
    <2>1. Validator(m) = Silent /\ Owed(m, t) = 0
        BY <1>5 DEF Validator, Owed
    <2>2. QED BY <2>1, NonePasses
<1>6. QED BY <1>3, <1>4, <1>5

LEMMA SynthesizerPasses ==
    ASSUME NEW m \in Mails, m.to = "synthesizer", NEW t PROVE Passes(Synthesizer(m).out, m, t)
<1> DEFINE p == Tagged(m.payload)
           d == Message("synthesizer", "orchestrator", "RESULT", p)
<1>1. p \in Payloads /\ p.task = m.payload.task
    BY MailFields, TaggedIs
<1>2. d \in Mails /\ d.to = "orchestrator" /\ d.type = "RESULT" /\ d.payload = p
    BY <1>1, AgentsAre, Says DEF MessageTypes
<1>3. CASE m.type = "SYNTHESIS"
    <2>1. Synthesizer(m).out = <<d>>
        BY <1>3 DEF Synthesizer
    <2> HIDE DEF d, p
    <2>2. Owed(d, t) = Owed(m, t)
        BY <1>1, <1>2, <1>3 DEF Owed
    <2>3. QED BY <1>2, <2>1, <2>2, OnePasses
<1>4. CASE m.type # "SYNTHESIS"
    <2>1. Synthesizer(m) = Silent /\ Owed(m, t) = 0
        BY <1>4 DEF Synthesizer, Owed
    <2>2. QED BY <2>1, NonePasses
<1>5. QED BY <1>3, <1>4

LEMMA AgentPasses ==
    ASSUME NEW a \in Agents, NEW m \in Mails, m.to = a, NEW t PROVE Passes(ProcessMessage(a, m).out, m, t)
<1>1. a \in {"orchestrator", "analyst", "planner", "executor", "validator", "synthesizer"}
    BY AgentsAre
<1>2. CASE a = "orchestrator"
    BY <1>2, OrchestratorPasses DEF ProcessMessage
<1>3. CASE a = "analyst"
    BY <1>3, AnalystPasses DEF ProcessMessage
<1>4. CASE a = "planner"
    BY <1>4, PlannerPasses DEF ProcessMessage
<1>5. CASE a = "executor"
    BY <1>5, ExecutorPasses DEF ProcessMessage
<1>6. CASE a = "validator"
    BY <1>6, ValidatorPasses DEF ProcessMessage
<1>7. CASE a = "synthesizer"
    BY <1>7, SynthesizerPasses DEF ProcessMessage
<1>8. QED BY <1>1, <1>2, <1>3, <1>4, <1>5, <1>6, <1>7

LEMMA SixTotal ==
    ASSUME NEW g \in [Agents -> Nat]
    PROVE  Total(AgentOrder, g) = g["orchestrator"] + g["analyst"] + g["planner"]
                                  + g["executor"] + g["validator"] + g["synthesizer"]
<1>1. PICK f : IsSum(f, AgentOrder, g)
    BY AgentsAre, SumsExist
<1>2. f \in [0..6 -> Nat] /\ f[0] = 0 /\ \A k \in 1..6 : f[k] = f[k - 1] + g[AgentOrder[k]]
    BY <1>1, AgentsAre DEF IsSum
<1>3. Total(AgentOrder, g) = f[6]
    <2>1. AgentOrder \in Seq(Agents) /\ Len(AgentOrder) = 6
        BY AgentsAre
    <2>2. Total(AgentOrder, g) = f[Len(AgentOrder)]
        BY <1>1, <2>1, TotalIs
    <2>3. QED BY <2>1, <2>2
<1>4. /\ f[1] = f[0] + g["orchestrator"] /\ f[2] = f[1] + g["analyst"] /\ f[3] = f[2] + g["planner"]
      /\ f[4] = f[3] + g["executor"] /\ f[5] = f[4] + g["validator"] /\ f[6] = f[5] + g["synthesizer"]
    <2>1. 1 - 1 = 0 /\ 2 - 1 = 1 /\ 3 - 1 = 2 /\ 4 - 1 = 3 /\ 5 - 1 = 4 /\ 6 - 1 = 5
        OBVIOUS
    <2>2. 1 \in 1..6 /\ 2 \in 1..6 /\ 3 \in 1..6 /\ 4 \in 1..6 /\ 5 \in 1..6 /\ 6 \in 1..6
        OBVIOUS
    <2>3. QED BY <1>2, <2>1, <2>2, AgentsAre
<1>5. /\ g["orchestrator"] \in Nat /\ g["analyst"] \in Nat /\ g["planner"] \in Nat
      /\ g["executor"] \in Nat /\ g["validator"] \in Nat /\ g["synthesizer"] \in Nat
    BY AgentsAre
<1>6. QED BY <1>2, <1>3, <1>4, <1>5

(* Every message lies in the inbox of its receiver.                                     *)
Boxes == {box \in [Agents -> Seq(Mails)] : \A a \in Agents : \A k \in 1..Len(box[a]) : box[a][k].to = a}

(* How often a task will have been answered because of what is under way.               *)
UnderWay(box, t) == Total(AgentOrder, [a \in Agents |-> Total(box[a], Owing(t))])

LEMMA BoxTotals ==
    ASSUME NEW box \in Boxes, NEW t
    PROVE  /\ [a \in Agents |-> Total(box[a], Owing(t))] \in [Agents -> Nat]
           /\ \A a \in Agents : Total(box[a], Owing(t)) \in Nat
<1>1. ASSUME NEW a \in Agents PROVE Total(box[a], Owing(t)) \in Nat
    <2>1. box[a] \in Seq(Mails)
        BY DEF Boxes
    <2>2. QED BY <2>1, OwingTyped, TotalTyped
<1>2. QED BY <1>1

LEMMA UnderWayOf ==
    ASSUME NEW box \in Boxes, NEW t
    PROVE  UnderWay(box, t) =
             Total(box["orchestrator"], Owing(t)) + Total(box["analyst"], Owing(t)) + Total(box["planner"], Owing(t))
             + Total(box["executor"], Owing(t)) + Total(box["validator"], Owing(t)) + Total(box["synthesizer"], Owing(t))
<1> DEFINE g == [a \in Agents |-> Total(box[a], Owing(t))]
<1>1. g \in [Agents -> Nat] /\ \A a \in Agents : g[a] = Total(box[a], Owing(t))
    BY BoxTotals
<1>2. UnderWay(box, t) = Total(AgentOrder, g)
    BY DEF UnderWay
<1> HIDE DEF g
<1>3. UnderWay(box, t) = g["orchestrator"] + g["analyst"] + g["planner"]
                         + g["executor"] + g["validator"] + g["synthesizer"]
    BY <1>1, <1>2, SixTotal
<1>4. QED BY <1>1, <1>3, AgentsAre

LEMMA NothingUnderWay ==
    ASSUME NEW box \in Boxes, \A a \in Agents : box[a] = << >>, NEW t
    PROVE  UnderWay(box, t) = 0
<1>1. \A a \in Agents : Total(box[a], Owing(t)) = 0
    BY SaysNothing
<1>2. QED BY <1>1, AgentsAre, UnderWayOf

\* A message that is received is under way.
LEMMA ReceivesOne ==
    ASSUME NEW box \in Boxes, NEW m \in Mails
    PROVE  LET more == [box EXCEPT ![m.to] = Append(@, m)]
           IN more \in Boxes /\ \A t : UnderWay(more, t) = UnderWay(box, t) + Owed(m, t)
<1> DEFINE b == m.to
           more == [box EXCEPT ![b] = Append(@, m)]
<1>1. b \in Agents /\ box \in [Agents -> Seq(Mails)]
    BY MailFields DEF Boxes
<1>2. /\ \A a \in Agents : more[a] = IF a = b THEN Append(box[a], m) ELSE box[a]
      /\ DOMAIN more = Agents
    BY <1>1
<1>3. ASSUME NEW a \in Agents
      PROVE  more[a] \in Seq(Mails) /\ \A k \in 1..Len(more[a]) : more[a][k].to = a
    <2>1. box[a] \in Seq(Mails) /\ \A k \in 1..Len(box[a]) : box[a][k].to = a
        BY DEF Boxes
    <2>2. CASE a = b
        <3> DEFINE old == box[a]
        <3>1. old \in Seq(Mails) /\ more[a] = Append(old, m) /\ \A k \in 1..Len(old) : old[k].to = a
            BY <1>2, <2>1, <2>2
        <3> HIDE DEF old, more
        <3>2. /\ Append(old, m) \in Seq(Mails) /\ Len(Append(old, m)) = Len(old) + 1 /\ Len(old) \in Nat
              /\ \A k \in 1..Len(old) + 1 : Append(old, m)[k] = IF k <= Len(old) THEN old[k] ELSE m
            BY <3>1
        <3>3. ASSUME NEW k \in 1..Len(old) + 1 PROVE Append(old, m)[k].to = a
            <4>1. CASE k <= Len(old)
                <5>1. k \in 1..Len(old)
                    BY <3>2, <4>1
                <5>2. QED BY <3>1, <3>2, <4>1, <5>1
            <4>2. CASE ~(k <= Len(old))
                BY <2>2, <3>2, <4>2
            <4>3. QED BY <4>1, <4>2
        <3>4. QED BY <3>1, <3>2, <3>3
    <2>3. CASE a # b
        BY <1>2, <2>1, <2>3
    <2>4. QED BY <2>2, <2>3
<1> HIDE DEF more
<1>4. more \in Boxes
    <2>1. more = [a \in Agents |-> more[a]]
        BY <1>2 DEF more
    <2>2. more \in [Agents -> Seq(Mails)]
        BY <1>3, <2>1
    <2>3. QED BY <1>3, <2>2 DEF Boxes
<1>5. ASSUME NEW t PROVE UnderWay(more, t) = UnderWay(box, t) + Owed(m, t)
    <2> DEFINE f == [a \in Agents |-> Total(box[a], Owing(t))]
               g == [a \in Agents |-> Total(more[a], Owing(t))]
               w == Owed(m, t)
    <2>1. f \in [Agents -> Nat] /\ g \in [Agents -> Nat]
        BY <1>4, BoxTotals
    <2>2. w \in Nat
        BY OwedIs
    <2>3. \A a \in Agents : a # b => g[a] = f[a]
        BY <1>2
    <2>4. g[b] = f[b] + w
        <3>1. box[b] \in Seq(Mails) /\ more[b] = Append(box[b], m)
            BY <1>1, <1>2
        <3>2. Owing(t) \in [Mails -> Nat] /\ Owing(t)[m] = w
            BY OwingTyped
        <3>3. Total(Append(box[b], m), Owing(t)) = Total(box[b], Owing(t)) + w
            BY <3>1, <3>2, TotalWithLast
        <3>4. QED BY <1>1, <3>1, <3>3
    <2>5. UnderWay(box, t) = Total(AgentOrder, f) /\ UnderWay(more, t) = Total(AgentOrder, g)
        BY DEF UnderWay
    <2> HIDE DEF f, g, w, b
    <2>6. Total(AgentOrder, f) = f["orchestrator"] + f["analyst"] + f["planner"]
                                 + f["executor"] + f["validator"] + f["synthesizer"]
        BY <2>1, SixTotal
    <2>7. Total(AgentOrder, g) = g["orchestrator"] + g["analyst"] + g["planner"]
                                 + g["executor"] + g["validator"] + g["synthesizer"]
        BY <2>1, SixTotal
    <2>8. /\ f["orchestrator"] \in Nat /\ f["analyst"] \in Nat /\ f["planner"] \in Nat
          /\ f["executor"] \in Nat /\ f["validator"] \in Nat /\ f["synthesizer"] \in Nat
        BY <2>1, AgentsAre
    <2>a. /\ "orchestrator" \in Agents /\ "analyst" \in Agents /\ "planner" \in Agents
          /\ "executor" \in Agents /\ "validator" \in Agents /\ "synthesizer" \in Agents
        BY AgentsAre
    <2>b. /\ "orchestrator" # b => g["orchestrator"] = f["orchestrator"]
          /\ "analyst" # b => g["analyst"] = f["analyst"]
          /\ "planner" # b => g["planner"] = f["planner"]
          /\ "executor" # b => g["executor"] = f["executor"]
          /\ "validator" # b => g["validator"] = f["validator"]
          /\ "synthesizer" # b => g["synthesizer"] = f["synthesizer"]
        BY <2>3, <2>a
    <2>9. Total(AgentOrder, g) = Total(AgentOrder, f) + w
        <3>1. b \in {"orchestrator", "analyst", "planner", "executor", "validator", "synthesizer"}
            BY <1>1, AgentsAre
        <3>2. CASE b = "orchestrator"
            BY <2>2, <2>4, <2>6, <2>7, <2>8, <2>b, <3>2
        <3>3. CASE b = "analyst"
            BY <2>2, <2>4, <2>6, <2>7, <2>8, <2>b, <3>3
        <3>4. CASE b = "planner"
            BY <2>2, <2>4, <2>6, <2>7, <2>8, <2>b, <3>4
        <3>5. CASE b = "executor"
            BY <2>2, <2>4, <2>6, <2>7, <2>8, <2>b, <3>5
        <3>6. CASE b = "validator"
            BY <2>2, <2>4, <2>6, <2>7, <2>8, <2>b, <3>6
        <3>7. CASE b = "synthesizer"
            BY <2>2, <2>4, <2>6, <2>7, <2>8, <2>b, <3>7
        <3>8. QED BY <3>1, <3>2, <3>3, <3>4, <3>5, <3>6, <3>7
    <2>10. QED BY <2>5, <2>9 DEF w
<1>6. QED BY <1>4, <1>5 DEF more, b

\* An agent passes on what its inbox owes.
LEMMA RepliesPass ==
    ASSUME inbox \in Boxes, NEW a \in Agents, NEW t
    PROVE  /\ Replies(a) \in Seq(Mails)
           /\ Total(Replies(a), Owing(t)) + Total(inbox[a], Answering(t)) = Total(inbox[a], Owing(t))
<1> DEFINE s == inbox[a]
           seqs == [k \in DOMAIN s |-> ProcessMessage(a, s[k]).out]
<1>1. s \in Seq(Mails) /\ DOMAIN s = 1..Len(s) /\ \A k \in 1..Len(s) : s[k] \in Mails /\ s[k].to = a
    BY DEF Boxes
<1>2. ASSUME NEW k \in 1..Len(s)
      PROVE  seqs[k] \in Seq(Mails) /\ Total(seqs[k], Owing(t)) + Answering(t)[s[k]] = Owing(t)[s[k]]
    <2>1. seqs[k] = ProcessMessage(a, s[k]).out /\ s[k] \in Mails /\ s[k].to = a
        BY <1>1
    <2>2. Passes(seqs[k], s[k], t)
        BY <2>1, AgentPasses
    <2> HIDE DEF seqs, s
    <2>3. QED BY <2>1, <2>2, OwingTyped DEF Passes
<1>3. seqs \in [1..Len(s) -> Seq(Mails)] /\ Replies(a) = FlattenSeq(seqs)
    BY <1>1, <1>2 DEF Replies
<1> HIDE DEF s, seqs
<1>4. FlattenSeq(seqs) \in Seq(Mails)
      /\ Total(FlattenSeq(seqs), Owing(t)) + Total(s, Answering(t)) = Total(s, Owing(t))
    <2>1. s \in Seq(Mails) /\ seqs \in [1..Len(s) -> Seq(Mails)]
        BY <1>1, <1>3
    <2>2. Owing(t) \in [Mails -> Nat] /\ Answering(t) \in [Mails -> Nat]
        BY OwingTyped
    <2>3. Outweighs(seqs, Mails, Owing(t), s, Mails, Answering(t), Owing(t))
        BY <1>2, <2>1, <2>2, Zenon DEF Outweighs
    <2>4. QED BY <2>3, TotalOfAll, SMTT(20)
<1>5. QED BY <1>3, <1>4 DEF s

\* Only the orchestrator has answers, as many as AnsweredBy counts.
LEMMA AnswersOf ==
    ASSUME inbox \in Boxes, NEW t
    PROVE  /\ [a \in Agents |-> Total(inbox[a], Answering(t))] \in [Agents -> Nat]
           /\ Total(AgentOrder, [a \in Agents |-> Total(inbox[a], Answering(t))]) = AnsweredBy(t)
<1> DEFINE u == [a \in Agents |-> Total(inbox[a], Answering(t))]
<1>1. \A a \in Agents : inbox[a] \in Seq(Mails) /\ \A k \in 1..Len(inbox[a]) : inbox[a][k] \in Mails /\ inbox[a][k].to = a
    BY DEF Boxes
<1>2. Answering(t) \in [Mails -> {0, 1}] /\ Answering(t) \in [Mails -> Nat]
    BY OwingTyped
<1>3. u \in [Agents -> Nat] /\ \A a \in Agents : u[a] = Total(inbox[a], Answering(t))
    BY <1>1, <1>2, TotalTyped
<1> HIDE DEF u
<1>4. ASSUME NEW a \in Agents, a # "orchestrator" PROVE u[a] = 0
    <2>1. \A k \in 1..Len(inbox[a]) : Answering(t)[inbox[a][k]] = 0
        BY <1>1, <1>4, OwingTyped
    <2> DEFINE s == inbox[a]
               w == Answering(t)
    <2>2. s \in Seq(Mails) /\ w \in [Mails -> Nat] /\ (\A k \in 1..Len(s) : w[s[k]] = 0) /\ u[a] = Total(s, w)
        BY <1>1, <1>2, <1>3, <2>1
    <2> HIDE DEF s, w
    <2>3. QED BY <2>2, TotalOfNone
<1>5. u["orchestrator"] = AnsweredBy(t)
    <2> DEFINE s == inbox["orchestrator"]
    <2>1. s \in Seq(Mails) /\ \A k \in 1..Len(s) : s[k] \in Mails /\ s[k].to = "orchestrator"
        BY <1>1, AgentsAre
    <2>2. u["orchestrator"] = Total(s, Answering(t)) /\ AnsweredBy(t) = Cardinality({k \in DOMAIN s : IsAnswer(s[k], t)})
        BY <1>3, AgentsAre DEF AnsweredBy
    <2> HIDE DEF s
    <2>3. Total(s, Answering(t)) = Cardinality({k \in 1..Len(s) : Answering(t)[s[k]] = 1})
        BY <1>2, <2>1, TotalCounts
    <2>4. DOMAIN s = 1..Len(s)
        BY <2>1
    <2>5. \A k \in 1..Len(s) : Answering(t)[s[k]] = 1 <=> IsAnswer(s[k], t)
        BY <2>1, OwingTyped
    <2>6. {k \in 1..Len(s) : Answering(t)[s[k]] = 1} = {k \in DOMAIN s : IsAnswer(s[k], t)}
        BY <2>4, <2>5
    <2>7. QED BY <2>2, <2>3, <2>6
<1>6. u["orchestrator"] \in Nat /\ u["analyst"] = 0 /\ u["planner"] = 0 /\ u["executor"] = 0
      /\ u["validator"] = 0 /\ u["synthesizer"] = 0
    BY <1>3, <1>4, AgentsAre
<1>7. Total(AgentOrder, u) = u["orchestrator"]
    BY <1>3, <1>6, SixTotal
<1>8. QED BY <1>3, <1>5, <1>7 DEF u

LEMMA SaidPasses ==
    ASSUME inbox \in Boxes
    PROVE  Said \in Seq(Mails) /\ \A t : Total(Said, Owing(t)) + AnsweredBy(t) = UnderWay(inbox, t)
<1> DEFINE seqs == [k \in DOMAIN AgentOrder |-> Replies(AgentOrder[k])]
<1>1. AgentOrder \in Seq(Agents) /\ DOMAIN AgentOrder = 1..Len(AgentOrder)
    BY AgentsAre
<1>2. \A k \in 1..Len(AgentOrder) : AgentOrder[k] \in Agents
    BY <1>1
<1>3. seqs \in [1..Len(AgentOrder) -> Seq(Mails)] /\ \A k \in 1..Len(AgentOrder) : seqs[k] = Replies(AgentOrder[k])
    BY <1>1, <1>2, RepliesPass
<1>4. Said = FlattenSeq(seqs)
    BY DEF Said
<1> HIDE DEF seqs
<1>5. ASSUME NEW t PROVE Said \in Seq(Mails) /\ Total(Said, Owing(t)) + AnsweredBy(t) = UnderWay(inbox, t)
    <2> DEFINE u == [a \in Agents |-> Total(inbox[a], Answering(t))]
               v == [a \in Agents |-> Total(inbox[a], Owing(t))]
    <2>1. u \in [Agents -> Nat] /\ Total(AgentOrder, u) = AnsweredBy(t)
        BY AnswersOf
    <2>2. v \in [Agents -> Nat] /\ Total(AgentOrder, v) = UnderWay(inbox, t)
        BY BoxTotals DEF UnderWay
    <2>3. ASSUME NEW k \in 1..Len(AgentOrder)
          PROVE  Total(seqs[k], Owing(t)) + u[AgentOrder[k]] = v[AgentOrder[k]]
        BY <1>2, <1>3, RepliesPass
    <2> HIDE DEF u, v
    <2>4. Owing(t) \in [Mails -> Nat]
        BY OwingTyped
    <2>5. FlattenSeq(seqs) \in Seq(Mails) /\ Total(FlattenSeq(seqs), Owing(t)) + Total(AgentOrder, u) = Total(AgentOrder, v)
        <3>1. AgentOrder \in Seq(Agents) /\ seqs \in [1..Len(AgentOrder) -> Seq(Mails)]
              /\ u \in [Agents -> Nat] /\ v \in [Agents -> Nat]
            BY <1>1, <1>3, <2>1, <2>2
        <3>2. Outweighs(seqs, Mails, Owing(t), AgentOrder, Agents, u, v)
            BY <2>3, <2>4, <3>1, Zenon DEF Outweighs
        <3>3. QED BY <3>2, TotalOfAll, SMTT(20)
    <2>6. QED BY <1>4, <2>1, <2>2, <2>5
<1>6. QED BY <1>5

\* What is said reaches the inboxes, and nothing else does.
LEMMA DeliveredAll ==
    ASSUME Said \in Seq(Mails)
    PROVE  Delivered \in Boxes /\ \A t : UnderWay(Delivered, t) = Total(Said, Owing(t))
<1> DEFINE s == Said
           n == Len(s)
           nobody == [a \in Agents |-> << >>]
           put(box, m) == [box EXCEPT ![m.to] = Append(@, m)]
           step == [k \in 1..n |-> [v \in Boxes |-> put(v, s[k])]]
           Boxing(f) == f = [k \in 0..n |-> IF k = 0 THEN nobody ELSE put(f[k - 1], s[k])]
<1>1. n \in Nat /\ s \in Seq(Mails) /\ \A k \in 1..n : s[k] \in Mails
    OBVIOUS
<1>2. nobody \in Boxes /\ \A a \in Agents : nobody[a] = << >>
    BY DEF Boxes
<1>3. \A v \in Boxes : \A m \in Mails :
          put(v, m) \in Boxes /\ \A t : UnderWay(put(v, m), t) = UnderWay(v, t) + Owed(m, t)
    BY ReceivesOne
<1>4. Delivered = (CHOOSE f : Boxing(f))[n]
    BY DEF Delivered
<1> HIDE DEF s, n, nobody, put
<1>5. step \in [1..n -> [Boxes -> Boxes]] /\ \A k \in 1..n : \A v \in Boxes : step[k][v] = put(v, s[k])
    BY <1>1, <1>3
<1> HIDE DEF step
<1>6. PICK all : Iterates(all, n, Boxes, nobody, step)
    BY <1>1, <1>2, <1>5, Iteration
<1>7. all \in [0..n -> Boxes] /\ all[0] = nobody /\ \A k \in 1..n : all[k] = step[k][all[k - 1]]
    BY <1>6 DEF Iterates
<1>8. ASSUME NEW k \in 1..n PROVE all[k] = put(all[k - 1], s[k]) /\ all[k - 1] \in Boxes
    <2>1. k - 1 \in 0..n
        BY <1>1
    <2>2. QED BY <1>5, <1>7, <2>1
<1>9. Boxing(all)
    <2>1. \A k \in 0..n : all[k] = IF k = 0 THEN nobody ELSE put(all[k - 1], s[k])
        <3>1. \A k \in 0..n : k # 0 => k \in 1..n
            BY <1>1
        <3>2. QED BY <1>7, <1>8, <3>1
    <2>2. QED BY <1>7, <2>1
<1>10. PICK f : f = (CHOOSE g : Boxing(g)) /\ Boxing(f)
    <2> HIDE DEF Boxing
    <2>1. QED BY <1>9
<1>11. \A k \in 0..n : f[k] = IF k = 0 THEN nobody ELSE put(f[k - 1], s[k])
    BY <1>10
<1> HIDE DEF Boxing
<1> DEFINE T == {k \in 0..n : f[k] = all[k]}
<1>12. 0 \in T
    BY <1>1, <1>7, <1>11
<1>13. ASSUME NEW k \in 0..n - 1, k \in T PROVE k + 1 \in T
    <2>1. k + 1 \in 1..n /\ k + 1 \in 0..n /\ k + 1 # 0 /\ (k + 1) - 1 = k
        BY <1>1
    <2>2. f[k + 1] = put(f[k], s[k + 1]) /\ all[k + 1] = put(all[k], s[k + 1])
        BY <1>8, <1>11, <2>1
    <2>3. QED BY <1>13, <2>1, <2>2
<1> HIDE DEF T
<1>14. 0..n \subseteq T
    BY <1>1, <1>12, <1>13, UpwardInduction
<1>15. Delivered = all[n] /\ all[n] \in Boxes
    <2>1. n \in 0..n
        BY <1>1
    <2>2. f[n] = all[n]
        BY <1>14, <2>1 DEF T
    <2>3. QED BY <1>4, <1>7, <1>10, <2>1, <2>2
<1>16. ASSUME NEW t PROVE UnderWay(all[n], t) = Total(s, Owing(t))
    <2>1. Owing(t) \in [Mails -> Nat] /\ \A m \in Mails : Owing(t)[m] = Owed(m, t)
        BY OwingTyped
    <2>2. PICK sum : IsSum(sum, s, Owing(t))
        BY <1>1, <2>1, SumsExist
    <2>3. sum \in [0..n -> Nat] /\ sum[0] = 0 /\ \A k \in 1..n : sum[k] = sum[k - 1] + Owing(t)[s[k]]
        BY <2>2 DEF IsSum, n
    <2>4. Total(s, Owing(t)) = sum[n]
        BY <1>1, <2>1, <2>2, TotalIs DEF n
    <2> DEFINE R == {k \in 0..n : UnderWay(all[k], t) = sum[k]}
    <2>5. 0 \in R
        <3>1. UnderWay(nobody, t) = 0
            BY <1>2, NothingUnderWay
        <3>2. UnderWay(all[0], t) = sum[0] /\ 0 \in 0..n
            BY <1>1, <1>7, <2>3, <3>1
        <3>3. QED BY <3>2
    <2>6. ASSUME NEW k \in 0..n - 1, k \in R PROVE k + 1 \in R
        <3>1. k + 1 \in 1..n /\ k + 1 \in 0..n /\ (k + 1) - 1 = k
            BY <1>1
        <3>2. all[k + 1] = put(all[k], s[k + 1]) /\ all[k] \in Boxes /\ s[k + 1] \in Mails
            BY <1>1, <1>8, <3>1
        <3>3. UnderWay(all[k + 1], t) = UnderWay(all[k], t) + Owed(s[k + 1], t)
            BY <1>3, <3>2
        <3>4. sum[k + 1] = sum[k] + Owed(s[k + 1], t)
            BY <2>1, <2>3, <3>1, <3>2
        <3>5. QED BY <2>6, <3>1, <3>3, <3>4
    <2> HIDE DEF R
    <2>7. 0..n \subseteq R
        BY <1>1, <2>5, <2>6, UpwardInduction
    <2>8. n \in R
        BY <1>1, <2>7
    <2>9. QED BY <2>4, <2>8 DEF R
<1>17. QED BY <1>15, <1>16 DEF s

(* Of every task, what it has been answered and what is under way make the answers it   *)
(* is to have: one, or two when its plan and its execution are both reported.           *)
Due(t) == IF t \notin injected THEN 0 ELSE IF t \in Composed \ Faulty THEN 2 ELSE 1

SwarmInv ==
    /\ inbox \in Boxes
    /\ injected \subseteq Tasks
    /\ answered \in [Tasks -> Nat]
    /\ \A t \in Tasks : answered[t] + UnderWay(inbox, t) = Due(t)

LEMMA UnderWayTyped ==
    ASSUME NEW box \in Boxes, NEW t PROVE UnderWay(box, t) \in Nat
<1> DEFINE g == [a \in Agents |-> Total(box[a], Owing(t))]
<1>1. g \in [Agents -> Nat] /\ AgentOrder \in Seq(Agents) /\ UnderWay(box, t) = Total(AgentOrder, g)
    BY AgentsAre, BoxTotals DEF UnderWay
<1> HIDE DEF g
<1>2. QED BY <1>1, TotalTyped

LEMMA SwarmStarts == SwarmInit => SwarmInv
<1> SUFFICES ASSUME SwarmInit PROVE SwarmInv
    OBVIOUS
<1>1. inbox \in Boxes /\ \A a \in Agents : inbox[a] = << >>
    BY DEF SwarmInit, Boxes
<1>2. \A t : UnderWay(inbox, t) = 0
    BY <1>1, NothingUnderWay
<1>3. injected = {} /\ answered \in [Tasks -> Nat] /\ \A t \in Tasks : answered[t] = 0
    BY DEF SwarmInit
<1>4. QED BY <1>1, <1>2, <1>3 DEF SwarmInv, Due

LEMMA InjectKeeps ==
    ASSUME SwarmInv, NEW mine \in Tasks, Inject(mine) PROVE SwarmInv'
<1> DEFINE p == Payload(mine, MarksOf(mine))
           m == Message("user", "orchestrator", "DIRECTIVE", p)
           more == [inbox EXCEPT !["orchestrator"] = Append(@, m)]
<1>1. /\ p \in Payloads /\ p.task = mine
      /\ ("COMPOSE" \in p.marks <=> mine \in Composed) /\ ("error" \in p.marks <=> mine \in Faulty)
    BY DEF Payload, Payloads, Marks, MarksOf
<1> HIDE DEF p
<1>2. "orchestrator" \in Agents
    BY AgentsAre
<1>3. m \in Mails /\ m.to = "orchestrator" /\ m.type = "DIRECTIVE" /\ m.payload = p
    BY <1>1, <1>2 DEF Message, Mails, MessageTypes
<1>4. mine \notin injected /\ injected' = injected \union {mine} /\ answered' = answered /\ inbox' = more
    BY DEF Inject, p
<1> HIDE DEF m
<1>5. more \in Boxes /\ \A t : UnderWay(more, t) = UnderWay(inbox, t) + Owed(m, t)
    <2>1. inbox \in Boxes
        BY DEF SwarmInv
    <2> DEFINE got == [inbox EXCEPT ![m.to] = Append(@, m)]
    <2>2. got \in Boxes /\ \A t : UnderWay(got, t) = UnderWay(inbox, t) + Owed(m, t)
        BY <1>3, <2>1, ReceivesOne
    <2>3. got = more
        BY <1>3
    <2>4. QED BY <2>2, <2>3
<1> HIDE DEF more
<1>6. ASSUME NEW t \in Tasks PROVE answered'[t] + UnderWay(inbox', t) = Due(t)'
    <2>1. answered[t] + UnderWay(inbox, t) = Due(t) /\ answered[t] \in Nat /\ UnderWay(inbox, t) \in Nat
        BY UnderWayTyped DEF SwarmInv
    <2>2. UnderWay(inbox', t) = UnderWay(inbox, t) + Owed(m, t)
        BY <1>4, <1>5
    <2>3. CASE t = mine
        <3>1. Due(t) = 0
            BY <1>4, <2>3 DEF Due
        <3>2. Due(t)' = IF mine \in Composed \ Faulty THEN 2 ELSE 1
            BY <1>4, <2>3 DEF Due
        <3>3. Owed(m, t) = IF mine \in Composed \ Faulty THEN 2 ELSE 1
            BY <1>1, <1>3, <2>3 DEF Owed
        <3>4. QED BY <1>4, <2>1, <2>2, <3>1, <3>2, <3>3
    <2>4. CASE t # mine
        <3>1. Due(t)' = Due(t)
            BY <1>4, <2>4 DEF Due
        <3>2. Owed(m, t) = 0
            BY <1>1, <1>3, <2>4 DEF Owed
        <3>3. QED BY <1>4, <2>1, <2>2, <3>1, <3>2
    <2>5. QED BY <2>3, <2>4
<1>7. injected' \subseteq Tasks /\ answered' \in [Tasks -> Nat] /\ inbox' \in Boxes
    BY <1>4, <1>5 DEF SwarmInv
<1>8. QED BY <1>6, <1>7 DEF SwarmInv

LEMMA SwarmStepKeeps ==
    ASSUME SwarmInv, SwarmStep PROVE SwarmInv'
<1>1. inbox \in Boxes /\ injected \subseteq Tasks /\ answered \in [Tasks -> Nat]
    BY DEF SwarmInv
<1>2. Said \in Seq(Mails) /\ \A t : Total(Said, Owing(t)) + AnsweredBy(t) = UnderWay(inbox, t)
    BY <1>1, SaidPasses
<1>3. Delivered \in Boxes /\ \A t : UnderWay(Delivered, t) = Total(Said, Owing(t))
    BY <1>2, DeliveredAll
<1>4. inbox' = Delivered /\ answered' = [t \in Tasks |-> answered[t] + AnsweredBy(t)] /\ injected' = injected
    BY DEF SwarmStep
<1>5. \A t : AnsweredBy(t) \in Nat
    <2> SUFFICES ASSUME NEW t PROVE AnsweredBy(t) \in Nat
        OBVIOUS
    <2> DEFINE u == [a \in Agents |-> Total(inbox[a], Answering(t))]
    <2>1. u \in [Agents -> Nat] /\ Total(AgentOrder, u) = AnsweredBy(t) /\ AgentOrder \in Seq(Agents)
        BY <1>1, AgentsAre, AnswersOf
    <2> HIDE DEF u
    <2>2. Total(AgentOrder, u) \in Nat
        BY <2>1, TotalTyped
    <2>3. QED BY <2>1, <2>2
<1>6. ASSUME NEW t \in Tasks PROVE answered'[t] + UnderWay(inbox', t) = Due(t)'
    <2>1. answered[t] + UnderWay(inbox, t) = Due(t) /\ answered[t] \in Nat
        BY DEF SwarmInv
    <2>2. UnderWay(inbox', t) + AnsweredBy(t) = UnderWay(inbox, t)
        BY <1>2, <1>3, <1>4
    <2>3. UnderWay(inbox', t) \in Nat /\ AnsweredBy(t) \in Nat
        BY <1>3, <1>4, <1>5, UnderWayTyped
    <2>4. answered'[t] = answered[t] + AnsweredBy(t)
        BY <1>4
    <2>5. Due(t)' = Due(t)
        BY <1>4 DEF Due
    <2>6. QED BY <2>1, <2>2, <2>3, <2>4, <2>5
<1>7. answered' \in [Tasks -> Nat]
    BY <1>1, <1>4, <1>5
<1>8. QED BY <1>1, <1>3, <1>4, <1>6, <1>7 DEF SwarmInv

LEMMA SwarmInvAnswers == SwarmInv => TasksAnswered
<1> SUFFICES ASSUME SwarmInv, IdleAgent, NEW t \in Tasks
             PROVE  answered[t] = IF t \notin injected THEN 0 ELSE IF t \in Composed \ Faulty THEN 2 ELSE 1
    BY DEF TasksAnswered
<1>1. UnderWay(inbox, t) = 0
    BY NothingUnderWay DEF SwarmInv, IdleAgent
<1>2. answered[t] + 0 = Due(t) /\ answered[t] \in Nat
    BY <1>1 DEF SwarmInv
<1>3. QED BY <1>2 DEF Due

(* Every task that was injected is answered as often as it should be when no message is *)
(* under way any more: no agent drops a task or reports it twice, in whatever order the *)
(* tasks come and the runs end (SwarmController, asis_enhanced.py).                     *)
THEOREM TasksAreAnswered == SwarmSpec => []TasksAnswered
<1>1. ASSUME SwarmInv, [SwarmNext]_swarmVars PROVE SwarmInv'
    <2>1. CASE \E t \in Tasks : Inject(t)
        BY <1>1, <2>1, InjectKeeps
    <2>2. CASE SwarmStep
        BY <1>1, <2>2, SwarmStepKeeps
    <2>3. CASE UNCHANGED <<inbox, injected, answered>>
        BY <1>1, <2>3 DEF SwarmInv, Due
    <2>4. (\E limit \in StepLimits : RunUntilConvergence(limit)) => UNCHANGED <<inbox, injected, answered>>
        BY DEF RunUntilConvergence
    <2>5. QED BY <1>1, <2>1, <2>2, <2>3, <2>4 DEF SwarmNext, swarmVars
<1>2. QED BY <1>1, SwarmStarts, SwarmInvAnswers, PTL DEF SwarmSpec

\* The swarm, the queue of the tasks that found no place, the placement of tasks and map keep
\* what TasksAreServed promises, each by its own steps.
THEOREM TasksAlwaysServed ==
    SwarmSpec /\ OverflowSpec /\ PlacementSpec /\ MapSpec => []TasksAreServed
BY TasksAreAnswered, AgedAreNeverPassed, NeverTwoHops, MapsInOrder, PTL DEF TasksAreServed
=============================================================================
