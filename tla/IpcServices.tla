---------------------------- MODULE IpcServices -----------------------------
(***************************************************************************)
(* Four parts of os/core/aios_ipc.py beside its queues: the event bus, the *)
(* namespace of objects, the channels and the semaphore.                   *)
(***************************************************************************)
EXTENDS Integers, Sequences, FiniteSets, Functions, SequencesExt

-----------------------------------------------------------------------------
(***************************************************************************)
(* EventBus of os/core/aios_ipc.py: subscribe and unsubscribe under the    *)
(* bus's lock, and publish, which picks the matching subscribers under the *)
(* lock and delivers outside it, one after the other, to those that are    *)
(* still active.                                                           *)
(*                                                                         *)
(* A subscriber is a number: the position of its subscribe call among all  *)
(* of them.  Callers choose sub_ids, and may choose one twice.  Callbacks  *)
(* and queues that fail are swallowed by deliver, so a delivery is just    *)
(* that; payloads and counters are left out.                               *)
(***************************************************************************)

CONSTANTS Publishers,       \* threads that publish
          SubIds,           \* ids that callers give
          Patterns, Topics, \* sequences of segments
          Priorities,
          MaxSubscribes     \* bound on the subscribe calls

ASSUME EventBusAssumption ==
    /\ Priorities \subseteq Int /\ MaxSubscribes \in Nat
    /\ \A s \in Patterns \cup Topics : Len(s) \in Nat

VARIABLES
    subscriber,     \* every Subscriber ever made: its id, pattern, priority, _active
    listed,         \* _subscribers: a sequence of them
    subIndex,       \* _sub_index: sub_id to position, 0 where there is none
    publish         \* what each publisher does: its topic, whom it matched and has yet to
                    \* serve, whom it served, and how many subscribe calls came before it

eventBusVars == <<subscriber, listed, subIndex, publish>>

NoPublish == [topic |-> <<>>, matched |-> <<>>, served |-> {}, upto |-> 0]

EventBusInit ==
    /\ subscriber = <<>> /\ listed = <<>>
    /\ subIndex = [i \in SubIds |-> 0]
    /\ publish = [p \in Publishers |-> NoPublish]

-----------------------------------------------------------------------------
\* A fault: '**' wants at least one segment.
TopicMatchesOneOrMore(pattern, topic) ==
    LET match[p \in 1..Len(pattern) + 1] == [t \in 1..Len(topic) + 1 |->
            IF p > Len(pattern) THEN t > Len(topic)
            ELSE IF pattern[p] = "**" THEN \E skip \in t + 1..Len(topic) + 1 : match[p + 1][skip]
            ELSE t <= Len(topic) /\ pattern[p] \in {"*", topic[t]} /\ match[p + 1][t + 1]]
    IN match[1][1]

\* _topic_matches: '*' takes one segment, '**' any number of them.
TopicMatches(pattern, topic) ==
    LET match[p \in 1..Len(pattern) + 1] == [t \in 1..Len(topic) + 1 |->
            IF p > Len(pattern) THEN t > Len(topic)
            ELSE IF pattern[p] = "**" THEN \E skip \in t..Len(topic) + 1 : match[p + 1][skip]
            ELSE t <= Len(topic) /\ pattern[p] \in {"*", topic[t]} /\ match[p + 1][t + 1]]
    IN match[1][1]

\* The entries of a list that are in S, in their order.
Nth(at, n) == CHOOSE k \in at : Cardinality({j \in at : j <= k}) = n
Those(list, S) ==
    LET at == {k \in DOMAIN list : list[k] \in S}
    IN [n \in 1..Cardinality(at) |-> list[Nth(at, n)]]

\* The rebuilt index: of several subscribers with one id, the last one counts.
Indexed(list, subs) ==
    [i \in SubIds |->
        LET at == {k \in DOMAIN list : subs[list[k]].id = i}
        IN IF at = {} THEN 0 ELSE CHOOSE k \in at : \A l \in at : l <= k]

\* The sort is stable: a new subscriber goes behind those of its priority.
SortedIn(s, priority) ==
    LET after == {k \in DOMAIN listed : subscriber[listed[k]].priority > priority}
    IN InsertAt(listed, Len(listed) + 1 - Cardinality(after), s)

\* A fault: a new subscriber is indexed where it was before the sort.
ReindexesBeforeSort(list, subs) ==
    subIndex' = IF Len(subs) > Len(subscriber)
                THEN [subIndex EXCEPT ![subs[Len(subs)].id] = Len(list)]
                ELSE Indexed(list, subs)

Reindexes(list, subs) == subIndex' = Indexed(list, subs)

Subscribe(id, pattern, priority) ==
    LET new == Len(subscriber) + 1
        list == SortedIn(new, priority)
    IN /\ new <= MaxSubscribes
       /\ subscriber' = Append(subscriber, [id |-> id, pattern |-> pattern,
                                            priority |-> priority, active |-> TRUE])
       /\ listed' = list
       /\ Reindexes(list, subscriber')
       /\ UNCHANGED publish

Unsubscribe(id) ==
    LET gone == listed[subIndex[id]]
        list == Those(listed, {s \in DOMAIN subscriber' : subscriber'[s].active})
    IN /\ subIndex[id] # 0
       /\ subscriber' = [subscriber EXCEPT ![gone].active = FALSE]
       /\ listed' = list
       /\ Reindexes(list, subscriber')
       /\ UNCHANGED publish

\* Under the lock.
Publish(p, topic) ==
    /\ publish[p] = NoPublish
    /\ publish' = [publish EXCEPT ![p] =
          [topic |-> topic, served |-> {}, upto |-> Len(subscriber),
           matched |-> Those(listed, {s \in DOMAIN subscriber :
                          subscriber[s].active /\ TopicMatches(subscriber[s].pattern, topic)})]]
    /\ UNCHANGED <<subscriber, listed, subIndex>>

\* deliver, outside the lock: to the next one, if it is still active.
Deliver(p) ==
    LET s == Head(publish[p].matched)
        rest == [publish[p] EXCEPT !.matched = Tail(@)]
    IN
    /\ publish[p].matched # <<>>
    /\ publish' = [publish EXCEPT ![p] =
          IF subscriber[s].active THEN [rest EXCEPT !.served = @ \cup {s}] ELSE rest]
    /\ UNCHANGED <<subscriber, listed, subIndex>>

PublishReturns(p) ==
    /\ publish[p].topic # <<>> /\ publish[p].matched = <<>>
    /\ publish' = [publish EXCEPT ![p] = NoPublish]
    /\ UNCHANGED <<subscriber, listed, subIndex>>

EventBusNext ==
    \/ \E id \in SubIds :
          \/ \E pattern \in Patterns, priority \in Priorities : Subscribe(id, pattern, priority)
          \/ Unsubscribe(id)
    \/ \E p \in Publishers :
          (\E topic \in Topics : Publish(p, topic)) \/ Deliver(p) \/ PublishReturns(p)

EventBusSpec == EventBusInit /\ [][EventBusNext]_eventBusVars

-----------------------------------------------------------------------------
\* The index finds whom the caller means: a listed subscriber of that id, and no
\* active subscriber is out of reach of unsubscribe for want of an entry.
IndexFinds ==
    /\ \A i \in SubIds : subIndex[i] # 0 =>
          subIndex[i] \in DOMAIN listed /\ subscriber[listed[subIndex[i]]].id = i
    /\ \A s \in DOMAIN subscriber : subscriber[s].active <=> Contains(listed, s)
    /\ \A k \in DOMAIN listed : subIndex[subscriber[listed[k]].id] # 0

\* What a pattern says, without the code's recursion: some way to give every segment
\* of the pattern its stretch of the topic.
Covers(pattern, topic) ==
    \E cut \in [0..Len(pattern) -> 0..Len(topic)] :
        /\ cut[0] = 0 /\ cut[Len(pattern)] = Len(topic)
        /\ \A k \in 1..Len(pattern) :
              IF pattern[k] = "**" THEN cut[k - 1] <= cut[k]
              ELSE cut[k] = cut[k - 1] + 1 /\ pattern[k] \in {"*", topic[cut[k]]}

\* "Publish msg to all subscribers whose pattern matches msg.topic", in the order
\* "lower int = higher priority": when a publish is through, every listed
\* subscriber whose pattern covers the topic was served, unless it came later, and
\* nobody else.
RoutesByTopic ==
    \A p \in Publishers : publish[p].topic # <<>> =>
        LET reached == publish[p].served \cup ToSet(publish[p].matched) IN
        /\ \A s \in reached : Covers(subscriber[s].pattern, publish[p].topic)
        /\ \A i, j \in DOMAIN publish[p].matched : i < j =>
              subscriber[publish[p].matched[i]].priority <= subscriber[publish[p].matched[j]].priority
        /\ \A s \in DOMAIN subscriber :
              subscriber[s].active /\ Covers(subscriber[s].pattern, publish[p].topic)
                  => s \in reached \/ s > publish[p].upto

-----------------------------------------------------------------------------
(***************************************************************************)
(* IPCNamespace and the queue operations of IPCKernel (os/core/aios_ipc.py)*)
(* at the level of names: get_or_create_*, get_* and close_queue, each     *)
(* under the namespace's lock, and callers who use what they were given    *)
(* without it.                                                             *)
(*                                                                         *)
(* An object is a number, the count of objects made when it was.  A queue  *)
(* is its length and whether it is closed (MessageQueue models the rest);  *)
(* channels, semaphores, shared memory and buses are never removed, so one *)
(* of these kinds stands for all.                                          *)
(***************************************************************************)

CONSTANTS Users, ObjectNames, MaxObjects, QueueSize

ASSUME NamespaceAssumption == MaxObjects \in Nat /\ QueueSize \in Nat \ {0}

Kinds == {"queue", "other"}

VARIABLES
    objects,    \* how many were made
    registry,   \* the namespace's dictionaries: kind and name to an object, 0 if none
    named,      \* the kind and name each object was made for
    length,     \* of each queue
    shut,       \* queues whose close() was called
    retired,    \* queues close_queue was asked to close (a history)
    handle      \* the object each user holds, 0 if none

namespaceVars == <<objects, registry, named, length, shut, retired, handle>>
contents == <<length, shut, retired>>

NamespaceInit ==
    /\ objects = 0
    /\ registry = [k \in Kinds |-> [n \in ObjectNames |-> 0]]
    /\ named = [o \in 1..MaxObjects |-> [kind |-> "none"]]
    /\ length = [o \in 1..MaxObjects |-> 0]
    /\ shut = {} /\ retired = {}
    /\ handle = [u \in Users |-> 0]

-----------------------------------------------------------------------------
\* A fault: the object made last is the one to return, registered or not.
GetOrCreateAnew(u, k, n) ==
    /\ objects < MaxObjects
    /\ objects' = objects + 1
    /\ registry' = [registry EXCEPT ![k][n] = objects']
    /\ named' = [named EXCEPT ![objects'] = [kind |-> k, name |-> n]]
    /\ handle' = [handle EXCEPT ![u] = objects']
    /\ UNCHANGED contents

GetOrCreate(u, k, n) ==
    \/ /\ registry[k][n] # 0
       /\ handle' = [handle EXCEPT ![u] = registry[k][n]]
       /\ UNCHANGED <<objects, registry, named, contents>>
    \/ /\ registry[k][n] = 0 /\ objects < MaxObjects
       /\ objects' = objects + 1
       /\ registry' = [registry EXCEPT ![k][n] = objects']
       /\ named' = [named EXCEPT ![objects'] = [kind |-> k, name |-> n]]
       /\ handle' = [handle EXCEPT ![u] = objects']
       /\ UNCHANGED contents

\* get_queue, get_channel, ...: nothing if there is no such object.
Get(u, k, n) ==
    /\ handle' = [handle EXCEPT ![u] = registry[k][n]]
    /\ UNCHANGED <<objects, registry, named, contents>>

\* close_queue pops the name; "if q: q.close()" asks the queue for its truth value,
\* and MessageQueue defines __len__, so an empty queue is not closed.
CloseQueue(n) ==
    LET o == registry["queue"][n] IN
    /\ o # 0
    /\ registry' = [registry EXCEPT !["queue"][n] = 0]
    /\ shut' = IF length[o] > 0 THEN shut \cup {o} ELSE shut
    /\ retired' = retired \cup {o}
    /\ UNCHANGED <<objects, named, length, handle>>

\* send and recv on the queue a user holds; they raise on a closed one.
HoldsQueue(u) == handle[u] # 0 /\ named[handle[u]].kind = "queue"

SendsOn(u) ==
    /\ HoldsQueue(u) /\ handle[u] \notin shut /\ length[handle[u]] < QueueSize
    /\ length' = [length EXCEPT ![handle[u]] = @ + 1]
    /\ UNCHANGED <<objects, registry, named, shut, retired, handle>>

ReceivesFrom(u) ==
    /\ HoldsQueue(u) /\ length[handle[u]] > 0
    /\ length' = [length EXCEPT ![handle[u]] = @ - 1]
    /\ UNCHANGED <<objects, registry, named, shut, retired, handle>>

NamespaceNext ==
    \/ \E u \in Users, k \in Kinds, n \in ObjectNames : GetOrCreate(u, k, n) \/ Get(u, k, n)
    \/ \E n \in ObjectNames : CloseQueue(n)
    \/ \E u \in Users : SendsOn(u) \/ ReceivesFrom(u)

NamespaceSpec == NamespaceInit /\ [][NamespaceNext]_namespaceVars

-----------------------------------------------------------------------------
SameName(o, p) == named[o] = named[p]

\* "Objects are registered by name and can be retrieved from any thread/agent": two
\* users who hold an object of one kind and name hold the same one, unless
\* close_queue was asked to close one of the two.
HoldersAgree ==
    \A u, v \in Users :
        handle[u] # 0 /\ handle[v] # 0 /\ SameName(handle[u], handle[v])
            => handle[u] = handle[v] \/ {handle[u], handle[v]} \cap retired # {}

\* ... so that at most one queue of a name is open, and who holds a closed one is
\* told: false, because close_queue leaves an empty queue open.
OneOpenQueuePerName ==
    \A o, p \in 1..objects :
        named[o].kind = "queue" /\ SameName(o, p) /\ {o, p} \cap shut = {} => o = p

-----------------------------------------------------------------------------
(***************************************************************************)
(* A Channel of os/core/aios_ipc.py and its endpoints: endpoint(name),     *)
(* which gives the first name the A side, the second the B side and raises *)
(* for a third; request, which sends and then receives whatever comes      *)
(* next; and a partner who answers requests in order.                      *)
(*                                                                         *)
(* The two queues are FIFO (MessageQueue shows that); a message is the     *)
(* number of the request it is or answers.  Sending blocks or fails while  *)
(* the queue is full.                                                      *)
(***************************************************************************)

CONSTANTS ChannelAgents,       \* threads, each asking for an endpoint of its own name
          ChannelSize,  \* maxsize of both queues
          MaxRequests   \* bound on the requests of an agent

ASSUME ChannelAssumption == ChannelSize \in Nat \ {0} /\ MaxRequests \in Nat

Sides == {"a", "b"}

\* A fault: an endpoint receives from the queue it sends to.
SameQueue(s) == s

\* Who sends from one side is received on the other.
Other(s) == IF s = "a" THEN "b" ELSE "a"

VARIABLES
    side,       \* the side of each agent's endpoint; "none" before, "refused" if it got none
    mailbox,      \* the queue each side receives from: messages of their sender and kind
    request,    \* each agent's request in flight, 0 if none
    asked,      \* how many requests each agent has made
    gaveUp,     \* did a request of it ever time out (a history)
    answers     \* what the last request returned

channelVars == <<side, mailbox, request, asked, gaveUp, answers>>

ChannelInit ==
    /\ side = [a \in ChannelAgents |-> "none"]
    /\ mailbox = [s \in Sides |-> <<>>]
    /\ request = [a \in ChannelAgents |-> 0] /\ asked = [a \in ChannelAgents |-> 0]
    /\ gaveUp = [a \in ChannelAgents |-> FALSE]
    /\ answers = [a \in ChannelAgents |-> [to |-> 0, of |-> 0]]

-----------------------------------------------------------------------------
Taken == {a \in ChannelAgents : side[a] \in Sides}

NextSide == IF Taken = {} THEN "a"
            ELSE IF \E a, b \in Taken : a # b THEN "refused" ELSE "b"

Endpoint(a) ==
    /\ side[a] = "none"
    /\ side' = [side EXCEPT ![a] = NextSide]
    /\ UNCHANGED <<mailbox, request, asked, gaveUp, answers>>

CanSend(a) == side[a] \in Sides /\ Len(mailbox[Other(side[a])]) < ChannelSize

\* ChannelEndpoint.request: the first half; it returns None if the queue stays full.
Request(a) ==
    /\ CanSend(a) /\ request[a] = 0 /\ asked[a] < MaxRequests
    /\ asked' = [asked EXCEPT ![a] = @ + 1]
    /\ request' = [request EXCEPT ![a] = asked'[a]]
    /\ mailbox' = [mailbox EXCEPT ![Other(side[a])] =
                    Append(@, [from |-> a, kind |-> "request", of |-> asked'[a]])]
    /\ UNCHANGED <<side, gaveUp, answers>>

\* ... and the second: the next message on recv, whatever it is.
RequestReturns(a) ==
    /\ request[a] # 0 /\ mailbox[side[a]] # <<>>
    /\ answers' = [answers EXCEPT ![a] = [to |-> request[a],
                      of |-> IF Head(mailbox[side[a]]).kind = "reply" THEN Head(mailbox[side[a]]).of
                             ELSE 0]]
    /\ mailbox' = [mailbox EXCEPT ![side[a]] = Tail(@)]
    /\ request' = [request EXCEPT ![a] = 0]
    /\ UNCHANGED <<side, asked, gaveUp>>

RequestTimesOut(a) ==
    /\ request[a] # 0 /\ mailbox[side[a]] = <<>>
    /\ request' = [request EXCEPT ![a] = 0]
    /\ gaveUp' = [gaveUp EXCEPT ![a] = TRUE]
    /\ UNCHANGED <<side, mailbox, asked, answers>>

\* The partner, who makes no requests: recv, and then send of the reply.
Serves(a) ==
    /\ asked[a] = 0 /\ CanSend(a) /\ mailbox[side[a]] # <<>>
    /\ mailbox' = [mailbox EXCEPT
          ![side[a]] = Tail(@),
          ![Other(side[a])] = Append(@, [Head(mailbox[side[a]]) EXCEPT !.kind = "reply", !.from = a])]
    /\ UNCHANGED <<side, request, asked, gaveUp, answers>>

ChannelNext ==
    \E a \in ChannelAgents : \/ Endpoint(a) \/ Request(a) \/ RequestReturns(a)
                      \/ RequestTimesOut(a) \/ Serves(a)

ChannelSpec == ChannelInit /\ [][ChannelNext]_channelVars

-----------------------------------------------------------------------------
\* "Send msg and wait for a reply on the same channel": if the partner only answers
\* and no request of an agent timed out, every request returns its own reply, and
\* no agent ever receives what it sent itself.
RepliesMatch ==
    /\ \A a \in ChannelAgents, s \in Sides : \A i \in DOMAIN mailbox[s] :
          mailbox[s][i].from = a => side[a] = Other(s)
    /\ \A a \in ChannelAgents :
          ~gaveUp[a] /\ (\A b \in ChannelAgents \ {a} : asked[b] = 0) => answers[a].of = answers[a].to

-----------------------------------------------------------------------------
(***************************************************************************)
(* Semaphore of os/core/aios_ipc.py: acquire(n) waits on a condition until *)
(* n permits are there, or its timeout runs out; release(n) wakes every    *)
(* waiter.  The condition's lock makes each step below atomic: a call up   *)
(* to its wait or return, and a woken waiter's next look at the value.       *)
(*                                                                         *)
(* Threads release what they acquired, or by mistake more than there is    *)
(* room for.  Counters other than the value are left out.                    *)
(***************************************************************************)

CONSTANTS Threads, MaxValue

ASSUME SemaphoreAssumption == MaxValue \in Nat \ {0}

VARIABLES
    permits,    \* _value
    want,       \* the n a thread is acquiring, 0 outside acquire
    waiting,    \* where it is: "no", "asleep", "woken", or "late" after its timeout
    owned       \* how many permits each thread holds

semaphoreVars == <<permits, want, waiting, owned>>

SemaphoreInit ==
    /\ permits \in 0..MaxValue
    /\ want = [t \in Threads |-> 0]
    /\ waiting = [t \in Threads |-> "no"]
    /\ \E t \in Threads : owned = [u \in Threads |-> IF u = t THEN MaxValue - permits ELSE 0]

-----------------------------------------------------------------------------
TakesPermits(t, n) ==
    /\ permits' = permits - n
    /\ owned' = [owned EXCEPT ![t] = @ + n]
    /\ want' = [want EXCEPT ![t] = 0]
    /\ waiting' = [waiting EXCEPT ![t] = "no"]

SleepsForPermits(t, n) ==
    /\ want' = [want EXCEPT ![t] = n]
    /\ waiting' = [waiting EXCEPT ![t] = "asleep"]
    /\ UNCHANGED <<permits, owned>>

Acquire(t, n) ==
    /\ waiting[t] = "no"
    /\ IF permits < n THEN SleepsForPermits(t, n) ELSE TakesPermits(t, n)

\* The waiter holds the lock again: permits first, then the deadline.
LooksAgain(t) ==
    /\ \/ waiting[t] \in {"woken", "late"} /\ permits >= want[t] /\ TakesPermits(t, want[t])
       \/ waiting[t] = "woken" /\ permits < want[t] /\ SleepsForPermits(t, want[t])
       \/ /\ waiting[t] = "late" /\ permits < want[t]
          /\ want' = [want EXCEPT ![t] = 0]
          /\ waiting' = [waiting EXCEPT ![t] = "no"]
          /\ UNCHANGED <<permits, owned>>

AcquireTimesOut(t) ==
    /\ waiting[t] \in {"asleep", "woken"}
    /\ waiting' = [waiting EXCEPT ![t] = "late"]
    /\ UNCHANGED <<permits, want, owned>>

\* A fault: one waiter is woken, whether or not it is one who can go on.
ReleaseWakesOne(t, n) ==
    /\ waiting[t] = "no" /\ n <= owned[t]
    /\ permits' = permits + n
    /\ owned' = [owned EXCEPT ![t] = @ - n]
    /\ IF \A u \in Threads : waiting[u] # "asleep" THEN UNCHANGED waiting
       ELSE \E u \in Threads : waiting[u] = "asleep"
                               /\ waiting' = [waiting EXCEPT ![u] = "woken"]
    /\ UNCHANGED want

Release(t, n) ==
    /\ waiting[t] = "no" /\ n <= owned[t]
    /\ permits' = permits + n
    /\ owned' = [owned EXCEPT ![t] = @ - n]
    /\ waiting' = [u \in Threads |-> IF waiting[u] = "asleep" THEN "woken" ELSE waiting[u]]
    /\ UNCHANGED want

\* A release that does not fit raises and changes nothing.
SemaphoreNext ==
    \E t \in Threads :
        \/ \E n \in 1..MaxValue : Acquire(t, n) \/ Release(t, n)
        \/ LooksAgain(t) \/ AcquireTimesOut(t)

SemaphoreSpec == SemaphoreInit /\ [][SemaphoreNext]_semaphoreVars

-----------------------------------------------------------------------------
SemaphoreTypeOK ==
    /\ permits \in 0..MaxValue
    /\ want \in [Threads -> 0..MaxValue] /\ owned \in [Threads -> 0..MaxValue]
    /\ waiting \in [Threads -> {"no", "asleep", "woken", "late"}]

\* "release(n) - increment by n, waking blocked acquirers": nobody sleeps while the
\* permits it waits for are there, however many permits each waiter wants.
SleepersLackPermits == \A t \in Threads : waiting[t] = "asleep" => permits < want[t]

PermitsConserved == permits + SumFunction(owned) = MaxValue
=============================================================================
