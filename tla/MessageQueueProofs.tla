------------------------- MODULE MessageQueueProofs -------------------------
(***************************************************************************)
(* What holds of MessageQueue for every number of threads, every set of    *)
(* messages and every capacity.                                            *)
(***************************************************************************)
EXTENDS MessageQueue, FiniteSetTheorems, SequenceTheorems, WellFoundedInduction, TLAPS

(***************************************************************************)
(* _evict_expired: the stale prefix exists and is well defined.            *)
(***************************************************************************)
LEMMA StaleType ==
    ASSUME NEW s \in Seq(Messages)
    PROVE  /\ Stale(s) \in 0..Len(s)
           /\ \A i \in 1..Stale(s) : s[i] \in expired
           /\ Stale(s) = Len(s) \/ s[Stale(s) + 1] \notin expired
<1> DEFINE P(k) == /\ \A i \in 1..k : s[i] \in expired
                   /\ k = Len(s) \/ s[k + 1] \notin expired
           Stop == {k \in 0..Len(s) : k = Len(s) \/ s[k + 1] \notin expired}
<1>1. Len(s) \in Nat
    BY LenProperties
<1>2. Stop \subseteq Nat /\ Stop # {}
    BY <1>1
<1>3. PICK k \in Stop : \A j \in Stop : ~(<<j, k>> \in OpToRel(<, Nat))
    BY <1>2, NatLessThanWellFounded, WFMin
<1>4. \A j \in Stop : ~(j < k)
    BY <1>2, <1>3 DEF OpToRel
<1>5. \A i \in 1..k : s[i] \in expired
    <2>1. ASSUME NEW i \in 1..k, s[i] \notin expired PROVE FALSE
        <3>1. i - 1 \in 0..Len(s) /\ (i - 1) + 1 = i /\ i - 1 < k
            BY <1>1, <1>2
        <3>2. i - 1 \in Stop
            BY <2>1, <3>1
        <3>3. QED BY <1>4, <3>1, <3>2
    <2>2. QED BY <2>1
<1>6. \E n \in 0..Len(s) : P(n)
    BY <1>5
<1>7. P(Stale(s)) /\ Stale(s) \in 0..Len(s)
    BY <1>6 DEF Stale
<1>8. QED BY <1>7

\* Eviction splits the queue into the part dropped and the part kept.
LEMMA EvictionSplits ==
    ASSUME NEW s \in Seq(Messages)
    PROVE  /\ Live(s) \in Seq(Messages) /\ Evicted(s) \in Seq(Messages)
           /\ Len(Live(s)) \in Nat /\ Len(Live(s)) <= Len(s)
           /\ s = Evicted(s) \o Live(s)
<1>1. /\ Stale(s) \in 0..Len(s) /\ Len(s) \in Nat
      /\ \A i \in 1..Len(s) : s[i] \in Messages
    BY StaleType, LenProperties, ElementOfSeq
<1>2. Live(s) \in Seq(Messages) /\ Len(Live(s)) = Len(s) - Stale(s)
    BY <1>1, SubSeqProperties DEF Live
<1>3. Evicted(s) \in Seq(Messages)
    BY <1>1, SubSeqProperties DEF Evicted
<1>4. Evicted(s) \o Live(s) = SubSeq(s, 1, Len(s))
    BY <1>1, ConcatAdjacentSubSeq DEF Evicted, Live
<1>5. QED BY <1>1, <1>2, <1>3, <1>4, SubSeqFull

\* While nothing expires, eviction does nothing.
LEMMA NothingStale ==
    ASSUME NEW s \in Seq(Messages), expired = {}
    PROVE  Live(s) = s
<1>1. Stale(s) = 0
    BY StaleType, LenProperties
<1>2. QED BY <1>1, SubSeqFull, LenProperties DEF Live

-----------------------------------------------------------------------------
(* Type correctness, with the capacity bound. *)

LEMMA TypeInit == Init => TypeOK
<1>1. /\ <<>> \in Seq(Messages) /\ Len(<<>>) = 0
      /\ MaxSize \in Nat
    BY EmptySeq, QueueAssumption
<1>2. Init => q = <<>> /\ Len(q) <= MaxSize
    BY <1>1 DEF Init
<1>3. QED BY <1>1, <1>2 DEF Init, TypeOK

LEMMA TypeSend ==
    ASSUME TypeOK, NEW s \in Senders, NEW m \in Messages, SendBody(s, m)
    PROVE  TypeOK'
<1> USE QueueAssumption DEF TypeOK, Threads, SenderReturns, history
<1>1. CASE SendRaisesClosed(s)
    BY <1>1 DEF SendRaisesClosed
<1>2. CASE SendAppends(s, m)
    <2>1. /\ Live(q) \in Seq(Messages) /\ Evicted(q) \in Seq(Messages)
          /\ Len(Live(q)) \in Nat /\ Len(Live(q)) < MaxSize
        BY <1>2, EvictionSplits DEF SendAppends
    <2>2. q' \in Seq(Messages) /\ Len(q') <= MaxSize
        BY <1>2, <2>1, AppendProperties DEF SendAppends
    <2>3. accepted' \in Seq(Messages) /\ removed' \in Seq(Messages)
        BY <1>2, <2>1, AppendProperties, ConcatProperties DEF SendAppends
    <2>4. notEmpty' \subseteq Receivers /\ wokenR' \subseteq Receivers
        BY <1>2 DEF SendAppends, NotifyReceiver
    <2>5. QED BY <1>2, <2>2, <2>3, <2>4 DEF SendAppends
<1>3. CASE SendGivesUp(s)
    BY <1>3 DEF SendGivesUp
<1>4. CASE SendWaits(s, m)
    BY <1>4 DEF SendWaits
<1>5. QED BY <1>1, <1>2, <1>3, <1>4 DEF SendBody, TrySend

LEMMA TypeEvictsAll ==
    ASSUME TypeOK, EvictsAll
    PROVE  q' = <<>> /\ q' \in Seq(Messages) /\ Len(q') = 0 /\ removed' \in Seq(Messages)
    BY EvictionSplits, ConcatProperties, EmptySeq DEF TypeOK, EvictsAll

LEMMA TypeTakes ==
    ASSUME TypeOK, NEW r \in Receivers, Takes(r)
    PROVE  TypeOK'
<1> USE QueueAssumption DEF TypeOK, Threads, ReceiverLeaves
<1>1. /\ Live(q) \in Seq(Messages) /\ Evicted(q) \in Seq(Messages)
      /\ Len(Live(q)) <= Len(q) /\ Live(q) # <<>>
    BY EvictionSplits DEF Takes
<1>2. /\ Head(Live(q)) \in Messages /\ Tail(Live(q)) \in Seq(Messages)
      /\ Len(Tail(Live(q))) = Len(Live(q)) - 1
    BY <1>1, HeadTailProperties
<1>3. q' \in Seq(Messages) /\ Len(q') <= MaxSize
    BY <1>1, <1>2, LenProperties DEF Takes
<1>4. removed' \in Seq(Messages) /\ received' \in Seq(Messages)
    BY <1>1, <1>2, AppendProperties, ConcatProperties DEF Takes
<1>5. /\ notFull' \subseteq Senders /\ wokenS' \subseteq Senders
      /\ notFull' \cup wokenS' \subseteq notFull \cup wokenS
    BY DEF Takes, NotifySender
<1>6. QED BY <1>3, <1>4, <1>5 DEF Takes

LEMMA TypeRecv ==
    ASSUME TypeOK, NEW r \in Receivers,
           RecvBody(r) \/ (EvictsAll /\ ReceiverLeaves(r))
    PROVE  TypeOK'
<1> USE DEF TypeOK, Threads, ReceiverLeaves, history
<1>1. CASE RecvSeesClosed(r)
    BY <1>1 DEF RecvSeesClosed
<1>2. CASE Takes(r)
    BY <1>2, TypeTakes
<1>3. CASE EvictsAll /\ ReceiverLeaves(r)
    BY <1>3, TypeEvictsAll, QueueAssumption DEF EvictsAll
<1>4. CASE RecvWaits(r)
    BY <1>4, TypeEvictsAll, QueueAssumption DEF RecvWaits, EvictsAll
<1>5. QED BY <1>1, <1>2, <1>3, <1>4 DEF RecvBody, RecvGivesUp

LEMMA TypeNext == TypeOK /\ [Next]_vars => TypeOK'
<1> SUFFICES ASSUME TypeOK, [Next]_vars PROVE TypeOK'
    OBVIOUS
<1>1. ASSUME NEW s \in Senders, SendResumes(s) PROVE TypeOK'
    <2>1. s \in notFull \cup wokenS /\ msg[s] \in Messages
        BY <1>1 DEF SendResumes, TypeOK
    <2>2. QED BY <1>1, <2>1, TypeSend DEF SendResumes
<1>2. ASSUME NEW s \in Senders, NEW m \in Messages, Send(s, m) PROVE TypeOK'
    BY <1>2, TypeSend DEF Send
<1>3. ASSUME NEW r \in Receivers, Recv(r) \/ TryRecv(r) \/ RecvResumes(r) PROVE TypeOK'
    BY <1>3, TypeRecv DEF Recv, TryRecv, RecvResumes, RecvBody
<1>4. CASE Close
    BY <1>4 DEF Close, TypeOK, history
<1>5. ASSUME NEW t \in Threads, TimesOut(t) PROVE TypeOK'
    BY <1>5 DEF TimesOut, TypeOK, history
<1>6. ASSUME NEW m \in Mortal, Expires(m) PROVE TypeOK'
    BY <1>6 DEF Expires, TypeOK, waits, history
<1>7. CASE UNCHANGED vars
    BY <1>7 DEF vars, waits, history, TypeOK
<1>8. QED BY <1>1, <1>2, <1>3, <1>4, <1>5, <1>6, <1>7 DEF Next

\* The queue never holds more than maxsize messages and its bookkeeping is
\* well formed, for every capacity and every set of threads.
THEOREM TypeCorrect == Spec => []TypeOK
    BY TypeInit, TypeNext, PTL DEF Spec

-----------------------------------------------------------------------------
(***************************************************************************)
(* Wakeups.  Counting needs the waiters and the notified threads of a side *)
(* to be different threads: that is what makes each notify add one.        *)
(***************************************************************************)
WaitersApart == notEmpty \cap wokenR = {} /\ notFull \cap wokenS = {}

LEMMA OneMoreOrLess ==
    ASSUME NEW S, IsFiniteSet(S), NEW A \in SUBSET S, NEW x \in S
    PROVE  /\ Cardinality(A) \in Nat
           /\ x \notin A => Cardinality(A \cup {x}) = Cardinality(A) + 1
           /\ Cardinality(A \ {x}) \in Nat
           /\ Cardinality(A \ {x}) >= Cardinality(A) - 1
<1>1. IsFiniteSet(A)
    BY FS_Subset
<1>2. Cardinality(A) \in Nat
    BY <1>1, FS_CardinalityType
<1>3. Cardinality(A \cup {x}) = IF x \in A THEN Cardinality(A) ELSE Cardinality(A) + 1
    BY <1>1, FS_AddElement
<1>4. Cardinality(A \ {x}) = IF x \in A THEN Cardinality(A) - 1 ELSE Cardinality(A)
    BY <1>1, FS_RemoveElement
<1>5. IsFiniteSet(A \ {x})
    BY <1>1, FS_RemoveElement
<1>6. Cardinality(A \ {x}) \in Nat
    BY <1>5, FS_CardinalityType
<1>7. QED BY <1>2, <1>3, <1>4, <1>6

LEMMA ApartInit == Init => WaitersApart
    BY DEF Init, WaitersApart

LEMMA ApartNext == TypeOK /\ WaitersApart /\ [Next]_vars => WaitersApart'
<1> SUFFICES ASSUME TypeOK, WaitersApart, [Next]_vars PROVE WaitersApart'
    OBVIOUS
<1> USE DEF WaitersApart
<1>1. ASSUME NEW s \in Senders, NEW m, SendBody(s, m) PROVE WaitersApart'
    BY <1>1 DEF SendBody, TrySend, SendRaisesClosed, SendAppends, SendGivesUp,
                SendWaits, SenderReturns, NotifyReceiver
<1>2. ASSUME NEW r \in Receivers, RecvBody(r) \/ (EvictsAll /\ ReceiverLeaves(r))
      PROVE WaitersApart'
    BY <1>2 DEF RecvBody, RecvSeesClosed, Takes, RecvGivesUp, RecvWaits,
                EvictsAll, ReceiverLeaves, NotifySender
<1>3. CASE Close
    BY <1>3 DEF Close
<1>4. ASSUME NEW t \in Threads, TimesOut(t) PROVE WaitersApart'
    BY <1>4 DEF TimesOut
<1>5. ASSUME NEW m \in Mortal, Expires(m) PROVE WaitersApart'
    BY <1>5 DEF Expires, waits
<1>6. CASE UNCHANGED vars
    BY <1>6 DEF vars, waits
<1>7. QED BY <1>1, <1>2, <1>3, <1>4, <1>5, <1>6
          DEF Next, SendResumes, Send, Recv, TryRecv, RecvResumes, RecvBody

-----------------------------------------------------------------------------
(* Receivers: holds whatever expires. *)

LEMMA ReceiverWakeupSend ==
    ASSUME TypeOK, WaitersApart, NoLostReceiverWakeup,
           NEW s \in Senders, NEW m \in Messages, SendBody(s, m)
    PROVE  NoLostReceiverWakeup'
<1> USE DEF NoLostReceiverWakeup
<1>1. CASE SendAppends(s, m)
    <2>1. Live(q) \in Seq(Messages) /\ Len(Live(q)) \in Nat /\ Len(q) \in Nat
          /\ Len(Live(q)) <= Len(q)
        BY EvictionSplits, LenProperties DEF TypeOK
    <2>2. Len(q') = Len(Live(q)) + 1
        BY <1>1, <2>1, AppendProperties DEF SendAppends
    <2>3. CASE notEmpty = {}
        BY <1>1, <2>3 DEF SendAppends, NotifyReceiver
    <2>4. CASE notEmpty # {}
        <3>1. PICK r \in notEmpty : wokenR' = wokenR \cup {r}
            BY <1>1, <2>4 DEF SendAppends, NotifyReceiver
        <3>2. r \notin wokenR /\ r \in Receivers /\ wokenR \in SUBSET Receivers
            BY DEF WaitersApart, TypeOK
        <3>3. Cardinality(wokenR') = Cardinality(wokenR) + 1 /\ Cardinality(wokenR) \in Nat
            BY <3>1, <3>2, OneMoreOrLess, QueueAssumption
        <3>4. QED BY <2>1, <2>2, <2>4, <3>3
    <2>5. QED BY <2>3, <2>4
<1>2. CASE SendRaisesClosed(s)
    BY <1>2 DEF SendRaisesClosed
<1>3. CASE SendGivesUp(s)
    BY <1>3 DEF SendGivesUp
<1>4. CASE SendWaits(s, m)
    BY <1>4 DEF SendWaits
<1>5. QED BY <1>1, <1>2, <1>3, <1>4 DEF SendBody, TrySend

LEMMA ReceiverWakeupRecv ==
    ASSUME TypeOK, WaitersApart, NoLostReceiverWakeup, NEW r \in Receivers,
           RecvBody(r) \/ (EvictsAll /\ ReceiverLeaves(r))
    PROVE  NoLostReceiverWakeup'
<1> USE DEF NoLostReceiverWakeup
<1>1. /\ wokenR \in SUBSET Receivers
      /\ Cardinality(wokenR) \in Nat /\ Cardinality(wokenR \ {r}) \in Nat
      /\ Cardinality(wokenR \ {r}) >= Cardinality(wokenR) - 1
    BY OneMoreOrLess, QueueAssumption DEF TypeOK
<1>2. CASE Takes(r)
    <2>1. /\ Len(q) \in Nat /\ Len(Live(q)) \in Nat /\ Len(Live(q)) <= Len(q)
          /\ Live(q) \in Seq(Messages) /\ Live(q) # <<>>
        BY <1>2, EvictionSplits, LenProperties DEF TypeOK, Takes
    <2>2. Len(q') = Len(Live(q)) - 1
        BY <1>2, <2>1, HeadTailProperties DEF Takes
    <2>3. wokenR' = wokenR \ {r} /\ notEmpty' \subseteq notEmpty
        BY <1>2 DEF Takes, ReceiverLeaves
    <2>4. QED BY <1>1, <2>1, <2>2, <2>3
<1>3. CASE RecvSeesClosed(r)
    BY <1>1, <1>3, EmptySeq DEF RecvSeesClosed, ReceiverLeaves
<1>4. CASE EvictsAll /\ (ReceiverLeaves(r) \/ RecvWaits(r))
    <2>1. Len(q') = 0 /\ wokenR' = wokenR \ {r}
        BY <1>4, TypeEvictsAll DEF ReceiverLeaves, RecvWaits
    <2>2. QED BY <1>1, <2>1
<1>5. QED BY <1>2, <1>3, <1>4 DEF RecvBody, RecvGivesUp, RecvWaits

LEMMA ReceiverWakeupNext ==
    TypeOK /\ WaitersApart /\ NoLostReceiverWakeup /\ [Next]_vars => NoLostReceiverWakeup'
<1> SUFFICES ASSUME TypeOK, WaitersApart, NoLostReceiverWakeup, [Next]_vars
             PROVE  NoLostReceiverWakeup'
    OBVIOUS
<1>1. ASSUME NEW s \in Senders, SendResumes(s) PROVE NoLostReceiverWakeup'
    <2>1. s \in notFull \cup wokenS /\ msg[s] \in Messages
        BY <1>1 DEF SendResumes, TypeOK
    <2>2. QED BY <1>1, <2>1, ReceiverWakeupSend DEF SendResumes
<1>2. ASSUME NEW s \in Senders, NEW m \in Messages, Send(s, m)
      PROVE NoLostReceiverWakeup'
    BY <1>2, ReceiverWakeupSend DEF Send
<1>3. ASSUME NEW r \in Receivers, Recv(r) \/ TryRecv(r) \/ RecvResumes(r)
      PROVE NoLostReceiverWakeup'
    BY <1>3, ReceiverWakeupRecv DEF Recv, TryRecv, RecvResumes, RecvBody
<1>4. CASE Close
    BY <1>4 DEF Close, NoLostReceiverWakeup
<1>5. ASSUME NEW t \in Threads, TimesOut(t) PROVE NoLostReceiverWakeup'
    BY <1>5 DEF TimesOut, NoLostReceiverWakeup
<1>6. ASSUME NEW m \in Mortal, Expires(m) PROVE NoLostReceiverWakeup'
    BY <1>6 DEF Expires, waits, NoLostReceiverWakeup
<1>7. CASE UNCHANGED vars
    BY <1>7 DEF vars, waits, NoLostReceiverWakeup
<1>8. QED BY <1>1, <1>2, <1>3, <1>4, <1>5, <1>6, <1>7 DEF Next

\* Whatever expires, no receiver sleeps through a message: the notify of a send
\* always finds its way to a receiver that will look at the queue.
THEOREM ReceiverWakeup == Spec => []NoLostReceiverWakeup
<1>1. Init => NoLostReceiverWakeup
    BY DEF Init, NoLostReceiverWakeup
<1>2. QED BY <1>1, TypeInit, TypeNext, ApartInit, ApartNext, ReceiverWakeupNext, PTL DEF Spec

-----------------------------------------------------------------------------
(***************************************************************************)
(* Senders: while no message expires, a free slot is never slept through,  *)
(* and a closed queue has no sleepers.  An eviction would free slots       *)
(* without a notify, which is why Mortal = {} is assumed.                  *)
(***************************************************************************)
SenderInv == NoLostSenderWakeup /\ ClosedHasNoSleepers

LEMMA SenderWakeupSend ==
    ASSUME TypeOK, WaitersApart, SenderInv, Mortal = {},
           NEW s \in Senders, NEW m \in Messages, SendBody(s, m)
    PROVE  SenderInv'
<1> USE DEF SenderInv, NoLostSenderWakeup, ClosedHasNoSleepers
<1>1. /\ Live(q) = q /\ Len(q) \in Nat /\ MaxSize \in Nat
    BY NothingStale, LenProperties, QueueAssumption DEF TypeOK
<1>2. /\ Cardinality(wokenS) \in Nat /\ Cardinality(wokenS \ {s}) \in Nat
      /\ Cardinality(wokenS \ {s}) >= Cardinality(wokenS) - 1
    BY OneMoreOrLess, QueueAssumption DEF TypeOK
<1>3. CASE SendAppends(s, m)
    <2>1. Len(q') = Len(q) + 1
        BY <1>1, <1>3, AppendProperties DEF SendAppends, TypeOK
    <2>2. /\ wokenS' = wokenS \ {s} /\ notFull' \subseteq notFull
          /\ ~closed'
        BY <1>3 DEF SendAppends, SenderReturns
    <2>3. QED BY <1>1, <1>2, <2>1, <2>2
<1>4. CASE SendRaisesClosed(s)
    BY <1>4 DEF SendRaisesClosed, SenderReturns
<1>5. CASE SendGivesUp(s) \/ SendWaits(s, m)
    <2>1. q' = q /\ Len(q) >= MaxSize /\ wokenS' = wokenS \ {s} /\ ~closed'
        BY <1>1, <1>5 DEF SendGivesUp, SendWaits, SenderReturns
    <2>2. QED BY <1>1, <1>2, <2>1
<1>6. QED BY <1>3, <1>4, <1>5 DEF SendBody, TrySend

LEMMA SenderWakeupRecv ==
    ASSUME TypeOK, WaitersApart, SenderInv, Mortal = {}, NEW r \in Receivers,
           RecvBody(r) \/ (EvictsAll /\ ReceiverLeaves(r))
    PROVE  SenderInv'
<1> USE DEF SenderInv, NoLostSenderWakeup, ClosedHasNoSleepers
<1>1. /\ Live(q) = q /\ Len(q) \in Nat /\ MaxSize \in Nat
      /\ Cardinality(wokenS) \in Nat
    BY NothingStale, LenProperties, QueueAssumption, FS_Subset, FS_CardinalityType DEF TypeOK
<1>2. CASE Takes(r)
    <2>1. Len(q') = Len(q) - 1
        BY <1>1, <1>2, HeadTailProperties DEF Takes, TypeOK
    <2>2. notEmpty' \subseteq notEmpty /\ notFull' \subseteq notFull /\ closed' = closed
        BY <1>2 DEF Takes, ReceiverLeaves, NotifySender
    <2>3. CASE notFull = {}
        BY <2>2, <2>3
    <2>4. CASE notFull # {}
        <3>1. PICK s \in notFull : wokenS' = wokenS \cup {s}
            BY <1>2, <2>4 DEF Takes, NotifySender
        <3>2. s \notin wokenS /\ s \in Senders /\ wokenS \in SUBSET Senders
            BY DEF WaitersApart, TypeOK
        <3>3. Cardinality(wokenS') = Cardinality(wokenS) + 1
            BY <3>1, <3>2, OneMoreOrLess, QueueAssumption
        <3>4. QED BY <1>1, <2>1, <2>2, <2>4, <3>3
    <2>5. QED BY <2>3, <2>4
<1>3. CASE RecvSeesClosed(r)
    BY <1>3 DEF RecvSeesClosed, ReceiverLeaves
<1>4. CASE EvictsAll /\ ReceiverLeaves(r)
    BY <1>1, <1>4 DEF EvictsAll, ReceiverLeaves
<1>5. CASE RecvWaits(r)
    <2>1. q = <<>> /\ ~closed
        BY <1>1, <1>5 DEF RecvWaits, EvictsAll
    <2>2. QED BY <1>5, <2>1 DEF RecvWaits, EvictsAll
<1>6. QED BY <1>2, <1>3, <1>4, <1>5 DEF RecvBody, RecvGivesUp

LEMMA SenderWakeupNext ==
    Mortal = {} =>
        (TypeOK /\ WaitersApart /\ SenderInv /\ [Next]_vars => SenderInv')
<1> SUFFICES ASSUME Mortal = {}, TypeOK, WaitersApart, SenderInv, [Next]_vars
             PROVE  SenderInv'
    OBVIOUS
<1>1. ASSUME NEW s \in Senders, SendResumes(s) PROVE SenderInv'
    <2>1. s \in notFull \cup wokenS /\ msg[s] \in Messages
        BY <1>1 DEF SendResumes, TypeOK
    <2>2. QED BY <1>1, <2>1, SenderWakeupSend DEF SendResumes
<1>2. ASSUME NEW s \in Senders, NEW m \in Messages, Send(s, m) PROVE SenderInv'
    BY <1>2, SenderWakeupSend DEF Send
<1>3. ASSUME NEW r \in Receivers, Recv(r) \/ TryRecv(r) \/ RecvResumes(r) PROVE SenderInv'
    BY <1>3, SenderWakeupRecv DEF Recv, TryRecv, RecvResumes, RecvBody
<1> USE DEF SenderInv, NoLostSenderWakeup, ClosedHasNoSleepers
<1>4. CASE Close
    BY <1>4 DEF Close
<1>5. ASSUME NEW t \in Threads, TimesOut(t) PROVE SenderInv'
    BY <1>5 DEF TimesOut
<1>6. ASSUME NEW m \in Mortal, Expires(m) PROVE SenderInv'
    BY <1>6
<1>7. CASE UNCHANGED vars
    BY <1>7 DEF vars, waits
<1>8. QED BY <1>1, <1>2, <1>3, <1>4, <1>5, <1>6, <1>7 DEF Next

LEMMA SenderInvariant == Mortal = {} => (Spec => []SenderInv)
<1> SUFFICES ASSUME Mortal = {} PROVE Spec => []SenderInv
    OBVIOUS
<1>1. Init => SenderInv
    BY DEF Init, SenderInv, NoLostSenderWakeup, ClosedHasNoSleepers
<1>2. TypeOK /\ WaitersApart /\ SenderInv /\ [Next]_vars => SenderInv'
    BY SenderWakeupNext
<1>3. QED BY <1>1, <1>2, TypeInit, TypeNext, ApartInit, ApartNext, PTL DEF Spec

\* Without expiry no sender sleeps through a free slot: a notify of recv is
\* matched one for one with a sender that will look at the queue.
THEOREM SenderWakeup == Mortal = {} => (Spec => []NoLostSenderWakeup)
<1> SUFFICES ASSUME Mortal = {} PROVE Spec => []NoLostSenderWakeup
    OBVIOUS
<1>1. Spec => []SenderInv
    BY SenderInvariant
<1>2. SenderInv => NoLostSenderWakeup
    BY DEF SenderInv
<1>3. QED BY <1>1, <1>2, PTL

\* Without expiry nobody sleeps, or goes back to sleep, on a closed queue.
THEOREM ClosedWakesAll == Mortal = {} => (Spec => []ClosedHasNoSleepers)
<1> SUFFICES ASSUME Mortal = {} PROVE Spec => []ClosedHasNoSleepers
    OBVIOUS
<1>1. Spec => []SenderInv
    BY SenderInvariant
<1>2. SenderInv => ClosedHasNoSleepers
    BY DEF SenderInv
<1>3. QED BY <1>1, <1>2, PTL

-----------------------------------------------------------------------------
(* FIFO. *)

LEMMA FifoNext == TypeOK /\ FifoOrder /\ [Next]_vars => FifoOrder'
<1> SUFFICES ASSUME TypeOK, FifoOrder, [Next]_vars PROVE FifoOrder'
    OBVIOUS
<1> USE DEF FifoOrder
<1>0. /\ q \in Seq(Messages) /\ removed \in Seq(Messages)
      /\ Live(q) \in Seq(Messages) /\ Evicted(q) \in Seq(Messages)
      /\ q = Evicted(q) \o Live(q)
    BY EvictionSplits DEF TypeOK
<1>1. accepted = (removed \o Evicted(q)) \o Live(q)
    <2>1. (removed \o Evicted(q)) \o Live(q) = removed \o (Evicted(q) \o Live(q))
        BY <1>0, ConcatAssociative
    <2>2. QED BY <1>0, <2>1
<1>2. removed \o Evicted(q) \in Seq(Messages)
    BY <1>0, ConcatProperties
<1>3. ASSUME NEW s \in Senders, NEW m \in Messages, SendBody(s, m) PROVE FifoOrder'
    <2>1. CASE SendAppends(s, m)
        <3> DEFINE R == removed \o Evicted(q)
                   L == Live(q)
        <3>1. /\ q' = L \o <<m>> /\ removed' = R
              /\ accepted' = (R \o L) \o <<m>>
            <4>1. R \o L \in Seq(Messages)
                BY <1>0, <1>2, ConcatProperties
            <4>2. QED BY <1>0, <1>1, <2>1, <4>1, AppendIsConcat DEF SendAppends
        <3>2. <<m>> \in Seq(Messages)
            BY AppendProperties, EmptySeq
        <3>3. R \in Seq(Messages) /\ L \in Seq(Messages)
            BY <1>0, <1>2
        <3> HIDE DEF R, L
        <3>4. (R \o L) \o <<m>> = R \o (L \o <<m>>)
            BY <3>2, <3>3, ConcatAssociative
        <3>5. QED BY <3>1, <3>4
    <2>2. QED BY <1>3, <2>1 DEF SendBody, TrySend, SendRaisesClosed, SendGivesUp,
                              SendWaits, history
<1>4. ASSUME NEW r \in Receivers, Takes(r) PROVE FifoOrder'
    <2> DEFINE R == removed \o Evicted(q)
               h == Head(Live(q))
               t == Tail(Live(q))
    <2>1. h \in Messages /\ t \in Seq(Messages) /\ <<h>> \in Seq(Messages)
        BY <1>0, <1>4, HeadTailProperties, EmptySeq, AppendProperties DEF Takes
    <2>2. Live(q) = <<h>> \o t
        BY <1>0, <1>4, HeadTailProperties, ConcatProperties, SeqEqual, LenProperties DEF Takes
    <2>3. removed' = R \o <<h>> /\ q' = t /\ accepted' = accepted
        BY <1>2, <1>4, <2>1, AppendIsConcat DEF Takes
    <2>4. (R \o <<h>>) \o t = R \o (<<h>> \o t)
        BY <1>2, <2>1, ConcatAssociative
    <2>5. QED BY <1>1, <2>2, <2>3, <2>4
<1>5. ASSUME EvictsAll PROVE FifoOrder'
    BY <1>1, <1>2, <1>5, ConcatEmptySeq DEF EvictsAll
<1>6. ASSUME NEW r \in Receivers, RecvBody(r) PROVE FifoOrder'
    BY <1>4, <1>5, <1>6 DEF RecvBody, RecvSeesClosed, RecvGivesUp, RecvWaits, history
<1>7. ASSUME NEW s \in Senders, SendResumes(s) PROVE FifoOrder'
    <2>1. s \in notFull \cup wokenS /\ msg[s] \in Messages
        BY <1>7 DEF SendResumes, TypeOK
    <2>2. QED BY <1>3, <1>7, <2>1 DEF SendResumes
<1>8. CASE Close \/ (\E t \in Threads : TimesOut(t)) \/ (\E m \in Mortal : Expires(m))
           \/ UNCHANGED vars
    BY <1>8 DEF Close, TimesOut, Expires, vars, history
<1>9. QED BY <1>3, <1>4, <1>5, <1>6, <1>7, <1>8 DEF Next, Send, Recv, TryRecv, RecvResumes

\* First in, first out, nothing lost and nothing twice, for every capacity, any
\* number of threads, any timeouts and any expiry.
THEOREM Fifo == Spec => []FifoOrder
<1>1. Init => FifoOrder
    BY ConcatEmptySeq, EmptySeq DEF Init, FifoOrder
<1>2. QED BY <1>1, TypeInit, TypeNext, FifoNext, PTL DEF Spec

-----------------------------------------------------------------------------
(***************************************************************************)
(* Drops.  No message enters the queue twice, because the sending threads  *)
(* hold different messages that were not accepted yet; so by FIFO order    *)
(* what leaves now never left before.                                      *)
(***************************************************************************)
NoRepeats(s) == \A i, j \in 1..Len(s) : s[i] = s[j] => i = j

SentOnce ==
    /\ NoRepeats(accepted)
    /\ \A s \in Senders : msg[s] # NoMsg =>
          /\ \A i \in 1..Len(accepted) : accepted[i] # msg[s]
          /\ \A t \in Senders : msg[t] = msg[s] => t = s

LEMMA AppendNew ==
    ASSUME NEW s \in Seq(Messages), NEW m \in Messages
    PROVE  /\ Contents(Append(s, m)) = Contents(s) \cup {m}
           /\ NoRepeats(s) /\ m \notin Contents(s) => NoRepeats(Append(s, m))
<1>1. /\ Len(s) \in Nat /\ Len(Append(s, m)) = Len(s) + 1
      /\ Append(s, m)[Len(s) + 1] = m
      /\ \A i \in 1..Len(s) : Append(s, m)[i] = s[i]
    BY LenProperties, AppendProperties
<1>2. 1..Len(s) + 1 = 1..Len(s) \cup {Len(s) + 1}
    BY <1>1
<1>3. Contents(Append(s, m)) = Contents(s) \cup {m}
    BY <1>1, <1>2 DEF Contents
<1>4. ASSUME NoRepeats(s), m \notin Contents(s) PROVE NoRepeats(Append(s, m))
    BY <1>1, <1>2, <1>4 DEF Contents, NoRepeats
<1>5. QED BY <1>3, <1>4

LEMMA ConcatContents ==
    ASSUME NEW s \in Seq(Messages), NEW t \in Seq(Messages)
    PROVE  Contents(s \o t) = Contents(s) \cup Contents(t)
<1>1. /\ Len(s) \in Nat /\ Len(t) \in Nat /\ Len(s \o t) = Len(s) + Len(t)
      /\ \A i \in 1..Len(s) + Len(t) :
            (s \o t)[i] = IF i <= Len(s) THEN s[i] ELSE t[i - Len(s)]
    BY LenProperties, ConcatProperties
<1>2. Contents(s \o t) \subseteq Contents(s) \cup Contents(t)
    BY <1>1 DEF Contents
<1>3. Contents(s) \subseteq Contents(s \o t)
    BY <1>1 DEF Contents
<1>4. ASSUME NEW i \in 1..Len(t) PROVE t[i] \in Contents(s \o t)
    <2>1. Len(s) + i \in 1..Len(s) + Len(t) /\ ~(Len(s) + i <= Len(s))
          /\ (Len(s) + i) - Len(s) = i
        BY <1>1
    <2>2. (s \o t)[Len(s) + i] = t[i]
        BY <1>1, <2>1
    <2>3. QED BY <1>1, <2>1, <2>2 DEF Contents
<1>5. QED BY <1>2, <1>3, <1>4 DEF Contents

\* In a sequence without repeats what follows a prefix is not in the prefix.
LEMMA ApartAfterPrefix ==
    ASSUME NEW s \in Seq(Messages), NEW t \in Seq(Messages), NoRepeats(s \o t)
    PROVE  Contents(s) \cap Contents(t) = {}
<1>1. /\ Len(s) \in Nat /\ Len(t) \in Nat /\ Len(s \o t) = Len(s) + Len(t)
      /\ \A i \in 1..Len(s) + Len(t) :
            (s \o t)[i] = IF i <= Len(s) THEN s[i] ELSE t[i - Len(s)]
    BY LenProperties, ConcatProperties
<1>2. ASSUME NEW i \in 1..Len(s), NEW j \in 1..Len(t), s[i] = t[j] PROVE FALSE
    <2>1. Len(s) + j \in 1..Len(s) + Len(t) /\ ~(Len(s) + j <= Len(s))
          /\ (Len(s) + j) - Len(s) = j /\ i \in 1..Len(s) + Len(t) /\ i <= Len(s)
          /\ Len(s) + j # i
        BY <1>1
    <2>2. (s \o t)[Len(s) + j] = t[j] /\ (s \o t)[i] = s[i]
        BY <1>1, <2>1
    <2>3. QED BY <1>1, <1>2, <2>1, <2>2 DEF NoRepeats
<1>3. QED BY <1>2 DEF Contents

\* Counting the members of a sequence without repeats counts its positions.
LEMMA CountWithoutRepeats ==
    ASSUME NEW s \in Seq(Messages), NoRepeats(s)
    PROVE  Cardinality(Contents(s)) = Len(s)
<1> DEFINE f == [i \in 1..Len(s) |-> s[i]]
<1>1. Len(s) \in Nat
    BY LenProperties
<1>2. IsFiniteSet(1..Len(s)) /\ Cardinality(1..Len(s)) = Len(s)
    <2>1. 1 <= Len(s) \/ Len(s) = 0
        BY <1>1
    <2>2. QED BY <1>1, <2>1, FS_Interval
<1>3. f \in Bijection(1..Len(s), Contents(s))
    BY DEF Bijection, Injection, Surjection, IsInjective, NoRepeats, Contents
<1>4. ExistsBijection(1..Len(s), Contents(s))
    BY <1>3 DEF ExistsBijection
<1>5. QED BY <1>2, <1>4, FS_Bijection

LEMMA SentOnceSend ==
    ASSUME TypeOK, SentOnce, NEW s \in Senders, NEW m \in Messages, SendBody(s, m),
           \/ Unsent(m)
           \/ msg[s] = m
    PROVE  SentOnce'
<1>1. /\ accepted \in Seq(Messages) /\ msg \in [Senders -> Messages \cup {NoMsg}]
      /\ m # NoMsg
    BY QueueAssumption DEF TypeOK
<1>2. m \notin Contents(accepted)
    BY <1>1 DEF Unsent, SentOnce, Contents
<1>3. \A t \in Senders \ {s} : msg[t] # m
    BY <1>1 DEF Unsent, SentOnce
<1>4. CASE SendAppends(s, m)
    <2>1. accepted' = Append(accepted, m) /\ msg' = [msg EXCEPT ![s] = NoMsg]
        BY <1>4 DEF SendAppends, SenderReturns
    <2>2. NoRepeats(accepted') /\ Contents(accepted') = Contents(accepted) \cup {m}
        BY <1>1, <1>2, <2>1, AppendNew DEF SentOnce
    <2>3. ASSUME NEW t \in Senders, msg'[t] # NoMsg
          PROVE  /\ msg'[t] \notin Contents(accepted')
                 /\ \A u \in Senders : msg'[u] = msg'[t] => u = t
        <3>1. t # s /\ msg'[t] = msg[t] /\ msg[t] # NoMsg
            BY <1>1, <2>1, <2>3
        <3>2. msg[t] \notin Contents(accepted) /\ msg[t] # m
            BY <1>3, <3>1 DEF SentOnce, Contents
        <3>3. QED BY <1>1, <2>1, <2>2, <3>1, <3>2 DEF SentOnce
    <2>4. \A t \in Senders : msg'[t] # NoMsg => \A i \in 1..Len(accepted') : accepted'[i] # msg'[t]
        BY <2>3 DEF Contents
    <2>5. QED BY <2>2, <2>3, <2>4 DEF SentOnce
<1>5. CASE SendRaisesClosed(s) \/ SendGivesUp(s)
    <2>1. accepted' = accepted /\ msg' = [msg EXCEPT ![s] = NoMsg]
        BY <1>5 DEF SendRaisesClosed, SendGivesUp, SenderReturns, history
    <2>2. QED BY <1>1, <2>1 DEF SentOnce, NoRepeats
<1>6. CASE SendWaits(s, m)
    <2>1. accepted' = accepted /\ msg' = [msg EXCEPT ![s] = m]
        BY <1>6 DEF SendWaits, history
    <2>2. QED BY <1>1, <1>2, <1>3, <2>1 DEF SentOnce, NoRepeats, Contents
<1>7. QED BY <1>4, <1>5, <1>6 DEF SendBody, TrySend

LEMMA SentOnceNext == TypeOK /\ SentOnce /\ [Next]_vars => SentOnce'
<1> SUFFICES ASSUME TypeOK, SentOnce, [Next]_vars PROVE SentOnce'
    OBVIOUS
<1>1. ASSUME NEW s \in Senders, SendResumes(s) PROVE SentOnce'
    <2>1. s \in notFull \cup wokenS /\ msg[s] \in Messages
        BY <1>1 DEF SendResumes, TypeOK
    <2>2. QED BY <1>1, <2>1, SentOnceSend DEF SendResumes
<1>2. ASSUME NEW s \in Senders, NEW m \in Messages, Send(s, m) PROVE SentOnce'
    BY <1>2, SentOnceSend DEF Send
<1>3. CASE UNCHANGED <<accepted, msg>>
    BY <1>3 DEF SentOnce, NoRepeats
<1>4. ASSUME NEW r \in Receivers, Recv(r) \/ TryRecv(r) \/ RecvResumes(r)
      PROVE  UNCHANGED <<accepted, msg>>
    BY <1>4 DEF Recv, TryRecv, RecvResumes, RecvBody, RecvSeesClosed, Takes, RecvGivesUp,
                RecvWaits, EvictsAll, history
<1>5. CASE Close \/ (\E t \in Threads : TimesOut(t)) \/ (\E m \in Mortal : Expires(m))
           \/ UNCHANGED vars
    BY <1>3, <1>5 DEF Close, TimesOut, Expires, vars, waits, history
<1>6. QED BY <1>1, <1>2, <1>3, <1>4, <1>5 DEF Next

\* What is dropped had expired, what is received left once.
DropInv ==
    /\ Contents(removed) \ Contents(received) \subseteq expired
    /\ Contents(received) \subseteq Contents(removed)
    /\ NoRepeats(received)

\* Eviction only drops what has expired.
LEMMA EvictedExpired ==
    ASSUME TypeOK
    PROVE  Contents(Evicted(q)) \subseteq expired
<1>1. /\ Stale(q) \in 0..Len(q) /\ \A i \in 1..Stale(q) : q[i] \in expired
      /\ Len(q) \in Nat /\ q \in Seq(Messages)
    BY StaleType, LenProperties DEF TypeOK
<1>2. Len(Evicted(q)) = Stale(q) /\ \A i \in 1..Stale(q) : Evicted(q)[i] = q[i]
    BY <1>1, SubSeqProperties DEF Evicted
<1>3. QED BY <1>1, <1>2 DEF Contents

LEMMA DropTakes ==
    ASSUME TypeOK, FifoOrder, SentOnce, DropInv, NEW r \in Receivers, Takes(r)
    PROVE  DropInv'
<1> DEFINE h == Head(Live(q))
           R == removed \o Evicted(q)
<1>1. /\ q \in Seq(Messages) /\ removed \in Seq(Messages) /\ received \in Seq(Messages)
      /\ Live(q) \in Seq(Messages) /\ Evicted(q) \in Seq(Messages)
      /\ q = Evicted(q) \o Live(q) /\ Live(q) # <<>>
    BY EvictionSplits DEF TypeOK, Takes
<1>2. h \in Messages /\ h \in Contents(Live(q))
    BY <1>1, HeadTailProperties, LenProperties DEF Contents
<1>3. R \in Seq(Messages) /\ Contents(R) = Contents(removed) \cup Contents(Evicted(q))
    BY <1>1, ConcatContents, ConcatProperties
<1>4. /\ removed' = Append(R, h) /\ received' = Append(received, h)
      /\ expired' = expired
    BY DEF Takes
<1>5. h \notin Contents(received)
    <2>1. h \in Contents(q)
        BY <1>1, <1>2, ConcatContents
    <2>2. Contents(removed) \cap Contents(q) = {}
        BY <1>1, ApartAfterPrefix DEF FifoOrder, SentOnce
    <2>3. QED BY <2>1, <2>2 DEF DropInv
<1> HIDE DEF h, R
<1>6. /\ Contents(removed') = Contents(R) \cup {h}
      /\ Contents(received') = Contents(received) \cup {h}
      /\ NoRepeats(received')
    BY <1>1, <1>2, <1>3, <1>4, <1>5, AppendNew DEF DropInv
<1>7. QED BY <1>3, <1>4, <1>6, EvictedExpired DEF DropInv

LEMMA DropNext == TypeOK /\ FifoOrder /\ SentOnce /\ DropInv /\ [Next]_vars => DropInv'
<1> SUFFICES ASSUME TypeOK, FifoOrder, SentOnce, DropInv, [Next]_vars PROVE DropInv'
    OBVIOUS
<1>1. ASSUME removed' = removed \o Evicted(q), UNCHANGED <<received, expired>>
      PROVE  DropInv'
    <2>1. Contents(removed') = Contents(removed) \cup Contents(Evicted(q))
        BY <1>1, EvictionSplits, ConcatContents DEF TypeOK
    <2>2. QED BY <1>1, <2>1, EvictedExpired DEF DropInv, NoRepeats, Contents
<1>2. ASSUME UNCHANGED <<removed, received>>, expired \subseteq expired' PROVE DropInv'
    BY <1>2 DEF DropInv, NoRepeats, Contents
<1>3. ASSUME NEW s \in Senders, NEW m, SendBody(s, m) PROVE DropInv'
    BY <1>1, <1>2, <1>3 DEF SendBody, TrySend, SendRaisesClosed, SendAppends, SendGivesUp,
                           SendWaits, history
<1>4. ASSUME NEW r \in Receivers, Recv(r) \/ TryRecv(r) \/ RecvResumes(r) PROVE DropInv'
    BY <1>1, <1>2, <1>4, DropTakes DEF Recv, TryRecv, RecvResumes, RecvBody, RecvSeesClosed,
                                      RecvGivesUp, RecvWaits, EvictsAll, history
<1>5. CASE Close \/ (\E t \in Threads : TimesOut(t)) \/ (\E m \in Mortal : Expires(m))
           \/ UNCHANGED vars
    BY <1>2, <1>5 DEF Close, TimesOut, Expires, vars, waits, history
<1>6. QED BY <1>3, <1>4, <1>5 DEF Next, Send, SendResumes

\* _evict_expired drops only messages whose time-to-live had run out, and recv
\* and try_recv return no message twice, for every capacity and any timing.
THEOREM DropsOnlyTheExpired == Spec => []OnlyExpiredDropped
<1>1. Init => SentOnce /\ DropInv
    BY EmptySeq DEF Init, SentOnce, DropInv, NoRepeats, Contents
<1>2. Init => FifoOrder
    BY ConcatEmptySeq, EmptySeq DEF Init, FifoOrder
<1>3. TypeOK /\ DropInv => OnlyExpiredDropped
    BY CountWithoutRepeats DEF TypeOK, DropInv, OnlyExpiredDropped
<1>4. QED BY <1>1, <1>2, <1>3, TypeInit, TypeNext, FifoNext, SentOnceNext, DropNext, PTL DEF Spec

LEMMA TakesTheLive ==
    ASSUME TypeOK, NEW r \in Receivers, Takes(r)
    PROVE  received'[Len(received')] \notin expired
<1>1. /\ q \in Seq(Messages) /\ Live(q) \in Seq(Messages) /\ Live(q) # <<>>
      /\ received \in Seq(Messages)
    BY EvictionSplits DEF TypeOK, Takes
<1>2. /\ Stale(q) \in 0..Len(q) /\ Len(q) \in Nat
      /\ Stale(q) = Len(q) \/ q[Stale(q) + 1] \notin expired
    BY <1>1, StaleType, LenProperties
<1>3. Len(Live(q)) = Len(q) - Stale(q)
    BY <1>1, <1>2, SubSeqProperties DEF Live
<1>4. Stale(q) # Len(q)
    <2>1. Len(Live(q)) # 0
        BY <1>1, EmptySeq
    <2>2. QED BY <1>2, <1>3, <2>1
<1>5. Live(q)[1] = q[Stale(q) + 1]
    BY <1>1, <1>2, <1>4, SubSeqProperties DEF Live
<1>6. Head(Live(q)) = Live(q)[1] /\ Head(Live(q)) \in Messages
    BY <1>1, HeadTailProperties
<1>7. received'[Len(received')] = Head(Live(q))
    BY <1>1, <1>6, AppendProperties, LenProperties DEF Takes
<1>8. QED BY <1>2, <1>4, <1>5, <1>6, <1>7

\* recv and try_recv evict before they take: no receiver is ever handed a
\* message that had expired while it waited.
THEOREM OnlyTheLiveDelivered == Spec => NeverDeliversExpired
<1>1. TypeOK /\ [Next]_vars =>
          [received' # received => received'[Len(received')] \notin expired]_vars
    <2> SUFFICES ASSUME TypeOK, Next, received' # received
                 PROVE  received'[Len(received')] \notin expired
        OBVIOUS
    <2>1. PICK r \in Receivers : Takes(r)
        BY DEF Next, Send, SendResumes, SendBody, TrySend, SendRaisesClosed, SendAppends,
               SendGivesUp, SendWaits, Recv, TryRecv, RecvResumes, RecvBody, RecvSeesClosed,
               RecvGivesUp, RecvWaits, EvictsAll, Close, TimesOut, Expires, history
    <2>2. QED BY <2>1, TakesTheLive
<1>2. QED BY <1>1, TypeInit, TypeNext, PTL DEF Spec, NeverDeliversExpired
=============================================================================
