---------------------------- MODULE MessageQueue ----------------------------
(***************************************************************************)
(* MessageQueue of os/core/aios_ipc.py: a bounded FIFO shared by sending   *)
(* and receiving threads, with blocking and non-blocking calls, timeouts,  *)
(* messages that expire while they wait, and close.                        *)
(*                                                                         *)
(* One lock guards the queue and both of its condition variables, so every *)
(* stretch of code between two waits is one action.  A call that has to    *)
(* wait adds its thread to notFull or notEmpty; notify moves one waiter to *)
(* wokenS or wokenR, from where it runs the loop body again.  Which waiter *)
(* notify picks is left open, as the documentation of threading.Condition  *)
(* leaves it open.                                                         *)
(***************************************************************************)
EXTENDS Naturals, Sequences, FiniteSets

CONSTANTS Senders,     \* threads that call send and try_send
          Receivers,   \* threads that call recv and try_recv
          Messages,    \* the Message objects that may be sent
          Mortal,      \* those whose time-to-live can run out
          MaxSize,     \* maxsize of the queue
          NoMsg        \* no message

ASSUME QueueAssumption ==
    /\ IsFiniteSet(Senders) /\ IsFiniteSet(Receivers)
    /\ Mortal \subseteq Messages
    /\ MaxSize \in Nat \ {0}
    /\ NoMsg \notin Messages

VARIABLES
    q,          \* _q
    closed,     \* _closed
    expired,    \* the messages for which is_expired() is now true
    notFull,    \* senders waiting on _not_full, not notified
    notEmpty,   \* receivers waiting on _not_empty, not notified
    wokenS,     \* notified senders that have not yet re-acquired the lock
    wokenR,     \* notified receivers that have not yet re-acquired the lock
    late,       \* waiting threads whose timeout has run out
    msg,        \* the message a waiting sender holds
    accepted,   \* every message appended so far, in order (_send_count is its length)
    removed,    \* every message that left the queue, in order
    received    \* every message returned to a receiver (_recv_count is its length)

history == <<accepted, removed, received>>
waits   == <<notFull, notEmpty, wokenS, wokenR, late, msg>>
vars    == <<q, closed, expired, waits, history>>

Threads == Senders \cup Receivers

Init ==
    /\ q = <<>>
    /\ closed = FALSE
    /\ expired = {}
    /\ notFull = {} /\ notEmpty = {}
    /\ wokenS = {} /\ wokenR = {}
    /\ late = {}
    /\ msg = [s \in Senders |-> NoMsg]
    /\ accepted = <<>> /\ removed = <<>> /\ received = <<>>

-----------------------------------------------------------------------------
\* A fault: eviction goes on up to the last expired message anywhere.
StaleAnywhere(s) == CHOOSE k \in 0..Len(s) :
                        /\ k = 0 \/ s[k] \in expired
                        /\ \A i \in k + 1..Len(s) : s[i] \notin expired

\* _evict_expired drops expired messages from the head, up to the first live one.
Stale(s) == CHOOSE k \in 0..Len(s) :
                /\ \A i \in 1..k : s[i] \in expired
                /\ k = Len(s) \/ s[k + 1] \notin expired

\* A fault: expired messages are filtered out wherever they are.
LiveAnywhere(s) == SelectSeq(s, LAMBDA m : m \notin expired)

Live(s) == SubSeq(s, Stale(s) + 1, Len(s))

Evicted(s) == SubSeq(s, 1, Stale(s))

Idle(t) == t \notin notFull \cup notEmpty \cup wokenS \cup wokenR

\* A message is sent by one call at a time and enters the queue once.
Unsent(m) == /\ \A i \in 1..Len(accepted) : accepted[i] # m
             /\ \A s \in Senders : msg[s] # m

NotifyReceiver ==
    IF notEmpty = {} THEN UNCHANGED <<notEmpty, wokenR>>
    ELSE \E r \in notEmpty : /\ notEmpty' = notEmpty \ {r}
                             /\ wokenR' = wokenR \cup {r}

NotifySender ==
    IF notFull = {} THEN UNCHANGED <<notFull, wokenS>>
    ELSE \E s \in notFull : /\ notFull' = notFull \ {s}
                            /\ wokenS' = wokenS \cup {s}

SenderReturns(s) ==
    /\ notFull' = notFull \ {s}
    /\ wokenS' = wokenS \ {s}
    /\ late' = late \ {s}
    /\ msg' = [msg EXCEPT ![s] = NoMsg]

-----------------------------------------------------------------------------
(* The body of the loop of send, run by s holding the lock.                *)

SendRaisesClosed(s) ==
    /\ closed
    /\ SenderReturns(s)
    /\ UNCHANGED <<q, closed, expired, notEmpty, wokenR, history>>

\* A fault: the capacity test is off by one.
SendAppendsOneMore(s, m) ==
    /\ ~closed
    /\ Len(Live(q)) <= MaxSize
    /\ q' = Append(Live(q), m)
    /\ removed' = removed \o Evicted(q)
    /\ accepted' = Append(accepted, m)
    /\ SenderReturns(s)
    /\ NotifyReceiver
    /\ UNCHANGED <<closed, expired, received>>

\* A fault: only a message for an empty queue is announced.
SendAppendsIfFirst(s, m) ==
    /\ ~closed
    /\ Len(Live(q)) < MaxSize
    /\ q' = Append(Live(q), m)
    /\ removed' = removed \o Evicted(q)
    /\ accepted' = Append(accepted, m)
    /\ SenderReturns(s)
    /\ IF q = <<>> THEN NotifyReceiver ELSE UNCHANGED <<notEmpty, wokenR>>
    /\ UNCHANGED <<closed, expired, received>>

\* A fault: no message is announced.
SendAppendsSilently(s, m) ==
    /\ ~closed
    /\ Len(Live(q)) < MaxSize
    /\ q' = Append(Live(q), m)
    /\ removed' = removed \o Evicted(q)
    /\ accepted' = Append(accepted, m)
    /\ SenderReturns(s)
    /\ UNCHANGED <<closed, expired, notEmpty, wokenR, received>>

SendAppends(s, m) ==
    /\ ~closed
    /\ Len(Live(q)) < MaxSize
    /\ q' = Append(Live(q), m)
    /\ removed' = removed \o Evicted(q)
    /\ accepted' = Append(accepted, m)
    /\ SenderReturns(s)
    /\ NotifyReceiver
    /\ UNCHANGED <<closed, expired, received>>

\* remaining <= 0: no slot, no time (try_send raises QueueFullError here).
SendGivesUp(s) ==
    /\ ~closed
    /\ Len(Live(q)) >= MaxSize
    /\ SenderReturns(s)
    /\ UNCHANGED <<q, closed, expired, notEmpty, wokenR, history>>

SendWaits(s, m) ==
    /\ ~closed
    /\ Len(Live(q)) >= MaxSize
    /\ s \notin late
    /\ notFull' = notFull \cup {s}
    /\ wokenS' = wokenS \ {s}
    /\ msg' = [msg EXCEPT ![s] = m]
    /\ UNCHANGED <<q, closed, expired, notEmpty, wokenR, late, history>>

TrySend(s, m) == SendRaisesClosed(s) \/ SendAppends(s, m) \/ SendGivesUp(s)
SendBody(s, m) == TrySend(s, m) \/ SendWaits(s, m)

\* A new call of send, or of try_send, which never waits.
Send(s, m) == Idle(s) /\ Unsent(m) /\ SendBody(s, m)

\* A waiting sender holds the lock again, because it was notified or timed out.
SendResumes(s) == s \in wokenS \cup (notFull \cap late) /\ SendBody(s, msg[s])

-----------------------------------------------------------------------------
(* The body of the loop of recv, run by r holding the lock.                *)

ReceiverLeaves(r) ==
    /\ notEmpty' = notEmpty \ {r}
    /\ wokenR' = wokenR \ {r}
    /\ late' = late \ {r}

RecvSeesClosed(r) ==
    /\ closed /\ q = <<>>
    /\ ReceiverLeaves(r)
    /\ UNCHANGED <<q, closed, expired, notFull, wokenS, msg, history>>

\* A fault: the queue is not evicted before a message is taken.
TakesUnchecked(r) ==
    /\ q # <<>>
    /\ q' = Tail(q)
    /\ removed' = Append(removed, Head(q))
    /\ received' = Append(received, Head(q))
    /\ ReceiverLeaves(r)
    /\ NotifySender
    /\ UNCHANGED <<closed, expired, msg, accepted>>

\* A fault: no freed slot is announced.
TakesSilently(r) ==
    /\ Live(q) # <<>>
    /\ q' = Tail(Live(q))
    /\ removed' = Append(removed \o Evicted(q), Head(Live(q)))
    /\ received' = Append(received, Head(Live(q)))
    /\ ReceiverLeaves(r)
    /\ UNCHANGED <<closed, expired, notFull, wokenS, msg, accepted>>

Takes(r) ==
    /\ Live(q) # <<>>
    /\ q' = Tail(Live(q))
    /\ removed' = Append(removed \o Evicted(q), Head(Live(q)))
    /\ received' = Append(received, Head(Live(q)))
    /\ ReceiverLeaves(r)
    /\ NotifySender
    /\ UNCHANGED <<closed, expired, msg, accepted>>

EvictsAll ==
    /\ Live(q) = <<>>
    /\ q' = <<>>
    /\ removed' = removed \o Evicted(q)
    /\ UNCHANGED <<closed, expired, notFull, wokenS, msg, accepted, received>>

RecvGivesUp(r) == ~(closed /\ q = <<>>) /\ EvictsAll /\ ReceiverLeaves(r)

RecvWaits(r) ==
    /\ ~(closed /\ q = <<>>)
    /\ r \notin late
    /\ EvictsAll
    /\ notEmpty' = notEmpty \cup {r}
    /\ wokenR' = wokenR \ {r}
    /\ UNCHANGED late

RecvBody(r) == RecvSeesClosed(r) \/ Takes(r) \/ RecvGivesUp(r) \/ RecvWaits(r)

Recv(r) == Idle(r) /\ RecvBody(r)

RecvResumes(r) == r \in wokenR \cup (notEmpty \cap late) /\ RecvBody(r)

\* try_recv takes a message of a closed queue too and raises when there is none.
TryRecv(r) == Idle(r) /\ (Takes(r) \/ (EvictsAll /\ ReceiverLeaves(r)))

-----------------------------------------------------------------------------
\* A fault: close notifies the receivers only.
CloseWakesReceivers ==
    /\ closed' = TRUE
    /\ wokenR' = wokenR \cup notEmpty /\ notEmpty' = {}
    /\ UNCHANGED <<q, expired, notFull, wokenS, late, msg, history>>

Close ==
    /\ closed' = TRUE
    /\ wokenR' = wokenR \cup notEmpty /\ notEmpty' = {}
    /\ wokenS' = wokenS \cup notFull /\ notFull' = {}
    /\ UNCHANGED <<q, expired, late, msg, history>>

\* The clock: the wait of t runs out; the time-to-live of m runs out.
TimesOut(t) ==
    /\ t \in (notFull \cup notEmpty) \ late
    /\ late' = late \cup {t}
    /\ UNCHANGED <<q, closed, expired, notFull, notEmpty, wokenS, wokenR, msg, history>>

Expires(m) ==
    /\ m \in Mortal \ expired
    /\ expired' = expired \cup {m}
    /\ UNCHANGED <<q, closed, waits, history>>

Next ==
    \/ \E s \in Senders : SendResumes(s) \/ \E m \in Messages : Send(s, m)
    \/ \E r \in Receivers : Recv(r) \/ TryRecv(r) \/ RecvResumes(r)
    \/ Close
    \/ \E t \in Threads : TimesOut(t)
    \/ \E m \in Mortal : Expires(m)

Spec == Init /\ [][Next]_vars

\* Notified threads are scheduled again and the receivers are service loops
\* that call recv whenever they are idle.  Timeouts are never relied on.
FairSpec ==
    /\ Spec
    /\ \A s \in Senders : WF_vars(SendResumes(s))
    /\ \A r \in Receivers : WF_vars(RecvResumes(r)) /\ WF_vars(Recv(r))

-----------------------------------------------------------------------------
TypeOK ==
    /\ q \in Seq(Messages)
    /\ Len(q) <= MaxSize
    /\ closed \in BOOLEAN
    /\ expired \subseteq Mortal
    /\ notFull \subseteq Senders /\ wokenS \subseteq Senders
    /\ notEmpty \subseteq Receivers /\ wokenR \subseteq Receivers
    /\ late \subseteq Threads
    /\ msg \in [Senders -> Messages \cup {NoMsg}]
    /\ \A s \in notFull \cup wokenS : msg[s] \in Messages
    /\ accepted \in Seq(Messages)
    /\ removed \in Seq(Messages)
    /\ received \in Seq(Messages)

\* A notify is never lost on the receiving side: while receivers sleep, there
\* are at least as many notified receivers on their way as there are messages
\* (or sleepers, when those are fewer).  Guards the notify() of send and
\* try_send against eviction, timeouts and calls that overtake a woken thread.
NoLostReceiverWakeup ==
    \/ Cardinality(wokenR) >= Len(q)
    \/ notEmpty = {}

\* The same for senders and free slots.  Holds only while nothing expires:
\* an eviction frees slots without a notify.
NoLostSenderWakeup ==
    \/ Cardinality(wokenS) + Len(q) >= MaxSize
    \/ notFull = {}

\* FIFO without loss or duplication: what was accepted is what left the queue
\* followed by what is still in it, in order.
FifoOrder == accepted = removed \o q

\* A message that left without being returned to a receiver had expired, and
\* no message is returned twice (the queue's counters: every removal that is
\* not a receive is a drop).
Contents(s) == {s[i] : i \in 1..Len(s)}

OnlyExpiredDropped ==
    /\ Contents(removed) \ Contents(received) \subseteq expired
    /\ Contents(received) \subseteq Contents(removed)
    /\ Cardinality(Contents(received)) = Len(received)

\* recv and try_recv never hand out a message that expired while it waited.
NeverDeliversExpired ==
    [][received' # received => received'[Len(received')] \notin expired]_vars

\* Once close() has returned, nobody is asleep on the queue.
ClosedHasNoSleepers == closed => notFull \cup notEmpty = {}

\* A receiver that close() found waiting does not go back to sleep ("Close the
\* queue. Unblocks all waiting threads.").
ClosedNeverSleepsAgain ==
    [][closed => \A r \in wokenR : r \notin notEmpty']_vars

\* Every message accepted is eventually received or dropped as expired.
EventuallyLeaves ==
    \A m \in Messages : (m \in Contents(accepted)) ~> (m \in Contents(removed))

\* A sender blocked by a full queue is released by the receivers alone,
\* without its timeout.
BackpressureReleases == \A s \in Senders : (s \in notFull) ~> (s \notin notFull)
=============================================================================
