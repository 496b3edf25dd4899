---------------------------- MODULE NameQueries ----------------------------
(***************************************************************************)
(* The DNS stub of os/networking/aios_network.py: DNSStub.resolve, called  *)
(* from several threads, and handle_udp_payload, called from the receive   *)
(* thread.                                                                 *)
(*                                                                         *)
(* Both touch _pending under a lock, and the event and container of a      *)
(* query outside it.  The network may lose, delay, repeat and reorder      *)
(* answers.  An answer holds addresses, nothing of use, or an alias.       *)
(* Packet layout, ports and the outbound filter, which lets every query to *)
(* the configured server pass, are left out.                               *)
(***************************************************************************)
EXTENDS Naturals

CONSTANTS Callers,      \* threads that resolve names
          Names,
          Ids,          \* query_id: 1..65535 in the code, chosen at random
          UniqueIds,    \* is an id that was used never drawn again
          MaxRetries,   \* DNS_MAX_RETRIES
          NoCaller, NoId

ASSUME QueryAssumption ==
    /\ MaxRetries \in Nat \ {0} /\ UniqueIds \in BOOLEAN
    /\ NoCaller \notin Callers /\ NoId \notin Ids
    /\ Names # {} /\ Names \cap {"none", "addresses", "nothing"} = {}

VARIABLES
    pending,    \* _pending: whose query an id belongs to
    call,       \* what each caller does: the locals of resolve
    sent,       \* all queries the server has received
    handling,   \* the answer the receive thread holds between lock and signal
    outcome     \* what each caller's last resolve_dns came to

dnsVars == <<pending, call, sent, handling, outcome>>

(* queries and handled are histories: how many queries this resolve_dns has sent, *)
(* and whether the answer to the open one was received.                           *)
Calls ==
    [step : {"idle", "draws", "sends", "awaits"}, name : Names, id : Ids \cup {NoId},
     retries : 0..MaxRetries, attempt : 0..MaxRetries, queries : Nat,
     answer : {"none", "addresses", "nothing"} \cup Names, handled : BOOLEAN]

Idle == [step |-> "idle", name |-> CHOOSE n \in Names : TRUE, id |-> NoId, retries |-> 0,
         attempt |-> 0, queries |-> 0, answer |-> "none", handled |-> FALSE]

Nothing == [to |-> NoCaller, what |-> "none"]

DnsInit ==
    /\ pending = [i \in Ids |-> NoCaller]
    /\ call = [c \in Callers |-> Idle]
    /\ sent = {} /\ handling = Nothing
    /\ outcome = [c \in Callers |-> "none"]

-----------------------------------------------------------------------------
\* The id of a query that is in flight, or was.
Used(i) == (\E q \in sent : q.id = i) \/ (\E c \in Callers : call[c].id = i)

Returns(c, what) ==
    /\ call' = [call EXCEPT ![c] = Idle]
    /\ outcome' = [outcome EXCEPT ![c] = what]

Continues(c, locals) == call' = [call EXCEPT ![c] = locals] /\ UNCHANGED outcome

\* resolve_dns: when the sentinel is not running, or the router's address is not in
\* the cache, it raises at once.
ResolveDns(c, n) ==
    /\ call[c].step = "idle"
    /\ \/ Returns(c, "EtherSentinelError")
       \/ Continues(c, [Idle EXCEPT !.step = "draws", !.name = n,
                                    !.retries = MaxRetries, !.attempt = 1])
    /\ UNCHANGED <<pending, sent, handling>>

\* An id is drawn and the waiter registered under it, before the query is sent.
RegistersQuery(c, i) ==
    /\ call[c].step = "draws"
    /\ UniqueIds => ~Used(i) /\ \A j \in Ids : j < i => Used(j)   \* ids are interchangeable
    /\ pending' = [pending EXCEPT ![i] = c]
    /\ Continues(c, [call[c] EXCEPT !.step = "sends", !.id = i])
    /\ UNCHANGED <<sent, handling>>

SendsQuery(c) ==
    /\ call[c].step = "sends"
    /\ sent' = sent \cup {[id |-> call[c].id, name |-> call[c].name]}
    /\ Continues(c, [call[c] EXCEPT !.step = "awaits", !.queries = @ + 1])
    /\ UNCHANGED <<pending, handling>>

\* A fault: the id stays registered.
ForgetsNothing(c) ==
    /\ UNCHANGED pending
    /\ handling' = IF handling.to = c THEN Nothing ELSE handling

\* The finally clause: the id is forgotten, whoever registered it last, and the
\* event and container of this attempt are out of reach.
Forgets(c) ==
    /\ pending' = [pending EXCEPT ![call[c].id] = NoCaller]
    /\ handling' = IF handling.to = c THEN Nothing ELSE handling

SendFails(c) ==
    /\ call[c].step = "sends"
    /\ Forgets(c) /\ Returns(c, "EtherSentinelError")
    /\ UNCHANGED sent

\* The loop's next attempt: a new event, an empty container, another id.
Retries(c, locals) ==
    Continues(c, [locals EXCEPT !.step = "draws", !.id = NoId,
                                !.answer = "none", !.handled = FALSE])

\* No answer in time: the next attempt, or DNSTimeoutError.
QueryTimesOut(c) ==
    /\ call[c].step = "awaits" /\ call[c].answer = "none"
    /\ Forgets(c)
    /\ IF call[c].attempt < call[c].retries
       THEN Retries(c, [call[c] EXCEPT !.attempt = @ + 1])
       ELSE Returns(c, "EtherSentinelError")
    /\ UNCHANGED sent

\* A fault: the call that follows an alias gets the whole budget again.
FollowsAliasAfresh(c, n) ==
    \/ Returns(c, "EtherSentinelError")
    \/ Retries(c, [call[c] EXCEPT !.name = n, !.attempt = 1])

\* self.resolve(cnames[0], qtype, retries - attempt): it looks up the router
\* again; its loop runs only if something of the budget is left, and otherwise it
\* raises last_exc, which is None.
FollowsAlias(c, n) ==
    LET left == call[c].retries - call[c].attempt IN
    \/ Returns(c, "EtherSentinelError")
    \/ left > 0 /\ Retries(c, [call[c] EXCEPT !.name = n, !.retries = left, !.attempt = 1])
    \/ left = 0 /\ Returns(c, "TypeError")

\* The event is set: the first response in the container decides.
ReadsAnswer(c) ==
    /\ call[c].step = "awaits"
    /\ Forgets(c)
    /\ \/ call[c].answer = "addresses" /\ Returns(c, "addresses")
       \/ call[c].answer = "nothing" /\ Returns(c, "EtherSentinelError")
       \/ call[c].answer \in Names /\ FollowsAlias(c, call[c].answer)
    /\ UNCHANGED sent

-----------------------------------------------------------------------------
\* The receive thread: the server's answer to query q arrives, perhaps again, and
\* the entry for its id is read under the lock.
HandlesAnswer(q, what) ==
    /\ handling = Nothing
    /\ handling' = IF pending[q.id] = NoCaller THEN Nothing
                   ELSE [to |-> pending[q.id], what |-> what]
    /\ call' = [c \in Callers |->
                 IF call[c].id = q.id THEN [call[c] EXCEPT !.handled = TRUE] ELSE call[c]]
    /\ UNCHANGED <<pending, sent, outcome>>

\* ... and the container filled and the event set outside it.
DeliversAnswer ==
    /\ handling # Nothing
    /\ call' = [call EXCEPT ![handling.to].answer = IF @ = "none" THEN handling.what ELSE @]
    /\ handling' = Nothing
    /\ UNCHANGED <<pending, sent, outcome>>

DnsNext ==
    \/ \E c \in Callers :
          \/ \E n \in Names : ResolveDns(c, n)
          \/ \E i \in Ids : RegistersQuery(c, i)
          \/ SendsQuery(c) \/ SendFails(c) \/ QueryTimesOut(c) \/ ReadsAnswer(c)
    \/ \E q \in sent, what \in {"addresses", "nothing"} \cup Names : HandlesAnswer(q, what)
    \/ DeliversAnswer

DnsSpec == DnsInit /\ [][DnsNext]_dnsVars

-----------------------------------------------------------------------------
DnsTypeOK ==
    /\ pending \in [Ids -> Callers \cup {NoCaller}]
    /\ call \in [Callers -> Calls]
    /\ sent \subseteq [id : Ids, name : Names]
    /\ handling.to \in Callers \cup {NoCaller}

\* "Recursive resolution; retries budget is shared": however aliases and timeouts
\* alternate, one resolve_dns sends at most DNS_MAX_RETRIES queries.
RetryBudget == \A c \in Callers : call[c].queries <= MaxRetries

\* "Register waiter BEFORE send to eliminate race": if ids do not collide, an answer
\* that the receive thread saw while its query was open has been delivered to the
\* caller, or is about to be.
NoAnswerMissed ==
    UniqueIds => \A c \in Callers :
        call[c].step = "awaits" /\ call[c].handled =>
            call[c].answer # "none" \/ handling.to = c

\* No entry outlives its query, so a late answer finds nobody.
PendingHasWaiter ==
    \A i \in Ids : pending[i] # NoCaller =>
        call[pending[i]].id = i /\ call[pending[i]].step \in {"sends", "awaits"}

\* A lookup that was answered is not missed, a pending one has somebody waiting for it, and
\* no name takes more queries than its retries (NetworkSentinel.dns_resolve).
LookupsAreAnswered == RetryBudget /\ NoAnswerMissed /\ PendingHasWaiter

\* "Raises EtherSentinelError subclasses (never standard socket errors)"
\* (resolve_dns): false when the last attempt is answered with an alias.
OnlyDocumentedErrors == \A c \in Callers : outcome[c] # "TypeError"
=============================================================================
