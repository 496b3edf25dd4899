---------------------------- MODULE AddressCache ----------------------------
(***************************************************************************)
(* Address resolution of os/networking/aios_network.py: ARPCache, the      *)
(* handler that fills it from the receive thread, and the callers that     *)
(* wait for it in EtherSentinel.arp_resolve and start.                     *)
(*                                                                         *)
(* The cache's lock is released between the lookup, the invalidation, the  *)
(* request, the registration of a waiter and the reading of the result,    *)
(* and by set() before it signals.  Which frames pass the packet filter,   *)
(* and which address a reply carries, is left open: a reply for any        *)
(* address may come at any time.                                           *)
(***************************************************************************)
CONSTANTS Ips,          \* addresses to resolve
          Router,       \* router_ip, which start() resolves or seeds
          Resolvers,    \* threads that call arp_resolve or start
          NoOne

ASSUME AddressAssumption == Router \in Ips /\ NoOne \notin Resolvers

VARIABLES
    table,      \* _table: is there an entry, and is it older than its TTL
    waiter,     \* _waiters: whose event is registered for an address
    signalled,  \* the event of each thread
    asks,       \* the address that a thread resolves
    phase,      \* where it is
    signals     \* the events that calls of set() have read and are to signal

arpVars == <<table, waiter, signalled, asks, phase, signals>>
resolvers == <<asks, phase, signalled>>

ArpInit ==
    /\ table = [ip \in Ips |-> "none"]
    /\ waiter = [ip \in Ips |-> NoOne]
    /\ signalled = [t \in Resolvers |-> FALSE]
    /\ asks = [t \in Resolvers |-> Router]
    /\ phase = [t \in Resolvers |-> "idle"]
    /\ signals = {}

-----------------------------------------------------------------------------
\* What get() leaves of an entry: an old one is deleted by who looks at it.
Looked(ip) == IF table[ip] = "old" THEN "none" ELSE table[ip]

Goes(t, ph) == phase' = [phase EXCEPT ![t] = ph]

\* arp_resolve: a live entry answers at once; without one, or with force, a
\* request follows.
ArpResolves(t, ip, force) ==
    /\ phase[t] = "idle"
    /\ asks' = [asks EXCEPT ![t] = ip]
    /\ IF force
       THEN Goes(t, "forgets") /\ UNCHANGED table
       ELSE /\ table' = [table EXCEPT ![ip] = Looked(ip)]
            /\ Goes(t, IF table[ip] = "live" THEN "idle" ELSE "forgets")
    /\ UNCHANGED <<waiter, signalled, signals>>

\* start() without a configured router address: it asks for it straight away.
Discovers(t) ==
    /\ phase[t] = "idle"
    /\ asks' = [asks EXCEPT ![t] = Router]
    /\ Goes(t, "sends")
    /\ UNCHANGED <<table, waiter, signalled, signals>>

Invalidates(t) ==
    /\ phase[t] = "forgets"
    /\ table' = [table EXCEPT ![asks[t]] = "none"]
    /\ Goes(t, "sends")
    /\ UNCHANGED <<waiter, signalled, asks, signals>>

\* The request is broadcast; send_frame raises when the interface is closed.
SendsRequest(t) ==
    /\ phase[t] = "sends"
    /\ Goes(t, "registers") \/ Goes(t, "idle")
    /\ UNCHANGED <<table, waiter, signalled, asks, signals>>

\* A fault: the waiter is registered without a look at the cache under the lock.
RegistersBlindly(t) ==
    /\ phase[t] = "registers"
    /\ waiter' = [waiter EXCEPT ![asks[t]] = t]
    /\ signalled' = [signalled EXCEPT ![t] = FALSE]
    /\ signals' = signals \ {t}
    /\ Goes(t, "waits")
    /\ UNCHANGED <<table, asks>>

\* wait_for: look, and register a new event in the same locked section (who is
\* about to signal t holds the event of an earlier wait).
Registers(t) ==
    LET ip == asks[t] IN
    /\ phase[t] = "registers"
    /\ table' = [table EXCEPT ![ip] = Looked(ip)]
    /\ signalled' = [signalled EXCEPT ![t] = FALSE]
    /\ signals' = signals \ {t}
    /\ IF table[ip] = "live"
       THEN Goes(t, "idle") /\ UNCHANGED waiter
       ELSE /\ waiter' = [waiter EXCEPT ![ip] = t]
            /\ Goes(t, "waits")
    /\ UNCHANGED asks

\* ev.wait returns, signalled or after the timeout.
StopsWaiting(t) ==
    /\ phase[t] = "waits"
    /\ Goes(t, "reads")
    /\ UNCHANGED <<table, waiter, signalled, asks, signals>>

\* The registration for the address goes, whoever's it is by now.
ReadsResult(t) ==
    LET ip == asks[t] IN
    /\ phase[t] = "reads"
    /\ waiter' = [waiter EXCEPT ![ip] = NoOne]
    /\ table' = [table EXCEPT ![ip] = Looked(ip)]
    /\ Goes(t, "idle")
    /\ UNCHANGED <<signalled, asks, signals>>

\* A frame announces ip, or start() seeds the router's entry: set() writes the
\* entry and reads the waiter under the lock.
Learns(ip) ==
    /\ table' = [table EXCEPT ![ip] = "live"]
    /\ signals' = signals \cup ({waiter[ip]} \ {NoOne})
    /\ UNCHANGED <<waiter, resolvers>>

\* ... and signals outside the lock.
Signals(t) ==
    /\ t \in signals
    /\ signalled' = [signalled EXCEPT ![t] = TRUE]
    /\ signals' = signals \ {t}
    /\ UNCHANGED <<table, waiter, asks, phase>>

\* Time passes the TTL of an entry.
Ages(ip) ==
    /\ table[ip] = "live"
    /\ table' = [table EXCEPT ![ip] = "old"]
    /\ UNCHANGED <<waiter, resolvers, signals>>

PurgesExpired ==
    /\ \E ip \in Ips : table[ip] = "old"
    /\ table' = [ip \in Ips |-> Looked(ip)]
    /\ UNCHANGED <<waiter, resolvers, signals>>

ArpNext ==
    \/ \E t \in Resolvers :
          \/ \E ip \in Ips, force \in BOOLEAN : ArpResolves(t, ip, force)
          \/ Discovers(t) \/ Invalidates(t) \/ SendsRequest(t)
          \/ Registers(t) \/ StopsWaiting(t) \/ ReadsResult(t) \/ Signals(t)
    \/ \E ip \in Ips : Learns(ip) \/ Ages(ip)
    \/ PurgesExpired

ArpSpec == ArpInit /\ [][ArpNext]_arpVars

-----------------------------------------------------------------------------
ArpTypeOK ==
    /\ table \in [Ips -> {"none", "live", "old"}]
    /\ waiter \in [Ips -> Resolvers \cup {NoOne}]
    /\ signalled \in [Resolvers -> BOOLEAN]
    /\ asks \in [Resolvers -> Ips]
    /\ phase \in [Resolvers ->
            {"idle", "forgets", "sends", "registers", "waits", "reads"}]
    /\ signals \subseteq Resolvers

\* While a thread that waits is the one registered for its address, no reply
\* passes it by: if the entry is there, the thread was signalled or is about to
\* be.  (wait_for looks and registers, and set() writes and reads the waiter,
\* each in one locked section.)
NoReplyMissed ==
    \A t \in Resolvers :
        phase[t] = "waits" /\ waiter[asks[t]] = t /\ table[asks[t]] = "live"
            => signalled[t] \/ t \in signals

\* "Wakes any thread waiting for this IP" (set): false for two threads that wait
\* for one address, since the second registration replaces the first.
EveryWaiterWoken ==
    \A t \in Resolvers :
        phase[t] = "waits" /\ table[asks[t]] = "live" => signalled[t] \/ t \in signals
=============================================================================
