------------------------------ MODULE Sentinel ------------------------------
(***************************************************************************)
(* The life cycle of EtherSentinel and its PhysicalInterface               *)
(* (os/networking/aios_network.py): start and stop, which hold the         *)
(* sentinel's lock, the receive thread, which polls a flag without it, and *)
(* the callers of resolve_dns and arp_resolve, who check that the sentinel *)
(* runs, and later that the socket exists, also without it.                *)
(*                                                                         *)
(* What the frames hold is the business of AddressCache and NameQueries;   *)
(* here a frame is received or not.  Discovery of the router succeeds or   *)
(* times out.  Left out: the statistics.                                   *)
(***************************************************************************)
EXTENDS Naturals

CONSTANTS Clients,      \* threads that send frames
          MaxStarts     \* bound on the number of starts

ASSUME SentinelAssumption == MaxStarts \in Nat \ {0}

Receivers == 1..MaxStarts   \* receive threads, one per start that gets so far

VARIABLES
    running,    \* EtherSentinel._running
    polling,    \* PhysicalInterface._running
    sock,       \* _sock: none, open, or closed and not yet None
    receiveHandlers,   \* how often the two frame handlers are registered
    latest,     \* _rx_thread, 0 before the first
    rx,         \* where each receive thread is
    op,         \* how far the start or stop that holds the lock is
    client      \* what each client does

sentinelVars == <<running, polling, sock, receiveHandlers, latest, rx, op, client>>
interface == <<polling, sock, receiveHandlers, latest>>

SentinelInit ==
    /\ running = FALSE /\ polling = FALSE
    /\ sock = "none" /\ receiveHandlers = 0 /\ latest = 0
    /\ rx = [r \in Receivers |-> "new"]
    /\ op = "idle"
    /\ client = [c \in Clients |-> "idle"]

-----------------------------------------------------------------------------
(* start, a step at a time; every step may raise, and then close() follows. *)

Start ==
    /\ op = "idle" /\ ~running /\ latest < MaxStarts
    /\ op' = "opens"
    /\ UNCHANGED <<running, interface, rx, client>>

\* The socket is created, but binding it or reading its address may fail.
Opens ==
    /\ op = "opens"
    /\ \/ sock' = "open" /\ op' \in {"registers", "joins"}
       \/ op' = "joins" /\ UNCHANGED sock
    /\ UNCHANGED <<running, polling, receiveHandlers, latest, rx, client>>

RegistersHandlers ==
    /\ op = "registers"
    /\ receiveHandlers' = receiveHandlers + 1
    /\ op' = "launches"
    /\ UNCHANGED <<running, polling, sock, latest, rx, client>>

Launches ==
    /\ op = "launches"
    /\ polling' = TRUE
    /\ latest' = latest + 1
    /\ rx' = [rx EXCEPT ![latest + 1] = "polls"]
    /\ op' = "discovers"
    /\ UNCHANGED <<running, sock, receiveHandlers, client>>

\* A fault: a failed discovery raises without closing the interface.
DiscoversOrGivesUp ==
    /\ op = "discovers"
    /\ op' = "idle" /\ running' \in BOOLEAN
    /\ UNCHANGED <<interface, rx, client>>

\* The router's address is known or found: the sentinel runs.  Otherwise the
\* exception handler closes the interface.
DiscoversRouter ==
    /\ op = "discovers"
    /\ \/ running' = TRUE /\ op' = "idle"
       \/ op' = "joins" /\ UNCHANGED running
    /\ UNCHANGED <<interface, rx, client>>

Stop ==
    /\ op = "idle" /\ running
    /\ running' = FALSE
    /\ op' = "joins"
    /\ UNCHANGED <<interface, rx, client>>

-----------------------------------------------------------------------------
(* PhysicalInterface.close *)

Alive(r) == rx[r] \in {"polls", "receives"}

StopsPolling ==
    /\ op = "joins"
    /\ polling' = FALSE
    /\ op' = IF latest # 0 /\ Alive(latest) THEN "waits" ELSE "closes"
    /\ UNCHANGED <<running, sock, receiveHandlers, latest, rx, client>>

\* join returns when the thread has ended, or after its timeout.
Joins ==
    /\ op = "waits"
    /\ op' = "closes"
    /\ UNCHANGED <<running, interface, rx, client>>

ClosesSocket ==
    /\ op = "closes"
    /\ sock' = IF sock = "open" THEN "closed" ELSE sock
    /\ op' = "clears"
    /\ UNCHANGED <<running, polling, receiveHandlers, latest, rx, client>>

ClearsSocket ==
    /\ op = "clears"
    /\ sock' = "none"
    /\ op' = "idle"
    /\ UNCHANGED <<running, polling, receiveHandlers, latest, rx, client>>

-----------------------------------------------------------------------------
(* The receive threads *)

Polls(r) ==
    /\ rx[r] = "polls"
    /\ rx' = [rx EXCEPT ![r] = IF polling THEN "receives" ELSE "ended"]
    /\ UNCHANGED <<running, interface, op, client>>

\* A frame is handled, the wait for one times out, or an exception is counted; a
\* closed socket ends the thread.
Receives(r) ==
    /\ rx[r] = "receives"
    /\ \/ rx' = [rx EXCEPT ![r] = "polls"]
       \/ sock = "closed" /\ rx' = [rx EXCEPT ![r] = "ended"]
    /\ UNCHANGED <<running, interface, op, client>>

-----------------------------------------------------------------------------
(* Clients *)

Steps(c, to) == client' = [client EXCEPT ![c] = to] /\ UNCHANGED <<running, interface, rx, op>>

\* resolve_dns or arp_resolve looks at _running without the lock.
SentinelCalls(c) == client[c] \in {"idle", "surprised"} /\ running /\ Steps(c, "called")

\* send_frame looks at _sock ...
ChecksSocket(c) == client[c] = "called" /\ Steps(c, IF sock = "none" THEN "idle" ELSE "sends")

\* ... and uses it after it has waited for _tx_lock: an OSError of a closed socket
\* becomes an InterfaceError, and None has no attribute send.
SendsFrame(c) == client[c] = "sends" /\ Steps(c, IF sock = "none" THEN "surprised" ELSE "idle")

SentinelNext ==
    \/ Start \/ Opens \/ RegistersHandlers \/ Launches \/ DiscoversRouter \/ Stop
    \/ StopsPolling \/ Joins \/ ClosesSocket \/ ClearsSocket
    \/ \E r \in Receivers : Polls(r) \/ Receives(r)
    \/ \E c \in Clients : SentinelCalls(c) \/ ChecksSocket(c) \/ SendsFrame(c)

SentinelSpec == SentinelInit /\ [][SentinelNext]_sentinelVars

-----------------------------------------------------------------------------
SentinelTypeOK ==
    /\ running \in BOOLEAN /\ polling \in BOOLEAN
    /\ sock \in {"none", "open", "closed"}
    /\ receiveHandlers \in Nat /\ latest \in 0..MaxStarts
    /\ rx \in [Receivers -> {"new", "polls", "receives", "ended"}]
    /\ op \in {"idle", "opens", "registers", "launches", "discovers",
               "joins", "waits", "closes", "clears"}
    /\ client \in [Clients -> {"idle", "called", "sends", "surprised"}]

\* "If this method raises, the interface is closed": whatever step of start fails,
\* between two calls the socket is open and listened to exactly while the sentinel
\* runs.
OpenWhileRunning ==
    op = "idle" => /\ running <=> sock = "open"
                   /\ running <=> polling
                   /\ running => Alive(latest)

\* "Raises InterfaceError if the socket is not open or send fails" (send_frame):
\* false when stop clears the socket between the check and the send.
SendRaisesInterfaceError == \A c \in Clients : client[c] # "surprised"
=============================================================================
