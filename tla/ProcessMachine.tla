--------------------------- MODULE ProcessMachine ---------------------------
(***************************************************************************)
(* The machine layer of os/core/aios_process.py.                           *)
(*                                                                         *)
(* The gate: FullIDT, whose dispatch reads a descriptor under the lock and *)
(* runs the handler it read afterwards, on a TrapFrame it makes itself;    *)
(* and ProcessSubsystem, which fills the table, takes it into a kernel     *)
(* that has one already and calls the system-call gate through it.  What   *)
(* system calls and timer do to processes is in RoundRobin; here a handler *)
(* is known by its kind and by what it leaves in the frame.                *)
(*                                                                         *)
(* The copies: mem_copy and its three tiers over one buffer, with words of *)
(* two bytes and limits of SmallMax and ErmsThreshold bytes.               *)
(***************************************************************************)
EXTENDS Integers, Sequences

CONSTANTS GateUsers, MaxEntries,
          Pids,           \* who may be running when the gate looks, 0 for nobody
          RegisterSize,   \* 2^64 in the code
          BufferLength, WordBytes, SmallMax, ErmsThreshold, MaxCopies

ASSUME ProcessMachineAssumption ==
    /\ {MaxEntries, BufferLength, SmallMax, ErmsThreshold, MaxCopies} \subseteq Nat
    /\ {WordBytes, RegisterSize} \subseteq Nat \ {0} /\ Pids \subseteq Nat

----------------------------------------------------------------------------
(* The gate.                                                               *)

VARIABLES
    descriptors,  \* FullIDT._table: vector -> [isr, hasEc]
    attaching,    \* how many of its registrations attach has made
    entering,     \* the dispatch a user is in: the descriptor it read and its frame, or <<>>
    delivered,    \* the frame the user's last dispatch left, with the code it was given, or <<>>
    calling,      \* the number of the system call a user is making, or <<>>
    answer,       \* what its last one returned, and what the gate left, or <<>>
    entries       \* bounds the dispatches

gateVars == <<descriptors, attaching, entering, delivered, calling, answer, entries>>

GateVectors == {"#DE", "#GP", "#PF", "T_SYS", "timer", "keyboard"}

\* _EC_VECTORS.
PushesCode(v) == v \in {"#GP", "#PF"}

\* SYS_EXIT, SYS_YIELD, SYS_GETPID and SYS_SLEEP, and a number that the gate does not know.
SyscallNumbers == 0..4
GetPid == 2
Builtins == 0..3

Described(isr, hasEc) == [isr |-> isr, hasEc |-> hasEc]

\* The table after the constructor: the log handlers and the system-call gate.
Installed == [v \in GateVectors |->
    Described(CASE v = "T_SYS" -> "gate"
                [] v \in {"#DE", "#GP", "#PF"} -> "log"
                [] OTHER -> "default", PushesCode(v))]

GateInit ==
    /\ descriptors = Installed /\ attaching = 0
    /\ entering = [u \in GateUsers |-> << >>] /\ delivered = entering
    /\ calling = entering /\ answer = entering
    /\ entries = 0

\* A fault: the new descriptor does not take over the flag of the one it replaces.
RegisteredAfresh(table, v, isr) == [table EXCEPT ![v] = Described(isr, FALSE)]

Registered(table, v, isr) == [table EXCEPT ![v] = Described(isr, table[v].hasEc)]

RegisterIsr(v, isr) ==
    /\ descriptors' = Registered(descriptors, v, isr)
    /\ UNCHANGED <<attaching, entering, delivered, calling, answer, entries>>

\* attach takes the kernel's handlers of these vectors over one after the other, each
\* wrapped for the new signature; then it replaces the kernel's table, and the timer
\* driver registers its handler.  A second attach raises: FullIDT has no _handlers.
Ported == <<[vector |-> "#GP", isr |-> "wrapped"], [vector |-> "#PF", isr |-> "wrapped"],
            [vector |-> "keyboard", isr |-> "wrapped"], [vector |-> "timer", isr |-> "timer"]>>

AttachTable ==
    /\ attaching < Len(Ported) /\ attaching' = attaching + 1
    /\ LET p == Ported[attaching + 1] IN descriptors' = Registered(descriptors, p.vector, p.isr)
    /\ UNCHANGED <<entering, delivered, calling, answer, entries>>

\* What hardware or a caller hands over, with or without an error code.
Contexts == {[rax |-> 0, error |-> 0], [rax |-> GetPid, error |-> 7]}

Descriptor(v) == descriptors[v]

\* The frame has the context's registers, and its code if the descriptor says so.
Enter(u, v, context) ==
    entering' = [entering EXCEPT ![u] =
        [vector |-> v, isr |-> Descriptor(v).isr, rax |-> context.rax,
         error |-> IF Descriptor(v).hasEc THEN context.error ELSE 0, code |-> context.error]]

EnterGate(u, v, context) ==
    /\ entering[u] = << >> /\ entries < MaxEntries
    /\ Enter(u, v, context) /\ entries' = entries + 1
    /\ UNCHANGED <<descriptors, attaching, delivered, calling, answer>>

\* ProcessSubsystem.syscall makes a frame of its own beside the one dispatch makes.
SystemCall(u, nr) ==
    /\ entering[u] = << >> /\ entries < MaxEntries
    /\ calling' = [calling EXCEPT ![u] = <<nr>>]
    /\ Enter(u, "T_SYS", [rax |-> nr, error |-> 0]) /\ entries' = entries + 1
    /\ UNCHANGED <<descriptors, attaching, delivered, answer>>

\* What the gate writes to rax, in as many bits as a register has: the builtins return 0,
\* except SYS_GETPID, which returns the pid of the current process, if there is one.
GateResult(nr, pid) ==
    (IF nr \notin Builtins \/ (nr = GetPid /\ pid = 0) THEN -1
     ELSE IF nr = GetPid THEN pid ELSE 0) % RegisterSize

\* Only the gate writes to the frame it is given; the other handlers log or tick.
Left(frame, pid) == IF frame.isr = "gate" THEN GateResult(frame.rax, pid) ELSE frame.rax

Handles(u, pid) ==
    /\ entering[u] # << >>
    /\ delivered' = [delivered EXCEPT ![u] =
         [vector |-> entering[u].vector, error |-> entering[u].error, code |-> entering[u].code,
          rax |-> Left(entering[u], pid)]]
    /\ answer' = [answer EXCEPT ![u] = IF calling[u] = << >> THEN @ ELSE
         [result |-> calling[u][1], left |-> Left(entering[u], pid)]]
    /\ entering' = [entering EXCEPT ![u] = << >>]
    /\ calling' = [calling EXCEPT ![u] = << >>]
    /\ UNCHANGED <<descriptors, attaching, entries>>

GateNext ==
    \/ \E v \in {"#DE", "#GP", "#PF"} : RegisterIsr(v, "log")
    \/ AttachTable
    \/ \E u \in GateUsers, v \in GateVectors, context \in Contexts : EnterGate(u, v, context)
    \/ \E u \in GateUsers, nr \in SyscallNumbers : SystemCall(u, nr)
    \/ \E u \in GateUsers, pid \in Pids : Handles(u, pid)

----------------------------------------------------------------------------
(* The copies.                                                             *)

VARIABLES
    copied,     \* the buffer, both source and destination
    moved,      \* the last copy, <<to, from, n, before, erms>>, or <<>>
    erms,       \* _ERMSCapability._supported
    copies     \* bounds the copies

copyVars == <<copied, moved, erms, copies>>

CopyInit ==
    /\ copied = [i \in 0..BufferLength - 1 |-> i] /\ moved = << >>
    /\ erms = TRUE /\ copies = 0

\* n moves of `size' bytes, the k-th of them at offset order[k].
Moves(m, to, from, order, n, size) ==
    LET Run[k \in 0..n] ==
            IF k = 0 THEN m
            ELSE [i \in DOMAIN m |-> IF i - to - order[k] \in 0..size - 1
                                     THEN Run[k - 1][i - to + from] ELSE Run[k - 1][i]]
    IN Run[n]

Forwards(n, size) == [k \in 1..n |-> (k - 1) * size]

\* A fault: the bytes are moved in ascending order whichever way the regions overlap.
OverlapForwards(m, to, from, n) == Moves(m, to, from, Forwards(n, 1), n, 1)

MemCopyOverlap(m, to, from, n) ==
    Moves(m, to, from, IF to < from THEN Forwards(n, 1) ELSE [k \in 1..n |-> n - k], n, 1)

\* A fault: the bytes after the last whole word are left out.
AlignedLosingByte(m, to, from, n) ==
    Moves(m, to, from, Forwards(n \div WordBytes, WordBytes), n \div WordBytes, WordBytes)

MemCopyAligned(m, to, from, n) ==
    LET words == n \div WordBytes
        done == words * WordBytes
    IN Moves(Moves(m, to, from, Forwards(words, WordBytes), words, WordBytes),
             to + done, from + done, Forwards(n - done, 1), n - done, 1)

\* The slice on the right is read in full before the one on the left is written.
Transferred(m, to, from, n) ==
    [i \in DOMAIN m |-> IF i - to \in 0..n - 1 THEN m[i - to + from] ELSE m[i]]

MemCopyErms(m, to, from, n) ==
    IF erms THEN Transferred(m, to, from, n) ELSE MemCopyAligned(m, to, from, n)

MemCopy(m, to, from, n) ==
    IF n <= SmallMax THEN MemCopyOverlap(m, to, from, n)
    ELSE IF n < ErmsThreshold THEN MemCopyAligned(m, to, from, n)
    ELSE MemCopyErms(m, to, from, n)

Copy(to, from, n) ==
    /\ copies < MaxCopies /\ to + n <= BufferLength /\ from + n <= BufferLength
    /\ copied' = MemCopy(copied, to, from, n)
    /\ moved' = <<to, from, n, copied, erms>>
    /\ copies' = copies + 1
    /\ UNCHANGED erms

\* set_from_hardware_profile.
SetErms(supported) == erms # supported /\ erms' = supported /\ UNCHANGED <<copied, moved, copies>>

CopyNext ==
    \/ \E to, from \in 0..BufferLength - 1, n \in 0..BufferLength : Copy(to, from, n)
    \/ \E supported \in BOOLEAN : SetErms(supported)

GateSpec == GateInit /\ CopyInit /\ [][GateNext /\ UNCHANGED copyVars]_<<gateVars, copyVars>>

----------------------------------------------------------------------------
(* Properties of the gate.                                                 *)

\* "for NOEC vectors set error=0 (dummy push)" (aios_process.py:724), and the frame of a
\* vector with a code has the one the hardware gave, whoever registered or attached
\* since the table was made (FullIDT.register, dispatch).
FramesHaveTheirCode ==
    \A u \in GateUsers : delivered[u] # << >> =>
        delivered[u].error = IF PushesCode(delivered[u].vector) THEN delivered[u].code ELSE 0

\* "Return values are written back into tf.rax (SysV convention)" (aios_process.py:1308):
\* ProcessSubsystem.syscall returns what the gate wrote.
SyscallsReturn == \A u \in GateUsers : answer[u] # << >> => answer[u].result = answer[u].left

(* Properties of the copies.                                               *)

Overlapping(to, from, n) == to > from /\ to < from + n

\* A copy leaves what a transfer at once would leave (mem_copy), in every tier, except
\* the word tier when the destination starts inside the source.
CopiesAreTransfers ==
    moved # << >> =>
        LET to == moved[1]
            from == moved[2]
            n == moved[3]
        IN \/ copied = Transferred(moved[4], to, from, n)
           \/ n > SmallMax /\ Overlapping(to, from, n) /\ (n < ErmsThreshold \/ ~moved[5])

=============================================================================
