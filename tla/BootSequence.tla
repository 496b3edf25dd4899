---------------------------- MODULE BootSequence ----------------------------
(***************************************************************************)
(* os/kernels/aios_bootloader_kernel.py: the stages of KernelHandoff, each *)
(* of which does its work, marks itself ready in the boot automaton, adds  *)
(* a block to the integrity chain and ticks the automaton; and the chain,  *)
(* the interrupt table and the device registry that agents share after it. *)
(*                                                                         *)
(* Addresses are in KiB.  A hash is the number of the seal that made it.   *)
(* An embedding is a number of three bits: its bits are its LSH hash and   *)
(* near numbers are similar.                                               *)
(***************************************************************************)
EXTENDS Integers, Sequences, FiniteSets, SequencesExt, FiniteSetsExt

CONSTANTS
  BootAgents,     \* who uses the tables after the boot
  RamSizes,       \* physical_ram_bytes, in KiB
  Scanned,        \* what the PCI scan finds: device name -> embedding
  DriverEmbeds,   \* the default drivers: name -> embedding
  MaxSeals, MaxDispatches   \* bounds

VARIABLES
  bootStage,   \* the stage execute is to run next; Stages when it is done
  bootFailed,  \* execute raised
  caState, caReady, caRecords,     \* BootCellularAutomaton
  bootBlocks, bootTip, seals,      \* BootIntegrityChain, and the seals so far
  chainHeld, chainDraft,           \* who holds its lock, and the block it made
  e820,                            \* MemoryTopology._entries
  gdtTable, gateTable,             \* the descriptors, and vector -> handler
  irqCounts, dispatched, counting, \* _irq_counts; history; a handler's read
  hwFlags, bootDevices, bindings

chainVars == <<bootBlocks, bootTip, seals, chainHeld, chainDraft>>
caVars == <<caState, caReady, caRecords>>
tableVars == <<e820, gdtTable, gateTable, hwFlags, bootDevices, bindings>>
irqVars == <<irqCounts, dispatched, counting>>
bootVars == <<bootStage, bootFailed, caVars, chainVars, tableVars, irqVars>>

Stages == 15    \* RESET = 0 .. KERNEL_RUNNING = 14; HALT is never marked
Nobody == "nobody"

ASSUME BootAssumption == Nobody \notin BootAgents

Vectors == {14, 32, 33, 128}
NotCounting == [vector |-> 0, read |-> 0]

(******************************* Memory map ********************************)
Entry(base, length, kind) == [base |-> base, length |-> length, kind |-> kind]
EndOf(e) == e.base + e.length

\* max(0, n)
Positive(n) == IF n > 0 THEN n ELSE 0

E820Entries(ram) ==
  {e \in {Entry(0, 639, "usable"), Entry(639, 1, "reserved"), Entry(640, 128, "reserved"),
          Entry(768, 128, "reserved"), Entry(896, 128, "reserved"), Entry(1024, 14336, "usable"),
          Entry(15360, 1024, "nvs"), Entry(16384, Positive(ram - 32768 - 1024), "usable"),
          Entry(Positive(ram - 1024), 1024, "acpi")} : e.length > 0}

Overlaps(a, b) == a.base < EndOf(b) /\ b.base < EndOf(a)
Validates(map) == \A a, b \in map : a # b => ~Overlaps(a, b)

(***************************** Tables and HAL ******************************)
DefaultGdt == [k \in 0 .. 7 |-> CASE k = 1 -> "kernel_code" [] k = 2 -> "kernel_data"
                                  [] k = 3 -> "user_code" [] k = 4 -> "user_data"
                                  [] OTHER -> "null"]
InstallTss(gdt) == [gdt EXCEPT ![5] = "tss"]

\* Exceptions print, the interrupts and the rest count, 128 is the system call.
DefaultGates == [v \in Vectors |-> CASE v = 14 -> "report" [] v = 128 -> "syscall" [] OTHER -> "count"]
BootGates == [DefaultGates EXCEPT ![32] = "timer", ![14] = "page_fault"]

\* Flags of the paging, APIC and SSE bits.
WithFlag(flags, bit) == flags \cup {bit}
HalBootSequence(flags) == WithFlag(WithFlag(WithFlag(flags, "sse"), "apic"), "paging")

(*************************** Drivers and devices ***************************)
Bits(n) == {k \in 0 .. 2 : (n \div 2 ^ k) % 2 = 1}
Hamming(a, b) == Cardinality((Bits(a) \ Bits(b)) \cup (Bits(b) \ Bits(a)))
Farness(a, b) == IF a > b THEN a - b ELSE b - a
HammingThreshold == 1

\* The drivers whose hash is near, or else all of them, by similarity.
Candidates(embed) ==
  LET near == {d \in DOMAIN DriverEmbeds : Hamming(embed, DriverEmbeds[d]) <= HammingThreshold}
  IN IF near = {} THEN DOMAIN DriverEmbeds ELSE near

MatchDriver(embed) ==
  {d \in Candidates(embed) :
     \A o \in Candidates(embed) : Farness(embed, DriverEmbeds[d]) <= Farness(embed, DriverEmbeds[o])}

(********************************* Stages **********************************)
\* A fault: the readiness that counts is that of the stage it is in.
CaStepHere(ready) ==
  IF caState \in ready /\ caState < Stages - 1
  THEN /\ caState' = caState + 1 /\ caRecords' = Append(caRecords, caState)
  ELSE UNCHANGED <<caState, caRecords>>

\* step: the automaton advances when the next stage is ready, and not past the
\* last but one of its N_BOOT_STAGES.
CaStep(ready) ==
  IF Min({caState + 1, Stages}) \in ready /\ caState < Stages - 1
  THEN /\ caState' = caState + 1 /\ caRecords' = Append(caRecords, caState)
  ELSE UNCHANGED <<caState, caRecords>>

MarkReady(stage) == caReady' = caReady \cup {stage}

BlockOf(what, prev) == [index |-> Len(bootBlocks), stage |-> what, prev |-> prev, hash |-> seals + 1]

Attest(stage) ==
  /\ bootBlocks' = Append(bootBlocks, BlockOf(stage, bootTip))
  /\ bootTip' = seals + 1 /\ seals' = seals + 1
  /\ UNCHANGED <<chainHeld, chainDraft>>

\* What the work of each stage leaves behind.
StageWork ==
  /\ \E ram \in RamSizes : e820' = IF bootStage = 3 THEN E820Entries(ram) ELSE e820
  /\ gdtTable' = IF bootStage = 4 THEN InstallTss(DefaultGdt) ELSE gdtTable
  /\ gateTable' = IF bootStage = 5 THEN BootGates ELSE gateTable
  /\ hwFlags' = IF bootStage = 6 THEN HalBootSequence({}) ELSE hwFlags
  /\ bootDevices' = IF bootStage = 8 THEN Scanned ELSE bootDevices
  /\ IF bootStage = 9
     THEN bindings' \in {b \in [DOMAIN bootDevices -> DOMAIN DriverEmbeds] :
                           \A d \in DOMAIN bootDevices : b[d] \in MatchDriver(bootDevices[d])}
     ELSE UNCHANGED bindings

RunStage ==
  /\ bootStage < Stages /\ ~bootFailed
  /\ StageWork
  /\ IF Validates(e820')
     THEN /\ MarkReady(bootStage) /\ Attest(bootStage) /\ CaStep(caReady')
          /\ bootStage' = bootStage + 1 /\ UNCHANGED bootFailed
     ELSE /\ bootFailed' = TRUE
          /\ UNCHANGED <<bootStage, caVars, chainVars>>
  /\ UNCHANGED irqVars

BootInit ==
  /\ bootStage = 0 /\ bootFailed = FALSE
  /\ caState = 0 /\ caReady = {} /\ caRecords = << >>
  /\ bootBlocks = << >> /\ bootTip = 0 /\ seals = 0
  /\ chainHeld = Nobody /\ chainDraft = BlockOf("none", 0)
  /\ e820 = {} /\ gdtTable = DefaultGdt /\ gateTable = DefaultGates
  /\ irqCounts = [v \in Vectors |-> 0] /\ dispatched = [v \in Vectors |-> 0]
  /\ counting = [u \in BootAgents |-> NotCounting]
  /\ hwFlags = {} /\ bootDevices = << >> /\ bindings = << >>

(****************************** After the boot *****************************)
Booted == bootStage = Stages

LastBlock == bootBlocks[Len(bootBlocks)]

\* A fault: chain_append does not wait for the lock.
DraftBlockAtOnce(u) ==
  /\ Booted /\ seals < MaxSeals /\ chainDraft.stage # u
  /\ chainHeld' = u
  /\ chainDraft' = BlockOf(u, bootTip) /\ seals' = seals + 1
  /\ UNCHANGED <<bootStage, bootFailed, caVars, bootBlocks, bootTip, tableVars, irqVars>>

DraftBlock(u) ==
  /\ Booted /\ seals < MaxSeals /\ chainHeld = Nobody
  /\ chainHeld' = u
  /\ chainDraft' = BlockOf(u, bootTip) /\ seals' = seals + 1
  /\ UNCHANGED <<bootStage, bootFailed, caVars, bootBlocks, bootTip, tableVars, irqVars>>

LinkBlock(u) ==
  /\ chainHeld = u /\ LastBlock # chainDraft
  /\ bootBlocks' = Append(bootBlocks, chainDraft)
  /\ UNCHANGED <<bootStage, bootFailed, caVars, chainHeld, chainDraft, bootTip, seals, tableVars, irqVars>>

MoveTip(u) ==
  /\ chainHeld = u /\ LastBlock = chainDraft
  /\ bootTip' = chainDraft.hash /\ chainHeld' = Nobody
  /\ UNCHANGED <<bootStage, bootFailed, caVars, bootBlocks, chainDraft, seals, tableVars, irqVars>>

RegisterGate(v, h) ==
  /\ Booted /\ gateTable[v] # h
  /\ gateTable' = [gateTable EXCEPT ![v] = h]
  /\ UNCHANGED <<bootStage, bootFailed, caVars, chainVars, e820, gdtTable, hwFlags, bootDevices, bindings, irqVars>>

\* dispatch counts under the lock; a counting handler then reads the count ...
Dispatch(u, v) ==
  /\ Booted /\ counting[u] = NotCounting
  /\ dispatched[v] < MaxDispatches
  /\ irqCounts' = [irqCounts EXCEPT ![v] = @ + 1]
  /\ dispatched' = [dispatched EXCEPT ![v] = @ + 1]
  /\ counting' = [counting EXCEPT ![u] =
       IF gateTable[v] = "count" THEN [vector |-> v, read |-> irqCounts'[v]] ELSE NotCounting]
  /\ UNCHANGED <<bootStage, bootFailed, caVars, chainVars, tableVars>>

\* ... and writes it back without.
CountAgain(u) ==
  /\ counting[u] # NotCounting
  /\ irqCounts' = [irqCounts EXCEPT ![counting[u].vector] = counting[u].read + 1]
  /\ counting' = [counting EXCEPT ![u] = NotCounting]
  /\ UNCHANGED <<bootStage, bootFailed, caVars, chainVars, tableVars, dispatched>>

BootNext ==
  \/ RunStage
  \/ \E u \in BootAgents :
       \/ DraftBlock(u)
       \/ LinkBlock(u)
       \/ MoveTip(u)
       \/ \E v \in {33} : Dispatch(u, v)
       \/ CountAgain(u)
  \/ \E h \in {"count", "custom"} : RegisterGate(33, h)

BootSpec == BootInit /\ [][BootNext]_bootVars

------------------------------------------------------------------------------
\* "Every stage: ... 3. Appends a block to the integrity chain 4. Advances the
\* automaton via step()" (aios_bootloader_kernel.py:2333-2337): between stages
\* the automaton is in the stage that was attested last, and has left the stages
\* before it in order.
AutomatonKeepsPace ==
  bootStage > 0 => /\ caState = bootStage - 1
                   /\ caRecords = [k \in 1 .. caState |-> k - 1]
                   /\ \A k \in 1 .. bootStage : bootBlocks[k].stage = k - 1

\* "Every stage completion appends a hash-linked block." (2188): whoever appends
\* after the boot, the chain verifies and its blocks are numbered in order.
ChainVerifies ==
  \A k \in DOMAIN bootBlocks :
    /\ bootBlocks[k].index = k - 1
    /\ bootBlocks[k].prev = (IF k = 1 THEN 0 ELSE bootBlocks[k - 1].hash)

\* "0x01000000..ram_end-1MB — main RAM body (usable)" (763): a map that was
\* built has the RAM above the first 16 MiB in it.
MapCoversRam ==
  e820 # {} /\ Validates(e820) =>
    \A e \in e820 : e.kind = "acpi" =>
      \/ e.base <= 16384
      \/ \E m \in e820 : m.kind = "usable" /\ m.base <= 16384 /\ EndOf(m) = e.base
==============================================================================
