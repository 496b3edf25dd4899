------------------------------ MODULE Hardware ------------------------------
(***************************************************************************)
(* os/core/aios_hardware.py: the memory bus, and HardwareLayer: what the   *)
(* probes make of the machine (the processors of each NUMA node, cache     *)
(* sizes, memory BARs), the life of the layer (probe, initialise,          *)
(* shutdown), performance counters, thread affinity, and the clock ratio   *)
(* read from two MSRs.                                                     *)
(*                                                                         *)
(* Two locks of the layer are left out: probe runs as one step under       *)
(* _probe_lock, and each call on the bus is one under the bus's own.       *)
(* initialise, shutdown and map_gpu_bar take neither.  Nodes have numbers  *)
(* below ten, so that their directories are sorted as the numbers are.     *)
(***************************************************************************)
EXTENDS Integers, Sequences, FiniteSets, SequencesExt

-----------------------------------------------------------------------------
(* HardwareMemoryBus: named mmap regions at physical addresses that are never used twice,  *)
(* and the page map that accesses are resolved with.  An access resolves its address in    *)
(* one locked section and touches the region, by name, in a second one.                    *)

CONSTANTS BusUsers, Regions, Bars, MaxPhys, MaxRegion

ASSUME HardwareBusAssumption == Bars \subseteq Regions /\ MaxPhys \in Nat /\ MaxRegion \in Nat

VARIABLES
    regions,    \* _regions, _reg_base and _reg_size: name -> [base, size] in pages
    physMap,    \* _phys_map: page -> [name, offset]
    nextPhys,   \* _next_phys
    access      \* the <<name, offset>> an access has resolved, or <<>>

busVars == <<regions, physMap, nextPhys, access>>

Update(f, x, y) == [z \in DOMAIN f \union {x} |-> IF z = x THEN y ELSE f[z]]
Without(f, xs) == [z \in DOMAIN f \ xs |-> f[z]]

BusInit ==
    /\ regions = << >> /\ physMap = << >> /\ nextPhys = 0
    /\ access = [u \in BusUsers |-> << >>]

\* A fault: a region's pages are entered at offset zero of the page map.
EntersLate(name, size) ==
    /\ regions' = Update(regions, name, [base |-> nextPhys, size |-> size])
    /\ physMap' = [p \in DOMAIN physMap \union nextPhys..(nextPhys + size - 1) |->
                     IF p < nextPhys THEN physMap[p] ELSE [name |-> name, offset |-> p - nextPhys]]
    /\ nextPhys' = nextPhys + size - 1

Enters(name, size) ==
    /\ regions' = Update(regions, name, [base |-> nextPhys, size |-> size])
    /\ physMap' = [p \in DOMAIN physMap \union nextPhys..(nextPhys + size - 1) |->
                     IF p < nextPhys THEN physMap[p] ELSE [name |-> name, offset |-> p - nextPhys]]
    /\ nextPhys' = nextPhys + size

AllocateRegion(name, size) ==
    /\ name \notin DOMAIN regions \union Bars /\ nextPhys + size <= MaxPhys
    /\ Enters(name, size)
    /\ UNCHANGED access

\* A BAR that is mapped already gets a second range; the pages of the first one stay.
MapPciBar(name, size) ==
    /\ name \in Bars /\ nextPhys + size <= MaxPhys
    /\ name \in DOMAIN regions => size = regions[name].size
    /\ Enters(name, size)
    /\ UNCHANGED access

FreeRegion(name) ==
    /\ name \in DOMAIN regions
    /\ regions' = Without(regions, {name})
    /\ physMap' = Without(physMap, {p \in DOMAIN physMap :
                     p \in regions[name].base..(regions[name].base + regions[name].size - 1)})
    /\ UNCHANGED <<nextPhys, access>>

\* An address without an entry raises MemoryError.
Resolve(u, page) ==
    /\ access[u] = << >> /\ page \in DOMAIN physMap
    /\ access' = [access EXCEPT ![u] = <<physMap[page].name, physMap[page].offset>>]
    /\ UNCHANGED <<regions, physMap, nextPhys>>

\* A region freed since then raises KeyError; one allocated anew under the name is touched.
Touches(u) ==
    /\ access[u] # << >>
    /\ access' = [access EXCEPT ![u] = << >>]
    /\ UNCHANGED <<regions, physMap, nextPhys>>

BusNext ==
    \/ \E name \in Regions : \/ \E size \in 1..MaxRegion : AllocateRegion(name, size) \/ MapPciBar(name, size)
                             \/ FreeRegion(name)
    \/ \E u \in BusUsers : (\E page \in DOMAIN physMap : Resolve(u, page)) \/ Touches(u)

BusSpec == BusInit /\ [][BusNext]_busVars

\* "Returns the simulated physical base address of the region": each page of a live region
\* resolves to that region and its offset, whatever was freed, allocated under an old name
\* or mapped a second time before.
RegionsResolve ==
    \A name \in DOMAIN regions : \A i \in 0..(regions[name].size - 1) :
        /\ regions[name].base + i \in DOMAIN physMap
        /\ physMap[regions[name].base + i] = [name |-> name, offset |-> i]

-----------------------------------------------------------------------------
(* HardwareLayer.  Here a bus is the sequence of its regions' names, in the order of the   *)
(* dict _regions.                                                                          *)

CONSTANTS
    HwUsers,     \* threads that use the layer
    Owners,      \* those that initialise it and shut it down
    Machines,    \* [lists, free, dist, cache, cores, resources]: see Machine below
    NeededSizes, \* sizes of workloads to place
    MsrSize,     \* 2^64 in the code: the APERF and MPERF registers count modulo it
    MaxTicks,    \* bound on the clock ticks
    MaxBuses,    \* bound on initialise calls
    MaxMeasures  \* bound on measurements

ASSUME HardwareAssumption ==
    /\ Owners \subseteq HwUsers
    /\ \A m \in Machines : m.cache \in Nat
    /\ NeededSizes \subseteq Nat /\ {MaxTicks, MaxBuses, MaxMeasures} \subseteq Nat
    /\ MsrSize \in Nat \ {0}

Events == {"cycles", "misses"}
RegionNames == <<"kernel_heap", "vga_text", "tensor_arena">>

VARIABLES
    machine,   \* what the kernel shows in /sys: node -> ranges of its processors, free memory,
               \* distances by position; level-one cache in bytes; [package, core] of each
               \* processor; [start, end, flags] of a device's resources
    report,    \* "none", or what probe has found
    busId,     \* _mem_bus: its number, 0 before
    busHolds,  \* the names of the regions of each bus
    ready,     \* _ready
    owning,    \* the next step of each owner in initialise or shutdown
    leaving,   \* the names that a shutdown has read and not yet freed
    placingBar, \* the bus on which each thread is about to map a BAR, 0 for none
    affinity,  \* the processors that a thread may run on
    placed,    \* [size, node, here] of the last workload that was placed
    fds,       \* the performance counters that each thread has open
    measuring, \* the counter it opens next, or "run" in the with block
    clock,     \* the ticks of the two clocks since power on
    sampled,   \* [reads, ratio]: the registers read, and the two differences or << >>
    measures

hwVars == <<machine, report, busId, busHolds, ready, owning, leaving, placingBar, affinity, placed,
            fds, measuring, clock, sampled, measures>>

-----------------------------------------------------------------------------
(* The probes. *)

\* parse_cpu_list.
ParseCpuList(ranges) == UNION {r[1] .. r[2] : r \in {ranges[i] : i \in DOMAIN ranges}}

Cpus(m) == DOMAIN m.cores
Nodes(m) == DOMAIN m.lists

\* The first node that lists the processor; node 0 when none does.
FindNumaNode(m, c) ==
    LET ns == {n \in Nodes(m) : c \in ParseCpuList(m.lists[n])}
    IN IF ns = {} THEN 0 ELSE CHOOSE n \in ns : \A k \in ns : n <= k

Packages(m) == {m.cores[c][1] : c \in Cpus(m)}
Distinct(m) == {m.cores[c] : c \in Cpus(m)}

\* A fault: the tile has room for one of the three blocks.
TileOne(l1) == CHOOSE b \in 0 .. l1 : b * b <= l1 \div 4 /\ (b + 1) * (b + 1) > l1 \div 4

\* The side of a square tile: three of them, in floats, share the level-one cache.
TileSize(l1) ==
    LET raw == CHOOSE b \in 0 .. l1 : b * b <= (l1 \div 4) \div 3
                                      /\ (b + 1) * (b + 1) > (l1 \div 4) \div 3
    IN IF raw >= 8 THEN (raw \div 8) * 8 ELSE IF raw > 1 THEN raw ELSE 1

\* The address ranges that a device has, whatever their flags.
ReadBars(m) == SelectSeq(m.resources, LAMBDA r : r[1] # 0 /\ r[2] >= r[1])

Probed(m) ==
    [nodeOf  |-> [c \in Cpus(m) |-> FindNumaNode(m, c)],
     sockets |-> Cardinality(Packages(m)),
     threads |-> Cardinality(Cpus(m)) \div Cardinality(Distinct(m)),
     tile    |-> TileSize(m.cache),
     bars    |-> [i \in DOMAIN ReadBars(m) |->
                    <<ReadBars(m)[i][1], ReadBars(m)[i][2] - ReadBars(m)[i][1] + 1, ReadBars(m)[i][3]>>]]

NoReport == [nodeOf |-> <<>>, sockets |-> 0, threads |-> 0, tile |-> 0, bars |-> <<>>]

HwInit ==
    /\ machine \in Machines
    /\ report = NoReport /\ busId = 0 /\ busHolds = <<>> /\ ready = FALSE
    /\ owning = [u \in Owners |-> "idle"] /\ leaving = [u \in Owners |-> <<>>]
    /\ placingBar = [u \in HwUsers |-> 0]
    /\ affinity = [u \in HwUsers |-> Cpus(machine)]
    /\ placed = [size |-> 0, node |-> -1, here |-> -1]
    /\ fds = [u \in HwUsers |-> {}] /\ measuring = [u \in HwUsers |-> "no"]
    /\ clock = [aperf |-> 0, mperf |-> 0]
    /\ sampled = [u \in Owners |-> [reads |-> <<>>, ratio |-> <<>>]]
    /\ measures = 0

Life   == <<report, busId, busHolds, ready, owning, leaving, placingBar>>
Places == <<affinity, placed>>
Perf   == <<fds, measuring, measures>>
Clocks == <<clock, sampled>>

\* probe: the first call finds out, the later ones return what it found.
Probes(u) ==
    /\ report' = IF report = NoReport THEN Probed(machine) ELSE report
    /\ UNCHANGED <<machine, busId, busHolds, ready, owning, leaving, placingBar, Places, Perf, Clocks>>

-----------------------------------------------------------------------------
(* initialise and shutdown. *)

NewBus(u) ==
    /\ owning[u] = "idle" /\ Len(busHolds) < MaxBuses
    /\ report' = IF report = NoReport THEN Probed(machine) ELSE report
    /\ busHolds' = Append(busHolds, <<>>)
    /\ busId' = Len(busHolds')
    /\ owning' = [owning EXCEPT ![u] = RegionNames[1]]
    /\ UNCHANGED <<machine, ready, leaving, placingBar, Places, Perf, Clocks>>

\* A fault: the layer is ready once it has its heap.
ReadyAfterHeap(i) == i >= 1

ReadyAfter(i) == i = Len(RegionNames)

\* allocate_region on the bus that the layer has now.
Allocates(u) == \E i \in DOMAIN RegionNames :
    /\ owning[u] = RegionNames[i] /\ ~Contains(busHolds[busId], RegionNames[i])
    /\ busHolds' = [busHolds EXCEPT ![busId] = Append(@, RegionNames[i])]
    /\ owning' = [owning EXCEPT ![u] = IF i = Len(RegionNames) THEN "idle" ELSE RegionNames[i + 1]]
    /\ ready' = IF ReadyAfter(i) THEN TRUE ELSE ready
    /\ UNCHANGED <<machine, report, busId, leaving, placingBar, Places, Perf, Clocks>>

\* No memory, without huge pages either, or a name that is taken: initialise raises.
AllocateFails(u) ==
    /\ owning[u] \in ToSet(RegionNames)
    /\ owning' = [owning EXCEPT ![u] = "idle"]
    /\ UNCHANGED <<machine, report, busId, busHolds, ready, leaving, placingBar, Places, Perf, Clocks>>

\* shutdown takes the names of the regions and frees one after the other, on the bus that the
\* layer has by then; a name that has gone is passed over.  Without a bus it has nothing to do.
ShutdownBegins(u) ==
    /\ owning[u] = "idle" /\ busId # 0
    /\ owning' = [owning EXCEPT ![u] = "free"]
    /\ leaving' = [leaving EXCEPT ![u] = busHolds[busId]]
    /\ UNCHANGED <<machine, report, busId, busHolds, ready, placingBar, Places, Perf, Clocks>>

ShutdownFrees(u) ==
    /\ owning[u] = "free" /\ leaving[u] # <<>>
    /\ busHolds' = [busHolds EXCEPT ![busId] = SelectSeq(@, LAMBDA name : name # Head(leaving[u]))]
    /\ leaving' = [leaving EXCEPT ![u] = Tail(@)]
    /\ UNCHANGED <<machine, report, busId, ready, owning, placingBar, Places, Perf, Clocks>>

ShutdownEnds(u) ==
    /\ owning[u] = "free" /\ leaving[u] = <<>>
    /\ ready' = FALSE /\ owning' = [owning EXCEPT ![u] = "idle"]
    /\ UNCHANGED <<machine, report, busId, busHolds, leaving, placingBar, Places, Perf, Clocks>>

\* map_gpu_bar: it looks at the layer, and opens the device's file and maps it, or fails to,
\* before it takes the lock of the bus that it looked at.
BarBegins(u) ==
    /\ ready /\ placingBar[u] = 0
    /\ placingBar' = [placingBar EXCEPT ![u] = busId]
    /\ UNCHANGED <<machine, report, busId, busHolds, ready, owning, leaving, Places, Perf, Clocks>>

\* map_pci_bar enters its name without asking whether it is taken.
BarMapped(u) ==
    /\ placingBar[u] # 0
    /\ busHolds' = [busHolds EXCEPT ![placingBar[u]] = IF Contains(@, "bar") THEN @ ELSE Append(@, "bar")]
    /\ placingBar' = [placingBar EXCEPT ![u] = 0]
    /\ UNCHANGED <<machine, report, busId, ready, owning, leaving, Places, Perf, Clocks>>

BarFails(u) ==
    /\ placingBar[u] # 0
    /\ placingBar' = [placingBar EXCEPT ![u] = 0]
    /\ UNCHANGED <<machine, report, busId, busHolds, ready, owning, leaving, Places, Perf, Clocks>>

-----------------------------------------------------------------------------
(* CPUAffinityManager. *)

\* pin_to_cpu and pin_to_numa_node: the kernel takes those of the processors that there are, and
\* refuses when there is none.
Pins(u) ==
    /\ report # NoReport
    /\ \E asked \in {{c} : c \in Cpus(machine)}
                    \cup {ParseCpuList(machine.lists[n]) : n \in Nodes(machine)} :
           LET set == asked \cap Cpus(machine)
           IN set # {} /\ affinity' = [affinity EXCEPT ![u] = set]
    /\ UNCHANGED <<machine, Life, placed, Perf, Clocks>>

\* nearest_numa_node: the node of the lowest processor that the thread may run on, and node 0
\* when the thread cannot ask.
NearestNode(set) == IF set = {} THEN 0 ELSE report.nodeOf[CHOOSE c \in set : \A d \in set : c <= d]

\* distances.get: what the node says of the node at that position.
NodeDistance(m, here, n, default) ==
    IF here \in Nodes(m) /\ n \in DOMAIN m.dist[here] THEN m.dist[here][n] ELSE default

\* nearest_node_for_workload: going through the nodes, one is taken when it has the memory and
\* is nearer than the one taken so far: the first of the nearest.
Placement(here, size) ==
    LET to(n) == NodeDistance(machine, here, n, 9999)
        near == {n \in Nodes(machine) : machine.free[n] >= size
                                        /\ to(n) < NodeDistance(machine, here, here, 10)}
    IN IF near = {} THEN here
       ELSE CHOOSE n \in near : \A k \in near : to(n) < to(k) \/ (to(n) = to(k) /\ n <= k)

Places1(u, size) ==
    /\ report # NoReport
    /\ \E set \in {affinity[u], {}} : LET here == NearestNode(set)
           IN placed' = [size |-> size, node |-> Placement(here, size), here |-> here]
    /\ UNCHANGED <<machine, Life, affinity, Perf, Clocks>>

-----------------------------------------------------------------------------
(* PerformanceMonitor.measure. *)

MeasureBegins(u) ==
    /\ report # NoReport /\ measuring[u] = "no" /\ measures < MaxMeasures
    /\ measures' = measures + 1
    /\ measuring' = [measuring EXCEPT ![u] = "open"]
    /\ UNCHANGED <<machine, Life, Places, fds, Clocks>>

\* Each counter opens or does not (the file descriptor is -1 then).
MeasureOpens(u) ==
    /\ measuring[u] = "open"
    /\ \E opened \in SUBSET Events : fds' = [fds EXCEPT ![u] = opened]
    /\ measuring' = [measuring EXCEPT ![u] = "run"]
    /\ UNCHANGED <<machine, Life, Places, measures, Clocks>>

\* A fault: counters are closed only after a block that did not raise.
ClosesUnlessRaised(u, raised) == IF raised THEN fds[u] ELSE {}

ClosesAll(u, raised) == {}

MeasureEnds(u) ==
    /\ measuring[u] = "run"
    /\ \E raised \in BOOLEAN : fds' = [fds EXCEPT ![u] = ClosesAll(u, raised)]
    /\ measuring' = [measuring EXCEPT ![u] = "no"]
    /\ UNCHANGED <<machine, Life, Places, measures, Clocks>>

-----------------------------------------------------------------------------
(* read_actual_freq_mhz: APERF and MPERF, and both again after a while.    *)

Register(ticks) == ticks % MsrSize

Ticks ==
    /\ clock.aperf < MaxTicks /\ clock.mperf < MaxTicks
    /\ \E a, m \in 0 .. 2 : clock' = [aperf |-> clock.aperf + a, mperf |-> clock.mperf + m]
    /\ UNCHANGED <<machine, Life, Places, Perf, sampled>>

ReadMsr(msr) == [value |-> Register(clock[msr]), at |-> clock[msr]]

\* A fault: the difference is not brought into the width of the register.
DifferenceRaw(last, first) == last - first

Difference(last, first) == (last - first) % MsrSize

\* None when MPERF has not moved.
Ratio(reads) ==
    LET da == Difference(reads[3].value, reads[1].value)
        dm == Difference(reads[4].value, reads[2].value)
    IN IF dm = 0 THEN <<>> ELSE <<da, dm>>

Sampling(u) == Len(sampled[u].reads) \in 1..3

SampleBegins(u) ==
    /\ report # NoReport /\ ~Sampling(u)
    /\ sampled' = [sampled EXCEPT ![u] = [reads |-> <<ReadMsr("aperf")>>, ratio |-> <<>>]]
    /\ UNCHANGED <<machine, Life, Places, Perf, clock>>

\* The clock's nominal frequency, which the ratio is of, may not be known.
SampleReads(u) ==
    /\ Sampling(u)
    /\ LET reads == Append(sampled[u].reads, ReadMsr(IF Len(sampled[u].reads) = 2 THEN "aperf" ELSE "mperf"))
       IN \E ratio \in {<<>>} \cup (IF Len(reads) = 4 THEN {Ratio(reads)} ELSE {}) :
              sampled' = [sampled EXCEPT ![u] = [reads |-> reads, ratio |-> ratio]]
    /\ UNCHANGED <<machine, Life, Places, Perf, clock>>

SampleFails(u) ==
    /\ Sampling(u)
    /\ sampled' = [sampled EXCEPT ![u] = [reads |-> <<>>, ratio |-> <<>>]]
    /\ UNCHANGED <<machine, Life, Places, Perf, clock>>

-----------------------------------------------------------------------------
LifeNext ==
    \/ \E u \in Owners : NewBus(u) \/ Allocates(u) \/ AllocateFails(u)
                           \/ ShutdownBegins(u) \/ ShutdownFrees(u) \/ ShutdownEnds(u)
    \/ \E u \in HwUsers : BarBegins(u) \/ BarMapped(u) \/ BarFails(u)

PlaceNext == \E u \in HwUsers : Probes(u) \/ Pins(u) \/ \E s \in NeededSizes : Places1(u, s)

PerfNext == \E u \in HwUsers : Probes(u) \/ MeasureBegins(u) \/ MeasureOpens(u) \/ MeasureEnds(u)

\* Samplers share nothing but the clocks: those that initialise stand for all.
ClockNext == Ticks \/ \E u \in Owners : Probes(u) \/ SampleBegins(u) \/ SampleReads(u) \/ SampleFails(u)

HwNext == LifeNext \/ PlaceNext \/ PerfNext \/ ClockNext

HwSpec == HwInit /\ [][HwNext]_hwVars

-----------------------------------------------------------------------------
\* aios_hardware.py:1739 "ok = hw.initialise(...) - allocates real memory regions": with one owner,
\* the layer becomes ready with all its regions on the bus it has then, whichever allocation failed
\* in an earlier call and whatever a shutdown freed.
ReadyWithRegions ==
    [][ready' /\ ~ready => ToSet(RegionNames) \subseteq ToSet(busHolds'[busId'])]_hwVars

\* The same for a layer that is ready while no call is under way.  initialise replaces the bus and
\* leaves _ready as it was: TLC refutes this with a second initialise whose allocation fails.
ReadyHasRegions ==
    ready /\ (\A u \in DOMAIN owning : owning[u] = "idle" /\ leaving[u] = <<>>)
        => ToSet(RegionNames) \subseteq ToSet(busHolds[busId])

\* :1083 the finally block of measure: a thread outside the with block has no counter open, though
\* the block raised.
CountersAreClosed == \A u \in HwUsers : measuring[u] = "no" => fds[u] = {}

\* :1159 "da = (a1 - a0) & 0xFFFF_FFFF_FFFF_FFFF": the differences are the ticks of each clock
\* between its two readings, though a register wrapped, as long as they fit in it.
RatioIsExact ==
    \A u \in Owners : LET s == sampled[u]
                          ticks(i) == s.reads[i + 2].at - s.reads[i].at
                      IN \A i \in DOMAIN s.ratio : ticks(i) < MsrSize => s.ratio[i] = ticks(i)

\* :1593 "b = floor(sqrt(L1_bytes / (3 x 4))) then round down to multiple of 8": three tiles of
\* floats fit in the cache, unless the cache is smaller than three floats.
TilesFit == report.tile # 0 /\ machine.cache >= 12 => 12 * report.tile * report.tile <= machine.cache

\* :1239 "Choose the NUMA node that is nearest to the current thread AND has sufficient free
\* memory for the workload.": when some node has the memory, the one that was chosen has it.
WorkloadFits ==
    placed.node # -1 /\ (\E n \in Nodes(machine) : machine.free[n] >= placed.size)
        => machine.free[placed.node] >= placed.size
=============================================================================
