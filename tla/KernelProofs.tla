---------------------------- MODULE KernelProofs -----------------------------
(***************************************************************************)
(* What holds of the kernel side for every number of clients, pages,       *)
(* regions and descriptors, every screen and text, and every machine: the  *)
(* physical memory, the hardware bus and the descriptor table; the kernel  *)
(* with its interrupts, its screen, its gate and its copies; the hardware  *)
(* layer.                                                                  *)
(***************************************************************************)
EXTENDS PhysicalMemory, VirtualFiles, AgentKernel, ProcessMachine, Hardware,
        FiniteSetTheorems, SequenceTheorems, WellFoundedInduction, TLAPS

\* Two blocks of memory never share a page, a region of the bus resolves to itself, and a
\* descriptor stays its owner's (PhysicalAllocator, HardwareMemoryBus and FDTable).
StorageIsApart == BlocksApart /\ RegionsResolve /\ DescriptorsKeep

\* A kernel that is up is of one boot, its keyboard buffer holds keys that were pressed, its
\* screen shows the end of the text, a frame has the code of its vector, and a copy is what
\* was to be copied (aios_core.py and aios_process.py).
KernelIsWhole ==
    /\ UpMeansOneBoot /\ NoPhantomKeys /\ ScreenShowsEnd
    /\ FramesHaveTheirCode /\ CopiesAreTransfers

\* A tile fits the cache, counters do not outlive their measurement, and a ratio counts the
\* ticks between its samples (aios_hardware.py).
HardwareIsTold == TilesFit /\ CountersAreClosed /\ RatioIsExact

-----------------------------------------------------------------------------
LEMMA MinIsLeast ==
    ASSUME NEW S \in SUBSET Nat, S # {}
    PROVE  Min(S) \in S /\ \A n \in S : Min(S) <= n
<1>1. PICK m \in S : \A n \in S : ~(<<n, m>> \in OpToRel(<, Nat))
    BY NatLessThanWellFounded, WFMin
<1>2. \A n \in S : ~(n < m)
    BY <1>1 DEF OpToRel
<1>3. \E x \in S : \A y \in S : x <= y
    BY <1>2
<1>4. QED BY <1>3 DEF Min

-----------------------------------------------------------------------------
(* Physical memory *)

MemoryTyped ==
    /\ freePages \in SUBSET (LowPages..(Pages - 1))
    /\ blocks \in [MemoryClients -> SUBSET (Nat \X Nat)]
    /\ asking \in [MemoryClients -> Nat]

(* The runs that were given away lie above the first megabyte and are used, and two of *)
(* them, of one client or of two, share nothing.                                       *)
GivenApart ==
    /\ \A c \in MemoryClients : \A b \in blocks[c] :
          /\ Run(b[1], b[2]) \subseteq LowPages..(Pages - 1)
          /\ Run(b[1], b[2]) \cap freePages = {}
    /\ \A c, d \in MemoryClients : \A b \in blocks[c], e \in blocks[d] :
          <<c, b>> # <<d, e>> => Run(b[1], b[2]) \cap Run(e[1], e[2]) = {}

MemoryInv == MemoryTyped /\ GivenApart /\ freeCount = Cardinality(freePages)

LEMMA FreeIsFinite ==
    MemoryTyped => IsFiniteSet(freePages) /\ Cardinality(freePages) \in Nat
<1>1. IsFiniteSet(LowPages..(Pages - 1))
    BY PhysicalMemoryAssumption, FS_Interval
<1>2. QED BY <1>1, FS_Subset, FS_CardinalityType DEF MemoryTyped

LEMMA MemoryStarts == MemoryInit => MemoryInv
<1> SUFFICES ASSUME MemoryInit PROVE MemoryInv
    OBVIOUS
<1>1. Cardinality(freePages) = freeCount
    BY PhysicalMemoryAssumption, FS_Interval DEF MemoryInit
<1>2. QED BY <1>1 DEF MemoryInit, MemoryInv, MemoryTyped, GivenApart

\* PhysicalAllocator.alloc takes the first run that fits.
LEMMA AllocKeeps ==
    ASSUME MemoryInv, NEW c \in MemoryClients, Alloc(c)
    PROVE  MemoryInv'
<1> DEFINE n == asking[c]
           base == Min(Fits(n))
           new == <<base, n>>
<1>1. /\ MemoryTyped /\ GivenApart /\ freeCount = Cardinality(freePages)
      /\ n \in Nat /\ n > 0
      /\ asking' = [asking EXCEPT ![c] = 0]
    BY DEF MemoryInv, MemoryTyped, Alloc
<1>2. asking' \in [MemoryClients -> Nat]
    BY <1>1 DEF MemoryTyped
<1>3. CASE Fits(n) = {}
    BY <1>1, <1>2, <1>3 DEF Alloc, MemoryInv, MemoryTyped, GivenApart
<1>4. CASE Fits(n) # {}
    <2>1. /\ freePages' = freePages \ Run(base, n)
          /\ freeCount' = freeCount - n
          /\ blocks' = [blocks EXCEPT ![c] = @ \union {new}]
        BY <1>4 DEF Alloc
    <2>2. base \in Nat /\ base + n <= Pages /\ Run(base, n) \subseteq freePages
        <3>1. Fits(n) \in SUBSET Nat
            <4>1. LowPages..(Pages - 1) \in SUBSET Nat
                BY PhysicalMemoryAssumption
            <4>2. freePages \in SUBSET Nat
                BY <1>1, <4>1 DEF MemoryTyped
            <4>3. QED BY <4>2 DEF Fits
        <3>2. base \in Fits(n)
            BY <1>4, <3>1, MinIsLeast
        <3>3. QED BY <3>1, <3>2 DEF Fits
    <2> HIDE DEF n, base
    <2>3. blocks' \in [MemoryClients -> SUBSET (Nat \X Nat)]
        BY <1>1, <2>1, <2>2 DEF MemoryTyped
    <2>4. MemoryTyped'
        BY <1>1, <1>2, <2>1, <2>3 DEF MemoryTyped
    <2>5. \A d \in MemoryClients : \A b \in blocks'[d] :
             b \in blocks[d] \/ (d = c /\ b = new)
        BY <1>1, <2>1 DEF MemoryTyped
    <2>6. /\ new[1] = base /\ new[2] = n
          /\ Run(base, n) \subseteq LowPages..(Pages - 1)
          /\ Run(base, n) \cap freePages' = {} /\ freePages' \subseteq freePages
        BY <1>1, <2>1, <2>2 DEF MemoryTyped
    <2>7. \A d \in MemoryClients : \A b \in blocks[d] : Run(b[1], b[2]) \cap Run(base, n) = {}
        BY <1>1, <2>2 DEF GivenApart
    <2> HIDE DEF new
    <2>8. GivenApart'
        <3>1. \A d \in MemoryClients : \A b \in blocks'[d] :
                 /\ Run(b[1], b[2]) \subseteq LowPages..(Pages - 1)
                 /\ Run(b[1], b[2]) \cap freePages' = {}
            BY <1>1, <2>5, <2>6 DEF GivenApart
        <3>2. ASSUME NEW d \in MemoryClients, NEW f \in MemoryClients,
                     NEW b \in blocks'[d], NEW e \in blocks'[f], <<d, b>> # <<f, e>>
              PROVE  Run(b[1], b[2]) \cap Run(e[1], e[2]) = {}
            <4>1. CASE b \in blocks[d] /\ e \in blocks[f]
                BY <1>1, <3>2, <4>1 DEF GivenApart
            <4>2. CASE b \in blocks[d] /\ e = new
                BY <2>6, <2>7, <4>2
            <4>3. CASE b = new /\ e \in blocks[f]
                BY <2>6, <2>7, <4>3
            <4>4. QED BY <2>5, <3>2, <4>1, <4>2, <4>3
        <3>3. QED BY <3>1, <3>2 DEF GivenApart
    <2>9. freeCount' = Cardinality(freePages')
        <3>1. Cardinality(Run(base, n)) = n
            <4>1. base \in Int /\ base + n - 1 \in Int /\ ~(base > base + n - 1)
                BY <1>1, <2>2
            <4>2. Cardinality(base..(base + n - 1)) = (base + n - 1) - base + 1
                BY <4>1, FS_Interval
            <4>3. QED BY <1>1, <2>2, <4>2 DEF Run
        <3>2. freePages \cap Run(base, n) = Run(base, n)
            BY <2>2
        <3>3. Cardinality(freePages \ Run(base, n)) = Cardinality(freePages) - n
            <4>1. IsFiniteSet(freePages)
                BY <1>1, FreeIsFinite
            <4>2. Cardinality(freePages \ Run(base, n))
                    = Cardinality(freePages) - Cardinality(freePages \cap Run(base, n))
                BY <4>1, FS_Difference
            <4>3. QED BY <3>1, <3>2, <4>2
        <3>4. QED BY <1>1, <2>1, <3>3
    <2>10. QED BY <2>4, <2>8, <2>9 DEF MemoryInv
<1>5. QED BY <1>3, <1>4

\* PhysicalAllocator.free gives back exactly the pages of the block.
LEMMA FreeKeeps ==
    ASSUME MemoryInv, NEW c \in MemoryClients, NEW b, Free(c, b)
    PROVE  MemoryInv'
<1> DEFINE run == Run(b[1], b[2])
<1>1. /\ MemoryTyped /\ GivenApart /\ freeCount = Cardinality(freePages) /\ b \in blocks[c]
    BY DEF MemoryInv, Free
<1>2. run \subseteq LowPages..(Pages - 1) /\ run \cap freePages = {}
    BY <1>1 DEF GivenApart
<1>3. /\ freePages' = freePages \union run
      /\ freeCount' = freeCount + Cardinality(run)
      /\ blocks' = [blocks EXCEPT ![c] = @ \ {b}] /\ asking' = asking
    <2>1. run \ freePages = run
        BY <1>2
    <2>2. QED BY <2>1 DEF Free
<1> HIDE DEF run
<1>4. MemoryTyped'
    BY <1>1, <1>2, <1>3 DEF MemoryTyped
<1>5. \A d \in MemoryClients : \A e \in blocks'[d] : e \in blocks[d] /\ <<d, e>> # <<c, b>>
    BY <1>1, <1>3 DEF MemoryTyped
<1>6. GivenApart'
    <2>1. ASSUME NEW d \in MemoryClients, NEW e \in blocks'[d]
          PROVE  /\ Run(e[1], e[2]) \subseteq LowPages..(Pages - 1)
                 /\ Run(e[1], e[2]) \cap freePages' = {}
        <3>1. Run(e[1], e[2]) \cap run = {}
            BY <1>1, <1>5 DEF GivenApart, run
        <3>2. QED BY <1>1, <1>3, <1>5, <3>1 DEF GivenApart
    <2>2. \A d, f \in MemoryClients : \A e \in blocks'[d], g \in blocks'[f] :
             <<d, e>> # <<f, g>> => Run(e[1], e[2]) \cap Run(g[1], g[2]) = {}
        BY <1>1, <1>5 DEF GivenApart
    <2>3. QED BY <2>1, <2>2 DEF GivenApart
<1>7. freeCount' = Cardinality(freePages')
    <2>1. IsFiniteSet(run) /\ Cardinality(run) \in Nat
        <3>1. IsFiniteSet(LowPages..(Pages - 1))
            BY PhysicalMemoryAssumption, FS_Interval
        <3>2. QED BY <1>2, <3>1, FS_Subset, FS_CardinalityType
    <2>2. Cardinality(freePages \cap run) = 0
        <3>1. freePages \cap run = {}
            BY <1>2
        <3>2. QED BY <3>1, FS_EmptySet
    <2>3. IsFiniteSet(freePages) /\ Cardinality(freePages) \in Nat
        BY <1>1, FreeIsFinite
    <2>4. Cardinality(freePages \union run)
            = Cardinality(freePages) + Cardinality(run) - Cardinality(freePages \cap run)
        BY <2>1, <2>3, FS_Union
    <2>5. QED BY <1>1, <1>3, <2>1, <2>2, <2>3, <2>4
<1>8. QED BY <1>4, <1>6, <1>7 DEF MemoryInv

LEMMA MemorySteps == MemoryInv /\ [MemoryNext]_memoryVars => MemoryInv'
<1> SUFFICES ASSUME MemoryInv, [MemoryNext]_memoryVars PROVE MemoryInv'
    OBVIOUS
<1>1. ASSUME UNCHANGED <<freePages, freeCount, blocks>>, asking' \in [MemoryClients -> Nat]
      PROVE  MemoryInv'
    BY <1>1 DEF MemoryInv, MemoryTyped, GivenApart
<1>2. ASSUME NEW c \in MemoryClients, NEW n \in 1..Pages, AllocChecks(c, n) PROVE MemoryInv'
    BY <1>1, <1>2, PhysicalMemoryAssumption DEF AllocChecks, MemoryInv, MemoryTyped
<1>3. ASSUME UNCHANGED <<freePages, freeCount, blocks, asking>> PROVE MemoryInv'
    BY <1>1, <1>3 DEF MemoryInv, MemoryTyped
<1>4. ASSUME NEW c \in MemoryClients, NEW v \in VirtualPages,
             Poke(c, v) \/ UnmapPage(v) \/ (\E b \in blocks[c], w \in BOOLEAN : MapPage(v, b[1], w))
      PROVE  MemoryInv'
    BY <1>3, <1>4 DEF Poke, UnmapPage, MapPage
<1>5. ASSUME NEW v \in VirtualPages, UnmapPage(v) PROVE MemoryInv'
    BY <1>3, <1>5 DEF UnmapPage
<1>6. CASE UNCHANGED memoryVars
    BY <1>3, <1>6 DEF memoryVars
<1>7. QED BY <1>2, <1>4, <1>5, <1>6, AllocKeeps, FreeKeeps DEF MemoryNext

LEMMA BlocksStayApart == MemorySpec => []BlocksApart
<1>1. MemoryInv => BlocksApart
    <2> SUFFICES ASSUME MemoryInv PROVE BlocksApart
        OBVIOUS
    <2>1. \A h \in Held : \E c \in MemoryClients : \E b \in blocks[c] : h = <<c, b>>
        BY DEF Held
    <2>2. ASSUME NEW h \in Held
          PROVE  /\ Run(h[2][1], h[2][2]) \subseteq LowPages..(Pages - 1)
                 /\ Run(h[2][1], h[2][2]) \cap freePages = {}
                 /\ \A o \in Held \ {h} : Run(h[2][1], h[2][2]) \cap Run(o[2][1], o[2][2]) = {}
        <3>0. PICK c \in MemoryClients : \E b \in blocks[c] : h = <<c, b>>
            BY <2>1
        <3>1. PICK b \in blocks[c] : h = <<c, b>>
            BY <3>0
        <3>2. ASSUME NEW o \in Held \ {h}
              PROVE  Run(h[2][1], h[2][2]) \cap Run(o[2][1], o[2][2]) = {}
            <4>0. PICK d \in MemoryClients : \E e \in blocks[d] : o = <<d, e>>
                BY <2>1
            <4>1. PICK e \in blocks[d] : o = <<d, e>>
                BY <4>0
            <4>2. <<c, b>> # <<d, e>>
                BY <3>1, <3>2, <4>1
            <4>3. Run(b[1], b[2]) \cap Run(e[1], e[2]) = {}
                BY <4>2 DEF MemoryInv, GivenApart
            <4>4. h[2] = b /\ o[2] = e
                BY <3>1, <4>1
            <4>5. QED BY <4>3, <4>4
        <3>3. h[2] = b
            BY <3>1
        <3>4. QED BY <3>2, <3>3 DEF MemoryInv, GivenApart
    <2>3. QED BY <2>2 DEF BlocksApart, MemoryInv
<1>2. QED BY MemoryStarts, MemorySteps, <1>1, PTL DEF MemorySpec

-----------------------------------------------------------------------------
(* The hardware bus *)

(* Every region lies below the next free address, and so does what the page map knows. *)
RegionsBelow ==
    /\ nextPhys \in Nat
    /\ DOMAIN physMap \subseteq 0..(nextPhys - 1)
    /\ \A name \in DOMAIN regions :
          /\ regions[name].base \in Nat /\ regions[name].size \in Nat
          /\ regions[name].base + regions[name].size <= nextPhys

BusInv == RegionsBelow /\ RegionsResolve

LEMMA BusStarts == BusInit => BusInv
BY DEF BusInit, BusInv, RegionsBelow, RegionsResolve

\* allocate_region and map_pci_bar put a region at the next free address.
LEMMA EntersKeeps ==
    ASSUME BusInv, NEW name, NEW size \in Nat, Enters(name, size)
    PROVE  BusInv'
<1> DEFINE new == [base |-> nextPhys, size |-> size]
           range == nextPhys..(nextPhys + size - 1)
<1>1. /\ RegionsBelow /\ RegionsResolve /\ nextPhys \in Nat
      /\ new.base = nextPhys /\ new.size = size /\ nextPhys' = nextPhys + size
    BY DEF BusInv, RegionsBelow, Enters
<1>2. /\ regions' = [z \in DOMAIN regions \union {name} |-> IF z = name THEN new ELSE regions[z]]
      /\ physMap' = [p \in DOMAIN physMap \union range |->
                       IF p < nextPhys THEN physMap[p] ELSE [name |-> name, offset |-> p - nextPhys]]
    BY DEF Enters, Update
<1> HIDE DEF new
<1>3. /\ DOMAIN regions' = DOMAIN regions \union {name}
      /\ regions'[name] = new
      /\ \A z \in DOMAIN regions : z # name => regions'[z] = regions[z]
    BY <1>2
<1>4. /\ DOMAIN physMap' = DOMAIN physMap \union range
      /\ \A p \in DOMAIN physMap : physMap'[p] = physMap[p]
      /\ \A p \in range : physMap'[p] = [name |-> name, offset |-> p - nextPhys]
    BY <1>1, <1>2 DEF RegionsBelow
<1>5. RegionsBelow'
    <2>1. \A p \in DOMAIN physMap' : p \in 0..(nextPhys' - 1)
        BY <1>1, <1>4 DEF RegionsBelow
    <2>2. ASSUME NEW z \in DOMAIN regions'
          PROVE  /\ regions'[z].base \in Nat /\ regions'[z].size \in Nat
                 /\ regions'[z].base + regions'[z].size <= nextPhys'
        <3>1. CASE z = name
            BY <1>1, <1>3, <3>1
        <3>2. CASE z # name
            <4>1. z \in DOMAIN regions /\ regions'[z] = regions[z]
                BY <1>3, <2>2, <3>2
            <4>2. QED BY <1>1, <4>1 DEF RegionsBelow
        <3>3. QED BY <3>1, <3>2
    <2>3. nextPhys' \in Nat
        BY <1>1
    <2>4. QED BY <2>1, <2>2, <2>3 DEF RegionsBelow
<1>6. RegionsResolve'
    <2>1. ASSUME NEW z \in DOMAIN regions', NEW i \in 0..(regions'[z].size - 1)
          PROVE  /\ regions'[z].base + i \in DOMAIN physMap'
                 /\ physMap'[regions'[z].base + i] = [name |-> z, offset |-> i]
        <3>1. CASE z = name
            <4>1. nextPhys + i \in range /\ (nextPhys + i) - nextPhys = i
                BY <1>1, <1>3, <2>1, <3>1
            <4>2. QED BY <1>1, <1>3, <1>4, <3>1, <4>1
        <3>2. CASE z # name
            <4>1. z \in DOMAIN regions /\ regions'[z] = regions[z]
                BY <1>3, <2>1, <3>2
            <4>2. /\ regions[z].base + i \in DOMAIN physMap
                  /\ physMap[regions[z].base + i] = [name |-> z, offset |-> i]
                BY <1>1, <2>1, <4>1 DEF RegionsResolve
            <4>3. QED BY <1>4, <4>1, <4>2
        <3>3. QED BY <3>1, <3>2
    <2>2. QED BY <2>1 DEF RegionsResolve
<1>7. QED BY <1>5, <1>6 DEF BusInv

\* free_region takes away no page of another region: that page would resolve to both.
LEMMA FreeRegionKeeps ==
    ASSUME BusInv, NEW name, FreeRegion(name)
    PROVE  BusInv'
<1> DEFINE range == regions[name].base..(regions[name].base + regions[name].size - 1)
<1>1. /\ RegionsBelow /\ RegionsResolve /\ name \in DOMAIN regions /\ nextPhys' = nextPhys
      /\ regions' = [z \in DOMAIN regions \ {name} |-> regions[z]]
      /\ physMap' = [p \in DOMAIN physMap \ {p \in DOMAIN physMap : p \in range} |-> physMap[p]]
    BY DEF BusInv, FreeRegion, Without
<1>2. /\ DOMAIN regions' = DOMAIN regions \ {name}
      /\ \A z \in DOMAIN regions' : regions'[z] = regions[z]
      /\ DOMAIN physMap' = {p \in DOMAIN physMap : p \notin range}
      /\ \A p \in DOMAIN physMap' : physMap'[p] = physMap[p]
    BY <1>1
<1>3. RegionsBelow'
    BY <1>1, <1>2 DEF RegionsBelow
<1>4. RegionsResolve'
    <2>1. ASSUME NEW z \in DOMAIN regions', NEW i \in 0..(regions'[z].size - 1)
          PROVE  /\ regions'[z].base + i \in DOMAIN physMap'
                 /\ physMap'[regions'[z].base + i] = [name |-> z, offset |-> i]
        <3> DEFINE page == regions[z].base + i
        <3>1. /\ z \in DOMAIN regions /\ z # name /\ regions'[z] = regions[z]
              /\ i \in 0..(regions[z].size - 1)
            BY <1>2, <2>1
        <3>2. page \in DOMAIN physMap /\ physMap[page] = [name |-> z, offset |-> i]
            BY <1>1, <3>1 DEF RegionsResolve
        <3>3. page \notin range
            <4>1. SUFFICES ASSUME page \in range PROVE FALSE
                OBVIOUS
            <4> DEFINE k == page - regions[name].base
            <4>2. /\ regions[name].base \in Nat /\ regions[name].size \in Nat
                  /\ regions[z].base \in Nat /\ page \in Int
                BY <1>1, <3>1 DEF RegionsBelow
            <4>3. k \in 0..(regions[name].size - 1) /\ regions[name].base + k = page
                BY <4>1, <4>2
            <4>4. physMap[page] = [name |-> name, offset |-> k]
                BY <1>1, <4>3 DEF RegionsResolve
            <4>5. physMap[page].name = z /\ physMap[page].name = name
                BY <3>2, <4>4
            <4>6. QED BY <3>1, <4>5
        <3>4. QED BY <1>2, <3>1, <3>2, <3>3
    <2>2. QED BY <2>1 DEF RegionsResolve
<1>5. QED BY <1>3, <1>4 DEF BusInv

LEMMA BusSteps == BusInv /\ [BusNext]_busVars => BusInv'
<1> SUFFICES ASSUME BusInv, [BusNext]_busVars PROVE BusInv'
    OBVIOUS
<1>1. ASSUME UNCHANGED <<regions, physMap, nextPhys>> PROVE BusInv'
    BY <1>1 DEF BusInv, RegionsBelow, RegionsResolve
<1>2. ASSUME NEW name \in Regions, NEW size \in 1..MaxRegion,
             AllocateRegion(name, size) \/ MapPciBar(name, size)
      PROVE  BusInv'
    <2>1. size \in Nat /\ Enters(name, size)
        BY <1>2, HardwareBusAssumption DEF AllocateRegion, MapPciBar
    <2>2. QED BY <2>1, EntersKeeps
<1>3. ASSUME NEW u \in BusUsers, (\E page \in DOMAIN physMap : Resolve(u, page)) \/ Touches(u)
      PROVE  BusInv'
    BY <1>1, <1>3 DEF Resolve, Touches
<1>4. CASE UNCHANGED busVars
    BY <1>1, <1>4 DEF busVars
<1>5. QED BY <1>2, <1>3, <1>4, FreeRegionKeeps DEF BusNext

LEMMA RegionsStay == BusSpec => []RegionsResolve
<1>1. BusInv => RegionsResolve
    BY DEF BusInv
<1>2. QED BY BusStarts, BusSteps, <1>1, PTL DEF BusSpec

-----------------------------------------------------------------------------
(* Descriptors *)

\* The fields of an entry of the table.
IsDescriptor(r) == r = [node |-> r.node, flags |-> r.flags, offset |-> r.offset]

\* The table and the users' tables are functions, and a descriptor has one holder.
DescriptorsHeldOnce ==
    /\ fdTable = [f \in DOMAIN fdTable |-> fdTable[f]]
    /\ \A f \in DOMAIN fdTable : IsDescriptor(fdTable[f])
    /\ DOMAIN mine = VfsUsers
    /\ \A u, v \in VfsUsers : u # v => DOMAIN mine[u] \cap DOMAIN mine[v] = {}

DescriptorInv == DescriptorsHeldOnce /\ DescriptorsKeep

LEMMA DescriptorsStart == VfsInit => DescriptorInv
<1> SUFFICES ASSUME VfsInit PROVE DescriptorInv
    OBVIOUS
<1>1. DOMAIN fdTable = {} /\ DOMAIN mine = VfsUsers /\ \A u \in VfsUsers : DOMAIN mine[u] = {}
    BY DEF VfsInit
<1>2. fdTable = [f \in DOMAIN fdTable |-> fdTable[f]]
    BY DEF VfsInit
<1>3. QED BY <1>1, <1>2 DEF DescriptorInv, DescriptorsHeldOnce, DescriptorsKeep

LEMMA OffsetChanges ==
    ASSUME NEW r, IsDescriptor(r), NEW e
    PROVE  IsDescriptor([r EXCEPT !.offset = e]) /\ [r EXCEPT !.offset = e].node = r.node
BY DEF IsDescriptor

\* A step that at most moves the offset of one descriptor.
LEMMA DescriptorStays ==
    ASSUME DescriptorInv, UNCHANGED mine,
           fdTable' = fdTable \/ \E fd \in DOMAIN fdTable : \E e :
                                    fdTable' = [fdTable EXCEPT ![fd].offset = e]
    PROVE  DescriptorInv'
<1>1. CASE fdTable' = fdTable
    BY <1>1 DEF DescriptorInv, DescriptorsHeldOnce, DescriptorsKeep
<1>2. ASSUME NEW fd \in DOMAIN fdTable, NEW e, fdTable' = [fdTable EXCEPT ![fd].offset = e]
      PROVE  DescriptorInv'
    <2> DEFINE r == [fdTable[fd] EXCEPT !.offset = e]
    <2>1. IsDescriptor(r) /\ r.node = fdTable[fd].node
        BY OffsetChanges DEF DescriptorInv, DescriptorsHeldOnce
    <2>2. fdTable' = [fdTable EXCEPT ![fd] = r]
        BY <1>2
    <2> HIDE DEF r
    <2>3. /\ DOMAIN fdTable' = DOMAIN fdTable
          /\ fdTable' = [f \in DOMAIN fdTable' |-> fdTable'[f]]
          /\ \A f \in DOMAIN fdTable : fdTable'[f] = IF f = fd THEN r ELSE fdTable[f]
        BY <2>2 DEF DescriptorInv, DescriptorsHeldOnce
    <2>4. \A f \in DOMAIN fdTable' : IsDescriptor(fdTable'[f]) /\ fdTable'[f].node = fdTable[f].node
        BY <2>1, <2>3 DEF DescriptorInv, DescriptorsHeldOnce
    <2>5. DescriptorsHeldOnce'
        BY <2>3, <2>4 DEF DescriptorInv, DescriptorsHeldOnce
    <2>6. DescriptorsKeep'
        <3>1. \A u \in VfsUsers : \A f \in DOMAIN mine[u] :
                 f \in DOMAIN fdTable' /\ fdTable'[f].node = mine[u][f]
            BY <2>3, <2>4 DEF DescriptorInv, DescriptorsKeep
        <3>2. DOMAIN fdTable' = UNION {DOMAIN mine[u] : u \in VfsUsers}
            BY <2>3 DEF DescriptorInv, DescriptorsKeep
        <3>3. QED BY <3>1, <3>2 DEF DescriptorsKeep
    <2>7. QED BY <2>5, <2>6 DEF DescriptorInv
<1>3. QED BY <1>1, <1>2

\* FDTable.alloc gives out a descriptor that is in nobody's table.
LEMMA AllocFdKeeps ==
    ASSUME DescriptorInv, NEW u \in VfsUsers, AllocFd(u)
    PROVE  DescriptorInv'
<1> DEFINE fd == Picks
           node == opening[u].node
           new == [node |-> node, flags |-> opening[u].flags,
                   offset |-> IF "APPEND" \in opening[u].flags /\ node > 0 THEN Len(bytes[node]) ELSE 0]
<1>1. CASE fd = Failed
    BY <1>1, DescriptorStays DEF AllocFd
<1>2. CASE fd # Failed
    <2>1. fd \notin DOMAIN fdTable
        <3> DEFINE free == {i \in 1..MaxFds : Tried[i] \notin DOMAIN fdTable}
        <3>1. free # {} /\ fd = Tried[Min(free)]
            BY <1>2 DEF Picks
        <3>2. free \in SUBSET Nat
            OBVIOUS
        <3>3. Min(free) \in free
            BY <3>1, <3>2, MinIsLeast
        <3>4. QED BY <3>1, <3>3
    <2>2. /\ fdTable' = [f \in DOMAIN fdTable \union {fd} |-> IF f # fd THEN fdTable[f] ELSE new]
          /\ mine' = [mine EXCEPT ![u] = [f \in DOMAIN mine[u] \union {fd} |->
                                              IF f = fd THEN node ELSE mine[u][f]]]
        BY <1>2 DEF AllocFd
    <2>3. new.node = node /\ IsDescriptor(new)
        BY DEF IsDescriptor
    <2> HIDE DEF fd, node, new
    <2>4. /\ DOMAIN fdTable' = DOMAIN fdTable \union {fd} /\ fdTable'[fd] = new
          /\ fdTable' = [f \in DOMAIN fdTable' |-> fdTable'[f]]
          /\ \A f \in DOMAIN fdTable : fdTable'[f] = fdTable[f]
        BY <2>1, <2>2
    <2>5. /\ DOMAIN mine' = VfsUsers /\ DOMAIN mine'[u] = DOMAIN mine[u] \union {fd}
          /\ mine'[u][fd] = node
          /\ \A f \in DOMAIN mine[u] : f # fd => mine'[u][f] = mine[u][f]
          /\ \A v \in VfsUsers : v # u => mine'[v] = mine[v]
        BY <2>2 DEF DescriptorInv, DescriptorsHeldOnce
    <2>6. \A v \in VfsUsers : \A f \in DOMAIN mine[v] : f \in DOMAIN fdTable /\ f # fd
        BY <2>1 DEF DescriptorInv, DescriptorsKeep
    <2>7. DescriptorsHeldOnce'
        <3>1. \A f \in DOMAIN fdTable' : IsDescriptor(fdTable'[f])
            BY <2>3, <2>4 DEF DescriptorInv, DescriptorsHeldOnce
        <3>2. \A v, w \in VfsUsers : v # w => DOMAIN mine'[v] \cap DOMAIN mine'[w] = {}
            BY <2>5, <2>6 DEF DescriptorInv, DescriptorsHeldOnce
        <3>3. QED BY <2>4, <2>5, <3>1, <3>2 DEF DescriptorsHeldOnce
    <2>8. DescriptorsKeep'
        <3>1. ASSUME NEW v \in VfsUsers, NEW f \in DOMAIN mine'[v]
              PROVE  f \in DOMAIN fdTable' /\ fdTable'[f].node = mine'[v][f]
            <4>1. CASE f = fd
                <5>1. v = u
                    BY <2>5, <2>6, <4>1
                <5>2. QED BY <2>3, <2>4, <2>5, <4>1, <5>1
            <4>2. CASE f # fd
                <5>1. f \in DOMAIN mine[v] /\ mine'[v][f] = mine[v][f]
                    BY <2>5, <4>2
                <5>2. QED BY <2>4, <5>1 DEF DescriptorInv, DescriptorsKeep
            <4>3. QED BY <4>1, <4>2
        <3>2. DOMAIN fdTable' = UNION {DOMAIN mine'[v] : v \in VfsUsers}
            <4>1. \A f : f \in DOMAIN fdTable <=> \E v \in VfsUsers : f \in DOMAIN mine[v]
                BY DEF DescriptorInv, DescriptorsKeep
            <4>2. \A f : f \in DOMAIN fdTable' <=> \E v \in VfsUsers : f \in DOMAIN mine'[v]
                BY <2>4, <2>5, <4>1
            <4>3. QED BY <4>2
        <3>3. QED BY <3>1, <3>2 DEF DescriptorsKeep
    <2>9. QED BY <2>7, <2>8 DEF DescriptorInv
<1>3. QED BY <1>1, <1>2

LEMMA CloseFdKeeps ==
    ASSUME DescriptorInv, NEW u \in VfsUsers, NEW fd, CloseFd(u, fd)
    PROVE  DescriptorInv'
<1>1. /\ fd \in DOMAIN mine[u] /\ fd \in DOMAIN fdTable
      /\ fdTable' = [f \in DOMAIN fdTable \ {fd} |-> fdTable[f]]
      /\ mine' = [mine EXCEPT ![u] = [f \in DOMAIN mine[u] \ {fd} |-> mine[u][f]]]
    BY DEF CloseFd
<1>2. /\ DOMAIN fdTable' = DOMAIN fdTable \ {fd}
      /\ fdTable' = [f \in DOMAIN fdTable' |-> fdTable'[f]]
      /\ \A f \in DOMAIN fdTable' : fdTable'[f] = fdTable[f]
    BY <1>1
<1>3. /\ DOMAIN mine' = VfsUsers /\ DOMAIN mine'[u] = DOMAIN mine[u] \ {fd}
      /\ \A f \in DOMAIN mine'[u] : mine'[u][f] = mine[u][f]
      /\ \A v \in VfsUsers : v # u => mine'[v] = mine[v]
    BY <1>1 DEF DescriptorInv, DescriptorsHeldOnce
<1>4. \A v \in VfsUsers : v # u => fd \notin DOMAIN mine[v]
    BY <1>1 DEF DescriptorInv, DescriptorsHeldOnce
<1>5. DescriptorsHeldOnce'
    BY <1>2, <1>3 DEF DescriptorInv, DescriptorsHeldOnce
<1>6. DescriptorsKeep'
    <2>1. \A v \in VfsUsers : \A f \in DOMAIN mine'[v] :
             f \in DOMAIN fdTable' /\ fdTable'[f].node = mine'[v][f]
        BY <1>2, <1>3, <1>4 DEF DescriptorInv, DescriptorsKeep
    <2>2. \A f : f \in DOMAIN fdTable <=> \E v \in VfsUsers : f \in DOMAIN mine[v]
        BY DEF DescriptorInv, DescriptorsKeep
    <2>3. \A f : f \in DOMAIN fdTable' <=> \E v \in VfsUsers : f \in DOMAIN mine'[v]
        BY <1>2, <1>3, <1>4, <2>2
    <2>4. QED BY <2>1, <2>3 DEF DescriptorsKeep
<1>7. QED BY <1>5, <1>6 DEF DescriptorInv

LEMMA DescriptorSteps == DescriptorInv /\ [VfsNext]_vfsVars => DescriptorInv'
<1> SUFFICES ASSUME DescriptorInv, [VfsNext]_vfsVars PROVE DescriptorInv'
    OBVIOUS
<1>1. ASSUME UNCHANGED <<fdTable, mine>> PROVE DescriptorInv'
    BY <1>1, DescriptorStays
<1>2. ASSUME NEW u \in VfsUsers, NEW path \in Paths, NEW flags \in OpenModes, OpenResolves(u, path, flags)
      PROVE  DescriptorInv'
    BY <1>1, <1>2 DEF OpenResolves
<1>3. ASSUME NEW u \in VfsUsers,
             CreateLooks(u) \/ CreateAdds(u) \/ OpenResolvesAgain(u) \/ OpenTruncates(u)
      PROVE  DescriptorInv'
    BY <1>1, <1>3 DEF CreateLooks, CreateAdds, OpenResolvesAgain, OpenTruncates
<1>4. ASSUME NEW u \in VfsUsers, NEW fd \in DOMAIN fdTable, ReadFd(u, fd, MaxFile)
      PROVE  DescriptorInv'
    BY <1>4, DescriptorStays DEF ReadFd
<1>5. ASSUME NEW u \in VfsUsers, NEW fd \in DOMAIN fdTable, AppendSeeks(u, fd)
      PROVE  DescriptorInv'
    BY <1>5, DescriptorStays DEF AppendSeeks
<1>6. ASSUME NEW u \in VfsUsers, NEW fd \in DOMAIN fdTable, WriteFd(u, fd)
      PROVE  DescriptorInv'
    BY <1>6, DescriptorStays DEF WriteFd
<1>7. ASSUME NEW u \in VfsUsers, NEW fd \in DOMAIN fdTable,
             NEW whence \in {"set", "cur", "end"}, NEW offset \in {-1, 1}, SeekFd(u, fd, offset, whence)
      PROVE  DescriptorInv'
    BY <1>7, DescriptorStays DEF SeekFd
<1>8. ASSUME NEW path \in Paths, Mkdir(path) \/ Unlink(path) PROVE DescriptorInv'
    BY <1>1, <1>8 DEF Mkdir, Unlink
<1>9. CASE Mount(<<"tmp">>, "tmp") \/ Umount(<<"tmp">>)
    BY <1>1, <1>9 DEF Mount, Umount
<1>10. CASE UNCHANGED vfsVars
    BY <1>1, <1>10 DEF vfsVars
<1>11. QED BY <1>2, <1>3, <1>4, <1>5, <1>6, <1>7, <1>8, <1>9, <1>10, AllocFdKeeps, CloseFdKeeps
       DEF VfsNext

LEMMA DescriptorsStay == VfsSpec => []DescriptorsKeep
<1>1. DescriptorInv => DescriptorsKeep
    BY DEF DescriptorInv
<1>2. QED BY DescriptorsStart, DescriptorSteps, <1>1, PTL DEF VfsSpec

-----------------------------------------------------------------------------
\* Whatever is allocated, freed, mapped, opened and closed in whatever order: two blocks of
\* physical memory share no page and none has a free one, a live region of the hardware bus
\* resolves to itself, and an open descriptor is the file its only holder opened.
THEOREM StorageAlwaysApart == MemorySpec /\ BusSpec /\ VfsSpec => []StorageIsApart
<1>1. BlocksApart /\ RegionsResolve /\ DescriptorsKeep => StorageIsApart
    BY DEF StorageIsApart
<1>2. QED BY BlocksStayApart, RegionsStay, DescriptorsStay, <1>1, PTL

-----------------------------------------------------------------------------
(* The kernel *)

\* A thread that boots the kernel or runs its REPL.
Booting == {"boot", "booted", "repl"}

\* One thread at most boots or has booted the kernel, the state says how far it is, and what
\* it has built so far is of this boot.
KernelInv ==
    /\ user \in [KernelUsers -> Booting \cup {"idle", "syscall", "plan"}]
    /\ stage \in [KernelUsers -> 0 .. Len(Order)]
    /\ built \in [Subsystems -> Nat] /\ boots \in Nat
    /\ \A t \in KernelUsers : /\ user[t] = "boot" => kstate = "BOOT"
                              /\ user[t] = "booted" => kstate = "READY"
                              /\ user[t] = "repl" => kstate = "RUNNING"
    /\ \A t, v \in KernelUsers : user[t] \in Booting /\ user[v] \in Booting => t = v
    /\ \A t \in KernelUsers : user[t] = "boot" => \A i \in 1 .. stage[t] : built[Order[i]] = boots
    /\ UpMeansOneBoot

\* The subsystems are those of the order in which boot builds them, each once.
LEMMA OrderIsOfSubsystems ==
    /\ Len(Order) = 6
    /\ \A i \in 1 .. 6 : Order[i] \in Subsystems
    /\ \A s \in Subsystems : \E i \in 1 .. 6 : s = Order[i]
    /\ \A i, j \in 1 .. 6 : Order[i] = Order[j] => i = j
<1>1. Len(Order) = 6
    BY DEF Order
<1>2. Subsystems = {Order[i] : i \in 1 .. 6}
    BY <1>1 DEF Subsystems
<1>3. \A i, j \in 1 .. 6 : Order[i] = Order[j] => i = j
    BY DEF Order
<1>4. QED BY <1>1, <1>2, <1>3

LEMMA KernelStarts == KernelInit => KernelInv
<1> SUFFICES ASSUME KernelInit PROVE KernelInv
    OBVIOUS
<1>1. Len(Order) = 6
    BY OrderIsOfSubsystems
<1>2. QED BY <1>1 DEF KernelInit, KernelInv, Booting, UpMeansOneBoot

\* What a thread that is not booting does.
LEMMA OthersKeepKernel ==
    ASSUME KernelInv, NEW t \in KernelUsers, user[t] \notin Booting,
           UNCHANGED <<kstate, boots, built, stage>>,
           \/ UNCHANGED user
           \/ \E what \in {"idle", "syscall", "plan"} : Becomes(t, what)
    PROVE  KernelInv'
<1>1. user' \in [KernelUsers -> Booting \cup {"idle", "syscall", "plan"}]
    BY DEF KernelInv, Becomes
<1>2. \A v \in KernelUsers : user'[v] = user[v] \/ user'[v] \notin Booting
    BY DEF KernelInv, Becomes, Booting
<1>3. \A v \in KernelUsers : user'[v] \in Booting => user'[v] = user[v]
    BY <1>2
<1>4. QED BY <1>1, <1>3 DEF KernelInv, Booting, UpMeansOneBoot

\* boot is let in when nobody boots and the kernel is not up.
LEMMA BootBeginsKeeps ==
    ASSUME KernelInv, NEW t \in KernelUsers, BootBegins(t)
    PROVE  KernelInv'
<1>1. /\ kstate \in {"OFFLINE", "HALT"} /\ kstate' = "BOOT" /\ boots' = boots + 1 /\ built' = built
      /\ user' = [user EXCEPT ![t] = "boot"] /\ stage' = [stage EXCEPT ![t] = 0]
    BY DEF BootBegins, Becomes
<1>2. \A v \in KernelUsers : user[v] \notin Booting
    BY <1>1 DEF KernelInv, Booting
<1>3. \A v \in KernelUsers : user'[v] = IF v = t THEN "boot" ELSE user[v]
    BY <1>1 DEF KernelInv
<1>4. \A v \in KernelUsers : user'[v] \in Booting => v = t
    BY <1>2, <1>3
<1>5. user' \in [KernelUsers -> Booting \cup {"idle", "syscall", "plan"}]
    BY <1>1 DEF KernelInv, Booting
<1>6. stage' \in [KernelUsers -> 0 .. Len(Order)] /\ stage'[t] = 0
    BY <1>1, OrderIsOfSubsystems DEF KernelInv
<1>7. boots' \in Nat
    BY <1>1 DEF KernelInv
<1>8. \A v \in KernelUsers : user'[v] = "boot" => \A i \in 1 .. stage'[v] : built'[Order[i]] = boots'
    BY <1>4, <1>6 DEF Booting
<1>9. QED BY <1>1, <1>3, <1>4, <1>5, <1>6, <1>7, <1>8 DEF KernelInv, Booting, UpMeansOneBoot

\* The next subsystem replaces the one of the boot before.
LEMMA BootBuildsKeeps ==
    ASSUME KernelInv, NEW t \in KernelUsers, BootBuilds(t)
    PROVE  KernelInv'
<1> DEFINE k == stage[t] + 1
<1>1. /\ user[t] = "boot" /\ stage[t] < Len(Order) /\ UNCHANGED <<kstate, boots, user>>
      /\ built' = [built EXCEPT ![Order[k]] = boots]
      /\ stage' = [stage EXCEPT ![t] = k]
    BY DEF BootBuilds
<1>2. k \in 1 .. 6 /\ stage[t] \in Nat
    BY <1>1, OrderIsOfSubsystems DEF KernelInv
<1>3. Order[k] \in Subsystems
    BY <1>2, OrderIsOfSubsystems
<1>4. built' \in [Subsystems -> Nat]
    BY <1>1, <1>3 DEF KernelInv
<1>5. \A s \in Subsystems : built'[s] = IF s = Order[k] THEN boots ELSE built[s]
    BY <1>1, <1>3 DEF KernelInv
<1>6. stage' \in [KernelUsers -> 0 .. Len(Order)] /\ stage'[t] = k
    BY <1>1, <1>2, OrderIsOfSubsystems DEF KernelInv
<1>7. \A v \in KernelUsers : user'[v] \in Booting => v = t
    BY <1>1 DEF KernelInv, Booting
<1>8. \A i \in 1 .. k : built'[Order[i]] = boots
    <2> SUFFICES ASSUME NEW i \in 1 .. k PROVE built'[Order[i]] = boots
        OBVIOUS
    <2>1. i \in 1 .. 6 /\ Order[i] \in Subsystems
        BY <1>2, OrderIsOfSubsystems
    <2>2. i # k => built[Order[i]] = boots
        BY <1>1, <1>2 DEF KernelInv
    <2>3. QED BY <1>5, <2>1, <2>2
<1>9. kstate = "BOOT"
    BY <1>1 DEF KernelInv
<1> HIDE DEF k
<1>10. \A v \in KernelUsers : user'[v] = "boot" => \A i \in 1 .. stage'[v] : built'[Order[i]] = boots'
    BY <1>1, <1>6, <1>7, <1>8 DEF Booting
<1>11. QED BY <1>1, <1>4, <1>6, <1>9, <1>10 DEF KernelInv, UpMeansOneBoot

\* The thread that boots goes on, or gives up; it is the only one.
LEMMA BootReturnsKeep ==
    ASSUME KernelInv, NEW t \in KernelUsers,
           BootReady(t) \/ BootPanics(t) \/ ReplRuns(t) \/ ReplQuits(t)
    PROVE  KernelInv'
<1>1. user[t] \in Booting /\ UNCHANGED <<boots, built, stage>>
    BY DEF BootReady, BootPanics, ReplRuns, ReplQuits, Booting
<1>2. \A v \in KernelUsers : user[v] \in Booting => v = t
    BY <1>1 DEF KernelInv
<1>3. PICK what \in {"booted", "repl", "idle"} : user' = [user EXCEPT ![t] = what]
    BY DEF BootReady, BootPanics, ReplRuns, ReplQuits, Becomes
<1>4. /\ user' \in [KernelUsers -> Booting \cup {"idle", "syscall", "plan"}]
      /\ \A v \in KernelUsers : user'[v] = IF v = t THEN what ELSE user[v]
    BY <1>3 DEF KernelInv, Booting
<1>5. \A v \in KernelUsers : user'[v] \in Booting => v = t
    BY <1>2, <1>4
<1>6. /\ what = "booted" => kstate' = "READY"
      /\ what = "repl" => kstate' = "RUNNING"
    BY <1>3, <1>4 DEF BootReady, BootPanics, ReplRuns, ReplQuits, Becomes
<1>7. UpMeansOneBoot'
    <2>1. CASE BootReady(t)
        <3>1. user[t] = "boot" /\ stage[t] = 6
            BY <2>1, OrderIsOfSubsystems DEF BootReady
        <3>2. \A i \in 1 .. 6 : built[Order[i]] = boots
            BY <3>1 DEF KernelInv
        <3>3. QED BY <1>1, <3>2, OrderIsOfSubsystems DEF UpMeansOneBoot
    <2>2. CASE ReplRuns(t)
        BY <1>1, <2>2 DEF ReplRuns, KernelInv, UpMeansOneBoot
    <2>3. CASE BootPanics(t) \/ ReplQuits(t)
        BY <2>3 DEF BootPanics, ReplQuits, UpMeansOneBoot
    <2>4. QED BY <2>1, <2>2, <2>3
<1>8. \A v \in KernelUsers : user'[v] # "boot"
    BY <1>4, <1>5 DEF Booting
<1>9. QED BY <1>1, <1>4, <1>5, <1>6, <1>7, <1>8 DEF KernelInv, Booting

LEMMA KernelSteps == KernelInv /\ [KernelNext]_kernelVars => KernelInv'
<1> SUFFICES ASSUME KernelInv, [KernelNext]_kernelVars PROVE KernelInv'
    OBVIOUS
<1>1. CASE UNCHANGED kernelVars
    BY <1>1 DEF kernelVars, KernelInv, UpMeansOneBoot
<1>2. ASSUME NEW t \in KernelUsers, BootBegins(t) PROVE KernelInv'
    BY <1>2, BootBeginsKeeps
<1>3. ASSUME NEW t \in KernelUsers, BootBuilds(t) PROVE KernelInv'
    BY <1>3, BootBuildsKeeps
<1>4. ASSUME NEW t \in KernelUsers, BootReady(t) \/ BootPanics(t) \/ ReplRuns(t) \/ ReplQuits(t)
      PROVE  KernelInv'
    BY <1>4, BootReturnsKeep
<1>5. ASSUME NEW t \in KernelUsers, NEW tool \in Tools,
             \/ SyscallRefused(t) \/ Dispatch(t) \/ CallReturns(t) \/ Syscall(t, tool)
             \/ \E next \in Tools : PlanAndExecute(t, <<tool, next>>)
      PROVE  KernelInv'
    <2>1. /\ user[t] \notin Booting /\ UNCHANGED <<kstate, boots, built, stage>>
          /\ \/ UNCHANGED user
             \/ \E what \in {"idle", "syscall", "plan"} : Becomes(t, what)
        BY <1>5 DEF SyscallRefused, Dispatch, CallReturns, Syscall, PlanAndExecute, Booting
    <2>2. QED BY <2>1, OthersKeepKernel
<1>6. ASSUME NEW t \in KernelUsers, SyscallRefused(t) \/ Dispatch(t) \/ CallReturns(t) PROVE KernelInv'
    <2>1. /\ user[t] \notin Booting /\ UNCHANGED <<kstate, boots, built, stage>>
          /\ \/ UNCHANGED user
             \/ \E what \in {"idle", "syscall", "plan"} : Becomes(t, what)
        BY <1>6 DEF SyscallRefused, Dispatch, CallReturns, Booting
    <2>2. QED BY <2>1, OthersKeepKernel
<1>7. ASSUME NEW t \in KernelUsers, NEW tool \in Tools, Attach(t, tool) PROVE KernelInv'
    BY <1>7 DEF Attach, KernelInv, UpMeansOneBoot
<1>8. QED BY <1>1, <1>2, <1>3, <1>4, <1>5, <1>6, <1>7 DEF KernelNext

LEMMA UpStaysOneBoot == KernelSpec => []UpMeansOneBoot
<1>1. KernelInv => UpMeansOneBoot
    BY DEF KernelInv
<1>2. QED BY <1>1, KernelStarts, KernelSteps, PTL DEF KernelSpec


-----------------------------------------------------------------------------
(* Interrupts *)

\* at tells of every key in the buffer which press it was.
IsOrder(at, ks, ps) ==
    /\ at \in [1 .. Len(ks) -> 1 .. Len(ps)]
    /\ \A i, j \in 1 .. Len(ks) : i < j => at[i] < at[j]
    /\ \A i \in 1 .. Len(ks) : ks[i] = ps[at[i]]

\* A make code that the keyboard's line has still to hand over is the last one pressed, and
\* is not in the buffer.
KeysInv ==
    /\ servicing \in [Irqs -> {"no", "passed", "handled"}]
    /\ handlers = [v \in {13, 14, 33} |-> IF v = 33 THEN "keyboard" ELSE "fault"]
    /\ pressed \in Seq(Scancodes) /\ keys \in Seq(Scancodes)
    /\ \E at : /\ IsOrder(at, keys, pressed)
               /\ servicing[Keyboard] = "passed" /\ port60.make =>
                    /\ Len(pressed) > 0 /\ port60.code = pressed[Len(pressed)]
                    /\ \A i \in 1 .. Len(keys) : at[i] < Len(pressed)

LEMMA KeysStart == InterruptInit => KeysInv
<1> SUFFICES ASSUME InterruptInit PROVE KeysInv
    OBVIOUS
<1>1. /\ pressed = <<>> /\ keys = <<>> /\ Len(pressed) = 0 /\ Len(keys) = 0
      /\ pressed \in Seq(Scancodes) /\ keys \in Seq(Scancodes)
    BY DEF InterruptInit
<1>2. IsOrder(<<>>, keys, pressed)
    BY <1>1 DEF IsOrder
<1>3. servicing \in [Irqs -> {"no", "passed", "handled"}] /\ servicing[Keyboard] = "no"
    BY InterruptsAssumption DEF InterruptInit
<1>4. QED BY <1>1, <1>2, <1>3 DEF InterruptInit, KeysInv

\* The lines go on, and the keyboard's, if it has, was not between the mask and its handler.
LEMMA LinesGo ==
    ASSUME KeysInv, UNCHANGED <<handlers, port60, pressed, keys>>,
           servicing' \in [Irqs -> {"no", "passed", "handled"}],
           servicing'[Keyboard] = "passed" => servicing[Keyboard] = "passed"
    PROVE  KeysInv'
    BY DEF KeysInv

\* The next code is put on the port when the line has served the one before.
LEMMA PressKeeps ==
    ASSUME KeysInv, NEW code \in Scancodes, NEW make \in BOOLEAN, Press(code, make)
    PROVE  KeysInv'
<1>1. /\ port60' = [code |-> code, make |-> make] /\ UNCHANGED <<handlers, keys>>
      /\ pressed' = IF make THEN Append(pressed, code) ELSE pressed
      /\ servicing' = [servicing EXCEPT ![Keyboard] = IF Keyboard \in masked THEN "no" ELSE "passed"]
    BY DEF Press
<1>2. servicing' \in [Irqs -> {"no", "passed", "handled"}]
    BY <1>1 DEF KeysInv
<1>3. pressed \in Seq(Scancodes) /\ Len(pressed) \in Nat /\ keys \in Seq(Scancodes)
    BY DEF KeysInv
<1>4. PICK at : IsOrder(at, keys, pressed)
    BY DEF KeysInv
<1>5. pressed' \in Seq(Scancodes) /\ Len(pressed') >= Len(pressed) /\ Len(pressed') \in Nat
      /\ \A i \in 1 .. Len(pressed) : pressed'[i] = pressed[i]
    BY <1>1, <1>3
<1>6. IsOrder(at, keys', pressed')
    <2>1. at \in [1 .. Len(keys) -> 1 .. Len(pressed')]
        BY <1>3, <1>4, <1>5 DEF IsOrder
    <2>2. \A i \in 1 .. Len(keys) : at[i] \in 1 .. Len(pressed)
        BY <1>4 DEF IsOrder
    <2>3. QED BY <1>1, <1>4, <1>5, <2>1, <2>2 DEF IsOrder
<1>7. ASSUME port60'.make
      PROVE  /\ Len(pressed') > 0 /\ port60'.code = pressed'[Len(pressed')]
             /\ \A i \in 1 .. Len(keys') : at[i] < Len(pressed')
    <2>1. pressed' = Append(pressed, code) /\ port60'.code = code
        BY <1>1, <1>7
    <2>2. Len(pressed') = Len(pressed) + 1 /\ pressed'[Len(pressed')] = code
        BY <1>3, <2>1
    <2>3. \A i \in 1 .. Len(keys) : at[i] \in 1 .. Len(pressed)
        BY <1>4 DEF IsOrder
    <2>4. QED BY <1>1, <1>3, <2>1, <2>2, <2>3
<1>8. QED BY <1>1, <1>2, <1>3, <1>5, <1>6, <1>7 DEF KeysInv

\* The buffer with one key more, and without the oldest when it was full.
LEMMA NewestIsShifted ==
    ASSUME NEW s \in Seq(Scancodes), NEW code \in Scancodes
    PROVE  LET drop == IF Len(s) + 1 > BufferSize THEN 1 ELSE 0
               new == Newest(Append(s, code))
           IN /\ new \in Seq(Scancodes) /\ Len(new) = Len(s) + 1 - drop
              /\ \A i \in 1 .. Len(new) : new[i] = IF i + drop = Len(s) + 1 THEN code ELSE s[i + drop]
<1> DEFINE drop == IF Len(s) + 1 > BufferSize THEN 1 ELSE 0
           more == Append(s, code)
           new == Newest(more)
<1>1. /\ more \in Seq(Scancodes) /\ Len(more) = Len(s) + 1 /\ Len(s) \in Nat
      /\ \A i \in 1 .. Len(s) : more[i] = s[i]
      /\ more[Len(s) + 1] = code
    OBVIOUS
<1>2. new = SubSeq(more, 1 + drop, Len(more))
    BY <1>1, InterruptsAssumption DEF Newest
<1>3. drop \in {0, 1}
    OBVIOUS
<1> HIDE DEF drop, more, new
<1>4. /\ new \in Seq(Scancodes) /\ Len(new) = Len(s) + 1 - drop
      /\ \A i \in 1 .. Len(new) : new[i] = more[i + drop]
    BY <1>1, <1>2, <1>3
<1>5. ASSUME NEW i \in 1 .. Len(new) PROVE new[i] = IF i + drop = Len(s) + 1 THEN code ELSE s[i + drop]
    <2>1. CASE i + drop = Len(s) + 1
        BY <1>1, <1>4, <2>1
    <2>2. CASE i + drop # Len(s) + 1
        <3>1. i + drop \in 1 .. Len(s)
            BY <1>1, <1>3, <1>4, <2>2
        <3>2. QED BY <1>1, <1>4, <2>2, <3>1
    <2>3. QED BY <2>1, <2>2
<1>6. QED BY <1>4, <1>5 DEF drop, more, new

\* Only the keyboard's line has the keyboard's vector, and it hands a code over once.
LEMMA DispatchKeeps ==
    ASSUME KeysInv, 9 \notin Irqs, NEW i \in Irqs, DispatchVector(i)
    PROVE  KeysInv'
<1>1. /\ servicing[i] = "passed" /\ servicing' = [servicing EXCEPT ![i] = "handled"]
      /\ UNCHANGED <<handlers, port60, pressed>>
    BY DEF DispatchVector
<1>2. servicing' \in [Irqs -> {"no", "passed", "handled"}]
    BY <1>1 DEF KeysInv
<1>3. CASE keys' = keys
    <2>1. servicing'[Keyboard] = "passed" => servicing[Keyboard] = "passed"
        BY <1>1 DEF KeysInv
    <2>2. QED BY <1>1, <1>2, <1>3, <2>1, LinesGo
<1>4. CASE keys' # keys
    <2>1. Vector(i) = 33 /\ keys' = Newest(Append(keys, port60.code)) /\ port60.make
        BY <1>4 DEF DispatchVector, KeyboardIsr, KeysInv
    <2>2. i = Keyboard
        BY <2>1, InterruptsAssumption DEF Vector, Keyboard
    <2>3. /\ pressed \in Seq(Scancodes) /\ Len(pressed) \in Nat /\ keys \in Seq(Scancodes) /\ Len(keys) \in Nat
          /\ servicing[Keyboard] = "passed" /\ servicing'[Keyboard] = "handled"
        BY <1>1, <2>2 DEF KeysInv
    <2>4. PICK at : /\ IsOrder(at, keys, pressed)
                    /\ Len(pressed) > 0 /\ port60.code = pressed[Len(pressed)]
                    /\ \A k \in 1 .. Len(keys) : at[k] < Len(pressed)
        BY <2>1, <2>3 DEF KeysInv
    <2>5. port60.code \in Scancodes
        BY <2>3, <2>4
    <2> DEFINE drop == IF Len(keys) + 1 > BufferSize THEN 1 ELSE 0
    <2>6. /\ keys' \in Seq(Scancodes) /\ Len(keys') = Len(keys) + 1 - drop
          /\ \A k \in 1 .. Len(keys') :
                keys'[k] = IF k + drop = Len(keys) + 1 THEN port60.code ELSE keys[k + drop]
        BY <2>1, <2>3, <2>5, NewestIsShifted
    <2>7. drop \in {0, 1}
        OBVIOUS
    <2> HIDE DEF drop
    <2> DEFINE to == [k \in 1 .. Len(keys') |-> IF k + drop = Len(keys) + 1 THEN Len(pressed) ELSE at[k + drop]]
    <2>8. /\ \A k \in 1 .. Len(keys) : at[k] \in 1 .. Len(pressed) /\ keys[k] = pressed[at[k]]
          /\ \A k, l \in 1 .. Len(keys) : k < l => at[k] < at[l]
        BY <2>4 DEF IsOrder
    <2>9. \A k \in 1 .. Len(keys') : k + drop = Len(keys) + 1 \/ k + drop \in 1 .. Len(keys)
        BY <2>3, <2>6, <2>7
    <2>10. to \in [1 .. Len(keys') -> 1 .. Len(pressed)]
        BY <2>3, <2>4, <2>8, <2>9
    <2>11. \A k, l \in 1 .. Len(keys') : k < l => to[k] < to[l]
        <3> SUFFICES ASSUME NEW k \in 1 .. Len(keys'), NEW l \in 1 .. Len(keys'), k < l PROVE to[k] < to[l]
            OBVIOUS
        <3>1. k + drop \in 1 .. Len(keys)
            BY <2>3, <2>6, <2>7
        <3>2. to[k] = at[k + drop] /\ at[k + drop] < Len(pressed)
            BY <2>3, <2>4, <3>1
        <3>3. CASE l + drop = Len(keys) + 1
            BY <3>2, <3>3
        <3>4. CASE l + drop \in 1 .. Len(keys)
            <4>1. to[l] = at[l + drop]
                BY <2>3, <3>4
            <4>2. k + drop < l + drop
                BY <2>7
            <4>3. QED BY <2>8, <3>1, <3>2, <3>4, <4>1, <4>2
        <3>5. QED BY <2>9, <3>3, <3>4
    <2>12. \A k \in 1 .. Len(keys') : keys'[k] = pressed[to[k]]
        BY <2>4, <2>6, <2>8, <2>9
    <2> HIDE DEF to
    <2>13. IsOrder(to, keys', pressed')
        BY <1>1, <2>10, <2>11, <2>12 DEF IsOrder
    <2>14. QED BY <1>1, <1>2, <2>3, <2>6, <2>13 DEF KeysInv
<1>5. QED BY <1>3, <1>4

LEMMA KeysSteps ==
    ASSUME KeysInv, 9 \notin Irqs, [InterruptNext]_interruptVars
    PROVE  KeysInv'
<1>1. CASE UNCHANGED interruptVars
    BY <1>1 DEF interruptVars, KeysInv
<1>2. ASSUME NEW i \in Irqs, Mask(i) \/ Unmask(i) \/ Fire(i) \/ Eoi(i) PROVE KeysInv'
    <2>1. /\ UNCHANGED <<handlers, port60, pressed, keys>>
          /\ servicing' \in [Irqs -> {"no", "passed", "handled"}]
          /\ servicing'[Keyboard] = "passed" => servicing[Keyboard] = "passed"
        BY <1>2, InterruptsAssumption DEF Mask, Unmask, Fire, Eoi, KeysInv
    <2>2. QED BY <2>1, LinesGo
<1>3. ASSUME NEW i \in Irqs, DispatchVector(i) PROVE KeysInv'
    BY <1>3, DispatchKeeps
<1>4. ASSUME NEW code \in Scancodes, NEW make \in BOOLEAN, Press(code, make) PROVE KeysInv'
    BY <1>4, PressKeeps
<1>5. QED BY <1>1, <1>2, <1>3, <1>4 DEF InterruptNext

\* Without line 9, whose vector is the keyboard's as well.
LEMMA KeysStayPressed == ASSUME 9 \notin Irqs PROVE InterruptSpec => []NoPhantomKeys
<1>1. KeysInv => NoPhantomKeys
    <2> SUFFICES ASSUME KeysInv PROVE NoPhantomKeys
        OBVIOUS
    <2>1. DOMAIN keys = 1 .. Len(keys) /\ DOMAIN pressed = 1 .. Len(pressed)
        BY DEF KeysInv
    <2>2. PICK at : IsOrder(at, keys, pressed)
        BY DEF KeysInv
    <2>3. QED BY <2>1, <2>2 DEF IsOrder, NoPhantomKeys
<1>2. KeysInv /\ [InterruptNext]_interruptVars => KeysInv'
    BY KeysSteps
<1>3. QED BY <1>1, <1>2, KeysStart, PTL DEF InterruptSpec

-----------------------------------------------------------------------------
(* The gate *)

\* The table has of every vector whether it pushes a code, whoever registered a handler; a
\* frame was made by the table.
GateInv ==
    /\ attaching \in Nat /\ DOMAIN descriptors = GateVectors
    /\ \A v \in GateVectors : descriptors[v].hasEc = PushesCode(v)
    /\ \A u \in GateUsers : entering[u] # <<>> =>
          entering[u].error = IF PushesCode(entering[u].vector) THEN entering[u].code ELSE 0
    /\ DOMAIN entering = GateUsers /\ DOMAIN delivered = GateUsers
    /\ FramesHaveTheirCode

GateMachine == GateInit /\ [][GateNext]_gateVars

LEMMA GateStarts == GateInit => GateInv
    BY DEF GateInit, GateInv, Installed, Described, PushesCode, FramesHaveTheirCode

LEMMA RegisteredKeepsCode ==
    ASSUME GateInv, NEW v \in GateVectors, NEW isr, descriptors' = Registered(descriptors, v, isr),
           attaching' \in Nat, UNCHANGED <<entering, delivered>>
    PROVE  GateInv'
    BY DEF GateInv, Registered, Described, FramesHaveTheirCode

\* What a user enters has the code that its descriptor calls for.
LEMMA EnterKeeps ==
    ASSUME GateInv, NEW u \in GateUsers, NEW v \in GateVectors, NEW context, Enter(u, v, context),
           UNCHANGED <<descriptors, attaching, delivered>>
    PROVE  GateInv'
<1>1. entering' = [entering EXCEPT ![u] =
        [vector |-> v, isr |-> descriptors[v].isr, rax |-> context.rax,
         error |-> IF PushesCode(v) THEN context.error ELSE 0, code |-> context.error]]
    BY DEF Enter, Descriptor, GateInv
<1>2. \A w \in GateUsers : entering'[w] # <<>> =>
          entering'[w].error = IF PushesCode(entering'[w].vector) THEN entering'[w].code ELSE 0
    BY <1>1 DEF GateInv
<1>3. QED BY <1>1, <1>2 DEF GateInv, FramesHaveTheirCode

LEMMA HandlesKeeps ==
    ASSUME GateInv, NEW u \in GateUsers, NEW pid, Handles(u, pid)
    PROVE  GateInv'
<1>1. /\ entering[u] # <<>> /\ UNCHANGED <<descriptors, attaching>>
      /\ delivered' = [delivered EXCEPT ![u] =
            [vector |-> entering[u].vector, error |-> entering[u].error, code |-> entering[u].code,
             rax |-> Left(entering[u], pid)]]
      /\ entering' = [entering EXCEPT ![u] = << >>]
    BY DEF Handles
<1>2. QED BY <1>1 DEF GateInv, FramesHaveTheirCode

LEMMA GateSteps == GateInv /\ [GateNext]_gateVars => GateInv'
<1> SUFFICES ASSUME GateInv, [GateNext]_gateVars PROVE GateInv'
    OBVIOUS
<1>1. CASE UNCHANGED gateVars
    BY <1>1 DEF gateVars, GateInv, FramesHaveTheirCode
<1>2. ASSUME NEW v \in {"#DE", "#GP", "#PF"}, RegisterIsr(v, "log") PROVE GateInv'
    <2>1. v \in GateVectors
        BY DEF GateVectors
    <2>2. QED BY <1>2, <2>1, RegisteredKeepsCode DEF RegisterIsr, GateInv
<1>3. CASE AttachTable
    <2> DEFINE p == Ported[attaching + 1]
    <2>1. p.vector \in GateVectors
        <3>1. attaching + 1 \in 1 .. 4
            BY <1>3 DEF AttachTable, Ported, GateInv
        <3>2. QED BY <3>1 DEF Ported, GateVectors
    <2>2. descriptors' = Registered(descriptors, p.vector, p.isr) /\ attaching' \in Nat /\ UNCHANGED <<entering, delivered>>
        BY <1>3 DEF AttachTable, GateInv
    <2> HIDE DEF p
    <2>3. QED BY <2>1, <2>2, RegisteredKeepsCode
<1>4. ASSUME NEW u \in GateUsers, NEW v \in GateVectors, NEW context \in Contexts, EnterGate(u, v, context)
      PROVE  GateInv'
    BY <1>4, EnterKeeps DEF EnterGate
<1>5. ASSUME NEW u \in GateUsers, NEW nr \in SyscallNumbers, SystemCall(u, nr) PROVE GateInv'
    <2>1. "T_SYS" \in GateVectors
        BY DEF GateVectors
    <2>2. QED BY <1>5, <2>1, EnterKeeps DEF SystemCall
<1>6. ASSUME NEW u \in GateUsers, NEW pid \in Pids, Handles(u, pid) PROVE GateInv'
    BY <1>6, HandlesKeeps
<1>7. QED BY <1>1, <1>2, <1>3, <1>4, <1>5, <1>6 DEF GateNext

LEMMA FramesKeepTheirCode == GateMachine => []FramesHaveTheirCode
<1>1. GateInv => FramesHaveTheirCode
    BY DEF GateInv
<1>2. QED BY <1>1, GateStarts, GateSteps, PTL DEF GateMachine

-----------------------------------------------------------------------------
(* The copies *)

\* run is what a copy goes through: before and after each of its moves.
IsRun(run, m, to, from, order, n, size) ==
    run = [k \in 0..n |->
            IF k = 0 THEN m
            ELSE [i \in DOMAIN m |-> IF i - to - order[k] \in 0..size - 1
                                     THEN run[k - 1][i - to + from] ELSE run[k - 1][i]]]

\* There is one, however many moves there are: one more move leaves the ones before it.
LEMMA RunExists ==
    ASSUME NEW n \in Nat, NEW m, NEW to, NEW from, NEW order, NEW size
    PROVE  \E run : IsRun(run, m, to, from, order, n, size)
<1> DEFINE Has(k) == \E run : IsRun(run, m, to, from, order, k, size)
           Lacking == {k \in Nat : ~Has(k)}
<1> SUFFICES ASSUME ~Has(n) PROVE FALSE
    OBVIOUS
<1>1. PICK k \in Lacking : \A j \in Lacking : k <= j
    <2>1. Lacking \subseteq Nat /\ Lacking # {}
        OBVIOUS
    <2> HIDE DEF Lacking
    <2>2. QED BY <2>1, MinIsLeast
<1>2. CASE k = 0
    <2>1. IsRun([j \in 0..0 |-> m], m, to, from, order, 0, size)
        BY DEF IsRun
    <2>2. QED BY <1>1, <1>2, <2>1
<1>3. CASE k # 0
    <2>1. k \in Nat /\ k - 1 \in Nat /\ k - 1 \notin Lacking
        BY <1>1, <1>3
    <2>2. PICK run : IsRun(run, m, to, from, order, k - 1, size)
        BY <2>1
    <2> DEFINE more == [j \in 0..k |->
                          IF j < k THEN run[j]
                          ELSE [i \in DOMAIN m |-> IF i - to - order[k] \in 0..size - 1
                                                   THEN run[k - 1][i - to + from] ELSE run[k - 1][i]]]
               then == [j \in 0..k |->
                          IF j = 0 THEN m
                          ELSE [i \in DOMAIN m |-> IF i - to - order[j] \in 0..size - 1
                                                   THEN more[j - 1][i - to + from] ELSE more[j - 1][i]]]
    <2>3. \A j \in 0..k : more[j] = then[j]
        <3> SUFFICES ASSUME NEW j \in 0..k PROVE more[j] = then[j]
            OBVIOUS
        <3>1. CASE j = 0
            BY <1>3, <2>1, <2>2, <3>1 DEF IsRun
        <3>2. CASE j # 0
            <4>1. j - 1 \in 0..k - 1 /\ j - 1 < k /\ j - 1 \in 0..k
                BY <2>1, <3>2
            <4>2. more[j - 1] = run[j - 1]
                BY <4>1
            <4>3. CASE j = k
                BY <2>1, <3>2, <4>2, <4>3
            <4>4. CASE j # k
                <5>1. j \in 0..k - 1 /\ j < k
                    BY <2>1, <4>4
                <5>2. run[j] = [i \in DOMAIN m |-> IF i - to - order[j] \in 0..size - 1
                                                   THEN run[j - 1][i - to + from] ELSE run[j - 1][i]]
                    BY <2>2, <3>2, <5>1 DEF IsRun
                <5>3. QED BY <3>2, <4>2, <5>1, <5>2
            <4>5. QED BY <4>3, <4>4
        <3>3. QED BY <3>1, <3>2
    <2>4. more = then
        BY <2>3
    <2>5. IsRun(more, m, to, from, order, k, size)
        BY <2>4 DEF IsRun
    <2>6. QED BY <1>1, <2>1, <2>5
<1>4. QED BY <1>2, <1>3

\* The copy is the end of its only run.
LEMMA MovesEndTheRun ==
    ASSUME NEW n \in Nat, NEW m, NEW to, NEW from, NEW order, NEW size,
           NEW run, IsRun(run, m, to, from, order, n, size)
    PROVE  Moves(m, to, from, order, n, size) = run[n]
<1> DEFINE Made == CHOOSE r : IsRun(r, m, to, from, order, n, size)
<1>1. Moves(m, to, from, order, n, size) = Made[n]
    BY DEF Moves, IsRun
<1>2. IsRun(Made, m, to, from, order, n, size)
    OBVIOUS
<1> HIDE DEF Made
<1> DEFINE Differ == {k \in Nat : k <= n /\ Made[k] # run[k]}
<1>3. Differ = {}
    <2> SUFFICES ASSUME Differ # {} PROVE FALSE
        OBVIOUS
    <2>1. PICK k \in Differ : \A j \in Differ : k <= j
        <3>1. Differ \subseteq Nat
            OBVIOUS
        <3> HIDE DEF Differ
        <3>2. QED BY <3>1, MinIsLeast
    <2>2. k \in 0..n /\ Made[k] # run[k]
        OBVIOUS
    <2>3. CASE k = 0
        BY <1>2, <2>2, <2>3 DEF IsRun
    <2>4. CASE k # 0
        <3>1. k - 1 \in Nat /\ k - 1 <= n /\ k - 1 \notin Differ
            BY <2>1, <2>2, <2>4
        <3>2. Made[k - 1] = run[k - 1]
            BY <3>1
        <3>3. /\ Made[k] = [i \in DOMAIN m |-> IF i - to - order[k] \in 0..size - 1
                                              THEN Made[k - 1][i - to + from] ELSE Made[k - 1][i]]
              /\ run[k] = [i \in DOMAIN m |-> IF i - to - order[k] \in 0..size - 1
                                              THEN run[k - 1][i - to + from] ELSE run[k - 1][i]]
            BY <1>2, <2>2, <2>4 DEF IsRun
        <3>4. QED BY <2>2, <3>2, <3>3
    <2>5. QED BY <2>3, <2>4
<1>4. n \notin Differ
    BY <1>3
<1>5. QED BY <1>1, <1>4

\* What a copy is when it is made of moves that do not read what an earlier one wrote.
Sequel(t, m, to, from, order, size, k) ==
    t[k] = [i \in DOMAIN m |-> IF i - to - order[k] \in 0..size - 1
                               THEN t[k - 1][i - to + from] ELSE t[k - 1][i]]

IsCourse(t, n) == t = [k \in 0..n |-> t[k]]

LEMMA SequelIsRun ==
    ASSUME NEW n \in Nat, NEW m, NEW to, NEW from, NEW order, NEW size, NEW t,
           IsCourse(t, n), t[0] = m,
           \A k \in 1..n : Sequel(t, m, to, from, order, size, k)
    PROVE  Moves(m, to, from, order, n, size) = t[n]
<1>1. ASSUME NEW k \in 0..n
      PROVE  t[k] = IF k = 0 THEN m
                    ELSE [i \in DOMAIN m |-> IF i - to - order[k] \in 0..size - 1
                                             THEN t[k - 1][i - to + from] ELSE t[k - 1][i]]
    <2>1. CASE k = 0
        BY <2>1
    <2>2. CASE k # 0
        <3>1. k \in 1..n
            BY <2>2
        <3>2. Sequel(t, m, to, from, order, size, k)
            BY <3>1
        <3>3. QED BY <2>2, <3>2 DEF Sequel
    <2>3. QED BY <2>1, <2>2
<1>2. IsRun(t, m, to, from, order, n, size)
    BY <1>1 DEF IsRun, IsCourse
<1>3. QED BY <1>2, MovesEndTheRun

IsMemory(m) == m = [i \in 0..BufferLength - 1 |-> m[i]]

LEMMA BufferHasLength == BufferLength \in Nat
    BY ProcessMachineAssumption

LEMMA MovesIsMemory ==
    ASSUME NEW n \in Nat, NEW m, IsMemory(m), NEW to, NEW from, NEW order, NEW size
    PROVE  IsMemory(Moves(m, to, from, order, n, size))
<1>1. PICK run : IsRun(run, m, to, from, order, n, size)
    BY RunExists
<1>2. Moves(m, to, from, order, n, size) = run[n]
    BY <1>1, MovesEndTheRun
<1>3. run[n] = IF n = 0 THEN m
               ELSE [i \in DOMAIN m |-> IF i - to - order[n] \in 0..size - 1
                                        THEN run[n - 1][i - to + from] ELSE run[n - 1][i]]
    BY <1>1, n \in 0..n DEF IsRun
<1>4. DOMAIN m = 0..BufferLength - 1
    BY DEF IsMemory
<1>5. QED BY <1>2, <1>3, <1>4 DEF IsMemory

\* In ascending order, when the destination does not start inside the source.
LEMMA ForwardsTransfers ==
    ASSUME NEW n \in Nat, NEW size \in Nat \ {0}, NEW m, IsMemory(m), NEW to \in Nat, NEW from \in Nat,
           from + n * size <= BufferLength, from >= to \/ to >= from + n * size
    PROVE  Moves(m, to, from, Forwards(n, size), n, size) = Transferred(m, to, from, n * size)
<1> DEFINE t == [k \in 0..n |-> Transferred(m, to, from, k * size)]
           order == Forwards(n, size)
<1>1. IsCourse(t, n)
    BY DEF IsCourse
<1>2. t[0] = m
    <2>1. t[0] = Transferred(m, to, from, 0)
        OBVIOUS
    <2>2. Transferred(m, to, from, 0) = m
        BY DEF Transferred, IsMemory
    <2>3. QED BY <2>1, <2>2
<1>3. ASSUME NEW k \in 1..n PROVE Sequel(t, m, to, from, order, size, k)
    <2> DEFINE a == (k - 1) * size
               all == n * size
    <2>1. k * size = a + size
        OBVIOUS
    <2>2. a \in Nat /\ a + size <= all /\ all \in Nat
        <3>1. a \in Nat /\ all \in Nat
            OBVIOUS
        <3>2. all = a + size + (n - k) * size
            OBVIOUS
        <3>3. (n - k) * size \in Nat
            OBVIOUS
        <3>4. QED BY <3>1, <3>2, <3>3
    <2>3. t[k] = Transferred(m, to, from, a + size) /\ t[k - 1] = Transferred(m, to, from, a)
        BY <2>1
    <2>4. order[k] = a
        BY DEF Forwards
    <2>5. from + all <= BufferLength /\ (from >= to \/ to >= from + all)
        OBVIOUS
    <2> HIDE DEF a, all, t, order
    <2>6. DOMAIN m = 0..BufferLength - 1
        BY DEF IsMemory
    <2>7. \A j \in DOMAIN m : t[k - 1][j] = IF j - to \in 0..a - 1 THEN m[j - to + from] ELSE m[j]
        BY <2>3 DEF Transferred
    <2>11. Transferred(m, to, from, a + size)
            = [i \in DOMAIN m |-> IF i - to \in 0..(a + size) - 1 THEN m[i - to + from] ELSE m[i]]
        BY DEF Transferred
    <2>12. t[k] = [i \in DOMAIN m |-> IF i - to \in 0..(a + size) - 1 THEN m[i - to + from] ELSE m[i]]
        BY <2>3, <2>11
    <2>13. ASSUME NEW i \in DOMAIN m
           PROVE  (IF i - to \in 0..(a + size) - 1 THEN m[i - to + from] ELSE m[i])
                      = IF i - to - order[k] \in 0..size - 1 THEN t[k - 1][i - to + from] ELSE t[k - 1][i]
        <3>1. CASE i - to - a \in 0..size - 1
            <4>1. i - to >= a /\ i - to < a + size /\ i \in Int
                BY <2>2, <2>6, <3>1, BufferHasLength
            <4>2. i - to + from \in DOMAIN m
                BY <2>2, <2>5, <2>6, <4>1, BufferHasLength
            <4>3. i - to + from - to \notin 0..a - 1 /\ i - to \in 0..(a + size) - 1
                BY <2>2, <2>5, <4>1
            <4>4. QED BY <2>4, <2>7, <3>1, <4>2, <4>3
        <3>2. CASE i - to - a \notin 0..size - 1
            <4>1. i - to \in 0..(a + size) - 1 <=> i - to \in 0..a - 1
                BY <2>2, <2>6, <3>2
            <4>2. QED BY <2>4, <2>7, <3>2, <4>1
        <3>3. QED BY <3>1, <3>2
    <2>14. [i \in DOMAIN m |-> IF i - to \in 0..(a + size) - 1 THEN m[i - to + from] ELSE m[i]]
            = [i \in DOMAIN m |-> IF i - to - order[k] \in 0..size - 1
                                  THEN t[k - 1][i - to + from] ELSE t[k - 1][i]]
        BY <2>13
    <2>15. QED BY <2>12, <2>14, Zenon DEF Sequel
<1>4. t[n] = Transferred(m, to, from, n * size)
    OBVIOUS
<1> HIDE DEF t, order
<1>5. Moves(m, to, from, order, n, size) = t[n]
    BY <1>1, <1>2, <1>3, SequelIsRun
<1>6. QED BY <1>4, <1>5 DEF order

\* In descending order, when it does not start before it.
LEMMA BackwardsTransfers ==
    ASSUME NEW n \in Nat, NEW m, IsMemory(m), NEW to \in Nat, NEW from \in Nat,
           from + n <= BufferLength, to >= from
    PROVE  Moves(m, to, from, [k \in 1..n |-> n - k], n, 1) = Transferred(m, to, from, n)
<1> DEFINE t == [k \in 0..n |-> [i \in DOMAIN m |-> IF i - to \in n - k..n - 1
                                                    THEN m[i - to + from] ELSE m[i]]]
           order == [k \in 1..n |-> n - k]
<1>1. IsCourse(t, n)
    BY DEF IsCourse
<1>2. t[0] = m
    <2>1. t[0] = [i \in DOMAIN m |-> m[i]]
        OBVIOUS
    <2>2. QED BY <2>1 DEF IsMemory
<1>3. ASSUME NEW k \in 1..n PROVE Sequel(t, m, to, from, order, 1, k)
    <2>1. /\ t[k] = [i \in DOMAIN m |-> IF i - to \in n - k..n - 1 THEN m[i - to + from] ELSE m[i]]
          /\ t[k - 1] = [i \in DOMAIN m |-> IF i - to \in n - k + 1..n - 1 THEN m[i - to + from] ELSE m[i]]
        OBVIOUS
    <2>2. order[k] = n - k
        OBVIOUS
    <2> HIDE DEF t, order
    <2>3. DOMAIN m = 0..BufferLength - 1
        BY DEF IsMemory
    <2> SUFFICES ASSUME NEW i \in DOMAIN m
                 PROVE  (IF i - to \in n - k..n - 1 THEN m[i - to + from] ELSE m[i])
                            = IF i - to - (n - k) \in 0..1 - 1 THEN t[k - 1][i - to + from] ELSE t[k - 1][i]
        BY <2>1, <2>2 DEF Sequel
    <2>4. CASE i - to = n - k
        <3>1. i - to + from \in DOMAIN m /\ i - to + from - to \notin n - k + 1..n - 1
            BY <2>3, <2>4, BufferHasLength
        <3>2. \A j \in DOMAIN m : t[k - 1][j] = IF j - to \in n - k + 1..n - 1 THEN m[j - to + from] ELSE m[j]
            BY <2>1
        <3>3. QED BY <2>4, <3>1, <3>2
    <2>5. CASE i - to # n - k
        BY <2>1, <2>3, <2>5
    <2>6. QED BY <2>4, <2>5
<1>4. t[n] = Transferred(m, to, from, n)
    BY DEF Transferred
<1> HIDE DEF t, order
<1>5. Moves(m, to, from, order, n, 1) = t[n]
    BY <1>1, <1>2, <1>3, SequelIsRun
<1>6. QED BY <1>4, <1>5 DEF order

\* Bytes or words: what each tier leaves when its order is right for the regions.
LEMMA OverlapTransfers ==
    ASSUME NEW n \in Nat, NEW m, IsMemory(m), NEW to \in Nat, NEW from \in Nat, from + n <= BufferLength
    PROVE  MemCopyOverlap(m, to, from, n) = Transferred(m, to, from, n)
<1>1. CASE to < from
    <2>1. from + n * 1 <= BufferLength /\ from >= to /\ n * 1 = n /\ 1 \in Nat \ {0}
        BY <1>1
    <2>2. Moves(m, to, from, Forwards(n, 1), n, 1) = Transferred(m, to, from, n * 1)
        BY <2>1, ForwardsTransfers
    <2>3. QED BY <1>1, <2>1, <2>2 DEF MemCopyOverlap
<1>2. CASE ~(to < from)
    BY <1>2, BackwardsTransfers DEF MemCopyOverlap
<1>3. QED BY <1>1, <1>2

LEMMA AlignedTransfers ==
    ASSUME NEW n \in Nat, NEW m, IsMemory(m), NEW to \in Nat, NEW from \in Nat, from + n <= BufferLength,
           from >= to \/ to >= from + n
    PROVE  MemCopyAligned(m, to, from, n) = Transferred(m, to, from, n)
<1> DEFINE words == n \div WordBytes
           done == words * WordBytes
           whole == Transferred(m, to, from, done)
<1>1. words \in Nat /\ done \in Nat /\ done <= n /\ WordBytes \in Nat \ {0}
    BY ProcessMachineAssumption
<1>2. Moves(m, to, from, Forwards(words, WordBytes), words, WordBytes) = whole
    <2>1. from + words * WordBytes <= BufferLength /\ (from >= to \/ to >= from + words * WordBytes)
        BY <1>1, BufferHasLength
    <2> HIDE DEF words
    <2>2. QED BY <1>1, <2>1, ForwardsTransfers
<1> HIDE DEF words, done
<1>3. IsMemory(whole)
    BY DEF Transferred, IsMemory
<1>4. Moves(whole, to + done, from + done, Forwards(n - done, 1), n - done, 1)
        = Transferred(whole, to + done, from + done, n - done)
    <2> DEFINE left == n - done
    <2>1. /\ left \in Nat /\ to + done \in Nat /\ from + done \in Nat /\ left * 1 = left
          /\ from + done + left * 1 <= BufferLength
          /\ from + done >= to + done \/ to + done >= from + done + left * 1
        BY <1>1, BufferHasLength
    <2> HIDE DEF left, whole
    <2>2. Moves(whole, to + done, from + done, Forwards(left, 1), left, 1)
            = Transferred(whole, to + done, from + done, left * 1)
        BY <1>3, <2>1, ForwardsTransfers
    <2>3. QED BY <2>1, <2>2 DEF left
<1>5. Transferred(whole, to + done, from + done, n - done) = Transferred(m, to, from, n)
    <2>1. DOMAIN m = 0..BufferLength - 1 /\ DOMAIN whole = DOMAIN m
        BY DEF IsMemory, Transferred
    <2>2. \A j \in DOMAIN m : whole[j] = IF j - to \in 0..done - 1 THEN m[j - to + from] ELSE m[j]
        BY DEF Transferred
    <2> HIDE DEF whole
    <2>3. ASSUME NEW i \in DOMAIN m
          PROVE  (IF i - (to + done) \in 0..(n - done) - 1
                  THEN whole[i - (to + done) + (from + done)] ELSE whole[i])
                    = IF i - to \in 0..n - 1 THEN m[i - to + from] ELSE m[i]
        <3>1. i \in Int
            BY <2>1, BufferHasLength
        <3>2. CASE i - to >= done /\ i - to < n
            <4>1. i - (to + done) + (from + done) = i - to + from
                BY <1>1, <3>1
            <4>2. i - to + from \in DOMAIN m /\ i - to + from - to \notin 0..done - 1
                BY <1>1, <2>1, <3>1, <3>2, BufferHasLength
            <4>3. i - (to + done) \in 0..(n - done) - 1 /\ i - to \in 0..n - 1
                BY <1>1, <3>1, <3>2
            <4>4. QED BY <2>2, <4>1, <4>2, <4>3
        <3>3. CASE ~(i - to >= done /\ i - to < n)
            <4>1. i - (to + done) \notin 0..(n - done) - 1 /\ (i - to \in 0..n - 1 <=> i - to \in 0..done - 1)
                BY <1>1, <3>1, <3>3
            <4>2. QED BY <2>2, <4>1
        <3>4. QED BY <3>2, <3>3
    <2>4. [i \in DOMAIN m |-> IF i - (to + done) \in 0..(n - done) - 1
                              THEN whole[i - (to + done) + (from + done)] ELSE whole[i]]
            = [i \in DOMAIN m |-> IF i - to \in 0..n - 1 THEN m[i - to + from] ELSE m[i]]
        BY <2>3
    <2>5. QED BY <2>1, <2>4, Zenon DEF Transferred
<1>6. MemCopyAligned(m, to, from, n)
        = Moves(Moves(m, to, from, Forwards(words, WordBytes), words, WordBytes),
                to + done, from + done, Forwards(n - done, 1), n - done, 1)
    BY Zenon DEF MemCopyAligned, words, done
<1> HIDE DEF whole
<1>7. QED BY <1>2, <1>4, <1>5, <1>6

LEMMA AlignedIsMemory ==
    ASSUME NEW n \in Nat, NEW m, IsMemory(m), NEW to \in Nat, NEW from \in Nat
    PROVE  IsMemory(MemCopyAligned(m, to, from, n))
<1> DEFINE words == n \div WordBytes
           done == words * WordBytes
           first == Moves(m, to, from, Forwards(words, WordBytes), words, WordBytes)
<1>1. words \in Nat /\ n - done \in Nat
    BY ProcessMachineAssumption
<1> HIDE DEF words, done
<1>2. IsMemory(first)
    BY <1>1, MovesIsMemory
<1> HIDE DEF first
<1>3. IsMemory(Moves(first, to + done, from + done, Forwards(n - done, 1), n - done, 1))
    BY <1>1, <1>2, MovesIsMemory
<1>4. MemCopyAligned(m, to, from, n)
        = Moves(first, to + done, from + done, Forwards(n - done, 1), n - done, 1)
    BY Zenon DEF MemCopyAligned, words, done, first
<1>5. QED BY <1>3, <1>4

CopySpec == CopyInit /\ [][CopyNext]_copyVars

CopyInv == IsMemory(copied) /\ CopiesAreTransfers

LEMMA CopyStarts == CopyInit => CopyInv
    BY DEF CopyInit, CopyInv, IsMemory, CopiesAreTransfers

LEMMA CopyKeeps ==
    ASSUME CopyInv, NEW to \in 0..BufferLength - 1, NEW from \in 0..BufferLength - 1,
           NEW n \in 0..BufferLength, Copy(to, from, n)
    PROVE  CopyInv'
<1>1. /\ to \in Nat /\ from \in Nat /\ n \in Nat /\ from + n <= BufferLength /\ IsMemory(copied)
      /\ copied' = MemCopy(copied, to, from, n) /\ moved' = <<to, from, n, copied, erms>>
    BY BufferHasLength DEF Copy, CopyInv
<1> DEFINE then == Transferred(copied, to, from, n)
<1>2. IsMemory(then)
    BY <1>1 DEF Transferred, IsMemory
<1> HIDE DEF then
<1>3. /\ IsMemory(copied')
      /\ \/ copied' = then
         \/ n > SmallMax /\ Overlapping(to, from, n) /\ (n < ErmsThreshold \/ ~erms)
    <2>1. CASE n <= SmallMax
        <3>1. MemCopyOverlap(copied, to, from, n) = then
            BY <1>1, OverlapTransfers DEF then
        <3>2. copied' = then
            BY <1>1, <2>1, <3>1 DEF MemCopy
        <3>3. QED BY <1>2, <3>2
    <2>2. CASE n > SmallMax /\ ~(n < ErmsThreshold) /\ erms
        <3>1. SmallMax \in Nat /\ ErmsThreshold \in Nat
            BY ProcessMachineAssumption
        <3>2. copied' = then
            BY <1>1, <2>2, <3>1 DEF MemCopy, MemCopyErms, then
        <3>3. QED BY <1>2, <3>2
    <2>3. CASE n > SmallMax /\ (n < ErmsThreshold \/ ~erms)
        <3>1. copied' = MemCopyAligned(copied, to, from, n)
            BY <1>1, <2>3, ProcessMachineAssumption DEF MemCopy, MemCopyErms
        <3>2. IsMemory(copied')
            BY <1>1, <3>1, AlignedIsMemory
        <3>3. CASE from >= to \/ to >= from + n
            <4>1. MemCopyAligned(copied, to, from, n) = then
                BY <1>1, <3>3, AlignedTransfers DEF then
            <4>2. QED BY <3>1, <3>2, <4>1
        <3>4. CASE ~(from >= to \/ to >= from + n)
            BY <1>1, <2>3, <3>2, <3>4 DEF Overlapping
        <3>5. QED BY <3>3, <3>4
    <2>4. QED BY <1>1, <2>1, <2>2, <2>3, ProcessMachineAssumption
<1>4. CopiesAreTransfers'
    BY <1>1, <1>3 DEF CopiesAreTransfers, then
<1>5. QED BY <1>3, <1>4 DEF CopyInv

LEMMA CopiesStayTransfers == CopySpec => []CopiesAreTransfers
<1>1. CopyInv /\ [CopyNext]_copyVars => CopyInv'
    <2> SUFFICES ASSUME CopyInv, [CopyNext]_copyVars PROVE CopyInv'
        OBVIOUS
    <2>1. CASE UNCHANGED copyVars
        BY <2>1 DEF copyVars, CopyInv, CopiesAreTransfers
    <2>2. ASSUME NEW supported \in BOOLEAN, SetErms(supported) PROVE CopyInv'
        BY <2>2 DEF SetErms, CopyInv, CopiesAreTransfers
    <2>3. QED BY <2>1, <2>2, CopyKeeps DEF CopyNext
<1>2. CopyInv => CopiesAreTransfers
    BY DEF CopyInv
<1>3. QED BY <1>1, <1>2, CopyStarts, PTL DEF CopySpec

-----------------------------------------------------------------------------
(* The text screen *)

Line == [1..Cols -> Letters \union {Blank}]

First(lines) == IF Len(lines) > Rows THEN Len(lines) - Rows ELSE 0

\* The screen has the last lines, the cursor's row is that of the very last.
LinesShown(lines, screen, r) ==
    /\ r + 1 = Len(lines) - First(lines)
    /\ \A q \in 1..Rows :
          screen[q] = IF First(lines) + q <= Len(lines) THEN lines[First(lines) + q] ELSE BlankRow

LEMMA NewLineShown ==
    ASSUME NEW lines \in Seq(Line), Len(lines) >= 1, NEW screen \in [1..Rows -> Line],
           NEW r \in 0..Rows - 1, LinesShown(lines, screen, r)
    PROVE  /\ r + 1 >= Rows => LinesShown(Append(lines, BlankRow), Scrolled(screen), Rows - 1)
           /\ r + 1 < Rows => LinesShown(Append(lines, BlankRow), screen, r + 1)
<1> DEFINE more == Append(lines, BlankRow)
<1>1. /\ Len(more) = Len(lines) + 1 /\ Len(lines) \in Nat /\ Rows \in Nat \ {0}
      /\ \A i \in 1..Len(lines) : more[i] = lines[i]
      /\ more[Len(lines) + 1] = BlankRow
    BY TextScreenAssumption
<1> HIDE DEF more
<1>2. r + 1 = Len(lines) - First(lines) /\ First(lines) \in Nat
      /\ r \in Nat /\ Len(lines) >= 1
    <2>1. First(lines) \in Nat
        BY <1>1 DEF First
    <2>2. r + 1 = Len(lines) - First(lines)
        BY DEF LinesShown
    <2>3. QED BY <1>1, <2>1, <2>2
<1>3. ASSUME r + 1 >= Rows
      PROVE  LinesShown(more, Scrolled(screen), Rows - 1)
    <2>1. First(lines) = Len(lines) - Rows /\ First(more) = First(lines) + 1 /\ Len(lines) >= Rows
        <3>1. Len(lines) >= Rows
            <4>1. r = Rows - 1 /\ Len(lines) \in Nat /\ Rows \in Nat
                BY <1>1, <1>3
            <4>2. Rows = Len(lines) - First(lines)
                BY <1>2, <4>1
            <4>3. QED BY <1>2, <4>1, <4>2
        <3>2. QED BY <1>1, <3>1 DEF First
    <2>2. ASSUME NEW q \in 1..Rows
          PROVE  Scrolled(screen)[q] = IF First(more) + q <= Len(more) THEN more[First(more) + q] ELSE BlankRow
        <3>1. First(more) + q <= Len(more)
            BY <1>1, <2>1
        <3>2. CASE q = Rows
            <4>1. First(more) + q = Len(lines) + 1
                BY <1>1, <2>1, <3>2
            <4>2. QED BY <1>1, <3>1, <3>2, <4>1 DEF Scrolled
        <3>3. CASE q # Rows
            <4>1. /\ q + 1 \in 1..Rows /\ First(more) + q = First(lines) + (q + 1)
                  /\ First(lines) + (q + 1) \in 1..Len(lines)
                BY <1>1, <2>1, <3>3
            <4>2. Scrolled(screen)[q] = screen[q + 1]
                BY <3>3 DEF Scrolled
            <4>3. screen[q + 1] = lines[First(lines) + (q + 1)]
                BY <1>1, <4>1 DEF LinesShown
            <4>4. QED BY <1>1, <3>1, <4>1, <4>2, <4>3
        <3>4. QED BY <3>2, <3>3
    <2>3. Rows - 1 + 1 = Len(more) - First(more)
        BY <1>1, <2>1
    <2>4. QED BY <2>2, <2>3 DEF LinesShown
<1>4. ASSUME r + 1 < Rows
      PROVE  LinesShown(more, screen, r + 1)
    <2>1. First(lines) = 0 /\ First(more) = 0 /\ Len(lines) = r + 1
        <3>1. ~(Len(lines) > Rows)
            <4>1. Len(lines) \in Nat /\ Rows \in Nat
                BY <1>1
            <4>2. Len(lines) > Rows => First(lines) = Len(lines) - Rows
                BY DEF First
            <4>3. QED BY <1>2, <1>4, <4>1, <4>2
        <3>2. First(lines) = 0
            BY <3>1 DEF First
        <3>3. Len(lines) = r + 1 /\ ~(Len(more) > Rows)
            BY <1>1, <1>2, <1>4, <3>2
        <3>4. QED BY <3>2, <3>3 DEF First
    <2>2. ASSUME NEW q \in 1..Rows
          PROVE  screen[q] = IF First(more) + q <= Len(more) THEN more[First(more) + q] ELSE BlankRow
        <3>1. screen[q] = IF q <= Len(lines) THEN lines[q] ELSE BlankRow
            BY <2>1 DEF LinesShown
        <3>2. CASE q <= Len(lines)
            BY <1>1, <2>1, <3>1, <3>2
        <3>3. CASE q > Len(lines)
            <4>1. screen[q] = BlankRow
                BY <1>1, <3>1, <3>3
            <4>2. q <= Len(more) => q = Len(lines) + 1
                BY <1>1, <3>3
            <4>3. QED BY <1>1, <2>1, <4>1, <4>2
        <3>4. QED BY <1>1, <3>2, <3>3
    <2>3. QED BY <1>1, <2>1, <2>2 DEF LinesShown
<1>5. QED BY <1>3, <1>4 DEF more

LEMMA CellShown ==
    ASSUME NEW lines \in Seq(Line), Len(lines) >= 1, NEW screen \in [1..Rows -> Line],
           NEW r \in 0..Rows - 1, LinesShown(lines, screen, r),
           NEW c \in 1..Cols, NEW ch \in Letters \union {Blank}
    PROVE  LET put == [lines EXCEPT ![Len(lines)][c] = ch]
               shown == [screen EXCEPT ![r + 1][c] = ch]
           IN /\ put \in Seq(Line) /\ Len(put) = Len(lines)
              /\ shown \in [1..Rows -> Line] /\ LinesShown(put, shown, r)
<1> DEFINE put == [lines EXCEPT ![Len(lines)][c] = ch]
           shown == [screen EXCEPT ![r + 1][c] = ch]
           old == lines[Len(lines)]
           new == [old EXCEPT ![c] = ch]
<1>1. Len(lines) \in 1..Len(lines) /\ old \in Line /\ new \in Line /\ Rows \in Nat \ {0} /\ r + 1 \in 1..Rows
    BY TextScreenAssumption DEF Line
<1>2. put \in Seq(Line) /\ Len(put) = Len(lines)
      /\ \A i \in 1..Len(lines) : put[i] = IF i = Len(lines) THEN new ELSE lines[i]
    <2> HIDE DEF new
    <2>1. put = [lines EXCEPT ![Len(lines)] = new]
        BY DEF new
    <2>2. /\ DOMAIN put = 1..Len(lines)
          /\ \A i \in 1..Len(lines) : put[i] = IF i = Len(lines) THEN new ELSE lines[i]
        BY <2>1
    <2> HIDE DEF put
    <2>6. \A i \in 1..Len(lines) : lines[i] \in Line
        OBVIOUS
    <2>3. \A i \in 1..Len(lines) : put[i] \in Line
        BY <1>1, <2>2, <2>6
    <2>4. put = [i \in 1..Len(lines) |-> put[i]]
        <3>1. put = [i \in DOMAIN lines |-> IF i = Len(lines) THEN new ELSE lines[i]]
            BY <2>1, Zenon
        <3>2. QED BY <2>2, <3>1
    <2>5. QED BY <2>2, <2>3, <2>4, SeqDef
<1>3. r + 1 = Len(lines) - First(lines) /\ First(lines) \in Nat
    <2>1. First(lines) \in Nat
        BY <1>1 DEF First
    <2>2. r + 1 = Len(lines) - First(lines)
        BY DEF LinesShown
    <2>3. QED BY <2>1, <2>2
<1>4. screen[r + 1] = old
    <2>1. First(lines) + (r + 1) = Len(lines)
        BY <1>1, <1>3
    <2>2. QED BY <1>1, <2>1 DEF LinesShown
<1>5. /\ shown \in [1..Rows -> Line]
      /\ \A q \in 1..Rows : shown[q] = IF q = r + 1 THEN new ELSE screen[q]
    <2>1. shown = [screen EXCEPT ![r + 1] = new]
        BY <1>1, <1>4
    <2>2. QED BY <1>1, <2>1
<1> HIDE DEF put, shown, new, old
<1>6. First(put) = First(lines)
    BY <1>2 DEF First
<1>7. ASSUME NEW q \in 1..Rows
      PROVE  shown[q] = IF First(put) + q <= Len(put) THEN put[First(put) + q] ELSE BlankRow
    <2>1. screen[q] = IF First(lines) + q <= Len(lines) THEN lines[First(lines) + q] ELSE BlankRow
        BY DEF LinesShown
    <2>2. CASE q = r + 1
        BY <1>1, <1>2, <1>3, <1>5, <1>6, <2>2
    <2>3. CASE q # r + 1
        <3>1. First(lines) + q <= Len(lines) => First(lines) + q \in 1..Len(lines) /\ First(lines) + q # Len(lines)
            BY <1>1, <1>3, <2>3
        <3>2. QED BY <1>2, <1>5, <1>6, <2>1, <2>3, <3>1
    <2>4. QED BY <2>2, <2>3
<1>8. LinesShown(put, shown, r)
    BY <1>2, <1>3, <1>6, <1>7 DEF LinesShown
<1>9. QED BY <1>2, <1>5, <1>8 DEF put, shown

\* pages is the endless page after each character of the text.
IsPages(pages, s) ==
    pages = [k \in 0..Len(s) |-> IF k = 0 THEN EmptyPage ELSE Typed(pages[k - 1], s[k])]

LEMMA PageEndsThePages ==
    ASSUME NEW pages, IsPages(pages, text), Len(text) \in Nat
    PROVE  Page = pages[Len(text)]
<1> DEFINE after == CHOOSE p : IsPages(p, text)
<1>1. Page = after[Len(text)]
    BY DEF Page, IsPages
<1>2. IsPages(after, text)
    OBVIOUS
<1> HIDE DEF after
<1> DEFINE Differ == {k \in Nat : k <= Len(text) /\ after[k] # pages[k]}
<1>3. Differ = {}
    <2> SUFFICES ASSUME Differ # {} PROVE FALSE
        OBVIOUS
    <2>1. PICK k \in Differ : \A j \in Differ : k <= j
        <3>1. Differ \subseteq Nat
            OBVIOUS
        <3> HIDE DEF Differ
        <3>2. QED BY <3>1, MinIsLeast
    <2>2. k \in 0..Len(text) /\ after[k] # pages[k]
        OBVIOUS
    <2>3. CASE k = 0
        BY <1>2, <2>2, <2>3 DEF IsPages
    <2>4. CASE k # 0
        <3>1. k - 1 \in Nat /\ k - 1 <= Len(text) /\ k - 1 \notin Differ
            BY <2>1, <2>2, <2>4
        <3>2. after[k - 1] = pages[k - 1]
            BY <3>1
        <3>3. after[k] = Typed(after[k - 1], text[k]) /\ pages[k] = Typed(pages[k - 1], text[k])
            BY <1>2, <2>2, <2>4 DEF IsPages
        <3>4. QED BY <2>2, <3>2, <3>3
    <2>5. QED BY <2>3, <2>4
<1>4. Len(text) \notin Differ
    BY <1>3
<1>5. QED BY <1>1, <1>4

\* One character more: the pages before it stay.
LEMMA PagesGoOn ==
    ASSUME NEW C, NEW s \in Seq(C), NEW ch \in C, NEW pages, IsPages(pages, s)
    PROVE  \E more : /\ IsPages(more, Append(s, ch))
                     /\ more[Len(s) + 1] = Typed(pages[Len(s)], ch)
<1> DEFINE t == Append(s, ch)
           more == [k \in 0..Len(t) |-> IF k <= Len(s) THEN pages[k] ELSE Typed(pages[Len(s)], ch)]
<1>1. /\ Len(t) = Len(s) + 1 /\ Len(s) \in Nat /\ t[Len(s) + 1] = ch
      /\ \A i \in 1..Len(s) : t[i] = s[i]
    OBVIOUS
<1> HIDE DEF t
<1>2. ASSUME NEW k \in 0..Len(t)
      PROVE  more[k] = IF k = 0 THEN EmptyPage ELSE Typed(more[k - 1], t[k])
    <2>1. CASE k = 0
        BY <1>1, <2>1 DEF IsPages
    <2>2. CASE k # 0
        <3>1. k - 1 \in 0..Len(s) /\ k - 1 \in 0..Len(t) /\ k - 1 <= Len(s)
            BY <1>1, <2>2
        <3>2. more[k - 1] = pages[k - 1]
            BY <3>1
        <3>3. CASE k = Len(s) + 1
            <4>1. more[k] = Typed(pages[Len(s)], ch) /\ k - 1 = Len(s) /\ t[k] = ch
                BY <1>1, <3>3
            <4>2. QED BY <2>2, <3>2, <4>1
        <3>4. CASE k # Len(s) + 1
            <4>1. k \in 1..Len(s) /\ k <= Len(s) /\ t[k] = s[k]
                BY <1>1, <2>2, <3>4
            <4>2. pages[k] = Typed(pages[k - 1], s[k])
                BY <1>1, <2>2, <4>1 DEF IsPages
            <4>3. QED BY <2>2, <3>2, <4>1, <4>2
        <3>5. QED BY <3>3, <3>4
    <2>3. QED BY <2>1, <2>2
<1>3. more = [k \in 0..Len(t) |-> IF k = 0 THEN EmptyPage ELSE Typed(more[k - 1], t[k])]
    BY <1>2
<1>4. more[Len(s) + 1] = Typed(pages[Len(s)], ch)
    BY <1>1
<1>5. IsPages(more, t)
    BY <1>3 DEF IsPages
<1>6. QED BY <1>4, <1>5 DEF t

\* The screen shows a page: its last lines, and the cursor at its end.
Shows(page) ==
    /\ page = [lines |-> page.lines, at |-> page.at]
    /\ page.lines \in Seq(Line) /\ Len(page.lines) >= 1 /\ page.at \in 0..Cols - 1
    /\ cells \in [1..Rows -> Line] /\ row \in 0..Rows - 1
    /\ col = page.at /\ LinesShown(page.lines, cells, row)

Chars == Letters \union {"nl", "cr", "bs"}

ScreenInv ==
    /\ text \in Seq(Chars)
    /\ \E pages : IsPages(pages, text) /\ Shows(pages[Len(text)])

BlankScreen == [r \in 1..Rows |-> BlankRow]

LEMMA BlankIsShown ==
    /\ \E pages : IsPages(pages, <<>>) /\ pages[0] = EmptyPage
    /\ EmptyPage.lines \in Seq(Line) /\ Len(EmptyPage.lines) = 1 /\ EmptyPage.at = 0
    /\ EmptyPage = [lines |-> EmptyPage.lines, at |-> EmptyPage.at]
    /\ BlankScreen \in [1..Rows -> Line] /\ LinesShown(EmptyPage.lines, BlankScreen, 0)
<1> DEFINE pages == [k \in 0..0 |-> EmptyPage]
<1>1. IsPages(pages, <<>>) /\ pages[0] = EmptyPage
    BY DEF IsPages
<1> HIDE DEF pages
<1>2. BlankRow \in Line /\ Rows \in Nat \ {0}
    BY TextScreenAssumption DEF BlankRow, Line
<1> DEFINE one == <<BlankRow>>
<1>3. EmptyPage = [lines |-> one, at |-> 0] /\ EmptyPage.lines = one /\ EmptyPage.at = 0
    BY DEF EmptyPage
<1>4. one \in Seq(Line) /\ Len(one) = 1 /\ one[1] = BlankRow
    BY <1>2
<1> HIDE DEF one
<1>5. First(one) = 0
    BY <1>2, <1>4 DEF First
<1>6. LinesShown(one, BlankScreen, 0)
    BY <1>2, <1>4, <1>5 DEF LinesShown, BlankScreen
<1>7. BlankScreen \in [1..Rows -> Line]
    BY <1>2 DEF BlankScreen
<1>8. QED BY <1>1, <1>3, <1>4, <1>6, <1>7

\* The cursor goes down a line when it has left the last column.
LEMMA SettlesShows ==
    ASSUME NEW lines \in Seq(Line), Len(lines) >= 1, NEW screen \in [1..Rows -> Line],
           NEW r \in 0..Rows - 1, NEW c \in 0..Cols, LinesShown(lines, screen, r), Settles(screen, r, c)
    PROVE  /\ c < Cols => Shows([lines |-> lines, at |-> c])'
           /\ c = Cols => Shows([lines |-> Append(lines, BlankRow), at |-> 0])'
<1>1. Rows \in Nat \ {0} /\ Cols \in Nat \ {0}
    BY TextScreenAssumption
<1>2. CASE c < Cols
    <2>1. ~(c >= Cols) /\ ~(r >= Rows)
        BY <1>1, <1>2
    <2>2. col' = c /\ row' = r /\ cells' = screen
        BY <2>1 DEF Settles
    <2>3. QED BY <1>1, <1>2, <2>2 DEF Shows
<1>3. CASE c = Cols
    <2> DEFINE more == Append(lines, BlankRow)
    <2>1. more \in Seq(Line) /\ Len(more) >= 1
        <3>1. BlankRow \in Line
            BY DEF BlankRow, Line
        <3>2. QED BY <3>1
    <2>2. c >= Cols /\ ~(c < Cols)
        BY <1>1, <1>3
    <2>3. CASE r + 1 >= Rows
        <3>1. col' = 0 /\ row' = Rows - 1 /\ cells' = Scrolled(screen)
            BY <2>2, <2>3 DEF Settles
        <3>2. LinesShown(more, Scrolled(screen), Rows - 1)
            BY <2>3, NewLineShown
        <3>3. Scrolled(screen) \in [1..Rows -> Line]
            BY <1>1 DEF Scrolled, BlankRow, Line
        <3> HIDE DEF more
        <3>4. QED BY <1>1, <2>1, <2>2, <3>1, <3>2, <3>3 DEF Shows, more
    <2>4. CASE r + 1 < Rows
        <3>1. ~(r + 1 >= Rows) /\ r + 1 \in 0..Rows - 1
            BY <1>1, <2>4
        <3>2. col' = 0 /\ row' = r + 1 /\ cells' = screen
            BY <2>2, <3>1 DEF Settles
        <3>3. LinesShown(more, screen, r + 1)
            BY <2>4, NewLineShown
        <3> HIDE DEF more
        <3>4. QED BY <1>1, <2>1, <2>2, <3>1, <3>2, <3>3 DEF Shows, more
    <2>5. QED BY <1>1, <2>3, <2>4
<1>4. QED BY <1>1, <1>2, <1>3

\* A character changes the screen as it changes the page.
LEMMA TypedIsShown ==
    ASSUME NEW page, Shows(page), NEW ch \in Chars, PutChar(ch)
    PROVE  Shows(Typed(page, ch))'
<1> DEFINE lines == page.lines
           at == page.at
           n == Len(lines)
<1>1. /\ page = [lines |-> lines, at |-> at]
      /\ lines \in Seq(Line) /\ n >= 1 /\ at \in 0..Cols - 1
      /\ cells \in [1..Rows -> Line] /\ row \in 0..Rows - 1 /\ col = at /\ LinesShown(lines, cells, row)
    BY DEF Shows
<1>2. Rows \in Nat \ {0} /\ Cols \in Nat \ {0}
    BY TextScreenAssumption
<1> HIDE DEF lines, at
<1>3. CASE ch = "nl"
    <2>1. Settles(cells, row + 1, 0)
        BY <1>3 DEF PutChar
    <2>2. ~(0 >= Cols)
        BY <1>2
    <2>3. col' = 0 /\ row' = (IF row + 1 >= Rows THEN Rows - 1 ELSE row + 1)
          /\ cells' = (IF row + 1 >= Rows THEN Scrolled(cells) ELSE cells)
        BY <2>1, <2>2 DEF Settles
    <2>4. Typed(page, ch) = [lines |-> Append(lines, BlankRow), at |-> 0]
        BY <1>3 DEF Typed, lines
    <2>5. Settles(cells, row, Cols) /\ Cols \in 0..Cols
        BY <1>2, <2>3 DEF Settles
    <2>6. Cols = Cols => Shows([lines |-> Append(lines, BlankRow), at |-> 0])'
        BY <1>1, <2>5, SettlesShows
    <2>7. QED BY <2>4, <2>6
<1>4. CASE ch = "cr"
    <2>1. Settles(cells, row, 0) /\ 0 \in 0..Cols /\ 0 < Cols
        BY <1>2, <1>4 DEF PutChar
    <2>2. Shows([lines |-> lines, at |-> 0])'
        BY <1>1, <2>1, SettlesShows
    <2>3. Typed(page, ch) = [lines |-> lines, at |-> 0]
        BY <1>1, <1>4 DEF Typed
    <2>4. QED BY <2>2, <2>3
<1>5. CASE ch = "bs" /\ at = 0
    <2>1. UNCHANGED <<cells, row, col>>
        BY <1>1, <1>5 DEF PutChar
    <2>2. Typed(page, ch) = page
        BY <1>5 DEF Typed, at
    <2>3. QED BY <2>1, <2>2 DEF Shows
<1>6. CASE ch = "bs" /\ at # 0
    <2> DEFINE put == [lines EXCEPT ![n][at] = Blank]
               shown == [cells EXCEPT ![row + 1][at] = Blank]
    <2>1. Settles(shown, row, at - 1)
        BY <1>1, <1>6 DEF PutChar
    <2>2. at \in 1..Cols /\ at - 1 \in 0..Cols /\ at - 1 < Cols
        BY <1>1, <1>2, <1>6
    <2>3. /\ put \in Seq(Line) /\ Len(put) = n
          /\ shown \in [1..Rows -> Line] /\ LinesShown(put, shown, row)
        BY <1>1, <2>2, CellShown
    <2>4. Typed(page, ch) = [lines |-> put, at |-> at - 1]
        BY <1>6 DEF Typed, lines, at
    <2> HIDE DEF put, shown
    <2>5. Len(put) >= 1
        BY <1>1, <2>3
    <2>6. Shows([lines |-> put, at |-> at - 1])'
        BY <1>1, <2>1, <2>2, <2>3, <2>5, SettlesShows
    <2>7. QED BY <2>4, <2>6
<1>7. CASE ch \notin {"nl", "cr", "bs"}
    <2> DEFINE put == [lines EXCEPT ![n][at + 1] = ch]
               shown == [cells EXCEPT ![row + 1][at + 1] = ch]
    <2>1. Settles(shown, row, at + 1)
        BY <1>1, <1>7 DEF PutChar
    <2>2. at + 1 \in 1..Cols /\ at + 1 \in 0..Cols /\ ch \in Letters \union {Blank}
        BY <1>1, <1>2, <1>7 DEF Chars
    <2>3. /\ put \in Seq(Line) /\ Len(put) = n
          /\ shown \in [1..Rows -> Line] /\ LinesShown(put, shown, row)
        BY <1>1, <2>2, CellShown
    <2>4. Typed(page, ch) = IF at + 1 < Cols THEN [lines |-> put, at |-> at + 1]
                            ELSE [lines |-> Append(put, BlankRow), at |-> 0]
        BY <1>7 DEF Typed, lines, at
    <2> HIDE DEF put, shown
    <2>5. Len(put) >= 1
        BY <1>1, <2>3
    <2>6. /\ at + 1 < Cols => Shows([lines |-> put, at |-> at + 1])'
          /\ at + 1 = Cols => Shows([lines |-> Append(put, BlankRow), at |-> 0])'
        BY <1>1, <2>1, <2>2, <2>3, <2>5, SettlesShows
    <2>7. CASE at + 1 < Cols
        BY <2>4, <2>6, <2>7
    <2>8. CASE at + 1 = Cols
        <3>1. ~(at + 1 < Cols)
            BY <1>2, <2>8
        <3>2. QED BY <2>4, <2>6, <2>8, <3>1
    <2>9. QED BY <1>2, <2>2, <2>7, <2>8
<1>8. QED BY <1>3, <1>4, <1>5, <1>6, <1>7

LEMMA ScreenSteps == ScreenInv /\ [ScreenNext]_screenVars => ScreenInv'
<1> SUFFICES ASSUME ScreenInv, [ScreenNext]_screenVars PROVE ScreenInv'
    OBVIOUS
<1>1. CASE UNCHANGED screenVars
    BY <1>1 DEF screenVars, ScreenInv, Shows
<1>2. CASE Clear
    <2>1. text' = <<>> /\ cells' = [r \in 1..Rows |-> BlankRow] /\ row' = 0 /\ col' = 0
        BY <1>2 DEF Clear
    <2>2. text' \in Seq(Chars) /\ Len(text') = 0
        BY <2>1
    <2>3. PICK pages : IsPages(pages, <<>>) /\ pages[0] = EmptyPage
        BY BlankIsShown
    <2>4. Shows(EmptyPage)'
        BY <2>1, BlankIsShown, TextScreenAssumption DEF Shows, BlankScreen
    <2>5. QED BY <2>1, <2>2, <2>3, <2>4 DEF ScreenInv
<1>3. ASSUME NEW ch \in Chars, PutChar(ch) PROVE ScreenInv'
    <2>1. text' = Append(text, ch) /\ text \in Seq(Chars)
        BY <1>3 DEF PutChar, ScreenInv
    <2>2. PICK pages : IsPages(pages, text) /\ Shows(pages[Len(text)])
        BY DEF ScreenInv
    <2> DEFINE last == pages[Len(text)]
    <2>7. PICK page : page = last
        OBVIOUS
    <2>3. PICK more : IsPages(more, Append(text, ch)) /\ more[Len(text) + 1] = Typed(page, ch)
        BY <2>1, <2>2, <2>7, PagesGoOn
    <2>4. text' \in Seq(Chars) /\ Len(text') = Len(text) + 1
        BY <2>1
    <2>5. Shows(Typed(page, ch))'
        BY <1>3, <2>2, <2>7, TypedIsShown
    <2>6. QED BY <2>1, <2>3, <2>4, <2>5 DEF ScreenInv
<1>4. QED BY <1>1, <1>2, <1>3 DEF ScreenNext, Chars

LEMMA ScreenKeepsTheEnd == ScreenSpec => []ScreenShowsEnd
<1>1. ScreenInit => ScreenInv
    <2> SUFFICES ASSUME ScreenInit PROVE ScreenInv
        OBVIOUS
    <2>1. text = <<>> /\ text \in Seq(Chars) /\ Len(text) = 0 /\ cells = BlankScreen /\ row = 0 /\ col = 0
        BY DEF ScreenInit, BlankScreen
    <2>2. Shows(EmptyPage)
        BY <2>1, BlankIsShown, TextScreenAssumption DEF Shows
    <2>3. QED BY <2>1, <2>2, BlankIsShown DEF ScreenInv
<1>2. ScreenInv => ScreenShowsEnd
    <2> SUFFICES ASSUME ScreenInv PROVE ScreenShowsEnd
        OBVIOUS
    <2>1. PICK pages : IsPages(pages, text) /\ Shows(pages[Len(text)])
        BY DEF ScreenInv
    <2>2. Page = pages[Len(text)]
        BY <2>1, PageEndsThePages DEF ScreenInv
    <2>3. Shows(Page)
        BY <2>1, <2>2
    <2>4. QED BY <2>3 DEF ScreenShowsEnd, Shows, LinesShown, First
<1>3. QED BY <1>1, <1>2, ScreenSteps, PTL DEF ScreenSpec

-----------------------------------------------------------------------------
(* The hardware layer: tiles, counters and clocks *)

LEMMA QuotientIsUnique ==
    ASSUME NEW D \in Nat \ {0}, NEW q \in Int, NEW p \in Int, NEW r \in 0..D - 1, NEW s \in 0..D - 1,
           q * D + r = p * D + s
    PROVE  r = s
<1>1. (q - p) * D = s - r
    OBVIOUS
<1>2. CASE q = p
    BY <1>2
<1>3. CASE q > p
    <2>1. (q - p - 1) * D \in Nat
        <3>1. q - p - 1 \in Nat
            BY <1>3
        <3>2. QED BY <3>1
    <2>2. (q - p) * D = (q - p - 1) * D + D
        OBVIOUS
    <2>3. QED BY <1>1, <2>1, <2>2
<1>4. CASE q < p
    <2>1. (p - q - 1) * D \in Nat
        <3>1. p - q - 1 \in Nat
            BY <1>4
        <3>2. QED BY <3>1
    <2>2. (p - q) * D = (p - q - 1) * D + D /\ (p - q) * D = r - s
        BY <1>1
    <2>3. QED BY <2>1, <2>2
<1>5. QED BY <1>2, <1>3, <1>4

LEMMA ModuloIs ==
    ASSUME NEW D \in Nat \ {0}, NEW q \in Int, NEW r \in 0..D - 1
    PROVE  (q * D + r) % D = r
<1> DEFINE x == q * D + r
<1>1. x \in Int
    OBVIOUS
<1> HIDE DEF x
<1>2. x = (x \div D) * D + (x % D) /\ x \div D \in Int /\ x % D \in 0..D - 1
    BY <1>1
<1>3. q * D + r = (x \div D) * D + (x % D)
    BY <1>2 DEF x
<1>4. QED BY <1>2, <1>3, QuotientIsUnique DEF x

\* A register that wraps once between two readings hides nothing.
LEMMA DifferenceIsTicks ==
    ASSUME NEW D \in Nat \ {0}, NEW a \in Nat, NEW b \in Nat, a <= b, b - a < D
    PROVE  ((b % D) - (a % D)) % D = b - a
<1> DEFINE q == (a \div D) - (b \div D)
<1>1. /\ a = (a \div D) * D + (a % D) /\ b = (b \div D) * D + (b % D)
      /\ a \div D \in Int /\ b \div D \in Int /\ a % D \in Int /\ b % D \in Int
    OBVIOUS
<1>2. q \in Int /\ q * D = (a \div D) * D - (b \div D) * D
    BY <1>1
<1>3. (b % D) - (a % D) = q * D + (b - a)
    BY <1>1, <1>2
<1>4. b - a \in 0..D - 1
    OBVIOUS
<1> HIDE DEF q
<1>5. QED BY <1>2, <1>3, <1>4, ModuloIs

LEMMA Squares ==
    ASSUME NEW a \in Nat, NEW b \in Nat, a <= b
    PROVE  a * a <= b * b
<1>1. a * a <= a * b
    <2>1. a * (b - a) \in Nat /\ a * (b - a) = a * b - a * a
        OBVIOUS
    <2>2. QED BY <2>1
<1>2. a * b <= b * b
    <2>1. (b - a) * b \in Nat /\ (b - a) * b = b * b - a * b
        OBVIOUS
    <2>2. QED BY <2>1
<1>3. QED BY <1>1, <1>2

\* A number has a root, which is not above any number above it.
LEMMA RootExists ==
    ASSUME NEW n \in Nat, NEW top \in Nat, n <= top
    PROVE  \E b \in 0..top : b * b <= n /\ (b + 1) * (b + 1) > n
<1> DEFINE Above == {b \in Nat : (b + 1) * (b + 1) > n}
<1>1. n \in Above
    <2>1. n * n \in Nat /\ (n + 1) * (n + 1) = n * n + n + n + 1
        OBVIOUS
    <2>2. QED BY <2>1
<1>2. PICK b \in Above : \A c \in Above : b <= c
    <2>1. Above \subseteq Nat /\ Above # {}
        BY <1>1
    <2> HIDE DEF Above
    <2>2. QED BY <2>1, MinIsLeast
<1>3. b \in Nat /\ (b + 1) * (b + 1) > n /\ b <= n
    BY <1>1, <1>2
<1>4. b * b <= n
    <2>1. CASE b = 0
        BY <2>1
    <2>2. CASE b # 0
        <3>1. b - 1 \in Nat /\ b - 1 \notin Above
            BY <1>2, <1>3, <2>2
        <3>2. ~((b - 1 + 1) * (b - 1 + 1) > n)
            BY <3>1
        <3>3. b - 1 + 1 = b
            BY <1>3
        <3>4. ~(b * b > n)
            BY <3>2, <3>3
        <3>5. QED BY <1>3, <3>4
    <2>3. QED BY <2>1, <2>2
<1>5. QED BY <1>3, <1>4

LEMMA TileFits ==
    ASSUME NEW l1 \in Nat, l1 >= 12
    PROVE  12 * TileSize(l1) * TileSize(l1) <= l1
<1> DEFINE n == (l1 \div 4) \div 3
           raw == CHOOSE b \in 0 .. l1 : b * b <= n /\ (b + 1) * (b + 1) > n
           tile == TileSize(l1)
<1>1. n \in Nat /\ 12 * n <= l1 /\ n <= l1 /\ n >= 1
    OBVIOUS
<1>2. TileSize(l1) = IF raw >= 8 THEN (raw \div 8) * 8 ELSE IF raw > 1 THEN raw ELSE 1
    BY DEF TileSize
<1> HIDE DEF n
<1>3. raw \in Nat /\ raw * raw <= n
    <2>1. \E b \in 0 .. l1 : b * b <= n /\ (b + 1) * (b + 1) > n
        BY <1>1, RootExists
    <2>2. raw \in 0..l1 /\ raw * raw <= n /\ (raw + 1) * (raw + 1) > n
        BY <2>1
    <2>3. QED BY <2>2
<1> HIDE DEF raw, tile
<1>4. tile \in Nat /\ tile * tile <= n
    <2>1. CASE raw >= 8
        <3>1. (raw \div 8) * 8 \in Nat /\ (raw \div 8) * 8 <= raw
            BY <1>3
        <3>2. tile = (raw \div 8) * 8
            BY <1>2, <2>1 DEF tile
        <3>3. tile * tile <= raw * raw /\ tile * tile \in Nat /\ raw * raw \in Nat
            BY <1>3, <3>1, <3>2, Squares
        <3>4. QED BY <1>1, <1>3, <3>1, <3>2, <3>3
    <2>2. CASE raw < 8 /\ raw > 1
        BY <1>2, <1>3, <2>2 DEF tile
    <2>3. CASE raw <= 1
        BY <1>1, <1>2, <1>3, <2>3 DEF tile
    <2>4. QED BY <1>3, <2>1, <2>2, <2>3
<1>5. 12 * tile * tile = 12 * (tile * tile) /\ tile * tile \in Nat
    BY <1>4
<1>6. QED BY <1>1, <1>4, <1>5 DEF tile

\* The report is of the machine, and the machine is one of those there are.
ReportInv == machine \in Machines /\ report \in {NoReport, Probed(machine)}

LEMMA ReportFits == ReportInv => TilesFit
<1> SUFFICES ASSUME ReportInv, report.tile # 0, machine.cache >= 12
             PROVE  12 * report.tile * report.tile <= machine.cache
    BY DEF TilesFit
<1>1. machine.cache \in Nat
    BY HardwareAssumption DEF ReportInv
<1>2. report # NoReport
    BY DEF NoReport
<1>3. report.tile = TileSize(machine.cache)
    BY <1>2 DEF ReportInv, Probed
<1>4. QED BY <1>1, <1>3, TileFits

\* A thread has counters open in its with block only.
CountersInv ==
    /\ DOMAIN fds = HwUsers /\ DOMAIN measuring = HwUsers
    /\ CountersAreClosed

\* What has been read of a clock was its time then, in the width of the register, and a clock
\* does not go back.
Msr(i) == IF i \in {1, 3} THEN "aperf" ELSE "mperf"

IsReading(r, most) == r = [value |-> r.at % MsrSize, at |-> r.at] /\ r.at \in Nat /\ r.at <= most

IsSample(s, now) ==
    /\ s = [reads |-> s.reads, ratio |-> s.ratio]
    /\ s.reads \in Seq([value : Nat, at : Nat]) /\ Len(s.reads) \in 0..4
    /\ \A i \in 1..Len(s.reads) : IsReading(s.reads[i], now[Msr(i)])
    /\ \A i \in 1..2 : i + 2 <= Len(s.reads) => s.reads[i].at <= s.reads[i + 2].at
    /\ s.ratio # <<>> => Len(s.reads) = 4 /\ s.ratio = Ratio(s.reads)

ClockInv ==
    /\ clock \in [{"aperf", "mperf"} -> Nat]
    /\ DOMAIN sampled = Owners
    /\ \A u \in Owners : IsSample(sampled[u], clock)

LEMMA SamplesAreExact == ClockInv => RatioIsExact
<1> SUFFICES ASSUME ClockInv, NEW u \in Owners, NEW i \in DOMAIN sampled[u].ratio,
                    sampled[u].reads[i + 2].at - sampled[u].reads[i].at < MsrSize
             PROVE  sampled[u].ratio[i] = sampled[u].reads[i + 2].at - sampled[u].reads[i].at
    BY DEF RatioIsExact
<1> DEFINE s == sampled[u]
<1>1. IsSample(s, clock)
    BY DEF ClockInv
<1> HIDE DEF s
<1>2. s.ratio # <<>>
    BY DEF s
<1>3. Len(s.reads) = 4 /\ s.ratio = Ratio(s.reads)
    BY <1>1, <1>2 DEF IsSample
<1>4. i \in 1..2 /\ s.ratio[i] = Difference(s.reads[i + 2].value, s.reads[i].value)
    <2>1. i \in DOMAIN Ratio(s.reads)
        BY <1>3 DEF s
    <2>2. QED BY <1>3, <2>1 DEF Ratio
<1>5. /\ s.reads[i].value = s.reads[i].at % MsrSize /\ s.reads[i + 2].value = s.reads[i + 2].at % MsrSize
      /\ s.reads[i].at \in Nat /\ s.reads[i + 2].at \in Nat /\ s.reads[i].at <= s.reads[i + 2].at
    <2>1. i \in 1..Len(s.reads) /\ i + 2 \in 1..Len(s.reads)
        BY <1>3, <1>4
    <2>2. IsReading(s.reads[i], clock[Msr(i)]) /\ IsReading(s.reads[i + 2], clock[Msr(i + 2)])
        BY <1>1, <2>1 DEF IsSample
    <2>3. s.reads[i].at <= s.reads[i + 2].at
        <3>1. i \in 1..2 /\ i + 2 <= Len(s.reads)
            BY <1>3, <1>4
        <3>2. QED BY <1>1, <3>1 DEF IsSample
    <2>4. QED BY <2>2, <2>3 DEF IsReading
<1>6. s.reads[i + 2].at - s.reads[i].at < MsrSize /\ MsrSize \in Nat \ {0}
    BY HardwareAssumption DEF s
<1> DEFINE a == s.reads[i].at
           b == s.reads[i + 2].at
<1>7. s.ratio[i] = b - a
    <2>1. s.ratio[i] = ((b % MsrSize) - (a % MsrSize)) % MsrSize
        BY <1>4, <1>5 DEF Difference
    <2>2. a \in Nat /\ b \in Nat /\ a <= b /\ b - a < MsrSize
        BY <1>5, <1>6
    <2> HIDE DEF a, b
    <2>3. QED BY <1>6, <2>1, <2>2, DifferenceIsTicks
<1>8. QED BY <1>7 DEF s

\* What starting and stopping the layer leaves alone.
LEMMA LifeLeaves ==
    ASSUME LifeNext
    PROVE  /\ UNCHANGED <<machine, Places, Perf, Clocks>>
           /\ report' \in {report, IF report = NoReport THEN Probed(machine) ELSE report}
    BY DEF LifeNext, NewBus, Allocates, AllocateFails, ShutdownBegins, ShutdownFrees, ShutdownEnds,
           BarBegins, BarMapped, BarFails

LEMMA PlaceLeaves ==
    ASSUME PlaceNext
    PROVE  /\ UNCHANGED <<machine, Perf, Clocks>>
           /\ report' \in {report, IF report = NoReport THEN Probed(machine) ELSE report}
    BY DEF PlaceNext, Probes, Pins, Places1, Life

LEMMA PerfLeaves ==
    ASSUME PerfNext
    PROVE  /\ UNCHANGED <<machine, Places, Clocks>>
           /\ report' \in {report, IF report = NoReport THEN Probed(machine) ELSE report}
    BY DEF PerfNext, Probes, MeasureBegins, MeasureOpens, MeasureEnds, Life

LEMMA ClockLeaves ==
    ASSUME ClockNext
    PROVE  /\ UNCHANGED <<machine, Places, Perf>>
           /\ report' \in {report, IF report = NoReport THEN Probed(machine) ELSE report}
    BY DEF ClockNext, Ticks, Probes, SampleBegins, SampleReads, SampleFails, Life

LEMMA ReportSteps == ReportInv /\ [HwNext]_hwVars => ReportInv'
<1> SUFFICES ASSUME ReportInv, [HwNext]_hwVars PROVE ReportInv'
    OBVIOUS
<1>1. CASE UNCHANGED hwVars
    BY <1>1 DEF hwVars, ReportInv
<1>2. CASE HwNext
    <2>1. /\ UNCHANGED machine
          /\ report' \in {report, IF report = NoReport THEN Probed(machine) ELSE report}
        BY <1>2, LifeLeaves, PlaceLeaves, PerfLeaves, ClockLeaves DEF HwNext
    <2>2. QED BY <2>1 DEF ReportInv
<1>3. QED BY <1>1, <1>2

LEMMA CountersSteps == CountersInv /\ [HwNext]_hwVars => CountersInv'
<1> SUFFICES ASSUME CountersInv, [HwNext]_hwVars PROVE CountersInv'
    OBVIOUS
<1>1. CASE UNCHANGED <<fds, measuring>>
    BY <1>1 DEF CountersInv, CountersAreClosed
<1>2. CASE PerfNext
    <2>1. ASSUME NEW u \in HwUsers, Probes(u) PROVE CountersInv'
        BY <2>1, <1>1 DEF Probes, Perf
    <2>2. ASSUME NEW u \in HwUsers, MeasureBegins(u) PROVE CountersInv'
        BY <2>2 DEF MeasureBegins, CountersInv, CountersAreClosed
    <2>3. ASSUME NEW u \in HwUsers, MeasureOpens(u) PROVE CountersInv'
        BY <2>3 DEF MeasureOpens, CountersInv, CountersAreClosed
    <2>4. ASSUME NEW u \in HwUsers, MeasureEnds(u) PROVE CountersInv'
        BY <2>4 DEF MeasureEnds, ClosesAll, CountersInv, CountersAreClosed
    <2>5. QED BY <1>2, <2>1, <2>2, <2>3, <2>4 DEF PerfNext
<1>3. CASE UNCHANGED hwVars
    BY <1>1, <1>3 DEF hwVars
<1>4. CASE LifeNext \/ PlaceNext \/ ClockNext
    <2>1. UNCHANGED Perf
        BY <1>4, LifeLeaves, PlaceLeaves, ClockLeaves
    <2>2. QED BY <1>1, <2>1 DEF Perf
<1>5. QED BY <1>2, <1>3, <1>4 DEF HwNext

\* What was read stays read, however far the clocks have gone since.
LEMMA SampleStays ==
    ASSUME NEW s, NEW now \in [{"aperf", "mperf"} -> Nat], NEW later \in [{"aperf", "mperf"} -> Nat],
           IsSample(s, now), now["aperf"] <= later["aperf"], now["mperf"] <= later["mperf"]
    PROVE  IsSample(s, later)
<1>1. ASSUME NEW i \in 1..Len(s.reads) PROVE IsReading(s.reads[i], later[Msr(i)])
    <2>1. IsReading(s.reads[i], now[Msr(i)])
        BY DEF IsSample
    <2>2. now[Msr(i)] <= later[Msr(i)] /\ now[Msr(i)] \in Nat /\ later[Msr(i)] \in Nat
        BY DEF Msr
    <2>3. QED BY <2>1, <2>2 DEF IsReading
<1>2. QED BY <1>1 DEF IsSample

LEMMA NoSample ==
    ASSUME NEW now
    PROVE  IsSample([reads |-> <<>>, ratio |-> <<>>], now)
    BY DEF IsSample

LEMMA OneOfFour == ASSUME NEW m, NEW n \in 0..3, m = n + 1 PROVE m \in 0..4 /\ (m = 4 => n = 3)
    OBVIOUS

\* One reading more, of the clock as it is.
LEMMA SampleGrows ==
    ASSUME NEW s, NEW now \in [{"aperf", "mperf"} -> Nat], IsSample(s, now), Len(s.reads) \in 0..3,
           NEW msr \in {"aperf", "mperf"}, msr = Msr(Len(s.reads) + 1),
           NEW r, r = [value |-> now[msr] % MsrSize, at |-> now[msr]],
           NEW ratio, ratio # <<>> => Len(s.reads) = 3 /\ ratio = Ratio(Append(s.reads, r))
    PROVE  IsSample([reads |-> Append(s.reads, r), ratio |-> ratio], now)
<1> DEFINE old == s.reads
           more == Append(old, r)
<1>1. r \in [value : Nat, at : Nat] /\ IsReading(r, now[msr]) /\ r.at = now[msr]
    BY HardwareAssumption DEF IsReading
<1>2. old \in Seq([value : Nat, at : Nat]) /\ Len(old) \in 0..3
    BY DEF IsSample
<1>3. /\ more \in Seq([value : Nat, at : Nat]) /\ Len(more) = Len(old) + 1 /\ more[Len(old) + 1] = r
      /\ \A i \in 1..Len(old) : more[i] = old[i]
    BY <1>1, <1>2
<1>10. /\ \A i \in 1..Len(old) : IsReading(old[i], now[Msr(i)])
       /\ \A i \in 1..2 : i + 2 <= Len(old) => old[i].at <= old[i + 2].at
    BY DEF IsSample
<1>11. ratio # <<>> => Len(old) = 3 /\ ratio = Ratio(more)
    OBVIOUS
<1>12. Len(more) = Len(old) + 1 /\ Len(old) \in 0..3 /\ msr = Msr(Len(old) + 1)
    BY <1>2, <1>3
<1> HIDE DEF more, old
<1>6. ratio # <<>> => Len(more) = 4 /\ ratio = Ratio(more)
    <2>1. Len(old) = 3 => Len(more) = 4
        BY <1>12
    <2>2. QED BY <1>11, <2>1
<1>4. ASSUME NEW i \in 1..Len(more) PROVE IsReading(more[i], now[Msr(i)])
    <2>1. CASE i = Len(old) + 1
        <3>1. more[i] = r /\ Msr(i) = msr
            BY <1>3, <1>12, <2>1
        <3>2. QED BY <1>1, <3>1
    <2>2. CASE i # Len(old) + 1
        <3>1. i \in 1..Len(old)
            BY <1>12, <2>2
        <3>2. IsReading(old[i], now[Msr(i)])
            BY <1>10, <3>1
        <3>3. QED BY <1>3, <3>1, <3>2
    <2>3. QED BY <2>1, <2>2
<1>5. ASSUME NEW i \in 1..2, i + 2 <= Len(more) PROVE more[i].at <= more[i + 2].at
    <2>1. i \in 1..Len(old) /\ more[i] = old[i] /\ IsReading(old[i], now[Msr(i)])
        <3>1. i \in 1..Len(old)
            BY <1>12, <1>5
        <3>2. QED BY <1>3, <1>10, <3>1
    <2>2. CASE i + 2 = Len(old) + 1
        <3>1. Msr(i) = msr
            <4>1. \/ i = 1 /\ Len(old) + 1 = 3
                  \/ i = 2 /\ Len(old) + 1 = 4
                BY <1>12, <2>2
            <4>2. QED BY <1>12, <4>1 DEF Msr
        <3>2. more[i + 2].at = now[msr]
            BY <1>1, <1>3, <2>2
        <3>3. QED BY <2>1, <3>1, <3>2 DEF IsReading
    <2>3. CASE i + 2 # Len(old) + 1
        <3>1. i + 2 \in 1..Len(old) /\ i + 2 <= Len(old)
            BY <1>12, <1>5, <2>3
        <3>2. old[i].at <= old[i + 2].at
            BY <1>10, <3>1
        <3>3. QED BY <1>3, <2>1, <3>1, <3>2
    <2>4. QED BY <2>2, <2>3
<1> DEFINE new == [reads |-> more, ratio |-> ratio]
<1>7. new.reads = more /\ new.ratio = ratio /\ new = [reads |-> new.reads, ratio |-> new.ratio]
    OBVIOUS
<1> HIDE DEF new
<1>8. IsSample(new, now)
    <2>1. new.reads \in Seq([value : Nat, at : Nat]) /\ Len(new.reads) \in 0..4
        <3>1. Len(more) \in 0..4
            BY <1>12, OneOfFour, Zenon
        <3>2. QED BY <1>3, <1>7, <3>1
    <2>2. \A i \in 1..Len(new.reads) : IsReading(new.reads[i], now[Msr(i)])
        BY <1>4, <1>7
    <2>3. \A i \in 1..2 : i + 2 <= Len(new.reads) => new.reads[i].at <= new.reads[i + 2].at
        BY <1>5, <1>7
    <2>4. new.ratio # <<>> => Len(new.reads) = 4 /\ new.ratio = Ratio(new.reads)
        BY <1>6, <1>7
    <2>5. QED BY <1>7, <2>1, <2>2, <2>3, <2>4 DEF IsSample
<1>9. QED BY <1>8 DEF new, more, old

LEMMA SamplingSteps ==
    ASSUME ClockInv, ClockNext
    PROVE  ClockInv'
<1>1. clock \in [{"aperf", "mperf"} -> Nat]
    BY DEF ClockInv
<1>2. CASE Ticks
    <2>1. /\ clock' \in [{"aperf", "mperf"} -> Nat] /\ UNCHANGED sampled
          /\ clock["aperf"] <= clock'["aperf"] /\ clock["mperf"] <= clock'["mperf"]
        BY <1>1, <1>2 DEF Ticks
    <2>2. QED BY <1>1, <2>1, SampleStays DEF ClockInv
<1>3. ASSUME NEW u \in Owners, Probes(u) PROVE ClockInv'
    BY <1>3 DEF Probes, Clocks, ClockInv
<1>4. ASSUME NEW u \in Owners, NEW s, IsSample(s, clock), sampled' = [sampled EXCEPT ![u] = s], UNCHANGED clock
      PROVE  ClockInv'
    BY <1>4 DEF ClockInv
<1>5. ASSUME NEW u \in Owners, SampleFails(u) PROVE ClockInv'
    BY <1>4, <1>5, NoSample DEF SampleFails
<1>6. ASSUME NEW u \in Owners, SampleBegins(u) PROVE ClockInv'
    <2> DEFINE s == [reads |-> <<ReadMsr("aperf")>>, ratio |-> <<>>]
               unread == [reads |-> <<>>, ratio |-> <<>>]
    <2>1. s = [reads |-> Append(unread.reads, ReadMsr("aperf")), ratio |-> <<>>]
        OBVIOUS
    <2>2. IsSample(unread, clock) /\ Len(unread.reads) = 0 /\ Len(unread.reads) \in 0..3
        BY NoSample
    <2> HIDE DEF unread
    <2>3. Msr(Len(unread.reads) + 1) = "aperf" /\ ReadMsr("aperf") = [value |-> clock["aperf"] % MsrSize, at |-> clock["aperf"]]
        BY <2>2 DEF Msr, ReadMsr, Register
    <2>4. IsSample(s, clock)
        BY <1>1, <2>1, <2>2, <2>3, SampleGrows
    <2>5. sampled' = [sampled EXCEPT ![u] = s] /\ UNCHANGED clock
        BY <1>6 DEF SampleBegins
    <2>6. QED BY <1>4, <2>4, <2>5
<1>7. ASSUME NEW u \in Owners, SampleReads(u) PROVE ClockInv'
    <2> DEFINE old == sampled[u].reads
               msr == IF Len(old) = 2 THEN "aperf" ELSE "mperf"
               reads == Append(old, ReadMsr(msr))
    <2>1. IsSample(sampled[u], clock) /\ Len(old) \in 1..3
        BY <1>7 DEF ClockInv, SampleReads, Sampling
    <2>2. PICK ratio \in {<<>>} \cup (IF Len(reads) = 4 THEN {Ratio(reads)} ELSE {}) :
              sampled' = [sampled EXCEPT ![u] = [reads |-> reads, ratio |-> ratio]]
        BY <1>7 DEF SampleReads
    <2>3. Len(reads) = Len(old) + 1
        BY <2>1 DEF IsSample
    <2>4. /\ msr \in {"aperf", "mperf"} /\ msr = Msr(Len(old) + 1)
          /\ ReadMsr(msr) = [value |-> clock[msr] % MsrSize, at |-> clock[msr]]
        <3>1. CASE Len(old) = 2
            BY <3>1 DEF Msr, ReadMsr, Register
        <3>2. CASE Len(old) \in {1, 3}
            <4>1. Len(old) # 2 /\ Len(old) + 1 \in {2, 4}
                <5>1. CASE Len(old) = 1
                    BY <5>1
                <5>2. CASE Len(old) = 3
                    BY <5>2
                <5>3. QED BY <3>2, <5>1, <5>2
            <4>2. msr = "mperf" /\ Msr(Len(old) + 1) = "mperf"
                BY <4>1 DEF Msr
            <4>3. QED BY <4>2 DEF ReadMsr, Register
        <3>3. QED BY <2>1, <3>1, <3>2
    <2> HIDE DEF msr
    <2>5. ratio # <<>> => Len(old) = 3 /\ ratio = Ratio(reads)
        <3>1. ratio # <<>> => Len(reads) = 4 /\ ratio = Ratio(reads)
            OBVIOUS
        <3> HIDE DEF reads, old
        <3>2. Len(reads) = 4 => Len(old) = 3
            <4>1. Len(old) = 1 \/ Len(old) = 2 \/ Len(old) = 3
                BY <2>1
            <4>2. Len(old) \in 0..3
                BY <4>1
            <4>3. QED BY <2>3, <4>2, OneOfFour, Zenon
        <3>3. QED BY <3>1, <3>2
    <2>9. Len(old) \in 0..3
        BY <2>1
    <2>6. IsSample([reads |-> reads, ratio |-> ratio], clock)
        BY <1>1, <2>1, <2>4, <2>5, <2>9, SampleGrows
    <2>7. UNCHANGED clock
        BY <1>7 DEF SampleReads
    <2>8. QED BY <1>4, <2>2, <2>6, <2>7
<1>8. QED BY <1>2, <1>3, <1>5, <1>6, <1>7 DEF ClockNext

LEMMA ClockSteps == ClockInv /\ [HwNext]_hwVars => ClockInv'
<1> SUFFICES ASSUME ClockInv, [HwNext]_hwVars PROVE ClockInv'
    OBVIOUS
<1>1. CASE UNCHANGED <<clock, sampled>>
    BY <1>1 DEF ClockInv
<1>2. CASE UNCHANGED hwVars
    BY <1>1, <1>2 DEF hwVars
<1>3. CASE LifeNext \/ PlaceNext \/ PerfNext
    <2>1. UNCHANGED Clocks
        BY <1>3, LifeLeaves, PlaceLeaves, PerfLeaves
    <2>2. QED BY <1>1, <2>1 DEF Clocks
<1>4. QED BY <1>2, <1>3, SamplingSteps DEF HwNext

-----------------------------------------------------------------------------
(* The hardware layer: ready with its regions *)

HeldNames == ToSet(RegionNames) \union {"bar"}

IsList(s) == Len(s) \in Nat /\ s = [i \in 1..Len(s) |-> s[i]]

\* The regions before the one that an owner allocates next are on the bus of the layer.
LifeInv ==
    /\ IsList(busHolds) /\ busId \in 0..Len(busHolds)
    /\ DOMAIN owning = Owners /\ DOMAIN placingBar = HwUsers
    /\ \A u \in HwUsers : placingBar[u] \in 0..Len(busHolds)
    /\ \A u \in Owners : owning[u] \in ToSet(RegionNames) =>
          /\ busId # 0 /\ busHolds[busId] \in Seq(HeldNames)
          /\ \A i \in 1..3 : owning[u] = RegionNames[i] =>
                \A j \in 1..i - 1 : RegionNames[j] \in ToSet(busHolds[busId])

LEMMA RegionNamesAre ==
    /\ DOMAIN RegionNames = 1..3 /\ Len(RegionNames) = 3
    /\ RegionNames[1] = "kernel_heap" /\ RegionNames[2] = "vga_text" /\ RegionNames[3] = "tensor_arena"
    /\ ToSet(RegionNames) = {"kernel_heap", "vga_text", "tensor_arena"}
    /\ HeldNames = {"kernel_heap", "vga_text", "tensor_arena", "bar"}
    /\ \A i, j \in 1..3 : RegionNames[i] = RegionNames[j] => i = j
    BY DEF RegionNames, ToSet, HeldNames

LEMMA OneNameMore ==
    ASSUME NEW s \in Seq(HeldNames), NEW name \in HeldNames
    PROVE  Append(s, name) \in Seq(HeldNames) /\ ToSet(Append(s, name)) = ToSet(s) \union {name}
<1>1. /\ Append(s, name) \in Seq(HeldNames) /\ Len(Append(s, name)) = Len(s) + 1 /\ Len(s) \in Nat
      /\ \A i \in 1..Len(s) : Append(s, name)[i] = s[i]
      /\ Append(s, name)[Len(s) + 1] = name
      /\ DOMAIN Append(s, name) = 1..Len(s) + 1 /\ DOMAIN s = 1..Len(s)
    OBVIOUS
<1> DEFINE t == Append(s, name)
<1> HIDE DEF t
<1>2. ToSet(t) = ToSet(s) \union {name}
    <2>1. \A i \in 1..Len(s) + 1 : i \in 1..Len(s) \/ i = Len(s) + 1
        BY <1>1
    <2>2. 1..Len(s) \subseteq 1..Len(s) + 1 /\ Len(s) + 1 \in 1..Len(s) + 1
        BY <1>1
    <2>3. QED BY <1>1, <2>1, <2>2 DEF ToSet, t
<1>3. QED BY <1>1, <1>2 DEF t

LEMMA ListWith ==
    ASSUME NEW s, IsList(s), NEW b \in 1..Len(s), NEW e, NEW t, t = [s EXCEPT ![b] = e]
    PROVE  IsList(t) /\ Len(t) = Len(s) /\ t[b] = e /\ \A i \in 1..Len(s) \ {b} : t[i] = s[i]
<1>1. DOMAIN s = 1..Len(s) /\ Len(s) \in Nat
    BY DEF IsList
<1>2. t = [i \in 1..Len(s) |-> IF i = b THEN e ELSE s[i]]
    BY <1>1
<1>3. Len(t) = Len(s)
    BY <1>1, <1>2
<1>4. QED BY <1>1, <1>2, <1>3 DEF IsList

LEMMA ListMore ==
    ASSUME NEW s, IsList(s), NEW e
    PROVE  /\ IsList(Append(s, e)) /\ Len(Append(s, e)) = Len(s) + 1
           /\ Append(s, e)[Len(s) + 1] = e /\ \A i \in 1..Len(s) : Append(s, e)[i] = s[i]
<1> DEFINE S == {s[i] : i \in 1..Len(s)} \union {e}
<1>1. s \in Seq(S)
    BY DEF IsList
<1>2. e \in S
    OBVIOUS
<1> HIDE DEF S
<1>3. /\ Append(s, e) \in Seq(S) /\ Len(Append(s, e)) = Len(s) + 1 /\ Len(s) \in Nat
      /\ Append(s, e)[Len(s) + 1] = e /\ \A i \in 1..Len(s) : Append(s, e)[i] = s[i]
    BY <1>1, <1>2
<1> DEFINE t == Append(s, e)
<1>7. t \in Seq(S)
    BY <1>3
<1> HIDE DEF t
<1>4. t \in [1..Len(t) -> S] /\ Len(t) \in Nat
    BY <1>7
<1>5. IsList(t)
    BY <1>4 DEF IsList
<1>6. QED BY <1>3, <1>5 DEF t

lifeVars == <<busId, busHolds, ready, owning, placingBar>>

LEMMA OthersLeaveLife ==
    ASSUME PlaceNext \/ PerfNext \/ ClockNext
    PROVE  UNCHANGED lifeVars
    BY DEF PlaceNext, PerfNext, ClockNext, Probes, Pins, Places1, MeasureBegins, MeasureOpens, MeasureEnds,
           Ticks, SampleBegins, SampleReads, SampleFails, Life, lifeVars

LEMMA LifeStarts == HwInit => LifeInv
<1> SUFFICES ASSUME HwInit PROVE LifeInv
    OBVIOUS
<1>1. /\ busId = 0 /\ busHolds = <<>> /\ owning = [u \in Owners |-> "idle"]
      /\ placingBar = [u \in HwUsers |-> 0]
    BY DEF HwInit
<1>2. IsList(<<>>) /\ Len(<<>>) = 0
    BY DEF IsList
<1>3. QED BY <1>1, <1>2, RegionNamesAre DEF LifeInv

LEMMA NewBusKeeps ==
    ASSUME LifeInv, \A u, v \in Owners : u = v, NEW u \in Owners, NewBus(u)
    PROVE  LifeInv' /\ ready' = ready
<1>1. /\ busHolds' = Append(busHolds, <<>>) /\ busId' = Len(busHolds') /\ ready' = ready
      /\ owning' = [owning EXCEPT ![u] = RegionNames[1]] /\ placingBar' = placingBar
    BY DEF NewBus
<1>2. IsList(busHolds)
    BY DEF LifeInv
<1>3. /\ IsList(busHolds') /\ Len(busHolds') = Len(busHolds) + 1 /\ Len(busHolds) \in Nat
      /\ busHolds'[busId'] = <<>>
    BY <1>1, <1>2, ListMore DEF IsList
<1>4. busId' \in 0..Len(busHolds') /\ busId' # 0
    BY <1>1, <1>3
<1>5. \A v \in HwUsers : placingBar'[v] \in 0..Len(busHolds')
    BY <1>1, <1>3 DEF LifeInv
<1>6. ASSUME NEW v \in Owners
      PROVE  /\ busHolds'[busId'] \in Seq(HeldNames)
             /\ \A i \in 1..3 : owning'[v] = RegionNames[i] =>
                   \A j \in 1..i - 1 : RegionNames[j] \in ToSet(busHolds'[busId'])
    <2>1. owning'[v] = RegionNames[1]
        BY <1>1 DEF LifeInv
    <2>2. \A i \in 1..3 : owning'[v] = RegionNames[i] => i = 1
        BY <2>1, RegionNamesAre
    <2>3. \A i \in 1..3 : i = 1 => 1..i - 1 = {}
        OBVIOUS
    <2>4. QED BY <1>3, <2>2, <2>3
<1>7. QED BY <1>1, <1>3, <1>4, <1>5, <1>6 DEF LifeInv

\* With the last region the layer is ready, and all of them are there.
LEMMA AllocatesKeeps ==
    ASSUME LifeInv, \A u, v \in Owners : u = v, NEW u \in Owners, Allocates(u)
    PROVE  LifeInv' /\ (ready' /\ ~ready => ToSet(RegionNames) \subseteq ToSet(busHolds'[busId']))
<1>1. PICK i \in 1..3 :
        /\ owning[u] = RegionNames[i]
        /\ busHolds' = [busHolds EXCEPT ![busId] = Append(@, RegionNames[i])]
        /\ owning' = [owning EXCEPT ![u] = IF i = Len(RegionNames) THEN "idle" ELSE RegionNames[i + 1]]
        /\ ready' = IF ReadyAfter(i) THEN TRUE ELSE ready
        /\ UNCHANGED <<busId, placingBar>>
    BY RegionNamesAre DEF Allocates
<1>2. RegionNames[i] \in ToSet(RegionNames) /\ RegionNames[i] \in HeldNames
    BY RegionNamesAre
<1>3. /\ IsList(busHolds) /\ busId \in 1..Len(busHolds) /\ busHolds[busId] \in Seq(HeldNames)
      /\ \A j \in 1..i - 1 : RegionNames[j] \in ToSet(busHolds[busId])
    BY <1>1, <1>2 DEF LifeInv, IsList
<1> DEFINE more == Append(busHolds[busId], RegionNames[i])
<1>4. more \in Seq(HeldNames) /\ ToSet(more) = ToSet(busHolds[busId]) \union {RegionNames[i]}
    BY <1>2, <1>3, OneNameMore
<1>5. busHolds' = [busHolds EXCEPT ![busId] = more]
    BY <1>1
<1> HIDE DEF more
<1>6. IsList(busHolds') /\ Len(busHolds') = Len(busHolds) /\ busHolds'[busId] = more
    <2>1. PICK e : e = more
        OBVIOUS
    <2>2. busHolds' = [busHolds EXCEPT ![busId] = e] /\ IsList(busHolds) /\ busId \in 1..Len(busHolds)
        BY <1>3, <1>5, <2>1
    <2>3. IsList(busHolds')
        BY <2>2, ListWith
    <2>4. Len(busHolds') = Len(busHolds)
        BY <2>2, ListWith
    <2>5. busHolds'[busId] = e
        BY <2>2, ListWith
    <2>6. QED BY <2>1, <2>3, <2>4, <2>5
<1>7. \A j \in 1..i : RegionNames[j] \in ToSet(more)
    <2> SUFFICES ASSUME NEW j \in 1..i PROVE RegionNames[j] \in ToSet(more)
        OBVIOUS
    <2>1. j = i \/ j \in 1..i - 1
        OBVIOUS
    <2>2. QED BY <1>3, <1>4, <2>1
<1>8. ASSUME NEW v \in Owners, owning'[v] \in ToSet(RegionNames)
      PROVE  /\ busId' # 0 /\ busHolds'[busId'] \in Seq(HeldNames)
             /\ \A k \in 1..3 : owning'[v] = RegionNames[k] =>
                   \A j \in 1..k - 1 : RegionNames[j] \in ToSet(busHolds'[busId'])
    <2>1. owning'[v] = IF i = 3 THEN "idle" ELSE RegionNames[i + 1]
        BY <1>1, RegionNamesAre DEF LifeInv
    <2>2. i # 3 /\ i + 1 \in 1..3
        BY <1>8, <2>1, RegionNamesAre
    <2>3. \A k \in 1..3 : owning'[v] = RegionNames[k] => k = i + 1
        BY <2>1, <2>2, RegionNamesAre
    <2>4. \A k \in 1..3 : k = i + 1 => 1..k - 1 = 1..i
        OBVIOUS
    <2>5. busHolds'[busId'] = more /\ busId' # 0
        BY <1>1, <1>3, <1>6 DEF IsList
    <2>6. ASSUME NEW k \in 1..3, owning'[v] = RegionNames[k], NEW j \in 1..k - 1
          PROVE  RegionNames[j] \in ToSet(more)
        <3>1. j \in 1..i
            BY <2>3, <2>4, <2>6
        <3>2. QED BY <1>7, <3>1
    <2>7. QED BY <1>4, <2>5, <2>6
<1>9. LifeInv'
    BY <1>1, <1>6, <1>8 DEF LifeInv
<1>10. ready' /\ ~ready => ToSet(RegionNames) \subseteq ToSet(busHolds'[busId'])
    <2> SUFFICES ASSUME i = 3 PROVE ToSet(RegionNames) \subseteq ToSet(more)
        BY <1>1, <1>6, RegionNamesAre DEF ReadyAfter
    <2>1. RegionNames[1] \in ToSet(more) /\ RegionNames[2] \in ToSet(more) /\ RegionNames[3] \in ToSet(more)
        BY <1>7
    <2>2. QED BY <2>1, RegionNamesAre
<1>11. QED BY <1>9, <1>10

LEMMA OwnerKeeps ==
    ASSUME LifeInv, \A u, v \in Owners : u = v, NEW u \in Owners,
           AllocateFails(u) \/ ShutdownBegins(u) \/ ShutdownFrees(u) \/ ShutdownEnds(u)
    PROVE  LifeInv' /\ (ready' => ready)
<1>1. CASE AllocateFails(u) \/ ShutdownBegins(u) \/ ShutdownEnds(u)
    <2>1. /\ UNCHANGED <<busId, busHolds, placingBar>> /\ (ready' => ready)
          /\ owning' \in {[owning EXCEPT ![u] = "idle"], [owning EXCEPT ![u] = "free"]}
        BY <1>1 DEF AllocateFails, ShutdownBegins, ShutdownEnds
    <2>2. \A v \in Owners : owning'[v] \notin ToSet(RegionNames)
        BY <2>1, RegionNamesAre DEF LifeInv
    <2>3. QED BY <2>1, <2>2 DEF LifeInv
<1>2. CASE ShutdownFrees(u)
    <2>1. PICK e : busHolds' = [busHolds EXCEPT ![busId] = e]
        BY <1>2 DEF ShutdownFrees
    <2>2. /\ owning[u] = "free" /\ UNCHANGED <<busId, owning, placingBar, ready>>
        BY <1>2 DEF ShutdownFrees
    <2>3. \A v \in Owners : owning'[v] \notin ToSet(RegionNames)
        BY <2>2, RegionNamesAre
    <2>4. IsList(busHolds') /\ Len(busHolds') = Len(busHolds)
        <3>1. IsList(busHolds) /\ busId \in 0..Len(busHolds)
            BY DEF LifeInv
        <3>2. CASE busId = 0
            <4>1. busHolds' = busHolds
                BY <2>1, <3>1, <3>2 DEF IsList
            <4>2. QED BY <3>1, <4>1
        <3>3. CASE busId # 0
            <4>1. busId \in 1..Len(busHolds)
                BY <3>1, <3>3 DEF IsList
            <4>2. IsList(busHolds')
                BY <2>1, <3>1, <4>1, ListWith
            <4>3. Len(busHolds') = Len(busHolds)
                BY <2>1, <3>1, <4>1, ListWith
            <4>4. QED BY <4>2, <4>3
        <3>4. QED BY <3>2, <3>3
    <2>5. QED BY <2>2, <2>3, <2>4 DEF LifeInv
<1>3. QED BY <1>1, <1>2

LEMMA BarKeeps ==
    ASSUME LifeInv, NEW u \in HwUsers, BarBegins(u) \/ BarMapped(u) \/ BarFails(u)
    PROVE  LifeInv' /\ ready' = ready
<1>1. CASE BarBegins(u) \/ BarFails(u)
    <2>1. /\ UNCHANGED <<busId, busHolds, owning, ready>>
          /\ placingBar' \in {[placingBar EXCEPT ![u] = 0], [placingBar EXCEPT ![u] = busId]}
        BY <1>1 DEF BarBegins, BarFails
    <2>2. 0 \in 0..Len(busHolds)
        BY DEF LifeInv, IsList
    <2>3. \A v \in HwUsers : placingBar'[v] \in 0..Len(busHolds)
        BY <2>1, <2>2 DEF LifeInv
    <2>4. QED BY <2>1, <2>3 DEF LifeInv
<1>2. CASE BarMapped(u)
    <2> DEFINE b == placingBar[u]
               e == IF Contains(busHolds[b], "bar") THEN busHolds[b] ELSE Append(busHolds[b], "bar")
    <2>1. /\ UNCHANGED <<busId, owning, ready>> /\ placingBar' = [placingBar EXCEPT ![u] = 0]
          /\ b # 0 /\ busHolds' = [busHolds EXCEPT ![b] = e]
        BY <1>2 DEF BarMapped
    <2>2. IsList(busHolds) /\ b \in 1..Len(busHolds)
        BY <2>1 DEF LifeInv, IsList
    <2>3. busHolds[b] \in Seq(HeldNames) => e \in Seq(HeldNames) /\ ToSet(busHolds[b]) \subseteq ToSet(e)
        <3>1. "bar" \in HeldNames
            BY RegionNamesAre
        <3>2. CASE Contains(busHolds[b], "bar")
            BY <3>2
        <3>3. CASE ~Contains(busHolds[b], "bar")
            <4>1. e = Append(busHolds[b], "bar")
                BY <3>3
            <4> HIDE DEF e
            <4>2. QED BY <3>1, <4>1, OneNameMore
        <3>4. QED BY <3>2, <3>3
    <2> HIDE DEF b, e
    <2>4. /\ IsList(busHolds') /\ Len(busHolds') = Len(busHolds)
          /\ busHolds'[b] = e /\ \A i \in 1..Len(busHolds) \ {b} : busHolds'[i] = busHolds[i]
        <3>1. busHolds' = [busHolds EXCEPT ![b] = e]
            BY <2>1
        <3>2. IsList(busHolds')
            BY <2>2, <3>1, ListWith
        <3>6. Len(busHolds') = Len(busHolds)
            BY <2>2, <3>1, ListWith
        <3>3. busHolds'[b] = e
            BY <2>2, <3>1, ListWith
        <3>4. \A i \in 1..Len(busHolds) \ {b} : busHolds'[i] = busHolds[i]
            BY <2>2, <3>1, ListWith
        <3>5. QED BY <3>2, <3>3, <3>4, <3>6
    <2>5. 0 \in 0..Len(busHolds)
        BY <2>2 DEF IsList
    <2>6. \A v \in HwUsers : placingBar'[v] \in 0..Len(busHolds)
        BY <2>1, <2>5 DEF LifeInv
    <2>7. ASSUME busId # 0, busHolds[busId] \in Seq(HeldNames)
          PROVE  busHolds'[busId] \in Seq(HeldNames) /\ ToSet(busHolds[busId]) \subseteq ToSet(busHolds'[busId])
        <3>1. busId \in 1..Len(busHolds)
            BY <2>7 DEF LifeInv, IsList
        <3>2. QED BY <2>3, <2>4, <2>7, <3>1
    <2>8. QED BY <2>1, <2>4, <2>6, <2>7 DEF LifeInv
<1>3. QED BY <1>1, <1>2

LEMMA LifeSteps ==
    ASSUME LifeInv, \A u, v \in Owners : u = v, [HwNext]_hwVars
    PROVE  LifeInv' /\ (ready' /\ ~ready => ToSet(RegionNames) \subseteq ToSet(busHolds'[busId']))
<1>1. CASE UNCHANGED hwVars \/ PlaceNext \/ PerfNext \/ ClockNext
    <2>1. UNCHANGED lifeVars
        BY <1>1, OthersLeaveLife DEF hwVars, lifeVars
    <2>2. QED BY <2>1 DEF lifeVars, LifeInv
<1>2. ASSUME NEW u \in Owners, NewBus(u) PROVE LifeInv' /\ ready' = ready
    BY <1>2, NewBusKeeps
<1>3. ASSUME NEW u \in Owners, Allocates(u)
      PROVE  LifeInv' /\ (ready' /\ ~ready => ToSet(RegionNames) \subseteq ToSet(busHolds'[busId']))
    BY <1>3, AllocatesKeeps
<1>4. ASSUME NEW u \in Owners, AllocateFails(u) \/ ShutdownBegins(u) \/ ShutdownFrees(u) \/ ShutdownEnds(u)
      PROVE  LifeInv' /\ (ready' => ready)
    BY <1>4, OwnerKeeps
<1>5. ASSUME NEW u \in HwUsers, BarBegins(u) \/ BarMapped(u) \/ BarFails(u) PROVE LifeInv' /\ ready' = ready
    BY <1>5, BarKeeps
<1>6. QED BY <1>1, <1>2, <1>3, <1>4, <1>5 DEF HwNext, LifeNext

LEMMA CountersStart == HwInit => CountersInv
    BY DEF HwInit, CountersInv, CountersAreClosed

LEMMA ClockStarts == HwInit => ClockInv
<1> SUFFICES ASSUME HwInit PROVE ClockInv
    OBVIOUS
<1>1. /\ clock = [aperf |-> 0, mperf |-> 0]
      /\ sampled = [u \in Owners |-> [reads |-> <<>>, ratio |-> <<>>]]
    BY DEF HwInit
<1>2. clock \in [{"aperf", "mperf"} -> Nat]
    BY <1>1
<1>3. IsSample([reads |-> <<>>, ratio |-> <<>>], clock)
    BY NoSample
<1>4. QED BY <1>1, <1>2, <1>3 DEF ClockInv

-----------------------------------------------------------------------------
\* However a machine is made up and whoever uses the layer, a tile fits the level-one cache,
\* no counter outlives its measurement and a ratio counts the ticks between its samples,
\* though the registers wrap (compute_tile_size, PerformanceMonitor.measure and
\* read_actual_freq_mhz of aios_hardware.py).
THEOREM HardwareAlwaysTold == HwSpec => []HardwareIsTold
<1>1. HwInit => ReportInv /\ CountersInv /\ ClockInv
    BY CountersStart, ClockStarts DEF HwInit, ReportInv
<1>2. ReportInv /\ CountersInv /\ ClockInv /\ [HwNext]_hwVars => ReportInv' /\ CountersInv' /\ ClockInv'
    BY ReportSteps, CountersSteps, ClockSteps
<1>3. ReportInv /\ CountersInv /\ ClockInv => HardwareIsTold
    BY ReportFits, SamplesAreExact DEF CountersInv, HardwareIsTold
<1>4. QED BY <1>1, <1>2, <1>3, PTL DEF HwSpec

\* With one owner, the layer becomes ready with all its regions on the bus that it has then,
\* however many of its initialisations failed and shutdowns freed before (initialise and
\* shutdown of aios_hardware.py).  Two owners can take turns, so the premise is needed.
THEOREM ReadyMeansRegions ==
    ASSUME \A u, v \in Owners : u = v
    PROVE  HwSpec => ReadyWithRegions
<1>1. LifeInv /\ [HwNext]_hwVars => LifeInv'
    BY LifeSteps
<1>2. LifeInv /\ [HwNext]_hwVars
        => [ready' /\ ~ready => ToSet(RegionNames) \subseteq ToSet(busHolds'[busId'])]_hwVars
    BY LifeSteps
<1>3. QED BY <1>1, <1>2, LifeStarts, PTL DEF HwSpec, ReadyWithRegions

\* However the kernel is booted again, its lines are masked and fire, its screen scrolls, its
\* handlers are registered and its regions overlap: a kernel that is up is of one boot, the
\* keyboard's buffer has what was pressed, the screen shows the end of the text, a frame has
\* the code of its vector and a copy is what was to be copied (but for words moved onto their
\* own source).  Line 9 must not be in use: the second controller gives it the vector of the
\* keyboard, as irq + 24.
THEOREM KernelAlwaysWhole ==
    ASSUME 9 \notin Irqs
    PROVE  KernelSpec /\ InterruptSpec /\ ScreenSpec /\ GateMachine /\ CopySpec => []KernelIsWhole
<1>1. /\ KernelSpec => []UpMeansOneBoot
      /\ InterruptSpec => []NoPhantomKeys
      /\ ScreenSpec => []ScreenShowsEnd
      /\ GateMachine => []FramesHaveTheirCode
      /\ CopySpec => []CopiesAreTransfers
    BY UpStaysOneBoot, KeysStayPressed, ScreenKeepsTheEnd, FramesKeepTheirCode, CopiesStayTransfers
<1>2. UpMeansOneBoot /\ NoPhantomKeys /\ ScreenShowsEnd /\ FramesHaveTheirCode /\ CopiesAreTransfers
        => KernelIsWhole
    BY DEF KernelIsWhole
<1>3. QED BY <1>1, <1>2, PTL
=============================================================================
