--------------------------- MODULE PhysicalMemory ---------------------------
(***************************************************************************)
(* PhysicalAllocator, VirtualMemoryManager and MemoryBus of                *)
(* os/core/aios_core.py: contiguous runs of physical pages, first fit, the *)
(* page table that maps virtual pages on them, and the RAM behind both.    *)
(*                                                                         *)
(* alloc looks at the number of free pages before it takes the lock; the   *)
(* scan, free, map_page, unmap_page and translate are one locked section   *)
(* each.  A page's content is the client that wrote it last.               *)
(***************************************************************************)
EXTENDS Naturals, FiniteSets, FiniteSetsExt

CONSTANTS MemoryClients, Pages, LowPages, VirtualPages, NoClient

ASSUME PhysicalMemoryAssumption == LowPages \in 0..Pages /\ Pages \in Nat

VARIABLES
    freePages,  \* the clear bits of _bitmap
    freeCount,  \* _free_count
    blocks,     \* the runs <<base, n>> a client was given and has not freed
    asking,     \* the n of a client inside alloc, past its first test; else 0
    pageTable,  \* _page_dir: virtual page -> [frame, writable], or Unmapped
    ram         \* who wrote a page last

memoryVars == <<freePages, freeCount, blocks, asking, pageTable, ram>>

AllPages == 0..(Pages - 1)
Unmapped == [frame |-> Pages, writable |-> FALSE]
Run(base, n) == base..(base + n - 1)

MemoryInit ==
    /\ freePages = LowPages..(Pages - 1) /\ freeCount = Pages - LowPages
    /\ blocks = [c \in MemoryClients |-> {}] /\ asking = [c \in MemoryClients |-> 0]
    /\ pageTable = [v \in VirtualPages |-> Unmapped]
    /\ ram = [p \in AllPages |-> NoClient]

-----------------------------------------------------------------------------
AllocChecks(c, n) ==
    /\ asking[c] = 0 /\ n <= freeCount
    /\ asking' = [asking EXCEPT ![c] = n]
    /\ UNCHANGED <<freePages, freeCount, blocks, pageTable, ram>>

\* A fault: the scan does not start again at a used page.
FitsWithGaps(n) == {p \in freePages : /\ p + n <= Pages
                                      /\ Cardinality({f \in freePages : f >= p}) >= n}

Fits(n) == {p \in freePages : p + n <= Pages /\ Run(p, n) \subseteq freePages}

Alloc(c) ==
    /\ asking[c] > 0
    /\ asking' = [asking EXCEPT ![c] = 0]
    /\ IF Fits(asking[c]) = {} THEN UNCHANGED <<freePages, freeCount, blocks>>
       ELSE LET base == Min(Fits(asking[c])) IN
            /\ freePages' = freePages \ Run(base, asking[c])
            /\ freeCount' = freeCount - asking[c]
            /\ blocks' = [blocks EXCEPT ![c] = @ \union {<<base, asking[c]>>}]
    /\ UNCHANGED <<pageTable, ram>>

\* Only pages that are in use are freed, and counted.  The page table is not told.
Free(c, b) ==
    /\ b \in blocks[c] /\ b[1] >= LowPages
    /\ LET used == Run(b[1], b[2]) \ freePages IN
       /\ freePages' = freePages \union used
       /\ freeCount' = freeCount + Cardinality(used)
    /\ blocks' = [blocks EXCEPT ![c] = @ \ {b}]
    /\ UNCHANGED <<asking, pageTable, ram>>

MapPage(v, frame, writable) ==
    /\ pageTable' = [pageTable EXCEPT ![v] = [frame |-> frame, writable |-> writable]]
    /\ UNCHANGED <<freePages, freeCount, blocks, asking, ram>>

UnmapPage(v) ==
    /\ pageTable[v] # Unmapped
    /\ pageTable' = [pageTable EXCEPT ![v] = Unmapped]
    /\ UNCHANGED <<freePages, freeCount, blocks, asking, ram>>

\* translate raises PageFaultException otherwise.
Translates(v, writes) == pageTable[v] # Unmapped /\ (writes => pageTable[v].writable)

\* translate, then a poke at the frame it returned.
Poke(c, v) ==
    /\ Translates(v, TRUE)
    /\ ram' = [ram EXCEPT ![pageTable[v].frame] = c]
    /\ UNCHANGED <<freePages, freeCount, blocks, asking, pageTable>>

MemoryNext ==
    \/ \E c \in MemoryClients :
         \/ \E n \in 1..Pages : AllocChecks(c, n)
         \/ Alloc(c)
         \/ \E b \in blocks[c] :
              \/ Free(c, b)
              \/ \E v \in VirtualPages, w \in BOOLEAN : MapPage(v, b[1], w)
         \/ \E v \in VirtualPages : Poke(c, v)
    \/ \E v \in VirtualPages : UnmapPage(v)

MemorySpec == MemoryInit /\ [][MemoryNext]_memoryVars

-----------------------------------------------------------------------------
Held == UNION {{<<c, b>> : b \in blocks[c]} : c \in MemoryClients}

\* "Allocate n contiguous physical pages": no two blocks share a page, none has a page
\* that counts as free or belongs to the first megabyte, and _free_count, which alloc
\* trusts before it looks, is the number of clear bits.
BlocksApart ==
    /\ freeCount = Cardinality(freePages)
    /\ \A h \in Held : /\ Run(h[2][1], h[2][2]) \subseteq LowPages..(Pages - 1)
                       /\ Run(h[2][1], h[2][2]) \cap freePages = {}
                       /\ \A o \in Held \ {h} :
                            Run(h[2][1], h[2][2]) \cap Run(o[2][1], o[2][2]) = {}
=============================================================================
