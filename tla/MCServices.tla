----------------------------- MODULE MCServices -----------------------------
(***************************************************************************)
(* The services and the kernel side of AI_OS on small instances: networking,*)
(* inter-process communication, the agent swarm, the kernel with its memory,*)
(* devices and files, the process machine, the hardware layer and the order of*)
(* tasks, and the store and menu of binsys.  The components share no state, so one run checks them side by side: each*)
(* behaviour is one of the part that is chosen at its start.               *)
(***************************************************************************)
EXTENDS AddressCache, NameQueries, Sentinel, FrameDecoding, ServiceProofs, AgentKernel,
        KernelProofs, ProcessMachine, Hardware, SystemProofs, TLC

CONSTANTS u1, u2, u3, n1, n2, n3, k1, h1, h2, none

\* u1 and u2 are together in every set that one of them is in.
Symmetry == Permutations({u1, u2})

\* Patterns that overlap and topics that tell them apart.
SomePatterns == {<<"a", "**">>, <<"**", "b">>, <<"*", "b">>}
SomeTopics == {<<"a">>, <<"a", "b">>}

\* Three nodes in a row; the first's distances are complete, the second's are not.
SomeTopologies == {<< >>, <<[id |-> 0, dist |-> 0 :> 10 @@ 1 :> 20 @@ 2 :> 40], [id |-> 1, dist |-> 0 :> 20],
                            [id |-> 2, dist |-> 0 :> 40 @@ 1 :> 21 @@ 2 :> 10]>>}

SomePaths == {<<"tmp", "a">>}
SomeModes == {{"RDWR", "CREAT", "APPEND"}}

\* Two NUMA nodes, the first with a gap in its list of processors and little free memory,
\* and a cache with room for a tile of ten, which is rounded down to eight.
SomeMachines == {[
    lists |-> [n \in {0, 1} |-> IF n = 0 THEN <<<<0, 1>>, <<4, 4>>>> ELSE <<<<2, 3>>>>],
    free |-> [n \in {0, 1} |-> IF n = 0 THEN 1 ELSE 3],
    dist |-> [a \in {0, 1} |-> [b \in {0, 1} |-> IF a = b THEN 10 ELSE 20]],
    cache |-> 1200,
    cores |-> [c \in 0..4 |-> <<IF c \in {2, 3} THEN 1 ELSE 0, c \div 2>>],
    resources |-> <<<<0, 0, 0>>, <<8, 11, 0>>, <<4, 4, 1>>>>]}

SomeSizes == {[n |-> 3, unit |-> "G"]}

-----------------------------------------------------------------------------
VARIABLE part   \* the component this behaviour is one of

Init ==
    /\ part \in {"arp", "dns", "sentinel", "frames", "semaphore", "bus", "names",
                  "channel", "swarm", "kernel", "memory", "phys", "irq", "screen",
                  "vfs", "gate", "copy", "life", "place", "perf", "clock", "overflow",
                  "placement", "map", "store", "menu"}
    /\ DecodingInit /\ (part = "frames" \/ message = [i \in DOMAIN message |-> 0])
    /\ SemaphoreInit /\ (part = "semaphore" \/ permits = MaxValue)
    /\ CopyInit /\ (part = "copy" \/ erms)
    /\ PlacementInit /\ (part = "placement" \/ topology = TopologyOf(<< >>))
    /\ MapInit /\ (part = "map" \/ workerless)
    /\ MenuInit /\ (part = "menu" \/ stored = {})
    /\ ArpInit /\ DnsInit /\ SentinelInit /\ EventBusInit
    /\ NamespaceInit /\ ChannelInit /\ SwarmInit /\ KernelInit
    /\ MemoryInit /\ BusInit /\ InterruptInit /\ ScreenInit
    /\ VfsInit /\ GateInit /\ HwInit /\ OverflowInit
    /\ StoreInit

\* The components share nothing: a step is one of the part that was chosen.
Only(p) ==
    /\ part = p /\ UNCHANGED part
    /\ IF p = "arp" THEN TRUE ELSE UNCHANGED arpVars
    /\ IF p = "dns" THEN TRUE ELSE UNCHANGED dnsVars
    /\ IF p = "sentinel" THEN TRUE ELSE UNCHANGED sentinelVars
    /\ IF p = "frames" THEN TRUE ELSE UNCHANGED decodingVars
    /\ IF p = "semaphore" THEN TRUE ELSE UNCHANGED semaphoreVars
    /\ IF p = "bus" THEN TRUE ELSE UNCHANGED eventBusVars
    /\ IF p = "names" THEN TRUE ELSE UNCHANGED namespaceVars
    /\ IF p = "channel" THEN TRUE ELSE UNCHANGED channelVars
    /\ IF p = "swarm" THEN TRUE ELSE UNCHANGED swarmVars
    /\ IF p = "kernel" THEN TRUE ELSE UNCHANGED kernelVars
    /\ IF p = "memory" THEN TRUE ELSE UNCHANGED memoryVars
    /\ IF p = "phys" THEN TRUE ELSE UNCHANGED busVars
    /\ IF p = "irq" THEN TRUE ELSE UNCHANGED interruptVars
    /\ IF p = "screen" THEN TRUE ELSE UNCHANGED screenVars
    /\ IF p = "vfs" THEN TRUE ELSE UNCHANGED vfsVars
    /\ IF p = "gate" THEN TRUE ELSE UNCHANGED gateVars
    /\ IF p = "copy" THEN TRUE ELSE UNCHANGED copyVars
    /\ IF p \in {"life", "place", "perf", "clock"} THEN TRUE ELSE UNCHANGED hwVars
    /\ IF p = "overflow" THEN TRUE ELSE UNCHANGED overflowVars
    /\ IF p = "placement" THEN TRUE ELSE UNCHANGED placementVars
    /\ IF p = "map" THEN TRUE ELSE UNCHANGED mapVars
    /\ IF p = "store" THEN TRUE ELSE UNCHANGED storeVars
    /\ IF p = "menu" THEN TRUE ELSE UNCHANGED menuVars

Next ==
    \/ Only("arp") /\ ArpNext
    \/ Only("dns") /\ DnsNext
    \/ Only("sentinel") /\ SentinelNext
    \/ Only("frames") /\ DecodingNext
    \/ Only("semaphore") /\ SemaphoreNext
    \/ Only("bus") /\ EventBusNext
    \/ Only("names") /\ NamespaceNext
    \/ Only("channel") /\ ChannelNext
    \/ Only("swarm") /\ SwarmNext
    \/ Only("kernel") /\ KernelNext
    \/ Only("memory") /\ MemoryNext
    \/ Only("phys") /\ BusNext
    \/ Only("irq") /\ InterruptNext
    \/ Only("screen") /\ ScreenNext
    \/ Only("vfs") /\ VfsNext
    \/ Only("gate") /\ GateNext
    \/ Only("copy") /\ CopyNext
    \/ Only("life") /\ LifeNext
    \/ Only("place") /\ PlaceNext
    \/ Only("perf") /\ PerfNext
    \/ Only("clock") /\ ClockNext
    \/ Only("overflow") /\ OverflowNext
    \/ Only("placement") /\ PlacementNext
    \/ Only("map") /\ MapNext
    \/ Only("store") /\ StoreNext
    \/ Only("menu") /\ MenuNext

partVars == <<part, arpVars, dnsVars, sentinelVars, decodingVars, semaphoreVars,
                eventBusVars, namespaceVars, channelVars, swarmVars, kernelVars,
                memoryVars, busVars, interruptVars, screenVars, vfsVars, gateVars,
                copyVars, hwVars, overflowVars, placementVars, mapVars, storeVars,
                menuVars>>

Spec == Init /\ [][Next]_partVars

-----------------------------------------------------------------------------

=============================================================================
