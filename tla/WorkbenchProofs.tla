--------------------------- MODULE WorkbenchProofs ---------------------------
(***************************************************************************)
(* What holds of the workbench for every value of the constants: of the    *)
(* boot kernel of os/kernels/aios_bootloader_kernel.py, of the memory, the *)
(* learners and the feedback loop of os/core, of the images, artifacts and *)
(* tensor files of os/custom, and of the keyboards of os/desktop.          *)
(***************************************************************************)
EXTENDS BootSequence, EpisodicMemory, MemoryStores, FeedbackLoop, Reinforcement, AgentImages,
        ModelFiles, KeyInput, FiniteSetTheorems, SequenceTheorems, WellFoundedInduction, TLAPS

\* The automaton and the chain of blocks keep pace with the boot stages
\* (BootCellularAutomaton and BootIntegrityChain of aios_bootloader_kernel.py).
BootIsInStep == AutomatonKeepsPace /\ ChainVerifies

\* What is learned from is what happened: the best-known episodes can be evicted, a weight of
\* the working memory is not of newer observations, facts are apart, batches are of recent
\* steps, advantages stop at the end of an episode and traces are trained in order
\* (aios_memory.py, aios_rl.py and aios_feedback.py).
LearnsFromItsData ==
    /\ EvictionFinds /\ WeightsAreNotNewer /\ FactsAreApart
    /\ LearnsFromRecent /\ AdvantagesAreEpisodic /\ TrainedInOrder

\* A loaded image is what was compiled, a finished execution is idle and leaves no file
\* behind; a tensor file that opens is a whole save and gives what was saved
\* (recu_compiler.py and custom_model_format.py).
ImagesAreWhole == LoadedIsCompiled /\ IdleIsTerminated /\ FilesAreRemoved /\ OpenIsWhole /\ RowsAsSaved

-----------------------------------------------------------------------------
(* The boot kernel *)

BootBlocks == [index : Nat, stage : 0..Stages - 1 \cup BootAgents \cup {"none"}, prev : Nat, hash : Nat]

TipOf(blocks) == IF blocks = << >> THEN 0 ELSE blocks[Len(blocks)].hash

BootTyped ==
    /\ bootStage \in 0..Stages /\ caState \in 0..Stages - 1 /\ caRecords \in Seq(Nat)
    /\ caReady \in SUBSET (0..bootStage - 1)
    /\ bootBlocks \in Seq(BootBlocks) /\ chainDraft \in BootBlocks
    /\ bootTip \in Nat /\ seals \in Nat /\ chainHeld \in BootAgents \cup {Nobody}

\* A stage adds its block itself; after the boot only the holder of the lock adds one.
BlocksOfStages ==
    /\ Len(bootBlocks) >= bootStage
    /\ bootStage < Stages => Len(bootBlocks) = bootStage /\ chainHeld = Nobody
    /\ bootStage = 0 => caState = 0 /\ caRecords = << >>

\* The tip is the last block's hash, unless the holder of the lock has linked its block and
\* not yet moved the tip; before that, the block it made is the next one.
TipIsLast ==
    /\ chainHeld = Nobody => bootTip = TipOf(bootBlocks)
    /\ chainHeld # Nobody /\ LastBlock # chainDraft =>
         /\ bootTip = TipOf(bootBlocks)
         /\ chainDraft.index = Len(bootBlocks) /\ chainDraft.prev = bootTip

BootInv == BootTyped /\ BlocksOfStages /\ TipIsLast /\ AutomatonKeepsPace /\ ChainVerifies

\* A block that carries on from the tip goes on with the chain.
LEMMA ChainGrows ==
    ASSUME BootTyped, ChainVerifies, NEW block \in BootBlocks, bootBlocks' = Append(bootBlocks, block),
           block.index = Len(bootBlocks), block.prev = TipOf(bootBlocks)
    PROVE  ChainVerifies' /\ bootBlocks' \in Seq(BootBlocks) /\ TipOf(bootBlocks') = block.hash
<1> DEFINE n == Len(bootBlocks)
<1>1. n \in Nat /\ bootBlocks \in Seq(BootBlocks) /\ DOMAIN bootBlocks = 1..n
    BY DEF BootTyped
<1>2. /\ bootBlocks' \in Seq(BootBlocks) /\ Len(bootBlocks') = n + 1 /\ DOMAIN bootBlocks' = 1..n + 1
      /\ bootBlocks'[n + 1] = block /\ \A k \in 1..n : bootBlocks'[k] = bootBlocks[k]
    BY <1>1
<1>3. TipOf(bootBlocks') = block.hash
    BY <1>1, <1>2 DEF TipOf
<1>4. ASSUME NEW k \in 1..n + 1
      PROVE  /\ bootBlocks'[k].index = k - 1
             /\ bootBlocks'[k].prev = (IF k = 1 THEN 0 ELSE bootBlocks'[k - 1].hash)
    <2>1. CASE k = n + 1
        <3>1. TipOf(bootBlocks) = IF k = 1 THEN 0 ELSE bootBlocks[n].hash
            BY <1>1, <2>1 DEF TipOf
        <3>2. k # 1 => k - 1 = n /\ n \in 1..n
            BY <1>1, <2>1
        <3>3. bootBlocks'[k].index = n /\ bootBlocks'[k].prev = TipOf(bootBlocks) /\ k - 1 = n
            BY <1>1, <1>2, <2>1
        <3>4. k # 1 => bootBlocks'[k - 1] = bootBlocks[n]
            BY <1>2, <3>2
        <3>5. QED BY <3>1, <3>3, <3>4
    <2>2. CASE k # n + 1
        <3>1. k \in 1..n /\ (k # 1 => k - 1 \in 1..n)
            BY <1>1, <2>2
        <3>2. /\ bootBlocks[k].index = k - 1
              /\ bootBlocks[k].prev = (IF k = 1 THEN 0 ELSE bootBlocks[k - 1].hash)
            BY <1>1, <3>1 DEF ChainVerifies
        <3>3. QED BY <1>2, <3>1, <3>2
    <2>3. QED BY <2>1, <2>2
<1>5. ChainVerifies'
    BY <1>2, <1>4 DEF ChainVerifies
<1>6. QED BY <1>2, <1>3, <1>5

LEMMA BootUntouched ==
    ASSUME BootInv, UNCHANGED <<bootStage, caVars, chainVars>> PROVE BootInv'
<1>1. /\ UNCHANGED <<bootStage, caState, caReady, caRecords>>
      /\ UNCHANGED <<bootBlocks, bootTip, seals, chainHeld, chainDraft>>
    BY DEF caVars, chainVars
<1>2. BootTyped' /\ BlocksOfStages'
    BY <1>1 DEF BootInv, BootTyped, BlocksOfStages
<1>3. TipIsLast' /\ ChainVerifies'
    BY <1>1 DEF BootInv, TipIsLast, TipOf, LastBlock, ChainVerifies
<1>4. AutomatonKeepsPace'
    BY <1>1 DEF BootInv, AutomatonKeepsPace
<1>5. QED BY <1>2, <1>3, <1>4 DEF BootInv

LEMMA StageKeepsStep == ASSUME BootInv, RunStage PROVE BootInv'
<1>1. /\ BootTyped /\ BlocksOfStages /\ TipIsLast /\ AutomatonKeepsPace /\ ChainVerifies
      /\ bootStage \in 0..Stages - 1
    BY DEF BootInv, RunStage, BootTyped, Stages
<1>2. CASE bootStage' = bootStage + 1
    <2>1. /\ caReady' = caReady \cup {bootStage}
          /\ bootBlocks' = Append(bootBlocks, BlockOf(bootStage, bootTip))
          /\ bootTip' = seals + 1 /\ seals' = seals + 1 /\ UNCHANGED <<chainHeld, chainDraft>>
          /\ CaStep(caReady')
        BY <1>1, <1>2 DEF RunStage, Attest, MarkReady
    <2> DEFINE block == BlockOf(bootStage, bootTip)
    <2>2. /\ block \in BootBlocks /\ block.index = Len(bootBlocks) /\ block.prev = TipOf(bootBlocks)
          /\ block.hash = seals + 1 /\ block.stage = bootStage
        BY <1>1 DEF BlockOf, BootBlocks, BootTyped, BlocksOfStages, TipIsLast, Stages
    <2>3. ChainVerifies' /\ bootBlocks' \in Seq(BootBlocks) /\ TipOf(bootBlocks') = seals + 1
        BY <1>1, <2>1, <2>2, ChainGrows
    <2>4. TipIsLast'
        <3>1. chainHeld' = Nobody /\ bootTip' = TipOf(bootBlocks')
            BY <1>1, <2>1, <2>3 DEF BlocksOfStages, Stages
        <3>2. QED BY <3>1 DEF TipIsLast, TipOf
    <2>5. /\ bootStage' \in 1..Stages /\ caReady' \in SUBSET (0..bootStage' - 1)
          /\ Len(bootBlocks) = bootStage /\ Len(bootBlocks') = bootStage + 1
          /\ bootBlocks'[bootStage + 1].stage = bootStage
          /\ \A k \in 1..bootStage : bootBlocks'[k] = bootBlocks[k]
        BY <1>1, <1>2, <2>1, <2>2 DEF BootTyped, BlocksOfStages, Stages
    <2>6. caState' = bootStage /\ caRecords' \in Seq(Nat) /\ caRecords' = [k \in 1..bootStage |-> k - 1]
        <3> DEFINE next == Min({caState + 1, Stages})
        <3>1. next = caState + 1
            <4>1. caState + 1 \in Int /\ caState + 1 <= Stages
                BY <1>1 DEF BootTyped, Stages
            <4>2. QED BY <4>1 DEF Min, Stages
        <3>2. CASE bootStage = 0
            <4>1. caState + 1 \notin caReady'
                BY <1>1, <2>1, <3>2 DEF BootTyped, BlocksOfStages
            <4>2. caState' = caState /\ caRecords' = caRecords
                BY <2>1, <3>1, <4>1 DEF CaStep
            <4>3. QED BY <1>1, <3>2, <4>2 DEF BlocksOfStages, BootTyped
        <3>3. CASE bootStage # 0
            <4>1. caState = bootStage - 1 /\ caRecords = [k \in 1..caState |-> k - 1]
                BY <1>1, <3>3 DEF AutomatonKeepsPace, Stages
            <4>2. caState' = caState + 1 /\ caRecords' = Append(caRecords, caState)
                <5>1. caState + 1 = bootStage /\ caState < Stages - 1 /\ bootStage \in caReady'
                    BY <1>1, <2>1, <3>3, <4>1 DEF Stages
                <5>2. next \in caReady' /\ caState < Stages - 1
                    BY <3>1, <5>1
                <5> HIDE DEF next
                <5>3. CaStep(caReady') <=> caState' = caState + 1 /\ caRecords' = Append(caRecords, caState)
                    BY <5>2 DEF CaStep, next
                <5>4. QED BY <2>1, <5>3
            <4>3. caState + 1 = bootStage /\ caState \in Nat /\ Len(caRecords) = caState
                BY <1>1, <3>3, <4>1 DEF BootTyped, Stages
            <4>4. caRecords' \in Seq(Nat)
                BY <1>1, <4>2, <4>3 DEF BootTyped
            <4>5. caRecords' = [k \in 1..bootStage |-> k - 1]
                <5>1. Len(caRecords') = bootStage /\ DOMAIN caRecords' = 1..bootStage
                    BY <1>1, <4>2, <4>3 DEF BootTyped
                <5>2. \A k \in 1..bootStage : caRecords'[k] = k - 1
                    BY <1>1, <4>1, <4>2, <4>3 DEF BootTyped
                <5>3. caRecords' = [k \in DOMAIN caRecords' |-> caRecords'[k]]
                    BY <4>4
                <5>4. QED BY <5>1, <5>2, <5>3
            <4>6. QED BY <4>2, <4>3, <4>4, <4>5
        <3>4. QED BY <3>2, <3>3
    <2>7. AutomatonKeepsPace'
        <3>1. \A k \in 1..bootStage : bootBlocks[k].stage = k - 1
            BY <1>1 DEF AutomatonKeepsPace, Stages
        <3>2. ASSUME NEW k \in 1..bootStage + 1 PROVE bootBlocks'[k].stage = k - 1
            <4>1. CASE k = bootStage + 1
                <5>1. k - 1 = bootStage
                    BY <1>1, <4>1
                <5>2. QED BY <2>5, <4>1, <5>1
            <4>2. CASE k # bootStage + 1
                <5>1. k \in 1..bootStage
                    BY <1>1, <4>2
                <5>2. QED BY <2>5, <3>1, <5>1
            <4>3. QED BY <4>1, <4>2
        <3>3. QED BY <1>1, <1>2, <2>6, <3>2 DEF AutomatonKeepsPace, Stages
    <2>8. BootTyped' /\ BlocksOfStages'
        <3>1. /\ bootStage' \in 0..Stages /\ caState' \in 0..Stages - 1 /\ bootTip' \in Nat /\ seals' \in Nat
              /\ chainDraft' \in BootBlocks /\ chainHeld' \in BootAgents \cup {Nobody}
            BY <1>1, <2>1, <2>5, <2>6 DEF BootTyped, Stages
        <3>2. BootTyped'
            BY <2>3, <2>5, <2>6, <3>1 DEF BootTyped
        <3>3. Len(bootBlocks') = bootStage' /\ bootStage' # 0 /\ chainHeld' = Nobody
            BY <1>1, <1>2, <2>1, <2>5 DEF BlocksOfStages, Stages
        <3>4. QED BY <3>1, <3>2, <3>3 DEF BlocksOfStages, Stages
    <2>9. QED BY <2>3, <2>4, <2>7, <2>8 DEF BootInv
<1>3. CASE bootStage' # bootStage + 1
    <2>1. UNCHANGED <<bootStage, caVars, chainVars>>
        BY <1>3 DEF RunStage
    <2>2. QED BY <1>1, <2>1, BootUntouched DEF BootInv
<1>4. QED BY <1>2, <1>3

LEMMA ChainingKeepsStep ==
    ASSUME BootInv, NEW u \in BootAgents, DraftBlock(u) \/ LinkBlock(u) \/ MoveTip(u)
    PROVE  BootInv'
<1>1. /\ BootTyped /\ BlocksOfStages /\ TipIsLast /\ AutomatonKeepsPace /\ ChainVerifies
      /\ u # Nobody /\ UNCHANGED <<bootStage, caVars>>
    BY BootAssumption DEF BootInv, DraftBlock, LinkBlock, MoveTip
<1>2. bootStage = Stages
    BY <1>1 DEF DraftBlock, LinkBlock, MoveTip, Booted, BlocksOfStages, BootTyped, Stages
<1>3. CASE DraftBlock(u)
    <2>1. /\ chainDraft' = BlockOf(u, bootTip) /\ chainHeld' = u /\ seals' = seals + 1 /\ chainHeld = Nobody
          /\ UNCHANGED <<bootBlocks, bootTip>>
        BY <1>3 DEF DraftBlock
    <2>2. /\ chainDraft' \in BootBlocks /\ chainDraft'.index = Len(bootBlocks) /\ chainDraft'.prev = bootTip
          /\ bootTip = TipOf(bootBlocks)
        BY <1>1, <2>1 DEF BlockOf, BootBlocks, BootTyped, TipIsLast
    <2>3. BootTyped'
        BY <1>1, <2>1, <2>2 DEF BootTyped, caVars
    <2>4. BlocksOfStages' /\ AutomatonKeepsPace' /\ ChainVerifies'
        BY <1>1, <1>2, <2>1 DEF BlocksOfStages, AutomatonKeepsPace, ChainVerifies, caVars
    <2>5. TipIsLast'
        BY <1>1, <2>1, <2>2 DEF TipIsLast, TipOf
    <2>6. QED BY <2>3, <2>4, <2>5 DEF BootInv
<1>4. CASE LinkBlock(u)
    <2>1. /\ bootBlocks' = Append(bootBlocks, chainDraft) /\ UNCHANGED <<chainDraft, chainHeld, bootTip, seals>>
          /\ chainHeld = u /\ LastBlock # chainDraft
        BY <1>4 DEF LinkBlock
    <2>2. /\ chainDraft \in BootBlocks /\ chainDraft.index = Len(bootBlocks)
          /\ chainDraft.prev = TipOf(bootBlocks)
        BY <1>1, <2>1 DEF TipIsLast, BootTyped
    <2>3. ChainVerifies' /\ bootBlocks' \in Seq(BootBlocks)
        BY <1>1, <2>1, <2>2, ChainGrows
    <2>4. Len(bootBlocks') = Len(bootBlocks) + 1 /\ bootBlocks'[Len(bootBlocks')] = chainDraft
          /\ \A k \in 1..Len(bootBlocks) : bootBlocks'[k] = bootBlocks[k]
        BY <1>1, <2>1 DEF BootTyped
    <2>5. LastBlock' = chainDraft'
        BY <2>1, <2>4 DEF LastBlock
    <2>6. AutomatonKeepsPace'
        <3>1. \A k \in 1..bootStage : k \in 1..Len(bootBlocks)
            BY <1>1, <1>2 DEF BlocksOfStages, Stages, BootTyped
        <3>2. QED BY <1>1, <2>4, <3>1 DEF AutomatonKeepsPace, caVars
    <2>7. BlocksOfStages'
        BY <1>1, <1>2, <2>4 DEF BlocksOfStages, caVars, BootTyped, Stages
    <2>8. TipIsLast'
        BY <1>1, <2>1, <2>5 DEF TipIsLast
    <2>9. BootTyped'
        BY <1>1, <2>1, <2>3 DEF BootTyped, caVars
    <2>10. QED BY <2>3, <2>6, <2>7, <2>8, <2>9 DEF BootInv
<1>5. CASE MoveTip(u)
    <2>1. /\ bootTip' = chainDraft.hash /\ chainHeld' = Nobody /\ UNCHANGED <<bootBlocks, chainDraft, seals>>
          /\ LastBlock = chainDraft
        BY <1>5 DEF MoveTip
    <2>2. bootTip' = TipOf(bootBlocks) /\ bootTip' \in Nat
        BY <1>1, <1>2, <2>1 DEF TipOf, LastBlock, BlocksOfStages, Stages, BootTyped, BootBlocks
    <2>3. BootTyped'
        BY <1>1, <2>1, <2>2 DEF BootTyped, caVars
    <2>4. BlocksOfStages' /\ AutomatonKeepsPace' /\ ChainVerifies'
        BY <1>1, <1>2, <2>1 DEF BlocksOfStages, AutomatonKeepsPace, ChainVerifies, caVars
    <2>5. TipIsLast'
        BY <2>1, <2>2 DEF TipIsLast, TipOf
    <2>6. QED BY <2>3, <2>4, <2>5 DEF BootInv
<1>6. QED BY <1>3, <1>4, <1>5

\* KernelHandoff.execute and chain_append: whatever RAM, devices and drivers there are and
\* whoever appends blocks after the boot, the automaton is in the stage attested last, and
\* the chain verifies.
THEOREM BootStaysInStep == BootSpec => []BootIsInStep
<1>1. BootInit => BootInv
    <2> SUFFICES ASSUME BootInit PROVE BootInv
        OBVIOUS
    <2>1. << >> \in Seq(Nat) /\ << >> \in Seq(BootBlocks) /\ Len(<< >>) = 0 /\ DOMAIN << >> = {}
        OBVIOUS
    <2>2. BlockOf("none", 0) \in BootBlocks
        BY <2>1 DEF BlockOf, BootBlocks, BootInit
    <2>3. QED BY <2>1, <2>2
            DEF BootInit, BootInv, BootTyped, BlocksOfStages, TipIsLast, TipOf, AutomatonKeepsPace, ChainVerifies,
                Stages
<1>2. BootInv /\ [BootNext]_bootVars => BootInv'
    <2> SUFFICES ASSUME BootInv, [BootNext]_bootVars PROVE BootInv'
        OBVIOUS
    <2>1. CASE RunStage
        BY <2>1, StageKeepsStep
    <2>2. ASSUME NEW u \in BootAgents, DraftBlock(u) \/ LinkBlock(u) \/ MoveTip(u) PROVE BootInv'
        BY <2>2, ChainingKeepsStep
    <2>3. CASE UNCHANGED <<bootStage, caVars, chainVars>>
        BY <2>3, BootUntouched
    <2>4. ASSUME NEW u \in BootAgents, (\E v \in {33} : Dispatch(u, v)) \/ CountAgain(u)
          PROVE  BootInv'
        BY <2>3, <2>4 DEF Dispatch, CountAgain
    <2>5. ASSUME NEW h \in {"count", "custom"}, RegisterGate(33, h) PROVE BootInv'
        BY <2>3, <2>5 DEF RegisterGate
    <2>6. CASE UNCHANGED bootVars
        BY <2>3, <2>6 DEF bootVars
    <2>7. QED BY <2>1, <2>2, <2>4, <2>5, <2>6 DEF BootNext
<1>3. BootInv => BootIsInStep
    BY DEF BootInv, BootIsInStep
<1>4. QED BY <1>1, <1>2, <1>3, PTL DEF BootSpec

-----------------------------------------------------------------------------
(* The episodes *)

\* An episode is stored under its own number.
EpisodesNamed == \A n \in DOMAIN episodes : episodes[n][1] = n

EpisodeInv == EvictionFinds /\ EpisodesNamed

\* What an eviction leaves stored has the entries it had: the entry that goes is of an episode
\* that is no longer stored, and so are those that are popped on the way.
LEMMA EvictionLeavesEntries ==
    ASSUME EpisodeInv, NEW left, NEW rest, Evicts(left, rest), NEW n \in left
    PROVE  n \in DOMAIN episodes /\ (episodes[n] \in loaded \/ episodes[n] \in rest)
<1> DEFINE stored == {o \in heap : o[1] \in DOMAIN episodes}
<1>1. (\A k \in DOMAIN episodes : episodes[k] \in loaded \/ episodes[k] \in heap) /\ EpisodesNamed
    BY DEF EpisodeInv, EvictionFinds
<1>2. CASE stored = {} /\ left = DOMAIN episodes /\ rest = {}
    <2>1. n \in DOMAIN episodes /\ episodes[n] \notin heap
        BY <1>1, <1>2 DEF EpisodesNamed
    <2>2. QED BY <1>1, <2>1
<1>3. ASSUME NEW o \in stored, NEW gone \in SUBSET (heap \ stored),
             left = DOMAIN episodes \ {o[1]}, rest = heap \ (gone \union {o})
      PROVE  n \in DOMAIN episodes /\ (episodes[n] \in loaded \/ episodes[n] \in rest)
    <2>1. n \in DOMAIN episodes /\ n # o[1] /\ episodes[n][1] = n
        BY <1>1, <1>3 DEF EpisodesNamed
    <2>2. CASE episodes[n] \in heap
        <3>1. episodes[n] \in stored /\ episodes[n] # o
            BY <2>1, <2>2
        <3>2. QED BY <1>3, <2>1, <3>1
    <2>3. QED BY <1>1, <2>1, <2>2
<1>4. QED BY <1>2, <1>3 DEF Evicts

LEMMA RememberKeepsEntries == ASSUME EpisodeInv, NEW u \in MemoryUsers, Remember(u) PROVE EpisodeInv'
<1> DEFINE n == Cardinality({o \in DOMAIN access : o[2] = 0}) + 1
           new == Object(n, 0)
<1>1. PICK left \in SUBSET DOMAIN episodes, rest \in SUBSET heap :
          /\ IF Cardinality(DOMAIN episodes) >= Capacity THEN Evicts(left, rest)
             ELSE left = DOMAIN episodes /\ rest = heap
          /\ episodes' = [k \in left \union {n} |-> IF k = n THEN new ELSE episodes[k]]
          /\ heap' = rest \union {new}
    BY DEF Remember
<1>2. loaded' = loaded /\ new[1] = n
    BY DEF Remember, Object
<1> HIDE DEF n, new
<1>3. ASSUME NEW k \in left PROVE k \in DOMAIN episodes /\ (episodes[k] \in loaded \/ episodes[k] \in rest)
    BY <1>1, EvictionLeavesEntries DEF EpisodeInv, EvictionFinds
<1>4. ASSUME NEW k \in DOMAIN episodes'
      PROVE  episodes'[k][1] = k /\ (episodes'[k] \in loaded' \/ episodes'[k] \in heap')
    <2>1. CASE k = n
        BY <1>1, <1>2, <2>1
    <2>2. CASE k # n
        <3>1. k \in left /\ episodes'[k] = episodes[k]
            BY <1>1, <2>2
        <3>2. QED BY <1>1, <1>2, <1>3, <3>1 DEF EpisodeInv, EpisodesNamed
    <2>3. QED BY <2>1, <2>2
<1>5. QED BY <1>4 DEF EpisodeInv, EvictionFinds, EpisodesNamed

\* EpisodicMemory: whatever is touched, forgotten, pruned and loaded, in whatever order the
\* locks are taken, a stored episode can be evicted unless it came from a file.
THEOREM EvictionAlwaysFinds == EpisodicSpec => []EvictionFinds
<1>1. EpisodicInit => EpisodeInv
    BY DEF EpisodicInit, EpisodeInv, EvictionFinds, EpisodesNamed
<1>2. EpisodeInv /\ [EpisodicNext]_memoryVars => EpisodeInv'
    <2> SUFFICES ASSUME EpisodeInv, [EpisodicNext]_memoryVars PROVE EpisodeInv'
        OBVIOUS
    <2> USE DEF EpisodeInv, EvictionFinds, EpisodesNamed
    <2>1. CASE UNCHANGED <<episodes, heap, loaded>>
        BY <2>1
    <2>2. ASSUME NEW u \in MemoryUsers, Remember(u) PROVE EpisodeInv'
        BY <2>2, RememberKeepsEntries
    <2>3. ASSUME NEW left \in SUBSET DOMAIN episodes, episodes' = Keeps(episodes, left),
                 UNCHANGED <<heap, loaded>>
          PROVE  EpisodeInv'
        BY <2>3 DEF Keeps
    <2>4. ASSUME NEW u \in MemoryUsers, Forget(u) PROVE EpisodeInv'
        <3>1. PICK n \in DOMAIN episodes : episodes' = Keeps(episodes, DOMAIN episodes \ {n})
            BY <2>4 DEF Forget
        <3>2. QED BY <2>3, <2>4, <3>1 DEF Forget
    <2>5. ASSUME NEW u \in MemoryUsers, SleepPrunes(u) PROVE EpisodeInv'
        <3>1. PICK left \in SUBSET DOMAIN episodes : episodes' = Keeps(episodes, left)
            BY <2>5 DEF SleepPrunes
        <3>2. QED BY <2>3, <2>5, <3>1 DEF SleepPrunes
    <2>6. ASSUME NEW u \in MemoryUsers, LoadEpisodes(u) PROVE EpisodeInv'
        <3>1. /\ episodes' = [n \in DOMAIN episodes \union DOMAIN snapshot |->
                                IF n \in DOMAIN snapshot THEN Object(n, episodeLoads + 1) ELSE episodes[n]]
              /\ loaded' = loaded \union {Object(n, episodeLoads + 1) : n \in DOMAIN snapshot} /\ heap' = heap
            BY <2>6 DEF LoadEpisodes
        <3>2. \A n : Object(n, episodeLoads + 1)[1] = n
            BY DEF Object
        <3>3. ASSUME NEW n \in DOMAIN episodes'
              PROVE  episodes'[n][1] = n /\ (episodes'[n] \in loaded' \/ episodes'[n] \in heap')
            <4>1. CASE n \in DOMAIN snapshot
                BY <3>1, <3>2, <4>1
            <4>2. CASE n \notin DOMAIN snapshot
                BY <3>1, <4>2
            <4>3. QED BY <4>1, <4>2
        <3>4. QED BY <3>3
    <2>7. ASSUME NEW u \in MemoryUsers, Touch(u) PROVE EpisodeInv'
        BY <2>7 DEF Touch
    <2>8. ASSUME NEW u \in MemoryUsers,
                 \/ Recall(u) \/ SleepPromotes(u) \/ Save(u) \/ RememberIndexes(u)
                 \/ ForgetUnindexes(u) \/ SleepRebuilds(u)
          PROVE  EpisodeInv'
        <3>1. UNCHANGED <<episodes, heap, loaded>>
            BY <2>8 DEF Recall, SleepPromotes, Save, RememberIndexes, ForgetUnindexes, SleepRebuilds
        <3>2. QED BY <2>1, <3>1
    <2>9. CASE Fade
        BY <2>1, <2>9 DEF Fade
    <2>10. CASE UNCHANGED memoryVars
        BY <2>1, <2>10 DEF memoryVars
    <2>11. QED BY <2>2, <2>4, <2>5, <2>6, <2>7, <2>8, <2>9, <2>10 DEF EpisodicNext
<1>3. QED BY <1>1, <1>2, PTL DEF EpisodicSpec, EpisodeInv

-----------------------------------------------------------------------------
(* The working memory *)

WindowInv ==
    /\ observed \in Nat /\ slots \in Seq(Nat) /\ Len(slots) <= SlotCapacity
    /\ weight \in Seq(Nat) /\ Len(weight) = observed
    /\ attending \in [Attenders -> Seq(Nat)]
    /\ unattended \in SUBSET Nat
    /\ \A i \in DOMAIN slots : slots[i] \in 1..observed
    /\ \A i, j \in DOMAIN slots : i < j => slots[i] < slots[j]
    /\ \A u \in Attenders : \A i \in DOMAIN attending[u] :
         attending[u][i] <= observed /\ (i \in DOMAIN slots => attending[u][i] <= slots[i])
    /\ WeightsAreNotNewer

LEMMA ObserveKeeps == ASSUME WindowInv, Observe PROVE WindowInv'
<1> DEFINE old == IF Len(slots) = SlotCapacity THEN Tail(slots) ELSE slots
           drop == IF Len(slots) = SlotCapacity THEN 1 ELSE 0
<1>1. /\ observed \in Nat /\ slots \in Seq(Nat) /\ Len(slots) <= SlotCapacity /\ SlotCapacity \in Nat \ {0}
      /\ observed' = observed + 1 /\ slots' = old \o <<observed + 1>> /\ weight' = Append(weight, 0)
      /\ UNCHANGED <<attending, unattended>>
    BY WorkingMemoryAssumption DEF WindowInv, Observe
<1>2. /\ old \in Seq(Nat) /\ Len(old) = Len(slots) - drop /\ drop \in 0..1 /\ Len(old) < SlotCapacity
      /\ \A i \in 1..Len(old) : old[i] = slots[i + drop] /\ i + drop \in 1..Len(slots)
    BY <1>1
<1> HIDE DEF old
<1>3. /\ slots' \in Seq(Nat) /\ Len(slots') = Len(old) + 1 /\ DOMAIN slots' = 1..Len(old) + 1
      /\ \A i \in 1..Len(old) + 1 : slots'[i] = IF i <= Len(old) THEN slots[i + drop] ELSE observed + 1
    BY <1>1, <1>2
<1>4. \A i \in 1..Len(slots) : slots[i] \in 1..observed
    BY <1>1 DEF WindowInv
<1>5. \A i, j \in 1..Len(slots) : i < j => slots[i] < slots[j]
    <2>1. DOMAIN slots = 1..Len(slots)
        BY <1>1
    <2>2. \A i, j \in DOMAIN slots : i < j => slots[i] < slots[j]
        BY DEF WindowInv
    <2>3. QED BY <2>1, <2>2
<1>6. \A i \in DOMAIN slots' : slots'[i] \in 1..observed'
    <2> SUFFICES ASSUME NEW i \in 1..Len(old) + 1 PROVE slots'[i] \in 1..observed'
        BY <1>3
    <2>1. CASE i <= Len(old)
        <3>1. slots'[i] = slots[i + drop] /\ i + drop \in 1..Len(slots)
            BY <1>2, <1>3, <2>1
        <3>2. slots[i + drop] \in 1..observed
            BY <1>4, <3>1
        <3>3. observed \in Nat /\ observed' = observed + 1
            BY <1>1
        <3>4. QED BY <3>1, <3>2, <3>3
    <2>2. CASE ~(i <= Len(old))
        <3>1. slots'[i] = observed + 1 /\ observed \in Nat
            BY <1>1, <1>3, <2>2
        <3>2. QED BY <1>1, <3>1
    <2>3. QED BY <2>1, <2>2
<1>7. \A i, j \in DOMAIN slots' : i < j => slots'[i] < slots'[j]
    <2> SUFFICES ASSUME NEW i \in 1..Len(old) + 1, NEW j \in 1..Len(old) + 1, i < j PROVE slots'[i] < slots'[j]
        BY <1>3
    <2> DEFINE k == Len(old)
    <2>1. k \in Nat /\ drop \in Nat
        BY <1>2
    <2> HIDE DEF k, drop
    <2>2. i \in 1..k /\ i \in 1..k + 1 /\ i <= k /\ (j <= k => j \in 1..k) /\ i + drop < j + drop
        BY <2>1 DEF k
    <2>3. slots'[i] = slots[i + drop] /\ i + drop \in 1..Len(slots)
        BY <1>2, <1>3, <2>2 DEF k
    <2>4. CASE j <= k
        <3>1. slots'[j] = slots[j + drop] /\ j + drop \in 1..Len(slots)
            BY <1>2, <1>3, <2>2, <2>4 DEF k
        <3>2. slots[i + drop] < slots[j + drop]
            BY <1>5, <2>2, <2>3, <3>1
        <3>3. QED BY <2>3, <3>1, <3>2
    <2>5. CASE ~(j <= k)
        <3>1. slots'[j] = observed + 1
            BY <1>3, <2>5 DEF k
        <3>2. slots[i + drop] \in 1..observed
            BY <1>4, <2>3
        <3>3. slots[i + drop] < observed + 1
            BY <1>1, <3>2
        <3>4. QED BY <2>3, <3>1, <3>3
    <2>6. QED BY <2>4, <2>5
<1>8. ASSUME NEW u \in Attenders, NEW i \in DOMAIN attending[u]
      PROVE  attending[u][i] <= observed' /\ (i \in DOMAIN slots' => attending[u][i] <= slots'[i])
    <2>1. attending[u][i] \in Nat /\ i \in Nat \ {0} /\ attending[u][i] <= observed
        BY DEF WindowInv
    <2>2. i \in 1..Len(slots) => attending[u][i] <= slots[i]
        <3>1. DOMAIN slots = 1..Len(slots)
            BY <1>1
        <3>2. i \in DOMAIN slots => attending[u][i] <= slots[i]
            BY DEF WindowInv
        <3>3. QED BY <3>1, <3>2
    <2>3. ASSUME i \in 1..Len(old) + 1 PROVE attending[u][i] <= slots'[i]
        <3>1. CASE i <= Len(old)
            <4>1. slots'[i] = slots[i + drop] /\ i + drop \in 1..Len(slots) /\ i \in 1..Len(slots)
                <5>1. i \in 1..Len(old) /\ Len(old) \in Nat /\ Len(slots) \in Nat
                    BY <1>1, <1>2, <2>3, <3>1
                <5>2. slots'[i] = slots[i + drop] /\ i + drop \in 1..Len(slots)
                    BY <1>2, <1>3, <2>3, <3>1, <5>1
                <5>3. QED BY <1>2, <5>1, <5>2
            <4>2. slots[i] <= slots[i + drop]
                <5>1. CASE drop = 0
                    BY <1>4, <4>1, <5>1
                <5>2. CASE drop = 1
                    <6>1. i < i + drop
                        BY <2>1, <5>2
                    <6>2. slots[i] < slots[i + drop] /\ slots[i] \in Int /\ slots[i + drop] \in Int
                        BY <1>4, <1>5, <4>1, <6>1
                    <6>3. QED BY <6>2
                <5>3. QED BY <1>2, <5>1, <5>2
            <4>3. slots[i] \in Nat /\ slots[i + drop] \in Nat
                BY <1>4, <4>1
            <4>4. QED BY <2>1, <2>2, <4>1, <4>2, <4>3
        <3>2. CASE ~(i <= Len(old))
            BY <1>1, <1>3, <2>1, <2>3, <3>2
        <3>3. QED BY <3>1, <3>2
    <2>4. QED BY <1>1, <1>3, <2>1, <2>3
<1>9. /\ weight' \in Seq(Nat) /\ Len(weight') = observed' /\ WeightsAreNotNewer'
    <2>1. weight \in Seq(Nat) /\ Len(weight) = observed /\ WeightsAreNotNewer
        BY DEF WindowInv
    <2>2. weight' \in Seq(Nat) /\ Len(weight') = observed' /\ DOMAIN weight' = 1..observed + 1
          /\ \A s \in 1..observed + 1 : weight'[s] = IF s <= observed THEN weight[s] ELSE 0
        BY <1>1, <2>1
    <2>3. \A s \in 1..observed : weight[s] <= s
        BY <2>1 DEF WeightsAreNotNewer
    <2>4. \A s \in 1..observed + 1 : weight'[s] <= s
        BY <1>1, <2>2, <2>3
    <2>5. QED BY <1>1, <2>1, <2>2, <2>4 DEF WeightsAreNotNewer
<1>10. Len(slots') <= SlotCapacity /\ observed' \in Nat
    BY <1>1, <1>2, <1>3
<1>11. attending' \in [Attenders -> Seq(Nat)] /\ unattended' \in SUBSET Nat
    BY <1>1 DEF WindowInv
<1>12. QED BY <1>1, <1>3, <1>6, <1>7, <1>8, <1>9, <1>10, <1>11 DEF WindowInv

LEMMA AttendWritesKeeps == ASSUME WindowInv, NEW u \in Attenders, AttendWrites(u) PROVE WindowInv'
<1>1. /\ attending[u] # << >> /\ attending' = [attending EXCEPT ![u] = << >>]
      /\ weight' = [s \in DOMAIN weight |->
                      IF \E i \in DOMAIN slots \cap DOMAIN attending[u] : slots[i] = s
                      THEN attending[u][CHOOSE i \in DOMAIN slots : slots[i] = s] ELSE weight[s]]
      /\ unattended' = (IF Len(slots) > Len(attending[u]) THEN unattended \union {Len(attending[u])} ELSE unattended)
      /\ UNCHANGED <<slots, observed>>
    BY DEF AttendWrites
<1>2. ASSUME NEW s \in DOMAIN weight PROVE weight'[s] \in Nat /\ weight'[s] <= s
    <2>1. CASE \E i \in DOMAIN slots \cap DOMAIN attending[u] : slots[i] = s
        <3>1. PICK i \in DOMAIN slots \cap DOMAIN attending[u] : slots[i] = s
            BY <2>1
        <3> DEFINE k == CHOOSE k \in DOMAIN slots : slots[k] = s
        <3>2. k \in DOMAIN slots /\ slots[k] = s
            BY <3>1
        <3>3. k = i
            <4>1. \A a, b \in DOMAIN slots : a < b => slots[a] < slots[b]
                BY DEF WindowInv
            <4>2. slots[i] = slots[k] /\ slots[i] \in Int /\ i \in Int /\ k \in Int
                BY <3>1, <3>2 DEF WindowInv
            <4> HIDE DEF k
            <4>3. QED BY <3>1, <3>2, <4>1, <4>2
        <3>4. weight'[s] = attending[u][i]
            BY <1>1, <2>1, <3>3
        <3>5. attending[u][i] \in Nat /\ attending[u][i] <= slots[i]
            BY <3>1 DEF WindowInv
        <3>6. QED BY <3>1, <3>4, <3>5
    <2>2. CASE ~(\E i \in DOMAIN slots \cap DOMAIN attending[u] : slots[i] = s)
        BY <1>1, <2>2 DEF WindowInv, WeightsAreNotNewer
    <2>3. QED BY <2>1, <2>2
<1>3. weight' \in Seq(Nat) /\ Len(weight') = observed /\ DOMAIN weight' = DOMAIN weight
    <2>1. weight \in Seq(Nat) /\ Len(weight) = observed /\ DOMAIN weight = 1..observed /\ observed \in Nat
        BY DEF WindowInv
    <2>2. DOMAIN weight' = 1..observed
        BY <1>1, <2>1
    <2>3. weight' = [s \in 1..observed |-> weight'[s]]
        BY <1>1, <2>1
    <2>4. weight' \in [1..observed -> Nat]
        BY <1>2, <2>1, <2>3
    <2>5. QED BY <2>1, <2>2, <2>4
<1>4. unattended' \in SUBSET Nat /\ \A n \in unattended' : n < SlotCapacity
    <2>1. /\ unattended \in SUBSET Nat /\ \A n \in unattended : n < SlotCapacity
          /\ Len(slots) \in Nat /\ Len(slots) <= SlotCapacity /\ Len(attending[u]) \in Nat
        BY DEF WindowInv, WeightsAreNotNewer
    <2>2. SlotCapacity \in Nat
        BY WorkingMemoryAssumption
    <2>3. CASE Len(slots) > Len(attending[u])
        <3>1. unattended' = unattended \union {Len(attending[u])} /\ Len(attending[u]) < SlotCapacity
            BY <1>1, <2>1, <2>2, <2>3
        <3>2. QED BY <2>1, <3>1
    <2>4. CASE ~(Len(slots) > Len(attending[u]))
        BY <1>1, <2>1, <2>4
    <2>5. QED BY <2>3, <2>4
<1>5. attending' \in [Attenders -> Seq(Nat)] /\ attending'[u] = << >>
      /\ \A v \in Attenders \ {u} : attending'[v] = attending[v]
    BY <1>1 DEF WindowInv
<1>6. ASSUME NEW v \in Attenders, NEW i \in DOMAIN attending'[v]
      PROVE  attending'[v][i] <= observed /\ (i \in DOMAIN slots => attending'[v][i] <= slots[i])
    <2>1. v # u
        BY <1>5, <1>6
    <2>2. QED BY <1>5, <2>1 DEF WindowInv
<1>7. WeightsAreNotNewer'
    BY <1>2, <1>3, <1>4 DEF WeightsAreNotNewer
<1>8. QED BY <1>1, <1>3, <1>4, <1>5, <1>6, <1>7 DEF WindowInv

\* WorkingMemory.attend: whatever is pushed and cleared between its two sections, a slot's
\* weight is not of a later observation, and only a growing window makes it fail.
THEOREM WeightsAreNeverNewer == WindowInit /\ [][WindowNext]_windowVars => []WeightsAreNotNewer
<1>1. WindowInit => WindowInv
    BY WorkingMemoryAssumption DEF WindowInit, WindowInv, WeightsAreNotNewer
<1>2. WindowInv /\ [WindowNext]_windowVars => WindowInv'
    <2> SUFFICES ASSUME WindowInv, [WindowNext]_windowVars PROVE WindowInv'
        OBVIOUS
    <2>1. CASE Observe
        BY <2>1, ObserveKeeps
    <2>2. CASE ClearWindow
        <3>1. slots' = << >> /\ UNCHANGED <<observed, weight, attending, unattended>>
            BY <2>2 DEF ClearWindow
        <3>2. QED BY <3>1, WorkingMemoryAssumption DEF WindowInv, WeightsAreNotNewer
    <2>3. ASSUME NEW u \in Attenders, AttendReads(u) PROVE WindowInv'
        <3>1. attending' = [attending EXCEPT ![u] = slots] /\ UNCHANGED <<slots, observed, weight, unattended>>
            BY <2>3 DEF AttendReads
        <3>2. attending' \in [Attenders -> Seq(Nat)]
            BY <3>1 DEF WindowInv
        <3>3. ASSUME NEW v \in Attenders, NEW i \in DOMAIN attending'[v]
              PROVE  attending'[v][i] <= observed /\ (i \in DOMAIN slots => attending'[v][i] <= slots[i])
            <4>1. CASE v = u
                <5>1. attending'[v] = slots /\ slots[i] \in 1..observed
                    BY <3>1, <3>3, <4>1 DEF WindowInv
                <5>2. QED BY <5>1
            <4>2. CASE v # u
                BY <3>1, <3>3, <4>2 DEF WindowInv
            <4>3. QED BY <4>1, <4>2
        <3>4. WeightsAreNotNewer'
            BY <3>1 DEF WindowInv, WeightsAreNotNewer
        <3>5. QED BY <3>1, <3>2, <3>3, <3>4 DEF WindowInv
    <2>4. ASSUME NEW u \in Attenders, AttendWrites(u) PROVE WindowInv'
        BY <2>4, AttendWritesKeeps
    <2>5. CASE UNCHANGED windowVars
        BY <2>5 DEF windowVars, WindowInv, WeightsAreNotNewer
    <2>6. QED BY <2>1, <2>2, <2>3, <2>4, <2>5 DEF WindowNext
<1>3. QED BY <1>1, <1>2, PTL DEF WindowInv

-----------------------------------------------------------------------------
(* The replay buffer and the target network *)

\* The next position in a ring, and the multiples of a period.
LEMMA NextInRing ==
    ASSUME NEW R \in Nat \ {0}, NEW p \in 0..R - 1
    PROVE  (p + 1) % R = IF p + 1 = R THEN 0 ELSE p + 1
<1>1. CASE p + 1 = R
    BY <1>1
<1>2. CASE p + 1 # R
    <2>1. p + 1 \in 0..R - 1
        BY <1>2
    <2>2. QED BY <1>2, <2>1
<1>3. QED BY <1>1, <1>2

LEMMA PeriodLater ==
    ASSUME NEW P \in Nat \ {0}, NEW n \in Nat, n % P = 0
    PROVE  (n + P) % P = 0
<1> DEFINE q == n \div P
           a == (n + P) \div P
           r == (n + P) % P
<1>1. n = P * q /\ q \in Int
    OBVIOUS
<1>2. n + P = P * a + r /\ a \in Int /\ r \in 0..P - 1
    OBVIOUS
<1> HIDE DEF q, a, r
<1>3. r = P * (q + 1 - a)
    BY <1>1, <1>2
<1> DEFINE k == q + 1 - a
<1>4. k \in Int /\ r = P * k /\ r >= 0 /\ r < P
    BY <1>1, <1>2, <1>3
<1> HIDE DEF k
<1>5. CASE k <= -1
    <2>1. P * k <= P * (-1)
        BY <1>4, <1>5
    <2>2. QED BY <1>4, <2>1
<1>6. CASE k >= 1
    <2>1. P * k >= P
        BY <1>4, <1>6
    <2>2. QED BY <1>4, <2>1
<1>7. CASE k = 0
    BY <1>4, <1>7 DEF r
<1>8. QED BY <1>4, <1>5, <1>6, <1>7

DqnTyped ==
    /\ dqnSteps \in Nat /\ bufferPos \in 0..RingSize - 1 /\ bufferFill \in 0..RingSize
    /\ DOMAIN buffer = 0..RingSize - 1
    /\ online \in Nat /\ target \in Nat

\* Each slot below the fill holds the step that many pushes ago; the ring fills from slot 0.
RingIsRecent ==
    /\ bufferFill <= dqnSteps
    /\ bufferFill < RingSize => bufferPos = bufferFill
    /\ \A i \in 0..bufferFill - 1 :
         buffer[i] = dqnSteps - bufferPos + 1 + i - (IF i < bufferPos THEN 0 ELSE RingSize)

\* The networks start to learn together, and the target was copied at a multiple of the period.
TargetTrails ==
    /\ bufferFill < BatchSize => batch = {} /\ target = 0
    /\ target # 0 => online = dqnSteps /\ target % SyncEvery = 0 /\ target <= online

DqnInv == DqnTyped /\ RingIsRecent /\ TargetTrails /\ LearnsFromRecent

\* One push into a ring of R slots, from the position p and the fill f to q and g: the slots
\* below the new fill again hold the latest steps, each at its age.
LEMMA PushIsRecent ==
    ASSUME NEW R \in Nat \ {0}, NEW n \in Nat, NEW old, NEW new,
           NEW p \in 0..R - 1, NEW q \in 0..R - 1, q = (IF p + 1 = R THEN 0 ELSE p + 1),
           NEW f \in 0..R, NEW g \in 1..R, g = (IF f < R THEN f + 1 ELSE R),
           f <= n, f < R => p = f,
           \A i \in 0..R - 1 : new[i] = IF i = p THEN n + 1 ELSE old[i],
           \A i \in 0..f - 1 : old[i] = n - p + 1 + i - (IF i < p THEN 0 ELSE R)
    PROVE  /\ g <= n + 1 /\ (g < R => q = g)
           /\ \A i \in 0..g - 1 : /\ i \in 0..R - 1
                                  /\ new[i] = (n + 1) - q + 1 + i - (IF i < q THEN 0 ELSE R)
                                  /\ new[i] \in 1..n + 1 /\ new[i] > (n + 1) - R
<1>1. g <= n + 1 /\ (g < R => q = g)
    OBVIOUS
<1>2. ASSUME NEW i \in 0..g - 1
      PROVE  i \in 0..R - 1 /\ new[i] = (n + 1) - q + 1 + i - (IF i < q THEN 0 ELSE R)
    <2>1. i \in 0..R - 1
        OBVIOUS
    <2>2. CASE i = p
        <3>1. new[i] = n + 1
            BY <2>1, <2>2
        <3>2. (IF i < q THEN 0 ELSE R) = p + 1 - q
            BY <2>2
        <3>3. QED BY <2>1, <2>2, <3>1, <3>2
    <2>3. CASE i # p
        <3>1. i \in 0..f - 1 /\ new[i] = old[i]
            BY <2>1, <2>3
        <3>2. new[i] = n - p + 1 + i - (IF i < p THEN 0 ELSE R)
            BY <3>1
        <3>3. CASE p + 1 = R
            BY <2>1, <2>3, <3>2, <3>3
        <3>4. CASE p + 1 # R
            BY <2>1, <2>3, <3>2, <3>4
        <3>5. QED BY <3>3, <3>4
    <2>4. QED BY <2>1, <2>2, <2>3
<1>3. ASSUME NEW i \in 0..g - 1 PROVE new[i] \in 1..n + 1 /\ new[i] > (n + 1) - R
    <2>1. new[i] = (n + 1) - q + 1 + i - (IF i < q THEN 0 ELSE R)
        BY <1>2
    <2>2. CASE i < q
        BY <1>1, <2>1, <2>2
    <2>3. CASE ~(i < q)
        <3>1. g = R
            BY <1>1, <2>3
        <3>2. QED BY <1>1, <2>1, <2>3, <3>1
    <2>4. QED BY <2>2, <2>3
<1>4. QED BY <1>1, <1>2, <1>3

LEMMA DqnStepKeeps == ASSUME DqnInv, DqnStep PROVE DqnInv'
<1>1. /\ dqnSteps \in Nat /\ bufferPos \in 0..RingSize - 1 /\ bufferFill \in 0..RingSize
      /\ DOMAIN buffer = 0..RingSize - 1 /\ online \in Nat /\ target \in Nat
      /\ RingSize \in Nat \ {0} /\ BatchSize \in Nat \ {0} /\ SyncEvery \in Nat \ {0}
      /\ bufferFill <= dqnSteps /\ (bufferFill < RingSize => bufferPos = bufferFill)
    BY DeepQAssumption DEF DqnInv, DqnTyped, RingIsRecent
<1>2. /\ dqnSteps' = dqnSteps + 1
      /\ buffer' = Pushed /\ bufferFill' = Filled /\ bufferPos' = (bufferPos + 1) % RingSize
      /\ bufferFill' = IF bufferFill < RingSize THEN bufferFill + 1 ELSE RingSize
    BY DEF DqnStep, Filled
<1>3. /\ bufferPos' = IF bufferPos + 1 = RingSize THEN 0 ELSE bufferPos + 1
      /\ bufferPos' \in 0..RingSize - 1 /\ bufferFill' \in 1..RingSize
    BY <1>1, <1>2, NextInRing
<1>4. /\ DOMAIN buffer' = 0..RingSize - 1
      /\ \A i \in 0..RingSize - 1 : buffer'[i] = IF i = bufferPos THEN dqnSteps + 1 ELSE buffer[i]
    BY <1>1, <1>2 DEF Pushed
<1>5. /\ bufferFill' <= dqnSteps' /\ (bufferFill' < RingSize => bufferPos' = bufferFill')
      /\ \A i \in 0..bufferFill' - 1 :
            /\ i \in 0..RingSize - 1
            /\ buffer'[i] = dqnSteps' - bufferPos' + 1 + i - (IF i < bufferPos' THEN 0 ELSE RingSize)
            /\ buffer'[i] \in 1..dqnSteps' /\ buffer'[i] > dqnSteps' - RingSize
    <2>1. \A i \in 0..bufferFill - 1 :
             buffer[i] = dqnSteps - bufferPos + 1 + i - (IF i < bufferPos THEN 0 ELSE RingSize)
        BY DEF DqnInv, RingIsRecent
    <2>2. PICK q \in 0..RingSize - 1, g \in 1..RingSize : q = bufferPos' /\ g = bufferFill'
        BY <1>3
    <2>3. PICK new : new = buffer'
        OBVIOUS
    <2>4. /\ q = (IF bufferPos + 1 = RingSize THEN 0 ELSE bufferPos + 1)
          /\ g = (IF bufferFill < RingSize THEN bufferFill + 1 ELSE RingSize)
          /\ \A i \in 0..RingSize - 1 : new[i] = IF i = bufferPos THEN dqnSteps + 1 ELSE buffer[i]
        BY <1>2, <1>3, <1>4, <2>2, <2>3
    <2>5. /\ g <= dqnSteps + 1 /\ (g < RingSize => q = g)
          /\ \A i \in 0..g - 1 :
                /\ i \in 0..RingSize - 1
                /\ new[i] = (dqnSteps + 1) - q + 1 + i - (IF i < q THEN 0 ELSE RingSize)
                /\ new[i] \in 1..dqnSteps + 1 /\ new[i] > (dqnSteps + 1) - RingSize
        BY <1>1, <2>1, <2>4, PushIsRecent
    <2>6. QED BY <1>2, <2>2, <2>3, <2>5
<1>6. RingIsRecent'
    BY <1>5 DEF RingIsRecent
<1>7. \A i \in 0..bufferFill' - 1 : buffer'[i] \in 1..dqnSteps' /\ buffer'[i] > dqnSteps' - RingSize
    BY <1>5
<1>8. CASE Filled >= BatchSize
    <2>1. PICK drawn \in SUBSET Slots(Filled) : batch' = {Pushed[i] : i \in drawn}
        BY <1>8 DEF DqnStep
    <2>2. /\ online' = dqnSteps + 1
          /\ target' = (IF (dqnSteps + 1) % SyncEvery = 0 THEN dqnSteps + 1 ELSE target)
        BY <1>8 DEF DqnStep
    <2>3. \A step \in batch' : step \in 1..dqnSteps' /\ step > dqnSteps' - RingSize
        BY <1>2, <1>7, <2>1 DEF Slots
    <2>4. ASSUME target' # 0
          PROVE  /\ target' % SyncEvery = 0 /\ target' \in Nat /\ target' <= online'
                 /\ online' - target' < SyncEvery
        <3>1. CASE (dqnSteps + 1) % SyncEvery = 0
            BY <1>1, <2>2, <3>1
        <3>2. CASE (dqnSteps + 1) % SyncEvery # 0
            <4>1. target' = target /\ target # 0
                BY <2>2, <2>4, <3>2
            <4>2. online = dqnSteps /\ target % SyncEvery = 0 /\ target <= online /\ online - target < SyncEvery
                BY <4>1 DEF DqnInv, TargetTrails, LearnsFromRecent
            <4>3. dqnSteps + 1 # target + SyncEvery
                BY <1>1, <3>2, <4>2, PeriodLater
            <4>4. QED BY <1>1, <2>2, <4>1, <4>2, <4>3
        <3>3. QED BY <3>1, <3>2
    <2>5. TargetTrails' /\ LearnsFromRecent' /\ online' \in Nat /\ target' \in Nat
        <3>1. ~(bufferFill' < BatchSize)
            BY <1>1, <1>2, <1>3, <1>8
        <3>2. online' = dqnSteps' /\ online' \in Nat /\ target' \in Nat
            BY <1>1, <1>2, <2>2
        <3>3. QED BY <2>3, <2>4, <3>1, <3>2 DEF TargetTrails, LearnsFromRecent
    <2>6. QED BY <1>1, <1>2, <1>3, <1>4, <1>6, <2>5 DEF DqnInv, DqnTyped
<1>9. CASE ~(Filled >= BatchSize)
    <2>1. UNCHANGED <<batch, online, target>>
        BY <1>9 DEF DqnStep
    <2>2. bufferFill < BatchSize /\ bufferFill' < BatchSize
        BY <1>1, <1>2, <1>9
    <2>3. batch' = {} /\ target' = 0
        BY <2>1, <2>2 DEF DqnInv, TargetTrails
    <2>4. TargetTrails' /\ LearnsFromRecent' /\ online' \in Nat /\ target' \in Nat
        BY <1>1, <2>1, <2>3 DEF TargetTrails, LearnsFromRecent
    <2>5. QED BY <1>1, <1>2, <1>3, <1>4, <1>6, <2>4 DEF DqnInv, DqnTyped
<1>10. QED BY <1>8, <1>9

\* ReplayBuffer.sample and DQN.step, for every size of ring, batch and period: a batch is of
\* transitions that are not older than the ring is long, and the target network trails the
\* online one by less than a period.
THEOREM BatchesAlwaysRecent == DqnSpec => []LearnsFromRecent
<1>1. DqnInit => DqnInv
    BY DeepQAssumption DEF DqnInit, DqnInv, DqnTyped, RingIsRecent, TargetTrails, LearnsFromRecent
<1>2. DqnInv /\ [DqnStep]_dqnVars => DqnInv'
    <2> SUFFICES ASSUME DqnInv, [DqnStep]_dqnVars PROVE DqnInv'
        OBVIOUS
    <2>1. CASE UNCHANGED dqnVars
        <3>1. DqnTyped' /\ RingIsRecent'
            BY <2>1 DEF dqnVars, DqnInv, DqnTyped, RingIsRecent
        <3>2. TargetTrails' /\ LearnsFromRecent'
            BY <2>1 DEF dqnVars, DqnInv, TargetTrails, LearnsFromRecent
        <3>3. QED BY <3>1, <3>2 DEF DqnInv
    <2>2. QED BY <2>1, DqnStepKeeps
<1>3. QED BY <1>1, <1>2, PTL DEF DqnSpec, DqnInv

-----------------------------------------------------------------------------
(* The feedback loop *)

\* The rest of a sequence from the (n+1)-st element on.
LEMMA RestOfSeq ==
    ASSUME NEW S, NEW s \in Seq(S), NEW n \in 0..Len(s)
    PROVE  /\ SubSeq(s, n + 1, Len(s)) \in Seq(S) /\ Len(SubSeq(s, n + 1, Len(s))) = Len(s) - n
           /\ \A i \in 1..Len(s) - n : SubSeq(s, n + 1, Len(s))[i] = s[n + i]
<1>1. Len(s) \in Nat /\ n + 1 \in Int /\ \A i \in n + 1..Len(s) : s[i] \in S
    OBVIOUS
<1> DEFINE r == SubSeq(s, n + 1, Len(s))
<1>2. /\ r \in Seq(S) /\ Len(r) = IF n + 1 <= Len(s) THEN Len(s) - (n + 1) + 1 ELSE 0
      /\ \A i \in 1..Len(s) - (n + 1) + 1 : r[i] = s[n + 1 + i - 1]
    BY <1>1, SubSeqProperties
<1> HIDE DEF r
<1>3. Len(r) = Len(s) - n /\ \A i \in 1..Len(s) - n : r[i] = s[n + i]
    BY <1>1, <1>2
<1>4. QED BY <1>2, <1>3 DEF r

LEMMA Regrouped ==
    ASSUME NEW a \in Seq(Nat), NEW b \in Seq(Nat), NEW c \in Seq(Nat)
    PROVE  (a \o b) \o c = a \o (b \o c)
BY ConcatAssociative, SMTT(30)

EndsWith(s, t) == Len(s) <= Len(t) /\ \A i \in 1..Len(s) : s[i] = t[Len(t) - Len(s) + i]

LEMMA ReverseIs ==
    ASSUME NEW s \in Seq(Nat)
    PROVE  /\ Reverse(s) \in Seq(Nat) /\ Len(Reverse(s)) = Len(s)
           /\ \A i \in 1..Len(s) : Reverse(s)[i] = s[Len(s) - i + 1]
<1> DEFINE n == Len(s)
           r == [i \in 1..n |-> s[n - i + 1]]
<1>1. n \in Nat /\ Reverse(s) = r
    BY DEF Reverse
<1> HIDE DEF n
<1>2. ASSUME NEW i \in 1..n PROVE s[n - i + 1] \in Nat
    <2>1. n - i + 1 \in 1..n
        BY <1>1
    <2>2. n - i + 1 \in 1..Len(s)
        BY <2>1 DEF n
    <2>3. QED BY <2>2, ElementOfSeq
<1>3. r \in [1..n -> Nat] /\ \A i \in 1..n : r[i] = s[n - i + 1]
    BY <1>2
<1> HIDE DEF r
<1>4. r \in Seq(Nat) /\ Len(r) = n
    BY <1>1, <1>3
<1>5. QED BY <1>1, <1>3, <1>4 DEF n

LEMMA SuffixIs ==
    ASSUME NEW s \in Seq(Nat), NEW t \in Seq(Nat), EndsWith(s, t)
    PROVE  IsSuffix(s, t)
<1> DEFINE a == Reverse(s)
           b == Reverse(t)
<1>1. /\ Len(s) \in Nat /\ Len(t) \in Nat /\ Len(s) <= Len(t)
      /\ \A i \in 1..Len(s) : s[i] = t[Len(t) - Len(s) + i]
    BY DEF EndsWith
<1>2. /\ a \in Seq(Nat) /\ Len(a) = Len(s) /\ \A i \in 1..Len(s) : a[i] = s[Len(s) - i + 1]
      /\ b \in Seq(Nat) /\ Len(b) = Len(t) /\ \A i \in 1..Len(t) : b[i] = t[Len(t) - i + 1]
    BY ReverseIs
<1>3. ASSUME NEW i \in 1..Len(s) PROVE a[i] = b[i]
    <2>1. Len(s) - i + 1 \in 1..Len(s) /\ i \in 1..Len(t)
        BY <1>1
    <2>2. Len(t) - Len(s) + (Len(s) - i + 1) = Len(t) - i + 1
        BY <1>1
    <2>3. s[Len(s) - i + 1] = t[Len(t) - i + 1]
        BY <1>1, <2>1, <2>2
    <2>4. QED BY <1>2, <2>1, <2>3
<1> HIDE DEF a, b
<1>4. SubSeq(a, 1, Len(a)) = SubSeq(b, 1, Len(a)) /\ Len(a) <= Len(b)
    <2> DEFINE n == Len(a)
               c == SubSeq(b, 1, n)
    <2>1. n <= Len(b) /\ n \in Nat /\ Len(b) \in Nat /\ n = Len(s)
        BY <1>1, <1>2
    <2>2. SubSeq(a, 1, n) = a
        BY <1>2, SubSeqFull
    <2> HIDE DEF n
    <2>3. \A i \in 1..n : b[i] \in Nat
        <3>1. ASSUME NEW i \in 1..n PROVE b[i] \in Nat
            <4>1. i \in 1..Len(b)
                BY <2>1
            <4>2. QED BY <1>2, <4>1, ElementOfSeq
        <3>2. QED BY <3>1
    <2>4. /\ c \in Seq(Nat) /\ Len(c) = IF 1 <= n THEN n - 1 + 1 ELSE 0
          /\ \A i \in 1..n - 1 + 1 : c[i] = b[1 + i - 1]
        BY <2>1, <2>3, SubSeqProperties
    <2>5. Len(c) = n /\ \A i \in 1..n : c[i] = b[i]
        BY <2>1, <2>4
    <2> HIDE DEF c
    <2>6. a = c
        BY <1>2, <1>3, <2>1, <2>4, <2>5, SeqEqual DEF n
    <2>7. QED BY <2>1, <2>2, <2>6 DEF n, c
<1>5. QED BY <1>4 DEF IsSuffix, IsPrefix, a, b

Rounds == {Resting, [at |-> "train"]} \cup [at : {"pulled"}, new : Seq(Nat)]

BufferInv ==
    /\ traced \in Nat /\ traceCursor \in Nat
    /\ buffered \in Seq(Nat) /\ ingested \in Seq(Nat) /\ trainedOn \in Seq(Nat)
    /\ round \in [Workers -> Rounds]
    /\ Len(trainedOn) + Len(buffered) <= Len(ingested)
    /\ EndsWith(buffered, ingested)
    /\ Len(ingested) <= BufferCap => trainedOn \o buffered = ingested

LEMMA PullsKeep == ASSUME BufferInv, NEW w \in Workers, Pulls(w) PROVE BufferInv'
<1> DEFINE first == IF traced > TraceRing THEN traced - TraceRing + 1 ELSE 1
           recent == RecentTraces
           new == SubSeq(recent, traceCursor + 1, Len(recent))
<1>1. first \in Nat /\ traced - first + 1 \in Nat
    BY FeedbackAssumption DEF BufferInv
<1>2. recent = [i \in 1..traced - first + 1 |-> first + i - 1]
    BY DEF RecentTraces
<1> HIDE DEF first, recent
<1>3. recent \in Seq(Nat)
    <2>1. recent \in [1..traced - first + 1 -> Nat]
        BY <1>1, <1>2
    <2>2. QED BY <1>1, <2>1
<1>4. new \in Seq(Nat)
    BY <1>3 DEF BufferInv
<1>5. [at |-> "pulled", new |-> new] \in Rounds
    BY <1>4 DEF Rounds
<1>6. round' = [round EXCEPT ![w] = [at |-> "pulled", new |-> new]]
      /\ UNCHANGED <<traced, traceCursor, buffered, ingested, trainedOn>>
    BY DEF Pulls, recent
<1> HIDE DEF new
<1>7. QED BY <1>5, <1>6 DEF BufferInv, EndsWith

LEMMA IngestsKeep == ASSUME BufferInv, NEW w \in Workers, Ingests(w) PROVE BufferInv'
<1> DEFINE new == round[w].new
           all == buffered \o new
<1>1. new \in Seq(Nat) /\ BufferCap \in Nat \ {0}
    <2>1. round[w] \in Rounds /\ round[w].at = "pulled"
        BY DEF BufferInv, Ingests
    <2>2. QED BY <2>1, FeedbackAssumption DEF Rounds, Resting
<1>2. /\ buffered' = LastOf(all, BufferCap) /\ ingested' = ingested \o new
      /\ traceCursor' = traceCursor + Len(new)
      /\ round' = [round EXCEPT ![w] = [at |-> "train"]] /\ UNCHANGED <<traced, trainedOn>>
    BY DEF Ingests
<1> HIDE DEF new
<1>3. /\ buffered \in Seq(Nat) /\ ingested \in Seq(Nat) /\ trainedOn \in Seq(Nat) /\ traceCursor \in Nat
      /\ Len(buffered) \in Nat /\ Len(ingested) \in Nat /\ Len(new) \in Nat /\ Len(trainedOn) \in Nat
      /\ Len(buffered) <= Len(ingested)
      /\ \A i \in 1..Len(buffered) : buffered[i] = ingested[Len(ingested) - Len(buffered) + i]
      /\ Len(trainedOn) + Len(buffered) <= Len(ingested)
    BY <1>1 DEF BufferInv, EndsWith
<1>4. /\ all \in Seq(Nat) /\ Len(all) = Len(buffered) + Len(new)
      /\ \A i \in 1..Len(all) : all[i] = IF i <= Len(buffered) THEN buffered[i] ELSE new[i - Len(buffered)]
      /\ ingested' \in Seq(Nat) /\ Len(ingested') = Len(ingested) + Len(new)
      /\ \A i \in 1..Len(ingested') :
            ingested'[i] = IF i <= Len(ingested) THEN ingested[i] ELSE new[i - Len(ingested)]
    BY <1>1, <1>2, <1>3
<1> HIDE DEF all
<1>5. ASSUME NEW i \in 1..Len(all) PROVE all[i] = ingested'[Len(ingested') - Len(all) + i]
    <2> DEFINE k == Len(ingested') - Len(all) + i
    <2>1. k \in 1..Len(ingested') /\ k = Len(ingested) - Len(buffered) + i /\ i \in Nat
        <3>1. /\ Len(all) = Len(buffered) + Len(new) /\ Len(ingested') = Len(ingested) + Len(new)
              /\ Len(buffered) \in Nat /\ Len(ingested) \in Nat /\ Len(new) \in Nat
              /\ Len(buffered) <= Len(ingested)
            BY <1>3, <1>4
        <3>2. QED BY <3>1
    <2>2. CASE i <= Len(buffered)
        <3>1. k <= Len(ingested) /\ i \in 1..Len(buffered)
            BY <1>3, <2>1, <2>2
        <3> HIDE DEF k
        <3>2. ingested'[k] = ingested[k] /\ all[i] = buffered[i]
            BY <1>4, <2>1, <2>2, <3>1
        <3>3. QED BY <1>3, <2>1, <3>1, <3>2 DEF k
    <2>3. CASE ~(i <= Len(buffered))
        <3>1. ~(k <= Len(ingested)) /\ k - Len(ingested) = i - Len(buffered)
            BY <1>3, <2>1, <2>3
        <3> HIDE DEF k
        <3>2. ingested'[k] = new[i - Len(buffered)] /\ all[i] = new[i - Len(buffered)]
            BY <1>4, <2>1, <2>3, <3>1
        <3>3. QED BY <3>2 DEF k
    <2>4. QED BY <2>2, <2>3
<1> DEFINE drop == IF Len(all) <= BufferCap THEN 0 ELSE Len(all) - BufferCap
<1>6. /\ buffered' \in Seq(Nat) /\ Len(buffered') = Len(all) - drop /\ drop \in Nat
      /\ \A i \in 1..Len(buffered') : buffered'[i] = all[drop + i] /\ drop + i \in 1..Len(all)
    <2>1. Len(all) \in Nat
        BY <1>3, <1>4
    <2>2. CASE Len(all) <= BufferCap
        <3>1. buffered' = all /\ drop = 0
            BY <1>2, <2>2 DEF LastOf
        <3>2. QED BY <1>4, <2>1, <3>1
    <2>3. CASE ~(Len(all) <= BufferCap)
        <3>1. buffered' = SubSeq(all, Len(all) - BufferCap + 1, Len(all)) /\ drop = Len(all) - BufferCap
            BY <1>2, <2>3 DEF LastOf
        <3>2. drop \in Nat /\ drop + 1 \in 1..Len(all) /\ BufferCap = Len(all) - drop
            BY <1>1, <2>1, <2>3, <3>1
        <3> HIDE DEF drop
        <3>3. buffered' = SubSeq(all, drop + 1, Len(all))
            BY <3>1
        <3>4. Len(buffered') = Len(all) - drop /\ buffered' \in Seq(Nat)
              /\ \A i \in 1..Len(all) - drop : buffered'[i] = all[drop + i]
            <4>1. drop \in 0..Len(all) /\ all \in Seq(Nat)
                BY <1>4, <2>1, <3>2
            <4>2. /\ SubSeq(all, drop + 1, Len(all)) \in Seq(Nat)
                  /\ Len(SubSeq(all, drop + 1, Len(all))) = Len(all) - drop
                  /\ \A i \in 1..Len(all) - drop : SubSeq(all, drop + 1, Len(all))[i] = all[drop + i]
                BY <4>1, RestOfSeq
            <4>3. QED BY <3>3, <4>2
        <3>5. QED BY <2>1, <3>2, <3>4
    <2>4. QED BY <2>2, <2>3
<1>7. EndsWith(buffered', ingested')
    <2>1. Len(buffered') <= Len(ingested')
        BY <1>3, <1>4, <1>6
    <2>2. ASSUME NEW i \in 1..Len(buffered')
          PROVE  buffered'[i] = ingested'[Len(ingested') - Len(buffered') + i]
        <3>1. drop + i \in 1..Len(all) /\ buffered'[i] = all[drop + i]
            BY <1>6
        <3>2. Len(ingested') - Len(all) + (drop + i) = Len(ingested') - Len(buffered') + i
            <4>1. Len(ingested') \in Nat /\ Len(all) \in Nat /\ drop \in Nat /\ i \in Nat
                  /\ Len(buffered') = Len(all) - drop
                BY <1>4, <1>6
            <4>2. QED BY <4>1
        <3>3. all[drop + i] = ingested'[Len(ingested') - Len(all) + (drop + i)]
            BY <1>5, <3>1
        <3>4. QED BY <3>1, <3>2, <3>3
    <2>3. QED BY <2>1, <2>2 DEF EndsWith
<1>8. Len(trainedOn) + Len(buffered') <= Len(ingested')
    BY <1>3, <1>4, <1>6
<1>9. ASSUME Len(ingested') <= BufferCap PROVE trainedOn \o buffered' = ingested'
    <2>1. Len(ingested) <= BufferCap /\ Len(all) <= BufferCap
        BY <1>1, <1>3, <1>4, <1>9
    <2>2. trainedOn \o buffered = ingested /\ buffered' = all
        BY <1>2, <2>1 DEF BufferInv, LastOf
    <2>3. trainedOn \o all = (trainedOn \o buffered) \o new
        <3>1. trainedOn \in Seq(Nat) /\ buffered \in Seq(Nat) /\ new \in Seq(Nat)
            BY <1>1, <1>3
        <3>2. (trainedOn \o buffered) \o new = trainedOn \o (buffered \o new)
            BY <3>1, Regrouped
        <3>3. QED BY <3>2 DEF all
    <2>4. QED BY <1>2, <2>2, <2>3
<1>10. round' \in [Workers -> Rounds] /\ traceCursor' \in Nat
    BY <1>2, <1>3 DEF BufferInv, Rounds
<1>11. QED BY <1>2, <1>3, <1>4, <1>6, <1>7, <1>8, <1>9, <1>10 DEF BufferInv

LEMMA TrainsKeep == ASSUME BufferInv, NEW w \in Workers, Trains(w) PROVE BufferInv'
<1>1. /\ buffered' = DrainsEpisode(EpisodeLen)
      /\ trainedOn' = (IF Len(buffered) < EpisodeLen THEN trainedOn ELSE trainedOn \o SubSeq(buffered, 1, EpisodeLen))
      /\ round' = [round EXCEPT ![w] = Resting] /\ UNCHANGED <<traced, traceCursor, ingested>>
    BY DEF Trains
<1>2. round' \in [Workers -> Rounds]
    BY <1>1 DEF BufferInv, Rounds
<1>3. /\ buffered \in Seq(Nat) /\ ingested \in Seq(Nat) /\ trainedOn \in Seq(Nat)
      /\ Len(buffered) \in Nat /\ Len(ingested) \in Nat /\ Len(trainedOn) \in Nat
      /\ Len(buffered) <= Len(ingested)
      /\ \A i \in 1..Len(buffered) : buffered[i] = ingested[Len(ingested) - Len(buffered) + i]
      /\ Len(trainedOn) + Len(buffered) <= Len(ingested) /\ EpisodeLen \in Nat \ {0}
    <2>1. /\ buffered \in Seq(Nat) /\ ingested \in Seq(Nat) /\ trainedOn \in Seq(Nat)
          /\ EndsWith(buffered, ingested)
          /\ Len(trainedOn) + Len(buffered) <= Len(ingested)
        BY DEF BufferInv
    <2>2. EpisodeLen \in Nat \ {0}
        BY FeedbackAssumption
    <2>3. Len(buffered) \in Nat /\ Len(ingested) \in Nat /\ Len(trainedOn) \in Nat
        BY <2>1
    <2>4. QED BY <2>1, <2>2, <2>3 DEF EndsWith
<1>4. CASE Len(buffered) < EpisodeLen
    <2>1. buffered' = buffered /\ trainedOn' = trainedOn
        BY <1>1, <1>4 DEF DrainsEpisode
    <2>2. QED BY <1>1, <1>2, <2>1 DEF BufferInv, EndsWith
<1>5. CASE ~(Len(buffered) < EpisodeLen)
    <2> DEFINE drained == SubSeq(buffered, 1, EpisodeLen)
               left == SubSeq(buffered, EpisodeLen + 1, Len(buffered))
    <2>1. buffered' = left /\ trainedOn' = trainedOn \o drained
        BY <1>1, <1>5 DEF DrainsEpisode
    <2>2. /\ left \in Seq(Nat) /\ Len(left) = Len(buffered) - EpisodeLen
          /\ \A i \in 1..Len(left) : left[i] = buffered[EpisodeLen + i]
        <3>1. EpisodeLen \in 0..Len(buffered)
            BY <1>3, <1>5
        <3> HIDE DEF drained
        <3>2. /\ left \in Seq(Nat) /\ Len(left) = Len(buffered) - EpisodeLen
              /\ \A i \in 1..Len(buffered) - EpisodeLen : left[i] = buffered[EpisodeLen + i]
            BY <1>3, <3>1, RestOfSeq
        <3> HIDE DEF left
        <3>3. QED BY <3>2
    <2>3. drained \in Seq(Nat) /\ Len(drained) = EpisodeLen
          /\ \A i \in 1..EpisodeLen : drained[i] = buffered[i]
        <3>1. EpisodeLen \in Nat \ {0} /\ EpisodeLen <= Len(buffered) /\ Len(buffered) \in Nat /\ buffered \in Seq(Nat)
            BY <1>3, <1>5
        <3>2. \A i \in 1..EpisodeLen : buffered[i] \in Nat
            BY <3>1
        <3>3. /\ drained \in Seq(Nat) /\ Len(drained) = IF 1 <= EpisodeLen THEN EpisodeLen - 1 + 1 ELSE 0
              /\ \A i \in 1..EpisodeLen - 1 + 1 : drained[i] = buffered[1 + i - 1]
            BY <3>1, <3>2, SubSeqProperties
        <3> HIDE DEF drained
        <3>4. QED BY <3>1, <3>3
    <2>4. drained \o left = buffered
        <3>1. 1 \in 1..Len(buffered) + 1 /\ EpisodeLen \in 1 - 1..Len(buffered) /\ Len(buffered) \in EpisodeLen..Len(buffered)
            BY <1>3, <1>5
        <3>2. drained \o left = SubSeq(buffered, 1, Len(buffered))
            BY <1>3, <3>1, ConcatAdjacentSubSeq
        <3>3. QED BY <1>3, <3>2, SubSeqFull
    <2> HIDE DEF drained, left
    <2>5. EndsWith(left, ingested)
        <3>1. Len(left) <= Len(ingested)
            BY <1>3, <2>2
        <3>2. ASSUME NEW i \in 1..Len(left) PROVE left[i] = ingested[Len(ingested) - Len(left) + i]
            <4>1. EpisodeLen + i \in 1..Len(buffered)
                  /\ Len(ingested) - Len(buffered) + (EpisodeLen + i) = Len(ingested) - Len(left) + i
                BY <1>3, <2>2
            <4>2. buffered[EpisodeLen + i] = ingested[Len(ingested) - Len(buffered) + (EpisodeLen + i)]
                BY <1>3, <4>1
            <4>3. QED BY <2>2, <4>1, <4>2
        <3>3. QED BY <3>1, <3>2 DEF EndsWith
    <2>6. trainedOn' \in Seq(Nat) /\ Len(trainedOn') + Len(left) <= Len(ingested)
        BY <1>3, <2>1, <2>2, <2>3
    <2>7. trainedOn' \o left = trainedOn \o buffered
        <3>1. trainedOn' \o left = trainedOn \o (drained \o left)
            <4>1. trainedOn \in Seq(Nat) /\ drained \in Seq(Nat) /\ left \in Seq(Nat)
                BY <1>3, <2>2, <2>3
            <4>2. (trainedOn \o drained) \o left = trainedOn \o (drained \o left)
                BY <4>1, Regrouped
            <4>3. QED BY <2>1, <4>2
        <3>2. QED BY <2>4, <3>1
    <2>8. QED BY <1>1, <1>2, <2>1, <2>2, <2>5, <2>6, <2>7 DEF BufferInv
<1>6. QED BY <1>4, <1>5

\* FeedbackKernel: whichever threads pull, ingest and train, what was trained on and what is
\* buffered are two ends of what was ingested, and nothing is lost below the buffer's limit.
THEOREM AlwaysTrainedInOrder == FeedbackSpec => []TrainedInOrder
<1>1. FeedbackInit => BufferInv
    <2> SUFFICES ASSUME FeedbackInit PROVE BufferInv
        OBVIOUS
    <2>1. << >> \in Seq(Nat) /\ Len(<< >>) = 0 /\ << >> \o << >> = << >>
        OBVIOUS
    <2>2. QED BY <2>1 DEF FeedbackInit, BufferInv, EndsWith, Rounds
<1>2. BufferInv /\ [FeedbackNext]_feedbackVars => BufferInv'
    <2> SUFFICES ASSUME BufferInv, [FeedbackNext]_feedbackVars PROVE BufferInv'
        OBVIOUS
    <2>1. CASE UNCHANGED <<traceCursor, buffered, ingested, trainedOn, round>> /\ traced' \in Nat
        BY <2>1 DEF BufferInv, EndsWith
    <2>2. CASE Trace
        BY <2>1, <2>2 DEF Trace, BufferInv
    <2>3. CASE LoopReads \/ LoopEnds \/ PauseOrResume("RUNNING", "PAUSED") \/ PauseOrResume("PAUSED", "RUNNING")
        BY <2>1, <2>3 DEF LoopReads, LoopEnds, PauseOrResume, BufferInv
    <2>4. CASE LoopRound
        BY <2>4, PullsKeep, IngestsKeep, TrainsKeep DEF LoopRound, Workers
    <2>5. ASSUME NEW u \in Operators, ForceTrain(u) \/ Ingests(u) PROVE BufferInv'
        BY <2>5, PullsKeep, IngestsKeep, TrainsKeep DEF ForceTrain, Workers
    <2>6. ASSUME NEW u \in Operators, StartLoop(u) \/ StopLoop(u) \/ StopReturns(u) PROVE BufferInv'
        BY <2>1, <2>6 DEF StartLoop, StopLoop, StopReturns, BufferInv
    <2>7. CASE UNCHANGED feedbackVars
        BY <2>1, <2>7 DEF feedbackVars, BufferInv
    <2>8. QED BY <2>2, <2>3, <2>4, <2>5, <2>6, <2>7 DEF FeedbackNext
<1>3. BufferInv => TrainedInOrder
    BY SuffixIs DEF BufferInv, TrainedInOrder
<1>4. QED BY <1>1, <1>2, <1>3, PTL DEF FeedbackSpec

-----------------------------------------------------------------------------
(* The facts of the semantic memory *)

LEMMA LeastNumber ==
    ASSUME NEW T \in SUBSET Nat, T # {}
    PROVE  \E m \in T : \A n \in T : m <= n
<1>1. PICK m \in T : \A n \in T : ~(<<n, m>> \in OpToRel(<, Nat))
    BY NatLessThanWellFounded, WFMin
<1>2. \A n \in T : ~(n < m)
    BY <1>1 DEF OpToRel
<1>3. QED BY <1>2

LEMMA MinIsLeast ==
    ASSUME NEW T \in SUBSET Nat, T # {}
    PROVE  Min(T) \in T /\ \A n \in T : Min(T) <= n
<1>1. \E m \in T : \A n \in T : m <= n
    BY LeastNumber
<1>2. QED BY <1>1 DEF Min

FactIds == {FactIdOf[key] : key \in DOMAIN FactIdOf}
Facts == [id : FactIds, key : DOMAIN FactIdOf, whole : BOOLEAN, trust : Nat, value : Nat]

IdsAreApart(fs) == \A i, j \in DOMAIN fs : i # j => fs[i].id # fs[j].id

\* v is the last of the calls ts that returned id.
IsLatest(v, id, ts) ==
    v \in DOMAIN ts /\ ts[v] = id /\ \A c \in DOMAIN ts : ts[c] = id => c <= v

WholeAreApart(fs, ts) ==
    /\ \A i, j \in DOMAIN fs : i # j /\ fs[i].whole => ~Similar(fs[i].key, fs[j])
    /\ \A i \in DOMAIN fs : fs[i].whole => IsLatest(fs[i].value, fs[i].id, ts)

FactInv ==
    /\ known \in Seq(Facts) /\ told \in Seq(FactIds)
    /\ snapped \in Seq(Facts) /\ toLoad \in Seq(Facts) /\ factLoads \in Nat
    /\ \A i \in DOMAIN snapped : ~snapped[i].whole
    /\ \A i \in DOMAIN toLoad : ~toLoad[i].whole
    /\ IdsAreApart(known) /\ WholeAreApart(known, told)
    /\ factLoads = 0 => toLoad = << >> /\ Len(known) <= StoreCapacity

\* Every entry of gs is one of fs, each a different one.
TakenFrom(gs, fs) ==
    \E at \in [DOMAIN gs -> DOMAIN fs] :
        /\ \A i \in DOMAIN gs : gs[i] = fs[at[i]]
        /\ \A i, j \in DOMAIN gs : i # j => at[i] # at[j]

LEMMA TakenKeepsApart ==
    ASSUME NEW fs \in Seq(Facts), NEW gs \in Seq(Facts), NEW ts, TakenFrom(gs, fs)
    PROVE  /\ IdsAreApart(fs) => IdsAreApart(gs)
           /\ WholeAreApart(fs, ts) => WholeAreApart(gs, ts)
           /\ \A key : (\A i \in DOMAIN fs : ~Similar(key, fs[i])) => \A i \in DOMAIN gs : ~Similar(key, gs[i])
<1>1. PICK at \in [DOMAIN gs -> DOMAIN fs] :
        /\ \A i \in DOMAIN gs : gs[i] = fs[at[i]]
        /\ \A i, j \in DOMAIN gs : i # j => at[i] # at[j]
    BY DEF TakenFrom
<1>2. IdsAreApart(fs) => IdsAreApart(gs)
    BY <1>1 DEF IdsAreApart
<1>3. WholeAreApart(fs, ts) => WholeAreApart(gs, ts)
    <2> SUFFICES ASSUME WholeAreApart(fs, ts) PROVE WholeAreApart(gs, ts)
        OBVIOUS
    <2>1. ASSUME NEW i \in DOMAIN gs, NEW j \in DOMAIN gs, i # j, gs[i].whole
          PROVE  ~Similar(gs[i].key, gs[j])
        <3>1. at[i] \in DOMAIN fs /\ at[j] \in DOMAIN fs /\ at[i] # at[j]
              /\ gs[i] = fs[at[i]] /\ gs[j] = fs[at[j]]
            BY <1>1, <2>1
        <3>2. ~Similar(fs[at[i]].key, fs[at[j]])
            BY <2>1, <3>1 DEF WholeAreApart
        <3>3. QED BY <3>1, <3>2
    <2>2. ASSUME NEW i \in DOMAIN gs, gs[i].whole PROVE IsLatest(gs[i].value, gs[i].id, ts)
        <3>1. at[i] \in DOMAIN fs /\ gs[i] = fs[at[i]]
            BY <1>1
        <3>2. IsLatest(fs[at[i]].value, fs[at[i]].id, ts)
            BY <2>2, <3>1 DEF WholeAreApart
        <3>3. QED BY <3>1, <3>2
    <2>3. QED BY <2>1, <2>2 DEF WholeAreApart
<1>4. ASSUME NEW key, \A i \in DOMAIN fs : ~Similar(key, fs[i]), NEW i \in DOMAIN gs
      PROVE  ~Similar(key, gs[i])
    <2>1. at[i] \in DOMAIN fs /\ gs[i] = fs[at[i]]
        BY <1>1
    <2>2. QED BY <1>4, <2>1
<1>5. QED BY <1>2, <1>3, <1>4

LEMMA RemovedIsTaken ==
    ASSUME NEW fs \in Seq(Facts), NEW k \in 1..Len(fs)
    PROVE  /\ RemoveAt(fs, k) \in Seq(Facts) /\ Len(RemoveAt(fs, k)) = Len(fs) - 1
           /\ TakenFrom(RemoveAt(fs, k), fs)
<1> DEFINE n == Len(fs)
           front == SubSeq(fs, 1, k - 1)
           back == SubSeq(fs, k + 1, n)
           gs == RemoveAt(fs, k)
           at == [i \in 1..n - 1 |-> IF i < k THEN i ELSE i + 1]
<1>1. n \in Nat /\ k \in Nat /\ 1 <= k /\ k <= n
    OBVIOUS
<1>2. /\ front \in Seq(Facts) /\ Len(front) = k - 1
      /\ \A i \in 1..k - 1 : front[i] = fs[i]
    OBVIOUS
<1>3. /\ back \in Seq(Facts) /\ Len(back) = n - k
      /\ \A i \in 1..n - k : back[i] = fs[k + i]
    BY RestOfSeq
<1>4. gs = front \o back
    BY DEF RemoveAt
<1> HIDE DEF front, back, gs
<1>5. /\ gs \in Seq(Facts) /\ Len(gs) = n - 1
      /\ \A i \in 1..n - 1 : gs[i] = IF i <= k - 1 THEN front[i] ELSE back[i - (k - 1)]
    <2>1. /\ gs \in Seq(Facts) /\ Len(gs) = Len(front) + Len(back)
          /\ \A i \in 1..Len(front) + Len(back) :
                gs[i] = IF i <= Len(front) THEN front[i] ELSE back[i - Len(front)]
        BY <1>2, <1>3, <1>4, ConcatProperties
    <2>2. Len(front) + Len(back) = n - 1
        BY <1>1, <1>2, <1>3
    <2>3. QED BY <1>2, <2>1, <2>2
<1>6. DOMAIN gs = 1..n - 1 /\ DOMAIN fs = 1..n
    BY <1>5
<1>7. ASSUME NEW i \in 1..n - 1 PROVE gs[i] = fs[at[i]] /\ at[i] \in 1..n
    <2>1. CASE i < k
        <3>1. i <= k - 1 /\ i \in 1..k - 1 /\ at[i] = i
            BY <1>1, <2>1
        <3>2. QED BY <1>1, <1>2, <1>5, <3>1
    <2>2. CASE ~(i < k)
        <3>1. ~(i <= k - 1) /\ i - (k - 1) \in 1..n - k /\ at[i] = i + 1 /\ k + (i - (k - 1)) = i + 1
            BY <1>1, <2>2
        <3>2. QED BY <1>1, <1>3, <1>5, <3>1
    <2>3. QED BY <2>1, <2>2
<1>8. \A i, j \in 1..n - 1 : i # j => at[i] # at[j]
    BY <1>1
<1>9. at \in [1..n - 1 -> 1..n]
    BY <1>7
<1> HIDE DEF at
<1>10. TakenFrom(gs, fs)
    BY <1>6, <1>7, <1>8, <1>9 DEF TakenFrom
<1>11. QED BY <1>5, <1>10 DEF gs

LEMMA SparedIsTaken ==
    ASSUME NEW fs \in Seq(Facts)
    PROVE  /\ Spared(fs) \in Seq(Facts) /\ TakenFrom(Spared(fs), fs)
           /\ Len(fs) <= StoreCapacity => Len(Spared(fs)) < StoreCapacity
<1>1. StoreCapacity \in Nat \ {0} /\ Len(fs) \in Nat /\ DOMAIN fs = 1..Len(fs)
    BY SemanticAssumption
<1>2. CASE Len(fs) >= StoreCapacity
    <2> DEFINE trusts == {fs[i].trust : i \in DOMAIN fs}
               ofLeast == {i \in DOMAIN fs : fs[i].trust = Min(trusts)}
    <2>1. \A i \in DOMAIN fs : fs[i].trust \in Nat
        <3>1. \A i \in DOMAIN fs : fs[i] \in Facts
            BY <1>1, ElementOfSeq
        <3>2. QED BY <3>1 DEF Facts
    <2>2. trusts \in SUBSET Nat /\ trusts # {}
        BY <1>1, <1>2, <2>1
    <2>3. Min(trusts) \in trusts
        BY <2>2, MinIsLeast
    <2>4. ofLeast \in SUBSET Nat /\ ofLeast # {}
        <3>1. PICK i \in DOMAIN fs : fs[i].trust = Min(trusts)
            BY <2>3
        <3>2. ofLeast # {}
            BY <3>1
        <3>3. ofLeast \subseteq DOMAIN fs /\ DOMAIN fs \subseteq Nat
            BY <1>1
        <3> HIDE DEF ofLeast
        <3>4. QED BY <3>2, <3>3
    <2>5. Min(ofLeast) \in ofLeast
        BY <2>4, MinIsLeast
    <2>6. Weakest(fs) \in 1..Len(fs) /\ Spared(fs) = RemoveAt(fs, Weakest(fs))
        BY <1>1, <1>2, <2>5 DEF Weakest, Spared
    <2>7. /\ Spared(fs) \in Seq(Facts) /\ Len(Spared(fs)) = Len(fs) - 1 /\ TakenFrom(Spared(fs), fs)
        BY <2>6, RemovedIsTaken
    <2>8. QED BY <1>1, <2>7
<1>3. CASE ~(Len(fs) >= StoreCapacity)
    <2>1. Spared(fs) = fs
        BY <1>3 DEF Spared
    <2> DEFINE at == [i \in DOMAIN fs |-> i]
    <2>2. at \in [DOMAIN fs -> DOMAIN fs] /\ \A i \in DOMAIN fs : at[i] = i
        OBVIOUS
    <2> HIDE DEF at
    <2>3. TakenFrom(fs, fs)
        BY <2>2 DEF TakenFrom
    <2>4. QED BY <1>1, <1>3, <2>1, <2>3
<1>4. QED BY <1>2, <1>3

LEMMA PlacedIsThere ==
    ASSUME NEW fs \in Seq(Facts), NEW fact \in Facts, IdsAreApart(fs)
    PROVE  /\ Placed(fs, fact) \in Seq(Facts) /\ Len(Placed(fs, fact)) <= Len(fs) + 1
           /\ IdsAreApart(Placed(fs, fact))
           /\ \A i \in DOMAIN Placed(fs, fact) :
                 \/ Placed(fs, fact)[i] = fact
                 \/ i \in DOMAIN fs /\ Placed(fs, fact)[i] = fs[i] /\ fs[i].id # fact.id
<1>1. Len(fs) \in Nat /\ DOMAIN fs = 1..Len(fs) /\ \A i \in 1..Len(fs) : fs[i] \in Facts
    OBVIOUS
<1>2. CASE \E i \in DOMAIN fs : fs[i].id = fact.id
    <2> DEFINE gs == [i \in DOMAIN fs |-> IF fs[i].id = fact.id THEN fact ELSE fs[i]]
    <2>1. Placed(fs, fact) = gs
        BY <1>2 DEF Placed
    <2>2. gs \in [1..Len(fs) -> Facts] /\ gs \in Seq(Facts) /\ Len(gs) = Len(fs) /\ DOMAIN gs = DOMAIN fs
        <3>1. gs \in [1..Len(fs) -> Facts]
            BY <1>1
        <3> HIDE DEF gs
        <3>2. QED BY <1>1, <3>1
    <2>3. \A i \in DOMAIN fs : gs[i] = IF fs[i].id = fact.id THEN fact ELSE fs[i]
        OBVIOUS
    <2> HIDE DEF gs
    <2>4. \A i \in DOMAIN gs : gs[i].id = fs[i].id
        BY <2>2, <2>3
    <2>5. IdsAreApart(gs)
        BY <2>2, <2>4 DEF IdsAreApart
    <2>6. QED BY <1>1, <2>1, <2>2, <2>3, <2>5
<1>3. CASE ~\E i \in DOMAIN fs : fs[i].id = fact.id
    <2> DEFINE gs == Append(fs, fact)
    <2>1. Placed(fs, fact) = gs
        BY <1>3 DEF Placed
    <2>2. /\ gs \in Seq(Facts) /\ Len(gs) = Len(fs) + 1
          /\ gs[Len(fs) + 1] = fact /\ \A i \in 1..Len(fs) : gs[i] = fs[i]
        BY <1>1
    <2> HIDE DEF gs
    <2>3. DOMAIN gs = 1..Len(fs) + 1
        BY <2>2
    <2>4. \A i \in DOMAIN gs : gs[i] = fact \/ (i \in DOMAIN fs /\ gs[i] = fs[i] /\ fs[i].id # fact.id)
        BY <1>1, <1>3, <2>2, <2>3
    <2>5. \A i \in DOMAIN gs : i \notin DOMAIN fs => i = Len(fs) + 1
        BY <1>1, <2>3
    <2>6. IdsAreApart(gs)
        <3> SUFFICES ASSUME NEW i \in DOMAIN gs, NEW j \in DOMAIN gs, i # j PROVE gs[i].id # gs[j].id
            BY DEF IdsAreApart
        <3>1. CASE i \in DOMAIN fs /\ j \in DOMAIN fs
            BY <1>1, <2>2, <3>1 DEF IdsAreApart
        <3>2. CASE i \in DOMAIN fs /\ j \notin DOMAIN fs
            BY <1>1, <1>3, <2>2, <2>5, <3>2
        <3>3. CASE i \notin DOMAIN fs /\ j \in DOMAIN fs
            BY <1>1, <1>3, <2>2, <2>5, <3>3
        <3>4. CASE i \notin DOMAIN fs /\ j \notin DOMAIN fs
            BY <2>5, <3>4
        <3>5. QED BY <3>1, <3>2, <3>3, <3>4
    <2>7. QED BY <1>1, <2>1, <2>2, <2>4, <2>6
<1>4. QED BY <1>2, <1>3

\* A later call that returns another id leaves what was last returned for an id.
LEMMA LatestStays ==
    ASSUME NEW ts \in Seq(FactIds), NEW id \in FactIds
    PROVE  /\ Append(ts, id) \in Seq(FactIds) /\ IsLatest(Len(ts) + 1, id, Append(ts, id))
           /\ \A v, other : other # id /\ IsLatest(v, other, ts) => IsLatest(v, other, Append(ts, id))
<1> DEFINE us == Append(ts, id)
<1>1. /\ us \in Seq(FactIds) /\ Len(us) = Len(ts) + 1 /\ Len(ts) \in Nat
      /\ us[Len(ts) + 1] = id /\ \A c \in 1..Len(ts) : us[c] = ts[c]
    OBVIOUS
<1> HIDE DEF us
<1>2. DOMAIN us = 1..Len(ts) + 1 /\ DOMAIN ts = 1..Len(ts)
    BY <1>1
<1>3. IsLatest(Len(ts) + 1, id, us)
    BY <1>1, <1>2 DEF IsLatest
<1>4. ASSUME NEW v, NEW other, other # id, IsLatest(v, other, ts) PROVE IsLatest(v, other, us)
    <2>1. v \in DOMAIN us /\ us[v] = other
        BY <1>1, <1>2, <1>4 DEF IsLatest
    <2>2. ASSUME NEW c \in DOMAIN us, us[c] = other PROVE c <= v
        <3>1. c \in DOMAIN ts /\ ts[c] = other
            BY <1>1, <1>2, <1>4, <2>2
        <3>2. QED BY <1>4, <3>1 DEF IsLatest
    <2>3. QED BY <2>1, <2>2 DEF IsLatest
<1>5. QED BY <1>1, <1>3, <1>4 DEF us

\* store_fact puts a fact in only where no fact is similar, and updates the first that is.
LEMMA StoreFactKeeps ==
    ASSUME FactInv, NEW key \in DOMAIN FactIdOf, NEW trust \in Confidences, StoreFact(key, trust)
    PROVE  FactInv'
<1>1. /\ known \in Seq(Facts) /\ told \in Seq(FactIds) /\ IdsAreApart(known) /\ WholeAreApart(known, told)
      /\ Len(known) \in Nat /\ DOMAIN known = 1..Len(known) /\ Len(told) \in Nat
      /\ (factLoads = 0 => toLoad = << >> /\ Len(known) <= StoreCapacity)
    BY DEF FactInv
<1> DEFINE call == Len(told) + 1
<1>2. PICK loadedHits \in SUBSET {i \in DOMAIN known : ~known[i].whole} :
        LET same == {i \in DOMAIN known : Similar(key, known[i])} \union loadedHits
        IN /\ IF same # {}
              THEN LET i == Min(same) IN
                   /\ known' = [known EXCEPT ![i].trust = Reassured(@), ![i].value = call]
                   /\ told' = Append(told, known[i].id)
              ELSE /\ known' = Placed(Spared(known), [id |-> FactIdOf[key], key |-> key, whole |-> TRUE,
                                                      trust |-> trust, value |-> call])
                   /\ told' = Append(told, FactIdOf[key])
           /\ UNCHANGED <<snapped, toLoad, factLoads>>
    BY DEF StoreFact
<1> DEFINE same == {i \in DOMAIN known : Similar(key, known[i])} \union loadedHits
<1>3. /\ known' \in Seq(Facts) /\ told' \in Seq(FactIds)
      /\ IdsAreApart(known') /\ WholeAreApart(known', told')
      /\ (Len(known) <= StoreCapacity => Len(known') <= StoreCapacity)
    <2>1. CASE same # {}
        <3> DEFINE k == Min(same)
        <3>1. same \in SUBSET Nat /\ same \subseteq DOMAIN known
            BY <1>1
        <3>2. k \in DOMAIN known
            BY <2>1, <3>1, MinIsLeast
        <3>3. /\ known' = [known EXCEPT ![k].trust = Reassured(@), ![k].value = call]
              /\ told' = Append(told, known[k].id)
            BY <1>2, <2>1
        <3> HIDE DEF k, same
        <3>4. \A i \in DOMAIN known : known[i] \in Facts
            BY <1>1, ElementOfSeq
        <3>5. known[k].id \in FactIds /\ known[k].trust \in Nat
            BY <3>2, <3>4 DEF Facts
        <3>6. Reassured(known[k].trust) \in Nat
            BY <3>5 DEF Reassured, Certain
        <3>7. /\ DOMAIN known' = DOMAIN known
              /\ \A i \in DOMAIN known : i # k => known'[i] = known[i]
              /\ known'[k] = [known[k] EXCEPT !.trust = Reassured(known[k].trust), !.value = call]
            BY <3>2, <3>3
        <3>8. call \in Nat
            BY <1>1
        <3>9. /\ known'[k] \in Facts /\ known'[k].id = known[k].id /\ known'[k].key = known[k].key
              /\ known'[k].whole = known[k].whole /\ known'[k].value = call
            BY <3>2, <3>4, <3>6, <3>7, <3>8 DEF Facts
        <3>10. /\ \A i \in DOMAIN known : known'[i] \in Facts
               /\ known' = [i \in 1..Len(known) |-> known'[i]]
            BY <1>1, <3>3, <3>4, <3>7, <3>9
        <3>11. known' \in Seq(Facts) /\ Len(known') = Len(known)
            BY <1>1, <3>10
        <3>12. /\ told' \in Seq(FactIds) /\ IsLatest(call, known[k].id, told')
               /\ \A v, other : other # known[k].id /\ IsLatest(v, other, told) => IsLatest(v, other, told')
            BY <1>1, <3>3, <3>5, LatestStays
        <3>13. \A i \in DOMAIN known : /\ known'[i].id = known[i].id /\ known'[i].key = known[i].key
                                       /\ known'[i].whole = known[i].whole
            BY <3>7, <3>9
        <3>14. IdsAreApart(known')
            BY <1>1, <3>7, <3>13 DEF IdsAreApart
        <3>15. WholeAreApart(known', told')
            <4>1. ASSUME NEW i \in DOMAIN known, NEW j \in DOMAIN known, i # j, known'[i].whole
                  PROVE  ~Similar(known'[i].key, known'[j])
                <5>1. ~Similar(known[i].key, known[j])
                    BY <1>1, <3>13, <4>1 DEF WholeAreApart
                <5>2. QED BY <3>13, <5>1 DEF Similar
            <4>2. ASSUME NEW i \in DOMAIN known, known'[i].whole
                  PROVE  IsLatest(known'[i].value, known'[i].id, told')
                <5>1. CASE i = k
                    BY <3>9, <3>12, <5>1
                <5>2. CASE i # k
                    <6>1. known[i].id # known[k].id /\ known'[i] = known[i] /\ known[i].whole
                        BY <1>1, <3>2, <3>7, <4>2, <5>2 DEF IdsAreApart
                    <6>2. IsLatest(known[i].value, known[i].id, told)
                        BY <1>1, <6>1 DEF WholeAreApart
                    <6>3. QED BY <3>12, <6>1, <6>2
                <5>3. QED BY <5>1, <5>2
            <4>3. QED BY <3>7, <4>1, <4>2 DEF WholeAreApart
        <3>16. QED BY <3>11, <3>12, <3>14, <3>15
    <2>2. CASE same = {}
        <3> DEFINE fs == Spared(known)
                   fact == [id |-> FactIdOf[key], key |-> key, whole |-> TRUE, trust |-> trust, value |-> call]
        <3>1. known' = Placed(fs, fact) /\ told' = Append(told, FactIdOf[key])
            BY <1>2, <2>2
        <3>2. fact \in Facts /\ FactIdOf[key] \in FactIds
            BY <1>1, SemanticAssumption DEF Facts, FactIds
        <3>3. /\ fs \in Seq(Facts) /\ TakenFrom(fs, known)
              /\ (Len(known) <= StoreCapacity => Len(fs) < StoreCapacity)
            BY <1>1, SparedIsTaken
        <3>4. \A i \in DOMAIN known : ~Similar(key, known[i])
            BY <2>2
        <3>5. fact.id = FactIdOf[key] /\ fact.key = key /\ fact.whole /\ fact.value = call
            OBVIOUS
        <3> HIDE DEF fs, fact, same
        <3>6. /\ IdsAreApart(fs) /\ WholeAreApart(fs, told)
              /\ \A i \in DOMAIN fs : ~Similar(key, fs[i])
            BY <1>1, <3>3, <3>4, TakenKeepsApart
        <3> DEFINE gs == Placed(fs, fact)
        <3>7. /\ gs \in Seq(Facts) /\ Len(gs) <= Len(fs) + 1 /\ IdsAreApart(gs)
              /\ \A i \in DOMAIN gs : gs[i] = fact \/ (i \in DOMAIN fs /\ gs[i] = fs[i] /\ fs[i].id # fact.id)
            BY <3>2, <3>3, <3>6, PlacedIsThere
        <3>8. /\ told' \in Seq(FactIds) /\ IsLatest(call, fact.id, told')
              /\ \A v, other : other # fact.id /\ IsLatest(v, other, told) => IsLatest(v, other, told')
            BY <1>1, <3>1, <3>2, <3>5, LatestStays
        <3> HIDE DEF gs, call
        <3>9. WholeAreApart(gs, told')
            <4>1. ASSUME NEW i \in DOMAIN gs, NEW j \in DOMAIN gs, i # j, gs[i].whole
                  PROVE  ~Similar(gs[i].key, gs[j])
                <5>1. CASE gs[i] = fact /\ gs[j] = fact
                    BY <3>7, <4>1, <5>1 DEF IdsAreApart
                <5>2. CASE gs[i] = fact /\ gs[j] # fact
                    BY <3>5, <3>6, <3>7, <5>2
                <5>3. CASE gs[i] # fact /\ gs[j] = fact
                    <6>1. i \in DOMAIN fs /\ gs[i] = fs[i]
                        BY <3>7, <5>3
                    <6>2. ~Similar(key, fs[i])
                        BY <3>6, <6>1
                    <6>3. fs[i] \in Facts
                        BY <3>3, <6>1, ElementOfSeq
                    <6>4. fs[i].key \in Nat /\ key \in Nat
                        BY <6>3, SemanticAssumption DEF Facts
                    <6>5. ~Near(fs[i].key, key)
                        BY <4>1, <6>1, <6>2, <6>4 DEF Similar, Near
                    <6>6. QED BY <3>5, <5>3, <6>1, <6>5 DEF Similar
                <5>4. CASE gs[i] # fact /\ gs[j] # fact
                    BY <3>6, <3>7, <4>1, <5>4 DEF WholeAreApart
                <5>5. QED BY <5>1, <5>2, <5>3, <5>4
            <4>2. ASSUME NEW i \in DOMAIN gs, gs[i].whole PROVE IsLatest(gs[i].value, gs[i].id, told')
                <5>1. CASE gs[i] = fact
                    BY <3>5, <3>8, <5>1
                <5>2. CASE gs[i] # fact
                    <6>1. i \in DOMAIN fs /\ gs[i] = fs[i] /\ fs[i].id # fact.id
                        BY <3>7, <5>2
                    <6>2. IsLatest(fs[i].value, fs[i].id, told)
                        BY <3>6, <4>2, <6>1 DEF WholeAreApart
                    <6>3. QED BY <3>8, <6>1, <6>2
                <5>3. QED BY <5>1, <5>2
            <4>3. QED BY <4>1, <4>2 DEF WholeAreApart
        <3>10. Len(known) <= StoreCapacity => Len(gs) <= StoreCapacity
            BY <3>3, <3>7, SemanticAssumption
        <3>11. QED BY <3>1, <3>7, <3>8, <3>9, <3>10 DEF gs
    <2>3. QED BY <2>1, <2>2
<1>4. UNCHANGED <<snapped, toLoad, factLoads>>
    BY <1>2
<1>5. QED BY <1>1, <1>3, <1>4 DEF FactInv

\* load puts in a fact that keeps a part of its key.
LEMMA LoadsFactKeeps == ASSUME FactInv, LoadsFact PROVE FactInv'
<1> DEFINE fact == Head(toLoad)
           gs == Placed(known, fact)
<1>1. /\ known \in Seq(Facts) /\ toLoad \in Seq(Facts) /\ toLoad # << >> /\ factLoads # 0
      /\ \A i \in DOMAIN toLoad : ~toLoad[i].whole
      /\ IdsAreApart(known) /\ WholeAreApart(known, told)
    BY DEF FactInv, LoadsFact
<1>2. /\ fact \in Facts /\ ~fact.whole
      /\ Tail(toLoad) \in Seq(Facts) /\ \A i \in DOMAIN Tail(toLoad) : ~Tail(toLoad)[i].whole
    <2>1. Len(toLoad) \in Nat /\ Len(toLoad) >= 1 /\ fact = toLoad[1] /\ 1 \in DOMAIN toLoad
        BY <1>1
    <2>2. /\ Tail(toLoad) \in Seq(Facts) /\ DOMAIN Tail(toLoad) = 1..Len(toLoad) - 1
          /\ \A i \in 1..Len(toLoad) - 1 : Tail(toLoad)[i] = toLoad[i + 1] /\ i + 1 \in DOMAIN toLoad
        BY <1>1, <2>1
    <2>3. QED BY <1>1, <2>1, <2>2, ElementOfSeq
<1>3. known' = gs /\ toLoad' = Tail(toLoad) /\ UNCHANGED <<told, snapped, factLoads>>
    BY DEF LoadsFact
<1> HIDE DEF fact
<1>4. /\ gs \in Seq(Facts) /\ IdsAreApart(gs)
      /\ \A i \in DOMAIN gs : gs[i] = fact \/ (i \in DOMAIN known /\ gs[i] = known[i] /\ known[i].id # fact.id)
    BY <1>1, <1>2, PlacedIsThere
<1> HIDE DEF gs
<1>5. WholeAreApart(gs, told)
    <2>1. ASSUME NEW i \in DOMAIN gs, gs[i].whole PROVE i \in DOMAIN known /\ gs[i] = known[i]
        BY <1>2, <1>4, <2>1
    <2>2. ASSUME NEW i \in DOMAIN gs, NEW j \in DOMAIN gs, i # j, gs[i].whole
          PROVE  ~Similar(gs[i].key, gs[j])
        <3>1. CASE gs[j].whole
            BY <1>1, <2>1, <2>2, <3>1 DEF WholeAreApart
        <3>2. CASE ~gs[j].whole
            BY <3>2 DEF Similar
        <3>3. QED BY <3>1, <3>2
    <2>3. ASSUME NEW i \in DOMAIN gs, gs[i].whole PROVE IsLatest(gs[i].value, gs[i].id, told)
        BY <1>1, <2>1, <2>3 DEF WholeAreApart
    <2>4. QED BY <2>2, <2>3 DEF WholeAreApart
<1>6. QED BY <1>1, <1>2, <1>3, <1>4, <1>5 DEF FactInv

\* SemanticMemory: whichever facts are taught, given up and loaded, those that were not loaded
\* are not similar to one another and have the value of the last call that returned their id.
THEOREM FactsStayApart == FactInit /\ [][FactNext]_factVars => []FactsAreApart
<1>1. FactInit => FactInv
    <2> SUFFICES ASSUME FactInit PROVE FactInv
        OBVIOUS
    <2>1. << >> \in Seq(Facts) /\ << >> \in Seq(FactIds) /\ Len(<< >>) = 0 /\ DOMAIN << >> = {}
        OBVIOUS
    <2>2. QED BY <2>1, SemanticAssumption DEF FactInit, FactInv, IdsAreApart, WholeAreApart
<1>2. FactInv /\ [FactNext]_factVars => FactInv'
    <2> SUFFICES ASSUME FactInv, [FactNext]_factVars PROVE FactInv'
        OBVIOUS
    <2>1. CASE SaveFacts
        <3>1. \A i \in DOMAIN known : known[i] \in Facts
            BY ElementOfSeq DEF FactInv
        <3>2. Len(known) \in Nat /\ DOMAIN known = 1..Len(known)
            BY DEF FactInv
        <3>3. \A i \in DOMAIN known : [known[i] EXCEPT !.whole = FALSE] \in Facts
            BY <3>1 DEF Facts
        <3>4. /\ snapped' \in [1..Len(known) -> Facts]
              /\ \A i \in DOMAIN snapped' : ~snapped'[i].whole
            <4>1. snapped' = [i \in DOMAIN known |-> [known[i] EXCEPT !.whole = FALSE]]
                BY <2>1 DEF SaveFacts
            <4>2. \A i \in DOMAIN known : ~[known[i] EXCEPT !.whole = FALSE].whole
                BY <3>1 DEF Facts
            <4>3. QED BY <3>2, <3>3, <4>1, <4>2
        <3>5. snapped' \in Seq(Facts)
            BY <3>2, <3>4
        <3>6. UNCHANGED <<known, told, toLoad, factLoads>>
            BY <2>1 DEF SaveFacts
        <3>7. QED BY <3>4, <3>5, <3>6 DEF FactInv
    <2>2. CASE LoadBegins
        BY <2>2 DEF LoadBegins, FactInv
    <2>3. QED BY <2>1, <2>2, StoreFactKeeps, LoadsFactKeeps DEF FactNext, factVars, FactInv
<1>3. FactInv => FactsAreApart
    <2> SUFFICES ASSUME FactInv PROVE FactsAreApart
        OBVIOUS
    <2>1. ASSUME NEW i \in DOMAIN known, known[i].whole
          PROVE  known[i].value = Max({c \in DOMAIN told : told[c] = known[i].id})
        <3> DEFINE answersOf == {c \in DOMAIN told : told[c] = known[i].id}
                   v == known[i].value
        <3>1. v \in answersOf /\ \A c \in answersOf : c <= v
            BY <2>1 DEF FactInv, WholeAreApart, IsLatest
        <3>2. answersOf \subseteq Nat
            BY DEF FactInv
        <3> HIDE DEF answersOf, v
        <3>3. \A x \in answersOf : (\A y \in answersOf : x >= y) => x = v
            BY <3>1, <3>2
        <3>4. v >= v /\ \A y \in answersOf : v >= y
            BY <3>1, <3>2
        <3>5. Max(answersOf) = v
            BY <3>1, <3>3, <3>4 DEF Max
        <3>6. QED BY <3>5 DEF answersOf, v
    <2>2. QED BY <2>1 DEF FactInv, FactsAreApart, WholeAreApart
<1>4. QED BY <1>1, <1>2, <1>3, PTL

-----------------------------------------------------------------------------
(* Functions that are defined from their last value back *)

\* What holds of b, and of k when it holds of k + 1, holds from a to b.
LEMMA DownwardInduction ==
    ASSUME NEW a \in Nat, NEW b \in Nat, NEW T, b \in T,
           \A k \in a..b - 1 : k + 1 \in T => k \in T
    PROVE  a..b \subseteq T
<1> SUFFICES ASSUME ~(a..b \subseteq T) PROVE FALSE
    OBVIOUS
<1> DEFINE missed == {d \in Nat : b - d \in a..b /\ b - d \notin T}
<1>1. PICK k \in a..b : k \notin T
    OBVIOUS
<1>2. b - k \in Nat /\ b - (b - k) = k
    BY <1>1
<1>3. missed \in SUBSET Nat /\ missed # {}
    <2>1. b - k \in missed
        BY <1>1, <1>2
    <2>2. QED BY <2>1
<1>4. PICK d \in missed : \A other \in missed : d <= other
    BY <1>3, LeastNumber
<1>5. d \in Nat /\ b - d \in a..b /\ b - d \notin T
    BY <1>4
<1>6. d # 0
    BY <1>5
<1>7. d - 1 \in Nat /\ b - (d - 1) \in a..b /\ b - (d - 1) = (b - d) + 1 /\ b - d \in a..b - 1
    BY <1>5, <1>6
<1>8. b - (d - 1) \notin T
    BY <1>5, <1>7
<1>9. d - 1 \in missed
    BY <1>7, <1>8
<1>10. QED BY <1>4, <1>5, <1>9

\* The function on a..b with the value base at b, whose value at k comes of that at later[k].
Unfolds(f, a, b, V, base, later, step) ==
    /\ f \in [a..b -> V] /\ f[b] = base
    /\ \A k \in a..b - 1 : f[k] = step[k][f[later[k]]]

LEMMA BackwardRecursion ==
    ASSUME NEW a \in Nat, NEW b \in Nat, a <= b, NEW V, NEW base \in V,
           NEW later \in [a..b - 1 -> a..b], \A k \in a..b - 1 : later[k] > k,
           NEW step \in [a..b - 1 -> [V -> V]]
    PROVE  \E f : Unfolds(f, a, b, V, base, later, step)
<1> DEFINE T == {k \in a..b : \E f : Unfolds(f, k, b, V, base, later, step)}
<1>1. b \in T
    <2> DEFINE f == [k \in b..b |-> base]
    <2>1. f \in [b..b -> V] /\ f[b] = base
        OBVIOUS
    <2>2. \A k \in b..b - 1 : FALSE
        OBVIOUS
    <2> HIDE DEF f
    <2>3. Unfolds(f, b, b, V, base, later, step)
        BY <2>1, <2>2 DEF Unfolds
    <2>4. QED BY <2>3
<1>2. ASSUME NEW k \in a..b - 1, k + 1 \in T PROVE k \in T
    <2>1. PICK f : Unfolds(f, k + 1, b, V, base, later, step)
        BY <1>2
    <2> DEFINE g == [i \in k..b |-> IF i = k THEN step[k][f[later[k]]] ELSE f[i]]
    <2>2. later[k] \in k + 1..b /\ k \in a..b
        <3>1. later[k] \in a..b /\ later[k] > k
            OBVIOUS
        <3>2. QED BY <3>1
    <2>3. f \in [k + 1..b -> V] /\ f[b] = base
        BY <2>1 DEF Unfolds
    <2>4. step[k][f[later[k]]] \in V
        BY <2>2, <2>3
    <2>5. /\ \A i \in k..b : i # k => i \in k + 1..b
          /\ \A i \in k..b : g[i] = IF i = k THEN step[k][f[later[k]]] ELSE f[i]
          /\ DOMAIN g = k..b /\ b \in k..b /\ b # k
        BY <2>2
    <2>6. g \in [k..b -> V] /\ g[b] = base
        BY <2>3, <2>4, <2>5
    <2>7. ASSUME NEW i \in k..b - 1 PROVE g[i] = step[i][g[later[i]]]
        <3>1. i \in a..b - 1 /\ i \in k..b
            BY <2>2
        <3>2. later[i] \in a..b /\ later[i] > i
            BY <3>1
        <3>3. later[i] \in k..b /\ later[i] # k
            BY <3>1, <3>2
        <3>4. g[later[i]] = f[later[i]]
            BY <2>5, <3>3
        <3>5. CASE i = k
            BY <2>5, <3>1, <3>4, <3>5
        <3>6. CASE i # k
            <4>1. i \in k + 1..b - 1
                BY <3>6
            <4>2. f[i] = step[i][f[later[i]]]
                BY <2>1, <4>1 DEF Unfolds
            <4>3. QED BY <2>5, <3>1, <3>4, <3>6, <4>2
        <3>7. QED BY <3>5, <3>6
    <2> HIDE DEF g
    <2>8. Unfolds(g, k, b, V, base, later, step)
        BY <2>6, <2>7 DEF Unfolds
    <2>9. QED BY <2>2, <2>8
<1> HIDE DEF T
<1>3. a..b \subseteq T
    BY <1>1, <1>2, DownwardInduction
<1>4. a \in T
    BY <1>3
<1>5. QED BY <1>4 DEF T

-----------------------------------------------------------------------------
(* The advantages of a rollout *)

RolloutCells == (0..GridSize - 1) \X (0..GridSize - 1)
RolledSteps == [state : RolloutCells, next : RolloutCells, reward : Int, done : BOOLEAN]

LEMMA ValueIsNat == ASSUME NEW cell \in RolloutCells PROVE Value(cell) \in Nat
    BY RolloutsAssumption DEF RolloutCells, Value

\* What was earned from i to j, by the first step of it.
LEMMA EarnedFromFirst ==
    ASSUME NEW rolls \in Seq(RolledSteps), NEW j \in 1..Len(rolls)
    PROVE  /\ Earned(rolls, j, j) = rolls[j].reward
           /\ \A i \in 1..j - 1 : Earned(rolls, i, j) = rolls[i].reward + Earned(rolls, i + 1, j)
           /\ \A i \in 1..j : Earned(rolls, i, j) \in Int
<1> DEFINE later == [k \in 1..j - 1 |-> k + 1]
           step == [k \in 1..j - 1 |-> [v \in Int |-> rolls[k].reward + v]]
<1>1. \A k \in 1..j : rolls[k] \in RolledSteps /\ rolls[k].reward \in Int
    <2>1. \A k \in 1..j : k \in 1..Len(rolls)
        OBVIOUS
    <2>2. \A k \in 1..j : rolls[k] \in RolledSteps
        BY <2>1, ElementOfSeq
    <2>3. QED BY <2>2 DEF RolledSteps
<1>2. /\ later \in [1..j - 1 -> 1..j] /\ \A k \in 1..j - 1 : later[k] > k /\ later[k] = k + 1
      /\ step \in [1..j - 1 -> [Int -> Int]]
      /\ \A k \in 1..j - 1, v \in Int : step[k][v] = rolls[k].reward + v
    BY <1>1
<1> HIDE DEF later, step
<1>3. PICK all : Unfolds(all, 1, j, Int, rolls[j].reward, later, step)
    <2>1. 1 <= j /\ j \in Nat /\ 1 \in Nat /\ rolls[j].reward \in Int
        BY <1>1
    <2>2. QED BY <1>2, <2>1, BackwardRecursion
<1>4. /\ all \in [1..j -> Int] /\ all[j] = rolls[j].reward
      /\ \A k \in 1..j - 1 : all[k] = rolls[k].reward + all[k + 1]
    <2>1. ASSUME NEW k \in 1..j - 1 PROVE all[k] = rolls[k].reward + all[k + 1]
        <3>1. all[k] = step[k][all[later[k]]] /\ later[k] = k + 1 /\ all \in [1..j -> Int]
            BY <1>2, <1>3, <2>1 DEF Unfolds
        <3>2. k + 1 \in 1..j
            OBVIOUS
        <3>3. all[k + 1] \in Int
            BY <3>1, <3>2
        <3>4. QED BY <1>2, <3>1, <3>3
    <2>2. QED BY <1>3, <2>1 DEF Unfolds
<1>5. ASSUME NEW i \in 1..j PROVE Earned(rolls, i, j) = all[i]
    <2> DEFINE Sums(sum) == sum = [k \in i..j |-> rolls[k].reward + (IF k = j THEN 0 ELSE sum[k + 1])]
               f == [k \in i..j |-> all[k]]
    <2>1. \A k \in i..j : k \in 1..j /\ (k # j => k \in 1..j - 1 /\ k + 1 \in i..j)
        OBVIOUS
    <2>2. \A k \in i..j : all[k] = rolls[k].reward + (IF k = j THEN 0 ELSE all[k + 1])
        BY <1>1, <1>4, <2>1
    <2>3. Sums(f)
        BY <2>1, <2>2
    <2>4. PICK s : s = (CHOOSE sum : Sums(sum)) /\ Sums(s)
        BY <2>3
    <2>5. Earned(rolls, i, j) = s[i]
        BY <2>4 DEF Earned
    <2>6. /\ \A k \in i..j : s[k] = rolls[k].reward + (IF k = j THEN 0 ELSE s[k + 1])
        BY <2>4
    <2> DEFINE Same == {k \in i..j : s[k] = all[k]}
    <2>7. i \in Nat /\ j \in Nat /\ i <= j
        OBVIOUS
    <2>8. j \in Same
        BY <1>1, <1>4, <2>6, <2>7
    <2>9. \A k \in i..j - 1 : k + 1 \in Same => k \in Same
        BY <2>2, <2>6, <2>7
    <2>10. i..j \subseteq Same
        <3> HIDE DEF Same
        <3>1. QED BY <2>7, <2>8, <2>9, DownwardInduction
    <2>11. QED BY <2>5, <2>7, <2>10
<1>6. \A i \in 1..j - 1 : i \in 1..j /\ i + 1 \in 1..j
    OBVIOUS
<1>7. j \in 1..j
    OBVIOUS
<1>8. QED BY <1>4, <1>5, <1>6, <1>7

EndsEpisode(rolls, i, j) ==
    /\ j \in i..Len(rolls) /\ (rolls[j].done \/ j = Len(rolls))
    /\ \A k \in i..j - 1 : ~rolls[k].done

LEMMA EpisodeHasEnd ==
    ASSUME NEW rolls \in Seq(RolledSteps), NEW i \in 1..Len(rolls)
    PROVE  /\ EndsEpisode(rolls, i, EpisodeEnd(rolls, i))
           /\ \A j : EndsEpisode(rolls, i, j) => EpisodeEnd(rolls, i) = j
<1> DEFINE ends == {j \in i..Len(rolls) : rolls[j].done \/ j = Len(rolls)}
<1>1. Len(rolls) \in Nat /\ Len(rolls) \in ends /\ ends \in SUBSET Nat
    OBVIOUS
<1>2. PICK j \in ends : \A k \in ends : j <= k
    BY <1>1, LeastNumber
<1>3. EndsEpisode(rolls, i, j)
    BY <1>1, <1>2 DEF EndsEpisode
<1>4. EndsEpisode(rolls, i, EpisodeEnd(rolls, i))
    BY <1>3 DEF EndsEpisode, EpisodeEnd
<1>5. ASSUME NEW m, NEW n, EndsEpisode(rolls, i, m), EndsEpisode(rolls, i, n) PROVE m = n
    <2>1. m \in Int /\ n \in Int
        BY <1>1, <1>5 DEF EndsEpisode
    <2>2. ~(m < n)
        BY <1>1, <1>5 DEF EndsEpisode
    <2>3. ~(n < m)
        BY <1>1, <1>5 DEF EndsEpisode
    <2>4. QED BY <2>1, <2>2, <2>3
<1>6. QED BY <1>4, <1>5

LEMMA EpisodeGoesOn ==
    ASSUME NEW rolls \in Seq(RolledSteps), NEW i \in 1..Len(rolls) - 1
    PROVE  IF rolls[i].done THEN EpisodeEnd(rolls, i) = i
           ELSE EpisodeEnd(rolls, i) = EpisodeEnd(rolls, i + 1) /\ EpisodeEnd(rolls, i) > i
<1>1. Len(rolls) \in Nat /\ i \in Nat /\ i \in 1..Len(rolls) /\ i + 1 \in 1..Len(rolls)
    OBVIOUS
<1>2. CASE rolls[i].done
    <2>1. EndsEpisode(rolls, i, i)
        BY <1>1, <1>2 DEF EndsEpisode
    <2>2. QED BY <1>1, <1>2, <2>1, EpisodeHasEnd
<1>3. CASE ~rolls[i].done
    <2>1. PICK j : j = EpisodeEnd(rolls, i + 1) /\ EndsEpisode(rolls, i + 1, j)
        BY <1>1, EpisodeHasEnd
    <2>2. j \in i + 1..Len(rolls)
        BY <2>1 DEF EndsEpisode
    <2>3. \A k \in i..j - 1 : k = i \/ k \in i + 1..j - 1
        BY <1>1, <2>2
    <2>4. EndsEpisode(rolls, i, j)
        BY <1>1, <1>3, <2>1, <2>2, <2>3 DEF EndsEpisode
    <2>5. EpisodeEnd(rolls, i) = j
        BY <1>1, <2>4, EpisodeHasEnd
    <2>6. QED BY <1>1, <1>3, <2>1, <2>2, <2>5
<1>4. QED BY <1>2, <1>3

LEMMA DeltaIsInt ==
    ASSUME rollout \in Seq(RolledSteps), NEW k \in 1..Len(rollout), NEW v \in Int
    PROVE  Delta(k, v) \in Int /\ Value(rollout[k].state) \in Int
<1>1. rollout[k] \in RolledSteps
    BY ElementOfSeq
<1>2. rollout[k].reward \in Int /\ rollout[k].state \in RolloutCells
    BY <1>1 DEF RolledSteps
<1>3. Value(rollout[k].state) \in Int
    BY <1>2, ValueIsNat
<1>4. QED BY <1>2, <1>3 DEF Delta

\* gae's values: each of its step's, and of the next one's where the episode goes on.
LEMMA GaeIs ==
    ASSUME rollout \in Seq(RolledSteps), Len(rollout) >= 1, NEW final \in Int
    PROVE  /\ Gae(final) \in [1..Len(rollout) -> Int]
           /\ Gae(final)[Len(rollout)] = Delta(Len(rollout), final)
           /\ \A i \in 1..Len(rollout) - 1 :
                 Gae(final)[i] = Delta(i, Value(rollout[i + 1].state))
                                 + (IF rollout[i].done THEN 0 ELSE Gae(final)[i + 1])
<1> DEFINE n == Len(rollout)
           base == Delta(n, final)
           own == [k \in 1..n - 1 |-> Delta(k, Value(rollout[k + 1].state))]
           later == [k \in 1..n - 1 |-> k + 1]
           step == [k \in 1..n - 1 |-> [v \in Int |-> own[k] + (IF rollout[k].done THEN 0 ELSE v)]]
           Adv(adv) == adv = [i \in 1..n |-> IF i = n THEN Delta(n, final)
                                             ELSE Delta(i, Value(rollout[i + 1].state))
                                                  + (IF rollout[i].done THEN 0 ELSE adv[i + 1])]
<1>1. n \in Nat /\ 1 <= n /\ n \in 1..n /\ \A k \in 1..n - 1 : k \in 1..n /\ k + 1 \in 1..n /\ k # n
    OBVIOUS
<1>4. base \in Int
    BY <1>1, DeltaIsInt
<1>5. \A k \in 1..n - 1 : Delta(k, Value(rollout[k + 1].state)) \in Int
    BY <1>1, DeltaIsInt
<1>6. own \in [1..n - 1 -> Int] /\ \A k \in 1..n - 1 : own[k] = Delta(k, Value(rollout[k + 1].state))
    BY <1>5
<1> HIDE DEF own
<1>7. /\ later \in [1..n - 1 -> 1..n] /\ \A k \in 1..n - 1 : later[k] > k /\ later[k] = k + 1
      /\ step \in [1..n - 1 -> [Int -> Int]]
      /\ \A k \in 1..n - 1, v \in Int : step[k][v] = own[k] + (IF rollout[k].done THEN 0 ELSE v)
    <2>1. \A k \in 1..n - 1, v \in Int : own[k] + (IF rollout[k].done THEN 0 ELSE v) \in Int
        BY <1>6
    <2>2. later \in [1..n - 1 -> 1..n] /\ \A k \in 1..n - 1 : later[k] > k /\ later[k] = k + 1
        BY <1>1
    <2> HIDE DEF later, n
    <2>3. step \in [1..n - 1 -> [Int -> Int]]
        BY <2>1
    <2>4. \A k \in 1..n - 1, v \in Int : step[k][v] = own[k] + (IF rollout[k].done THEN 0 ELSE v)
        OBVIOUS
    <2>5. QED BY <2>2, <2>3, <2>4
<1> HIDE DEF later, step, base, n
<1>8. PICK all : Unfolds(all, 1, n, Int, base, later, step)
    <2>1. 1 \in Nat
        OBVIOUS
    <2>2. QED BY <1>1, <1>4, <1>7, <2>1, BackwardRecursion
<1>9. /\ all \in [1..n -> Int] /\ all[n] = base
      /\ \A k \in 1..n - 1 : all[k] = own[k] + (IF rollout[k].done THEN 0 ELSE all[k + 1])
    <2>1. ASSUME NEW k \in 1..n - 1 PROVE all[k] = own[k] + (IF rollout[k].done THEN 0 ELSE all[k + 1])
        <3>1. all[k] = step[k][all[later[k]]] /\ later[k] = k + 1 /\ all \in [1..n -> Int]
            BY <1>7, <1>8, <2>1 DEF Unfolds
        <3>2. all[k + 1] \in Int
            BY <1>1, <3>1
        <3>3. QED BY <1>7, <3>1, <3>2
    <2>2. QED BY <1>8, <2>1 DEF Unfolds
<1>10. \A i \in 1..n : all[i] = IF i = n THEN Delta(n, final)
                                ELSE Delta(i, Value(rollout[i + 1].state))
                                     + (IF rollout[i].done THEN 0 ELSE all[i + 1])
    <2>1. \A i \in 1..n : i # n => i \in 1..n - 1
        BY <1>1
    <2>2. QED BY <1>6, <1>9, <2>1 DEF base
<1>11. Adv(all)
    BY <1>9, <1>10
<1>12. PICK g : g = (CHOOSE adv : Adv(adv)) /\ Adv(g)
    BY <1>11
<1>13. Gae(final) = [i \in 1..n |-> g[i]] /\ g = [i \in 1..n |-> g[i]]
    <2>1. g = [i \in 1..n |-> g[i]]
        BY <1>12
    <2>2. Gae(final) = [i \in 1..n |-> (CHOOSE adv : Adv(adv))[i]]
        BY DEF Gae, n
    <2>3. QED BY <1>12, <2>1, <2>2
<1>14. /\ DOMAIN g = 1..n
       /\ \A i \in 1..n : g[i] = IF i = n THEN Delta(n, final)
                                 ELSE Delta(i, Value(rollout[i + 1].state))
                                      + (IF rollout[i].done THEN 0 ELSE g[i + 1])
    BY <1>12
<1> DEFINE Typed == {k \in 1..n : g[k] \in Int}
<1>15. n \in Typed
    BY <1>1, <1>4, <1>14 DEF base
<1>16. \A k \in 1..n - 1 : k + 1 \in Typed => k \in Typed
    BY <1>1, <1>5, <1>14
<1>17. 1..n \subseteq Typed
    <2> HIDE DEF Typed
    <2>1. 1 \in Nat
        OBVIOUS
    <2>2. QED BY <1>1, <1>15, <1>16, <2>1, DownwardInduction
<1>18. g \in [1..n -> Int]
    BY <1>13, <1>17
<1>19. QED BY <1>1, <1>13, <1>14, <1>18 DEF n

\* Summed up to the end of the episode, the values of the states between cancel out.
LEMMA GaeIsEpisodic ==
    ASSUME rollout \in Seq(RolledSteps), Len(rollout) >= 1,
           NEW last, last = rollout[Len(rollout)],
           NEW final, final = (IF last.done THEN 0 ELSE Value(last.state)),
           NEW i \in 1..Len(rollout), NEW j, j = EpisodeEnd(rollout, i)
    PROVE  Gae(final)[i] = Earned(rollout, i, j) + (IF rollout[j].done THEN 0 ELSE Value(last.state))
                           - Value(rollout[i].state)
<1> DEFINE n == Len(rollout)
           end(k) == EpisodeEnd(rollout, k)
           rest(k) == IF rollout[end(k)].done THEN 0 ELSE Value(last.state)
           T == {k \in 1..n : Gae(final)[k] = Earned(rollout, k, end(k)) + rest(k) - Value(rollout[k].state)}
<1>1. n \in Nat /\ 1 <= n /\ 1 \in Nat /\ n \in 1..n /\ \A k \in 1..n - 1 : k \in 1..n /\ k + 1 \in 1..n
    OBVIOUS
<1>2. \A k \in 1..n : rollout[k] \in RolledSteps /\ Value(rollout[k].state) \in Int /\ rollout[k].reward \in Int
    <2> SUFFICES ASSUME NEW k \in 1..n
                 PROVE  rollout[k] \in RolledSteps /\ Value(rollout[k].state) \in Int /\ rollout[k].reward \in Int
        OBVIOUS
    <2>1. rollout[k] \in RolledSteps
        BY ElementOfSeq
    <2>2. 0 \in Int
        OBVIOUS
    <2>3. QED BY <2>1, <2>2, DeltaIsInt DEF RolledSteps
<1>3. final \in Int /\ Value(last.state) \in Int
    BY <1>1, <1>2
<1>4. /\ Gae(final) \in [1..n -> Int] /\ Gae(final)[n] = Delta(n, final)
      /\ \A k \in 1..n - 1 : Gae(final)[k] = Delta(k, Value(rollout[k + 1].state))
                                             + (IF rollout[k].done THEN 0 ELSE Gae(final)[k + 1])
    BY <1>3, GaeIs
<1> HIDE DEF n
<1>5. n \in T
    <2>1. EndsEpisode(rollout, n, n)
        BY <1>1 DEF EndsEpisode, n
    <2>2. end(n) = n
        BY <1>1, <2>1, EpisodeHasEnd DEF n
    <2>3. Earned(rollout, n, n) = rollout[n].reward
        BY <1>1, EarnedFromFirst DEF n
    <2>4. Gae(final)[n] = rollout[n].reward + (IF rollout[n].done THEN 0 ELSE final) - Value(rollout[n].state)
        BY <1>4 DEF Delta
    <2>5. last = rollout[n] /\ rest(n) = IF rollout[n].done THEN 0 ELSE Value(last.state)
        BY <2>2 DEF n
    <2>6. Gae(final)[n] = Earned(rollout, n, end(n)) + rest(n) - Value(rollout[n].state)
        <3> HIDE DEF rest
        <3>1. CASE rollout[n].done
            BY <1>1, <1>2, <1>3, <2>2, <2>3, <2>4, <2>5, <3>1
        <3>2. CASE ~rollout[n].done
            BY <1>1, <1>2, <1>3, <2>2, <2>3, <2>4, <2>5, <3>2
        <3>3. QED BY <3>1, <3>2
    <2>7. QED BY <1>1, <2>6
<1>6. ASSUME NEW k \in 1..n - 1, k + 1 \in T PROVE k \in T
    <2>1. k \in 1..n /\ k + 1 \in 1..n /\ k \in Int
        BY <1>1
    <2>2. Gae(final)[k] = rollout[k].reward + (IF rollout[k].done THEN 0 ELSE Value(rollout[k + 1].state))
                          - Value(rollout[k].state) + (IF rollout[k].done THEN 0 ELSE Gae(final)[k + 1])
        BY <1>4 DEF Delta
    <2>3. IF rollout[k].done THEN end(k) = k ELSE end(k) = end(k + 1) /\ end(k) > k
        BY EpisodeGoesOn DEF n
    <2>4. end(k) \in k..n
        BY <2>1, EpisodeHasEnd DEF n, EndsEpisode
    <2>5. CASE rollout[k].done
        <3>1. Earned(rollout, k, k) = rollout[k].reward
            BY <2>1, EarnedFromFirst DEF n
        <3>2. end(k) = k /\ rest(k) = 0
            BY <2>3, <2>5
        <3>3. Gae(final)[k] = rollout[k].reward - Value(rollout[k].state)
            BY <1>2, <2>1, <2>2, <2>5
        <3> HIDE DEF rest, end
        <3>4. Gae(final)[k] = Earned(rollout, k, end(k)) + rest(k) - Value(rollout[k].state)
            BY <1>2, <2>1, <3>1, <3>2, <3>3
        <3>5. QED BY <2>1, <3>4
    <2>6. CASE ~rollout[k].done
        <3>1. end(k) = end(k + 1) /\ end(k) > k /\ rest(k) = rest(k + 1)
            BY <2>3, <2>6
        <3>2. k \in 1..end(k) - 1 /\ k + 1 \in 1..end(k) /\ end(k) \in 1..n
            BY <1>1, <2>1, <2>4, <3>1
        <3>3. /\ Earned(rollout, k, end(k)) = rollout[k].reward + Earned(rollout, k + 1, end(k))
              /\ Earned(rollout, k + 1, end(k)) \in Int
            BY <3>2, EarnedFromFirst DEF n
        <3>4. Gae(final)[k] = rollout[k].reward + Value(rollout[k + 1].state) - Value(rollout[k].state)
                              + Gae(final)[k + 1]
            BY <1>2, <2>1, <2>2, <2>6
        <3>5. rest(k + 1) \in Int
            BY <1>3
        <3>6. Gae(final)[k + 1] = Earned(rollout, k + 1, end(k + 1)) + rest(k + 1) - Value(rollout[k + 1].state)
            BY <1>6
        <3> HIDE DEF rest, end
        <3> DEFINE after == Earned(rollout, k + 1, end(k))
                   value == Value(rollout[k].state)
                   next == Value(rollout[k + 1].state)
                   reward == rollout[k].reward
        <3>7. Gae(final)[k] = Earned(rollout, k, end(k)) + rest(k) - Value(rollout[k].state)
            <4>1. value \in Int /\ next \in Int /\ reward \in Int /\ rest(k) \in Int /\ after \in Int
                BY <1>2, <2>1, <3>1, <3>3, <3>5
            <4>2. Gae(final)[k + 1] = after + rest(k) - next
                BY <3>1, <3>6
            <4>3. Earned(rollout, k, end(k)) = reward + after /\ Gae(final)[k] = reward + next - value + Gae(final)[k + 1]
                BY <3>3, <3>4
            <4> HIDE DEF after, value, next, reward
            <4>4. reward + next - value + (after + rest(k) - next) = (reward + after) + rest(k) - value
                BY <4>1
            <4>5. QED BY <4>2, <4>3, <4>4 DEF value
        <3>8. QED BY <2>1, <3>7 DEF rest, end
    <2>7. QED BY <2>5, <2>6
<1>7. 1..n \subseteq T
    <2> HIDE DEF T
    <2>1. QED BY <1>1, <1>5, <1>6, DownwardInduction
<1>8. i \in T
    BY <1>7 DEF n
<1>9. QED BY <1>8

RolloutInv ==
    /\ place \in RolloutCells /\ facing \in RolloutCells /\ rollout \in Seq(RolledSteps)
    /\ Len(advantages) > 0 => Len(rollout) = RolloutSteps
    /\ AdvantagesAreEpisodic

LEMMA CollectStepKeeps ==
    ASSUME RolloutInv, NEW move \in Moves, CollectStep(move) PROVE RolloutInv'
<1> DEFINE out == Outcome(move)
<1>1. /\ place \in RolloutCells /\ facing \in RolloutCells /\ rollout \in Seq(RolledSteps)
      /\ GridSize \in Nat /\ GridSize > 1
    BY RolloutsAssumption DEF RolloutInv
<1>2. out.to \in RolloutCells /\ out.reward \in Int /\ out.done \in BOOLEAN
    BY <1>1 DEF Outcome, Moved, RolloutCells
<1>3. /\ rollout' = Append(rollout, [state |-> facing, next |-> out.to, reward |-> out.reward, done |-> out.done])
      /\ place' = (IF out.done THEN Home ELSE out.to) /\ facing' = (IF out.done THEN Home ELSE out.to)
      /\ UNCHANGED <<advantages, bootstrap>> /\ Len(rollout) < RolloutSteps
    BY DEF CollectStep
<1> HIDE DEF out
<1>4. Home \in RolloutCells
    BY <1>1 DEF Home, RolloutCells
<1>5. rollout' \in Seq(RolledSteps) /\ place' \in RolloutCells /\ facing' \in RolloutCells
    BY <1>1, <1>2, <1>3, <1>4 DEF RolledSteps
<1>6. ~(Len(advantages) > 0)
    BY <1>1, <1>3, RolloutsAssumption DEF RolloutInv
<1>7. QED BY <1>3, <1>5, <1>6 DEF RolloutInv, AdvantagesAreEpisodic

LEMMA PpoUpdateKeeps == ASSUME RolloutInv, PpoUpdate PROVE RolloutInv'
<1> DEFINE n == Len(rollout)
           final == IF rollout[n].done THEN 0 ELSE Value(rollout[n].state)
<1>1. /\ place \in RolloutCells /\ facing \in RolloutCells /\ rollout \in Seq(RolledSteps)
      /\ n = RolloutSteps /\ RolloutSteps \in Nat \ {0}
    BY RolloutsAssumption DEF RolloutInv, PpoUpdate
<1>2. /\ bootstrap' = rollout[n].state /\ advantages' = Gae(final)
      /\ UNCHANGED <<place, facing, rollout>>
    BY <1>1 DEF PpoUpdate
<1>3. final \in Int
    <2>1. n \in 1..Len(rollout) /\ 0 \in Int
        BY <1>1
    <2>2. Value(rollout[n].state) \in Int
        BY <1>1, <2>1, DeltaIsInt
    <2>3. QED BY <2>2
<1>4. \A i \in 1..n : Gae(final)[i] = Earned(rollout, i, EpisodeEnd(rollout, i))
                                      + (IF rollout[EpisodeEnd(rollout, i)].done THEN 0 ELSE Value(rollout[n].state))
                                      - Value(rollout[i].state)
    BY <1>1, GaeIsEpisodic
<1> HIDE DEF final
<1>5. Gae(final) \in [1..n -> Int]
    <2>1. Len(rollout) >= 1
        BY <1>1
    <2>2. QED BY <1>1, <1>3, <2>1, GaeIs
<1>6. Len(advantages') = n
    <2>1. Gae(final) \in Seq(Int) /\ Len(Gae(final)) = n
        BY <1>1, <1>5
    <2>2. QED BY <1>2, <2>1
<1>7. AdvantagesAreEpisodic'
    <2> SUFFICES ASSUME NEW i \in 1..n
                 PROVE  advantages'[i] = Earned(rollout, i, EpisodeEnd(rollout, i))
                              + (IF rollout[EpisodeEnd(rollout, i)].done THEN 0 ELSE Value(bootstrap'))
                              - Value(rollout[i].state)
        BY <1>2, <1>6 DEF AdvantagesAreEpisodic, Value
    <2>1. QED BY <1>2, <1>4
<1>8. QED BY <1>1, <1>2, <1>7 DEF RolloutInv

LEMMA EvaluationKeeps ==
    ASSUME RolloutInv, place' \in RolloutCells, facing' \in RolloutCells, UNCHANGED <<rollout, advantages, bootstrap>>
    PROVE  RolloutInv'
    BY DEF RolloutInv, AdvantagesAreEpisodic

\* AgentRLHarness and PPO, on every grid, whatever train and evaluate do to the environment
\* they share: an advantage is what was earned to the end of its episode.
THEOREM AdvantagesStayEpisodic == RolloutSpec => []AdvantagesAreEpisodic
<1>1. Home \in RolloutCells
    BY RolloutsAssumption DEF Home, RolloutCells
<1>2. RolloutInit => RolloutInv
    BY <1>1 DEF RolloutInit, RolloutInv, AdvantagesAreEpisodic
<1>3. RolloutInv /\ [RolloutNext]_rolloutVars => RolloutInv'
    <2> SUFFICES ASSUME RolloutInv, [RolloutNext]_rolloutVars PROVE RolloutInv'
        OBVIOUS
    <2>1. ASSUME NEW move \in Moves, EvaluateSteps(move) PROVE RolloutInv'
        <3>1. Outcome(move).to \in RolloutCells
            BY RolloutsAssumption DEF RolloutInv, Outcome, Moved, RolloutCells
        <3>2. QED BY <2>1, <3>1, EvaluationKeeps DEF EvaluateSteps, RolloutInv
    <2>2. CASE EvaluateResets
        BY <1>1, <2>2, EvaluationKeeps DEF EvaluateResets, RolloutInv
    <2>3. CASE NextRollout
        BY <1>1, <2>3 DEF NextRollout, RolloutInv, AdvantagesAreEpisodic
    <2>4. CASE UNCHANGED rolloutVars
        BY <2>4, EvaluationKeeps DEF rolloutVars, RolloutInv
    <2>5. QED BY <2>1, <2>2, <2>3, <2>4, CollectStepKeeps, PpoUpdateKeeps DEF RolloutNext
<1>4. QED BY <1>2, <1>3, PTL DEF RolloutSpec, RolloutInv

-----------------------------------------------------------------------------
LearnersSpec ==
    /\ EpisodicSpec /\ (WindowInit /\ [][WindowNext]_windowVars) /\ (FactInit /\ [][FactNext]_factVars)
    /\ DqnSpec /\ RolloutSpec /\ FeedbackSpec

\* The memory, the learners and the feedback loop side by side, each at its own pace: for
\* every capacity, grid and number of threads, what is learned from is what happened.
THEOREM AlwaysLearnsFromItsData == LearnersSpec => []LearnsFromItsData
    BY EvictionAlwaysFinds, WeightsAreNeverNewer, FactsStayApart, BatchesAlwaysRecent,
       AdvantagesStayEpisodic, AlwaysTrainedInOrder, PTL DEF LearnersSpec, LearnsFromItsData

-----------------------------------------------------------------------------
(* The PackBits code *)

LEMMA GreatestNumber ==
    ASSUME NEW b \in Nat, NEW T \in SUBSET (1..b), T # {}
    PROVE  LET g == CHOOSE k \in T : \A m \in T : m <= k
           IN g \in T /\ \A m \in T : m <= g
<1> DEFINE U == {d \in 0..b : b - d \in T}
<1>1. PICK x \in T : x \in 1..b
    OBVIOUS
<1>2. b - x \in 0..b /\ b - (b - x) = x
    BY <1>1
<1>3. U \in SUBSET Nat /\ U # {}
    <2>1. b - x \in U
        BY <1>1, <1>2
    <2>2. \A d \in U : d \in 0..b /\ d \in Nat
        OBVIOUS
    <2> HIDE DEF U
    <2>3. QED BY <2>1, <2>2
<1>4. PICK d \in U : \A other \in U : d <= other
    BY <1>3, LeastNumber
<1>5. b - d \in T /\ d \in 0..b
    BY <1>4
<1>6. ASSUME NEW m \in T PROVE m <= b - d
    <2>1. m \in 1..b /\ b - m \in 0..b /\ b - (b - m) = m
        OBVIOUS
    <2>2. b - m \in U
        BY <2>1
    <2>3. d <= b - m
        BY <1>4, <2>2
    <2>4. QED BY <1>5, <2>1, <2>3
<1>7. \E k \in T : \A m \in T : m <= k
    BY <1>5, <1>6
<1>8. QED BY <1>7

\* The packets that the encoder makes.
RunsOf == {b \in Seq(Nat) : Len(b) \in 1..RunMax}
Packets == {Literal(b) : b \in RunsOf} \cup {Repeat(n, b) : n \in 2..RunMax, b \in Nat}

LEMMA LiteralIsUnpacked == ASSUME NEW b \in RunsOf PROVE Literal(b) \in Packets /\ Unpacked(Literal(b)) = b
<1>1. Len(b) - 1 < RunMax
    BY AgentImagesAssumption DEF RunsOf
<1>2. QED BY <1>1 DEF Unpacked, Literal, Packets

LEMMA RepeatIsUnpacked ==
    ASSUME NEW n \in 2..RunMax, NEW b \in Nat
    PROVE  Repeat(n, b) \in Packets /\ Unpacked(Repeat(n, b)) = [k \in 1..n |-> b]
<1> DEFINE h == 2 * RunMax + 1 - n
<1>1. RunMax \in Nat /\ h \in Nat /\ ~(h < RunMax) /\ h # RunMax /\ 2 * RunMax + 1 - h = n
    BY AgentImagesAssumption
<1>2. Repeat(n, b).header = h /\ Repeat(n, b).bytes[1] = b
    BY DEF Repeat
<1> HIDE DEF h
<1>3. Unpacked(Repeat(n, b)) = [k \in 1..n |-> b]
    BY <1>1, <1>2 DEF Unpacked
<1>4. QED BY <1>3 DEF Packets

LEMMA UnpackedIsSeq == ASSUME NEW p \in Packets PROVE Unpacked(p) \in Seq(Nat)
<1>1. CASE \E b \in RunsOf : p = Literal(b)
    BY <1>1, LiteralIsUnpacked DEF RunsOf
<1>2. CASE \E n \in 2..RunMax, b \in Nat : p = Repeat(n, b)
    <2>1. PICK n \in 2..RunMax, b \in Nat : p = Repeat(n, b)
        BY <1>2
    <2>2. n \in Nat /\ Unpacked(p) = [k \in 1..n |-> b]
        BY <2>1, RepeatIsUnpacked, AgentImagesAssumption
    <2>3. QED BY <2>2
<1>3. QED BY <1>1, <1>2 DEF Packets

Decodes(f, packets) ==
    /\ f \in [1..Len(packets) + 1 -> Seq(Nat)] /\ f[Len(packets) + 1] = << >>
    /\ \A k \in 1..Len(packets) : f[k] = Unpacked(packets[k]) \o f[k + 1]

LEMMA DecodeIs ==
    ASSUME NEW packets \in Seq(Packets)
    PROVE  \E f : Decodes(f, packets) /\ RleDecode(packets) = f[1]
<1> DEFINE n == Len(packets)
           part == [k \in 1..n |-> Unpacked(packets[k])]
           later == [k \in 1..n |-> k + 1]
           step == [k \in 1..n |-> [v \in Seq(Nat) |-> part[k] \o v]]
           Dec(f) == f = [k \in 1..n + 1 |-> IF k > n THEN << >> ELSE Unpacked(packets[k]) \o f[k + 1]]
<1>1. n \in Nat /\ n + 1 \in Nat /\ 1 <= n + 1 /\ (n + 1) - 1 = n
    OBVIOUS
<1>2. part \in [1..n -> Seq(Nat)] /\ \A k \in 1..n : part[k] = Unpacked(packets[k])
    BY UnpackedIsSeq
<1> HIDE DEF part
<1>3. later \in [1..n -> 1..n + 1] /\ \A k \in 1..n : later[k] > k /\ later[k] = k + 1
    BY <1>1
<1>4. /\ step \in [1..n -> [Seq(Nat) -> Seq(Nat)]]
      /\ \A k \in 1..n, v \in Seq(Nat) : step[k][v] = part[k] \o v
    <2>1. \A k \in 1..n, v \in Seq(Nat) : part[k] \o v \in Seq(Nat)
        BY <1>2
    <2>2. QED BY <2>1
<1> HIDE DEF later, step, n
<1>5. PICK all : Unfolds(all, 1, n + 1, Seq(Nat), << >>, later, step)
    <2>1. 1 \in Nat /\ << >> \in Seq(Nat)
        OBVIOUS
    <2>2. later \in [1..(n + 1) - 1 -> 1..n + 1] /\ step \in [1..(n + 1) - 1 -> [Seq(Nat) -> Seq(Nat)]]
          /\ \A k \in 1..(n + 1) - 1 : later[k] > k
        BY <1>1, <1>3, <1>4
    <2>3. QED BY <1>1, <2>1, <2>2, BackwardRecursion
<1>6. all \in [1..n + 1 -> Seq(Nat)] /\ all[n + 1] = << >> /\ \A k \in 1..n : all[k] = step[k][all[later[k]]]
    BY <1>1, <1>5 DEF Unfolds
<1>7. ASSUME NEW k \in 1..n PROVE all[k] = Unpacked(packets[k]) \o all[k + 1]
    <2>1. k + 1 \in 1..n + 1 /\ later[k] = k + 1
        BY <1>1, <1>3
    <2>2. all[k + 1] \in Seq(Nat)
        BY <1>6, <2>1
    <2>3. all[k] = step[k][all[k + 1]]
        BY <1>6, <2>1
    <2>4. step[k][all[k + 1]] = part[k] \o all[k + 1]
        BY <1>4, <2>2
    <2>5. QED BY <1>2, <2>3, <2>4
<1>8. \A k \in 1..n + 1 : all[k] = IF k > n THEN << >> ELSE Unpacked(packets[k]) \o all[k + 1]
    <2>1. \A k \in 1..n + 1 : (k > n /\ k = n + 1) \/ (~(k > n) /\ k \in 1..n)
        BY <1>1
    <2>2. QED BY <1>6, <1>7, <2>1
<1>9. Dec(all)
    BY <1>6, <1>8
<1>10. PICK f : f = (CHOOSE g : Dec(g)) /\ Dec(f)
    BY <1>9
<1>11. DOMAIN f = 1..n + 1 /\ \A k \in 1..n + 1 : f[k] = IF k > n THEN << >> ELSE Unpacked(packets[k]) \o f[k + 1]
    BY <1>10
<1>12. f[n + 1] = << >> /\ \A k \in 1..n : f[k] = Unpacked(packets[k]) \o f[k + 1]
    <2>1. n + 1 \in 1..n + 1 /\ n + 1 > n /\ \A k \in 1..n : k \in 1..n + 1 /\ ~(k > n)
        BY <1>1
    <2>2. QED BY <1>11, <2>1
<1> DEFINE T == {k \in 1..n + 1 : f[k] \in Seq(Nat)}
<1>13. n + 1 \in T
    <2>1. n + 1 \in 1..n + 1 /\ << >> \in Seq(Nat)
        BY <1>1
    <2>2. QED BY <1>12, <2>1
<1>14. \A k \in 1..(n + 1) - 1 : k + 1 \in T => k \in T
    <2>1. \A k \in 1..n : k \in 1..n + 1
        BY <1>1
    <2>2. ASSUME NEW k \in 1..n, k + 1 \in T PROVE k \in T
        <3>1. Unpacked(packets[k]) \in Seq(Nat) /\ f[k + 1] \in Seq(Nat)
            BY <1>2, <2>2
        <3>2. Unpacked(packets[k]) \o f[k + 1] \in Seq(Nat)
            BY <3>1
        <3>3. QED BY <1>12, <2>1, <3>2
    <2>3. QED BY <1>1, <2>2
<1> HIDE DEF T
<1>15. 1..n + 1 \subseteq T
    <2>1. 1 \in Nat
        OBVIOUS
    <2>2. QED BY <1>1, <1>13, <1>14, <2>1, DownwardInduction
<1>16. f \in [1..n + 1 -> Seq(Nat)]
    <2>1. f = [k \in 1..n + 1 |-> f[k]]
        BY <1>10
    <2>2. QED BY <1>15, <2>1 DEF T
<1>17. RleDecode(packets) = f[1]
    BY <1>10 DEF RleDecode, n
<1>18. QED BY <1>12, <1>16, <1>17 DEF Decodes, n

LEMMA DecodeOfNone == RleDecode(<< >>) = << >>
<1>1. << >> \in Seq(Packets) /\ Len(<< >>) = 0
    OBVIOUS
<1>2. PICK f : Decodes(f, << >>) /\ RleDecode(<< >>) = f[1]
    BY <1>1, DecodeIs
<1>3. QED BY <1>1, <1>2 DEF Decodes

LEMMA DecodeOfFirst ==
    ASSUME NEW p \in Packets, NEW q \in Seq(Packets)
    PROVE  /\ RleDecode(<<p>> \o q) = Unpacked(p) \o RleDecode(q)
           /\ RleDecode(q) \in Seq(Nat)
<1> DEFINE s == <<p>> \o q
           n == Len(q)
<1>1. /\ s \in Seq(Packets) /\ Len(s) = n + 1 /\ n \in Nat /\ s[1] = p
      /\ \A k \in 1..n : s[k + 1] = q[k]
    OBVIOUS
<1> HIDE DEF s
<1>2. PICK f : Decodes(f, s) /\ RleDecode(s) = f[1]
    BY <1>1, DecodeIs
<1>3. PICK g : Decodes(g, q) /\ RleDecode(q) = g[1]
    BY DecodeIs
<1> HIDE DEF n
<1>4. /\ f[n + 2] = << >> /\ \A k \in 1..n + 1 : f[k] = Unpacked(s[k]) \o f[k + 1]
      /\ g[n + 1] = << >> /\ \A k \in 1..n : g[k] = Unpacked(q[k]) \o g[k + 1]
      /\ g \in [1..n + 1 -> Seq(Nat)]
    <2>1. (n + 1) + 1 = n + 2
        BY <1>1
    <2>2. QED BY <1>1, <1>2, <1>3, <2>1 DEF Decodes, n
<1> DEFINE T == {k \in 1..n + 1 : f[k + 1] = g[k]}
<1>5. n + 1 \in T
    BY <1>1, <1>4
<1>6. ASSUME NEW k \in 1..(n + 1) - 1, k + 1 \in T PROVE k \in T
    <2>1. k \in 1..n /\ k + 1 \in 1..n + 1 /\ k \in 1..n + 1
        BY <1>1
    <2>2. f[k + 1] = Unpacked(q[k]) \o f[(k + 1) + 1]
        BY <1>1, <1>4, <2>1
    <2>3. QED BY <1>4, <1>6, <2>1, <2>2
<1> HIDE DEF T
<1>7. 1..n + 1 \subseteq T
    <2>1. 1 \in Nat /\ n + 1 \in Nat
        BY <1>1
    <2>2. QED BY <1>5, <1>6, <2>1, DownwardInduction
<1>8. 1 \in 1..n + 1 /\ 1 + 1 = 2
    BY <1>1
<1>9. f[2] = g[1]
    BY <1>7, <1>8 DEF T
<1>10. f[1] = Unpacked(s[1]) \o f[2] /\ g[1] \in Seq(Nat)
    BY <1>4, <1>8
<1>11. QED BY <1>1, <1>2, <1>3, <1>9, <1>10 DEF s

\* The packet that the encoder makes at i, of the bytes up to before i + m.
LEMMA RunIsAPacket ==
    ASSUME NEW data \in Seq(Nat), NEW i \in 1..Len(data), RunLength(data, i, 2) = 2
    PROVE  LET m == RunLength(data, i, RunMax) IN
           /\ m \in 2..RunMax /\ i + m \in 1..Len(data) + 1
           /\ Unpacked(Repeat(m, data[i])) = SubSeq(data, i, i + m - 1)
<1> DEFINE RunsTo(longest) == {k \in 1..longest : i + k - 1 <= Len(data) /\ \A j \in i..i + k - 1 : data[j] = data[i]}
           m == RunLength(data, i, RunMax)
<1>1. RunMax \in Nat /\ 2 <= RunMax /\ Len(data) \in Nat /\ i \in Nat /\ 1 <= i /\ i <= Len(data)
    BY AgentImagesAssumption
<1>2. ASSUME NEW b \in Nat, b >= 2
      PROVE  RunLength(data, i, b) \in RunsTo(b) /\ \A k \in RunsTo(b) : k <= RunLength(data, i, b)
    <2>1. 1 \in RunsTo(b)
        BY <1>1, <1>2
    <2>2. RunsTo(b) \in SUBSET (1..b) /\ RunsTo(b) # {}
        BY <2>1
    <2>3. QED BY <2>2, GreatestNumber DEF RunLength
<1>3. 2 \in RunsTo(2)
    BY <1>2
<1>4. 2 \in RunsTo(RunMax)
    <2>1. 2 \in 1..RunMax
        BY <1>1
    <2>2. QED BY <1>3, <2>1
<1>5. m \in RunsTo(RunMax) /\ 2 <= m
    BY <1>1, <1>2, <1>4
<1>6. m \in 2..RunMax /\ i + m - 1 <= Len(data) /\ \A j \in i..i + m - 1 : data[j] = data[i]
    BY <1>1, <1>5
<1> HIDE DEF m
<1>7. i + m \in 1..Len(data) + 1
    BY <1>1, <1>6
<1>8. [k \in 1..m |-> data[i]] = SubSeq(data, i, i + m - 1)
    <2> DEFINE s == SubSeq(data, i, i + m - 1)
               t == [k \in 1..m |-> data[i]]
    <2>1. (i + m - 1) - i + 1 = m /\ i <= i + m - 1 /\ i \in Int /\ i + m - 1 \in Int /\ m \in Nat
        BY <1>1, <1>6
    <2>2. \A k \in 1..m : i + k - 1 \in i..i + m - 1
        BY <1>1, <1>6
    <2>3. \A k \in i..i + m - 1 : data[k] \in Nat
        BY <1>1, <1>6
    <2>4. s \in Seq(Nat) /\ Len(s) = m /\ \A k \in 1..m : s[k] = data[i + k - 1]
        BY <2>1, <2>3, SubSeqProperties
    <2>5. t \in Seq(Nat) /\ Len(t) = m /\ \A k \in 1..m : t[k] = data[i]
        <3>1. data[i] \in Nat
            OBVIOUS
        <3>2. QED BY <2>1, <3>1
    <2> HIDE DEF s, t
    <2>6. \A k \in 1..m : s[k] = t[k]
        BY <1>6, <2>2, <2>4, <2>5
    <2>7. s = t
        BY <2>4, <2>5, <2>6, SeqEqual
    <2>8. QED BY <2>7 DEF s, t
<1>9. data[i] \in Nat
    OBVIOUS
<1>10. Unpacked(Repeat(m, data[i])) = [k \in 1..m |-> data[i]]
    BY <1>6, <1>9, RepeatIsUnpacked
<1>11. QED BY <1>6, <1>7, <1>8, <1>10 DEF m

LEMMA LiteralIsAPacket ==
    ASSUME NEW data \in Seq(Nat), NEW i \in 1..Len(data)
    PROVE  LET m == LiteralLength(data, i) IN
           /\ m \in 1..RunMax /\ i + m \in 1..Len(data) + 1
           /\ SubSeq(data, i, i + m - 1) \in RunsOf
<1> DEFINE Alone(j) == j = Len(data) \/ data[j] # data[j + 1]
           spans == {k \in 1..RunMax : i + k - 1 <= Len(data) /\ \A j \in i + 1..i + k - 1 : Alone(j)}
           m == LiteralLength(data, i)
<1>1. RunMax \in Nat /\ 2 <= RunMax /\ Len(data) \in Nat /\ i \in Nat /\ 1 <= i /\ i <= Len(data)
    BY AgentImagesAssumption
<1>2. 1 \in spans
    <2>1. 1 \in 1..RunMax /\ i + 1 - 1 <= Len(data) /\ \A j \in i + 1..i + 1 - 1 : FALSE
        BY <1>1
    <2> HIDE DEF Alone
    <2>2. QED BY <2>1
<1>3. spans \in SUBSET (1..RunMax) /\ spans # {}
    BY <1>2
<1>4. m \in spans
    BY <1>1, <1>3, GreatestNumber DEF LiteralLength
<1>5. m \in 1..RunMax /\ i + m - 1 <= Len(data)
    BY <1>4
<1> HIDE DEF m, spans
<1>6. i + m \in 1..Len(data) + 1
    BY <1>1, <1>5
<1>7. SubSeq(data, i, i + m - 1) \in Seq(Nat) /\ Len(SubSeq(data, i, i + m - 1)) = m
    <2>1. \A k \in i..i + m - 1 : data[k] \in Nat
        BY <1>1, <1>5
    <2>2. (i + m - 1) - i + 1 = m /\ i <= i + m - 1 /\ i \in Int /\ i + m - 1 \in Int
        BY <1>1, <1>5
    <2>3. QED BY <2>1, <2>2, SubSeqProperties
<1>8. QED BY <1>5, <1>6, <1>7 DEF m, RunsOf

LEMMA CutInTwo ==
    ASSUME NEW S, NEW s \in Seq(S), NEW end \in 0..Len(s), NEW from \in 1..end + 1, NEW to \in from - 1..end
    PROVE  SubSeq(s, from, to) \o SubSeq(s, to + 1, end) = SubSeq(s, from, end)
<1> DEFINE a == SubSeq(s, from, to)
           b == SubSeq(s, to + 1, end)
           c == SubSeq(s, from, end)
<1>1. /\ from \in Int /\ to \in Int /\ to + 1 \in Int /\ end \in Int /\ Len(s) \in Nat
      /\ 1 <= from /\ from <= to + 1 /\ to <= end /\ end <= Len(s)
    OBVIOUS
<1>2. \A f, t \in Int : 1 <= f /\ f <= t + 1 /\ t <= end =>
         /\ SubSeq(s, f, t) \in Seq(S) /\ Len(SubSeq(s, f, t)) = t - f + 1
         /\ \A j \in 1..t - f + 1 : SubSeq(s, f, t)[j] = s[f + j - 1]
    <2> SUFFICES ASSUME NEW f \in Int, NEW t \in Int, 1 <= f, f <= t + 1, t <= end
                 PROVE  /\ SubSeq(s, f, t) \in Seq(S) /\ Len(SubSeq(s, f, t)) = t - f + 1
                        /\ \A j \in 1..t - f + 1 : SubSeq(s, f, t)[j] = s[f + j - 1]
        OBVIOUS
    <2>1. \A i \in f..t : s[i] \in S
        BY <1>1
    <2> DEFINE q == SubSeq(s, f, t)
    <2>2. /\ q \in Seq(S) /\ Len(q) = IF f <= t THEN t - f + 1 ELSE 0
          /\ \A j \in 1..t - f + 1 : q[j] = s[f + j - 1]
        BY <2>1, SubSeqProperties
    <2> HIDE DEF q
    <2>3. Len(q) = t - f + 1
        BY <2>2
    <2>4. QED BY <2>2, <2>3 DEF q
<1>3. a \in Seq(S) /\ Len(a) = to - from + 1 /\ \A j \in 1..to - from + 1 : a[j] = s[from + j - 1]
    BY <1>1, <1>2
<1>4. /\ b \in Seq(S) /\ Len(b) = end - (to + 1) + 1
      /\ \A j \in 1..end - (to + 1) + 1 : b[j] = s[(to + 1) + j - 1]
    BY <1>1, <1>2
<1>5. c \in Seq(S) /\ Len(c) = end - from + 1 /\ \A j \in 1..end - from + 1 : c[j] = s[from + j - 1]
    BY <1>1, <1>2
<1> HIDE DEF a, b, c
<1>6. /\ a \o b \in Seq(S) /\ Len(a \o b) = Len(a) + Len(b)
      /\ \A j \in 1..Len(a) + Len(b) : (a \o b)[j] = IF j <= Len(a) THEN a[j] ELSE b[j - Len(a)]
    BY <1>3, <1>4, ConcatProperties
<1>7. Len(a) + Len(b) = end - from + 1
    <2> DEFINE x == Len(a)
               y == Len(b)
    <2>1. x = to - from + 1 /\ y = end - (to + 1) + 1
        BY <1>3, <1>4
    <2> HIDE DEF x, y
    <2>2. x + y = end - from + 1
        BY <1>1, <2>1
    <2>3. QED BY <2>2 DEF x, y
<1>8. ASSUME NEW j \in 1..end - from + 1 PROVE (a \o b)[j] = c[j]
    <2>1. CASE j <= Len(a)
        <3>1. j \in 1..to - from + 1
            BY <1>1, <1>3, <2>1
        <3>2. QED BY <1>3, <1>5, <1>6, <1>7, <2>1, <3>1
    <2>2. CASE ~(j <= Len(a))
        <3> DEFINE d == to - from + 1
        <3>1. Len(a) = d /\ d \in Int /\ j \in Int /\ ~(j <= d)
            BY <1>1, <1>3, <2>2
        <3>2. j - d \in 1..end - (to + 1) + 1 /\ (to + 1) + (j - d) - 1 = from + j - 1
            BY <1>1, <3>1
        <3>3. j - Len(a) \in 1..end - (to + 1) + 1 /\ (to + 1) + (j - Len(a)) - 1 = from + j - 1
            BY <3>1, <3>2
        <3>4. QED BY <1>4, <1>5, <1>6, <1>7, <2>2, <3>3
    <2>3. QED BY <2>1, <2>2
<1>9. a \o b = c
    BY <1>5, <1>6, <1>7, <1>8, SeqEqual
<1>10. QED BY <1>9 DEF a, b, c

Encodes(e, data) ==
    /\ e \in [1..Len(data) + 1 -> Seq(Packets)] /\ e[Len(data) + 1] = << >>
    /\ \A i \in 1..Len(data) : \E m \in 1..Len(data), p \in Packets :
          /\ i + m \in 1..Len(data) + 1 /\ e[i] = <<p>> \o e[i + m]
          /\ Unpacked(p) = SubSeq(data, i, i + m - 1)

LEMMA EncodeIs ==
    ASSUME NEW data \in Seq(Nat)
    PROVE  \E e : Encodes(e, data) /\ RleEncode(data) = e[1]
<1> DEFINE n == Len(data)
           Runs(i) == RunLength(data, i, 2) = 2
           Width(i) == IF Runs(i) THEN RunLength(data, i, RunMax) ELSE LiteralLength(data, i)
           Made(i) == IF Runs(i) THEN Repeat(RunLength(data, i, RunMax), data[i])
                      ELSE Literal(SubSeq(data, i, i + LiteralLength(data, i) - 1))
           width == [i \in 1..n |-> Width(i)]
           made == [i \in 1..n |-> Made(i)]
           later == [i \in 1..n |-> i + width[i]]
           step == [i \in 1..n |-> [v \in Seq(Packets) |-> <<made[i]>> \o v]]
           Enc(f) == f = [i \in 1..n + 1 |->
                          IF i > n THEN << >>
                          ELSE IF RunLength(data, i, 2) = 2
                          THEN LET m == RunLength(data, i, RunMax) IN <<Repeat(m, data[i])>> \o f[i + m]
                          ELSE LET m == LiteralLength(data, i) IN <<Literal(SubSeq(data, i, i + m - 1))>> \o f[i + m]]
<1>1. n \in Nat /\ n + 1 \in Nat /\ 1 <= n + 1 /\ (n + 1) - 1 = n
    OBVIOUS
<1>2. ASSUME NEW i \in 1..n
      PROVE  /\ width[i] \in 1..n /\ i + width[i] \in 1..n + 1 /\ made[i] \in Packets
             /\ Unpacked(made[i]) = SubSeq(data, i, i + width[i] - 1)
    <2>1. width[i] = Width(i) /\ made[i] = Made(i)
        OBVIOUS
    <2>2. width[i] \in 1..RunMax /\ i + width[i] \in 1..n + 1 /\ made[i] \in Packets
          /\ Unpacked(made[i]) = SubSeq(data, i, i + width[i] - 1)
        <3> HIDE DEF width, made
        <3>1. CASE Runs(i)
            <4> DEFINE m == RunLength(data, i, RunMax)
            <4>1. m \in 2..RunMax /\ i + m \in 1..n + 1 /\ Unpacked(Repeat(m, data[i])) = SubSeq(data, i, i + m - 1)
                BY <3>1, RunIsAPacket
            <4>2. Repeat(m, data[i]) \in Packets
                <5>1. m \in 2..RunMax
                    BY <4>1
                <5>2. data[i] \in Nat
                    BY ElementOfSeq
                <5> HIDE DEF m
                <5>3. QED BY <5>1, <5>2, RepeatIsUnpacked
            <4>3. width[i] = m /\ made[i] = Repeat(m, data[i])
                BY <2>1, <3>1
            <4> HIDE DEF m
            <4>4. m \in 1..RunMax
                BY <4>1, AgentImagesAssumption
            <4>5. QED BY <4>1, <4>2, <4>3, <4>4
        <3>2. CASE ~Runs(i)
            <4> DEFINE m == LiteralLength(data, i)
            <4>1. m \in 1..RunMax /\ i + m \in 1..n + 1 /\ SubSeq(data, i, i + m - 1) \in RunsOf
                BY LiteralIsAPacket
            <4>2. width[i] = m /\ made[i] = Literal(SubSeq(data, i, i + m - 1))
                BY <2>1, <3>2
            <4> HIDE DEF m
            <4>3. QED BY <4>1, <4>2, LiteralIsUnpacked
        <3>3. QED BY <3>1, <3>2
    <2> HIDE DEF width
    <2>3. width[i] \in 1..n
        BY <1>1, <2>2, AgentImagesAssumption
    <2>4. QED BY <2>2, <2>3
<1>3. /\ DOMAIN width = 1..n /\ DOMAIN made = 1..n
      /\ \A i \in 1..n : \A f : Runs(i) =>
            <<made[i]>> \o f[i + width[i]] = LET m == RunLength(data, i, RunMax) IN <<Repeat(m, data[i])>> \o f[i + m]
      /\ \A i \in 1..n : \A f : ~Runs(i) =>
            <<made[i]>> \o f[i + width[i]]
            = LET m == LiteralLength(data, i) IN <<Literal(SubSeq(data, i, i + m - 1))>> \o f[i + m]
    OBVIOUS
<1> HIDE DEF width, made
<1>4. later \in [1..n -> 1..n + 1] /\ \A i \in 1..n : later[i] > i /\ later[i] = i + width[i]
    BY <1>1, <1>2
<1>5. /\ step \in [1..n -> [Seq(Packets) -> Seq(Packets)]]
      /\ \A i \in 1..n, v \in Seq(Packets) : step[i][v] = <<made[i]>> \o v
    <2>1. \A i \in 1..n, v \in Seq(Packets) : <<made[i]>> \o v \in Seq(Packets)
        BY <1>2
    <2>2. QED BY <2>1
<1> HIDE DEF later, step, n
<1>6. PICK all : Unfolds(all, 1, n + 1, Seq(Packets), << >>, later, step)
    <2>1. 1 \in Nat /\ << >> \in Seq(Packets)
        OBVIOUS
    <2>2. later \in [1..(n + 1) - 1 -> 1..n + 1] /\ step \in [1..(n + 1) - 1 -> [Seq(Packets) -> Seq(Packets)]]
          /\ \A k \in 1..(n + 1) - 1 : later[k] > k
        BY <1>1, <1>4, <1>5
    <2>3. QED BY <1>1, <2>1, <2>2, BackwardRecursion
<1>7. all \in [1..n + 1 -> Seq(Packets)] /\ all[n + 1] = << >> /\ \A i \in 1..n : all[i] = step[i][all[later[i]]]
    BY <1>1, <1>6 DEF Unfolds
<1>8. ASSUME NEW i \in 1..n PROVE all[i] = <<made[i]>> \o all[i + width[i]]
    <2>1. i + width[i] \in 1..n + 1 /\ later[i] = i + width[i]
        BY <1>2, <1>4
    <2>2. all[i + width[i]] \in Seq(Packets)
        BY <1>7, <2>1
    <2>3. all[i] = step[i][all[i + width[i]]]
        BY <1>7, <2>1
    <2>4. QED BY <1>5, <2>2, <2>3
<1>9. \A i \in 1..n + 1 : (i > n /\ i = n + 1) \/ (~(i > n) /\ i \in 1..n)
    BY <1>1
<1>10. Enc(all)
    <2>1. \A i \in 1..n + 1 : all[i] =
                          IF i > n THEN << >>
                          ELSE IF RunLength(data, i, 2) = 2
                          THEN LET m == RunLength(data, i, RunMax) IN <<Repeat(m, data[i])>> \o all[i + m]
                          ELSE LET m == LiteralLength(data, i) IN <<Literal(SubSeq(data, i, i + m - 1))>> \o all[i + m]
        BY <1>3, <1>7, <1>8, <1>9
    <2>2. QED BY <1>7, <2>1
<1>11. PICK f : f = (CHOOSE g : Enc(g)) /\ Enc(f)
    <2> HIDE DEF Enc
    <2>1. QED BY <1>10
<1>12. \A i \in 1..n + 1 : f[i] =
                          IF i > n THEN << >>
                          ELSE IF RunLength(data, i, 2) = 2
                          THEN LET m == RunLength(data, i, RunMax) IN <<Repeat(m, data[i])>> \o f[i + m]
                          ELSE LET m == LiteralLength(data, i) IN <<Literal(SubSeq(data, i, i + m - 1))>> \o f[i + m]
    BY <1>11
<1>13. f[n + 1] = << >> /\ \A i \in 1..n : f[i] = <<made[i]>> \o f[i + width[i]]
    <2>1. n + 1 \in 1..n + 1 /\ n + 1 > n /\ \A i \in 1..n : i \in 1..n + 1 /\ ~(i > n)
        BY <1>1
    <2>2. QED BY <1>3, <1>12, <2>1
<1> DEFINE T == {k \in 1..n + 1 : \A i \in k..n + 1 : f[i] \in Seq(Packets)}
<1>14. n + 1 \in T
    <2>1. n + 1 \in 1..n + 1 /\ << >> \in Seq(Packets) /\ \A i \in n + 1..n + 1 : i = n + 1
        BY <1>1
    <2>2. QED BY <1>13, <2>1
<1>15. \A k \in 1..(n + 1) - 1 : k + 1 \in T => k \in T
    <2>1. ASSUME NEW k \in 1..n, k + 1 \in T PROVE k \in T
        <3>1. k + width[k] \in k + 1..n + 1 /\ k \in 1..n + 1
            BY <1>1, <1>2
        <3>2. f[k + width[k]] \in Seq(Packets) /\ made[k] \in Packets
            BY <1>2, <2>1, <3>1
        <3>3. <<made[k]>> \o f[k + width[k]] \in Seq(Packets)
            BY <3>2
        <3>4. f[k] \in Seq(Packets)
            BY <1>13, <3>3
        <3>5. \A i \in k..n + 1 : i = k \/ i \in k + 1..n + 1
            BY <1>1
        <3>6. QED BY <2>1, <3>1, <3>4, <3>5
    <2>2. QED BY <1>1, <2>1
<1> HIDE DEF T
<1>16. 1..n + 1 \subseteq T
    <2>1. 1 \in Nat
        OBVIOUS
    <2>2. QED BY <1>1, <1>14, <1>15, <2>1, DownwardInduction
<1>17. f \in [1..n + 1 -> Seq(Packets)]
    <2>1. f = [k \in 1..n + 1 |-> f[k]]
        BY <1>11
    <2>2. \A k \in 1..n + 1 : k \in k..n + 1
        BY <1>1
    <2>3. QED BY <1>16, <2>1, <2>2 DEF T
<1>18. RleEncode(data) = f[1]
    BY <1>11 DEF RleEncode, EncodeRuns, n
<1>19. \A i \in 1..n : \E m \in 1..n, p \in Packets :
          /\ i + m \in 1..n + 1 /\ f[i] = <<p>> \o f[i + m]
          /\ Unpacked(p) = SubSeq(data, i, i + m - 1)
    BY <1>2, <1>13
<1>20. QED BY <1>13, <1>17, <1>18, <1>19 DEF Encodes, n

\* "PACKBITS RLE CODEC - lossless" (recu_compiler.py:578), for data of any length and bytes.
THEOREM PackingIsLossless ==
    ASSUME NEW data \in Seq(Nat)
    PROVE  RleDecode(RleEncode(data)) = data
<1> DEFINE n == Len(data)
           From(i) == SubSeq(data, i, n)
<1>1. n \in Nat /\ n + 1 \in Nat
    OBVIOUS
<1>2. PICK e : Encodes(e, data) /\ RleEncode(data) = e[1]
    BY EncodeIs
<1> DEFINE T == {k \in 1..n + 1 : \A i \in k..n + 1 : RleDecode(e[i]) = From(i)}
<1>3. n + 1 \in T
    <2>1. e[n + 1] = << >> /\ n + 1 \in 1..n + 1
        BY <1>1, <1>2 DEF Encodes
    <2>2. From(n + 1) = << >>
        BY <1>1
    <2>3. \A i \in n + 1..n + 1 : i = n + 1
        BY <1>1
    <2>4. QED BY <2>1, <2>2, <2>3, DecodeOfNone
<1>4. ASSUME NEW k \in 1..(n + 1) - 1, k + 1 \in T PROVE k \in T
    <2>1. k \in 1..n /\ k \in 1..n + 1
        BY <1>1
    <2>2. PICK m \in 1..n, p \in Packets :
              /\ k + m \in 1..n + 1 /\ e[k] = <<p>> \o e[k + m]
              /\ Unpacked(p) = SubSeq(data, k, k + m - 1)
        BY <1>2, <2>1 DEF Encodes
    <2>3. e[k + m] \in Seq(Packets)
        BY <1>2, <2>2 DEF Encodes
    <2>4. k + m \in k + 1..n + 1
        BY <1>1, <2>2
    <2>5. RleDecode(e[k + m]) = From(k + m)
        BY <1>4, <2>4
    <2>6. RleDecode(e[k]) = SubSeq(data, k, k + m - 1) \o From(k + m)
        BY <2>2, <2>3, <2>5, DecodeOfFirst
    <2>7. SubSeq(data, k, k + m - 1) \o From(k + m) = From(k)
        <3>1. /\ k \in 1..n + 1 /\ k + m - 1 \in k - 1..n /\ (k + m - 1) + 1 = k + m
            BY <1>1, <2>1, <2>2
        <3>2. n \in 0..Len(data)
            BY <1>1
        <3>3. QED BY <3>1, <3>2, CutInTwo
    <2>8. \A i \in k..n + 1 : i = k \/ i \in k + 1..n + 1
        BY <1>1
    <2>9. RleDecode(e[k]) = From(k)
        BY <2>6, <2>7
    <2> HIDE DEF From
    <2>10. QED BY <1>4, <2>1, <2>8, <2>9
<1> HIDE DEF T
<1>5. 1..n + 1 \subseteq T
    <2>1. 1 \in Nat
        OBVIOUS
    <2>2. QED BY <1>1, <1>3, <1>4, <2>1, DownwardInduction
<1>6. 1 \in 1..n + 1
    BY <1>1
<1>7. RleDecode(e[1]) = SubSeq(data, 1, n)
    BY <1>5, <1>6 DEF T
<1>8. SubSeq(data, 1, n) = data
    BY SubSeqFull
<1>9. QED BY <1>2, <1>7, <1>8

-----------------------------------------------------------------------------
(* The artifacts *)

\* What Pack makes of a source that was compiled.
PackOf(image) == \E s \in compiled, n \in Nat : image = Pack(Sections(s, n))
FirstOf(block) == \E s \in compiled, n \in Nat : block = Pack(Sections(s, n))[1]

ImageInv ==
    /\ compiled \subseteq Sources /\ compiles \in Nat
    /\ \A c \in Compilers : writer[c] # NoImage =>
         PackOf(writer[c].image) /\ writer[c].at \in 0..3 /\ "at" \in DOMAIN writer[c]
    /\ DOMAIN writer = Compilers
    /\ Len(file) \in Nat /\ file = [i \in 1..Len(file) |-> file[i]]
    /\ Len(file) > 0 => file[1] = Hole \/ FirstOf(file[1])
    /\ LoadedIsCompiled

LEMMA FirstOfFour ==
    ASSUME NEW a, NEW b, NEW c, NEW d
    PROVE  (<<a>> \o <<b, c, d>>)[1] = a /\ Len(<<a>> \o <<b, c, d>>) = 4
<1> DEFINE S == {a, b, c, d}
<1>1. <<a>> \in Seq(S) /\ <<b, c, d>> \in Seq(S) /\ Len(<<a>>) = 1 /\ Len(<<b, c, d>>) = 3
    OBVIOUS
<1> HIDE DEF S
<1>2. Len(<<a>> \o <<b, c, d>>) = 1 + 3
    BY <1>1, ConcatProperties
<1>3. (<<a>> \o <<b, c, d>>)[1] = <<a>>[1]
    BY <1>1, ConcatProperties
<1>4. QED BY <1>2, <1>3

LEMMA PackIs ==
    ASSUME NEW s, NEW n
    PROVE  LET body == <<[crc |-> Sections(s, n)], Sections(s, n), [hashes |-> Sections(s, n)]>>
               p == Pack(Sections(s, n)) IN
           p[1] = [digest |-> body] /\ Len(p) = 4
BY FirstOfFour DEF Pack

\* Of whatever blocks the file is made, its digest is that of one compilation.
LEMMA AcceptedIsCompiled ==
    ASSUME ImageInv, Accepted(file)
    PROVE  \E s \in compiled, n \in Nat : file[3] = Sections(s, n)
<1> DEFINE len == Len(file)
           Blocks == {file[i] : i \in 1..len}
<1>1. len \in Nat /\ file = [i \in 1..len |-> file[i]]
    BY DEF ImageInv
<1>2. file \in [1..len -> Blocks]
    BY <1>1
<1>3. file \in Seq(Blocks) /\ len = 4 /\ "digest" \in DOMAIN file[1] /\ file[1].digest = Tail(file)
    <2>1. len = 4 /\ "digest" \in DOMAIN file[1] /\ file[1].digest = Tail(file)
        BY DEF Accepted
    <2> HIDE DEF Blocks, len
    <2>2. file \in Seq(Blocks)
        BY <1>1, <1>2
    <2>3. QED BY <2>1, <2>2
<1>4. file[1] # Hole
    <2>1. "digest" \notin DOMAIN Hole
        BY DEF Hole
    <2>2. QED BY <1>3, <2>1
<1>5. PICK s \in compiled, n \in Nat : file[1] = Pack(Sections(s, n))[1]
    BY <1>3, <1>4 DEF ImageInv, FirstOf
<1> DEFINE x == Sections(s, n)
           first == [crc |-> x]
           third == [hashes |-> x]
           body == <<first, x, third>>
<1>6. file[1] = [digest |-> body]
    BY <1>5, PackIs
<1> HIDE DEF x, first, third, Blocks
<1> HIDE DEF body
<1>7. Tail(file) = body
    <2>1. file[1].digest = body
        BY <1>6
    <2>2. file[1].digest = Tail(file)
        BY <1>3
    <2>3. QED BY <2>1, <2>2
<1>8. Tail(file)[2] = file[3]
    <2>1. file # << >>
        BY <1>3
    <2>2. Len(Tail(file)) = 3 /\ \A i \in 1..Len(Tail(file)) : Tail(file)[i] = file[i + 1]
        BY <1>3, <2>1, HeadTailProperties
    <2>3. QED BY <2>2
<1>9. body[2] = x
    BY DEF body
<1>10. file[3] = x
    BY <1>7, <1>8, <1>9
<1>11. QED BY <1>10 DEF x

LEMMA SpawnIsPermitted == ASSUME NEW caps
                          PROVE  /\ ("spawn" \in Bound(caps)) = ("PROCESS_SPAWN" \in caps)
                                 /\ ("net_send" \in Bound(caps)) = ("NETWORK" \in caps)
<1>1. \A name : name \in Bound(caps) <=> \E b \in SyscallBindings : b[1] = name /\ b[2] \in caps
    BY DEF Bound
<1>2. /\ <<"spawn", "PROCESS_SPAWN">> \in SyscallBindings /\ <<"net_send", "NETWORK">> \in SyscallBindings
      /\ \A b \in SyscallBindings : (b[1] = "spawn" => b[2] = "PROCESS_SPAWN") /\ (b[1] = "net_send" => b[2] = "NETWORK")
    BY DEF SyscallBindings
<1>3. "spawn" \in Bound(caps) <=> "PROCESS_SPAWN" \in caps
    BY <1>1, <1>2
<1>4. "net_send" \in Bound(caps) <=> "NETWORK" \in caps
    BY <1>1, <1>2
<1>5. QED BY <1>3, <1>4

\* Whatever a load accepts is a source that was compiled, for any sources and any number of
\* compilers that write over one file and are killed.
THEOREM LoadedIsAlwaysCompiled == ImageSpec => []LoadedIsCompiled
<1>1. ImageInit => ImageInv
    BY DEF ImageInit, ImageInv, LoadedIsCompiled, NoImage
<1>2. ImageInv /\ [ImageNext]_imageVars => ImageInv'
    <2> SUFFICES ASSUME ImageInv, [ImageNext]_imageVars PROVE ImageInv'
        OBVIOUS
    <2>1. CASE UNCHANGED imageVars
        BY <2>1 DEF imageVars, ImageInv, LoadedIsCompiled, PackOf, FirstOf
    <2>2. ASSUME NEW c \in Compilers, NEW s \in Sources, CompileBegins(c, s) PROVE ImageInv'
        <3>1. /\ compiled' = compiled \cup {s} /\ file' = << >> /\ compiles' = compiles + 1
              /\ writer' = [writer EXCEPT ![c] = [image |-> Pack(Sections(s, compiles)), at |-> 0]]
              /\ artifact' = artifact
            BY <2>2 DEF CompileBegins
        <3>2. compiled' \subseteq Sources /\ compiles' \in Nat /\ compiles \in Nat /\ DOMAIN writer' = Compilers
            BY <3>1 DEF ImageInv
        <3>3. Len(file') = 0 /\ Len(file') \in Nat /\ file' = [i \in 1..Len(file') |-> file'[i]]
            BY <3>1
        <3>4. LoadedIsCompiled'
            BY <3>1 DEF ImageInv, LoadedIsCompiled
        <3>5. ASSUME NEW d \in Compilers, writer'[d] # NoImage 
              PROVE  PackOf(writer[d].image)' /\ writer'[d].at \in 0..3 /\ "at" \in DOMAIN writer'[d]
            <4>1. CASE d = c
                <5>1. writer'[d] = [image |-> Pack(Sections(s, compiles)), at |-> 0]
                    BY <3>1, <4>1 DEF ImageInv
                <5>2. s \in compiled' /\ compiles \in Nat
                    BY <3>1, <3>2
                <5>3. QED BY <5>1, <5>2 DEF PackOf
            <4>2. CASE d # c
                BY <3>1, <3>5, <4>2 DEF ImageInv, PackOf
            <4>3. QED BY <4>1, <4>2
        <3>6. QED BY <3>2, <3>3, <3>4, <3>5 DEF ImageInv
    <2>3. ASSUME NEW c \in Compilers, WriteBlock(c) PROVE ImageInv'
        <3> DEFINE k == writer[c].at + 1
                   n == IF Len(file) < k THEN k ELSE Len(file)
        <3>1. /\ writer[c] # NoImage /\ UNCHANGED <<compiled, compiles, loads, artifact>>
              /\ file' = [i \in 1..n |-> IF i = k THEN writer[c].image[k] ELSE IF i <= Len(file) THEN file[i] ELSE Hole]
              /\ writer' = [writer EXCEPT ![c] = IF k = Len(@.image) THEN NoImage ELSE [@ EXCEPT !.at = k]]
            BY <2>3 DEF WriteBlock
        <3>2. PackOf(writer[c].image) /\ k \in 1..4 /\ Len(file) \in Nat
            BY <3>1 DEF ImageInv
        <3>3. PICK s \in compiled, m \in Nat : writer[c].image = Pack(Sections(s, m))
            BY <3>2 DEF PackOf
        <3>4. Len(writer[c].image) = 4
            BY <3>3, PackIs
        <3>5. n \in Nat /\ n >= 1
            BY <3>2
        <3> HIDE DEF k, n
        <3>6. Len(file') = n /\ file' = [i \in 1..Len(file') |-> file'[i]]
            BY <3>1, <3>5
        <3>7. file'[1] = Hole \/ FirstOf(file'[1])
            <4>1. file'[1] = IF 1 = k THEN writer[c].image[k] ELSE IF 1 <= Len(file) THEN file[1] ELSE Hole
                BY <3>1, <3>5
            <4>2. CASE 1 = k
                BY <3>3, <4>1, <4>2 DEF FirstOf
            <4>3. CASE 1 # k
                BY <3>2, <4>1, <4>3 DEF ImageInv, FirstOf
            <4>4. QED BY <4>2, <4>3
        <3>8. ASSUME NEW d \in Compilers, writer'[d] # NoImage 
              PROVE  PackOf(writer'[d].image) /\ writer'[d].at \in 0..3 /\ "at" \in DOMAIN writer'[d]
            <4>1. CASE d = c
                <5>1. k # 4
                    BY <3>1, <3>4, <3>8, <4>1 DEF ImageInv
                <5>2. writer'[d] = [writer[c] EXCEPT !.at = k]
                    BY <3>1, <3>4, <4>1, <5>1 DEF ImageInv
                <5>3. writer'[d].image = writer[c].image
                    BY <5>2
                <5>4. writer'[d].at = k
                    <6>1. "at" \in DOMAIN writer[c]
                        BY <3>1 DEF ImageInv
                    <6>2. QED BY <5>2, <6>1
                <5>5. "at" \in DOMAIN writer'[d]
                    BY <3>1, <5>2 DEF ImageInv
                <5>6. QED BY <3>2, <5>1, <5>3, <5>4, <5>5
            <4>2. CASE d # c
                BY <3>1, <3>8, <4>2 DEF ImageInv
            <4>3. QED BY <4>1, <4>2
        <3>9. QED BY <3>1, <3>5, <3>6, <3>7, <3>8 DEF ImageInv, LoadedIsCompiled, PackOf, FirstOf
    <2>4. ASSUME NEW c \in Compilers, CompilerDies(c) PROVE ImageInv'
        BY <2>4 DEF CompilerDies, ImageInv, LoadedIsCompiled, PackOf, FirstOf
    <2>5. CASE Load
        <3>1. UNCHANGED <<file, writer, compiled, compiles>>
            BY <2>5 DEF Load
        <3>2. LoadedIsCompiled'
            <4>1. CASE ~Accepted(file)
                BY <2>5, <4>1 DEF Load, LoadedIsCompiled
            <4>2. CASE Accepted(file)
                <5>1. PICK s \in compiled, n \in Nat : file[3] = Sections(s, n)
                    BY <4>2, AcceptedIsCompiled
                <5> DEFINE caps == RuleClassify(s)
                           a == [data |-> RleDecode(file[3].payload), format |-> file[3].manifest.format,
                                 caps |-> file[3].routing, permissions |-> file[3].manifest.permissions,
                                 syscalls |-> file[3].syscalls]
                <5>2. artifact' = <<a>>
                    BY <2>5, <4>2 DEF Load
                <5>3. /\ file[3].payload = RleEncode(s.data) /\ file[3].routing = caps
                      /\ file[3].manifest.format = DetectPath(s) /\ file[3].syscalls = Bound(caps)
                      /\ file[3].manifest.permissions = Permissions(caps)
                    BY <5>1 DEF Sections
                <5>4. s.data \in Seq(Nat)
                    BY AgentImagesAssumption DEF ImageInv
                <5>5. a.data = s.data
                    BY <5>3, <5>4, PackingIsLossless
                <5>6. a.permissions.spawn = ("PROCESS_SPAWN" \in caps) /\ a.permissions.network = ("NETWORK" \in caps)
                    BY <5>3 DEF Permissions
                <5>7. a.syscalls = Bound(caps) /\ a.format = DetectPath(s) /\ a.caps = caps
                    BY <5>3
                <5>8. artifact'[1] = a /\ compiled' = compiled
                    BY <3>1, <5>2
                <5> HIDE DEF caps, a
                <5>9. /\ a.permissions.spawn = ("spawn" \in a.syscalls)
                      /\ a.permissions.network = ("net_send" \in a.syscalls)
                    BY <5>6, <5>7, SpawnIsPermitted
                <5>10. QED BY <5>5, <5>7, <5>8, <5>9 DEF LoadedIsCompiled, caps
            <4>3. QED BY <4>1, <4>2
        <3>3. QED BY <3>1, <3>2 DEF ImageInv, PackOf, FirstOf
    <2>6. QED BY <2>1, <2>2, <2>3, <2>4, <2>5 DEF ImageNext
<1>3. ImageInv => LoadedIsCompiled
    BY DEF ImageInv
<1>4. QED BY <1>1, <1>2, <1>3, PTL DEF ImageSpec

-----------------------------------------------------------------------------
(* The executions of an artifact *)

\* Where an execution has not come to the exit of its program, and where it may have a file.
BeforeExit == {"refused", "render", "create", "write", "tick", "ticking", "rendering", "run", "failed"}
WithFile == {"write", "tick", "ticking", "run", "exited", "counting", "failed", "unlink"}
Places == BeforeExit \cup {"idle", "exited", "counting", "unlink"}

ExecutionInv ==
    /\ caller \in [Callers -> [at : Places, seen : Nat]]
    /\ population \in Nat /\ imageGeneration \in Nat /\ executions \in Nat
    /\ executing = {c \in Callers : caller[c].at # "idle"}
    /\ leftover \subseteq Callers
    /\ \A c \in leftover : c \in spoiled \/ caller[c].at \in WithFile
    /\ ~unfinished /\ executions > 0 /\ (\A c \in Callers : caller[c].at \notin BeforeExit) =>
         /\ population = 0
         /\ (\A c \in Callers : caller[c].at \notin {"exited", "counting"}) => imageGeneration > 0

\* Both that an idle artifact is terminated and that no file stays, for any number of threads.
THEOREM ExecutionsAlwaysEnd == ExecutionSpec => [](IdleIsTerminated /\ FilesAreRemoved)
<1> USE DEF Places, BeforeExit, WithFile
<1>1. ExecutionInit => ExecutionInv
    BY DEF ExecutionInit, ExecutionInv
<1>2. ExecutionInv /\ [ExecutionNext]_executionVars => ExecutionInv'
    <2> SUFFICES ASSUME ExecutionInv, [ExecutionNext]_executionVars PROVE ExecutionInv'
        OBVIOUS
    <2> USE DEF ExecutionInv
    <2>1. CASE UNCHANGED executionVars
        BY <2>1 DEF executionVars
    <2>2. ASSUME NEW c \in Callers, ExecuteBegins(c) PROVE ExecutionInv'
        <3>1. /\ caller[c].at = "idle" /\ UNCHANGED <<unfinished, leftover, spoiled>>
              /\ population' = 5 /\ imageGeneration' = 0 /\ executions' = executions + 1
              /\ executing' = executing \cup {c}
            BY <2>2 DEF ExecuteBegins, NoFile, GliderSeed
        <3>2. \E to \in {"refused", "render", "create"} : caller' = [caller EXCEPT ![c] = [at |-> to, seen |-> 0]]
            BY <2>2 DEF ExecuteBegins
        <3>3. QED BY <3>1, <3>2
    <2>3. ASSUME NEW c \in Callers, Refuse(c) PROVE ExecutionInv'
        BY <2>3 DEF Refuse, GridMoves, NoFile
    <2>4. ASSUME NEW c \in Callers, CreateFile(c) PROVE ExecutionInv'
        BY <2>4 DEF CreateFile, GridMoves
    <2>5. ASSUME NEW c \in Callers, WriteFile(c) PROVE ExecutionInv'
        BY <2>5 DEF WriteFile, GridMoves
    <2>6. ASSUME NEW c \in Callers, TickReads(c) PROVE ExecutionInv'
        BY <2>6 DEF TickReads, NoFile
    <2>7. ASSUME NEW c \in Callers, TickWrites(c) PROVE ExecutionInv'
        BY <2>7 DEF TickWrites, GridMoves, NoFile
    <2>8. ASSUME NEW c \in Callers, RunEnds(c) PROVE ExecutionInv'
        BY <2>8 DEF RunEnds, GridMoves, NoFile, Chaos
    <2>9. ASSUME NEW c \in Callers, ReadsGeneration(c) PROVE ExecutionInv'
        BY <2>9 DEF ReadsGeneration, NoFile
    <2>10. ASSUME NEW c \in Callers, WritesGeneration(c) PROVE ExecutionInv'
        BY <2>10 DEF WritesGeneration, GridMoves, NoFile
    <2>11. ASSUME NEW c \in Callers, ExecutionFails(c) PROVE ExecutionInv'
        BY <2>11 DEF ExecutionFails, GridMoves, NoFile
    <2>12. ASSUME NEW c \in Callers, Unlinks(c) PROVE ExecutionInv'
        BY <2>12 DEF Unlinks, GridMoves
    <2>13. QED BY <2>1, <2>2, <2>3, <2>4, <2>5, <2>6, <2>7, <2>8, <2>9, <2>10, <2>11, <2>12 DEF ExecutionNext
<1>3. ExecutionInv => IdleIsTerminated /\ FilesAreRemoved
    BY DEF ExecutionInv, IdleIsTerminated, FilesAreRemoved, Status, InferState
<1>4. QED BY <1>1, <1>2, <1>3, PTL DEF ExecutionSpec

-----------------------------------------------------------------------------
(* Sums and sequences of sequences *)

\* What holds of a, and of k + 1 when it holds of k, holds from a to b.
LEMMA UpwardInduction ==
    ASSUME NEW a \in Nat, NEW b \in Nat, NEW T, a \in T,
           \A k \in a..b - 1 : k \in T => k + 1 \in T
    PROVE  a..b \subseteq T
<1> SUFFICES ASSUME ~(a..b \subseteq T) PROVE FALSE
    OBVIOUS
<1> DEFINE missed == {k \in a..b : k \notin T}
<1>1. missed \in SUBSET Nat /\ missed # {}
    OBVIOUS
<1>2. PICK k \in missed : \A other \in missed : k <= other
    BY <1>1, LeastNumber
<1>3. k \in a..b /\ k \notin T
    BY <1>2
<1>4. k # a
    BY <1>3
<1>5. k - 1 \in a..b - 1 /\ k - 1 \in a..b /\ (k - 1) + 1 = k
    BY <1>3, <1>4
<1>6. k - 1 \notin T
    BY <1>3, <1>5
<1>7. k - 1 \in missed
    BY <1>5, <1>6
<1> HIDE DEF missed
<1>8. k <= k - 1
    BY <1>2, <1>7
<1>9. QED BY <1>3, <1>8

\* The function on 0..n with the value base at 0, each other value of which comes of the one before.
Iterates(f, n, V, base, step) ==
    f \in [0..n -> V] /\ f[0] = base /\ \A i \in 1..n : f[i] = step[i][f[i - 1]]

LEMMA ForwardRecursion ==
    ASSUME NEW n \in Nat, NEW V, NEW base \in V, NEW step \in [1..n -> [V -> V]]
    PROVE  \E f : Iterates(f, n, V, base, step)
<1> DEFINE later == [k \in 0..n - 1 |-> k + 1]
           back == [k \in 0..n - 1 |-> step[n - k]]
<1>1. later \in [0..n - 1 -> 0..n] /\ \A k \in 0..n - 1 : later[k] > k /\ later[k] = k + 1
    OBVIOUS
<1>2. back \in [0..n - 1 -> [V -> V]] /\ \A k \in 0..n - 1 : back[k] = step[n - k]
    <2>1. \A k \in 0..n - 1 : n - k \in 1..n
        OBVIOUS
    <2>2. QED BY <2>1
<1> HIDE DEF later, back
<1>3. PICK g : Unfolds(g, 0, n, V, base, later, back)
    <2>1. 0 \in Nat /\ 0 <= n
        OBVIOUS
    <2>2. QED BY <1>1, <1>2, <2>1, BackwardRecursion
<1>4. g \in [0..n -> V] /\ g[n] = base /\ \A k \in 0..n - 1 : g[k] = back[k][g[later[k]]]
    BY <1>3 DEF Unfolds
<1> DEFINE f == [i \in 0..n |-> g[n - i]]
<1>5. \A i \in 0..n : n - i \in 0..n
    OBVIOUS
<1>6. f \in [0..n -> V] /\ \A i \in 0..n : f[i] = g[n - i]
    BY <1>4, <1>5
<1> HIDE DEF f
<1>7. f[0] = base
    <2>1. 0 \in 0..n /\ n - 0 = n
        OBVIOUS
    <2>2. QED BY <1>4, <1>6, <2>1
<1>8. ASSUME NEW i \in 1..n PROVE f[i] = step[i][f[i - 1]]
    <2>1. /\ n - i \in 0..n - 1 /\ i \in 0..n /\ i - 1 \in 0..n
          /\ (n - i) + 1 = n - (i - 1) /\ n - (n - i) = i
        OBVIOUS
    <2>2. g[n - i] = back[n - i][g[(n - i) + 1]]
        BY <1>1, <1>4, <2>1
    <2>3. back[n - i] = step[i]
        BY <1>2, <2>1
    <2>4. QED BY <1>6, <2>1, <2>2, <2>3
<1>9. QED BY <1>6, <1>7, <1>8 DEF Iterates

LEMMA SumsAre ==
    ASSUME NEW n \in Nat, NEW sizes \in [1..n -> Nat]
    PROVE  /\ SumsOf(sizes) \in [0..n -> Nat] /\ SumsOf(sizes)[0] = 0
           /\ \A k \in 1..n : SumsOf(sizes)[k] = SumsOf(sizes)[k - 1] + sizes[k]
<1> DEFINE step == [k \in 1..n |-> [v \in Nat |-> v + sizes[k]]]
           Sum(f) == f = [k \in 0..n |-> IF k = 0 THEN 0 ELSE f[k - 1] + sizes[k]]
<1>1. step \in [1..n -> [Nat -> Nat]] /\ \A k \in 1..n, v \in Nat : step[k][v] = v + sizes[k]
    OBVIOUS
<1> HIDE DEF step
<1>2. PICK all \in [0..n -> Nat] : all[0] = 0 /\ \A k \in 1..n : all[k] = step[k][all[k - 1]]
    <2>1. 0 \in Nat /\ step \in [1..n -> [Nat -> Nat]]
        BY <1>1
    <2>2. \E f : Iterates(f, n, Nat, 0, step)
        BY <2>1, ForwardRecursion
    <2>3. QED BY <2>2 DEF Iterates
<1>3. \A k \in 1..n : k - 1 \in 0..n
    OBVIOUS
<1>4. \A k \in 0..n : all[k] = IF k = 0 THEN 0 ELSE all[k - 1] + sizes[k]
    <2>1. \A k \in 0..n : k = 0 \/ k \in 1..n
        OBVIOUS
    <2>2. QED BY <1>1, <1>2, <1>3, <2>1
<1>5. Sum(all)
    BY <1>4
<1>6. PICK f : f = (CHOOSE g : Sum(g)) /\ Sum(f)
    BY <1>5
<1>7. SumsOf(sizes) = f
    <2>1. Len(sizes) = n
        OBVIOUS
    <2>2. QED BY <1>6, <2>1 DEF SumsOf
<1>8. DOMAIN f = 0..n /\ \A k \in 0..n : f[k] = IF k = 0 THEN 0 ELSE f[k - 1] + sizes[k]
    BY <1>6
<1>9. f[0] = 0 /\ \A k \in 1..n : f[k] = f[k - 1] + sizes[k]
    <2>1. 0 \in 0..n /\ \A k \in 1..n : k \in 0..n /\ k # 0
        OBVIOUS
    <2>2. QED BY <1>8, <2>1
<1> DEFINE T == {k \in 0..n : f[k] \in Nat}
<1>10. 0..n \subseteq T
    <2>1. 0 \in T /\ 0 \in Nat
        BY <1>9
    <2>2. ASSUME NEW k \in 0..n - 1, k \in T PROVE k + 1 \in T
        <3>1. k + 1 \in 1..n /\ k + 1 \in 0..n /\ (k + 1) - 1 = k
            OBVIOUS
        <3>2. f[k + 1] = f[k] + sizes[k + 1] /\ f[k] \in Nat /\ sizes[k + 1] \in Nat
            BY <1>9, <2>2, <3>1
        <3>3. QED BY <3>1, <3>2
    <2> HIDE DEF T
    <2>3. QED BY <2>1, <2>2, UpwardInduction
<1>11. f \in [0..n -> Nat]
    <2>1. f = [k \in 0..n |-> f[k]]
        BY <1>6
    <2>2. QED BY <1>10, <2>1
<1>12. QED BY <1>7, <1>9, <1>11

LEMMA ConcatPlaces ==
    ASSUME NEW S, NEW u \in Seq(S), NEW v \in Seq(S)
    PROVE  /\ u \o v \in Seq(S) /\ Len(u \o v) = Len(u) + Len(v) /\ Len(u) \in Nat /\ Len(v) \in Nat
           /\ \A q \in 1..Len(u) : q \in 1..Len(u) + Len(v) /\ (u \o v)[q] = u[q]
           /\ \A p \in 1..Len(v) : Len(u) + p \in 1..Len(u) + Len(v) /\ (u \o v)[Len(u) + p] = v[p]
<1>1. /\ u \o v \in Seq(S) /\ Len(u \o v) = Len(u) + Len(v)
      /\ \A i \in 1..Len(u) + Len(v) : (u \o v)[i] = IF i <= Len(u) THEN u[i] ELSE v[i - Len(u)]
    BY ConcatProperties
<1> DEFINE a == Len(u)
           b == Len(v)
<1>2. a \in Nat /\ b \in Nat
    OBVIOUS
<1> HIDE DEF a, b
<1>3. \A q \in 1..a : q \in 1..a + b /\ q <= a
    BY <1>2
<1>4. \A p \in 1..b : a + p \in 1..a + b /\ ~(a + p <= a) /\ (a + p) - a = p
    BY <1>2
<1>5. QED BY <1>1, <1>2, <1>3, <1>4 DEF a, b

\* Where the elements of the sequences lie when they are put one behind the other.
LiesAt(flat, S, n, seqs, at) ==
    /\ flat \in Seq(S) /\ Len(flat) = at[n]
    /\ \A i \in 1..n : \A p \in 1..Len(seqs[i]) :
          at[i - 1] + p \in 1..at[n] /\ flat[at[i - 1] + p] = seqs[i][p]

LEMMA FlattenIs ==
    ASSUME NEW S, NEW n \in Nat, NEW seqs \in [1..n -> Seq(S)]
    PROVE  LiesAt(FlattenSeq(seqs), S, n, seqs, SumsOf([i \in 1..n |-> Len(seqs[i])]))
<1> DEFINE sizes == [i \in 1..n |-> Len(seqs[i])]
           at == SumsOf(sizes)
           step == [i \in 1..n |-> [v \in Seq(S) |-> v \o seqs[i]]]
           Flat(f) == f = [i \in 1..n |-> IF i = 1 THEN seqs[i] ELSE f[i - 1] \o seqs[i]]
<1>1. sizes \in [1..n -> Nat] /\ \A i \in 1..n : sizes[i] = Len(seqs[i])
    OBVIOUS
<1> HIDE DEF sizes
<1>2. at \in [0..n -> Nat] /\ at[0] = 0 /\ \A k \in 1..n : at[k] = at[k - 1] + sizes[k]
    BY <1>1, SumsAre
<1> HIDE DEF at
<1>3. step \in [1..n -> [Seq(S) -> Seq(S)]] /\ \A i \in 1..n, v \in Seq(S) : step[i][v] = v \o seqs[i]
    OBVIOUS
<1> HIDE DEF step
<1>4. PICK all \in [0..n -> Seq(S)] : all[0] = << >> /\ \A i \in 1..n : all[i] = step[i][all[i - 1]]
    <2>1. << >> \in Seq(S) /\ step \in [1..n -> [Seq(S) -> Seq(S)]]
        BY <1>3
    <2>2. \E f : Iterates(f, n, Seq(S), << >>, step)
        BY <2>1, ForwardRecursion
    <2>3. QED BY <2>2 DEF Iterates
<1>5. \A i \in 1..n : all[i] \in Seq(S) /\ all[i] = all[i - 1] \o seqs[i] /\ all[i - 1] \in Seq(S)
    <2>1. \A i \in 1..n : i \in 0..n /\ i - 1 \in 0..n
        OBVIOUS
    <2>2. QED BY <1>3, <1>4, <2>1
<1> DEFINE Lies(g, k) ==
               /\ g[k] \in Seq(S) /\ Len(g[k]) = at[k]
               /\ \A i \in 1..k : \A p \in 1..Len(seqs[i]) :
                     at[i - 1] + p \in 1..at[k] /\ g[k][at[i - 1] + p] = seqs[i][p]
           T == {k \in 0..n : Lies(all, k)}
<1>6. 0..n \subseteq T
    <2>1. 0 \in T /\ 0 \in Nat
        <3>1. all[0] = << >> /\ at[0] = 0
            BY <1>2, <1>4
        <3>2. 0 \in 0..n /\ \A i \in 1..0 : FALSE
            OBVIOUS
        <3>3. all[0] \in Seq(S) /\ Len(all[0]) = at[0]
            BY <3>1
        <3>4. QED BY <3>2, <3>3
    <2>2. ASSUME NEW k \in 0..n - 1, k \in T PROVE k + 1 \in T
        <3>1. k + 1 \in 1..n /\ k + 1 \in 0..n /\ k \in 0..n /\ (k + 1) - 1 = k
            OBVIOUS
        <3>2. all[k] \in Seq(S) /\ seqs[k + 1] \in Seq(S) /\ all[k + 1] = all[k] \o seqs[k + 1]
            BY <1>4, <1>5, <3>1
        <3>3. Lies(all, k)
            BY <2>2
        <3>4. at[k + 1] = Len(all[k]) + Len(seqs[k + 1]) /\ at[k] = Len(all[k])
            BY <1>1, <1>2, <3>1, <3>3
        <3> DEFINE u == all[k]
                   v == seqs[k + 1]
        <3> HIDE DEF u, v
        <3>5. /\ u \o v \in Seq(S) /\ Len(u \o v) = Len(u) + Len(v)
              /\ \A q \in 1..Len(u) : q \in 1..Len(u) + Len(v) /\ (u \o v)[q] = u[q]
              /\ \A p \in 1..Len(v) : Len(u) + p \in 1..Len(u) + Len(v) /\ (u \o v)[Len(u) + p] = v[p]
            <4>1. u \in Seq(S) /\ v \in Seq(S)
                BY <3>2 DEF u, v
            <4>2. QED BY <4>1, ConcatPlaces
        <3>6. all[k + 1] = u \o v /\ at[k + 1] = Len(u) + Len(v) /\ at[k] = Len(u)
            BY <3>2, <3>4 DEF u, v
        <3>7. ASSUME NEW i \in 1..k + 1, NEW p \in 1..Len(seqs[i])
              PROVE  at[i - 1] + p \in 1..at[k + 1] /\ all[k + 1][at[i - 1] + p] = seqs[i][p]
            <4>1. CASE i = k + 1
                <5>1. at[i - 1] = Len(u) /\ seqs[i] = v
                    BY <3>1, <3>6, <4>1 DEF v
                <5>2. p \in 1..Len(v)
                    BY <5>1
                <5>3. Len(u) + p \in 1..Len(u) + Len(v) /\ (u \o v)[Len(u) + p] = v[p]
                    BY <3>5, <5>2
                <5>4. QED BY <3>6, <5>1, <5>3
            <4>2. CASE i # k + 1
                <5>1. i \in 1..k
                    BY <4>2
                <5>2. at[i - 1] + p \in 1..at[k] /\ all[k][at[i - 1] + p] = seqs[i][p]
                    BY <3>3, <5>1
                <5> DEFINE q == at[i - 1] + p
                <5>3. q \in 1..Len(u) /\ u[q] = seqs[i][p]
                    BY <3>6, <5>2 DEF u
                <5> HIDE DEF q
                <5>4. q \in 1..at[k + 1] /\ all[k + 1][q] = seqs[i][p]
                    BY <3>5, <3>6, <5>3
                <5>5. QED BY <5>4 DEF q
            <4>3. QED BY <4>1, <4>2
        <3>8. all[k + 1] \in Seq(S) /\ Len(all[k + 1]) = at[k + 1]
            BY <3>5, <3>6
        <3>9. Lies(all, k + 1)
            BY <3>7, <3>8
        <3> HIDE DEF Lies
        <3>10. QED BY <3>1, <3>9
    <2> HIDE DEF T
    <2>3. QED BY <2>1, <2>2, UpwardInduction
<1>7. Lies(all, n)
    <2>1. n \in 0..n
        OBVIOUS
    <2> HIDE DEF Lies
    <2>2. QED BY <1>6, <2>1
<1>8. FlattenSeq(seqs) = all[n]
    <2>1. Len(seqs) = n
        OBVIOUS
    <2>2. CASE n = 0
        <3>1. seqs = << >>
            BY <2>2
        <3>2. QED BY <1>4, <2>1, <2>2, <3>1 DEF FlattenSeq
    <2>3. CASE n # 0
        <3> DEFINE one == [i \in 1..n |-> all[i]]
        <3>1. one = [i \in 1..n |-> IF i = 1 THEN seqs[i] ELSE one[i - 1] \o seqs[i]]
            <4>1. \A i \in 1..n : i # 1 => i - 1 \in 1..n
                OBVIOUS
            <4>2. all[1] = seqs[1]
                <5>1. 1 \in 1..n /\ 1 - 1 = 0
                    BY <2>3
                <5>2. all[1] = << >> \o seqs[1] /\ seqs[1] \in Seq(S)
                    BY <1>4, <1>5, <5>1
                <5>3. QED BY <5>2, ConcatEmptySeq
            <4>3. \A i \in 1..n : one[i] = IF i = 1 THEN seqs[i] ELSE one[i - 1] \o seqs[i]
                BY <1>5, <4>1, <4>2
            <4>4. QED BY <4>3
        <3> HIDE DEF one
        <3>2. Flat(one)
            BY <3>1
        <3>3. PICK f : f = (CHOOSE g : Flat(g)) /\ Flat(f)
            <4> HIDE DEF Flat
            <4>1. QED BY <3>2
        <3>4. FlattenSeq(seqs) = f[n]
            BY <2>1, <2>3, <3>3 DEF FlattenSeq
        <3>5. \A i \in 1..n : f[i] = IF i = 1 THEN seqs[i] ELSE f[i - 1] \o seqs[i]
            BY <3>3
        <3>6. \A i \in 1..n : one[i] = IF i = 1 THEN seqs[i] ELSE one[i - 1] \o seqs[i]
            BY <3>1
        <3> DEFINE U == {i \in 1..n : f[i] = one[i]}
        <3>7. 1..n \subseteq U
            <4>1. 1 \in U /\ 1 \in Nat
                BY <2>3, <3>5, <3>6
            <4>2. ASSUME NEW i \in 1..n - 1, i \in U PROVE i + 1 \in U
                <5>1. i + 1 \in 1..n /\ i + 1 # 1 /\ (i + 1) - 1 = i
                    OBVIOUS
                <5>2. f[i + 1] = f[i] \o seqs[i + 1] /\ one[i + 1] = one[i] \o seqs[i + 1]
                    BY <3>5, <3>6, <5>1
                <5>3. QED BY <4>2, <5>1, <5>2
            <4> HIDE DEF U
            <4>3. QED BY <4>1, <4>2, UpwardInduction
        <3>8. n \in 1..n
            BY <2>3
        <3>9. f[n] = one[n]
            BY <3>7, <3>8
        <3>10. QED BY <3>4, <3>8, <3>9 DEF one
    <2>4. QED BY <2>2, <2>3
<1> HIDE DEF T
<1>9. QED BY <1>7, <1>8 DEF at, sizes, LiesAt

\* Sequences of at most w elements that have n * w in all have w each.
FullAt(flat, n, w, seqs) ==
    \A k \in 1..n : Len(seqs[k]) = w /\ \A c \in 1..w : flat[(k - 1) * w + c] = seqs[k][c]

LEMMA FullRows ==
    ASSUME NEW S, NEW n \in Nat, NEW w \in Nat, NEW seqs \in [1..n -> Seq(S)],
           \A k \in 1..n : Len(seqs[k]) <= w, NEW total, total = n * w, Len(FlattenSeq(seqs)) = total
    PROVE  FullAt(FlattenSeq(seqs), n, w, seqs)
<1> DEFINE sizes == [i \in 1..n |-> Len(seqs[i])]
           at == SumsOf(sizes)
           T == {k \in 0..n : at[k] >= k * w}
           U == {k \in 0..n : at[k] <= k * w}
<1>1. sizes \in [1..n -> Nat] /\ \A i \in 1..n : sizes[i] = Len(seqs[i])
    OBVIOUS
<1>2. /\ at[n] = n * w
      /\ \A i \in 1..n : \A p \in 1..Len(seqs[i]) : FlattenSeq(seqs)[at[i - 1] + p] = seqs[i][p]
    <2>1. LiesAt(FlattenSeq(seqs), S, n, seqs, at)
        BY FlattenIs
    <2> HIDE DEF at
    <2>2. QED BY <2>1 DEF LiesAt
<1> HIDE DEF sizes
<1>3. at \in [0..n -> Nat] /\ at[0] = 0 /\ \A k \in 1..n : at[k] = at[k - 1] + sizes[k]
    BY <1>1, SumsAre
<1> HIDE DEF at
<1>4. ASSUME NEW k \in 0..n - 1
      PROVE  /\ k + 1 \in 1..n /\ k \in 0..n /\ k + 1 \in 0..n /\ at[k] \in Nat /\ at[k + 1] \in Nat
             /\ at[k + 1] <= at[k] + w /\ (k + 1) * w = k * w + w /\ k * w \in Nat
    <2>1. k + 1 \in 1..n /\ k \in 0..n /\ k + 1 \in 0..n /\ (k + 1) - 1 = k /\ k \in Nat
        OBVIOUS
    <2>2. sizes[k + 1] \in Nat /\ sizes[k + 1] <= w
        BY <1>1, <2>1
    <2>3. (k + 1) * w = k * w + w /\ k * w \in Nat
        BY <2>1
    <2>4. at[k] \in Nat /\ at[k + 1] \in Nat /\ at[k + 1] = at[k] + sizes[k + 1]
        BY <1>3, <2>1
    <2>5. at[k + 1] <= at[k] + w
        BY <2>2, <2>4
    <2>6. QED BY <2>1, <2>3, <2>4, <2>5
<1>5. 0..n \subseteq T
    <2>1. n \in T /\ 0 \in Nat
        BY <1>2, <1>3
    <2>2. ASSUME NEW k \in 0..n - 1, k + 1 \in T PROVE k \in T
        BY <1>4, <2>2
    <2> HIDE DEF T
    <2>3. QED BY <2>1, <2>2, DownwardInduction
<1>6. 0..n \subseteq U
    <2>1. 0 \in U /\ 0 \in Nat
        BY <1>3
    <2>2. ASSUME NEW k \in 0..n - 1, k \in U PROVE k + 1 \in U
        BY <1>4, <2>2
    <2> HIDE DEF U
    <2>3. QED BY <2>1, <2>2, UpwardInduction
<1>7. \A k \in 0..n : at[k] = k * w
    <2> SUFFICES ASSUME NEW k \in 0..n PROVE at[k] = k * w
        OBVIOUS
    <2> DEFINE kw == k * w
    <2>1. at[k] \in Nat /\ kw \in Nat
        BY <1>3
    <2>2. at[k] >= kw /\ at[k] <= kw
        BY <1>5, <1>6
    <2> HIDE DEF kw
    <2>3. at[k] = kw
        BY <2>1, <2>2
    <2>4. QED BY <2>3 DEF kw
<1> HIDE DEF T, U
<1>8. ASSUME NEW k \in 1..n
      PROVE  Len(seqs[k]) = w /\ \A c \in 1..w : FlattenSeq(seqs)[(k - 1) * w + c] = seqs[k][c]
    <2>1. k \in 0..n /\ k - 1 \in 0..n - 1 /\ k - 1 \in 0..n /\ (k - 1) + 1 = k
        OBVIOUS
    <2>2. at[k] = (k - 1) * w + w /\ at[k - 1] = (k - 1) * w /\ (k - 1) * w \in Nat
        BY <1>4, <1>7, <2>1
    <2>3. sizes[k] = w
        BY <1>1, <1>3, <2>2
    <2>4. QED BY <1>1, <1>2, <2>2, <2>3
<1>9. QED BY <1>8 DEF FullAt

\* As many of the w elements from the (from+1)-st on as there are.
LEMMA PartIs ==
    ASSUME NEW S, NEW s \in Seq(S), NEW from \in Nat, NEW w \in Nat
    PROVE  LET part == SubSeq(s, from + 1, IF from + w < Len(s) THEN from + w ELSE Len(s)) IN
           /\ part \in Seq(S) /\ Len(part) <= w
           /\ Len(part) = w => \A c \in 1..w : from + c \in 1..Len(s) /\ part[c] = s[from + c]
<1> DEFINE end == IF from + w < Len(s) THEN from + w ELSE Len(s)
           part == SubSeq(s, from + 1, end)
<1>1. end \in Int /\ end <= Len(s) /\ end <= from + w /\ Len(s) \in Nat /\ from + 1 \in Int
    OBVIOUS
<1> HIDE DEF end
<1>2. \A i \in from + 1..end : s[i] \in S
    BY <1>1
<1>3. /\ part \in Seq(S) /\ Len(part) = IF from + 1 <= end THEN end - (from + 1) + 1 ELSE 0
      /\ \A c \in 1..end - (from + 1) + 1 : part[c] = s[(from + 1) + c - 1]
    BY <1>1, <1>2, SubSeqProperties
<1> HIDE DEF part
<1>4. Len(part) <= w
    BY <1>1, <1>3
<1>5. ASSUME Len(part) = w, NEW c \in 1..w PROVE from + c \in 1..Len(s) /\ part[c] = s[from + c]
    <2>1. end = from + w /\ (from + 1) + c - 1 = from + c /\ c \in 1..end - (from + 1) + 1
        BY <1>1, <1>3, <1>5
    <2>2. QED BY <1>1, <1>3, <2>1
<1>6. QED BY <1>3, <1>4, <1>5 DEF part, end

-----------------------------------------------------------------------------
(* The tensor files *)

InfoValues == [is : {"info"}, rows : Nat, width : Nat, from : Nat, to : Nat]
CellValues ==
    [is : {"size"}, n : Nat] \cup InfoValues
    \cup [is : {"data"}, save : Nat, of : Nat, place : Nat]

InfoOf(m, i) ==
    [is |-> "info", rows |-> m[i].rows, width |-> m[i].width, from |-> Offset(m, i - 1), to |-> Offset(m, i)]

DataOf(s, i, p) == [is |-> "data", save |-> s, of |-> i, place |-> p]

LEMMA OffsetsAre ==
    ASSUME NEW m \in Models
    PROVE  /\ m \in Seq([rows : Nat, width : Nat]) /\ Len(m) \in Nat /\ DOMAIN m = 1..Len(m)
           /\ \A i \in 0..Len(m) : Offset(m, i) \in Nat
           /\ Offset(m, 0) = 0
           /\ \A i \in 1..Len(m) : /\ m[i].rows \in Nat /\ m[i].width \in Nat /\ m[i].rows * m[i].width \in Nat
                                    /\ Offset(m, i) = Offset(m, i - 1) + m[i].rows * m[i].width
<1>1. m \in Seq([rows : Nat, width : Nat]) /\ Len(m) \in Nat /\ DOMAIN m = 1..Len(m)
    BY ModelFilesAssumption
<1> DEFINE n == Len(m)
           sizes == [k \in 1..n |-> m[k].rows * m[k].width]
<1>2. \A i \in 1..n : m[i].rows \in Nat /\ m[i].width \in Nat /\ m[i].rows * m[i].width \in Nat
    <2> SUFFICES ASSUME NEW i \in 1..n
                 PROVE  m[i].rows \in Nat /\ m[i].width \in Nat /\ m[i].rows * m[i].width \in Nat
        OBVIOUS
    <2> DEFINE R == [rows : Nat, width : Nat]
    <2>1. m[i] \in [rows : Nat, width : Nat]
        <3>1. m \in Seq(R) /\ i \in 1..Len(m)
            BY <1>1
        <3> HIDE DEF R
        <3>2. m[i] \in R
            BY <3>1, ElementOfSeq
        <3>3. QED BY <3>2 DEF R
    <2>2. m[i].rows \in Nat /\ m[i].width \in Nat
        BY <2>1
    <2>3. QED BY <2>2
<1>3. sizes \in [1..n -> Nat] /\ \A i \in 1..n : sizes[i] = m[i].rows * m[i].width
    BY <1>2
<1>4. \A i : Offset(m, i) = SumsOf(sizes)[i]
    BY <1>1 DEF Offset
<1> HIDE DEF sizes, n
<1>5. /\ SumsOf(sizes) \in [0..n -> Nat] /\ SumsOf(sizes)[0] = 0
      /\ \A k \in 1..n : SumsOf(sizes)[k] = SumsOf(sizes)[k - 1] + sizes[k]
    BY <1>1, <1>3, SumsAre DEF n
<1>6. /\ \A i \in 0..n : SumsOf(sizes)[i] \in Nat
      /\ \A i \in 1..n : SumsOf(sizes)[i] = SumsOf(sizes)[i - 1] + m[i].rows * m[i].width
    BY <1>3, <1>5
<1>7. QED BY <1>1, <1>2, <1>4, <1>5, <1>6 DEF n

LEMMA FileIs ==
    ASSUME NEW s \in Nat, NEW m \in Models
    PROVE  LET n == Len(m)
               cells == FileCells(s, m) IN
           /\ cells \in Seq(CellValues) /\ Len(cells) = 1 + n + Offset(m, n)
           /\ cells[1] = [is |-> "size", n |-> n]
           /\ \A i \in 1..n : cells[1 + i] = InfoOf(m, i)
           /\ \A i \in 1..n : \A p \in 1..m[i].rows * m[i].width :
                 /\ 1 + n + Offset(m, i - 1) + p \in 1..Len(cells)
                 /\ cells[1 + n + Offset(m, i - 1) + p] = DataOf(s, i, p)
<1> DEFINE n == Len(m)
           tensors == [i \in 1..n |-> TensorCells(s, m, i)]
           infos == [i \in 1..n |-> InfoOf(m, i)]
           size == <<[is |-> "size", n |-> n]>>
           data == FlattenSeq(tensors)
           head == size \o infos
<1>1. /\ n \in Nat /\ DOMAIN m = 1..n /\ \A i \in 0..n : Offset(m, i) \in Nat
      /\ \A i \in 1..n : /\ m[i].rows \in Nat /\ m[i].width \in Nat /\ m[i].rows * m[i].width \in Nat
                         /\ Offset(m, i) = Offset(m, i - 1) + m[i].rows * m[i].width
      /\ Offset(m, 0) = 0
    BY OffsetsAre
<1>2. FileCells(s, m) = head \o data
    BY <1>1 DEF FileCells, HeaderCells, InfoOf
<1>3. size \in Seq(CellValues) /\ Len(size) = 1 /\ size[1] = [is |-> "size", n |-> n]
    <2>1. [is |-> "size", n |-> n] \in CellValues
        BY <1>1 DEF CellValues
    <2>2. QED BY <2>1
<1>4. infos \in Seq(CellValues) /\ Len(infos) = n /\ \A i \in 1..n : infos[i] = InfoOf(m, i)
    <2>1. ASSUME NEW i \in 1..n PROVE InfoOf(m, i) \in CellValues
        <3>1. i \in 0..n /\ i - 1 \in 0..n
            BY <1>1
        <3>2. QED BY <1>1, <3>1 DEF InfoOf, CellValues, InfoValues
    <2>2. infos \in [1..n -> CellValues] /\ \A i \in 1..n : infos[i] = InfoOf(m, i)
        BY <2>1
    <2>3. n \in Nat
        BY <1>1
    <2> HIDE DEF infos, n
    <2>4. infos \in Seq(CellValues) /\ Len(infos) = n
        BY <2>2, <2>3
    <2>5. QED BY <2>2, <2>4
<1>5. ASSUME NEW i \in 1..n
      PROVE  /\ TensorCells(s, m, i) \in Seq(CellValues) /\ Len(TensorCells(s, m, i)) = m[i].rows * m[i].width
             /\ \A p \in 1..m[i].rows * m[i].width : TensorCells(s, m, i)[p] = DataOf(s, i, p)
    <2> DEFINE k == m[i].rows * m[i].width
    <2>1. k \in Nat
        BY <1>1
    <2>2. TensorCells(s, m, i) = [p \in 1..k |-> DataOf(s, i, p)]
        BY DEF TensorCells, DataOf
    <2> HIDE DEF k
    <2>3. \A p \in 1..k : DataOf(s, i, p) \in CellValues
        BY <1>1, <2>1 DEF DataOf, CellValues
    <2>4. [p \in 1..k |-> DataOf(s, i, p)] \in [1..k -> CellValues]
        BY <2>3
    <2>5. QED BY <2>1, <2>2, <2>4 DEF k
<1>6. tensors \in [1..n -> Seq(CellValues)] /\ \A i \in 1..n : tensors[i] = TensorCells(s, m, i)
    BY <1>5
<1> DEFINE sizes == [i \in 1..n |-> Len(tensors[i])]
<1>7. \A i : SumsOf(sizes)[i] = Offset(m, i)
    <2>1. sizes = [k \in DOMAIN m |-> m[k].rows * m[k].width]
        BY <1>1, <1>5, <1>6
    <2>2. QED BY <2>1 DEF Offset
<1> HIDE DEF tensors
<1>8. LiesAt(data, CellValues, n, tensors, SumsOf(sizes))
    BY <1>1, <1>6, FlattenIs
<1> HIDE DEF sizes, data
<1>9. /\ data \in Seq(CellValues) /\ Len(data) = Offset(m, n)
      /\ \A i \in 1..n : \A p \in 1..m[i].rows * m[i].width :
            Offset(m, i - 1) + p \in 1..Offset(m, n) /\ data[Offset(m, i - 1) + p] = DataOf(s, i, p)
    <2>1. LiesAt(data, CellValues, n, tensors, SumsOf(sizes)) /\ SumsOf(sizes)[n] = Offset(m, n)
        BY <1>7, <1>8
    <2>2. ASSUME NEW i \in 1..n, NEW p \in 1..m[i].rows * m[i].width
          PROVE  Offset(m, i - 1) + p \in 1..Offset(m, n) /\ data[Offset(m, i - 1) + p] = DataOf(s, i, p)
        <3>1. p \in 1..Len(tensors[i]) /\ tensors[i][p] = DataOf(s, i, p)
            BY <1>5, <1>6
        <3>2. /\ SumsOf(sizes)[i - 1] + p \in 1..SumsOf(sizes)[n]
              /\ data[SumsOf(sizes)[i - 1] + p] = tensors[i][p]
            BY <1>8, <3>1 DEF LiesAt
        <3>3. QED BY <1>7, <3>1, <3>2
    <2>3. QED BY <2>1, <2>2 DEF LiesAt
<1> HIDE DEF size, infos, n
<1>10. /\ head \in Seq(CellValues) /\ Len(head) = 1 + n
       /\ head[1] = [is |-> "size", n |-> n] /\ \A i \in 1..n : head[1 + i] = InfoOf(m, i)
    <2>1. 1 \in 1..Len(size)
        BY <1>3
    <2>2. size \in Seq(CellValues) /\ infos \in Seq(CellValues)
        BY <1>3, <1>4
    <2>3. /\ head \in Seq(CellValues) /\ Len(head) = Len(size) + Len(infos)
          /\ \A q \in 1..Len(size) : head[q] = size[q]
          /\ \A p \in 1..Len(infos) : head[Len(size) + p] = infos[p]
        BY <2>2, ConcatPlaces
    <2> HIDE DEF head
    <2>4. QED BY <1>3, <1>4, <2>1, <2>3
<1> HIDE DEF head
<1>11. /\ head \o data \in Seq(CellValues) /\ Len(head \o data) = Len(head) + Len(data)
       /\ \A q \in 1..Len(head) : (head \o data)[q] = head[q]
       /\ \A p \in 1..Len(data) : Len(head) + p \in 1..Len(head) + Len(data) /\ (head \o data)[Len(head) + p] = data[p]
    <2>1. head \in Seq(CellValues) /\ data \in Seq(CellValues)
        BY <1>9, <1>10
    <2>2. QED BY <2>1, ConcatPlaces
<1>12. (head \o data)[1] = [is |-> "size", n |-> n] /\ \A i \in 1..n : (head \o data)[1 + i] = InfoOf(m, i)
    <2>1. 1 \in 1..1 + n /\ \A i \in 1..n : 1 + i \in 1..1 + n
        BY <1>1 DEF n
    <2>2. QED BY <1>10, <1>11, <2>1
<1>13. ASSUME NEW i \in 1..n, NEW p \in 1..m[i].rows * m[i].width
       PROVE  /\ 1 + n + Offset(m, i - 1) + p \in 1..Len(head \o data)
              /\ (head \o data)[1 + n + Offset(m, i - 1) + p] = DataOf(s, i, p)
    <2> DEFINE q == Offset(m, i - 1) + p
    <2>1. q \in 1..Len(data) /\ data[q] = DataOf(s, i, p)
        BY <1>9
    <2>2. 1 + n + Offset(m, i - 1) + p = (1 + n) + q
        <3>1. i - 1 \in 0..n /\ p \in Int
            BY <1>1 DEF n
        <3>2. Offset(m, i - 1) \in Nat /\ n \in Nat
            BY <1>1, <3>1 DEF n
        <3>3. QED BY <3>1, <3>2
    <2> HIDE DEF q
    <2>3. (1 + n) + q \in 1..Len(head \o data) /\ (head \o data)[(1 + n) + q] = data[q]
        BY <1>10, <1>11, <2>1
    <2>4. QED BY <2>1, <2>2, <2>3
<1>14. Len(head \o data) = 1 + n + Offset(m, n)
    BY <1>9, <1>10, <1>11
<1>15. QED BY <1>2, <1>11, <1>12, <1>13, <1>14 DEF n

\* The whole of what the last save is to write.
WholeFile == FileCells(Len(saved), Last(saved))

HandleValues ==
    [at : {"closed", "sized", "mapped", "open", "failed"}, seen : Nat, size : Nat, length : Nat,
     parsed : BOOLEAN, infos : Seq(InfoValues), start : Nat]

\* The file, and what is still to be written, are parts of the whole.
FileIsPart ==
    IF saved = << >> THEN modelFile = << >> /\ unsaved = << >>
    ELSE /\ Len(modelFile) <= Len(WholeFile)
         /\ \A i \in 1..Len(modelFile) : modelFile[i] = WholeFile[i]
         /\ unsaved # << >> =>
              /\ Len(modelFile) + Len(unsaved) = Len(WholeFile)
              /\ \A i \in 1..Len(unsaved) : unsaved[i] = WholeFile[Len(modelFile) + i]

ParsedIsLast ==
    Calm /\ handle.parsed =>
        /\ handle.start = 1 + Len(Last(saved)) /\ Len(handle.infos) = Len(Last(saved))
        /\ \A i \in 1..Len(Last(saved)) : handle.infos[i] = InfoOf(Last(saved), i)

ReadIsOfLast == Calm /\ gaveCells.of # 0 => gaveCells.of \in DOMAIN Last(saved)

ModelFilesInv ==
    /\ modelFile \in Seq(CellValues) /\ unsaved \in Seq(CellValues) /\ saved \in Seq(Models)
    /\ handle \in HandleValues /\ handle.seen <= Len(saved)
    /\ FileIsPart /\ ParsedIsLast /\ RowsAsSaved
    /\ Calm => saved # << >> /\ handle.size <= Len(modelFile)
    /\ Calm /\ handle.at = "open" => handle.parsed /\ handle.size = Len(WholeFile)

LEMMA LastSaved ==
    ASSUME saved \in Seq(Models), saved # << >>
    PROVE  Len(saved) \in Nat /\ Last(saved) \in Models
<1> Len(saved) \in 1..Len(saved)
    OBVIOUS
<1> QED BY ElementOfSeq DEF Last

\* What a mapping shows is a part of the whole, too.
LEMMA MappedIs ==
    ASSUME ModelFilesInv, saved # << >>
    PROVE  /\ Mapped \in Seq(CellValues) /\ Len(Mapped) <= Len(modelFile)
           /\ Len(WholeFile) \in Nat /\ Len(modelFile) \in Nat
           /\ \A i \in 1..Len(Mapped) : Mapped[i] = WholeFile[i]
<1> DEFINE end == IF handle.length < Len(modelFile) THEN handle.length ELSE Len(modelFile)
           whole == WholeFile
<1>1. modelFile \in Seq(CellValues) /\ handle.length \in Nat
    BY DEF ModelFilesInv, HandleValues
<1>2. Len(modelFile) \in Nat /\ \A i \in 1..Len(modelFile) : modelFile[i] \in CellValues
    BY <1>1, ElementOfSeq
<1>3. end \in Nat /\ end <= Len(modelFile)
    BY <1>1, <1>2
<1>4. Mapped = SubSeq(modelFile, 1, end)
    BY DEF Mapped
<1> HIDE DEF end, whole
<1>5. Len(whole) \in Nat /\ \A i \in 1..Len(modelFile) : modelFile[i] = whole[i]
    <2>1. WholeFile \in Seq(CellValues)
        BY LastSaved, FileIs DEF ModelFilesInv, WholeFile
    <2>2. QED BY <2>1 DEF whole, ModelFilesInv, FileIsPart
<1>6. \A i \in 1..end : modelFile[i] \in CellValues /\ modelFile[i] = whole[i]
    <2>1. \A i \in 1..end : i \in 1..Len(modelFile)
        BY <1>2, <1>3
    <2>2. QED BY <1>2, <1>5, <2>1
<1>7. /\ SubSeq(modelFile, 1, end) \in Seq(CellValues) /\ Len(SubSeq(modelFile, 1, end)) = end
      /\ \A i \in 1..end : SubSeq(modelFile, 1, end)[i] = modelFile[i]
    <2>1. 1 \in Int /\ end \in Int
        BY <1>3
    <2> DEFINE part == SubSeq(modelFile, 1, end)
    <2>2. /\ part \in Seq(CellValues) /\ Len(part) = IF 1 <= end THEN end - 1 + 1 ELSE 0
          /\ \A i \in 1..end - 1 + 1 : part[i] = modelFile[1 + i - 1]
        BY <1>6, <2>1, SubSeqProperties
    <2> HIDE DEF part
    <2>3. Len(part) = end /\ \A i \in 1..end : part[i] = modelFile[i]
        BY <1>3, <2>2
    <2>4. QED BY <2>2, <2>3 DEF part
<1>8. QED BY <1>2, <1>3, <1>4, <1>5, <1>6, <1>7 DEF whole

\* The header that fits is the one of the last save.
LEMMA EntriesAre ==
    ASSUME ModelFilesInv, saved # << >>, HeaderFits(Mapped)
    PROVE  /\ Entries(Mapped) \in Seq(InfoValues) /\ Len(Entries(Mapped)) = Len(Last(saved))
           /\ \A i \in 1..Len(Last(saved)) : Entries(Mapped)[i] = InfoOf(Last(saved), i)
<1> DEFINE m == Last(saved)
           n == Len(m)
           cells == Mapped
           infos == [i \in 1..n |-> cells[1 + i]]
<1>1. /\ cells \in Seq(CellValues) /\ Len(cells) \in Nat
      /\ \A i \in 1..Len(cells) : cells[i] = WholeFile[i]
    BY MappedIs
<1>2. /\ n \in Nat /\ WholeFile[1] = [is |-> "size", n |-> n] 
      /\ \A i \in 1..n : WholeFile[1 + i] = InfoOf(m, i)
    BY LastSaved, FileIs, OffsetsAre DEF ModelFilesInv, WholeFile
<1> HIDE DEF n, cells
<1>3. Len(cells) > 0 /\ Len(cells) >= 1 + cells[1].n /\ Entries(Mapped) = [i \in 1..cells[1].n |-> cells[1 + i]]
    BY DEF HeaderFits, Entries, cells
<1>4. cells[1].n = n
    <2>1. 1 \in 1..Len(cells)
        BY <1>1, <1>3
    <2>2. QED BY <1>1, <1>2, <2>1
<1>5. \A i \in 1..n : 1 + i \in 1..Len(cells)
    BY <1>1, <1>2, <1>3, <1>4
<1>6. \A i \in 1..n : cells[1 + i] = InfoOf(m, i) /\ cells[1 + i] \in InfoValues
    <2> SUFFICES ASSUME NEW i \in 1..n PROVE cells[1 + i] = InfoOf(m, i) /\ InfoOf(m, i) \in InfoValues
        OBVIOUS
    <2>1. cells[1 + i] = InfoOf(m, i)
        BY <1>1, <1>2, <1>5
    <2>2. /\ i \in 0..Len(m) /\ i - 1 \in 0..Len(m) /\ i \in 1..Len(m)
        BY <1>2 DEF n
    <2>3. InfoOf(m, i) \in InfoValues
        <3>1. m \in Models
            BY LastSaved DEF ModelFilesInv
        <3> HIDE DEF m
        <3>2. /\ Offset(m, i) \in Nat /\ Offset(m, i - 1) \in Nat /\ m[i].rows \in Nat /\ m[i].width \in Nat
            BY <2>2, <3>1, OffsetsAre
        <3>3. QED BY <3>2 DEF InfoOf, InfoValues
    <2>4. QED BY <2>1, <2>3
<1> HIDE DEF m
<1>7. infos \in [1..n -> InfoValues] /\ \A i \in 1..n : infos[i] = InfoOf(m, i)
    BY <1>6
<1>8. infos \in Seq(InfoValues) /\ Len(infos) = n
    BY <1>2, <1>7
<1>9. QED BY <1>3, <1>4, <1>7, <1>8 DEF n, m

LEMMA SaveBeginsKeeps == ASSUME ModelFilesInv, NEW m \in Models, SaveBegins(m) PROVE ModelFilesInv'
<1>1. /\ unsaved = << >> /\ modelFile' = << >> /\ unsaved' = FileCells(Len(saved) + 1, m)
      /\ saved' = Append(saved, m) /\ handle' = handle /\ gaveCells' = gaveCells
    BY DEF SaveBegins
<1>2. Len(saved) \in Nat /\ saved' \in Seq(Models) /\ Len(saved') = Len(saved) + 1 /\ saved'[Len(saved')] = m
    BY <1>1, AppendProperties DEF ModelFilesInv
<1>3. saved' # << >> /\ WholeFile' = FileCells(Len(saved) + 1, m)
    BY <1>2 DEF WholeFile, Last
<1>4. unsaved' \in Seq(CellValues) /\ modelFile' \in Seq(CellValues)
    <2>1. Len(saved) + 1 \in Nat
        BY <1>2
    <2>2. FileCells(Len(saved) + 1, m) \in Seq(CellValues)
        BY <2>1, FileIs
    <2>3. << >> \in Seq(CellValues)
        OBVIOUS
    <2>4. QED BY <1>1, <2>2, <2>3
<1>5. ~Calm'
    <2>1. handle.seen \in Nat /\ handle.seen <= Len(saved)
        BY DEF ModelFilesInv, HandleValues
    <2>2. QED BY <1>1, <1>2, <2>1 DEF Calm
<1>6. FileIsPart'
    <2> DEFINE whole == FileCells(Len(saved) + 1, m)
    <2>1. Len(whole) \in Nat /\ Len(modelFile') = 0 /\ \A i \in 1..Len(whole) : Len(modelFile') + i = i
        BY <1>1, <1>4
    <2>2. unsaved' = whole /\ WholeFile' = whole
        BY <1>1, <1>3
    <2> HIDE DEF whole
    <2>3. Len(modelFile') <= Len(whole) /\ Len(modelFile') + Len(unsaved') = Len(whole) /\ 1..Len(modelFile') = {}
        BY <2>1, <2>2
    <2>4. QED BY <1>3, <2>1, <2>2, <2>3 DEF FileIsPart
<1>7. QED BY <1>1, <1>2, <1>4, <1>5, <1>6 DEF ModelFilesInv, ParsedIsLast, RowsAsSaved, HandleValues

LEMMA SaveWritesKeeps == ASSUME ModelFilesInv, SaveWrites PROVE ModelFilesInv'
<1>1. PICK n \in 1..Len(unsaved) : /\ modelFile' = modelFile \o SubSeq(unsaved, 1, n)
                                   /\ unsaved' = SubSeq(unsaved, n + 1, Len(unsaved))
    BY DEF SaveWrites
<1> DEFINE a == Len(modelFile)
           b == Len(unsaved)
           now == SubSeq(unsaved, 1, n)
           whole == WholeFile
<1>2. /\ saved' = saved /\ handle' = handle /\ gaveCells' = gaveCells /\ WholeFile' = WholeFile
      /\ modelFile \in Seq(CellValues) /\ unsaved \in Seq(CellValues)
    BY DEF SaveWrites, ModelFilesInv, WholeFile
<1>3. a \in Nat /\ b \in Nat /\ n \in 1..b /\ unsaved # << >>
    BY <1>1, <1>2
<1>4. /\ saved # << >> /\ a + b = Len(whole) /\ (\A i \in 1..a : modelFile[i] = whole[i])
      /\ \A i \in 1..b : unsaved[i] = whole[a + i] /\ unsaved[i] \in CellValues
    BY <1>2, <1>3, ElementOfSeq DEF ModelFilesInv, FileIsPart
<1> HIDE DEF a, b, whole
<1>5. now \in Seq(CellValues) /\ Len(now) = n /\ \A i \in 1..n : now[i] = unsaved[i]
    <2>1. 1 \in Int /\ n \in Int /\ \A i \in 1..n : i \in 1..b
        BY <1>3
    <2>2. /\ now \in Seq(CellValues) /\ Len(now) = IF 1 <= n THEN n - 1 + 1 ELSE 0
          /\ \A i \in 1..n - 1 + 1 : now[i] = unsaved[1 + i - 1]
        BY <1>4, <2>1, SubSeqProperties
    <2> HIDE DEF now
    <2>3. QED BY <1>3, <2>2
<1>6. /\ unsaved' \in Seq(CellValues) /\ Len(unsaved') = b - n
      /\ \A i \in 1..b - n : unsaved'[i] = unsaved[n + i]
    <2> DEFINE rest == SubSeq(unsaved, n + 1, b)
    <2>1. n + 1 \in Int /\ b \in Int /\ \A i \in n + 1..b : i \in 1..b
        BY <1>3
    <2>2. /\ rest \in Seq(CellValues) /\ Len(rest) = IF n + 1 <= b THEN b - (n + 1) + 1 ELSE 0
          /\ \A i \in 1..b - (n + 1) + 1 : rest[i] = unsaved[(n + 1) + i - 1]
        BY <1>4, <2>1, SubSeqProperties
    <2>3. unsaved' = rest
        BY <1>1 DEF b
    <2> HIDE DEF rest
    <2>4. QED BY <1>3, <2>2, <2>3
<1> HIDE DEF now
<1>7. /\ modelFile' \in Seq(CellValues) /\ Len(modelFile') = a + n
      /\ \A q \in 1..a : modelFile'[q] = modelFile[q]
      /\ \A p \in 1..n : modelFile'[a + p] = now[p]
    <2>1. modelFile' = modelFile \o now
        BY <1>1 DEF now
    <2>2. /\ modelFile \o now \in Seq(CellValues) /\ Len(modelFile \o now) = Len(modelFile) + Len(now)
          /\ \A q \in 1..Len(modelFile) : (modelFile \o now)[q] = modelFile[q]
          /\ \A p \in 1..Len(now) : (modelFile \o now)[Len(modelFile) + p] = now[p]
        <3>1. modelFile \in Seq(CellValues) /\ now \in Seq(CellValues)
            BY <1>2, <1>5
        <3>2. QED BY <3>1, ConcatPlaces
    <2>3. QED BY <1>5, <2>1, <2>2 DEF a
<1>8. \A i \in 1..Len(modelFile') : modelFile'[i] = whole[i]
    <2> SUFFICES ASSUME NEW i \in 1..a + n PROVE modelFile'[i] = whole[i]
        BY <1>7
    <2>1. CASE i \in 1..a
        BY <1>4, <1>7, <2>1
    <2>2. CASE i \notin 1..a
        <3>1. i - a \in 1..n /\ i - a \in 1..b /\ a + (i - a) = i
            BY <1>3, <2>2
        <3>2. modelFile'[a + (i - a)] = whole[a + (i - a)]
            BY <1>4, <1>5, <1>7, <3>1
        <3>3. QED BY <3>1, <3>2
    <2>3. QED BY <2>1, <2>2
<1>9. /\ Len(modelFile') <= Len(whole) /\ Len(modelFile') + Len(unsaved') = Len(whole)
      /\ Len(modelFile) <= Len(modelFile') /\ Len(modelFile) \in Nat /\ Len(modelFile') \in Nat
    <2> DEFINE x == Len(modelFile')
               y == Len(unsaved')
               z == Len(whole)
    <2>1. x = a + n /\ y = b - n /\ z = a + b
        BY <1>4, <1>6, <1>7
    <2> HIDE DEF x, y, z
    <2>2. x <= z /\ x + y = z /\ a <= x /\ x \in Nat
        BY <1>3, <2>1
    <2>3. QED BY <1>3, <2>2 DEF x, y, z, a
<1>10. \A i \in 1..Len(unsaved') : unsaved'[i] = whole[Len(modelFile') + i]
    <2> SUFFICES ASSUME NEW i \in 1..b - n PROVE unsaved'[i] = whole[(a + n) + i]
        BY <1>6, <1>7
    <2>1. n + i \in 1..b /\ (a + n) + i = a + (n + i)
        BY <1>3
    <2>2. QED BY <1>4, <1>6, <2>1
<1>11. FileIsPart'
    BY <1>2, <1>4, <1>8, <1>9, <1>10 DEF FileIsPart, whole
<1>12. handle.size \in Nat
    BY DEF ModelFilesInv, HandleValues
<1>13. Calm' = Calm /\ ParsedIsLast' /\ RowsAsSaved'
    BY <1>2 DEF ModelFilesInv, ParsedIsLast, RowsAsSaved, Calm
<1>14. Calm => saved # << >> /\ handle.size <= Len(modelFile')
    <2>1. Calm => handle.size <= Len(modelFile)
        BY DEF ModelFilesInv
    <2>2. QED BY <1>4, <1>9, <1>12, <2>1
<1>15. QED BY <1>2, <1>6, <1>7, <1>11, <1>13, <1>14 DEF ModelFilesInv

\* The file and what was saved stay.
LEMMA FileUntouched ==
    ASSUME ModelFilesInv, UNCHANGED <<modelFile, unsaved, saved>>
    PROVE  /\ modelFile' \in Seq(CellValues) /\ unsaved' \in Seq(CellValues) /\ saved' \in Seq(Models)
           /\ WholeFile' = WholeFile /\ FileIsPart'
    BY DEF ModelFilesInv, WholeFile, FileIsPart

LEMMA StatsKeeps == ASSUME ModelFilesInv, Stats PROVE ModelFilesInv'
<1>1. /\ saved # << >> /\ UNCHANGED <<modelFile, unsaved, saved>> /\ gaveCells' = NoRead
      /\ handle' = [NoHandle EXCEPT !.at = "sized", !.seen = Len(saved), !.size = Len(modelFile)]
    BY DEF Stats
<1>2. Len(saved) \in Nat /\ Len(modelFile) \in Nat
    BY DEF ModelFilesInv
<1>3. /\ handle' \in HandleValues /\ handle'.seen = Len(saved) /\ handle'.size = Len(modelFile)
      /\ handle'.at = "sized" /\ ~handle'.parsed
    <2>1. handle' = [at |-> "sized", seen |-> Len(saved), size |-> Len(modelFile), length |-> 0,
                     parsed |-> FALSE, infos |-> << >>, start |-> 0]
        BY <1>1 DEF NoHandle
    <2>2. << >> \in Seq(InfoValues) /\ 0 \in Nat
        OBVIOUS
    <2>3. QED BY <1>2, <2>1, <2>2 DEF HandleValues
<1>4. gaveCells'.of = 0
    BY <1>1 DEF NoRead
<1>5. QED BY <1>1, <1>2, <1>3, <1>4, FileUntouched DEF ModelFilesInv, ParsedIsLast, RowsAsSaved

LEMMA MapsKeeps == ASSUME ModelFilesInv, Maps PROVE ModelFilesInv'
<1>1. /\ handle.at = "sized" /\ UNCHANGED <<modelFile, unsaved, saved, gaveCells>>
      /\ handle' = [handle EXCEPT !.at = IF modelFile = << >> THEN "failed" ELSE "mapped", !.length = Len(modelFile)]
    BY DEF Maps
<1>2. Len(modelFile) \in Nat /\ handle \in HandleValues
    BY DEF ModelFilesInv
<1>3. /\ handle' \in HandleValues /\ handle'.seen = handle.seen /\ handle'.size = handle.size
      /\ handle'.at \in {"failed", "mapped"} /\ handle'.parsed = handle.parsed
      /\ handle'.infos = handle.infos /\ handle'.start = handle.start
    BY <1>1, <1>2 DEF HandleValues
<1>4. Calm' => Calm
    BY <1>1, <1>3 DEF Calm
<1>5. QED BY <1>1, <1>3, <1>4, FileUntouched DEF ModelFilesInv, ParsedIsLast, RowsAsSaved

LEMMA ParsesKeeps == ASSUME ModelFilesInv, Parses PROVE ModelFilesInv'
<1>1. handle.at = "mapped" /\ UNCHANGED <<modelFile, unsaved, saved, gaveCells>> /\ handle \in HandleValues
    BY DEF Parses, ModelFilesInv
<1>2. CASE ~HeaderFits(Mapped)
    <2>1. handle' = [handle EXCEPT !.at = "failed"]
        BY <1>2 DEF Parses
    <2>2. /\ handle' \in HandleValues /\ handle'.seen = handle.seen /\ handle'.size = handle.size
          /\ handle'.at = "failed" /\ handle'.parsed = handle.parsed
          /\ handle'.infos = handle.infos /\ handle'.start = handle.start
        BY <1>1, <2>1 DEF HandleValues
    <2>3. Calm' => Calm
        BY <1>1, <2>2 DEF Calm
    <2>4. QED BY <1>1, <2>2, <2>3, FileUntouched DEF ModelFilesInv, ParsedIsLast, RowsAsSaved
<1>3. CASE HeaderFits(Mapped)
    <2> DEFINE infos == Entries(Mapped)
               start == 1 + Len(infos)
               end == IF infos = << >> THEN 0 ELSE Last(infos).to
               m == Last(saved)
               n == Len(m)
               at == IF handle.size = start + end THEN "open" ELSE "failed"
    <2>1. handle' = [handle EXCEPT !.parsed = TRUE, !.infos = infos, !.start = start, !.at = at]
        BY <1>3 DEF Parses
    <2>2. saved # << >>
        <3>1. modelFile # << >>
            <4>1. CASE modelFile = << >>
                <5>1. handle.length \in Nat /\ Len(modelFile) = 0
                    BY <1>1, <4>1 DEF HandleValues
                <5>2. Mapped = << >>
                    BY <4>1, <5>1 DEF Mapped
                <5>3. QED BY <1>3, <5>2 DEF HeaderFits
            <4>2. QED BY <4>1
        <3>2. QED BY <3>1 DEF ModelFilesInv, FileIsPart
    <2>3. infos \in Seq(InfoValues) /\ Len(infos) = n /\ \A i \in 1..n : infos[i] = InfoOf(m, i)
        BY <1>3, <2>2, EntriesAre
    <2>4. m \in Models /\ Len(saved) \in Nat /\ n \in Nat /\ Offset(m, 0) = 0 /\ Offset(m, n) \in Nat
        <3>1. m \in Models /\ Len(saved) \in Nat
            BY <2>2, LastSaved DEF ModelFilesInv
        <3> HIDE DEF m
        <3>2. n \in Nat
            BY <3>1, OffsetsAre
        <3>3. n \in 0..n
            BY <3>2
        <3>4. QED BY <3>1, <3>2, <3>3, OffsetsAre
    <2>5. Len(WholeFile) = 1 + n + Offset(m, n)
        BY <2>4, FileIs DEF WholeFile
    <2> HIDE DEF infos, m
    <2>6. start = 1 + n /\ start \in Nat
        BY <2>3, <2>4
    <2>7. end = Offset(m, n)
        <3>1. CASE n = 0
            <4>1. infos = << >>
                BY <2>3, <3>1
            <4>2. QED BY <2>4, <3>1, <4>1
        <3>2. CASE n # 0
            <4>1. infos # << >> /\ n \in 1..n
                BY <2>3, <2>4, <3>2
            <4>2. Last(infos) = InfoOf(m, n)
                BY <2>3, <4>1 DEF Last
            <4>3. QED BY <4>1, <4>2 DEF InfoOf
        <3>3. QED BY <3>1, <3>2
    <2> HIDE DEF n, start, end
    <2>8. at = "open" => handle.size = Len(WholeFile)
        BY <2>4, <2>5, <2>6, <2>7
    <2>9. at \in {"open", "failed"}
        OBVIOUS
    <2> HIDE DEF at
    <2>10. /\ handle' \in HandleValues /\ handle'.seen = handle.seen /\ handle'.size = handle.size
           /\ handle'.at = at /\ handle'.parsed = TRUE
           /\ handle'.infos = infos /\ handle'.start = start
        BY <1>1, <2>1, <2>3, <2>6, <2>9 DEF HandleValues
    <2>11. (Calm' => Calm) /\ Last(saved') = m
        BY <1>1, <2>10 DEF Calm, m
    <2>12. ParsedIsLast'
        BY <2>3, <2>6, <2>10, <2>11 DEF ParsedIsLast, n
    <2>13. RowsAsSaved'
        BY <1>1, <2>11 DEF ModelFilesInv, RowsAsSaved
    <2>14. FileIsPart' /\ WholeFile' = WholeFile /\ modelFile' \in Seq(CellValues) /\ unsaved' \in Seq(CellValues) /\ saved' \in Seq(Models)
        BY <1>1, FileUntouched
    <2>15. handle'.seen <= Len(saved') /\ (Calm' => saved' # << >> /\ handle'.size <= Len(modelFile'))
        BY <1>1, <2>10, <2>11 DEF ModelFilesInv
    <2>16. Calm' /\ handle'.at = "open" => handle'.parsed /\ handle'.size = Len(WholeFile')
        BY <2>8, <2>10, <2>14
    <2>17. QED BY <2>10, <2>12, <2>13, <2>14, <2>15, <2>16 DEF ModelFilesInv
<1>4. QED BY <1>2, <1>3

\* The rows that a read gives are those that were saved.
LEMMA GivesAsSaved ==
    ASSUME ModelFilesInv, handle.parsed, NEW i \in DOMAIN handle.infos,
           NEW n \in Nat, NEW rows \in [1..n -> Nat], Gives(i, rows),
           UNCHANGED <<modelFile, unsaved, saved, handle>>
    PROVE  ModelFilesInv'
<1> DEFINE m == Last(saved)
           w == m[i].width
           from == handle.start + handle.infos[i].from
           seqs == [k \in 1..n |-> RowCells(handle.infos[i], rows[k])]
           cells == FlattenSeq(seqs)
<1>1. Calm' = Calm /\ WholeFile' = WholeFile /\ FileIsPart' /\ ParsedIsLast'
    BY FileUntouched DEF Calm, ParsedIsLast, ModelFilesInv
<1>2. DOMAIN rows = 1..n /\ Len(rows) = n /\ \A k \in 1..n : rows[k] \in Nat
    OBVIOUS
<1>3. gaveCells' = IF Len(cells) = n * handle.infos[i].width THEN [of |-> i, rows |-> rows, cells |-> cells] ELSE NoRead
    BY <1>2 DEF Gives
<1>4. CASE ~Calm \/ gaveCells' = NoRead
    BY <1>1, <1>4 DEF ModelFilesInv, RowsAsSaved, NoRead
<1>5. CASE Calm /\ gaveCells' # NoRead
    <2>1. saved # << >> /\ m \in Models /\ Len(saved) \in Nat
        BY <1>5, LastSaved DEF ModelFilesInv
    <2>2. /\ handle.start = 1 + Len(m) /\ Len(handle.infos) = Len(m) /\ handle.infos \in Seq(InfoValues)
          /\ \A j \in 1..Len(m) : handle.infos[j] = InfoOf(m, j)
        BY <1>5 DEF ModelFilesInv, ParsedIsLast, HandleValues
    <2> HIDE DEF m
    <2>3. i \in 1..Len(m) /\ handle.infos[i] = InfoOf(m, i)
        BY <2>2
    <2>4. /\ Len(m) \in Nat /\ Offset(m, i - 1) \in Nat /\ m[i].rows \in Nat /\ w \in Nat
        <3>1. i - 1 \in 0..Len(m)
            BY <2>1, <2>3, OffsetsAre
        <3>2. QED BY <2>1, <2>3, <3>1, OffsetsAre
    <2>5. handle.infos[i].width = w /\ handle.infos[i].from = Offset(m, i - 1)
        BY <2>3 DEF InfoOf
    <2>6. from = 1 + Len(m) + Offset(m, i - 1) /\ from \in Nat
        BY <2>2, <2>4, <2>5
    <2> HIDE DEF from, w
    <2>7. /\ Mapped \in Seq(CellValues)
          /\ \A q \in 1..Len(Mapped) : Mapped[q] = WholeFile[q]
        BY <2>1, MappedIs
    <2>8. ASSUME NEW k \in 1..n
          PROVE  /\ seqs[k] \in Seq(CellValues) /\ Len(seqs[k]) <= w
                 /\ Len(seqs[k]) = w => \A c \in 1..w : seqs[k][c] = WholeFile[from + rows[k] * w + c]
        <3> DEFINE f == from + rows[k] * w
                   part == SubSeq(Mapped, f + 1, IF f + w < Len(Mapped) THEN f + w ELSE Len(Mapped))
        <3>1. seqs[k] = part
            BY <2>5 DEF RowCells, from
        <3>2. f \in Nat
            BY <1>2, <2>4, <2>6
        <3> HIDE DEF f
        <3>3. /\ part \in Seq(CellValues) /\ Len(part) <= w
              /\ Len(part) = w => \A c \in 1..w : f + c \in 1..Len(Mapped) /\ part[c] = Mapped[f + c]
            <4>1. f \in Nat /\ w \in Nat /\ Mapped \in Seq(CellValues)
                BY <2>4, <2>7, <3>2
            <4>2. QED BY <4>1, PartIs
        <3> HIDE DEF part, seqs
        <3>4. QED BY <2>7, <3>1, <3>3 DEF f
    <2>9. seqs \in [1..n -> Seq(CellValues)]
        BY <2>8
    <2> HIDE DEF seqs
    <2>10. Len(cells) = n * w /\ gaveCells' = [of |-> i, rows |-> rows, cells |-> cells]
        BY <1>3, <1>5, <2>5
    <2>11. \A k \in 1..n : /\ Len(seqs[k]) = w
                           /\ \A c \in 1..w : cells[(k - 1) * w + c] = seqs[k][c]
        <3>1. \A k \in 1..n : Len(seqs[k]) <= w
            BY <2>8
        <3>2. w \in Nat /\ Len(cells) = n * w
            BY <2>4, <2>10
        <3> DEFINE total == n * w
        <3>3. total = n * w /\ Len(cells) = total
            BY <3>2
        <3> HIDE DEF m, total
        <3>4. FullAt(cells, n, w, seqs)
            BY <2>9, <3>1, <3>2, <3>3, FullRows
        <3>5. QED BY <3>4 DEF FullAt
    <2> HIDE DEF cells
    <2>12. ASSUME NEW k \in 1..n, rows[k] < m[i].rows, NEW c \in 1..w
           PROVE  cells[(k - 1) * w + c] = DataOf(Len(saved), i, rows[k] * w + c)
        <3>1. cells[(k - 1) * w + c] = WholeFile[from + rows[k] * w + c]
            <4>1. Len(seqs[k]) = w /\ cells[(k - 1) * w + c] = seqs[k][c]
                BY <2>11
            <4>2. seqs[k][c] = WholeFile[from + rows[k] * w + c]
                BY <2>8, <4>1
            <4>3. QED BY <4>1, <4>2
        <3> DEFINE p == rows[k] * w + c
                   all == m[i].rows * w
        <3>2. p \in 1..all
            <4>1. rows[k] \in Nat /\ rows[k] + 1 <= m[i].rows
                BY <1>2, <2>4, <2>12
            <4> DEFINE more == m[i].rows - (rows[k] + 1)
            <4>2. more \in Nat /\ m[i].rows = rows[k] + 1 + more
                BY <2>4, <4>1
            <4> HIDE DEF more
            <4> DEFINE x == rows[k] * w
                       y == more * w
            <4>3. all = x + w + y
                BY <2>4, <4>1, <4>2
            <4>4. x \in Nat /\ y \in Nat
                BY <2>4, <4>1, <4>2
            <4> HIDE DEF x, y, all
            <4>5. x + c \in 1..all
                BY <2>4, <4>3, <4>4
            <4>6. QED BY <4>5 DEF x
        <3>3. from + rows[k] * w + c = 1 + Len(m) + Offset(m, i - 1) + p
            <4> DEFINE x == rows[k] * w
            <4>1. x \in Nat
                BY <1>2, <2>4
            <4> HIDE DEF x
            <4>2. from + x + c = 1 + Len(m) + Offset(m, i - 1) + (x + c)
                BY <2>4, <2>6, <4>1
            <4>3. QED BY <4>2 DEF x
        <3> HIDE DEF p
        <3>4. WholeFile[1 + Len(m) + Offset(m, i - 1) + p] = DataOf(Len(saved), i, p)
            <4>1. p \in 1..m[i].rows * m[i].width
                BY <3>2 DEF w
            <4>2. QED BY <2>1, <2>3, <4>1, FileIs DEF WholeFile, m
        <3>5. QED BY <3>1, <3>3, <3>4 DEF p
    <2>13. RowsAsSaved'
        <3>1. gaveCells'.of = i /\ gaveCells'.rows = rows /\ gaveCells'.cells = cells
            BY <2>10
        <3>2. Last(saved)' = m /\ Len(saved)' = Len(saved)
            BY DEF m
        <3>3. QED BY <1>2, <2>12, <3>1, <3>2 DEF RowsAsSaved, DataOf, w
    <2>14. QED BY <1>1, <2>13 DEF ModelFilesInv
<1>6. QED BY <1>4, <1>5

LEMMA GetTensorKeeps == ASSUME ModelFilesInv, NEW i \in DOMAIN handle.infos, GetTensor(i) PROVE ModelFilesInv'
<1> DEFINE n == handle.infos[i].rows
           rows == [r \in 1..n |-> r - 1]
<1>1. handle.parsed /\ Gives(i, rows) /\ UNCHANGED <<modelFile, unsaved, saved, handle>>
    BY DEF GetTensor, CanRead
<1>2. n \in Nat
    <2>1. handle.infos \in Seq(InfoValues) /\ i \in 1..Len(handle.infos)
        BY DEF ModelFilesInv, HandleValues
    <2>2. handle.infos[i] \in InfoValues
        BY <2>1, ElementOfSeq
    <2>3. QED BY <2>2 DEF InfoValues
<1> HIDE DEF n
<1>3. rows \in [1..n -> Nat]
    BY <1>2
<1> HIDE DEF rows
<1>4. QED BY <1>1, <1>2, <1>3, GivesAsSaved

LEMMA GetSliceKeeps ==
    ASSUME ModelFilesInv, NEW i \in DOMAIN handle.infos, NEW slice \in RowSlices, GetSlice(i, slice)
    PROVE  ModelFilesInv'
<1> DEFINE first == slice[1]
           stop == IF slice[2] = 0 THEN handle.infos[i].rows ELSE slice[2]
           step == IF slice[3] = 0 THEN 1 ELSE slice[3]
           count == IF stop > first THEN (stop - first + step - 1) \div step ELSE 0
           rows == [k \in 1..count |-> first + (k - 1) * step]
<1>1. handle.parsed /\ UNCHANGED <<modelFile, unsaved, saved, handle>>
    BY DEF GetSlice, CanRead
<1>2. IF count = 0 THEN gaveCells' = NoRead ELSE Gives(i, rows)
    BY DEF GetSlice
<1>3. handle.infos[i].rows \in Nat
    <2>1. handle.infos \in Seq(InfoValues) /\ i \in 1..Len(handle.infos)
        BY DEF ModelFilesInv, HandleValues
    <2>2. handle.infos[i] \in InfoValues
        BY <2>1, ElementOfSeq
    <2>3. QED BY <2>2 DEF InfoValues
<1>4. first \in Nat /\ stop \in Nat /\ step \in Nat \ {0}
    <2>1. slice \in Nat \X Nat \X Nat
        BY ModelFilesAssumption
    <2>2. QED BY <1>3, <2>1
<1> HIDE DEF first, stop, step
<1>5. count \in Nat
    <2>1. CASE stop > first
        <3> DEFINE all == stop - first + step - 1
        <3>1. all \in Nat
            BY <1>4, <2>1
        <3> HIDE DEF all
        <3>2. all \div step \in Nat
            BY <1>4, <3>1
        <3>3. QED BY <2>1, <3>2 DEF all
    <2>2. QED BY <2>1
<1> HIDE DEF count
<1>6. rows \in [1..count -> Nat]
    <2> SUFFICES ASSUME NEW k \in 1..count PROVE first + (k - 1) * step \in Nat
        OBVIOUS
    <2>1. k - 1 \in Nat
        BY <1>5
    <2>2. (k - 1) * step \in Nat
        BY <1>4, <2>1
    <2>3. QED BY <1>4, <2>2
<1> HIDE DEF rows
<1>7. CASE count = 0
    <2>1. gaveCells'.of = 0 /\ Calm' = Calm
        BY <1>1, <1>2, <1>7 DEF NoRead, Calm
    <2>2. QED BY <1>1, <2>1, FileUntouched DEF ModelFilesInv, ParsedIsLast, RowsAsSaved
<1>8. CASE count # 0
    BY <1>1, <1>2, <1>5, <1>6, <1>8, GivesAsSaved
<1>9. QED BY <1>7, <1>8

\* A file of the size its header asks for is the whole of what was saved last.
LEMMA OpenedIsWhole == ASSUME ModelFilesInv PROVE OpenIsWhole
<1> SUFFICES ASSUME Calm, handle.at = "open"
             PROVE  /\ modelFile = WholeFile
                    /\ LET sizes == [k \in DOMAIN handle.infos |-> handle.infos[k].to - handle.infos[k].from]
                       IN handle.start + SumsOf(sizes)[Len(sizes)] = Len(modelFile)
    BY DEF OpenIsWhole, WholeFile
<1> DEFINE m == Last(saved)
           n == Len(m)
           sizes == [k \in DOMAIN handle.infos |-> handle.infos[k].to - handle.infos[k].from]
           lengths == [k \in DOMAIN m |-> m[k].rows * m[k].width]
<1>1. /\ saved # << >> /\ handle.size <= Len(modelFile) /\ handle.size = Len(WholeFile)
      /\ modelFile \in Seq(CellValues) /\ handle.parsed
    BY DEF ModelFilesInv
<1>2. /\ handle.start = 1 + n /\ Len(handle.infos) = n /\ handle.infos \in Seq(InfoValues)
      /\ \A j \in 1..n : handle.infos[j] = InfoOf(m, j)
    BY <1>1 DEF ModelFilesInv, ParsedIsLast, HandleValues
<1>3. m \in Models /\ Len(saved) \in Nat
    BY <1>1, LastSaved DEF ModelFilesInv
<1>4. WholeFile \in Seq(CellValues) /\ Len(WholeFile) = 1 + n + Offset(m, n)
    BY <1>3, FileIs DEF WholeFile
<1>5. /\ Len(modelFile) <= Len(WholeFile) /\ \A i \in 1..Len(modelFile) : modelFile[i] = WholeFile[i]
    BY <1>1 DEF ModelFilesInv, FileIsPart
<1>6. Len(modelFile) = Len(WholeFile)
    <2>1. Len(modelFile) \in Nat /\ Len(WholeFile) \in Nat
        BY <1>1, <1>4
    <2>2. QED BY <1>1, <1>5, <2>1
<1>7. modelFile = WholeFile
    BY <1>1, <1>4, <1>5, <1>6, SeqEqual
<1> HIDE DEF m
<1>8. /\ n \in Nat /\ DOMAIN m = 1..n /\ \A i \in 0..n : Offset(m, i) \in Nat
      /\ \A i \in 1..n : /\ m[i].rows * m[i].width \in Nat
                         /\ Offset(m, i) = Offset(m, i - 1) + m[i].rows * m[i].width
    BY <1>3, OffsetsAre
<1>9. sizes = lengths /\ Len(sizes) = n
    <2>1. ASSUME NEW k \in 1..n PROVE handle.infos[k].to - handle.infos[k].from = m[k].rows * m[k].width
        <3> DEFINE length == m[k].rows * m[k].width
        <3>1. k - 1 \in 0..n /\ k \in 0..n
            BY <1>8
        <3>2. /\ Offset(m, k) = Offset(m, k - 1) + length
              /\ Offset(m, k) \in Nat /\ Offset(m, k - 1) \in Nat /\ length \in Nat
            BY <1>8, <3>1
        <3>3. handle.infos[k].to = Offset(m, k) /\ handle.infos[k].from = Offset(m, k - 1)
            <4>1. handle.infos[k] = InfoOf(m, k)
                BY <1>2
            <4>2. QED BY <4>1 DEF InfoOf
        <3> HIDE DEF length
        <3>4. Offset(m, k) - Offset(m, k - 1) = length
            BY <3>2
        <3>5. QED BY <3>3, <3>4 DEF length
    <2>2. DOMAIN handle.infos = 1..n
        BY <1>2
    <2>3. QED BY <1>8, <2>1, <2>2
<1>10. SumsOf(sizes)[Len(sizes)] = Offset(m, n)
    BY <1>9 DEF Offset
<1> HIDE DEF sizes
<1>11. handle.start + SumsOf(sizes)[Len(sizes)] = Len(modelFile)
    BY <1>2, <1>4, <1>6, <1>10
<1>12. QED BY <1>7, <1>11 DEF sizes

\* CustomModelFormat, whatever is saved and wherever the saver is killed: what is open is a
\* whole save, and what is read are the rows that were saved.
THEOREM OpenedIsAlwaysWhole == ModelFilesSpec => [](OpenIsWhole /\ RowsAsSaved)
<1>1. ModelFilesInit => ModelFilesInv
    <2> SUFFICES ASSUME ModelFilesInit PROVE ModelFilesInv
        OBVIOUS
    <2>1. /\ modelFile = << >> /\ unsaved = << >> /\ saved = << >> /\ handle = NoHandle /\ gaveCells = NoRead
        BY DEF ModelFilesInit
    <2>2. /\ << >> \in Seq(CellValues) /\ << >> \in Seq(Models) /\ << >> \in Seq(InfoValues) /\ Len(saved) = 0
        BY <2>1
    <2>3. handle \in HandleValues /\ handle.seen = 0 /\ ~Calm
        BY <2>1, <2>2 DEF NoHandle, HandleValues, Calm
    <2>4. QED BY <2>1, <2>2, <2>3 DEF ModelFilesInv, FileIsPart, ParsedIsLast, RowsAsSaved
<1>2. ModelFilesInv /\ [ModelFilesNext]_modelFileVars => ModelFilesInv'
    <2> SUFFICES ASSUME ModelFilesInv, [ModelFilesNext]_modelFileVars PROVE ModelFilesInv'
        OBVIOUS
    <2>1. CASE SaverKilled
        <3>1. /\ unsaved' = << >> /\ UNCHANGED <<modelFile, saved, handle, gaveCells>> /\ << >> \in Seq(CellValues)
            BY <2>1 DEF SaverKilled
        <3>2. WholeFile' = WholeFile /\ Calm' = Calm
            BY <3>1 DEF WholeFile, Calm
        <3>3. FileIsPart'
            BY <3>1, <3>2 DEF ModelFilesInv, FileIsPart
        <3>4. QED BY <3>1, <3>2, <3>3 DEF ModelFilesInv, ParsedIsLast, RowsAsSaved
    <2>2. CASE Lost \/ Closes
        <3>1. UNCHANGED <<modelFile, unsaved, saved>> /\ handle' = NoHandle /\ gaveCells' = NoRead
            BY <2>2 DEF Lost, Closes
        <3>2. handle' \in HandleValues /\ handle'.seen = 0 /\ ~Calm'
            <4>1. << >> \in Seq(InfoValues)
                OBVIOUS
            <4>2. QED BY <3>1, <4>1 DEF NoHandle, HandleValues, Calm
        <3>3. 0 <= Len(saved)
            BY DEF ModelFilesInv
        <3>4. QED BY <3>1, <3>2, <3>3, FileUntouched DEF ModelFilesInv, ParsedIsLast, RowsAsSaved
    <2>3. CASE UNCHANGED modelFileVars
        <3>1. UNCHANGED <<modelFile, unsaved, saved, handle, gaveCells>>
            BY <2>3 DEF modelFileVars
        <3>2. Calm' = Calm
            BY <3>1 DEF Calm
        <3>3. QED BY <3>1, <3>2, FileUntouched DEF ModelFilesInv, ParsedIsLast, RowsAsSaved
    <2>4. QED BY <2>1, <2>2, <2>3, SaveBeginsKeeps, SaveWritesKeeps, StatsKeeps, MapsKeeps, ParsesKeeps,
                 GetTensorKeeps, GetSliceKeeps DEF ModelFilesNext
<1>3. ModelFilesInv => OpenIsWhole /\ RowsAsSaved
    BY OpenedIsWhole DEF ModelFilesInv
<1>4. QED BY <1>1, <1>2, <1>3, PTL DEF ModelFilesSpec

-----------------------------------------------------------------------------
ImagesSpec == ImageSpec /\ ExecutionSpec /\ ModelFilesSpec

\* Compilers, loads, executions and tensor files side by side, each at its own pace: for
\* every source, model and number of threads, what is loaded, left behind or read is as it
\* was made.
THEOREM ImagesAreAlwaysWhole == ImagesSpec => []ImagesAreWhole
    BY LoadedIsAlwaysCompiled, ExecutionsAlwaysEnd, OpenedIsAlwaysWhole, PTL DEF ImagesSpec, ImagesAreWhole

-----------------------------------------------------------------------------
(* The text field *)

InputBytes == KeyBytes \cup {"pause"}
KeyNames == InputBytes \cup {"ESCAPE", "BACKSPACE", "DELETE", "LEFT", "RIGHT", "HOME", "END"}
InputChars == InputBytes \cup {""}
InputEvents == [key : KeyNames, char : InputChars]
Fields == {f \in [text : Seq(InputChars), cursor : Nat] : f.cursor <= Len(f.text)}

LEMMA EditType ==
    ASSUME NEW f \in Fields, NEW ev \in InputEvents
    PROVE  Edit(f.text, f.cursor, ev) \in Fields
<1> DEFINE t == f.text
           c == f.cursor
           n == Len(t)
<1>1. t \in Seq(InputChars) /\ c \in Nat /\ n \in Nat /\ c <= n
    BY DEF Fields
<1>2. ASSUME NEW s \in Seq(InputChars), NEW k \in Nat, k <= Len(s)
      PROVE  [text |-> s, cursor |-> k] \in Fields
    BY <1>2 DEF Fields
<1>3. ASSUME NEW i \in Nat \ {0}, NEW j \in Nat, j <= n
      PROVE  /\ SubSeq(t, i, j) \in Seq(InputChars)
             /\ Len(SubSeq(t, i, j)) = IF i <= j THEN j - i + 1 ELSE 0
    BY <1>1, <1>3
<1>4. ASSUME NEW s \in Seq(InputChars), NEW r \in Seq(InputChars)
      PROVE  s \o r \in Seq(InputChars) /\ Len(s \o r) = Len(s) + Len(r)
    OBVIOUS
<1>5. ev.char \in InputChars /\ <<ev.char>> \in Seq(InputChars) /\ Len(<<ev.char>>) = 1
    BY DEF InputEvents
<1> HIDE DEF t, c, n
<1>6. [text |-> t, cursor |-> c] \in Fields
    BY <1>1, <1>2 DEF n
<1>7. [text |-> t, cursor |-> IF c > 0 THEN c - 1 ELSE 0] \in Fields
    <2>1. (IF c > 0 THEN c - 1 ELSE 0) \in Nat /\ (IF c > 0 THEN c - 1 ELSE 0) <= n
        BY <1>1
    <2>2. QED BY <1>1, <1>2, <2>1 DEF n
<1>8. [text |-> t, cursor |-> IF c < n THEN c + 1 ELSE n] \in Fields
    <2>1. (IF c < n THEN c + 1 ELSE n) \in Nat /\ (IF c < n THEN c + 1 ELSE n) <= n
        BY <1>1
    <2>2. QED BY <1>1, <1>2, <2>1 DEF n
<1>9. [text |-> t, cursor |-> 0] \in Fields /\ [text |-> t, cursor |-> n] \in Fields
    BY <1>1, <1>2 DEF n
<1>10. ASSUME c > 0
       PROVE  [text |-> SubSeq(t, 1, c - 1) \o SubSeq(t, c + 1, n), cursor |-> c - 1] \in Fields
    <2>1. /\ SubSeq(t, 1, c - 1) \in Seq(InputChars) /\ Len(SubSeq(t, 1, c - 1)) = c - 1
          /\ SubSeq(t, c + 1, n) \in Seq(InputChars) /\ Len(SubSeq(t, c + 1, n)) \in Nat
        <3>1. 1 \in Nat \ {0} /\ c - 1 \in Nat /\ c - 1 <= n
              /\ c + 1 \in Nat \ {0} /\ n <= n /\ (c - 1) - 1 + 1 = c - 1
            BY <1>1, <1>10
        <3>2. /\ SubSeq(t, 1, c - 1) \in Seq(InputChars)
              /\ Len(SubSeq(t, 1, c - 1)) = IF 1 <= c - 1 THEN (c - 1) - 1 + 1 ELSE 0
            BY <1>3, <3>1
        <3>3. (IF 1 <= c - 1 THEN (c - 1) - 1 + 1 ELSE 0) = c - 1
            BY <3>1
        <3>4. SubSeq(t, c + 1, n) \in Seq(InputChars)
            BY <1>1, <1>3, <3>1
        <3>5. Len(SubSeq(t, c + 1, n)) \in Nat
            BY <3>4, LenProperties
        <3>6. QED BY <3>2, <3>3, <3>4, <3>5
    <2>2. c - 1 \in Nat /\ c - 1 <= (c - 1) + Len(SubSeq(t, c + 1, n))
        BY <1>1, <1>10, <2>1
    <2>3. QED BY <1>2, <1>4, <2>1, <2>2
<1>11. ASSUME c < n
       PROVE  [text |-> SubSeq(t, 1, c) \o SubSeq(t, c + 2, n), cursor |-> c] \in Fields
    <2>1. /\ SubSeq(t, 1, c) \in Seq(InputChars) /\ Len(SubSeq(t, 1, c)) = c
          /\ SubSeq(t, c + 2, n) \in Seq(InputChars) /\ Len(SubSeq(t, c + 2, n)) \in Nat
        <3>1. 1 \in Nat \ {0} /\ c + 2 \in Nat \ {0} /\ n <= n
            BY <1>1
        <3>2. /\ SubSeq(t, 1, c) \in Seq(InputChars)
              /\ Len(SubSeq(t, 1, c)) = IF 1 <= c THEN c - 1 + 1 ELSE 0
            BY <1>1, <1>3, <3>1
        <3>3. (IF 1 <= c THEN c - 1 + 1 ELSE 0) = c
            BY <1>1
        <3>4. SubSeq(t, c + 2, n) \in Seq(InputChars)
            BY <1>1, <1>3, <3>1
        <3>5. Len(SubSeq(t, c + 2, n)) \in Nat
            BY <3>4, LenProperties
        <3>6. QED BY <3>2, <3>3, <3>4, <3>5
    <2> DEFINE r == SubSeq(t, 1, c) \o SubSeq(t, c + 2, n)
    <2>2. r \in Seq(InputChars) /\ Len(r) = c + Len(SubSeq(t, c + 2, n))
        BY <1>4, <2>1
    <2>3. c <= Len(r)
        BY <1>1, <2>1, <2>2
    <2> HIDE DEF r
    <2>4. [text |-> r, cursor |-> c] \in Fields
        BY <1>1, <1>2, <2>2, <2>3
    <2>5. QED BY <2>4 DEF r
<1>12. [text |-> SubSeq(t, 1, c) \o <<ev.char>> \o SubSeq(t, c + 1, n), cursor |-> c + 1] \in Fields
    <2>1. /\ SubSeq(t, 1, c) \in Seq(InputChars) /\ Len(SubSeq(t, 1, c)) = c
          /\ SubSeq(t, c + 1, n) \in Seq(InputChars) /\ Len(SubSeq(t, c + 1, n)) \in Nat
        <3>1. 1 \in Nat \ {0} /\ c + 1 \in Nat \ {0} /\ n <= n
            BY <1>1
        <3>2. /\ SubSeq(t, 1, c) \in Seq(InputChars)
              /\ Len(SubSeq(t, 1, c)) = IF 1 <= c THEN c - 1 + 1 ELSE 0
            BY <1>1, <1>3, <3>1
        <3>3. (IF 1 <= c THEN c - 1 + 1 ELSE 0) = c
            BY <1>1
        <3>4. SubSeq(t, c + 1, n) \in Seq(InputChars)
            BY <1>1, <1>3, <3>1
        <3>5. Len(SubSeq(t, c + 1, n)) \in Nat
            BY <3>4, LenProperties
        <3>6. QED BY <3>2, <3>3, <3>4, <3>5
    <2>2. SubSeq(t, 1, c) \o <<ev.char>> \in Seq(InputChars) /\ Len(SubSeq(t, 1, c) \o <<ev.char>>) = c + 1
        BY <1>4, <1>5, <2>1
    <2>3. c + 1 \in Nat /\ c + 1 <= c + 1 + Len(SubSeq(t, c + 1, n))
        BY <1>1, <2>1
    <2>4. QED BY <1>2, <1>4, <2>1, <2>2, <2>3
<1>13. Edit(t, c, ev) \in Fields
    BY <1>6, <1>7, <1>8, <1>9, <1>10, <1>11, <1>12 DEF Edit, n
<1>14. QED BY <1>13 DEF t, c

\* What Edited goes through, from the first event to the last.
LEMMA EditedIs ==
    ASSUME NEW f \in Fields, NEW evs \in Seq(InputEvents)
    PROVE  \E after \in [0..Len(evs) -> Fields] :
               /\ after[0] = f /\ Edited(f, evs) = after[Len(evs)]
               /\ \A n \in 1..Len(evs) :
                     after[n] = Edit(after[n - 1].text, after[n - 1].cursor, evs[n])
<1> DEFINE len == Len(evs)
           step == [n \in 1..len |-> [g \in Fields |-> Edit(g.text, g.cursor, evs[n])]]
           Is(g) == g = [n \in 0..len |->
                            IF n = 0 THEN f ELSE Edit(g[n - 1].text, g[n - 1].cursor, evs[n])]
<1>1. len \in Nat /\ \A n \in 1..len : evs[n] \in InputEvents
    BY ElementOfSeq
<1> HIDE DEF len
<1>2. /\ step \in [1..len -> [Fields -> Fields]]
      /\ \A n \in 1..len : \A g \in Fields : step[n][g] = Edit(g.text, g.cursor, evs[n])
    BY <1>1, EditType
<1> HIDE DEF step
<1>3. PICK g : Iterates(g, len, Fields, f, step)
    BY <1>1, <1>2, ForwardRecursion
<1>4. /\ g \in [0..len -> Fields] /\ g[0] = f
      /\ \A n \in 1..len : g[n] = Edit(g[n - 1].text, g[n - 1].cursor, evs[n])
    <2>1. \A n \in 1..len : n - 1 \in 0..len
        BY <1>1
    <2>2. QED BY <1>2, <1>3, <2>1 DEF Iterates
<1>5. Is(g)
    <2>1. \A n \in 0..len : n = 0 \/ n \in 1..len
        BY <1>1
    <2>2. QED BY <1>4, <2>1
<1>6. PICK h : h = (CHOOSE x : Is(x)) /\ Is(h)
    BY <1>5
<1>7. Edited(f, evs) = h[len]
    BY <1>6 DEF Edited, len
<1>8. h[0] = f /\ \A n \in 1..len : h[n] = Edit(h[n - 1].text, h[n - 1].cursor, evs[n])
    <2>1. \A n \in 0..len : h[n] = IF n = 0 THEN f ELSE Edit(h[n - 1].text, h[n - 1].cursor, evs[n])
        BY <1>6
    <2>2. 0 \in 0..len /\ \A n \in 1..len : n \in 0..len /\ n # 0
        BY <1>1
    <2>3. QED BY <2>1, <2>2
<1> DEFINE T == {n \in 0..len : h[n] = g[n]}
<1>9. 0 \in T
    BY <1>1, <1>4, <1>8
<1>10. ASSUME NEW k \in 0..len - 1, k \in T PROVE k + 1 \in T
    <2>1. k + 1 \in 1..len /\ k + 1 \in 0..len /\ (k + 1) - 1 = k
        BY <1>1
    <2>2. QED BY <1>4, <1>8, <1>10, <2>1
<1>11. 0..len \subseteq T
    <2>1. 0 \in Nat
        OBVIOUS
    <2> HIDE DEF T
    <2>2. QED BY <1>1, <1>9, <1>10, <2>1, UpwardInduction
<1>12. h[len] = g[len]
    BY <1>1, <1>11
<1>13. QED BY <1>4, <1>7, <1>12 DEF len

LEMMA EditedType ==
    ASSUME NEW f \in Fields, NEW evs \in Seq(InputEvents) PROVE Edited(f, evs) \in Fields
<1>1. Len(evs) \in 0..Len(evs)
    BY LenProperties
<1>2. QED BY <1>1, EditedIs

LEMMA EditedByNothing == ASSUME NEW f \in Fields PROVE Edited(f, << >>) = f
<1>1. << >> \in Seq(InputEvents) /\ Len(<< >>) = 0
    OBVIOUS
<1>2. PICK after \in [0..Len(<< >>) -> Fields] : after[0] = f /\ Edited(f, << >>) = after[Len(<< >>)]
    BY <1>1, EditedIs, ZenonT(30)
<1>3. QED BY <1>1, <1>2, SMTT(30)

\* One batch of events after the other makes of a field what both make of it at once: it
\* does not matter when the queue is drained.
LEMMA EditedInBatches ==
    ASSUME NEW f \in Fields, NEW a \in Seq(InputEvents), NEW b \in Seq(InputEvents)
    PROVE  Edited(f, a \o b) = Edited(Edited(f, a), b)
<1> DEFINE m == Len(a)
           n == Len(b)
<1>1. m \in Nat /\ n \in Nat
    OBVIOUS
<1>2. /\ a \o b \in Seq(InputEvents) /\ Len(a \o b) = m + n
      /\ \A i \in 1..m + n : (a \o b)[i] = IF i <= m THEN a[i] ELSE b[i - m]
    BY ConcatProperties
<1>3. PICK g \in [0..m -> Fields] :
          /\ g[0] = f /\ Edited(f, a) = g[m]
          /\ \A i \in 1..m : g[i] = Edit(g[i - 1].text, g[i - 1].cursor, a[i])
    BY EditedIs
<1>4. g[m] \in Fields
    BY <1>1, <1>3
<1>5. PICK h \in [0..n -> Fields] :
          /\ h[0] = g[m] /\ Edited(g[m], b) = h[n]
          /\ \A i \in 1..n : h[i] = Edit(h[i - 1].text, h[i - 1].cursor, b[i])
    BY <1>4, EditedIs
<1>6. PICK w \in [0..m + n -> Fields] :
          /\ w[0] = f /\ Edited(f, a \o b) = w[m + n]
          /\ \A i \in 1..m + n : w[i] = Edit(w[i - 1].text, w[i - 1].cursor, (a \o b)[i])
    <2>1. \E w \in [0..Len(a \o b) -> Fields] :
              /\ w[0] = f /\ Edited(f, a \o b) = w[Len(a \o b)]
              /\ \A i \in 1..Len(a \o b) : w[i] = Edit(w[i - 1].text, w[i - 1].cursor, (a \o b)[i])
        BY <1>2, EditedIs
    <2>2. QED BY <1>2, <2>1
<1> HIDE DEF m, n
<1> DEFINE T == {i \in 0..m : w[i] = g[i]}
           U == {i \in 0..n : w[m + i] = h[i]}
<1>7. 0..m \subseteq T
    <2>1. 0 \in T
        BY <1>1, <1>3, <1>6
    <2>2. ASSUME NEW k \in 0..m - 1, k \in T PROVE k + 1 \in T
        <3>1. k + 1 \in 1..m /\ k + 1 \in 1..m + n /\ (k + 1) - 1 = k /\ k + 1 \in 0..m
            BY <1>1
        <3>2. (a \o b)[k + 1] = a[k + 1]
            BY <1>2, <3>1
        <3>3. w[k] = g[k]
            BY <2>2
        <3>4. w[k + 1] = g[k + 1]
            BY <1>3, <1>6, <3>1, <3>2, <3>3
        <3>5. QED BY <3>1, <3>4
    <2>3. 0 \in Nat
        OBVIOUS
    <2> HIDE DEF T
    <2>4. QED BY <1>1, <2>1, <2>2, <2>3, UpwardInduction
<1>8. w[m] = h[0]
    BY <1>1, <1>5, <1>7
<1>9. 0..n \subseteq U
    <2>1. 0 \in U
        <3>1. 0 \in 0..n /\ m + 0 = m
            BY <1>1
        <3>2. QED BY <1>8, <3>1
    <2>2. ASSUME NEW k \in 0..n - 1, k \in U PROVE k + 1 \in U
        <3>1. k + 1 \in 1..n /\ (k + 1) - 1 = k /\ k + 1 \in 0..n
            BY <1>1
        <3>2. m + (k + 1) \in 1..m + n /\ (m + (k + 1)) - 1 = m + k /\ ~(m + (k + 1) <= m)
              /\ (m + (k + 1)) - m = k + 1
            BY <1>1, <3>1
        <3>3. (a \o b)[m + (k + 1)] = b[k + 1]
            BY <1>2, <3>2
        <3>4. w[m + k] = h[k]
            BY <2>2
        <3>5. w[m + (k + 1)] = Edit(w[m + k].text, w[m + k].cursor, b[k + 1])
            BY <1>6, <3>2, <3>3
        <3>6. h[k + 1] = Edit(h[k].text, h[k].cursor, b[k + 1])
            BY <1>5, <3>1
        <3>7. QED BY <3>1, <3>4, <3>5, <3>6
    <2>3. 0 \in Nat
        OBVIOUS
    <2> HIDE DEF U
    <2>4. QED BY <1>1, <2>1, <2>2, <2>3, UpwardInduction
<1>10. w[m + n] = h[n]
    BY <1>1, <1>9
<1>11. QED BY <1>3, <1>5, <1>6, <1>10

-----------------------------------------------------------------------------
(* The keys of an input *)

LEMMA MeaningType ==
    ASSUME NEW seq \in Seq(InputBytes) PROVE Meaning(seq) \in Seq(InputEvents)
<1>1. ASSUME NEW k \in KeyNames PROVE <<Key(k)>> \in Seq(InputEvents)
    BY DEF Key, InputEvents, InputChars
<1>2. /\ \A k \in DOMAIN CsiKeys : CsiKeys[k] \in KeyNames
      /\ \A k \in DOMAIN TildeKeys : TildeKeys[k] \in KeyNames
    BY DEF CsiKeys, TildeKeys, KeyNames
<1>3. Numbered(seq) => seq[2] \in DOMAIN TildeKeys
    BY DEF Numbered
<1>4. <<Key("ESCAPE")>> \in Seq(InputEvents) /\ << >> \in Seq(InputEvents)
    BY <1>1 DEF KeyNames
<1>5. QED BY <1>1, <1>2, <1>3, <1>4 DEF Meaning

LEMMA PlainKeyType == ASSUME NEW b \in InputBytes PROVE PlainKey(b) \in InputEvents
    BY DEF PlainKey, Key, CharKey, InputEvents, KeyNames, InputChars

LEMMA FirstEndIs ==
    ASSUME NEW s \in Seq(InputBytes), NEW i \in 1..Len(s), Ends(s, i) # {}
    PROVE  /\ FirstEnd(s, i) \in i + 1..Len(s) /\ EndsAt(s, i, FirstEnd(s, i))
           /\ \A j \in i + 1..FirstEnd(s, i) - 1 : ~EndsAt(s, i, j)
<1> DEFINE E == Ends(s, i)
<1>1. Len(s) \in Nat /\ i \in Nat
    BY LenProperties
<1>2. E \in SUBSET Nat /\ E # {}
    BY <1>1 DEF Ends
<1>3. \E j \in E : \A o \in E : j <= o
    BY <1>2, LeastNumber
<1>4. FirstEnd(s, i) \in E /\ \A o \in E : FirstEnd(s, i) <= o
    BY <1>3 DEF FirstEnd
<1>5. FirstEnd(s, i) \in i + 1..Len(s) /\ EndsAt(s, i, FirstEnd(s, i))
    BY <1>4 DEF Ends
<1>6. ASSUME NEW j \in i + 1..FirstEnd(s, i) - 1, EndsAt(s, i, j) PROVE FALSE
    <2>1. j \in i + 1..Len(s) /\ ~(FirstEnd(s, i) <= j)
        BY <1>1, <1>5
    <2>2. j \in E
        BY <1>6, <2>1 DEF Ends
    <2>3. QED BY <1>4, <2>1, <2>2
<1>7. QED BY <1>5, <1>6

LEMMA SequenceAtType ==
    ASSUME NEW s \in Seq(InputBytes), NEW i \in 1..Len(s), Ends(s, i) # {}
    PROVE  SequenceAt(s, i) \in Seq(InputBytes)
<1> DEFINE e == FirstEnd(s, i)
           j == IF s[e] = "pause" THEN e - 1 ELSE e
<1>1. e \in i + 1..Len(s) /\ Len(s) \in Nat /\ i \in Nat
    BY FirstEndIs, LenProperties
<1>2. i + 1 \in Int /\ j \in Int /\ j <= Len(s) /\ 1 <= i + 1
    BY <1>1
<1> HIDE DEF j
<1>3. \A k \in i + 1..j : s[k] \in InputBytes
    <2>1. \A k \in i + 1..j : k \in 1..Len(s)
        BY <1>1, <1>2
    <2>2. QED BY <2>1, ElementOfSeq
<1>4. SubSeq(s, i + 1, j) \in Seq(InputBytes)
    BY <1>2, <1>3, SubSeqProperties
<1>5. QED BY <1>4 DEF SequenceAt, j

\* The equation of the definition of KeysFrom.
LEMMA KeysFromIs ==
    ASSUME NEW s \in Seq(InputBytes)
    PROVE  /\ KeysFrom(s) \in [1..Len(s) + 1 -> Seq(InputEvents)]
           /\ KeysFrom(s)[Len(s) + 1] = << >>
           /\ \A i \in 1..Len(s) :
                 /\ s[i] # "ESC" => KeysFrom(s)[i] = <<PlainKey(s[i])>> \o KeysFrom(s)[i + 1]
                 /\ s[i] = "ESC" /\ Ends(s, i) = {} => KeysFrom(s)[i] = << >>
                 /\ s[i] = "ESC" /\ Ends(s, i) # {} =>
                       KeysFrom(s)[i] = Meaning(SequenceAt(s, i)) \o KeysFrom(s)[FirstEnd(s, i) + 1]
<1> DEFINE n == Len(s)
           V == Seq(InputEvents)
           later == [i \in 1..n |-> IF s[i] = "ESC" /\ Ends(s, i) # {} THEN FirstEnd(s, i) + 1 ELSE i + 1]
           piece(i, v) == IF s[i] # "ESC" THEN <<PlainKey(s[i])>> \o v
                          ELSE IF Ends(s, i) = {} THEN << >>
                          ELSE Meaning(SequenceAt(s, i)) \o v
           step == [i \in 1..n |-> [v \in V |-> piece(i, v)]]
           Is(f) == f = [i \in 1..n + 1 |->
                           IF i > n THEN << >>
                           ELSE IF s[i] # "ESC" THEN <<PlainKey(s[i])>> \o f[i + 1]
                           ELSE IF Ends(s, i) = {} THEN << >>
                           ELSE Meaning(SequenceAt(s, i)) \o f[FirstEnd(s, i) + 1]]
<1>1. n \in Nat /\ \A i \in 1..n : s[i] \in InputBytes
    BY ElementOfSeq, LenProperties
<1>2. \A i \in 1..n : Ends(s, i) # {} => FirstEnd(s, i) \in i + 1..n
    BY FirstEndIs
<1>3. /\ later \in [1..n -> 1..n + 1]
      /\ \A i \in 1..n : later[i] > i
    <2>1. \A i \in 1..n : later[i] \in 1..n + 1 /\ later[i] > i
        BY <1>1, <1>2
    <2>2. QED BY <2>1
<1>4. \A i \in 1..n : later[i] = IF s[i] = "ESC" /\ Ends(s, i) # {} THEN FirstEnd(s, i) + 1 ELSE i + 1
    OBVIOUS
<1> HIDE DEF later
<1>5. ASSUME NEW i \in 1..n, NEW v \in V PROVE piece(i, v) \in V
    <2>1. \A a, b \in V : a \o b \in V
        BY ConcatProperties
    <2>2. <<PlainKey(s[i])>> \in V
        <3>1. PlainKey(s[i]) \in InputEvents
            BY <1>1, PlainKeyType
        <3>2. QED BY <3>1
    <2>3. Ends(s, i) # {} => Meaning(SequenceAt(s, i)) \in V
        BY SequenceAtType, MeaningType
    <2>4. << >> \in V
        OBVIOUS
    <2> HIDE DEF V
    <2>5. QED BY <2>1, <2>2, <2>3, <2>4
<1>6. step \in [1..n -> [V -> V]] /\ \A i \in 1..n, v \in V : step[i][v] = piece(i, v)
    BY <1>5
<1> HIDE DEF step
<1>7. << >> \in V
    OBVIOUS
<1> HIDE DEF V
<1>8. PICK f : Unfolds(f, 1, n + 1, V, << >>, later, step)
    <2>1. 1 \in Nat /\ n + 1 \in Nat /\ 1 <= n + 1 /\ (n + 1) - 1 = n
        BY <1>1
    <2>2. /\ later \in [1..(n + 1) - 1 -> 1..n + 1] /\ \A k \in 1..(n + 1) - 1 : later[k] > k
          /\ step \in [1..(n + 1) - 1 -> [V -> V]]
        BY <1>3, <1>6, <2>1
    <2>3. QED BY <1>7, <2>1, <2>2, BackwardRecursion
<1>9. /\ f \in [1..n + 1 -> V] /\ f[n + 1] = << >>
      /\ \A i \in 1..n : f[i] = piece(i, f[later[i]])
    <2>1. (n + 1) - 1 = n
        BY <1>1
    <2>2. f \in [1..n + 1 -> V] /\ f[n + 1] = << >> /\ \A i \in 1..n : f[i] = step[i][f[later[i]]]
        BY <1>8, <2>1 DEF Unfolds
    <2>3. \A i \in 1..n : f[later[i]] \in V
        BY <1>3, <2>2
    <2>4. QED BY <1>6, <2>2, <2>3
<1>10. Is(f)
    <2>1. \A i \in 1..n + 1 : IF i > n THEN i = n + 1 ELSE i \in 1..n
        BY <1>1
    <2>2. \A i \in 1..n + 1 :
             f[i] = IF i > n THEN << >>
                    ELSE IF s[i] # "ESC" THEN <<PlainKey(s[i])>> \o f[i + 1]
                    ELSE IF Ends(s, i) = {} THEN << >>
                    ELSE Meaning(SequenceAt(s, i)) \o f[FirstEnd(s, i) + 1]
        BY <1>4, <1>9, <2>1
    <2>3. QED BY <1>9, <2>2
<1>11. PICK g : g = (CHOOSE x : Is(x)) /\ Is(g)
    BY <1>10
<1>12. KeysFrom(s) = g
    BY <1>11 DEF KeysFrom, n
<1>13. DOMAIN g = 1..n + 1 /\ g[n + 1] = << >> /\ \A i \in 1..n : g[i] = piece(i, g[later[i]])
    <2>1. \A i \in 1..n + 1 :
             g[i] = IF i > n THEN << >>
                    ELSE IF s[i] # "ESC" THEN <<PlainKey(s[i])>> \o g[i + 1]
                    ELSE IF Ends(s, i) = {} THEN << >>
                    ELSE Meaning(SequenceAt(s, i)) \o g[FirstEnd(s, i) + 1]
        BY <1>11
    <2>2. n + 1 \in 1..n + 1 /\ n + 1 > n /\ \A i \in 1..n : i \in 1..n + 1 /\ ~(i > n)
        BY <1>1
    <2>3. \A i \in 1..n : g[i] = piece(i, g[later[i]])
        BY <1>4, <2>1, <2>2
    <2>4. DOMAIN g = 1..n + 1
        BY <1>11
    <2>5. g[n + 1] = << >>
        BY <2>1, <2>2
    <2>6. QED BY <2>3, <2>4, <2>5
<1> HIDE DEF piece
<1> DEFINE T == {k \in 1..n + 1 : \A i \in k..n + 1 : g[i] = f[i]}
<1>14. n + 1 \in T
    <2>1. n + 1 \in 1..n + 1 /\ \A i \in n + 1..n + 1 : i = n + 1
        BY <1>1
    <2>2. QED BY <1>9, <1>13, <2>1
<1>15. ASSUME NEW k \in 1..(n + 1) - 1, k + 1 \in T PROVE k \in T
    <2>1. k \in 1..n /\ k \in 1..n + 1 /\ later[k] \in k + 1..n + 1
        <3>1. later[k] \in 1..n + 1 /\ later[k] > k
            BY <1>1, <1>3
        <3>2. QED BY <1>1, <3>1
    <2>2. g[later[k]] = f[later[k]]
        BY <1>15, <2>1
    <2>3. g[k] = f[k]
        BY <1>9, <1>13, <2>1, <2>2
    <2>4. \A i \in k..n + 1 : i = k \/ i \in k + 1..n + 1
        BY <1>1
    <2>5. \A i \in k..n + 1 : g[i] = f[i]
        BY <1>15, <2>3, <2>4
    <2>6. QED BY <2>1, <2>5
<1>16. 1..n + 1 \subseteq T
    <2>1. 1 \in Nat /\ n + 1 \in Nat
        BY <1>1
    <2> HIDE DEF T
    <2>2. QED BY <1>14, <1>15, <2>1, DownwardInduction
<1>17. \A i \in 1..n + 1 : g[i] = f[i]
    <2>1. \A i \in 1..n + 1 : i \in T /\ i \in i..n + 1
        BY <1>1, <1>16
    <2>2. QED BY <2>1
<1>18. g \in [1..n + 1 -> V]
    <2>1. g = [i \in 1..n + 1 |-> g[i]]
        BY <1>11
    <2>2. QED BY <1>9, <1>17, <2>1
<1>19. QED BY <1>4, <1>12, <1>13, <1>18 DEF piece, n, V

\* A sequence that ends at e is worth its meaning; what follows begins after e.
LEMMA SequenceMeans ==
    ASSUME NEW s \in Seq(InputBytes), NEW i \in 1..Len(s), NEW e \in i + 1..Len(s), NEW seq \in Seq(InputBytes),
           s[i] = "ESC", EndsAt(s, i, e), \A j \in i + 1..e - 1 : ~EndsAt(s, i, j),
           Len(seq) = IF s[e] = "pause" THEN e - i - 1 ELSE e - i,
           \A k \in 1..Len(seq) : seq[k] = s[i + k]
    PROVE  KeysFrom(s)[i] = Meaning(seq) \o KeysFrom(s)[e + 1]
<1>1. Len(s) \in Nat /\ Len(seq) \in Nat
    BY LenProperties
<1>2. e \in Ends(s, i)
    BY DEF Ends
<1>3. FirstEnd(s, i) = e
    <2>1. /\ FirstEnd(s, i) \in i + 1..Len(s) /\ EndsAt(s, i, FirstEnd(s, i))
          /\ \A j \in i + 1..FirstEnd(s, i) - 1 : ~EndsAt(s, i, j)
        BY <1>2, FirstEndIs
    <2>2. ~(FirstEnd(s, i) < e) /\ ~(e < FirstEnd(s, i))
        BY <1>1, <2>1
    <2>3. QED BY <1>1, <2>1, <2>2
<1> DEFINE j == IF s[e] = "pause" THEN e - 1 ELSE e
<1>4. SequenceAt(s, i) = SubSeq(s, i + 1, j)
    BY <1>3 DEF SequenceAt
<1>5. i + 1 \in Int /\ j \in Int /\ j <= Len(s) /\ 1 <= i + 1 /\ Len(seq) = j - i
    BY <1>1
<1> HIDE DEF j
<1>6. \A k \in i + 1..j : s[k] \in InputBytes
    <2>1. \A k \in i + 1..j : k \in 1..Len(s)
        BY <1>1, <1>5
    <2>2. QED BY <2>1, ElementOfSeq
<1>7. /\ SubSeq(s, i + 1, j) \in Seq(InputBytes)
      /\ Len(SubSeq(s, i + 1, j)) = IF i + 1 <= j THEN j - (i + 1) + 1 ELSE 0
      /\ \A k \in 1..j - (i + 1) + 1 : SubSeq(s, i + 1, j)[k] = s[i + 1 + k - 1]
    BY <1>5, <1>6, SubSeqProperties
<1>8. Len(SubSeq(s, i + 1, j)) = Len(seq)
    BY <1>1, <1>5, <1>7
<1>9. \A k \in 1..Len(seq) : SubSeq(s, i + 1, j)[k] = seq[k]
    <2>1. \A k \in 1..Len(seq) : k \in 1..j - (i + 1) + 1 /\ i + 1 + k - 1 = i + k
        BY <1>5
    <2>2. QED BY <1>7, <2>1
<1>10. SubSeq(s, i + 1, j) = seq
    BY <1>7, <1>8, <1>9, SeqEqual
<1>11. QED BY <1>2, <1>3, <1>4, <1>10, KeysFromIs, ZenonT(30)

-----------------------------------------------------------------------------
(* The reader and the text field *)

\* The bytes that the reader has taken and not made events of, and where in what was typed
\* they begin.
Pending == IF reader.at = "idle" THEN << >> ELSE <<"ESC">> \o reader.seq
PendingAt == Len(typed) - Len(tty) - Len(Pending) + 1

TtyTyped ==
    /\ tty \in Seq(KeyBytes) /\ typed \in Seq(InputBytes)
    /\ keyQueue \in Seq(InputEvents) /\ dropped \in BOOLEAN
    /\ Field \in Fields /\ scroll \in Nat
    /\ reader \in [at : {"idle", "escape", "[", "O", "dead"}, seq : Seq(KeyBytes)]

\* An open sequence has no end yet.
SequenceOpen ==
    /\ reader.at \in {"idle", "escape"} => reader.seq = << >>
    /\ reader.at = "O" => reader.seq = <<"O">>
    /\ reader.at = "[" => /\ Len(reader.seq) >= 1 /\ reader.seq[1] = "["
                          /\ \A k \in 2..Len(reader.seq) : ~Final(reader.seq[k])

\* What was typed ends with the open sequence and what is not read.
UnreadIsLast ==
    /\ PendingAt \in Nat \ {0}
    /\ \A k \in 1..Len(Pending) : typed[PendingAt + k - 1] = Pending[k]
    /\ \A k \in 1..Len(tty) : typed[Len(typed) - Len(tty) + k] = tty[k]

\* However the input goes on, all of it means what is left of it means to the field when
\* the queue is drained.
NothingMissed ==
    \A rest \in Seq(InputBytes) :
        Edited(EmptyField, KeysFrom(typed \o rest)[1])
            = Edited(Field, keyQueue \o KeysFrom(typed \o rest)[PendingAt])

TtyInv ==
    /\ TtyTyped /\ CursorInView
    /\ reader.at # "dead" =>
          SequenceOpen /\ UnreadIsLast /\ (~dropped => NothingMissed)

LEMMA EmptyFieldIsField == EmptyField \in Fields
    BY DEF EmptyField, Fields

LEMMA PendingType == TtyTyped => Pending \in Seq(KeyBytes \cup {"ESC"}) /\ Len(Pending) \in Nat
                                 /\ Len(Pending) = IF reader.at = "idle" THEN 0 ELSE Len(reader.seq) + 1
<1> SUFFICES ASSUME TtyTyped PROVE Pending \in Seq(KeyBytes \cup {"ESC"}) /\ Len(Pending) \in Nat
                                 /\ Len(Pending) = IF reader.at = "idle" THEN 0 ELSE Len(reader.seq) + 1
    OBVIOUS
<1>1. reader.seq \in Seq(KeyBytes \cup {"ESC"}) /\ Len(reader.seq) \in Nat
    <2>1. reader.seq \in Seq(KeyBytes)
        BY DEF TtyTyped
    <2>2. QED BY <2>1
<1>2. <<"ESC">> \in Seq(KeyBytes \cup {"ESC"}) /\ Len(<<"ESC">>) = 1
    OBVIOUS
<1>3. /\ <<"ESC">> \o reader.seq \in Seq(KeyBytes \cup {"ESC"})
      /\ Len(<<"ESC">> \o reader.seq) = Len(reader.seq) + 1
    BY <1>1, <1>2, ConcatProperties
<1>4. << >> \in Seq(KeyBytes \cup {"ESC"}) /\ Len(<< >>) = 0
    OBVIOUS
<1>5. CASE reader.at = "idle"
    BY <1>4, <1>5 DEF Pending
<1>6. CASE reader.at # "idle"
    BY <1>1, <1>3, <1>6 DEF Pending
<1>7. QED BY <1>5, <1>6

\* What the open sequence is, at its place.
LEMMA OpenAt ==
    ASSUME TtyTyped, UnreadIsLast, SequenceOpen, reader.at \in {"escape", "[", "O"}
    PROVE  /\ PendingAt \in 1..Len(typed) - Len(tty)
           /\ Len(typed) - Len(tty) = PendingAt + Len(reader.seq)
           /\ typed[PendingAt] = "ESC"
           /\ \A k \in 1..Len(reader.seq) : typed[PendingAt + k] = reader.seq[k]
<1> DEFINE p == PendingAt
           q == reader.seq
<1>1. Len(Pending) = Len(q) + 1 /\ Len(q) \in Nat /\ Len(tty) \in Nat /\ Len(typed) \in Nat
    BY PendingType, LenProperties DEF TtyTyped
<1>2. p \in Nat \ {0} /\ \A k \in 1..Len(Pending) : typed[p + k - 1] = Pending[k]
    BY DEF UnreadIsLast
<1>3. p = Len(typed) - Len(tty) - Len(Pending) + 1
    BY DEF PendingAt
<1>4. Pending = <<"ESC">> \o q
    BY DEF Pending
<1>5. /\ Pending[1] = "ESC"
      /\ \A k \in 1..Len(q) : Pending[k + 1] = q[k]
    <2>1. q \in Seq(KeyBytes \cup {"ESC"})
        <3>1. q \in Seq(KeyBytes)
            BY DEF TtyTyped
        <3>2. QED BY <3>1
    <2>2. <<"ESC">> \in Seq(KeyBytes \cup {"ESC"}) /\ Len(<<"ESC">>) = 1 /\ <<"ESC">>[1] = "ESC"
        OBVIOUS
    <2>3. \A k \in 1..1 + Len(q) : Pending[k] = IF k <= 1 THEN <<"ESC">>[k] ELSE q[k - 1]
        BY <1>4, <2>1, <2>2, ConcatProperties
    <2>4. 1 \in 1..1 + Len(q) /\ \A k \in 1..Len(q) : k + 1 \in 1..1 + Len(q) /\ ~(k + 1 <= 1) /\ (k + 1) - 1 = k
        BY <1>1
    <2>5. QED BY <2>2, <2>3, <2>4
<1> HIDE DEF p, q
<1>6. typed[p] = "ESC"
    <2>1. 1 \in 1..Len(Pending) /\ p + 1 - 1 = p
        BY <1>1, <1>2
    <2>2. QED BY <1>2, <1>5, <2>1
<1>7. ASSUME NEW k \in 1..Len(q) PROVE typed[p + k] = q[k]
    <2>1. k + 1 \in 1..Len(Pending) /\ p + (k + 1) - 1 = p + k
        BY <1>1, <1>2
    <2>2. QED BY <1>2, <1>5, <2>1
<1>8. Len(typed) - Len(tty) = p + Len(q) /\ p \in 1..Len(typed) - Len(tty)
    BY <1>1, <1>2, <1>3
<1>9. QED BY <1>6, <1>7, <1>8 DEF p, q

\* In whatever the input becomes, the open sequence does not end before the next byte.
LEMMA OpenHasNoEnd ==
    ASSUME TtyTyped, UnreadIsLast, SequenceOpen, reader.at \in {"escape", "[", "O"},
           NEW s, \A k \in 1..Len(typed) : s[k] = typed[k]
    PROVE  \A j \in PendingAt + 1..Len(typed) - Len(tty) : ~EndsAt(s, PendingAt, j)
<1> DEFINE p == PendingAt
           q == reader.seq
           m == Len(typed) - Len(tty)
<1>1. /\ p \in 1..m /\ m = p + Len(q) /\ Len(q) \in Nat /\ m \in Int
      /\ \A k \in 1..Len(q) : typed[p + k] = q[k] /\ p + k \in 1..Len(typed)
    <2>1. Len(q) \in Nat /\ Len(tty) \in Nat /\ Len(typed) \in Nat
        BY LenProperties DEF TtyTyped
    <2>2. /\ p \in 1..m /\ m = p + Len(q)
          /\ \A k \in 1..Len(q) : typed[p + k] = q[k]
        BY OpenAt
    <2>3. \A k \in 1..Len(q) : p + k \in 1..Len(typed)
        BY <2>1, <2>2
    <2>4. QED BY <2>1, <2>2, <2>3
<1>2. \A k \in 1..Len(q) : s[p + k] = q[k] /\ q[k] # "pause"
    <2>1. \A k \in 1..Len(q) : q[k] \in KeyBytes
        BY ElementOfSeq DEF TtyTyped
    <2>2. QED BY <1>1, <2>1, KeyInputAssumption
<1>3. /\ reader.at = "escape" => Len(q) = 0
      /\ reader.at = "O" => Len(q) = 1 /\ q[1] = "O"
      /\ reader.at = "[" => q[1] = "[" /\ Len(q) >= 1 /\ \A k \in 2..Len(q) : ~Final(q[k])
    <2>1. Len(<< >>) = 0 /\ Len(<<"O">>) = 1 /\ <<"O">>[1] = "O"
        OBVIOUS
    <2>2. /\ reader.at = "escape" => q = << >>
          /\ reader.at = "O" => q = <<"O">>
          /\ reader.at = "[" => q[1] = "[" /\ Len(q) >= 1 /\ \A k \in 2..Len(q) : ~Final(q[k])
        BY DEF SequenceOpen
    <2> HIDE DEF q
    <2>3. QED BY <2>1, <2>2
<1> HIDE DEF p, q, m
<1>4. ASSUME NEW j \in p + 1..m PROVE ~EndsAt(s, p, j)
    <2> DEFINE k == j - p
    <2>1. k \in 1..Len(q) /\ j = p + k /\ (j = p + 1 <=> k = 1) /\ (j = p + 2 <=> k = 2) /\ (j > p + 1 <=> k >= 2)
        BY <1>1
    <2> HIDE DEF k
    <2>2. s[j] = q[k] /\ q[k] # "pause" /\ 1 \in 1..Len(q) /\ s[p + 1] = q[1]
        <3>1. 1 \in 1..Len(q)
            BY <1>1, <2>1
        <3>2. QED BY <1>2, <2>1, <3>1
    <2>3. CASE reader.at = "escape"
        BY <1>1, <1>3, <2>1, <2>3
    <2>4. CASE reader.at = "O"
        <3>1. k = 1
            <4>1. Len(q) = 1
                BY <1>3, <2>4
            <4>2. k \in 1..1
                BY <2>1, <4>1
            <4>3. QED BY <4>2
        <3>2. s[j] = "O" /\ j = p + 1
            BY <1>3, <2>1, <2>2, <2>4, <3>1
        <3>3. QED BY <1>1, <3>2 DEF EndsAt
    <2>5. CASE reader.at = "["
        <3>1. CASE k = 1
            BY <1>1, <1>3, <2>1, <2>2, <2>5, <3>1 DEF EndsAt
        <3>2. CASE k >= 2
            <4>1. ~Final(q[k])
                <5>1. k \in 2..Len(q)
                    BY <1>1, <2>1, <3>2
                <5>2. QED BY <1>3, <2>5, <5>1
            <4>2. s[p + 1] # "O" /\ ~(j = p + 1)
                BY <1>1, <1>3, <2>1, <2>2, <2>5, <3>2
            <4>3. QED BY <2>2, <4>1, <4>2 DEF EndsAt
        <3>3. QED BY <1>1, <2>1, <3>1, <3>2
    <2>6. QED BY <2>3, <2>4, <2>5
<1>5. QED BY <1>4 DEF p, m

\* Once all is read and drained, the field is what was meant.
LEMMA ReadIsTyped == TtyInv => TextIsTyped
<1> SUFFICES ASSUME TtyInv, tty = << >>, keyQueue = << >>, reader.at # "dead", ~dropped
             PROVE  text = Meant.text /\ cursor = Meant.cursor
    BY DEF TextIsTyped
<1>1. TtyTyped /\ SequenceOpen /\ UnreadIsLast /\ NothingMissed /\ Len(tty) = 0 /\ Len(typed) \in Nat
    BY LenProperties DEF TtyInv, TtyTyped
<1>2. typed \in Seq(InputBytes) /\ typed \o << >> = typed /\ << >> \in Seq(InputBytes)
    BY <1>1 DEF TtyTyped
<1>3. KeysFrom(typed)[PendingAt] = << >>
    <2>1. CASE reader.at = "idle"
        <3>1. Len(Pending) = 0
            BY <2>1 DEF Pending
        <3>2. PendingAt = Len(typed) + 1
            BY <1>1, <3>1 DEF PendingAt
        <3>3. QED BY <1>2, <3>2, KeysFromIs
    <2>2. CASE reader.at \in {"escape", "[", "O"}
        <3>1. PendingAt \in 1..Len(typed) /\ typed[PendingAt] = "ESC"
            <4>1. PendingAt \in 1..Len(typed) - Len(tty) /\ Len(typed) - Len(tty) = Len(typed)
                BY <1>1, <2>2, OpenAt
            <4>2. QED BY <1>1, <2>2, <4>1, OpenAt
        <3>2. \A j \in PendingAt + 1..Len(typed) : ~EndsAt(typed, PendingAt, j)
            <4>1. \A j \in PendingAt + 1..Len(typed) - Len(tty) : ~EndsAt(typed, PendingAt, j)
                BY <1>1, <2>2, OpenHasNoEnd
            <4>2. Len(typed) - Len(tty) = Len(typed)
                BY <1>1
            <4>3. QED BY <4>1, <4>2
        <3>3. Ends(typed, PendingAt) = {}
            BY <3>2 DEF Ends
        <3>4. QED BY <1>2, <3>1, <3>3, KeysFromIs
    <2>3. QED BY <1>1, <2>1, <2>2 DEF TtyTyped
<1>4. Edited(EmptyField, KeysFrom(typed)[1]) = Edited(Field, << >> \o << >>)
    BY <1>1, <1>2, <1>3 DEF NothingMissed
<1>5. Edited(Field, << >> \o << >>) = Field
    <2>1. << >> \o << >> = << >>
        OBVIOUS
    <2>2. QED BY <1>1, <2>1, EditedByNothing DEF TtyTyped
<1>6. QED BY <1>4, <1>5 DEF Meant, Field

\* What the reader makes of a sequence is what the sequence means.
LEMMA DecodesTheMeaning ==
    ASSUME NEW seq \in Seq(KeyBytes), seq # << >> /\ Head(seq) = "O" => Len(seq) <= 2
    PROVE  DecodeEscape(seq) = Meaning(seq) /\ DecodeEscape(seq) \in Seq(InputEvents)
<1>1. Meaning(seq) \in Seq(InputEvents)
    <2>1. seq \in Seq(InputBytes)
        BY DEF InputBytes
    <2>2. QED BY <2>1, MeaningType
<1> DEFINE last == seq[Len(seq)]
           csi == DOMAIN CsiKeys
<1>2. csi = {"C", "D", "H", "F"}
    BY DEF CsiKeys
<1>3. seq = << >> => DecodeEscape(seq) = Meaning(seq)
    BY DEF DecodeEscape, Meaning
<1>4. ASSUME seq # << >> PROVE DecodeEscape(seq) = Meaning(seq)
    <2>1. Len(seq) \in Nat \ {0} /\ Head(seq) = seq[1]
        BY <1>4
    <2>4. CASE Head(seq) = "O" /\ Len(seq) >= 2
        <3>1. Len(seq) = 2
            <4>1. Len(seq) <= 2
                BY <1>4, <2>4
            <4>2. Len(seq) \in Nat /\ Len(seq) >= 2
                BY <2>1, <2>4
            <4> DEFINE l == Len(seq)
            <4>3. l \in Nat /\ l <= 2 /\ l >= 2
                BY <4>1, <4>2
            <4> HIDE DEF l
            <4>4. l = 2
                BY <4>3
            <4>5. QED BY <4>4 DEF l
        <3>2. Head(seq) # "["
            BY <2>4
        <3>4. QED BY <1>4, <2>4, <3>1, <3>2 DEF DecodeEscape, Meaning
    <2>5. CASE Head(seq) = "O" /\ ~(Len(seq) >= 2)
        <3>1. Len(seq) = 1
            <4> DEFINE l == Len(seq)
            <4>1. l \in Nat \ {0} /\ ~(l >= 2)
                BY <2>1, <2>5
            <4> HIDE DEF l
            <4>2. l = 1
                BY <4>1
            <4>3. QED BY <4>2 DEF l
        <3>2. last = "O" /\ Head(seq) # "["
            BY <2>1, <2>5, <3>1
        <3>4. QED BY <1>2, <1>4, <2>5, <3>2 DEF DecodeEscape, Meaning
    <2>6. CASE Head(seq) = "["
        <3>1. CASE last = "~"
            <4>1. last \notin csi
                BY <1>2, <3>1
            <4>2. QED BY <1>4, <2>6, <3>1, <4>1 DEF DecodeEscape, Meaning
        <3>2. CASE last # "~"
            BY <1>4, <2>6, <3>2 DEF DecodeEscape, Meaning
        <3>3. QED BY <3>1, <3>2
    <2>7. CASE Head(seq) \notin {"O", "["}
        BY <1>4, <2>7 DEF DecodeEscape, Meaning
    <2>8. QED BY <2>4, <2>5, <2>6, <2>7
<1>5. QED BY <1>1, <1>3, <1>4

LEMMA PushedEvents ==
    ASSUME TtyTyped, NEW evs \in Seq(InputEvents), Push(evs)
    PROVE  /\ keyQueue' \in Seq(InputEvents) /\ dropped' \in BOOLEAN
           /\ ~dropped' => ~dropped /\ keyQueue' = keyQueue \o evs
<1> DEFINE joined == keyQueue \o evs
<1>1. joined \in Seq(InputEvents) /\ dropped \in BOOLEAN
    BY ConcatProperties DEF TtyTyped
<1> HIDE DEF joined
<1>2. /\ keyQueue' = IF Len(joined) > QueueMax THEN Tail(joined) ELSE joined
      /\ dropped' = (dropped \/ Len(joined) > QueueMax)
    BY DEF Push, joined
<1>3. Len(joined) > QueueMax => Tail(joined) \in Seq(InputEvents)
    <2>1. Len(joined) > QueueMax => joined # << >>
        BY <1>1, KeyInputAssumption
    <2>2. QED BY <1>1, <2>1
<1>4. keyQueue' \in Seq(InputEvents)
    BY <1>1, <1>2, <1>3
<1>5. dropped' \in BOOLEAN /\ (~dropped' => ~dropped /\ ~(Len(joined) > QueueMax))
    BY <1>2
<1>6. ~dropped' => keyQueue' = keyQueue \o evs
    BY <1>2, <1>5 DEF joined
<1>7. QED BY <1>4, <1>5, <1>6

LEMMA EscapeThen ==
    ASSUME NEW q \in Seq(KeyBytes)
    PROVE  /\ Len(<<"ESC">> \o q) = Len(q) + 1 /\ Len(q) \in Nat
           /\ (<<"ESC">> \o q)[1] = "ESC"
           /\ \A k \in 1..Len(q) : (<<"ESC">> \o q)[k + 1] = q[k]
<1>1. q \in Seq(KeyBytes \cup {"ESC"}) /\ Len(q) \in Nat
    OBVIOUS
<1> DEFINE e == <<"ESC">>
<1>2. e \in Seq(KeyBytes \cup {"ESC"}) /\ Len(e) = 1 /\ e[1] = "ESC"
    OBVIOUS
<1> HIDE DEF e
<1>3. /\ Len(e \o q) = 1 + Len(q) /\ (e \o q)[1] = e[1]
      /\ \A k \in 1..Len(q) : (e \o q)[1 + k] = q[k]
    <2>1. 1 \in 1..1
        OBVIOUS
    <2>2. QED BY <1>1, <1>2, <2>1, ConcatPlaces, SMTT(30)
<1>4. 1 + Len(q) = Len(q) + 1 /\ \A k \in 1..Len(q) : 1 + k = k + 1
    BY <1>1
<1>5. QED BY <1>1, <1>2, <1>3, <1>4 DEF e

\* Where the reader is in what was typed.
Read == Len(typed) - Len(tty)

LEMMA ReadIs ==
    ASSUME TtyTyped, UnreadIsLast
    PROVE  /\ Read \in Nat /\ Len(typed) \in Nat /\ Len(tty) \in Nat /\ PendingAt \in 1..Read + 1
           /\ PendingAt = Read + 1 - Len(Pending)
           /\ reader.at = "idle" => PendingAt = Read + 1
           /\ reader.at # "idle" => PendingAt = Read - Len(reader.seq)
<1>1. /\ Len(Pending) \in Nat
      /\ Len(Pending) = IF reader.at = "idle" THEN 0 ELSE Len(reader.seq) + 1
    BY PendingType
<1>2. Len(typed) \in Nat /\ Len(tty) \in Nat /\ Len(reader.seq) \in Nat
    BY LenProperties DEF TtyTyped
<1>3. PendingAt = Read - Len(Pending) + 1 /\ PendingAt \in Nat \ {0} /\ Read \in Int
    BY <1>2 DEF PendingAt, Read, UnreadIsLast
<1> DEFINE l == Len(Pending)
           q == Len(reader.seq)
<1>4. /\ l \in Nat /\ q \in Nat /\ PendingAt = Read - l + 1 /\ PendingAt \in Nat \ {0} /\ Read \in Int
      /\ reader.at = "idle" => l = 0
      /\ reader.at # "idle" => l = q + 1
    BY <1>1, <1>2, <1>3
<1> HIDE DEF l, q
<1>5. Read \in Nat /\ PendingAt = Read + 1 - l /\ PendingAt \in 1..Read + 1
    BY <1>4
<1>6. reader.at = "idle" => PendingAt = Read + 1
    BY <1>4
<1>7. reader.at # "idle" => PendingAt = Read - q
    BY <1>4
<1>8. QED BY <1>2, <1>5, <1>6, <1>7 DEF l, q

\* The next step's place of what is pending, with nothing of an open sequence left.
LEMMA PlaceIsRead ==
    ASSUME reader'.at = "idle" PROVE PendingAt' = Read' - 0 + 1 /\ Len(Pending') = 0
<1>1. Pending' = << >> /\ Len(<< >>) = 0
    BY DEF Pending
<1>2. QED BY <1>1 DEF PendingAt, Read

LEMMA EventsRegrouped == \A a, b, c \in Seq(InputEvents) : (a \o b) \o c = a \o (b \o c)
    BY ConcatAssociative

\* Events that stand for what was pending leave nothing out.
LEMMA EventsMissNothing ==
    ASSUME TtyTyped, NothingMissed, NEW evs \in Seq(InputEvents), Field' = Field,
           keyQueue' = keyQueue \o evs,
           typed' \in Seq(InputBytes), PendingAt' \in 1..Len(typed') + 1,
           \A rest \in Seq(InputBytes) :
              /\ \E r \in Seq(InputBytes) : typed' \o rest = typed \o r
              /\ KeysFrom(typed' \o rest)[PendingAt] = evs \o KeysFrom(typed' \o rest)[PendingAt']
    PROVE  NothingMissed'
<1> SUFFICES ASSUME NEW rest \in Seq(InputBytes)
             PROVE  Edited(EmptyField, KeysFrom(typed' \o rest)[1])
                        = Edited(Field', keyQueue' \o KeysFrom(typed' \o rest)[PendingAt'])
    BY DEF NothingMissed
<1> DEFINE s == typed' \o rest
<1>1. s \in Seq(InputBytes) /\ Len(typed') \in Nat /\ Len(rest) \in Nat /\ Len(s) = Len(typed') + Len(rest)
    BY ConcatProperties, LenProperties
<1>2. Edited(EmptyField, KeysFrom(s)[1]) = Edited(Field, keyQueue \o KeysFrom(s)[PendingAt])
    <2>1. PICK r \in Seq(InputBytes) : s = typed \o r
        OBVIOUS
    <2>2. QED BY <2>1 DEF NothingMissed
<1>3. KeysFrom(s)[PendingAt] = evs \o KeysFrom(s)[PendingAt']
    OBVIOUS
<1> HIDE DEF s
<1>4. KeysFrom(s)[PendingAt'] \in Seq(InputEvents)
    <2>1. PendingAt' \in 1..Len(s) + 1
        BY <1>1
    <2>2. KeysFrom(s) \in [1..Len(s) + 1 -> Seq(InputEvents)]
        BY <1>1, KeysFromIs
    <2>3. QED BY <2>1, <2>2
<1>5. keyQueue \in Seq(InputEvents)
    BY DEF TtyTyped
<1>6. keyQueue \o (evs \o KeysFrom(s)[PendingAt']) = (keyQueue \o evs) \o KeysFrom(s)[PendingAt']
    <2> DEFINE left == KeysFrom(s)[PendingAt']
    <2>1. left \in Seq(InputEvents)
        BY <1>4
    <2> HIDE DEF left
    <2>2. (keyQueue \o evs) \o left = keyQueue \o (evs \o left)
        BY <1>5, <2>1, EventsRegrouped
    <2>3. QED BY <2>2 DEF left
<1>7. QED BY <1>2, <1>3, <1>6 DEF s

LEMMA BytesRegrouped ==
    \A a, b, c \in Seq(InputBytes) : (a \o b) \o c = a \o (b \o c) /\ b \o c \in Seq(InputBytes)
    BY ConcatAssociative, ConcatProperties

LEMMA AppendPlaces ==
    ASSUME NEW S, NEW u \in Seq(S), NEW x \in S
    PROVE  /\ Append(u, x) \in Seq(S) /\ Len(Append(u, x)) = Len(u) + 1 /\ Len(u) \in Nat
           /\ \A k \in 1..Len(u) : Append(u, x)[k] = u[k]
           /\ Append(u, x)[Len(u) + 1] = x
    OBVIOUS

\* The next state of the reader, when a sequence is open in it.
LEMMA StaysOpen ==
    ASSUME reader' \in [at : {"escape", "[", "O"}, seq : Seq(KeyBytes)], NEW p \in Nat \ {0},
           Read' = p + Len(reader'.seq), typed'[p] = "ESC",
           \A k \in 1..Len(reader'.seq) : typed'[p + k] = reader'.seq[k],
           \A k \in 1..Len(tty') : typed'[Read' + k] = tty'[k]
    PROVE  UnreadIsLast' /\ PendingAt' = p
<1> DEFINE q == reader'.seq
           w == <<"ESC">> \o q
<1>1. q \in Seq(KeyBytes) /\ Len(q) \in Nat
    OBVIOUS
<1>2. Pending' = w
    BY DEF Pending
<1>3. Len(w) = Len(q) + 1 /\ w[1] = "ESC" /\ \A k \in 1..Len(q) : w[k + 1] = q[k]
    BY <1>1, EscapeThen
<1> HIDE DEF w
<1>4. PendingAt' = Read' - Len(w) + 1
    BY <1>2 DEF PendingAt, Read
<1> DEFINE n == Len(q)
<1>5. n \in Nat /\ Len(w) = n + 1 /\ Read' = p + n
    BY <1>1, <1>3
<1> HIDE DEF n
<1>6. PendingAt' = p
    BY <1>4, <1>5
<1>7. \A k \in 1..n + 1 : typed'[p + k - 1] = w[k]
    <2>1. ASSUME NEW k \in 1..n + 1, k # 1 PROVE typed'[p + k - 1] = w[k]
        <3>1. k - 1 \in 1..n /\ p + (k - 1) = p + k - 1 /\ (k - 1) + 1 = k
            BY <1>5, <2>1
        <3>2. w[(k - 1) + 1] = q[k - 1] /\ typed'[p + (k - 1)] = q[k - 1]
            BY <1>3, <3>1 DEF n
        <3>3. QED BY <3>1, <3>2
    <2>2. p + 1 - 1 = p
        OBVIOUS
    <2>3. QED BY <1>3, <2>1, <2>2
<1>8. \A k \in 1..Len(tty') : typed'[Len(typed') - Len(tty') + k] = tty'[k]
    BY DEF Read
<1>9. QED BY <1>2, <1>5, <1>6, <1>7, <1>8 DEF UnreadIsLast

LEMMA BackToIdle ==
    ASSUME reader' = Idle, Read' \in Nat, \A k \in 1..Len(tty') : typed'[Read' + k] = tty'[k]
    PROVE  SequenceOpen' /\ UnreadIsLast' /\ PendingAt' = Read' + 1
<1>1. reader'.at = "idle" /\ reader'.seq = << >>
    BY DEF Idle
<1>2. SequenceOpen'
    BY <1>1 DEF SequenceOpen
<1>3. PendingAt' = Read' - 0 + 1 /\ Len(Pending') = 0
    BY <1>1, PlaceIsRead
<1>4. PendingAt' = Read' + 1 /\ PendingAt' \in Nat \ {0}
    <2> DEFINE n == Read'
    <2>1. n \in Nat /\ PendingAt' = n - 0 + 1
        BY <1>3
    <2> HIDE DEF n
    <2>2. PendingAt' = n + 1 /\ PendingAt' \in Nat \ {0}
        BY <2>1
    <2>3. QED BY <2>2 DEF n
<1>5. \A k \in 1..Len(tty') : typed'[Len(typed') - Len(tty') + k] = tty'[k]
    BY DEF Read
<1>6. \A k \in 1..Len(Pending') : typed'[PendingAt' + k - 1] = Pending'[k]
    BY <1>3
<1>7. QED BY <1>2, <1>4, <1>5, <1>6 DEF UnreadIsLast

LEMMA TypeByteMissesNothing ==
    ASSUME TtyInv, NEW b \in KeyBytes, TypeByte(b) PROVE TtyInv'
<1>1. TtyTyped /\ CursorInView
    BY DEF TtyInv
<1>2. /\ typed' = Append(typed, b) /\ tty' = Append(tty, b)
      /\ reader' = reader /\ keyQueue' = keyQueue /\ dropped' = dropped
      /\ text' = text /\ cursor' = cursor /\ scroll' = scroll /\ painted' = painted
    BY DEF TypeByte
<1>3. b \in InputBytes /\ tty \in Seq(KeyBytes) /\ typed \in Seq(InputBytes)
    BY <1>1 DEF TtyTyped, InputBytes
<1>4. /\ tty' \in Seq(KeyBytes) /\ Len(tty') = Len(tty) + 1 /\ Len(tty) \in Nat
      /\ \A k \in 1..Len(tty) : tty'[k] = tty[k]
      /\ tty'[Len(tty) + 1] = b
    BY <1>2, <1>3, AppendPlaces
<1>5. /\ typed' \in Seq(InputBytes) /\ Len(typed') = Len(typed) + 1 /\ Len(typed) \in Nat
      /\ \A k \in 1..Len(typed) : typed'[k] = typed[k]
      /\ typed'[Len(typed) + 1] = b
    BY <1>2, <1>3, AppendPlaces
<1>6. Field' = Field
    BY <1>2 DEF Field
<1>7. TtyTyped' /\ CursorInView'
    BY <1>1, <1>2, <1>4, <1>5, <1>6 DEF TtyTyped, CursorInView
<1>8. ASSUME reader.at # "dead"
      PROVE  SequenceOpen' /\ UnreadIsLast' /\ (~dropped' => NothingMissed')
    <2>1. SequenceOpen /\ UnreadIsLast /\ (~dropped => NothingMissed)
        BY <1>8 DEF TtyInv
    <2>2. SequenceOpen'
        BY <1>2, <2>1 DEF SequenceOpen
    <2>3. Pending' = Pending
        BY <1>2 DEF Pending
    <2>4. /\ Read \in Nat /\ PendingAt \in 1..Read + 1 /\ Read = Len(typed) - Len(tty)
          /\ Len(Pending) \in Nat /\ PendingAt = Read + 1 - Len(Pending)
        BY <1>1, <2>1, ReadIs, PendingType DEF Read
    <2>5. Len(typed') - Len(tty') = Read /\ PendingAt' = PendingAt
        <3>1. Len(typed') - Len(tty') = Read
            BY <1>4, <1>5, <2>4
        <3>2. PendingAt' = Read - Len(Pending) + 1
            BY <2>3, <3>1 DEF PendingAt
        <3>3. QED BY <2>4, <3>1, <3>2
    <2>6. \A k \in 1..Len(Pending) : typed'[PendingAt + k - 1] = Pending[k]
        <3>1. \A k \in 1..Len(Pending) : PendingAt + k - 1 \in 1..Len(typed)
            BY <1>4, <1>5, <2>4
        <3>2. QED BY <1>5, <2>1, <3>1 DEF UnreadIsLast
    <2>7. \A k \in 1..Len(tty') : typed'[Read + k] = tty'[k]
        <3>1. ASSUME NEW k \in 1..Len(tty) PROVE typed'[Read + k] = tty'[k]
            <4>1. Read + k \in 1..Len(typed)
                BY <1>4, <1>5, <2>4
            <4>2. typed[Read + k] = tty[k]
                BY <2>1, <2>4 DEF UnreadIsLast
            <4>3. QED BY <1>4, <1>5, <4>1, <4>2
        <3>2. Read + (Len(tty) + 1) = Len(typed) + 1
            BY <1>4, <1>5, <2>4
        <3>3. \A k \in 1..Len(tty') : k \in 1..Len(tty) \/ k = Len(tty) + 1
            BY <1>4
        <3>4. QED BY <1>4, <1>5, <3>1, <3>2, <3>3
    <2>8. UnreadIsLast'
        <3>1. PendingAt \in Nat \ {0}
            BY <2>4
        <3>2. QED BY <2>3, <2>5, <2>6, <2>7, <3>1 DEF UnreadIsLast
    <2>9. ASSUME ~dropped PROVE NothingMissed'
        <3> SUFFICES ASSUME NEW rest \in Seq(InputBytes)
                     PROVE  Edited(EmptyField, KeysFrom(typed' \o rest)[1])
                              = Edited(Field', keyQueue' \o KeysFrom(typed' \o rest)[PendingAt'])
            BY DEF NothingMissed
        <3>1. typed' \o rest = typed \o (<<b>> \o rest) /\ <<b>> \o rest \in Seq(InputBytes)
            <4>1. <<b>> \in Seq(InputBytes) /\ typed' = typed \o <<b>>
                BY <1>2, <1>3
            <4>2. (typed \o <<b>>) \o rest = typed \o (<<b>> \o rest) /\ <<b>> \o rest \in Seq(InputBytes)
                BY <1>3, <4>1, BytesRegrouped
            <4>3. QED BY <4>1, <4>2
        <3>2. NothingMissed
            BY <2>1, <2>9
        <3>3. QED BY <1>2, <1>6, <2>5, <3>1, <3>2 DEF NothingMissed
    <2>10. QED BY <1>2, <2>2, <2>8, <2>9
<1>9. QED BY <1>2, <1>7, <1>8 DEF TtyInv

\* The byte that the reader takes is the one that was typed there.
LEMMA TakesTheNextByte ==
    ASSUME TtyTyped, UnreadIsLast, ReadByte
    PROVE  /\ Head(tty) \in KeyBytes /\ tty' \in Seq(KeyBytes)
           /\ typed' = typed /\ typed \in Seq(InputBytes) /\ Field' = Field
           /\ cursor' = cursor /\ scroll' = scroll /\ painted' = painted
           /\ Read' = Read + 1 /\ Read + 1 \in 1..Len(typed) /\ typed[Read + 1] = Head(tty)
           /\ \A k \in 1..Len(tty') : typed'[Read' + k] = tty'[k]
<1>1. /\ tty # << >> /\ tty' = Tail(tty) /\ typed' = typed /\ text' = text
      /\ cursor' = cursor /\ scroll' = scroll /\ painted' = painted
    BY DEF ReadByte
<1>2. tty \in Seq(KeyBytes) /\ typed \in Seq(InputBytes)
    BY DEF TtyTyped
<1> DEFINE n == Len(tty)
<1>3. /\ Head(tty) = tty[1] /\ Head(tty) \in KeyBytes /\ n \in Nat \ {0} /\ tty' \in Seq(KeyBytes)
      /\ Len(tty') = n - 1 /\ \A k \in 1..n - 1 : tty'[k] = tty[k + 1]
    BY <1>1, <1>2
<1>4. /\ Read \in Nat /\ Read = Len(typed) - n /\ Len(typed) \in Nat
      /\ \A k \in 1..n : typed[Read + k] = tty[k]
    BY ReadIs DEF UnreadIsLast, Read
<1> HIDE DEF n
<1>5. Read' = Read + 1
    <2>1. Read' = Len(typed) - (n - 1)
        BY <1>1, <1>3 DEF Read
    <2>2. QED BY <1>3, <1>4, <2>1
<1>6. Read + 1 \in 1..Len(typed) /\ typed[Read + 1] = Head(tty)
    <2>1. 1 \in 1..n /\ Read + 1 \in 1..Len(typed)
        BY <1>3, <1>4
    <2>2. QED BY <1>3, <1>4, <2>1
<1>7. \A k \in 1..Len(tty') : typed'[Read' + k] = tty'[k]
    <2>1. ASSUME NEW k \in 1..n - 1 PROVE typed[(Read + 1) + k] = tty'[k]
        <3>1. k + 1 \in 1..n /\ Read + (k + 1) = (Read + 1) + k
            BY <1>3, <1>4
        <3>2. QED BY <1>3, <1>4, <3>1
    <2>2. QED BY <1>1, <1>3, <1>5, <2>1
<1>8. Field' = Field
    BY <1>1 DEF Field
<1>9. QED BY <1>1, <1>2, <1>3, <1>5, <1>6, <1>7, <1>8

\* A byte that does not end the sequence.
LEMMA GoesOnMissesNothing ==
    ASSUME TtyInv, ReadByte, reader.at # "dead", keyQueue' = keyQueue, dropped' = dropped,
           \/ /\ reader.at = "idle" /\ Head(tty) = "ESC" /\ reader' = [at |-> "escape", seq |-> << >>]
           \/ /\ reader.at = "escape" /\ Head(tty) \in {"[", "O"}
              /\ reader' = [at |-> Head(tty), seq |-> Append(reader.seq, Head(tty))]
           \/ /\ reader.at = "[" /\ ~Final(Head(tty))
              /\ reader' = [at |-> "[", seq |-> Append(reader.seq, Head(tty))]
    PROVE  TtyInv'
<1> DEFINE b == Head(tty)
           q == reader.seq
           p == PendingAt
           Stays == /\ UnreadIsLast' /\ PendingAt' = p /\ SequenceOpen'
                    /\ reader' \in [at : {"escape", "[", "O"}, seq : Seq(KeyBytes)]
<1>1. TtyTyped /\ CursorInView /\ SequenceOpen /\ UnreadIsLast /\ (~dropped => NothingMissed)
    BY DEF TtyInv
<1>2. /\ b \in KeyBytes /\ tty' \in Seq(KeyBytes)
      /\ typed' = typed /\ typed \in Seq(InputBytes) /\ Field' = Field
      /\ cursor' = cursor /\ scroll' = scroll /\ painted' = painted
      /\ Read' = Read + 1 /\ Read + 1 \in 1..Len(typed) /\ typed[Read + 1] = b
      /\ \A k \in 1..Len(tty') : typed'[Read' + k] = tty'[k]
    BY <1>1, TakesTheNextByte
<1>3. Read \in Nat /\ p \in Nat \ {0} /\ (reader.at = "idle" => p = Read + 1)
    BY <1>1, ReadIs
<1>4. q \in Seq(KeyBytes) /\ Len(q) \in Nat /\ keyQueue \in Seq(InputEvents) /\ dropped \in BOOLEAN
      /\ Field \in Fields /\ scroll \in Nat
    BY <1>1, LenProperties DEF TtyTyped
<1>5. /\ Append(q, b) \in Seq(KeyBytes) /\ Len(Append(q, b)) = Len(q) + 1
      /\ \A k \in 1..Len(q) : Append(q, b)[k] = q[k]
      /\ Append(q, b)[Len(q) + 1] = b
    BY <1>2, <1>4, AppendPlaces
<1> HIDE DEF b
<1>6. ASSUME reader.at = "idle", reader' = [at |-> "escape", seq |-> << >>], b = "ESC" PROVE Stays
    <2>1. reader' \in [at : {"escape", "[", "O"}, seq : Seq(KeyBytes)] /\ Len(reader'.seq) = 0
        BY <1>6
    <2>2. SequenceOpen'
        BY <1>6 DEF SequenceOpen
    <2>3. Read' = p + Len(reader'.seq) /\ typed'[p] = "ESC"
        BY <1>2, <1>3, <1>6, <2>1
    <2>4. \A k \in 1..Len(reader'.seq) : typed'[p + k] = reader'.seq[k]
        BY <2>1
    <2> HIDE DEF p
    <2>5. UnreadIsLast' /\ PendingAt' = p
        BY <1>2, <1>3, <2>1, <2>3, <2>4, StaysOpen
    <2>6. QED BY <2>1, <2>2, <2>5
<1>7. ASSUME reader.at \in {"escape", "["}, reader' = [at |-> reader'.at, seq |-> Append(q, b)],
             reader'.at \in {"[", "O"}
      PROVE  UnreadIsLast' /\ PendingAt' = p /\ reader' \in [at : {"escape", "[", "O"}, seq : Seq(KeyBytes)]
    <2>1. reader' \in [at : {"escape", "[", "O"}, seq : Seq(KeyBytes)] /\ reader'.seq = Append(q, b)
        BY <1>5, <1>7
    <2>2. /\ p \in 1..Read /\ Read = p + Len(q) /\ typed[p] = "ESC"
          /\ \A k \in 1..Len(q) : typed[p + k] = q[k]
        BY <1>1, <1>7, OpenAt DEF Read
    <2> HIDE DEF p, q
    <2>3. Read' = p + Len(reader'.seq) /\ typed'[p] = "ESC"
        BY <1>2, <1>3, <1>4, <1>5, <2>1, <2>2
    <2>4. \A k \in 1..Len(reader'.seq) : typed'[p + k] = reader'.seq[k]
        <3>1. \A k \in 1..Len(q) + 1 : k \in 1..Len(q) \/ k = Len(q) + 1
            BY <1>4
        <3>2. p + (Len(q) + 1) = Read + 1
            BY <1>3, <1>4, <2>2
        <3>3. QED BY <1>2, <1>5, <2>1, <2>2, <3>1, <3>2
    <2>5. UnreadIsLast' /\ PendingAt' = p
        BY <1>2, <1>3, <2>1, <2>3, <2>4, StaysOpen
    <2>6. QED BY <2>1, <2>5
<1>8. ASSUME reader.at = "escape", b \in {"[", "O"}, reader' = [at |-> b, seq |-> Append(q, b)]
      PROVE  Stays
    <2>1. q = << >> /\ Append(<< >>, b) = <<b>>
        BY <1>1, <1>8 DEF SequenceOpen
    <2>2. SequenceOpen'
        <3>1. reader'.seq = <<b>> /\ reader'.at \in {"[", "O"} /\ reader'.at = b /\ Len(<<b>>) = 1 /\ <<b>>[1] = b
            BY <1>8, <2>1
        <3>2. \A k \in 2..Len(<<b>>) : FALSE
            OBVIOUS
        <3>3. CASE b = "["
            BY <3>1, <3>2, <3>3 DEF SequenceOpen
        <3>4. CASE b = "O"
            BY <3>1, <3>4 DEF SequenceOpen
        <3>5. QED BY <1>8, <3>3, <3>4
    <2> HIDE DEF q
    <2>3. reader' = [at |-> reader'.at, seq |-> Append(q, b)] /\ reader'.at \in {"[", "O"}
        BY <1>8
    <2>4. QED BY <1>7, <1>8, <2>2, <2>3
<1>9. ASSUME reader.at = "[", ~Final(b), reader' = [at |-> "[", seq |-> Append(q, b)] PROVE Stays
    <2>1. Len(q) >= 1 /\ q[1] = "[" /\ \A k \in 2..Len(q) : ~Final(q[k])
        BY <1>1, <1>9 DEF SequenceOpen
    <2>2. reader'.seq = Append(q, b) /\ reader'.at = "["
        BY <1>9
    <2>3. Len(Append(q, b)) >= 1 /\ Append(q, b)[1] = "["
        <3>1. 1 \in 1..Len(q) /\ Len(q) + 1 >= 1
            BY <1>4, <2>1
        <3>2. QED BY <1>5, <2>1, <3>1
    <2>4. \A k \in 2..Len(Append(q, b)) : ~Final(Append(q, b)[k])
        <3>1. \A k \in 2..Len(q) + 1 : (k \in 2..Len(q) /\ k \in 1..Len(q)) \/ k = Len(q) + 1
            BY <1>4, <2>1
        <3>2. QED BY <1>5, <1>9, <2>1, <3>1
    <2> HIDE DEF q
    <2>5. SequenceOpen'
        BY <2>2, <2>3, <2>4 DEF SequenceOpen
    <2>6. reader' = [at |-> reader'.at, seq |-> Append(q, b)] /\ reader'.at \in {"[", "O"}
        BY <1>9
    <2>7. QED BY <1>7, <1>9, <2>5, <2>6
<1> HIDE DEF p, q, Stays
<1>10. Stays
    BY <1>6, <1>8, <1>9 DEF b, q
<1> USE DEF p, q, Stays
<1>11. TtyTyped' /\ CursorInView'
    BY <1>1, <1>2, <1>4, <1>10 DEF TtyTyped, CursorInView
<1>12. ~dropped' => NothingMissed'
    <2>1. NothingMissed => NothingMissed'
        BY <1>2, <1>10 DEF NothingMissed
    <2>2. QED BY <1>1, <2>1
<1>13. QED BY <1>10, <1>11, <1>12 DEF TtyInv

\* What the reader makes of what was pending, when it is what that means.
LEMMA AnswersMissNothing ==
    ASSUME TtyInv, reader.at # "dead", reader' = Idle, NEW evs \in Seq(InputEvents), Push(evs),
           text' = text, cursor' = cursor, scroll' = scroll, painted' = painted,
           tty' \in Seq(KeyBytes), typed' \in Seq(InputBytes), Read' \in Nat,
           \A k \in 1..Len(tty') : typed'[Read' + k] = tty'[k],
           \A rest \in Seq(InputBytes) :
              /\ \E r \in Seq(InputBytes) : typed' \o rest = typed \o r
              /\ KeysFrom(typed' \o rest)[PendingAt] = evs \o KeysFrom(typed' \o rest)[Read' + 1]
    PROVE  TtyInv'
<1>1. TtyTyped /\ CursorInView /\ SequenceOpen /\ UnreadIsLast /\ (~dropped => NothingMissed)
    BY DEF TtyInv
<1>2. SequenceOpen' /\ UnreadIsLast' /\ PendingAt' = Read' + 1
    BY BackToIdle
<1>3. /\ keyQueue' \in Seq(InputEvents) /\ dropped' \in BOOLEAN
      /\ ~dropped' => ~dropped /\ keyQueue' = keyQueue \o evs
    BY <1>1, PushedEvents
<1>4. Field' = Field
    BY DEF Field
<1>5. reader' \in [at : {"idle", "escape", "[", "O", "dead"}, seq : Seq(KeyBytes)]
    <2>1. << >> \in Seq(KeyBytes)
        OBVIOUS
    <2>2. QED BY <2>1 DEF Idle
<1>6. TtyTyped' /\ CursorInView'
    BY <1>1, <1>3, <1>4, <1>5 DEF TtyTyped, CursorInView
<1>7. PendingAt' \in 1..Len(typed') + 1
    <2>1. Len(typed') \in Nat /\ Len(tty') \in Nat /\ Read' = Len(typed') - Len(tty')
        BY LenProperties DEF Read
    <2>2. Read' + 1 \in 1..Len(typed') + 1
        BY <2>1
    <2>3. QED BY <1>2, <2>2
<1>8. ASSUME ~dropped' PROVE NothingMissed'
    <2>1. NothingMissed /\ keyQueue' = keyQueue \o evs
        BY <1>1, <1>3, <1>8
    <2>2. QED BY <1>1, <1>2, <1>4, <1>7, <2>1, EventsMissNothing
<1>9. QED BY <1>2, <1>6, <1>8 DEF TtyInv

\* What is typed is where it was in whatever it becomes.
LEMMA PlacesStay ==
    ASSUME NEW t \in Seq(InputBytes), NEW rest \in Seq(InputBytes)
    PROVE  /\ t \o rest \in Seq(InputBytes) /\ Len(t) \in Nat /\ Len(rest) \in Nat
           /\ Len(t \o rest) = Len(t) + Len(rest)
           /\ \A k \in 1..Len(t) : k \in 1..Len(t \o rest) /\ (t \o rest)[k] = t[k]
    BY ConcatPlaces

LEMMA PlainMissesNothing ==
    ASSUME TtyInv, ReadByte, reader.at = "idle", Head(tty) # "ESC", reader' = reader,
           Push(<<PlainKey(Head(tty))>>)
    PROVE  TtyInv'
<1> DEFINE b == Head(tty)
           evs == <<PlainKey(b)>>
<1>1. TtyTyped /\ UnreadIsLast
    BY DEF TtyInv
<1>2. /\ b \in KeyBytes /\ tty' \in Seq(KeyBytes)
      /\ typed' = typed /\ typed \in Seq(InputBytes) /\ Field' = Field
      /\ cursor' = cursor /\ scroll' = scroll /\ painted' = painted
      /\ Read' = Read + 1 /\ Read + 1 \in 1..Len(typed) /\ typed[Read + 1] = b
      /\ \A k \in 1..Len(tty') : typed'[Read' + k] = tty'[k]
    BY <1>1, TakesTheNextByte
<1>3. Read \in Nat /\ PendingAt = Read + 1 /\ Read' \in Nat
    BY <1>1, <1>2, ReadIs
<1>4. evs \in Seq(InputEvents)
    <2>1. b \in InputBytes
        BY <1>2 DEF InputBytes
    <2>2. PlainKey(b) \in InputEvents
        BY <2>1, PlainKeyType
    <2> HIDE DEF b
    <2>3. QED BY <2>2
<1>5. ASSUME NEW rest \in Seq(InputBytes)
      PROVE  /\ \E r \in Seq(InputBytes) : typed' \o rest = typed \o r
             /\ KeysFrom(typed' \o rest)[PendingAt] = evs \o KeysFrom(typed' \o rest)[Read' + 1]
    <2> DEFINE s == typed' \o rest
    <2>1. /\ s \in Seq(InputBytes) /\ s = typed \o rest
          /\ Read + 1 \in 1..Len(s) /\ s[Read + 1] = b
        BY <1>2, PlacesStay
    <2> HIDE DEF s
    <2>2. KeysFrom(s)[Read + 1] = <<PlainKey(s[Read + 1])>> \o KeysFrom(s)[Read + 1 + 1]
        BY <2>1, KeysFromIs
    <2>3. KeysFrom(s)[PendingAt] = evs \o KeysFrom(s)[Read' + 1]
        BY <1>2, <1>3, <2>1, <2>2
    <2>4. QED BY <2>1, <2>3 DEF s
<1>6. reader' = Idle
    <2>1. reader \in [at : {"idle", "escape", "[", "O", "dead"}, seq : Seq(KeyBytes)]
        BY <1>1 DEF TtyTyped
    <2>2. reader.at = "idle" /\ reader.seq = << >>
        BY DEF TtyInv, SequenceOpen
    <2>3. QED BY <2>1, <2>2 DEF Idle
<1>7. text' = text
    BY DEF ReadByte
<1>8. typed' \in Seq(InputBytes)
    BY <1>2
<1> HIDE DEF evs, b
<1>9. Push(evs)
    BY DEF evs, b
<1>10. QED BY <1>2, <1>3, <1>4, <1>5, <1>6, <1>7, <1>8, <1>9, AnswersMissNothing

\* A byte that ends the sequence.
LEMMA EndOfSequenceMissesNothing ==
    ASSUME TtyInv, ReadByte, reader.at \in {"escape", "[", "O"},
           reader.at = "escape" => Head(tty) \notin {"[", "O"},
           reader.at = "[" => Final(Head(tty)),
           Sequence(Append(reader.seq, Head(tty)))
    PROVE  TtyInv'
<1> DEFINE b == Head(tty)
           q == reader.seq
           p == PendingAt
           seq == Append(q, b)
           e == Read + 1
<1>1. TtyTyped /\ CursorInView /\ SequenceOpen /\ UnreadIsLast
    BY DEF TtyInv
<1>2. /\ b \in KeyBytes /\ tty' \in Seq(KeyBytes)
      /\ typed' = typed /\ typed \in Seq(InputBytes) /\ Field' = Field
      /\ cursor' = cursor /\ scroll' = scroll /\ painted' = painted
      /\ Read' = e /\ e \in 1..Len(typed) /\ typed[e] = b
      /\ \A k \in 1..Len(tty') : typed'[Read' + k] = tty'[k]
    BY <1>1, TakesTheNextByte
<1>3. q \in Seq(KeyBytes) /\ keyQueue \in Seq(InputEvents) /\ dropped \in BOOLEAN
    BY <1>1 DEF TtyTyped
<1>4. /\ seq \in Seq(KeyBytes) /\ Len(seq) = Len(q) + 1 /\ Len(q) \in Nat
      /\ \A k \in 1..Len(q) : seq[k] = q[k]
      /\ seq[Len(q) + 1] = b
    BY <1>2, <1>3, AppendPlaces
<1>5. /\ p \in 1..Read /\ Read = p + Len(q) /\ typed[p] = "ESC"
      /\ \A k \in 1..Len(q) : typed[p + k] = q[k]
    BY <1>1, OpenAt DEF Read
<1>6. Read \in Nat
    BY <1>1, ReadIs
<1>7. /\ reader.at = "escape" => Len(q) = 0
      /\ reader.at = "O" => Len(q) = 1 /\ q[1] = "O"
      /\ reader.at = "[" => Len(q) >= 1 /\ q[1] = "["
    <2>1. Len(<< >>) = 0 /\ Len(<<"O">>) = 1 /\ <<"O">>[1] = "O"
        OBVIOUS
    <2>2. /\ reader.at = "escape" => q = << >>
          /\ reader.at = "O" => q = <<"O">>
          /\ reader.at = "[" => Len(q) >= 1 /\ q[1] = "["
        BY <1>1 DEF SequenceOpen
    <2> HIDE DEF q
    <2>3. QED BY <2>1, <2>2
<1> HIDE DEF b, q, p, seq, e
<1>8. (reader.at = "escape" /\ b \notin {"[", "O"}) \/ reader.at = "O" \/ (reader.at = "[" /\ Final(b))
    BY DEF b
<1>9. seq # << >> /\ Head(seq) = "O" => Len(seq) <= 2
    <2>1. Head(seq) = seq[1] /\ Len(seq) >= 1
        BY <1>4
    <2>2. CASE reader.at = "["
        <3>1. 1 \in 1..Len(q)
            BY <1>4, <1>7, <2>2
        <3>2. seq[1] = "["
            BY <1>4, <1>7, <2>2, <3>1
        <3>3. QED BY <2>1, <3>2
    <2>3. CASE reader.at # "["
        <3>1. Len(q) = 0 \/ Len(q) = 1
            BY <1>7, <1>8, <2>3
        <3>2. Len(seq) <= 2
            BY <1>4, <3>1
        <3>3. QED BY <3>2
    <2>4. QED BY <2>2, <2>3
<1>10. DecodeEscape(seq) = Meaning(seq) /\ DecodeEscape(seq) \in Seq(InputEvents)
    BY <1>4, <1>9, DecodesTheMeaning
<1>11. ASSUME NEW rest \in Seq(InputBytes)
       PROVE  /\ \E r \in Seq(InputBytes) : typed' \o rest = typed \o r
              /\ KeysFrom(typed' \o rest)[p] = DecodeEscape(seq) \o KeysFrom(typed' \o rest)[Read' + 1]
    <2> DEFINE s == typed' \o rest
    <2>1. /\ s \in Seq(InputBytes) /\ s = typed \o rest /\ Len(typed) <= Len(s)
          /\ \A k \in 1..Len(typed) : k \in 1..Len(s) /\ s[k] = typed[k]
        BY <1>2, PlacesStay
    <2> HIDE DEF s
    <2>2. p \in 1..Len(typed) /\ e \in p + 1..Len(typed) /\ e \in 1..Len(typed) /\ e = p + (Len(q) + 1)
        BY <1>2, <1>4, <1>5, <1>6 DEF e
    <2>3. p \in 1..Len(s) /\ s[p] = "ESC" /\ s[e] = b /\ b # "pause"
        BY <1>2, <1>5, <2>1, <2>2, KeyInputAssumption
    <2>4. e \in p + 1..Len(s)
        <3>1. e \in 1..Len(s) /\ e >= p + 1 /\ p \in Int
            BY <2>1, <2>2
        <3>2. Len(s) \in Nat
            BY <2>1, LenProperties
        <3>3. QED BY <3>1, <3>2
    <2>5. \A k \in 1..Len(seq) : seq[k] = s[p + k]
        <3>1. \A k \in 1..Len(q) + 1 : k \in 1..Len(q) \/ k = Len(q) + 1
            BY <1>4
        <3>2. \A k \in 1..Len(q) : p + k \in 1..Len(typed)
            BY <1>4, <2>2
        <3>3. QED BY <1>4, <1>5, <2>1, <2>2, <2>3, <3>1, <3>2
    <2>6. EndsAt(s, p, e)
        <3>1. CASE reader.at = "escape" /\ b \notin {"[", "O"}
            <4>1. e = p + 1
                BY <1>7, <2>2, <3>1
            <4>2. QED BY <2>3, <3>1, <4>1 DEF EndsAt
        <3>2. CASE reader.at = "O"
            <4>5. Len(q) = 1
                BY <1>7, <3>2
            <4>1. e = p + 2
                BY <2>2, <4>5
            <4>2. 1 \in 1..Len(q) /\ p + 1 \in 1..Len(typed)
                BY <2>2, <4>1, <4>5
            <4>3. s[p + 1] = "O"
                BY <1>5, <1>7, <2>1, <3>2, <4>2
            <4>4. QED BY <4>1, <4>3 DEF EndsAt
        <3>3. CASE reader.at = "[" /\ Final(b)
            <4>1. e > p + 1
                BY <1>4, <1>7, <2>2, <3>3
            <4>2. QED BY <2>3, <3>3, <4>1 DEF EndsAt
        <3>4. QED BY <1>8, <3>1, <3>2, <3>3
    <2>7. \A j \in p + 1..e - 1 : ~EndsAt(s, p, j)
        <3>1. \A j \in PendingAt + 1..Len(typed) - Len(tty) : ~EndsAt(s, PendingAt, j)
            BY <1>1, <2>1, OpenHasNoEnd
        <3>2. Len(typed) - Len(tty) = e - 1
            BY <1>6 DEF Read, e
        <3>3. QED BY <3>1, <3>2 DEF p
    <2>8. Len(seq) = IF s[e] = "pause" THEN e - p - 1 ELSE e - p
        BY <1>4, <2>2, <2>3
    <2>9. seq \in Seq(InputBytes)
        BY <1>4 DEF InputBytes
    <2>10. KeysFrom(s)[p] = Meaning(seq) \o KeysFrom(s)[e + 1]
        <3>1. s \in Seq(InputBytes)
            BY <2>1
        <3>2. p \in 1..Len(s)
            BY <2>3
        <3>3. s[p] = "ESC"
            BY <2>3
        <3>4. QED BY <2>4, <2>5, <2>6, <2>7, <2>8, <2>9, <3>1, <3>2, <3>3, SequenceMeans
    <2>11. KeysFrom(s)[p] = DecodeEscape(seq) \o KeysFrom(s)[Read' + 1]
        BY <1>2, <1>10, <2>10
    <2>12. QED BY <2>1, <2>11 DEF s
<1>12. text' = text
    BY DEF ReadByte
<1>13. Sequence(seq)
    BY DEF seq, q, b
<1>14. CASE Raises(seq)
    <2>1. reader' = [at |-> "dead", seq |-> seq] /\ keyQueue' = keyQueue /\ dropped' = dropped
        BY <1>13, <1>14 DEF Sequence
    <2>2. TtyTyped' /\ CursorInView' /\ reader'.at = "dead"
        BY <1>1, <1>2, <1>3, <1>4, <2>1 DEF TtyTyped, CursorInView
    <2>3. QED BY <2>2 DEF TtyInv
<1>15. CASE ~Raises(seq)
    <2>1. reader' = Idle /\ Push(DecodeEscape(seq))
        BY <1>13, <1>15 DEF Sequence
    <2>2. typed' \in Seq(InputBytes) /\ reader.at # "dead" /\ Read' \in Nat
        BY <1>2, <1>6 DEF e
    <2> DEFINE evs == DecodeEscape(seq)
    <2>3. evs \in Seq(InputEvents) /\ Push(evs)
        BY <1>10, <2>1
    <2>4. \A rest \in Seq(InputBytes) :
             /\ \E r \in Seq(InputBytes) : typed' \o rest = typed \o r
             /\ KeysFrom(typed' \o rest)[PendingAt] = evs \o KeysFrom(typed' \o rest)[Read' + 1]
        BY <1>11 DEF p
    <2> HIDE DEF evs
    <2>5. QED BY <1>2, <1>12, <2>1, <2>2, <2>3, <2>4, AnswersMissNothing
<1>16. QED BY <1>14, <1>15

LEMMA ReadByteMissesNothing == ASSUME TtyInv, ReadByte PROVE TtyInv'
<1> DEFINE b == Head(tty)
           seq == Append(reader.seq, b)
<1>1. reader.at \in {"idle", "escape", "[", "O"}
    BY DEF TtyInv, TtyTyped, ReadByte
<1>2. CASE reader.at = "idle" /\ b = "ESC"
    <2>1. reader' = [at |-> "escape", seq |-> << >>] /\ keyQueue' = keyQueue /\ dropped' = dropped
        BY <1>2 DEF ReadByte
    <2>2. QED BY <1>2, <2>1, GoesOnMissesNothing
<1>3. CASE reader.at = "idle" /\ b # "ESC"
    <2>1. reader' = reader /\ Push(<<PlainKey(b)>>)
        BY <1>3 DEF ReadByte
    <2>2. QED BY <1>3, <2>1, PlainMissesNothing
<1>4. CASE reader.at = "escape" /\ b \in {"[", "O"}
    <2>1. reader' = [at |-> b, seq |-> seq] /\ keyQueue' = keyQueue /\ dropped' = dropped
        BY <1>4 DEF ReadByte
    <2>2. QED BY <1>4, <2>1, GoesOnMissesNothing
<1>5. CASE reader.at = "[" /\ ~Final(b)
    <2>1. reader' = [at |-> "[", seq |-> seq] /\ keyQueue' = keyQueue /\ dropped' = dropped
        BY <1>5 DEF ReadByte
    <2>2. QED BY <1>5, <2>1, GoesOnMissesNothing
<1>6. CASE /\ ~(reader.at = "idle") /\ ~(reader.at = "escape" /\ b \in {"[", "O"})
           /\ ~(reader.at = "[" /\ ~Final(b))
    <2>1. Sequence(seq)
        BY <1>6 DEF ReadByte
    <2>2. QED BY <1>1, <1>6, <2>1, EndOfSequenceMissesNothing
<1>7. QED BY <1>2, <1>3, <1>4, <1>5, <1>6

\* A pause ends the sequence too.
LEMMA ReadTimeoutMissesNothing == ASSUME TtyInv, ReadTimeout PROVE TtyInv'
<1> DEFINE q == reader.seq
           p == PendingAt
           e == Len(typed) + 1
<1>1. TtyTyped /\ CursorInView /\ SequenceOpen /\ UnreadIsLast
    BY DEF TtyInv, ReadTimeout
<1>2. /\ tty = << >> /\ tty' = tty /\ typed' = Append(typed, "pause") /\ Sequence(q)
      /\ reader.at \in {"escape", "[", "O"}
      /\ text' = text /\ cursor' = cursor /\ scroll' = scroll /\ painted' = painted
    BY DEF ReadTimeout
<1>3. /\ q \in Seq(KeyBytes) /\ Len(q) \in Nat /\ typed \in Seq(InputBytes) /\ "pause" \in InputBytes
      /\ keyQueue \in Seq(InputEvents) /\ dropped \in BOOLEAN /\ tty' \in Seq(KeyBytes) /\ Len(tty) = 0
    BY <1>1, <1>2, LenProperties DEF TtyTyped, InputBytes
<1>4. /\ typed' \in Seq(InputBytes) /\ Len(typed') = e /\ Len(typed) \in Nat
      /\ \A k \in 1..Len(typed) : typed'[k] = typed[k]
      /\ typed'[e] = "pause"
    BY <1>2, <1>3, AppendPlaces
<1>5. /\ p \in 1..Len(typed) /\ Len(typed) = p + Len(q) /\ typed[p] = "ESC"
      /\ \A k \in 1..Len(q) : typed[p + k] = q[k]
    <2>1. Len(typed) - Len(tty) = Len(typed)
        BY <1>3, <1>4
    <2>2. /\ p \in 1..Len(typed) - Len(tty) /\ Len(typed) - Len(tty) = p + Len(q) /\ typed[p] = "ESC"
          /\ \A k \in 1..Len(q) : typed[p + k] = q[k]
        BY <1>1, <1>2, OpenAt
    <2>3. QED BY <2>1, <2>2
<1>6. Field' = Field
    BY <1>2 DEF Field
<1>7. Read' = e /\ Read' \in Nat /\ \A k \in 1..Len(tty') : typed'[Read' + k] = tty'[k]
    <2>1. Read' = e - 0
        BY <1>2, <1>3, <1>4 DEF Read
    <2>2. e - 0 = e /\ e \in Nat /\ \A k \in 1..0 : FALSE
        BY <1>4
    <2> HIDE DEF e
    <2>3. QED BY <1>2, <1>3, <2>1, <2>2
<1>8. q # << >> /\ Head(q) = "O" => Len(q) <= 2
    <2>1. CASE reader.at = "escape"
        BY <1>1, <2>1 DEF SequenceOpen
    <2>2. CASE reader.at = "O"
        <3>1. q = <<"O">> /\ Len(<<"O">>) = 1
            BY <1>1, <2>2 DEF SequenceOpen
        <3>2. QED BY <3>1
    <2>3. CASE reader.at = "["
        <3>1. q[1] = "["
            BY <1>1, <2>3 DEF SequenceOpen
        <3>2. QED BY <1>3, <3>1
    <2>4. QED BY <1>2, <2>1, <2>2, <2>3
<1>9. DecodeEscape(q) = Meaning(q) /\ DecodeEscape(q) \in Seq(InputEvents)
    BY <1>3, <1>8, DecodesTheMeaning
<1> HIDE DEF q, p, e
<1>10. ASSUME NEW rest \in Seq(InputBytes)
       PROVE  /\ \E r \in Seq(InputBytes) : typed' \o rest = typed \o r
              /\ KeysFrom(typed' \o rest)[p] = DecodeEscape(q) \o KeysFrom(typed' \o rest)[Read' + 1]
    <2> DEFINE s == typed' \o rest
    <2>1. \E r \in Seq(InputBytes) : s = typed \o r
        <3>1. <<"pause">> \in Seq(InputBytes) /\ typed' = typed \o <<"pause">>
            BY <1>2, <1>3
        <3>2. /\ (typed \o <<"pause">>) \o rest = typed \o (<<"pause">> \o rest)
              /\ <<"pause">> \o rest \in Seq(InputBytes)
            BY <1>3, <3>1, BytesRegrouped
        <3>3. QED BY <3>1, <3>2
    <2>2. /\ s \in Seq(InputBytes) /\ Len(s) \in Nat
          /\ \A k \in 1..Len(typed') : k \in 1..Len(s) /\ s[k] = typed'[k]
        <3>1. s \in Seq(InputBytes) /\ \A k \in 1..Len(typed') : k \in 1..Len(s) /\ s[k] = typed'[k]
            BY <1>4, PlacesStay
        <3> HIDE DEF s
        <3>2. QED BY <3>1, LenProperties
    <2> HIDE DEF s
    <2>3. /\ e \in 1..Len(s) /\ s[e] = "pause"
          /\ \A k \in 1..Len(typed) : k \in 1..Len(s) /\ s[k] = typed[k]
        <3>1. e \in 1..Len(typed') /\ \A k \in 1..Len(typed) : k \in 1..Len(typed')
            BY <1>4 DEF e
        <3>2. QED BY <1>4, <2>2, <3>1
    <2>4. p \in 1..Len(s) /\ s[p] = "ESC" /\ e = p + Len(q) + 1
        BY <1>5, <2>3 DEF e
    <2>5. e \in p + 1..Len(s)
        BY <1>3, <2>2, <2>3, <2>4 DEF q
    <2>6. \A k \in 1..Len(q) : q[k] = s[p + k]
        <3>1. \A k \in 1..Len(q) : p + k \in 1..Len(typed)
            BY <1>3, <1>4, <1>5
        <3>2. QED BY <1>5, <2>3, <3>1
    <2>7. EndsAt(s, p, e)
        BY <2>3 DEF EndsAt
    <2>8. \A j \in p + 1..e - 1 : ~EndsAt(s, p, j)
        <3>1. \A j \in PendingAt + 1..Len(typed) - Len(tty) : ~EndsAt(s, PendingAt, j)
            BY <1>1, <1>2, <2>3, OpenHasNoEnd
        <3>2. Len(typed) - Len(tty) = e - 1
            BY <1>3, <1>4 DEF e
        <3>3. QED BY <3>1, <3>2 DEF p
    <2>9. Len(q) = IF s[e] = "pause" THEN e - p - 1 ELSE e - p
        <3>1. Len(q) = e - p - 1
            BY <1>3, <1>5, <2>4, SMTT(30) DEF q
        <3>2. QED BY <2>3, <3>1
    <2>10. q \in Seq(InputBytes)
        BY <1>3 DEF InputBytes
    <2>11. KeysFrom(s)[p] = Meaning(q) \o KeysFrom(s)[e + 1]
        <3>1. s \in Seq(InputBytes)
            BY <2>2
        <3>2. p \in 1..Len(s)
            BY <2>4
        <3>3. s[p] = "ESC"
            BY <2>4
        <3>4. QED BY <2>5, <2>6, <2>7, <2>8, <2>9, <2>10, <3>1, <3>2, <3>3, SequenceMeans
    <2>12. KeysFrom(s)[p] = DecodeEscape(q) \o KeysFrom(s)[Read' + 1]
        BY <1>7, <1>9, <2>11
    <2>13. QED BY <2>1, <2>12 DEF s
<1>11. CASE Raises(q)
    <2>1. reader' = [at |-> "dead", seq |-> q] /\ keyQueue' = keyQueue /\ dropped' = dropped
        BY <1>2, <1>11 DEF Sequence
    <2>2. TtyTyped' /\ CursorInView' /\ reader'.at = "dead"
        BY <1>1, <1>2, <1>3, <1>4, <1>6, <2>1 DEF TtyTyped, CursorInView
    <2>3. QED BY <2>2 DEF TtyInv
<1>12. CASE ~Raises(q)
    <2>1. reader' = Idle /\ Push(DecodeEscape(q))
        BY <1>2, <1>12 DEF Sequence
    <2>2. reader.at # "dead"
        BY <1>2
    <2> DEFINE evs == DecodeEscape(q)
    <2>3. evs \in Seq(InputEvents) /\ Push(evs)
        BY <1>9, <2>1
    <2>4. \A rest \in Seq(InputBytes) :
             /\ \E r \in Seq(InputBytes) : typed' \o rest = typed \o r
             /\ KeysFrom(typed' \o rest)[PendingAt] = evs \o KeysFrom(typed' \o rest)[Read' + 1]
        BY <1>10 DEF p
    <2> HIDE DEF evs
    <2>5. QED BY <1>2, <1>3, <1>4, <1>7, <2>1, <2>2, <2>3, <2>4, AnswersMissNothing
<1>13. QED BY <1>11, <1>12

LEMMA TickMissesNothing == ASSUME TtyInv, Tick PROVE TtyInv'
<1> DEFINE f == Edited(Field, keyQueue)
<1>1. /\ TtyTyped /\ CursorInView
      /\ keyQueue' = << >> /\ text' = f.text /\ cursor' = f.cursor /\ painted' = FALSE
      /\ tty' = tty /\ reader' = reader /\ dropped' = dropped /\ typed' = typed /\ scroll' = scroll
    BY DEF TtyInv, Tick
<1>2. Field \in Fields /\ keyQueue \in Seq(InputEvents) /\ dropped \in BOOLEAN
    BY <1>1 DEF TtyTyped
<1>3. f \in Fields
    BY <1>2, EditedType
<1> HIDE DEF f
<1>4. Field' = f
    <2>1. f = [text |-> f.text, cursor |-> f.cursor]
        BY <1>3 DEF Fields
    <2>2. QED BY <1>1, <2>1 DEF Field
<1>5. TtyTyped' /\ CursorInView'
    <2>1. << >> \in Seq(InputEvents)
        OBVIOUS
    <2>2. QED BY <1>1, <1>3, <1>4, <2>1 DEF TtyTyped, CursorInView
<1>6. ASSUME reader.at # "dead"
      PROVE  SequenceOpen' /\ UnreadIsLast' /\ (~dropped' => NothingMissed')
    <2>1. SequenceOpen /\ UnreadIsLast /\ (~dropped => NothingMissed)
        BY <1>6 DEF TtyInv
    <2>2. Pending' = Pending /\ PendingAt' = PendingAt
        BY <1>1 DEF Pending, PendingAt
    <2>3. SequenceOpen' /\ UnreadIsLast'
        BY <1>1, <2>1, <2>2 DEF SequenceOpen, UnreadIsLast
    <2>4. ASSUME ~dropped PROVE NothingMissed'
        <3> SUFFICES ASSUME NEW rest \in Seq(InputBytes)
                     PROVE  Edited(EmptyField, KeysFrom(typed' \o rest)[1])
                              = Edited(Field', keyQueue' \o KeysFrom(typed' \o rest)[PendingAt'])
            BY DEF NothingMissed
        <3> DEFINE left == KeysFrom(typed \o rest)[PendingAt]
        <3>1. Edited(EmptyField, KeysFrom(typed \o rest)[1]) = Edited(Field, keyQueue \o left)
            BY <2>1, <2>4 DEF NothingMissed
        <3>2. left \in Seq(InputEvents)
            <4>1. typed \in Seq(InputBytes)
                BY <1>1 DEF TtyTyped
            <4>2. /\ typed \o rest \in Seq(InputBytes) /\ Len(typed) \in Nat /\ Len(rest) \in Nat
                  /\ Len(typed \o rest) = Len(typed) + Len(rest)
                BY <4>1, PlacesStay
            <4>3. KeysFrom(typed \o rest) \in [1..Len(typed \o rest) + 1 -> Seq(InputEvents)]
                BY <4>2, KeysFromIs
            <4>4. Read \in Nat /\ Len(tty) \in Nat /\ PendingAt \in 1..Read + 1 /\ Read = Len(typed) - Len(tty)
                BY <1>1, <2>1, ReadIs DEF Read
            <4>5. PendingAt \in 1..Len(typed) + Len(rest) + 1
                BY <4>2, <4>4
            <4>6. PendingAt \in 1..Len(typed \o rest) + 1
                BY <4>2, <4>5
            <4>7. QED BY <4>3, <4>6
        <3> HIDE DEF left
        <3>3. Edited(Field, keyQueue \o left) = Edited(f, left)
            BY <1>2, <3>2, EditedInBatches DEF f
        <3>4. << >> \o left = left
            BY <3>2
        <3>5. QED BY <1>1, <1>4, <2>2, <3>1, <3>3, <3>4 DEF left
    <2>5. QED BY <1>1, <2>3, <2>4
<1>7. QED BY <1>1, <1>5, <1>6 DEF TtyInv

\* What leaves the reader, the queue and the text alone leaves nothing out.
LEMMA QuietMissesNothing ==
    ASSUME TtyInv, UNCHANGED <<tty, reader, keyQueue, dropped, typed, text, cursor>>,
           scroll' \in Nat, CursorInView'
    PROVE  TtyInv'
<1>1. /\ tty' = tty /\ reader' = reader /\ keyQueue' = keyQueue /\ dropped' = dropped
      /\ typed' = typed /\ Field' = Field
    BY DEF Field
<1>2. TtyTyped'
    BY <1>1 DEF TtyInv, TtyTyped
<1>3. Pending' = Pending /\ PendingAt' = PendingAt
    BY <1>1 DEF Pending, PendingAt
<1>4. (SequenceOpen => SequenceOpen') /\ (UnreadIsLast => UnreadIsLast') /\ (NothingMissed => NothingMissed')
    BY <1>1, <1>3 DEF SequenceOpen, UnreadIsLast, NothingMissed
<1>5. QED BY <1>1, <1>2, <1>4 DEF TtyInv

LEMMA PaintMissesNothing == ASSUME TtyInv, Paint PROVE TtyInv'
<1>1. cursor \in Nat /\ scroll \in Nat /\ cursor' = cursor
    BY DEF TtyInv, TtyTyped, Fields, Field, Paint
<1>2. scroll' \in Nat /\ cursor \in scroll'..scroll' + VisibleCols - 1
    BY <1>1, KeyInputAssumption DEF Paint, EnsureCursorVisible
<1>3. CursorInView'
    BY <1>1, <1>2 DEF CursorInView
<1>4. QED BY <1>2, <1>3, QuietMissesNothing DEF Paint

LEMMA TtyStart == TtyInit => TtyInv
<1> SUFFICES ASSUME TtyInit PROVE TtyInv
    OBVIOUS
<1>1. /\ tty = << >> /\ reader = Idle /\ keyQueue = << >> /\ dropped = FALSE /\ typed = << >>
      /\ Field = EmptyField /\ cursor = 0 /\ scroll = 0
    BY DEF TtyInit, Field, EmptyField
<1>2. TtyTyped /\ CursorInView
    <2>1. /\ << >> \in Seq(KeyBytes) /\ << >> \in Seq(InputBytes) /\ << >> \in Seq(InputEvents)
          /\ 0 \in Nat /\ 0 \in 0..0 + VisibleCols - 1
        BY KeyInputAssumption
    <2>2. Idle \in [at : {"idle", "escape", "[", "O", "dead"}, seq : Seq(KeyBytes)]
        BY <2>1 DEF Idle
    <2>3. QED BY <1>1, <2>1, <2>2, EmptyFieldIsField DEF TtyTyped, CursorInView
<1>3. SequenceOpen /\ UnreadIsLast /\ PendingAt = 1
    <2>1. reader.at = "idle" /\ reader.seq = << >>
        BY <1>1 DEF Idle
    <2>2. Pending = << >> /\ Len(<< >>) = 0
        BY <2>1 DEF Pending
    <2>3. PendingAt = 0 - 0 - 0 + 1
        BY <1>1, <2>2 DEF PendingAt
    <2>4. PendingAt = 1
        BY <2>3
    <2>5. \A k \in 1..0 : FALSE
        OBVIOUS
    <2>6. UnreadIsLast
        BY <1>1, <2>2, <2>4, <2>5 DEF UnreadIsLast
    <2>7. QED BY <2>1, <2>4, <2>6 DEF SequenceOpen
<1>4. NothingMissed
    <2> SUFFICES ASSUME NEW rest \in Seq(InputBytes)
                 PROVE  Edited(EmptyField, KeysFrom(typed \o rest)[1])
                          = Edited(Field, keyQueue \o KeysFrom(typed \o rest)[PendingAt])
        BY DEF NothingMissed
    <2> DEFINE all == KeysFrom(typed \o rest)[1]
    <2>1. all \in Seq(InputEvents)
        <3>1. typed \o rest = rest
            BY <1>1
        <3>2. KeysFrom(rest) \in [1..Len(rest) + 1 -> Seq(InputEvents)] /\ 1 \in 1..Len(rest) + 1
            BY KeysFromIs, LenProperties
        <3>3. QED BY <3>1, <3>2
    <2> HIDE DEF all
    <2>2. << >> \o all = all
        BY <2>1
    <2>3. QED BY <1>1, <1>3, <2>2 DEF all
<1>5. QED BY <1>2, <1>3, <1>4 DEF TtyInv

LEMMA TtyStep == TtyInv /\ [TtyNext]_ttyVars => TtyInv'
<1> SUFFICES ASSUME TtyInv, [TtyNext]_ttyVars PROVE TtyInv'
    OBVIOUS
<1>1. ASSUME NEW b \in KeyBytes, TypeByte(b) PROVE TtyInv'
    BY <1>1, TypeByteMissesNothing
<1>2. CASE ReadByte
    BY <1>2, ReadByteMissesNothing
<1>3. CASE ReadTimeout
    BY <1>3, ReadTimeoutMissesNothing
<1>4. CASE Tick
    BY <1>4, TickMissesNothing
<1>5. CASE Paint
    BY <1>5, PaintMissesNothing
<1>6. CASE UNCHANGED ttyVars
    <2>1. UNCHANGED <<tty, reader, keyQueue, dropped, typed, text, cursor>> /\ scroll' = scroll /\ painted' = painted
          /\ cursor' = cursor
        BY <1>6 DEF ttyVars
    <2>2. scroll' \in Nat /\ CursorInView'
        BY <2>1 DEF TtyInv, TtyTyped, CursorInView
    <2>3. QED BY <2>1, <2>2, QuietMissesNothing
<1>7. QED BY <1>1, <1>2, <1>3, <1>4, <1>5, <1>6 DEF TtyNext

\* Whatever is typed, in whatever batches it is read and drained: the text field
\* holds it and shows its cursor, unless the queue overflowed or the reader died.
THEOREM TextIsAlwaysTyped == TtySpec => [](TextIsTyped /\ CursorInView)
<1>1. TtyInv => TextIsTyped /\ CursorInView
    BY ReadIsTyped DEF TtyInv
<1>2. QED BY <1>1, TtyStart, TtyStep, PTL DEF TtySpec

-----------------------------------------------------------------------------
(* The evdev keyboard *)

\* The modifiers are those of the keys: of the shift keys while never both were down.
EvdevInv ==
    /\ bothHeld \in BOOLEAN /\ capsLock = locked /\ locked \in BOOLEAN /\ shift \in BOOLEAN
    /\ Shifts \subseteq held => bothHeld
    /\ ~bothHeld => shift = (held \cap Shifts # {}) /\ char = wanted

LEMMA EvdevStart == EvdevInit => EvdevInv
    BY DEF EvdevInit, EvdevInv, Shifts

LEMMA KeyMovesInStep ==
    ASSUME EvdevInv, NEW k, NEW value \in 0..2, KeyMoves(k, value) PROVE EvdevInv'
<1>1. /\ bothHeld \in BOOLEAN /\ capsLock = locked /\ locked \in BOOLEAN /\ shift \in BOOLEAN
      /\ Shifts \subseteq held => bothHeld
      /\ ~bothHeld => shift = (held \cap Shifts # {}) /\ char = wanted
    BY DEF EvdevInv
<1>2. /\ IF value = 1 THEN k \notin held ELSE k \in held
      /\ held' = IF value = 0 THEN held \ {k} ELSE held \cup {k}
      /\ locked' = (locked # (k = "caps" /\ value = 1))
      /\ bothHeld' = (bothHeld \/ Shifts \subseteq held')
      /\ wanted' = IF k \in CharacterKeys /\ value # 0
                   THEN Character(k, held \cap Shifts # {}, locked) ELSE ""
      /\ shift' = IF k \in Shifts THEN value # 0 ELSE shift
      /\ capsLock' = IF k = "caps" /\ value = 1 THEN ~capsLock ELSE capsLock
      /\ char' = IF k \in CharacterKeys /\ value # 0 THEN Character(k, shift, capsLock) ELSE ""
    BY DEF KeyMoves, DispatchKey
<1>3. bothHeld' \in BOOLEAN /\ capsLock' = locked' /\ locked' \in BOOLEAN /\ shift' \in BOOLEAN
    BY <1>1, <1>2
<1>4. Shifts \subseteq held' => bothHeld'
    BY <1>2
<1>5. ASSUME ~bothHeld' PROVE char' = wanted'
    BY <1>1, <1>2, <1>5
<1>6. ASSUME ~bothHeld' PROVE shift' = (held' \cap Shifts # {})
    <2>1. ~bothHeld /\ ~(Shifts \subseteq held')
        BY <1>2, <1>6
    <2>2. CASE k \in Shifts /\ value = 0
        <3>1. held' = held \ {k} /\ shift' = FALSE
            BY <1>2, <2>2
        <3>2. ~(Shifts \subseteq held) /\ k \in held
            <4>1. ~(Shifts \subseteq held)
                BY <1>1, <2>1
            <4>2. IF value = 1 THEN k \notin held ELSE k \in held
                BY <1>2
            <4>3. QED BY <2>2, <4>1, <4>2
        <3>3. held' \cap Shifts = {}
            BY <2>2, <3>1, <3>2 DEF Shifts
        <3>4. QED BY <3>1, <3>3
    <2>3. CASE k \in Shifts /\ value # 0
        <3>1. k \in held' \cap Shifts /\ shift' = TRUE
            BY <1>2, <2>3
        <3>2. QED BY <3>1
    <2>4. CASE k \notin Shifts
        <3>1. held' \cap Shifts = held \cap Shifts /\ shift' = shift
            BY <1>2, <2>4
        <3>2. QED BY <1>1, <2>1, <3>1
    <2>5. QED BY <2>2, <2>3, <2>4
<1>7. QED BY <1>3, <1>4, <1>5, <1>6 DEF EvdevInv

\* A key sends the character of the keys that are held, while never both shift keys were.
THEOREM CharactersAlwaysMatch == EvdevSpec => []CharactersMatchKeys
<1>1. EvdevInv /\ [EvdevNext]_evdevVars => EvdevInv'
    <2> SUFFICES ASSUME EvdevInv, [EvdevNext]_evdevVars PROVE EvdevInv'
        OBVIOUS
    <2>1. ASSUME NEW k \in KeyCodes, NEW value \in 0..2, KeyMoves(k, value) PROVE EvdevInv'
        BY <2>1, KeyMovesInStep
    <2>2. CASE UNCHANGED evdevVars
        BY <2>2 DEF evdevVars, EvdevInv
    <2>3. QED BY <2>1, <2>2 DEF EvdevNext
<1>2. EvdevInv => CharactersMatchKeys
    BY DEF EvdevInv, CharactersMatchKeys
<1>3. QED BY <1>1, <1>2, EvdevStart, PTL DEF EvdevSpec

-----------------------------------------------------------------------------
\* The two keyboards, each at its own pace.
KeysSpec == TtySpec /\ EvdevSpec

\* The keyboard of the terminal and the evdev keyboard side by side: whatever is typed, in
\* whatever batches it is read, decoded and drained, the text is what the keys mean, its
\* cursor is in view and a key has the character of its modifiers.
THEOREM KeysAreAlwaysTyped == KeysSpec => []KeysAreTyped
    BY TextIsAlwaysTyped, CharactersAlwaysMatch, PTL DEF KeysSpec, KeysAreTyped
=============================================================================
