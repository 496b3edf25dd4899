---------------------------- MODULE Reinforcement ---------------------------
(***************************************************************************)
(* Reinforcement learning and rewards: the replay buffers of               *)
(* os/core/aios_rl.py, the rollouts that PPO learns from, and the shaping  *)
(* of rewards in os/core/aios_reward.py.                                   *)
(***************************************************************************)
EXTENDS Integers, Sequences, FiniteSets, SequencesExt

-----------------------------------------------------------------------------
(***************************************************************************)
(* PrioritizedReplayBuffer and its _SumTree in os/core/aios_rl.py: a ring  *)
(* of transitions whose priorities are the leaves of a binary tree of      *)
(* sums; a sample descends from the root with a value below the total.     *)
(* Priorities are whole numbers and alpha is one; the annealing of beta    *)
(* and the importance weights are left out.                                *)
(***************************************************************************)

CONSTANTS ReplayCapacity, MaxPriority, MaxPushes

ASSUME PrioritizedReplayAssumption == ReplayCapacity \in Nat \ {0} /\ MaxPriority \in Nat \ {0}

VARIABLES
    sums,       \* _tree: node -> sum of the leaves below it
    ring,       \* _data: slot -> the number of the transition pushed there, 0 for None
    slot,       \* _pos
    filled,     \* _size
    maxPrio,    \* _max_prio
    pushes      \* transitions pushed so far

replayVars == <<sums, ring, slot, filled, maxPrio, pushes>>

Nodes == 0..(2 * ReplayCapacity - 2)
Leaf(s) == s + ReplayCapacity - 1

ReplayInit ==
    /\ sums = [i \in Nodes |-> 0] /\ ring = [s \in 0..(ReplayCapacity - 1) |-> 0]
    /\ slot = 0 /\ filled = 0 /\ maxPrio = 1 /\ pushes = 0

-----------------------------------------------------------------------------
\* A node and those above it, which _propagate adds the change to.
Path[i \in Nat] == IF i = 0 THEN {0} ELSE {i} \union Path[(i - 1) \div 2]

\* A fault: the change is taken after the leaf has its new priority, so the sums above stay.
UpdatedLate(leaf, priority) == [sums EXCEPT ![leaf] = priority]

Updated(leaf, priority) ==
    [i \in Nodes |-> IF i \in Path[leaf] THEN sums[i] + priority - sums[leaf] ELSE sums[i]]

RaisedPriority(priority) == IF priority > maxPrio THEN priority ELSE maxPrio

\* Without a priority of its own a transition gets the greatest one seen.
PushTransition(given) ==
    LET priority == IF given = 0 THEN maxPrio ELSE given IN
    /\ pushes < MaxPushes
    /\ pushes' = pushes + 1
    /\ ring' = [ring EXCEPT ![slot] = pushes + 1]
    /\ sums' = Updated(Leaf(slot), priority)
    /\ slot' = (slot + 1) % ReplayCapacity
    /\ filled' = (IF filled = ReplayCapacity THEN filled ELSE filled + 1)
    /\ maxPrio' = RaisedPriority(priority)

\* update_priorities, for one of the sampled leaves.
UpdatePriority(s, priority) ==
    /\ s < filled
    /\ sums' = Updated(Leaf(s), priority)
    /\ maxPrio' = RaisedPriority(priority)
    /\ UNCHANGED <<ring, slot, filled, pushes>>

ReplayNext ==
    \/ \E given \in 0..MaxPriority : PushTransition(given)
    \/ \E s \in 0..(ReplayCapacity - 1), priority \in 1..MaxPriority : UpdatePriority(s, priority)

ReplaySpec == ReplayInit /\ [][ReplayNext]_replayVars

-----------------------------------------------------------------------------
\* get: the leaf that a value above zero and up to the total leads to.
Sampled(value) ==
    LET down[i \in Nodes, v \in Nat] ==
            IF 2 * i + 1 >= 2 * ReplayCapacity - 1 THEN i
            ELSE IF v <= sums[2 * i + 1] THEN down[2 * i + 1, v]
            ELSE down[2 * i + 2, v - sums[2 * i + 1]]
    IN down[0, value]

\* "Sum of all priorities (root value)": a sample lands on each stored transition as often as
\* its priority says and never on an empty slot, for any capacity, however the ring wrapped
\* and priorities changed.  (The value zero may reach an empty slot unless the capacity is
\* a power of two.)
SampledByPriority ==
    /\ sums[0] = FoldSet(LAMBDA s, total : total + sums[Leaf(s)], 0, 0..(ReplayCapacity - 1))
    /\ \A s \in 0..(ReplayCapacity - 1) :
         /\ Cardinality({value \in 1..sums[0] : Sampled(value) = Leaf(s)}) = sums[Leaf(s)]
         /\ (ring[s] = 0) = (sums[Leaf(s)] = 0)

\* What a sample reaches has been pushed, the value zero included.
ZeroSamplesToo == sums[0] > 0 => ring[Sampled(0) - (ReplayCapacity - 1)] # 0

-----------------------------------------------------------------------------
(***************************************************************************)
(* DQN of os/core/aios_rl.py with its ReplayBuffer: each environment step  *)
(* goes into a ring, a full batch is learned from, and the target network  *)
(* is copied from the online one at intervals.  A transition and a set of  *)
(* parameters are known by the step they are from.                         *)
(***************************************************************************)

CONSTANTS RingSize, BatchSize, SyncEvery, MaxDqnSteps

ASSUME DeepQAssumption == RingSize \in Nat \ {0} /\ BatchSize \in Nat \ {0} /\ SyncEvery \in Nat \ {0}

VARIABLES
    buffer,     \* ReplayBuffer._buf: the step whose transition each slot holds, 0 for None
    bufferPos,  \* _pos
    bufferFill, \* _size
    dqnSteps,   \* DQN._step_count
    online, target, \* the step each network's parameters are from
    batch       \* the transitions the last learning step sampled

dqnVars == <<buffer, bufferPos, bufferFill, dqnSteps, online, target, batch>>

DqnInit ==
    /\ buffer = [i \in 0..(RingSize - 1) |-> 0] /\ bufferPos = 0 /\ bufferFill = 0
    /\ dqnSteps = 0 /\ online = 0 /\ target = 0 /\ batch = {}

\* A fault: a batch is drawn from all slots.
SlotsAll(fill) == 0..(RingSize - 1)

\* sample draws slots below the fill, with repetitions.
Slots(fill) == 0..(fill - 1)

\* ReplayBuffer.push: the ring with the new transition.
Pushed == [buffer EXCEPT ![bufferPos] = dqnSteps + 1]
Filled == IF bufferFill < RingSize THEN bufferFill + 1 ELSE RingSize

DqnStep ==
    /\ dqnSteps < MaxDqnSteps /\ dqnSteps' = dqnSteps + 1
    /\ buffer' = Pushed /\ bufferPos' = (bufferPos + 1) % RingSize /\ bufferFill' = Filled
    /\ IF Filled >= BatchSize
       THEN /\ \E drawn \in SUBSET Slots(Filled) :
                  Cardinality(drawn) \in 1..BatchSize /\ batch' = {Pushed[i] : i \in drawn}
            /\ online' = dqnSteps + 1
            /\ target' = (IF (dqnSteps + 1) % SyncEvery = 0 THEN dqnSteps + 1 ELSE target)
       ELSE UNCHANGED <<batch, online, target>>

DqnSpec == DqnInit /\ [][DqnStep]_dqnVars

-----------------------------------------------------------------------------
\* "Uniform random sample without replacement (with wrap-around)": a batch is of transitions
\* that were stored, none older than the ring is long; and once it has been copied, the
\* target network trails the online one by less than a period.
LearnsFromRecent ==
    /\ \A step \in batch : step \in 1..dqnSteps /\ step > dqnSteps - RingSize
    /\ target # 0 => online - target < SyncEvery

-----------------------------------------------------------------------------
(***************************************************************************)
(* Learning from an environment in os/core/aios_rl.py: AgentRLHarness,     *)
(* whose train collects a rollout and updates under the harness's lock     *)
(* while evaluate resets and steps the same environment without it; the    *)
(* GridWorld they share; PPO's generalised advantages.  Rewards are        *)
(* hundredths, gamma and lambda are one, and the value of a state is a     *)
(* fixed number; normalisation and the gradient steps are left out.        *)
(***************************************************************************)

CONSTANTS GridSize, Walls, MaxSteps, RolloutSteps, MaxRollouts

ASSUME RolloutsAssumption == GridSize \in Nat /\ GridSize > 1 /\ MaxSteps \in Nat \ {0} /\ RolloutSteps \in Nat \ {0}

Home == <<0, 0>>
Goal == <<GridSize - 1, GridSize - 1>>
Moves == {<<-1, 0>>, <<1, 0>>, <<0, 1>>, <<0, -1>>}

VARIABLES
    place, taken,   \* GridWorld: the position, and the steps since reset
    facing,           \* the state the learner acts on next
    rollout,        \* the transitions of the rollout being collected
    advantages,     \* what update computed from it, or <<>>
    bootstrap,      \* the state whose value stood in for what follows the rollout
    updates,        \* PPO._update_count
    evaluating      \* evaluate is running an episode

rolloutVars == <<place, taken, facing, rollout, advantages, bootstrap, updates, evaluating>>

RolloutInit ==
    /\ place = Home /\ taken = 0 /\ facing = Home
    /\ rollout = << >> /\ advantages = << >> /\ bootstrap = Home /\ updates = 0
    /\ evaluating = FALSE

Value(state) == 2 * state[1] + 3 * state[2]

-----------------------------------------------------------------------------
\* GridWorld.step: walls and the border stop a move; the goal or the step limit ends it.
Moved(move) ==
    LET to == <<place[1] + move[1], place[2] + move[2]>>
    IN IF to \in (0..(GridSize - 1)) \X (0..(GridSize - 1)) /\ to \notin Walls THEN to ELSE place

Outcome(move) ==
    LET to == Moved(move) IN
    [to |-> to,
     reward |-> IF to = Goal THEN 100 ELSE IF to = place THEN -10 ELSE -1,
     done |-> to = Goal \/ taken + 1 >= MaxSteps]

\* collect_rollout: one step, and a reset when it ended the episode.
CollectStep(move) ==
    LET out == Outcome(move) IN
    /\ updates < MaxRollouts /\ Len(rollout) < RolloutSteps
    /\ rollout' = Append(rollout, [state |-> facing, next |-> out.to, reward |-> out.reward, done |-> out.done])
    /\ place' = (IF out.done THEN Home ELSE out.to)
    /\ facing' = (IF out.done THEN Home ELSE out.to)
    /\ taken' = (IF out.done THEN 0 ELSE taken + 1)
    /\ UNCHANGED <<advantages, bootstrap, updates, evaluating>>

\* gae: from the last step back; a step that ended an episode takes nothing from the next one.
Delta(i, after) ==
    rollout[i].reward + (IF rollout[i].done THEN 0 ELSE after) - Value(rollout[i].state)

\* A fault: the sum is carried over the end of an episode.
GaeUnmasked(final) ==
    LET n == Len(rollout)
        adv[i \in 1..n] == IF i = n THEN Delta(n, final)
                           ELSE Delta(i, Value(rollout[i + 1].state)) + adv[i + 1]
    IN [i \in 1..n |-> adv[i]]

Gae(final) ==
    LET n == Len(rollout)
        adv[i \in 1..n] == IF i = n THEN Delta(n, final)
                           ELSE Delta(i, Value(rollout[i + 1].state))
                                + (IF rollout[i].done THEN 0 ELSE adv[i + 1])
    IN [i \in 1..n |-> adv[i]]

\* update: what follows the rollout is estimated from its last entry of states.
PpoUpdate ==
    /\ Len(rollout) = RolloutSteps /\ advantages = << >>
    /\ bootstrap' = rollout[RolloutSteps].state
    /\ advantages' = Gae(IF rollout[RolloutSteps].done THEN 0 ELSE Value(rollout[RolloutSteps].state))
    /\ updates' = updates + 1
    /\ UNCHANGED <<place, taken, facing, rollout, evaluating>>

\* train goes on to the next rollout, from a reset environment.
NextRollout ==
    /\ advantages # << >> /\ updates < MaxRollouts
    /\ rollout' = << >> /\ advantages' = << >>
    /\ place' = Home /\ facing' = Home /\ taken' = 0
    /\ UNCHANGED <<bootstrap, updates, evaluating>>

-----------------------------------------------------------------------------
\* evaluate, on the environment that train may be in the middle of.
EvaluateResets ==
    /\ ~evaluating /\ updates < MaxRollouts
    /\ evaluating' = TRUE /\ place' = Home /\ taken' = 0
    /\ UNCHANGED <<facing, rollout, advantages, bootstrap, updates>>

EvaluateSteps(move) ==
    LET out == Outcome(move) IN
    /\ evaluating /\ taken < MaxSteps
    /\ place' = out.to /\ taken' = taken + 1 /\ evaluating' = ~out.done
    /\ UNCHANGED <<facing, rollout, advantages, bootstrap, updates>>

RolloutNext ==
    \/ \E move \in Moves : CollectStep(move) \/ EvaluateSteps(move)
    \/ PpoUpdate \/ NextRollout \/ EvaluateResets

RolloutSpec == RolloutInit /\ [][RolloutNext]_rolloutVars

-----------------------------------------------------------------------------
\* The first step from i on that ended an episode, or the last of the rollout.
EpisodeEnd(steps, i) ==
    CHOOSE j \in i..Len(steps) :
        /\ steps[j].done \/ j = Len(steps)
        /\ \A k \in i..(j - 1) : ~steps[k].done

Earned(steps, i, j) ==
    LET sum[k \in i..j] == steps[k].reward + (IF k = j THEN 0 ELSE sum[k + 1])
    IN sum[i]

\* "Compute GAE advantages and discounted returns": an advantage is what was earned until the
\* episode's end, and the estimate of the rest if the rollout cut it off, above the value
\* of the state; nothing of the next episode enters.
AdvantagesAreEpisodic ==
    \A i \in 1..Len(advantages) :
        LET j == EpisodeEnd(rollout, i) IN
        advantages[i] = Earned(rollout, i, j) + (IF rollout[j].done THEN 0 ELSE Value(bootstrap)) - Value(rollout[i].state)

\* "bootstrap: V(s_T) - value of the state after the last step (0 if terminal)".
BootstrapAfterLastStep ==
    advantages # << >> /\ ~rollout[RolloutSteps].done => bootstrap = rollout[RolloutSteps].next

-----------------------------------------------------------------------------
(***************************************************************************)
(* RewardKernel of os/core/aios_reward.py: rewards of recently traced tool *)
(* calls, with the shaper's running mean and sum of squared deviations     *)
(* (Welford's recurrence), its bounded windows and the encoder's.  A       *)
(* reward is a whole number times Unit; Unit is a multiple of every count  *)
(* up to MaxShaped, so the divisions are exact.                            *)
(***************************************************************************)

CONSTANTS Rewards, Unit, MaxShaped, MaxCalls, HistoryWindow, StampWindow, Recent

ASSUME RewardAssumption == Unit \in Nat \ {0} /\ \A n \in 1..MaxShaped : Unit % n = 0

VARIABLES
    calls,      \* the rewards of the calls the registry traced, in order
    processed,  \* RewardKernel._processed_traces
    shaped,     \* the calls that were shaped, in order
    welfN, welfMu, welfS,   \* _welf_n, and Unit times _welf_mu, and Unit * Unit times _welf_S
    history,    \* RewardShaper._history
    stamps,     \* _tool_call_ts of a tool
    flags       \* StateEncoder._succ_win

rewardVars == <<calls, processed, shaped, welfN, welfMu, welfS, history, stamps, flags>>

RewardInit ==
    /\ calls = << >> /\ processed = 0 /\ shaped = << >>
    /\ welfN = 0 /\ welfMu = 0 /\ welfS = 0
    /\ history = << >> /\ stamps = << >> /\ flags = << >>

Called(reward) ==
    /\ Len(calls) < MaxCalls
    /\ calls' = Append(calls, reward)
    /\ UNCHANGED <<processed, shaped, welfN, welfMu, welfS, history, stamps, flags>>

-----------------------------------------------------------------------------
LatestOf(s, n) == IF Len(s) > n THEN SubSeq(s, Len(s) - n + 1, Len(s)) ELSE s

\* A fault: both deviations are from the mean before.
WelfordBefore(stats, reward) ==
    LET delta == Unit * reward - stats.mu IN
    [n |-> stats.n + 1, mu |-> stats.mu + delta \div (stats.n + 1), s |-> stats.s + delta * delta]

Welford(stats, reward) ==
    LET delta == Unit * reward - stats.mu
        mu == stats.mu + delta \div (stats.n + 1)
    IN [n |-> stats.n + 1, mu |-> mu, s |-> stats.s + delta * (Unit * reward - mu)]

\* process_recent_traces: of the last Recent traces it shapes and encodes those past as many as
\* it has processed.
ProcessRecent ==
    LET recent == LatestOf([i \in 1..Len(calls) |-> i], Recent)
        new == SubSeq(recent, processed + 1, Len(recent))
        rewards == [i \in 1..Len(new) |-> calls[new[i]]]
        stats == FoldLeft(Welford, [n |-> welfN, mu |-> welfMu, s |-> welfS], rewards)
    IN /\ new # << >> /\ Len(shaped) + Len(new) <= MaxShaped
       /\ processed' = processed + Len(new)
       /\ shaped' = shaped \o new
       /\ welfN' = stats.n /\ welfMu' = stats.mu /\ welfS' = stats.s
       /\ history' = LatestOf(history \o rewards, HistoryWindow)
       /\ stamps' = LatestOf(stamps \o new, StampWindow)
       /\ flags' = LatestOf(flags \o [i \in 1..Len(new) |-> rewards[i] >= 0], HistoryWindow)
       /\ UNCHANGED calls

RewardNext == ProcessRecent \/ \E reward \in Rewards : Called(reward)

RewardSpec == RewardInit /\ [][RewardNext]_rewardVars

-----------------------------------------------------------------------------
\* "Welford's online algorithm": mean and sum of squared deviations are those of all rewards
\* shaped so far, in whatever batches they were processed.
WelfordExact ==
    LET plus(a, b) == a + b
        xs == [i \in 1..Len(shaped) |-> Unit * calls[shaped[i]]]
    IN /\ welfN = Len(shaped)
       /\ welfN > 0 => /\ welfMu * welfN = FoldLeft(plus, 0, xs)
                       /\ welfS = FoldLeft(plus, 0, [i \in 1..Len(xs) |-> (xs[i] - welfMu) * (xs[i] - welfMu)])

\* "Compute intrinsic reward for the most recent agent traces": when nothing is left to shape
\* for it, the recent traces have been shaped.
RecentAreShaped ==
    processed >= Len(LatestOf(calls, Recent)) => \A i \in 1..Len(calls) : i > Len(calls) - Recent => i \in ToSet(shaped)
=============================================================================
