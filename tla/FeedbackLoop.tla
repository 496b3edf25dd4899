---------------------------- MODULE FeedbackLoop ----------------------------
(***************************************************************************)
(* FeedbackKernel of os/core/aios_feedback.py: the background loop that    *)
(* reads the registry's traces from a cursor into the ExperienceBuffer and *)
(* trains the reasoner on episodes of them, its start, pause, resume and   *)
(* stop, and force_train, which does a round of the loop in its caller's   *)
(* thread.  A trace, and the transition made of it, is a number.           *)
(***************************************************************************)
EXTENDS Naturals, Sequences, FiniteSets, SequencesExt

CONSTANTS Operators, MaxTraces, TraceRing, BufferCap, EpisodeLen, MaxThreads

ASSUME FeedbackAssumption == TraceRing \in Nat \ {0} /\ BufferCap \in Nat \ {0} /\ EpisodeLen \in Nat \ {0}

VARIABLES
    traced,     \* how many calls the registry traced
    traceCursor,     \* _trace_cursor
    buffered,   \* ExperienceBuffer._buf
    ingested,   \* the traces that were put into the buffer, in order
    trainedOn,  \* the transitions of the episodes drained
    trainedSteps,   \* LearningReasoner._trained_steps
    loopState,  \* FeedbackLoop._state
    loopThreads,    \* how many threads were created
    loopAt,     \* where the newest of them is
    round,      \* what each worker has pulled and not yet ingested: "loop" or an operator
    joining     \* the operators in stop's join

feedbackVars == <<traced, traceCursor, buffered, ingested, trainedOn, trainedSteps,
                  loopState, loopThreads, loopAt, round, joining>>

Workers == Operators \union {"loop"}
Resting == [at |-> "rest"]

FeedbackInit ==
    /\ traced = 0 /\ traceCursor = 0 /\ buffered = << >> /\ ingested = << >> /\ trainedOn = << >>
    /\ trainedSteps = 0
    /\ loopState = "STOPPED" /\ loopThreads = 0 /\ loopAt = "none"
    /\ round = [w \in Workers |-> Resting] /\ joining = {}

\* A tool call is traced; the ring keeps the last TraceRing of them.
Trace ==
    /\ traced < MaxTraces
    /\ traced' = traced + 1
    /\ UNCHANGED <<traceCursor, buffered, ingested, trainedOn, trainedSteps, loopState, loopThreads, loopAt, round, joining>>

RecentTraces == LET first == IF traced > TraceRing THEN traced - TraceRing + 1 ELSE 1
                IN [i \in 1..(traced - first + 1) |-> first + i - 1]

-----------------------------------------------------------------------------
\* _ingest_new_traces: the slice past the cursor of what the ring holds...
Pulls(w) ==
    /\ round[w] = Resting
    /\ round' = [round EXCEPT ![w] =
                   [at |-> "pulled", new |-> SubSeq(RecentTraces, traceCursor + 1, Len(RecentTraces))]]
    /\ UNCHANGED <<traced, traceCursor, buffered, ingested, trainedOn, trainedSteps, loopState, loopThreads, joining>>

LastOf(s, n) == IF Len(s) <= n THEN s ELSE SubSeq(s, Len(s) - n + 1, Len(s))

\* ... becomes transitions, the oldest falling out of a full buffer, and moves the cursor on.
Ingests(w) ==
    /\ round[w].at = "pulled"
    /\ buffered' = LastOf(buffered \o round[w].new, BufferCap)
    /\ ingested' = ingested \o round[w].new
    /\ traceCursor' = traceCursor + Len(round[w].new)
    /\ round' = [round EXCEPT ![w] = [at |-> "train"]]
    /\ UNCHANGED <<traced, trainedOn, trainedSteps, loopState, loopThreads, loopAt, joining>>

\* A fault: the episode is taken without leaving the buffer.
DrainsCopy(len) == buffered

DrainsEpisode(len) == IF Len(buffered) < len THEN buffered ELSE SubSeq(buffered, len + 1, Len(buffered))

\* _try_train_step: with a full episode there it is drained; the PPO update it is given to wants
\* a rollout and raises, so absorb_training answers 0.0 and counts nothing.
Trains(w) ==
    /\ round[w].at = "train"
    /\ buffered' = DrainsEpisode(EpisodeLen)
    /\ trainedOn' = (IF Len(buffered) < EpisodeLen THEN trainedOn ELSE trainedOn \o SubSeq(buffered, 1, EpisodeLen))
    /\ round' = [round EXCEPT ![w] = Resting]
    /\ UNCHANGED <<traced, traceCursor, ingested, trainedSteps, loopState, loopThreads, joining>>

\* force_train runs in its caller, whatever the loop is doing.
ForceTrain(u) ==
    /\ u \notin joining
    /\ UNCHANGED loopAt
    /\ Pulls(u) \/ Trains(u)

-----------------------------------------------------------------------------
\* _run reads the state; then it ends, or does its round, or sleeps.
LoopReads ==
    /\ loopAt = "top"
    /\ loopAt' = (CASE loopState = "STOPPED" -> "ending" [] loopState = "RUNNING" -> "round" [] OTHER -> "top")
    /\ loopState # "PAUSED"
    /\ UNCHANGED <<traced, traceCursor, buffered, ingested, trainedOn, trainedSteps, loopState, loopThreads, round, joining>>

LoopRound ==
    /\ loopAt = "round"
    /\ \/ Pulls("loop") /\ UNCHANGED loopAt
       \/ Ingests("loop")
       \/ Trains("loop") /\ loopAt' = "top"

LoopEnds ==
    /\ loopAt = "ending"
    /\ loopAt' = "dead"
    /\ UNCHANGED <<traced, traceCursor, buffered, ingested, trainedOn, trainedSteps, loopState, loopThreads, round, joining>>

\* start: a thread is made unless one is alive, though it may have read STOPPED already.
StartLoop(u) ==
    /\ u \notin joining /\ loopState # "RUNNING"
    /\ loopThreads < MaxThreads \/ loopAt \notin {"none", "dead"}
    /\ loopState' = "RUNNING"
    /\ IF loopAt \in {"none", "dead"} THEN loopThreads' = loopThreads + 1 /\ loopAt' = "top"
       ELSE UNCHANGED <<loopThreads, loopAt>>
    /\ UNCHANGED <<traced, traceCursor, buffered, ingested, trainedOn, trainedSteps, round, joining>>

PauseOrResume(from, to) ==
    /\ loopState = from /\ loopState' = to
    /\ UNCHANGED <<traced, traceCursor, buffered, ingested, trainedOn, trainedSteps, loopThreads, loopAt, round, joining>>

StopLoop(u) ==
    /\ u \notin joining
    /\ loopState' = "STOPPED" /\ joining' = joining \union {u}
    /\ UNCHANGED <<traced, traceCursor, buffered, ingested, trainedOn, trainedSteps, loopThreads, loopAt, round>>

\* join returns when the thread is dead, or after its timeout.
StopReturns(u) ==
    /\ u \in joining
    /\ joining' = joining \ {u}
    /\ UNCHANGED <<traced, traceCursor, buffered, ingested, trainedOn, trainedSteps, loopState, loopThreads, loopAt, round>>

FeedbackNext ==
    \/ Trace \/ LoopReads \/ LoopRound \/ LoopEnds
    \/ PauseOrResume("RUNNING", "PAUSED") \/ PauseOrResume("PAUSED", "RUNNING")
    \/ \E u \in Operators : ForceTrain(u) \/ Ingests(u) \/ StartLoop(u) \/ StopLoop(u) \/ StopReturns(u)

FeedbackSpec == FeedbackInit /\ [][FeedbackNext]_feedbackVars

-----------------------------------------------------------------------------
\* What was trained on and what is buffered are two ends of what was ingested: no transition is
\* trained on twice, whichever threads train; only the oldest buffered ones are lost, and
\* only to the buffer's limit.
TrainedInOrder ==
    /\ Len(trainedOn) + Len(buffered) <= Len(ingested)
    /\ IsSuffix(buffered, ingested)
    /\ Len(ingested) <= BufferCap => trainedOn \o buffered = ingested

\* "Maintains a cursor into _registry.recent_traces() so each batch of new traces is processed
\* exactly once": when the cursor is at the end of the ring, so that the next pull brings
\* nothing, and nobody has pulled traces in hand, every trace of the ring was ingested.
ProcessedExactlyOnce ==
    traceCursor >= Len(RecentTraces) /\ (\A w \in Workers : round[w].at # "pulled") =>
        ToSet(RecentTraces) \subseteq ToSet(ingested)

\* The other half of it: force_train beside the loop does not ingest what the loop ingests.
NoneIngestedTwice == IsInjective(ingested)

\* "Increments trained_steps": by the episodes that were trained on.
StepsCounted == trainedSteps = Len(trainedOn)

\* A loop that is RUNNING has a thread that will do its rounds.
RunningHasThread == loopState = "RUNNING" => loopAt \in {"top", "round"}
=============================================================================
