-------------------------------- MODULE Swarm --------------------------------
(***************************************************************************)
(* The agent swarm of os/asis/asis_enhanced.py: six agents with inboxes on *)
(* a shared blackboard, stepped one after the other by SwarmController;    *)
(* what they send in a step is delivered at its end.  Tasks are injected   *)
(* between steps, and run_until_convergence steps until three steps in a   *)
(* row were quiet.  The analyst's rule engine is in TermRewriting.         *)
(*                                                                         *)
(* Of a payload the model keeps its task and two marks: "COMPOSE", that it *)
(* is a COMPOSE term, and "error", that it has an atom named "error" or    *)
(* "failed" in it.                                                         *)
(***************************************************************************)
EXTENDS Integers, Sequences, FiniteSets, SequencesExt

CONSTANTS
  Tasks,        \* the tasks a user may inject, each once
  Composed,     \* those that are COMPOSE terms
  Faulty,       \* those with an "error" or "failed" atom
  MaxRuns,      \* bound on the calls of run_until_convergence
  StepLimits    \* the max_steps it may be called with

ASSUME SwarmAssumption == Composed \subseteq Tasks /\ Faulty \subseteq Tasks

VARIABLES
  inbox,       \* agent -> its messages
  board,       \* the blackboard: key -> writer
  answered,    \* history: how often a task's synthesis reached the orchestrator
  injected,
  stepsLeft,   \* of run_until_convergence; 0 when it does not run
  quietSteps, converged, swarmRuns

swarmVars == <<inbox, board, answered, injected, stepsLeft, quietSteps, converged, swarmRuns>>

AgentOrder == <<"orchestrator", "analyst", "planner", "executor", "validator", "synthesizer">>
Agents == ToSet(AgentOrder)

Message(from, to, type, p) == [from |-> from, to |-> to, type |-> type, payload |-> p]
Payload(task, marks) == [task |-> task, marks |-> marks]
Tagged(p) == Payload(p.task, p.marks \union {"COMPOSE"})   \* C.state(...) @ payload

Silent == [out |-> << >>, keys |-> {}]

(******************************** The agents *******************************)
Orchestrator(m) ==
  CASE m.type = "DIRECTIVE" ->
         [out |-> IF "COMPOSE" \in m.payload.marks
                  THEN <<Message("orchestrator", "planner", "DELEGATION", Tagged(m.payload))>>
                  ELSE <<Message("orchestrator", "analyst", "DELEGATION", m.payload)>>,
          keys |-> {<<"task", m.payload.task>>}]
    [] m.type = "RESULT" /\ m.from = "synthesizer" ->
         [out |-> << >>, keys |-> {<<"result", "unknown">>}]   \* no payload carries a task_id
    [] m.type = "RESULT" /\ m.from # "synthesizer" ->
         [out |-> <<Message("orchestrator", "synthesizer", "SYNTHESIS", m.payload)>>, keys |-> {}]
    [] OTHER -> Silent

\* The only rule of the analyst matches every term: its replacement has none of
\* the atoms of the task.
Analyst(m) ==
  IF m.type \in {"QUERY", "DELEGATION"}
  THEN [out |-> <<Message("analyst", "orchestrator", "RESULT", Payload(m.payload.task, {"COMPOSE"}))>>,
        keys |-> {<<"analysis", m.payload.task>>}]
  ELSE Silent

\* A plan of a COMPOSE term has the term in it.
PlanOf(m) ==
  Payload(m.payload.task, {"COMPOSE"} \union IF "COMPOSE" \in m.payload.marks THEN m.payload.marks ELSE {})

\* A fault: the plan goes to the executor alone.
PlannerKeepsQuiet(m) ==
  IF m.type \in {"DIRECTIVE", "DELEGATION"}
  THEN [out |-> <<Message("planner", "executor", "DIRECTIVE", PlanOf(m))>>, keys |-> {<<"plan", m.payload.task>>}]
  ELSE Silent

Planner(m) ==
  IF m.type \in {"DIRECTIVE", "DELEGATION"}
  THEN [out |-> <<Message("planner", "executor", "DIRECTIVE", PlanOf(m)),
                  Message("planner", "orchestrator", "RESULT", PlanOf(m))>>,
        keys |-> {<<"plan", m.payload.task>>}]
  ELSE Silent

Executor(m) ==
  IF m.type = "DIRECTIVE"
  THEN [out |-> <<Message("executor", "validator", "VALIDATION", Tagged(m.payload))>>,
        keys |-> {<<"execution", m.payload.task>>}]
  ELSE Silent

Validator(m) ==
  IF m.type = "VALIDATION"
  THEN [out |-> IF "error" \in m.payload.marks
                THEN <<Message("validator", "executor", "FEEDBACK", m.payload)>>
                ELSE <<Message("validator", "synthesizer", "SYNTHESIS", m.payload)>>,
        keys |-> {<<"validation", m.payload.task>>}]
  ELSE Silent

Synthesizer(m) ==
  IF m.type = "SYNTHESIS"
  THEN [out |-> <<Message("synthesizer", "orchestrator", "RESULT", Tagged(m.payload))>>,
        keys |-> {<<"synthesis", m.payload.task>>}]
  ELSE Silent

ProcessMessage(a, m) ==
  CASE a = "orchestrator" -> Orchestrator(m)
    [] a = "analyst"      -> Analyst(m)
    [] a = "planner"      -> Planner(m)
    [] a = "executor"     -> Executor(m)
    [] a = "validator"    -> Validator(m)
    [] a = "synthesizer"  -> Synthesizer(m)

(****************************** The controller *****************************)
SwarmInit ==
  /\ inbox = [a \in Agents |-> << >>] /\ board = {}
  /\ answered = [t \in Tasks |-> 0] /\ injected = {}
  /\ stepsLeft = 0 /\ quietSteps = 0 /\ converged = FALSE /\ swarmRuns = 0

MarksOf(t) == (IF t \in Composed THEN {"COMPOSE"} ELSE {}) \union (IF t \in Faulty THEN {"error"} ELSE {})

Inject(t) ==
  /\ t \notin injected /\ stepsLeft = 0
  /\ injected' = injected \cup {t}
  /\ inbox' = [inbox EXCEPT !["orchestrator"] =
                 Append(@, Message("user", "orchestrator", "DIRECTIVE",
                                   Payload(t, MarksOf(t))))]
  /\ UNCHANGED <<board, answered, stepsLeft, quietSteps, converged, swarmRuns>>

RunUntilConvergence(limit) ==
  /\ stepsLeft = 0 /\ swarmRuns < MaxRuns
  /\ stepsLeft' = limit /\ quietSteps' = 0 /\ swarmRuns' = swarmRuns + 1
  /\ UNCHANGED <<inbox, board, answered, injected, converged>>

\* What the agents say when each of them works off its inbox.
Replies(a) == FlattenSeq([k \in DOMAIN inbox[a] |-> ProcessMessage(a, inbox[a][k]).out])
Writes(a) == UNION {ProcessMessage(a, inbox[a][k]).keys : k \in DOMAIN inbox[a]}
Said == FlattenSeq([k \in DOMAIN AgentOrder |-> Replies(AgentOrder[k])])

\* Each message is put into the inbox of its receiver, in the order in which they were said.
Delivered ==
  LET box[k \in 0..Len(Said)] ==
        IF k = 0 THEN [a \in Agents |-> << >>]
        ELSE [box[k - 1] EXCEPT ![Said[k].to] = Append(@, Said[k])]
  IN box[Len(Said)]

\* The syntheses of a task that the orchestrator receives in this step.
IsAnswer(m, t) == m.type = "RESULT" /\ m.from = "synthesizer" /\ m.payload.task = t
AnsweredBy(t) == Cardinality({k \in DOMAIN inbox["orchestrator"] : IsAnswer(inbox["orchestrator"][k], t)})

SwarmStep ==
  /\ stepsLeft > 0
  /\ inbox' = Delivered
  /\ board' = board \cup UNION {Writes(a) : a \in Agents}
  /\ answered' = [t \in Tasks |-> answered[t] + AnsweredBy(t)]
  /\ quietSteps' = IF Said = << >> THEN quietSteps + 1 ELSE 0
  /\ converged' = (converged \/ quietSteps' >= 3)
  /\ stepsLeft' = IF quietSteps' >= 3 THEN 0 ELSE stepsLeft - 1
  /\ UNCHANGED <<injected, swarmRuns>>

SwarmNext ==
  \/ \E t \in Tasks : Inject(t)
  \/ \E limit \in StepLimits : RunUntilConvergence(limit)
  \/ SwarmStep

SwarmSpec == SwarmInit /\ [][SwarmNext]_swarmVars

------------------------------------------------------------------------------
IdleAgent == \A a \in Agents : inbox[a] = << >>

\* When nothing is under way any more, every task that was injected has been
\* answered: once by way of its analysis, or of its plan and, unless its
\* validation failed, of its execution ("Real problem-solving: planning,
\* validation, synthesis", asis_enhanced.py:12).
TasksAnswered ==
  IdleAgent => \A t \in Tasks :
    answered[t] = IF t \notin injected THEN 0
                  ELSE IF t \in Composed \ Faulty THEN 2 ELSE 1

\* "The system converges to a fixed point" (os/asis/README.md:61): a controller
\* that reports convergence at the end of a run has no message to deliver.
ConvergedIsFixedPoint ==
  converged /\ stepsLeft = 0 /\ swarmRuns > 0 /\ quietSteps = 0 => IdleAgent
==============================================================================
