------------------------------ MODULE Autograd ------------------------------
(***************************************************************************)
(* Reverse-mode differentiation in os/kernels/aios_phase4_nn.py: Tensor    *)
(* operations build a graph as they compute, backward() walks it, and SGD  *)
(* with momentum steps the parameters; at the end, the schedules of the    *)
(* learning rate and early stopping.  A tensor is a shape and its flat     *)
(* data; an operation also says how every element of its result changes    *)
(* with every element of its arguments, which is what its closure applies. *)
(* The data are whole numbers: the operations that need real ones          *)
(* (division, exp, tanh, softmax, layer_norm, ...) are left out.  Each     *)
(* graph is walked once (a second walk would pass on the gradients that    *)
(* the first one left at its inner nodes again).                           *)
(***************************************************************************)
EXTENDS Integers, Sequences, FiniteSets, SequencesExt, FiniteSetsExt

CONSTANTS
  Trainable,    \* the parameters: a sequence of tensors
  MaxGraphs     \* bounds: the operations of each graph that is differentiated, in turn

VARIABLES
  tape,      \* the tensors there are, the parameters first
  velocity,  \* SGD.velocity, one sequence per parameter
  walked,    \* backward() was called on the present graph
  due,       \* history: what the gradients should be, one sequence per parameter
  trainings

gradVars == <<tape, velocity, walked, due, trainings>>

Parameters == DOMAIN Trainable
SumOver(n, f(_)) == FoldLeft(LAMBDA s, i : s + f(i), 0, [i \in 1 .. n |-> i])
ZerosLike(t) == [i \in DOMAIN t.data |-> 0]

(***************************** The operations ******************************)
\* How result element i moves with element j of each argument.
GradElementwise(a, data, slopes) ==
  [shape |-> a.shape, data |-> data,
   jac |-> [p \in DOMAIN slopes |-> [i \in DOMAIN data |-> [j \in DOMAIN data |->
              IF i = j THEN slopes[p][i] ELSE 0]]]]

AllOf(a, n) == [i \in DOMAIN a.data |-> n]

Add(a, b) == GradElementwise(a, [i \in DOMAIN a.data |-> a.data[i] + b.data[i]],
                       <<AllOf(a, 1), AllOf(a, 1)>>)

\* A row is added to every row of a matrix.
AddRow(a, b) ==
  LET n == a.shape[2] IN
  [shape |-> a.shape,
   data  |-> [i \in DOMAIN a.data |-> a.data[i] + b.data[((i - 1) % n) + 1]],
   jac   |-> <<[i \in DOMAIN a.data |-> [j \in DOMAIN a.data |-> IF i = j THEN 1 ELSE 0]],
               [i \in DOMAIN a.data |-> [j \in 1 .. n |-> IF ((i - 1) % n) + 1 = j THEN 1 ELSE 0]]>>]

Sub(a, b) == GradElementwise(a, [i \in DOMAIN a.data |-> a.data[i] - b.data[i]],
                       <<AllOf(a, 1), AllOf(a, -1)>>)

Mul(a, b) == GradElementwise(a, [i \in DOMAIN a.data |-> a.data[i] * b.data[i]], <<b.data, a.data>>)

Neg(a) == GradElementwise(a, [i \in DOMAIN a.data |-> -a.data[i]], <<AllOf(a, -1)>>)

Square(a) == GradElementwise(a, [i \in DOMAIN a.data |-> a.data[i] * a.data[i]],
                       <<[i \in DOMAIN a.data |-> 2 * a.data[i]]>>)

Relu(a) == GradElementwise(a, [i \in DOMAIN a.data |-> IF a.data[i] > 0 THEN a.data[i] ELSE 0],
                     <<[i \in DOMAIN a.data |-> IF a.data[i] > 0 THEN 1 ELSE 0]>>)

Magnitude(a) ==
  LET sign(x) == IF x > 0 THEN 1 ELSE IF x < 0 THEN -1 ELSE 0 IN
  GradElementwise(a, [i \in DOMAIN a.data |-> sign(a.data[i]) * a.data[i]],
            <<[i \in DOMAIN a.data |-> sign(a.data[i])]>>)

Row(a, i) == (i - 1) \div a.shape[2]
Column(a, i) == (i - 1) % a.shape[2]
At(a, r, c) == a.data[r * a.shape[2] + c + 1]

MatMul(a, b) ==
  LET out == [shape |-> <<a.shape[1], b.shape[2]>>]
      size == 1 .. a.shape[1] * b.shape[2]
  IN [shape |-> out.shape,
      data  |-> [i \in size |->
                   SumOver(a.shape[2], LAMBDA k : At(a, Row(out, i), k - 1) * At(b, k - 1, Column(out, i)))],
      jac   |-> <<[i \in size |-> [j \in DOMAIN a.data |->
                     IF Row(a, j) = Row(out, i) THEN At(b, Column(a, j), Column(out, i)) ELSE 0]],
                  [i \in size |-> [j \in DOMAIN b.data |->
                     IF Column(b, j) = Column(out, i) THEN At(a, Row(out, i), Row(b, j)) ELSE 0]]>>]

\* The elements of each group are summed: the whole, a column (dim 0) or a row (dim 1).
SumGroups(a, shape, n, group(_)) ==
  [shape |-> shape,
   data  |-> [i \in 1 .. n |-> SumOver(Len(a.data), LAMBDA j : IF group(j) = i THEN a.data[j] ELSE 0)],
   jac   |-> <<[i \in 1 .. n |-> [j \in DOMAIN a.data |-> IF group(j) = i THEN 1 ELSE 0]]>>]

Total(a)      == SumGroups(a, << >>, 1, LAMBDA j : 1)
SumColumns(a) == SumGroups(a, <<a.shape[2]>>, a.shape[2], LAMBDA j : Column(a, j) + 1)
SumRows(a)    == SumGroups(a, <<a.shape[1]>>, a.shape[1], LAMBDA j : Row(a, j) + 1)

\* Result element i is argument element from[i]: a transpose, a reshape, a table look-up.
Picked(a, shape, from) ==
  [shape |-> shape, data |-> [i \in DOMAIN from |-> a.data[from[i]]],
   jac   |-> <<[i \in DOMAIN from |-> [j \in DOMAIN a.data |-> IF from[i] = j THEN 1 ELSE 0]]>>]

Transposition(a) ==
  LET m == a.shape[1]
      n == a.shape[2]
  IN Picked(a, <<n, m>>, [i \in DOMAIN a.data |-> ((i - 1) % m) * n + (i - 1) \div m + 1])

Flatten(a) == Picked(a, <<Len(a.data)>>, [i \in DOMAIN a.data |-> i])

\* Rows of the table by index; a row may be taken more than once.
Embedding(a, rows) ==
  LET d == a.shape[2] IN
  Picked(a, <<Len(rows), d>>, [i \in 1 .. Len(rows) * d |-> rows[((i - 1) \div d) + 1] * d + ((i - 1) % d) + 1])

Unary  == {"neg", "square", "relu", "abs", "sum", "sum0", "sum1", "T", "flatten", "embed"}
Binary == {"add", "add_bc", "sub", "mul", "matmul"}

Fits2(op, a, b) ==
  CASE op = "matmul" -> Len(a.shape) = 2 /\ Len(b.shape) = 2 /\ a.shape[2] = b.shape[1]
    [] op = "add_bc" -> Len(a.shape) = 2 /\ b.shape = <<a.shape[2]>>
    [] OTHER -> a.shape = b.shape

Fits1(op, a) == op \in {"sum0", "sum1", "T", "embed"} => Len(a.shape) = 2

Result(op, args) ==
  CASE op = "add"    -> Add(args[1], args[2])
    [] op = "add_bc" -> AddRow(args[1], args[2])
    [] op = "sub"    -> Sub(args[1], args[2])
    [] op = "mul"    -> Mul(args[1], args[2])
    [] op = "matmul" -> MatMul(args[1], args[2])
    [] op = "neg"    -> Neg(args[1])
    [] op = "square" -> Square(args[1])
    [] op = "relu"   -> Relu(args[1])
    [] op = "abs"    -> Magnitude(args[1])
    [] op = "sum"    -> Total(args[1])
    [] op = "sum0"   -> SumColumns(args[1])
    [] op = "sum1"   -> SumRows(args[1])
    [] op = "T"      -> Transposition(args[1])
    [] op = "flatten" -> Flatten(args[1])
    [] op = "embed"  -> Embedding(args[1], <<0, 1, 0>>)

(******************************* The graph *********************************)
Node(op, from, r) == [op |-> op, from |-> from, shape |-> r.shape, data |-> r.data,
                      jac |-> r.jac, grad |-> ZerosLike(r)]

GradInit ==
  /\ tape = [p \in Parameters |-> Node("param", << >>, [shape |-> Trainable[p].shape,
                                                 data |-> Trainable[p].data, jac |-> << >>])]
  /\ velocity = [p \in Parameters |-> ZerosLike(Trainable[p])]
  /\ due = [p \in Parameters |-> ZerosLike(Trainable[p])]
  /\ walked = FALSE /\ trainings = 0

Compute(op, from) ==
  /\ ~walked /\ trainings < Len(MaxGraphs)
  /\ Len(tape) < Len(Trainable) + MaxGraphs[trainings + 1]
  /\ tape' = Append(tape, Node(op, from, Result(op, [k \in DOMAIN from |-> tape[from[k]]])))
  /\ UNCHANGED <<velocity, walked, due, trainings>>

\* _build: children before their parents, each tensor once.
RECURSIVE Build(_, _)
Build(order, v) ==
  IF v \in ToSet(order) THEN order
  ELSE Append(FoldLeft(Build, order, SetToSeq(ToSet(tape[v].from))), v)

\* One closure: what v passes on to the tensor at place k of its arguments.
PassedOn(grads, v, k) ==
  LET c == tape[v].from[k] IN
  [grads EXCEPT ![c] = [j \in DOMAIN @ |->
     @[j] + SumOver(Len(tape[v].data), LAMBDA i : tape[v].jac[k][i][j] * grads[v][i])]]

Closure(grads, v) == FoldLeft(LAMBDA g, k : PassedOn(g, v, k), grads, [k \in DOMAIN tape[v].from |-> k])

\* A fault: what earlier passes left is not kept.
GradientsAfresh(root) ==
  FoldLeft(Closure, [v \in DOMAIN tape |-> IF v = root THEN [i \in DOMAIN tape[v].data |-> 1]
                                                        ELSE ZerosLike(tape[v])],
           Reverse(Build(<< >>, root)))

Gradients(root) ==
  FoldLeft(Closure, [v \in DOMAIN tape |-> IF v = root THEN [i \in DOMAIN tape[v].data |-> 1]
                                                        ELSE tape[v].grad],
           Reverse(Build(<< >>, root)))

(************************* What the gradients mean *************************)
\* The slope of an operation by the symmetric difference of its values: exact,
\* as no operation has a degree above two in one element.
Slope(v, k, i, j) ==
  LET args == [a \in DOMAIN tape[v].from |-> tape[tape[v].from[a]]]
      at(x) == Result(tape[v].op, [args EXCEPT ![k].data[j] = @ + x]).data[i]
  IN  (at(1) - at(-1)) \div 2

\* How the sum of root's elements moves with each element of each parameter.
Derivative(root) ==
  LET d[v \in DOMAIN tape] ==   \* d[v][i][p][j]: element i of v by element j of parameter p
        [i \in DOMAIN tape[v].data |-> [p \in Parameters |-> [j \in DOMAIN tape[p].data |->
           IF v \in Parameters THEN (IF v = p /\ i = j THEN 1 ELSE 0)
           ELSE SumOver(Len(tape[v].from), LAMBDA k :
                  SumOver(Len(tape[tape[v].from[k]].data), LAMBDA m :
                    Slope(v, k, i, m) * d[tape[v].from[k]][m][p][j]))]]]
  IN [p \in Parameters |-> [j \in DOMAIN tape[p].data |->
        SumOver(Len(tape[root].data), LAMBDA i : d[root][i][p][j])]]

Backward(root) ==
  /\ ~walked /\ root \notin Parameters
  /\ LET g == Gradients(root) IN
     tape' = [v \in DOMAIN tape |-> [tape[v] EXCEPT !.grad = g[v]]]
  /\ LET d == Derivative(root) IN
     due' = [p \in Parameters |-> [j \in DOMAIN due[p] |-> due[p][j] + d[p][j]]]
  /\ walked' = TRUE /\ trainings' = trainings + 1
  /\ UNCHANGED velocity

\* SGD with momentum and learning rate 1; the graph of the batch is gone.
Descend ==
  /\ walked
  /\ velocity' = [p \in Parameters |-> [j \in DOMAIN velocity[p] |-> velocity[p][j] + tape[p].grad[j]]]
  /\ tape' = [p \in Parameters |-> [tape[p] EXCEPT
                !.data = [j \in DOMAIN @ |-> @[j] - velocity'[p][j]]]]
  /\ walked' = FALSE
  /\ UNCHANGED <<due, trainings>>

\* The next batch without a step: its gradients add to those of this one.
DropGraph ==
  /\ walked
  /\ tape' = SubSeq(tape, 1, Len(Trainable))
  /\ walked' = FALSE
  /\ UNCHANGED <<velocity, due, trainings>>

ZeroGrad ==
  /\ Len(tape) = Len(Trainable) /\ due # [p \in Parameters |-> ZerosLike(tape[p])]
  /\ tape' = [p \in Parameters |-> [tape[p] EXCEPT !.grad = ZerosLike(tape[p])]]
  /\ due' = [p \in Parameters |-> ZerosLike(tape[p])]
  /\ UNCHANGED <<velocity, walked, trainings>>

GradNext ==
  \/ \E op \in Unary, a \in DOMAIN tape : Fits1(op, tape[a]) /\ Compute(op, <<a>>)
  \/ \E op \in Binary, a, b \in DOMAIN tape : Fits2(op, tape[a], tape[b]) /\ Compute(op, <<a, b>>)
  \/ Backward(Len(tape))
  \/ Descend \/ DropGraph
  \/ ZeroGrad

GradSpec == GradInit /\ [][GradNext]_gradVars

------------------------------------------------------------------------------
\* Whatever graph is built, with tensors used by several operations or twice by
\* one, the parameters hold the derivatives of all backward passes since they
\* were zeroed ("Builds a topological order over the computation graph,
\* initialises output gradient to 1, then calls each node's _backward closure in
\* reverse order", aios_phase4_nn.py:911-914).
GradientsAreDerivatives == \A p \in Parameters : tape[p].grad = due[p]

-----------------------------------------------------------------------------
(***************************************************************************)
(* Training in os/kernels/aios_phase4_nn.py: the tree of modules with its  *)
(* training flags, the way gradients take back through MiniTransformer,    *)
(* the learning-rate schedules, and NeuralTrainer.fit with early stopping. *)
(* Losses are members of a small set of numbers; one block stands for      *)
(* every block of the transformer.                                         *)
(***************************************************************************)

CONSTANTS
  Losses,        \* the validation losses an epoch may end with
  Epochs,        \* fit's epochs
  Patience,      \* fit's patience
  WarmupSteps, PeriodSteps   \* LRScheduler's warmup_steps and T_max

VARIABLES
  training,    \* Module._training of every module
  learned,     \* the parameters some train_step has given a gradient
  fitting,     \* where fit is: "train", "evaluate" or "over"
  valLosses,   \* history['val_loss']
  bestLoss, noImprove,
  schedule,    \* LRScheduler.schedule
  rateSteps,   \* LRScheduler._step_count
  rate,        \* optimizer.lr
  evaluatedIn  \* history: the flags of the last evaluate's forward passes

trainVars == <<training, learned, fitting, valLosses, bestLoss, noImprove,
               schedule, rateSteps, rate, evaluatedIn>>

(***************************** The module tree *****************************)
\* The modules that are attributes of a module, and those in a list attribute.
Attributes ==
  [model |-> {"tok_embed", "pos_embed", "ln_final", "head"},
   block |-> {"ln1", "attn", "ln2", "ff"},
   attn  |-> {"W_qkv", "W_o", "attn_dropout"},
   ff    |-> {"fc1", "fc2", "ff_dropout"}]
Listed == [model |-> {"block"}]

NnModules == DOMAIN Attributes \cup UNION {Attributes[m] : m \in DOMAIN Attributes}
Dropouts == {"attn_dropout", "ff_dropout"}
Weights == NnModules \ (DOMAIN Attributes \cup Dropouts)

Below(m) == IF m \in DOMAIN Attributes THEN Attributes[m] ELSE {}
Lists(m) == IF m \in DOMAIN Listed THEN Listed[m] ELSE {}

\* train_mode reaches attributes that are modules, not the members of lists.
TrainMode(flags, flag) ==
  LET direct == {"model"} \cup Below("model")
      reached == direct \cup UNION {Below(m) : m \in direct}
  IN [m \in NnModules |-> IF m \in reached THEN flag ELSE flags[m]]

\* parameters() of a module reaches both.
ParametersOf(m) ==
  LET children == UNION {Below(c) \cup Lists(c) : c \in {m}}
      deeper == UNION {Below(c) \cup Lists(c) : c \in children}
      deepest == UNION {Below(c) \cup Lists(c) : c \in deeper}
  IN Weights \cap (children \cup deeper \cup deepest)

(*********************** Gradients of the transformer **********************)
\* What a gradient of x reaches, after x went through a layer, and after its
\* data went into a new Tensor.
Through(reached, layer) == reached \cup {layer}
Rewrapped(reached) == {}

\* Q, K, V are new tensors, and so is the concatenation of the heads.
AttentionReach(reached) == Through(Rewrapped(Through(reached, "W_qkv")), "W_o")
FeedForwardReach(reached) == Through(Through(reached, "fc1"), "fc2")

\* Both residual sums are new tensors.
BlockReach(reached) ==
  LET attended == Rewrapped(AttentionReach(Through(reached, "ln1")))
  IN Rewrapped(FeedForwardReach(Through(attended, "ln2")))

ForwardReach ==
  LET embedded == Rewrapped({"tok_embed", "pos_embed"})
  IN Through(Through(BlockReach(embedded), "ln_final"), "head")

(****************************** The schedules ******************************)
\* The rate after t steps: a share of the base rate, a point of the cosine, or
\* a power of gamma.
RateAt(kind, t) ==
  CASE kind = "cosine" -> [by |-> "cosine", at |-> t, of |-> PeriodSteps]
    [] kind = "warmup_cosine" /\ t < WarmupSteps -> [by |-> "linear", at |-> t, of |-> WarmupSteps]
    [] kind = "warmup_cosine" -> [by |-> "cosine", at |-> t - WarmupSteps, of |-> PeriodSteps - WarmupSteps]
    [] kind = "exponential" -> [by |-> "power", at |-> t, of |-> 1]
    [] kind = "step" -> [by |-> "power", at |-> t \div PeriodSteps, of |-> 1]
BaseRate == [by |-> "power", at |-> 0, of |-> 1]

(******************************** The steps ********************************)
TrainInit ==
  /\ training = [m \in NnModules |-> TRUE]
  /\ learned = {}
  /\ fitting = "train" /\ valLosses = << >>
  /\ bestLoss = Max(Losses) + 1 /\ noImprove = 0
  /\ schedule \in {"cosine", "warmup_cosine", "exponential", "step"}
  /\ rateSteps = 0 /\ rate = BaseRate /\ evaluatedIn = {}

\* A step of MiniTransformer on its own, outside of fit.
TransformerStep ==
  /\ learned' = learned \cup (ForwardReach \cap ParametersOf("model"))
  /\ UNCHANGED <<training, fitting, valLosses, bestLoss, noImprove, schedule, rateSteps, rate, evaluatedIn>>

TrainEpoch ==
  /\ fitting = "train"
  /\ training' = TrainMode(training, TRUE)
  /\ learned' = learned \cup (ForwardReach \cap ParametersOf("model"))
  /\ rateSteps' = rateSteps + 1 /\ rate' = RateAt(schedule, rateSteps')
  /\ fitting' = "evaluate"
  /\ UNCHANGED <<valLosses, bestLoss, noImprove, schedule, evaluatedIn>>

\* A fault: an improvement leaves the count of epochs without one.
JudgeKeepingCount(loss) ==
  IF loss < bestLoss THEN /\ bestLoss' = loss /\ noImprove' = noImprove
                     ELSE /\ noImprove' = noImprove + 1 /\ UNCHANGED bestLoss

Judge(loss) ==
  IF loss < bestLoss THEN /\ bestLoss' = loss /\ noImprove' = 0
                     ELSE /\ noImprove' = noImprove + 1 /\ UNCHANGED bestLoss

Evaluate(loss) ==
  /\ fitting = "evaluate"
  /\ training' = TrainMode(training, FALSE)
  /\ evaluatedIn' = {m \in Dropouts : training'[m]}
  /\ valLosses' = Append(valLosses, loss)
  /\ Judge(loss)
  /\ fitting' = IF noImprove' >= Patience \/ Len(valLosses') = Epochs THEN "over" ELSE "train"
  /\ UNCHANGED <<learned, schedule, rateSteps, rate>>

TrainNext ==
  \/ TransformerStep
  \/ TrainEpoch
  \/ \E loss \in Losses : Evaluate(loss)

TrainSpec == TrainInit /\ [][TrainNext]_trainVars

------------------------------------------------------------------------------
Best(s) == Min(ToSet(s) \cup {Max(Losses) + 1})
StaleFor(n) ==
  /\ Len(valLosses) > n
  /\ LET before == Best(SubSeq(valLosses, 1, Len(valLosses) - n)) IN
     \A i \in Len(valLosses) - n + 1 .. Len(valLosses) : valLosses[i] >= before

\* fit stops early when, and only when, none of the last `patience` epochs was
\* better than the best before them ("patience=0 disables early stopping.",
\* aios_phase4_nn.py:1974).
StopsWhenStale ==
  fitting # "evaluate" /\ valLosses # << >> /\ Len(valLosses) < Epochs =>
    (fitting = "over" <=> StaleFor(Patience))

\* "pos_embed = Embedding(max_seq, d_model)   # learned positional"
\* (aios_phase4_nn.py:1771): a step of training gives the positions a gradient.
LearnedPositionsLearn == learned # {} => "pos_embed" \in learned

\* "No-op at eval time." (Dropout, aios_phase4_nn.py:1096)
DropoutOffInEvaluation == evaluatedIn = {}
=============================================================================
