---------------------------- MODULE MCWorkbench -----------------------------
(***************************************************************************)
(* The numeric, learning, rewriting and memory parts of AI_OS, its boot kernel, its*)
(* desktop, display server, terminal and keyboard, and its compiler, on    *)
(* small instances.  The components share no state: each behaviour is one  *)
(* of the part that is chosen at its start.                                *)
(***************************************************************************)
EXTENDS Numerics, Autograd, Automata, TermRewriting, Desktop, DisplayServer, Terminal,
        WorkbenchProofs, TLC

CONSTANTS u1, u2, n1, n2, none, panel, box

\* u1 and u2 are together in every set that one of them is in.
Symmetry == Permutations({u1, u2})

\* Shapes of one to three dimensions, to be broadcast, multiplied and transposed.
SomeShapes == {<<2, 3>>, <<3, 2>>, <<3>>, <<2, 1>>, <<2, 2, 3>>, <<1>>}
SomeOperands == {[shape |-> s, buffer |-> [p \in 1..Numel(s) |-> p * p - 4]] : s \in SomeShapes}

\* Two operations before the first backward pass, one before the second.
SomeGraphs == <<2, 1>>

SomeWeights == <<[shape |-> <<2, 2>>, data |-> <<1, -2, 0, 3>>], [shape |-> <<2>>, data |-> <<2, -1>>]>>

SomeDevices == [x |-> 0, y |-> 7]
SomeDrivers == [p |-> 1, q |-> 4, r |-> 2]

SomeRewards == {-2, 1}

SomeSpots == {<<0, 0>>, <<1, 0>>, <<0, 1>>, <<1, 1>>}

OneSeed == [pattern |-> CHOOSE g \in Gallery : TRUE, row |-> 0, col |-> 0]

\* A script by its extension, a binary by its magic and a program by its words.
SomeSources == {
    [ext |-> "sh", magic |-> "none", words |-> {"cat", "curl"},
     data |-> <<1, 1, 1, 1, 1, 2, 1, 1, 2, 2, 1, 3>>],
    [ext |-> "", magic |-> "elf", words |-> {}, data |-> <<1, 2, 3, 1, 1, 1, 2>>],
    [ext |-> "", magic |-> "none", words |-> {"def", "import", "socket"},
     data |-> <<1, 1, 1, 1, 1, 2, 3, 2, 1, 2>>]}

SomeModels == {<<[rows |-> 2, width |-> 1], [rows |-> 1, width |-> 2]>>, <<[rows |-> 3, width |-> 1]>>}
SomeSlices == {<<0, 2, 2>>, <<1, 0, 1>>, <<1, 3, 0>>}

\* Two tables of two planes, and embeddings that share some of their buckets.
SomePlanes == <<<<<<1, -1>>, <<0, 1>>>>, <<<<1, 1>>, <<-1, 1>>>>>>
SomeEmbeddings == [x |-> <<1, 0>>, y |-> <<2, 1>>, z |-> <<-1, -1>>]
\* 5 has the id of 1.
SomeFactIds == [k \in {1, 2, 3, 5} |-> IF k = 5 THEN 1 ELSE k]

\* Grows more slowly than the deviation does.
SomePowers == [d \in 0..12 |-> IF d < 4 THEN d + 1 ELSE 4 + d \div 4]
SomeImportances == {<<3, 0, 1>>, <<2, 2, 5, 1>>, <<1>>}

\* An opaque and a translucent paint, ends of lines outside the canvas, and rectangles that
\* reach over its sides, have an odd first row or cross the rows of cells.
SomePaints == {[c |-> 255, a |-> 255], [c |-> 201, a |-> 128]}
SomeCorners == {<<0, 0>>, <<4, 1>>, <<-1, 2>>}
SomeBoxes == {<<1, 0, 2, 3>>, <<-1, 1, 5, 1>>, <<0, 1, 3, 1>>, <<2, 2, 1, 2>>, <<0, 3, 2, 1>>}
SomeGlyph == {<<0, 0>>, <<1, 1>>}

\* A label and a box that overlap in the client panel.
SomePlaces == (n1 :> <<3, 0, 2, 1>>) @@ (panel :> <<0, 0, 6, 5>>) @@ (box :> <<0, 1, 3, 4>>)

\* Rules of one and of two operators on terms of depth one.
Word(n) == [op |-> "", name |-> n, args |-> << >>]
Wild(n) == [op |-> "?", name |-> n, args |-> << >>]
Pair(o, a, b) == [op |-> o, name |-> "", args |-> <<a, b>>]
Words == {Word("a"), Word("b")}
SomeTerms == Words \union {Pair(o, a, b) : o \in {"@", "|"}, a \in Words, b \in Words}
    \union {Pair("@", Pair("@", a, b), c) : a \in Words, b \in Words, c \in Words}
SomeRules == <<
    [pattern |-> Pair("|", Wild("x"), Wild("x")), replacement |-> Wild("x")],
    [pattern |-> Pair("@", Pair("@", Wild("x"), Wild("y")), Wild("z")),
     replacement |-> Pair("@", Wild("x"), Pair("@", Wild("y"), Wild("z")))],
    [pattern |-> Pair("@", Wild("x"), Word("b")), replacement |-> Pair("|", Wild("x"), Wild("w"))]>>

\* A directory with a file, an empty directory that cannot be read and one with entries.
SomeDisks == {{[at |-> <<1>>, kind |-> "file"], [at |-> <<2>>, kind |-> "dir"], [at |-> <<3>>, kind |-> "locked"],
    [at |-> <<2, 1>>, kind |-> "file"], [at |-> <<2, 2>>, kind |-> "dir"]}}

-----------------------------------------------------------------------------
VARIABLE part   \* the component this behaviour is one of

Init ==
    /\ part \in {"dual", "tensor", "trig", "feedback", "episodes", "replay", "dqn",
                  "rollouts", "reward", "autograd", "training", "automata", "boot",
                  "desktop", "parser", "cells", "tty", "evdev", "images", "execution",
                  "tensorfile", "window", "facts", "lsh", "draws", "canvas", "output",
                  "widgets", "server", "browser", "sgr", "pty", "rules"}
    /\ TensorInit /\ (part = "tensor" \/ tensor = CHOOSE t \in Operands : TRUE)
    /\ TrigInit /\ (part = "trig" \/ (task = "sincos" /\ given = 0))
    /\ TrainInit /\ (part = "training" \/ schedule = "step")
    /\ AutInit /\ (part = "automata" \/ <<rule, seeded>> = <<"life", OneSeed>>)
    /\ DesktopInit /\ (part = "desktop" \/ mouse = <<0, 0>>)
    /\ ExecutionInit /\ (part = "execution" \/ format = "bash")
    /\ DrawInit /\ (part = "draws" \/ episodesDrawnOf = <<1>>)
    /\ CanvasInit /\ (part = "canvas" \/ \A p \in Canvas : canvas[p].a = 0)
    /\ RuleInit /\ (part = "rules" \/ term = CHOOSE t \in Terms : TRUE)
    /\ DualInit /\ FeedbackInit /\ EpisodicInit /\ ReplayInit
    /\ DqnInit /\ RolloutInit /\ RewardInit /\ GradInit
    /\ BootInit /\ ParserInit /\ GridInit /\ TtyInit
    /\ EvdevInit /\ ImageInit /\ ModelFilesInit /\ WindowInit
    /\ FactInit /\ LshInit /\ OutputInit /\ WidgetInit
    /\ ServerInit /\ BrowserInit /\ SgrInit /\ PtyInit

\* The components share nothing: a step is one of the part that was chosen.
Only(p) ==
    /\ part = p /\ UNCHANGED part
    /\ IF p = "dual" THEN TRUE ELSE UNCHANGED dualVars
    /\ IF p = "tensor" THEN TRUE ELSE UNCHANGED tensorVars
    /\ IF p = "trig" THEN TRUE ELSE UNCHANGED trigVars
    /\ IF p = "feedback" THEN TRUE ELSE UNCHANGED feedbackVars
    /\ IF p = "episodes" THEN TRUE ELSE UNCHANGED memoryVars
    /\ IF p = "replay" THEN TRUE ELSE UNCHANGED replayVars
    /\ IF p = "dqn" THEN TRUE ELSE UNCHANGED dqnVars
    /\ IF p = "rollouts" THEN TRUE ELSE UNCHANGED rolloutVars
    /\ IF p = "reward" THEN TRUE ELSE UNCHANGED rewardVars
    /\ IF p = "autograd" THEN TRUE ELSE UNCHANGED gradVars
    /\ IF p = "training" THEN TRUE ELSE UNCHANGED trainVars
    /\ IF p = "automata" THEN TRUE ELSE UNCHANGED autVars
    /\ IF p = "boot" THEN TRUE ELSE UNCHANGED bootVars
    /\ IF p = "desktop" THEN TRUE ELSE UNCHANGED desktopVars
    /\ IF p = "parser" THEN TRUE ELSE UNCHANGED parserVars
    /\ IF p = "cells" THEN TRUE ELSE UNCHANGED gridVars
    /\ IF p = "tty" THEN TRUE ELSE UNCHANGED ttyVars
    /\ IF p = "evdev" THEN TRUE ELSE UNCHANGED evdevVars
    /\ IF p = "images" THEN TRUE ELSE UNCHANGED imageVars
    /\ IF p = "execution" THEN TRUE ELSE UNCHANGED executionVars
    /\ IF p = "tensorfile" THEN TRUE ELSE UNCHANGED modelFileVars
    /\ IF p = "window" THEN TRUE ELSE UNCHANGED windowVars
    /\ IF p = "facts" THEN TRUE ELSE UNCHANGED factVars
    /\ IF p = "lsh" THEN TRUE ELSE UNCHANGED lshVars
    /\ IF p = "draws" THEN TRUE ELSE UNCHANGED drawVars
    /\ IF p = "canvas" THEN TRUE ELSE UNCHANGED canvasVars
    /\ IF p = "output" THEN TRUE ELSE UNCHANGED outputVars
    /\ IF p = "widgets" THEN TRUE ELSE UNCHANGED widgetVars
    /\ IF p = "server" THEN TRUE ELSE UNCHANGED serverVars
    /\ IF p = "browser" THEN TRUE ELSE UNCHANGED browserVars
    /\ IF p = "sgr" THEN TRUE ELSE UNCHANGED sgrGiven
    /\ IF p = "pty" THEN TRUE ELSE UNCHANGED ptyVars
    /\ IF p = "rules" THEN TRUE ELSE UNCHANGED ruleVars

Next ==
    \/ Only("dual") /\ DualNext
    \/ Only("tensor") /\ TensorNext
    \/ Only("trig") /\ TrigNext
    \/ Only("feedback") /\ FeedbackNext
    \/ Only("episodes") /\ EpisodicNext
    \/ Only("replay") /\ ReplayNext
    \/ Only("dqn") /\ DqnStep
    \/ Only("rollouts") /\ RolloutNext
    \/ Only("reward") /\ RewardNext
    \/ Only("autograd") /\ GradNext
    \/ Only("training") /\ TrainNext
    \/ Only("automata") /\ AutNext
    \/ Only("boot") /\ BootNext
    \/ Only("desktop") /\ DesktopNext
    \/ Only("parser") /\ ParserNext
    \/ Only("cells") /\ GridNext
    \/ Only("tty") /\ TtyNext
    \/ Only("evdev") /\ EvdevNext
    \/ Only("images") /\ ImageNext
    \/ Only("execution") /\ ExecutionNext
    \/ Only("tensorfile") /\ ModelFilesNext
    \/ Only("window") /\ WindowNext
    \/ Only("facts") /\ FactNext
    \/ Only("lsh") /\ LshNext
    \/ Only("draws") /\ DrawNext
    \/ Only("canvas") /\ CanvasNext
    \/ Only("output") /\ OutputNext
    \/ Only("widgets") /\ WidgetNext
    \/ Only("server") /\ ServerNext
    \/ Only("browser") /\ BrowserNext
    \/ Only("sgr") /\ SgrNext
    \/ Only("pty") /\ PtyNext
    \/ Only("rules") /\ Rewrite

partVars == <<part, dualVars, tensorVars, trigVars, feedbackVars, memoryVars, replayVars,
                dqnVars, rolloutVars, rewardVars, gradVars, trainVars, autVars,
                bootVars, desktopVars, parserVars, gridVars, ttyVars, evdevVars,
                imageVars, executionVars, modelFileVars, windowVars, factVars, lshVars,
                drawVars, canvasVars, outputVars, widgetVars, serverVars, browserVars,
                sgrGiven, ptyVars, ruleVars>>

Spec == Init /\ [][Next]_partVars

-----------------------------------------------------------------------------
\* Dual numbers, tensors, angles and running means are what their definitions say, samples
\* and draws follow their priorities, what was indexed is found, a fit ends when it is stale,
\* a rewritten term is an instance of its rule and a pattern of the automata comes back after
\* its period (DualNumber, Tensor and CORDIC of aios_core.py, the normaliser of aios_reward.py,
\* the replay of aios_rl.py, the index and the consolidation of aios_memory.py, RuleEngine of
\* asis_enhanced.py, the training of aios_phase4_nn.py and aios_desktop.py).
NumbersAreExact ==
    /\ part = "dual" => DualIsDerivative
    /\ part = "tensor" => BufferMeans
    /\ part = "trig" => ReductionsExact
    /\ WelfordExact /\ StopsWhenStale /\ QueriesFindEntered
    /\ part = "replay" => SampledByPriority
    /\ part = "draws" => DrawsByShare
    /\ part = "automata" => PatternsPersist
    /\ part = "rules" => RewritesAreInstances

\* What changed on the screen is marked for repainting, and a click reaches the window on
\* top of it; a stroke changes what it should, a terminal shows the surface, a clean window
\* its widgets, a stopped server leaves the terminal as it was, and the selected file is in
\* view (aios_desktop.py and aios_display.py).
DesktopIsShown ==
    /\ DamageCovers /\ ClicksReachTheTop
    /\ part = "canvas" => DrawnAsAsked
    /\ part = "output" => TerminalShowsSurface
    /\ part = "widgets" => TreeIsShown
    /\ StopRestores /\ SelectedInView

\* Where an output is cut does not matter to the parser, and cells of the grid are nobody
\* else's; the last parameter about an attribute counts, and what the shell wrote arrives
\* (the terminal of aios_desktop.py).
TerminalIsFaithful ==
    /\ part = "parser" => ChunksDoNotMatter
    /\ CellsAreApart
    /\ part = "sgr" => LastParameterCounts
    /\ OutputArrives
=============================================================================
