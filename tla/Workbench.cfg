SPECIFICATION Spec
CONSTANTS
    u1 = u1 u2 = u2 n1 = n1 n2 = n2 none = none panel = panel box = box
    Terms <- SomeTerms Rules <- SomeRules
    Point = 2 Scalars = {2, 3} MaxDegree = 4 MaxDualSteps = 4
    Operands <- SomeOperands MaxOps = 3
    MaxTurns = 3 MaxExponent = 7 Base = 2
    Operators = {n1} MaxTraces = 3 TraceRing = 2 BufferCap = 3 EpisodeLen = 2 MaxThreads = 2
    MemoryUsers = {u1, u2} Important = {1} Capacity = 1 FactCapacity = 1 MaxEpisodes = 2
    MaxAccess = 1 MaxEpisodeLoads = 1 PromoteAccess = 1 MaxMemoryCalls = 6
    ReplayCapacity = 3 MaxPriority = 3 MaxPushes = 7
    RingSize = 3 BatchSize = 2 SyncEvery = 2 MaxDqnSteps = 8
    GridSize = 2 Walls = {} MaxSteps = 2 RolloutSteps = 3 MaxRollouts = 2
    Rewards <- SomeRewards Unit = 60 MaxShaped = 5 MaxCalls = 6 HistoryWindow = 3 StampWindow = 2 Recent = 4
    Trainable <- SomeWeights MaxGraphs <- SomeGraphs
    Losses = {1, 2, 3} Epochs = 5 Patience = 2 WarmupSteps = 2 PeriodSteps = 4
    GridRows = 6 GridCols = 6 MaxGenerations = 5
    BootAgents = {u1, u2} RamSizes = {65536, 16384} Scanned <- SomeDevices DriverEmbeds <- SomeDrivers
    MaxSeals = 18 MaxDispatches = 3
    Apps = {u1, u2} NoApp = none ScreenW = 2 ScreenH = 2 WinW = 2 WinH = 2 Spots <- SomeSpots
    DirtyFlushCap = 2 MaxEvents = 3 MaxOutputs = 1
    Bytes = {"ESC", "[", "O", "1", "A", "lead", "cont"} MaxBytes = 4
    Rows = 2 Cols = 2 Chars = {"x"} MaxEdits = 5
    KeyBytes = {"a", "ESC", "[", "O", "D", "BS"} MaxTyped = 4 QueueMax = 2 VisibleCols = 1
    KeyCodes = {"lshift", "rshift", "caps", "a"} MaxKeyEvents = 6
    Compilers = {u1, u2} Sources <- SomeSources RunMax = 3 MaxCompiles = 2 MaxLoads = 1
    Callers = {u1, u2} Formats = {"bash", "html", "unknown"} MaxExecutions = 3
    Models <- SomeModels RowSlices <- SomeSlices MaxSaves = 2 MaxReads = 1
    Attenders = {u1, u2} SlotCapacity = 2 MaxObservations = 4
    FactIdOf <- SomeFactIds Confidences = {5000, 9000} StoreCapacity = 2 MaxFacts = 3 MaxFactLoads = 1
    EmbeddingOf <- SomeEmbeddings Planes <- SomePlanes MaxInserts = 3
    Importances <- SomeImportances PowerOf <- SomePowers DimIn = 2 DimOut = 2
    CanvasW = 4 CanvasH = 3 Paints <- SomePaints Corners <- SomeCorners Boxes <- SomeBoxes
    Glyph <- SomeGlyph FontW = 2 FontH = 2 MaxClips = 2 MaxStrokes = 1
    TermCols = 3 TermRows = 2 Shades = {"a", "b"} MaxDamages = 3
    Labels = {n1} Inputs = {u1, u2} Client = panel Stack = box NoWidget = none WidgetAt <- SomePlaces
    InputH = 1 StackGap = 1 StackPad = 0 FrameW = 1 TitleH = 1 MaxChanges = 3
    Starters = {u1, u2} MaxStarts = 2
    Disks <- SomeDisks ViewRows = 2 MaxKeysPressed = 8 MaxDiskChanges = 1
    SgrCodes = {0, 1, 31, 38, 2, 5} MaxSgr = 5 PtyQueueMax = 2 MaxShellWrites = 4
SYMMETRY Symmetry
INVARIANTS
    NumbersAreExact GradientsAreDerivatives LearnsFromItsData BootIsInStep DesktopIsShown
    TerminalIsFaithful KeysAreTyped ImagesAreWhole
CHECK_DEADLOCK FALSE
