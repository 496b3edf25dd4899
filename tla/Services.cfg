SPECIFICATION Spec
CONSTANTS
    u1 = u1 u2 = u2 u3 = u3 n1 = n1 n2 = n2 n3 = n3 k1 = k1 h1 = h1 h2 = h2 none = none
    Ips = {n1, n2} Router = n1 Resolvers = {u1, u2} NoOne = none
    Callers = {u1, u2} Names = {n1} Ids = {1, 2, 3} UniqueIds = TRUE MaxRetries = 2
    NoCaller = none NoId = none
    Clients = {u1, u2} MaxStarts = 3
    Size = 5 MaxJumps = 3 Lengths = {0, 17, 18, 1472, 1473}
    Threads = {u1, u2, u3} MaxValue = 2
    Publishers = {h1} SubIds = {n1, n2} Patterns <- SomePatterns Topics <- SomeTopics
    Priorities = {1, 2} MaxSubscribes = 2
    Users = {u1, u2} ObjectNames = {n1, n2} MaxObjects = 3 QueueSize = 1
    ChannelAgents = {u1, u2, u3} ChannelSize = 2 MaxRequests = 2
    Tasks = {n1, n2, n3} Composed = {n1, n2} Faulty = {n2} MaxRuns = 2 StepLimits = {3, 9}
    KernelUsers = {u1, u2} ClassTools = {k1} AttachedTools = {n1} MaxBoots = 2
    MemoryClients = {u1, u2} Pages = 4 LowPages = 1 VirtualPages = {n1} NoClient = none
    BusUsers = {u1, u2} Regions = {n1, n2, n3} Bars = {n3} MaxPhys = 4 MaxRegion = 2
    Irqs = {0, 1, 12} Scancodes = {30, 48} BufferSize = 2 MaxPresses = 3
    Rows = 2 Cols = 2 Letters = {"a", "b"} MaxText = 5
    VfsUsers = {u1, u2} Paths <- SomePaths OpenModes <- SomeModes MaxFds = 7 MaxNodes = 1 MaxFile = 1
    GateUsers = {u1, u2} MaxEntries = 2 Pids = {0, 1} RegisterSize = 256
    BufferLength = 7 WordBytes = 2 SmallMax = 2 ErmsThreshold = 5 MaxCopies = 1
    HwUsers = {h1, h2} Owners = {h1} Machines <- SomeMachines NeededSizes = {2} MsrSize = 4
    MaxTicks = 5 MaxBuses = 2 MaxMeasures = 2
    TaskPriorities = {0, 1} MaxTasks = 2 MaxClock = 2 SortEvery = 2
    Topologies <- SomeTopologies PerNode = 1 WantedNodes = {0, 7, none} Anywhere = none QueueDepth = 2
    IpcSamples = {0} MissSamples = {0, 1000} MaxFinished = 2 ItemCount = 3 MayTimeOut = TRUE
    SystemNames = {n1, n2} ImageSizes <- SomeSizes EspSizes = {5} Kilo = 9 Kibi = 10 DownloadSize = 8
    Sector = 1 Align = 3 MinRoot = 4 MaxImages = 2 MaxMappers = 2 MaxCommands = 3 NoSystem = none
    MaxListed = 3 MaxKeys = 4
SYMMETRY Symmetry
INVARIANTS
    NoReplyMissed LookupsAreAnswered OpenWhileRunning SleepersLackPermits FramesDecode MessagesFindTheirWay
    TasksAreServed StorageIsApart KernelIsWhole HardwareIsTold SystemsAreWhole
PROPERTY ReadyWithRegions
CHECK_DEADLOCK FALSE
