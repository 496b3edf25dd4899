SPECIFICATION FairSpec
CONSTANTS
    p1 = p1 p2 = p2 c1 = c1 c2 = c2
    Procs = {p1, p2}
    Callers = {c1, c2}
    Base <- OneUrgent
    AgingPeriod = 2
    QuantumBase = 2
    QuantumStep = 1
    MaxSleep = 1
    NoProc = NoProc
INVARIANT ProcessesKept
PROPERTIES IdlesOnlyWhenEmpty NoStarvation
