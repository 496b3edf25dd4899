SPECIFICATION FairSpec
CONSTANTS
    w1 = w1 w2 = w2 w3 = w3 c1 = c1 c2 = c2
    t1 = t1 t2 = t2 t3 = t3 t4 = t4 t5 = t5
    Workers = {w1, w2}
    Clients = {c1}
    Tasks = {t1, t2, t3}
    Rebalancer = Rebalancer
    Drainer = Drainer
    Depth = 2
    Far <- NoneFar
    Exits = {t3}
    MayCancel = FALSE
    MayStop = FALSE
    NoTask = NoTask
PROPERTY OrdinaryTasksSignalled
