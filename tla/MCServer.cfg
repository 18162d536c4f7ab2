CONSTANTS
    Conns = {c1}
    Setups <- MCSetups
    MaxItems = 2
    MaxFaults = 1
    MaxQueue = 1
    Proxies = {r1}
    MaxChunks = 1
    SelfTests = {t1, t2}
    TestThreads = 2
    MaxStimuli = 2
SPECIFICATION ServerSpec
INVARIANTS
    CompleteWhenUsed
    LockedLoadedOnce
    ServerTypeOK
    ReadyIsTrue
    OneTestAtATime
PROPERTIES
    ThreadsEnd
    ReadyArrives
    LoopServes
    WorkerStops
    TestLockFreed
CHECK_DEADLOCK FALSE
