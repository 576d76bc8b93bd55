\* The main thread and two others; the handler of an ended thread and its
\* pthread_t are used again.
CONSTANTS
    Main = main
    Threads = {t1, t2}
    Handlers = {h1, h2, h3}
    Requests = {0, 1, 3, 4}
    osPriorityNormal = 2
    osPriorityISR = 3
    Highest = 3
    Policies = {"SCHED_OTHER", "SCHED_RR"}
    AffinityMayFail = TRUE
    Patient = TRUE
    None = None
SPECIFICATION LiveSpec
INVARIANTS
    TypeOK
    NobodyBeforeStart
    HandlerNamesThread
    StoreHitsOwnHandler
    NoZombies
PROPERTIES
    HandlersAreFreed
    MainMakesWay
\* All threads may end.
CHECK_DEADLOCK FALSE
