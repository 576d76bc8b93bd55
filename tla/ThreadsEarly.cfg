\* The default configuration: every thread has the default priority, and
\* threads may end before their creator's osThreadNew has returned.
CONSTANTS
    Main = main
    Threads = {t1, t2}
    Handlers = {h1, h2}
    Requests = {0}
    osPriorityNormal = 2
    osPriorityISR = 3
    Highest = 3
    Policies = {"SCHED_RR"}
    AffinityMayFail = FALSE
    Patient = FALSE
    None = None
SPECIFICATION Spec
INVARIANT StoreHitsOwnHandler
\* All threads may end.
CHECK_DEADLOCK FALSE
