\* Three clients share the tokens of a semaphore of size 1 to 3, or of one
\* that is larger than its POSIX semaphores can count.
CONSTANTS
    t1 = t1
    t2 = t2
    t3 = t3
    Acquirers = {t1, t2, t3}
    Releasers = {t1, t2, t3}
    MaxCounts = {1, 2, 3, 5}
    Word = 8
    SemValueMax = 3
    Signals = FALSE
    None = None
SPECIFICATION HLiveSpec
INVARIANTS
    AtMostInitial
    HolderReleaseSucceeds
PROPERTY WaitersProceed
