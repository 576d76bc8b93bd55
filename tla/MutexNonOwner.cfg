\* Clients that also release mutexes they do not hold.
CONSTANTS
    t1 = t1
    t2 = t2
    Threads = {t1, t2}
    Kinds = {"normal", "recursive"}
    DepthLimit = 2
    Careful = FALSE
    Word = 8
    SemValueMax = 3
    Signals = FALSE
    None = None
SPECIFICATION Spec
PROPERTY OnlyOwnerReleases
