\* Three clients, both types of mutex, recursive locks nested twice.
CONSTANTS
    t1 = t1
    t2 = t2
    t3 = t3
    Threads = {t1, t2, t3}
    Kinds = {"normal", "recursive"}
    DepthLimit = 2
    Careful = TRUE
    Word = 8
    SemValueMax = 3
    Signals = FALSE
    None = None
SPECIFICATION CSpec
INVARIANTS
    TypeOK
    OwnerNamesHolder
    NothingLeft
PROPERTY MutexIsHandedOver
