\* The owner field of a mutex that two threads pass to each other, or that one
\* of them locks twice.
CONSTANTS
    t1 = t1
    t2 = t2
    Threads = {t1, t2}
    Kinds = {"normal", "recursive"}
    DepthLimit = 2
    Careful = TRUE
    Word = 8
    SemValueMax = 3
    Signals = FALSE
    None = None
SPECIFICATION Spec
INVARIANT OwnerWhileHeld
