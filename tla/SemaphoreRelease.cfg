\* One Release against one Acquire.
CONSTANTS
    a = a
    r = r
    Acquirers = {a}
    Releasers = {r}
    MaxCounts = {1}
    Word = 8
    SemValueMax = 3
    Signals = FALSE
    None = None
SPECIFICATION Spec
INVARIANT ReleaseUpToMaximum
