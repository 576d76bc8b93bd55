\* Two threads wait for signals, two give them, one of the former as well.
\* One size is larger than the POSIX semaphores can count.
CONSTANTS
    a1 = a1
    a2 = a2
    r1 = r1
    r2 = r2
    Acquirers = {a1, a2}
    Releasers = {r1, r2, a2}
    MaxCounts = {1, 2, 3, 5}
    Word = 8
    SemValueMax = 3
    Signals = FALSE
    None = None
SPECIFICATION LiveSpec
INVARIANTS
    TypeOK
    TokenConservation
PROPERTY SignalWakes
