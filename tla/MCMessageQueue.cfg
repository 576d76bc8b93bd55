\* Two threads of each role, one of them in both, and rings of 1 to 3 slots.
CONSTANTS
    p = p
    c = c
    both = both
    m1 = m1
    m2 = m2
    Producers = {p, both}
    Consumers = {c, both}
    Payloads = {m1, m2}
    Priorities = {1, 2}
    Word = 8
    SemValueMax = 3
    Signals = TRUE
    Garbage = Garbage
    None = None
SPECIFICATION CSpec
SYMMETRY Symmetry
INVARIANTS
    TypeOK
    TokenConservation
    MutexHeld
    RingMatchesTokens
    PriorityOrdered
    NothingLeft
PROPERTY ImplementsPriorityQueue
