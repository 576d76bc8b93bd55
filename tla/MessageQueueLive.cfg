\* Two producers compete for the slots that one consumer frees.
CONSTANTS
    p1 = p1
    p2 = p2
    c = c
    m1 = m1
    m2 = m2
    Producers = {p1, p2}
    Consumers = {c}
    Payloads = {m1, m2}
    Priorities = {1, 2}
    Word = 8
    SemValueMax = 2
    Signals = FALSE
    Garbage = Garbage
    None = None
SPECIFICATION LiveSpec
PROPERTIES
    BlockedGetIsFed
    BlockedPutsProceed
    UrgentIsDelivered
