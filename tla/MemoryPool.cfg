\* Three clients that free what they own, and stray pointers, in pools of one
\* and two blocks.
CONSTANTS
    t1 = t1
    t2 = t2
    t3 = t3
    Threads = {t1, t2, t3}
    BlockCounts = {1, 2}
    Disciplined = TRUE
    Stray = Stray
    Word = 8
    SemValueMax = 3
    Signals = FALSE
    None = None
SPECIFICATION CSpec
INVARIANTS
    TypeOK
    BlockConservation
    AllocFindsBlock
    ExclusiveOwnership
    NothingLeft
PROPERTY FreedBlockIsReused
\* Clients that keep all blocks and ask for one more wait for ever.
CHECK_DEADLOCK FALSE
