\* Seconds of 5 and ticks of 3 nanoseconds, a tick count that wraps at 8.
CONSTANTS
    Second = 5
    NanoInTick = 3
    End = 60
    Word = 8
    SemValueMax = 3
    Signals = TRUE
    None = None
SPECIFICATION Spec
INVARIANTS
    TypeOK
    AimsExactly
PROPERTY MeasuredDelay
\* Time ends at the bound.
CHECK_DEADLOCK FALSE
