------------------------------- MODULE Ticks -------------------------------
(***************************************************************************)
(* Time: cp_timeoutToTimespec of cmsisPosix_Common.c, the tick count of     *)
(* cmsisPosix_Kernel.c, osDelay and osDelayUntil of cmsisPosix_Delay.c.     *)
(* Ticks are numbers of a uint32_t that wrap; deadlines are timespecs of    *)
(* the real-time clock.  One thread sleeps while the clock runs on between  *)
(* any two of its steps.  The clock is not set by anybody.                  *)
(*                                                                          *)
(* start and target are not in the code: they record when a call was made   *)
(* and which tick it is to sleep until, with ticks numbered from the epoch  *)
(* without wrapping.                                                        *)
(***************************************************************************)
EXTENDS Posix

CONSTANTS
    Second,      \* nanoseconds in a second
    NanoInTick,  \* CP_CONFIG_NANO_IN_TICK
    End          \* bound on the clock

\* The static assertion of cmsisPosix_Common.c, line 10.
ASSUME TickAssumption ==
    /\ Second \in Nat /\ NanoInTick \in 1 .. Second
    /\ End \in Nat

VARIABLES
    clock,     \* CLOCK_REALTIME in nanoseconds
    pc,        \* "idle", "until" between lines 35 and 36, or "sleep"
    delta,     \* argument of osDelay
    deadline,  \* the timespec of osDelay
    start,     \* clock when the outermost call was made
    target     \* number of the tick to sleep until

calls == <<start, target>>
vars == <<clock, pc, delta, deadline, calls>>

TickValues == 0 .. Word - 1

\* Fault: the nanoseconds that became a second are not taken away.
cp_timeoutToTimespec_keeps(timeout, now) ==
    LET total_nanos == timeout * NanoInTick
        nsec == (now % Second) + (total_nanos % Second)
    IN  [tv_sec  |-> (now \div Second) + (total_nanos \div Second)
                      + (nsec \div Second),
         tv_nsec |-> nsec]

\* Fault: the second that the nanoseconds add up to is lost.
cp_timeoutToTimespec_drops(timeout, now) ==
    LET total_nanos == timeout * NanoInTick
        nsec == (now % Second) + (total_nanos % Second)
    IN  [tv_sec  |-> (now \div Second) + (total_nanos \div Second),
         tv_nsec |-> nsec % Second]

cp_timeoutToTimespec(timeout, now) ==
    LET total_nanos == timeout * NanoInTick
        nsec == (now % Second) + (total_nanos % Second)
    IN  [tv_sec  |-> (now \div Second) + (total_nanos \div Second)
                      + (nsec \div Second),
         tv_nsec |-> nsec % Second]

osKernelGetTickCount(now) ==
    LET ts == cp_timeoutToTimespec(0, now)
    IN  ((ts.tv_sec * Second + ts.tv_nsec) \div NanoInTick) % Word

\* The moment a timespec stands for.
Nanos(ts) == ts.tv_sec * Second + ts.tv_nsec

Tick(now) == now \div NanoInTick

\* The first tick not before now at which the tick count reads ticks.
NextReading(ticks, now) ==
    CHOOSE n \in Tick(now) .. Tick(now) + Word - 1 : n % Word = ticks

-----------------------------------------------------------------------------
Init ==
    /\ clock \in 0 .. Second
    /\ pc = "idle"
    /\ delta = 0
    /\ deadline = cp_timeoutToTimespec(0, 0)
    /\ start = 0 /\ target = 0

ClockRuns ==
    /\ clock < End
    /\ clock' = clock + 1
    /\ UNCHANGED <<pc, delta, deadline, calls>>

DelayCall(ticks) ==
    /\ pc = "idle"
    /\ delta' = ticks
    /\ deadline' = cp_timeoutToTimespec(ticks, clock)
    /\ start' = clock
    /\ target' = Tick(clock) + ticks
    /\ pc' = "sleep"
    /\ UNCHANGED clock

\* Fault: a tick count that reads more than ticks is taken for a target that
\* has passed.
DelayUntilCall_unwrapped(ticks) ==
    /\ pc = "idle"
    /\ delta' = IF ticks > osKernelGetTickCount(clock)
                THEN ticks - osKernelGetTickCount(clock) ELSE 0
    /\ start' = clock
    /\ target' = NextReading(ticks, clock)
    /\ pc' = "until"
    /\ UNCHANGED <<clock, deadline>>

\* The absolute time becomes a duration; the clock is read again to turn it
\* into a deadline.
DelayUntilCall(ticks) ==
    /\ pc = "idle"
    /\ delta' = (ticks - osKernelGetTickCount(clock)) % Word
    /\ start' = clock
    /\ target' = NextReading(ticks, clock)
    /\ pc' = "until"
    /\ UNCHANGED <<clock, deadline>>

DelayUntilSleep ==
    /\ pc = "until"
    /\ deadline' = cp_timeoutToTimespec(delta, clock)
    /\ pc' = "sleep"
    /\ UNCHANGED <<clock, delta, calls>>

\* EINTR: the loop sleeps again until the same moment.
SleepInterrupted ==
    /\ pc = "sleep"
    /\ Signals
    /\ UNCHANGED vars

Wake ==
    /\ pc = "sleep"
    /\ clock >= Nanos(deadline)
    /\ pc' = "idle"
    /\ UNCHANGED <<clock, delta, deadline, calls>>

Next ==
    \/ ClockRuns
    \/ \E ticks \in TickValues : DelayCall(ticks) \/ DelayUntilCall(ticks)
    \/ DelayUntilSleep
    \/ SleepInterrupted
    \/ Wake

Spec == Init /\ [][Next]_vars

-----------------------------------------------------------------------------
\* Values have their C types; the nanoseconds of a deadline are less than a
\* second, as clock_nanosleep and sem_timedwait require (EINVAL would end the
\* loop of osDelay with osError at once).
TypeOK ==
    /\ clock \in Nat
    /\ pc \in {"idle", "until", "sleep"}
    /\ delta \in TickValues
    /\ deadline \in [tv_sec : Nat, tv_nsec : 0 .. Second - 1]
    /\ start \in Nat /\ target \in Nat

\* The number of ticks from the call to its target.
Wanted == target - Tick(start)

\* Who reads the tick count before and after a delay sees at least as many
\* ticks go by as lie before its target, also when the target or the count is
\* beyond the wrap, a tick does not divide a second or signals interrupt the
\* sleep (tests/src/kernel.c lines 31-34, tests/src/delay.c lines 88-93;
\* Delay.c line 35).  As the test's difference can tell only while fewer than
\* 2^32 ticks go by.
MeasuredDelay ==
    [][pc = "sleep" /\ pc' = "idle" /\ clock - start <= (Word - 1) * NanoInTick =>
          (osKernelGetTickCount(clock) - osKernelGetTickCount(start)) % Word >= Wanted]_vars

\* The deadline is as far ahead as the target was at the call, from the moment
\* the clock was read for it: not before that many ticks from the call, and
\* never further ahead than that many ticks, however full the current second
\* was (Common.c lines 18-28, Delay.c line 35).
AimsExactly ==
    pc = "sleep" =>
        /\ Nanos(deadline) >= start + Wanted * NanoInTick
        /\ Nanos(deadline) <= clock + Wanted * NanoInTick
=============================================================================
