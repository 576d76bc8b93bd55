---------------------------- MODULE TicksProofs ----------------------------
(* Proofs about Ticks for every length of a tick up to a second. *)
EXTENDS Ticks, TLAPS

\* A number is its quotient and its remainder.
LEMMA Division ==
    ASSUME NEW a \in Nat, NEW b \in Nat \ {0}
    PROVE  /\ a \div b \in Nat /\ a % b \in 0 .. b - 1
           /\ (a \div b) * b + (a % b) = a
OBVIOUS

LEMMA Product == ASSUME NEW a \in Nat, NEW b \in Nat PROVE a * b \in Nat
OBVIOUS

\* Quotients collect: (x + y + z) * s taken apart.
LEMMA Distribute ==
    ASSUME NEW x \in Nat, NEW y \in Nat, NEW z \in Nat, NEW s \in Nat
    PROVE  (x + y + z) * s = x * s + y * s + z * s
OBVIOUS

\* The timespec is normalised and stands for exactly the moment timeout ticks
\* after now.
LEMMA TimespecExact ==
    ASSUME NEW timeout \in Nat, NEW now \in Nat
    PROVE  LET ts == cp_timeoutToTimespec(timeout, now)
           IN  /\ ts \in [tv_sec : Nat, tv_nsec : 0 .. Second - 1]
               /\ Nanos(ts) = now + timeout * NanoInTick
<1> DEFINE total == timeout * NanoInTick
           nsec == (now % Second) + (total % Second)
           sec == (now \div Second) + (total \div Second) + (nsec \div Second)
<1>1. total \in Nat /\ Second \in Nat \ {0}
  BY TickAssumption, Product
<1>2. /\ now \div Second \in Nat /\ now % Second \in 0 .. Second - 1
      /\ (now \div Second) * Second + (now % Second) = now
  BY <1>1, Division
<1>3. /\ total \div Second \in Nat /\ total % Second \in 0 .. Second - 1
      /\ (total \div Second) * Second + (total % Second) = total
  BY <1>1, Division
<1>4. nsec \in Nat
  BY <1>2, <1>3
<1>5. /\ nsec \div Second \in Nat /\ nsec % Second \in 0 .. Second - 1
      /\ (nsec \div Second) * Second + (nsec % Second) = nsec
  BY <1>1, <1>4, Division
<1>6. cp_timeoutToTimespec(timeout, now) = [tv_sec |-> sec, tv_nsec |-> nsec % Second]
  BY DEF cp_timeoutToTimespec
<1>7. sec * Second = (now \div Second) * Second + (total \div Second) * Second
                        + (nsec \div Second) * Second
  <2> HIDE DEF nsec, total
  <2> QED
    BY <1>1, <1>2, <1>3, <1>5, Distribute
<1>8. sec * Second + (nsec % Second) = now + total
  <2>1. nsec = (now % Second) + (total % Second)
    OBVIOUS
  <2> HIDE DEF nsec, total, sec
  <2> QED
    BY <1>2, <1>3, <1>5, <1>7, <2>1, <1>1
<1>9. sec \in Nat
  BY <1>2, <1>3, <1>5
<1> QED
  BY <1>5, <1>6, <1>8, <1>9 DEF Nanos

\* The tick count is the number of whole ticks, modulo 2^32.
LEMMA TickCount ==
    ASSUME NEW now \in Nat
    PROVE  /\ osKernelGetTickCount(now) = (now \div NanoInTick) % Word
           /\ osKernelGetTickCount(now) \in TickValues
<1>1. 0 * NanoInTick = 0
  BY TickAssumption
<1>2. Nanos(cp_timeoutToTimespec(0, now)) = now
  BY <1>1, TimespecExact
<1>3. now \div NanoInTick \in Nat
  BY TickAssumption, Division
<1>4. Word \in Nat \ {0}
  BY WordAssumption
<1> QED
  BY <1>2, <1>3, <1>4, Division DEF osKernelGetTickCount, Nanos, TickValues

-----------------------------------------------------------------------------
(* Whole ticks, and counters that wrap. *)

\* Half of a product inequality: fewer whole ticks make fewer nanoseconds.
LEMMA Monotone ==
    ASSUME NEW a \in Int, NEW b \in Int, NEW n \in Nat, a <= b
    PROVE  a * n <= b * n
OBVIOUS

\* From x to y at least d whole ticks end if d ticks fit between them.
LEMMA WholeTicks ==
    ASSUME NEW x \in Nat, NEW y \in Nat, NEW d \in Nat, NEW n \in Nat \ {0},
           x + d * n <= y
    PROVE  (x \div n) + d <= y \div n
<1> DEFINE qx == x \div n
           qy == y \div n
<1>1. qx \in Nat /\ x % n \in 0 .. n - 1 /\ qx * n + (x % n) = x
  BY Division
<1>2. qy \in Nat /\ y % n \in 0 .. n - 1 /\ qy * n + (y % n) = y
  BY Division
<1> HIDE DEF qx, qy
<1>3. ASSUME qy + 1 <= qx + d PROVE FALSE
  <2>1. (qy + 1) * n <= (qx + d) * n
    BY <1>1, <1>2, <1>3, Monotone
  <2>2. (qy + 1) * n = qy * n + n /\ (qx + d) * n = qx * n + d * n
    BY <1>1, <1>2
  <2>3. qy * n \in Nat /\ qx * n \in Nat /\ d * n \in Nat
    BY <1>1, <1>2, Product
  <2> QED
    BY <1>1, <1>2, <2>1, <2>2, <2>3
<1>4. qx + d <= qy
  BY <1>1, <1>2, <1>3
<1> QED
  BY <1>4 DEF qx, qy

\* At most d whole ticks end if no more than d ticks lie between them.
LEMMA WholeTicksAtMost ==
    ASSUME NEW x \in Nat, NEW y \in Nat, NEW d \in Nat, NEW n \in Nat \ {0},
           y <= x + d * n
    PROVE  y \div n <= (x \div n) + d
<1> DEFINE qx == x \div n
           qy == y \div n
<1>1. qx \in Nat /\ x % n \in 0 .. n - 1 /\ qx * n + (x % n) = x
  BY Division
<1>2. qy \in Nat /\ y % n \in 0 .. n - 1 /\ qy * n + (y % n) = y
  BY Division
<1> HIDE DEF qx, qy
<1>3. ASSUME qx + d + 1 <= qy PROVE FALSE
  <2>1. (qx + d + 1) * n <= qy * n
    BY <1>1, <1>2, <1>3, Monotone
  <2>2. (qx + d + 1) * n = qx * n + d * n + n
    BY <1>1, Distribute
  <2>3. qy * n \in Nat /\ qx * n \in Nat /\ d * n \in Nat
    BY <1>1, <1>2, Product
  <2> QED
    BY <1>1, <1>2, <2>1, <2>2, <2>3
<1>4. qy <= qx + d
  BY <1>1, <1>2, <1>3
<1> QED
  BY <1>4 DEF qx, qy

\* There is only one way to divide.
LEMMA Remainder ==
    ASSUME NEW q \in Nat, NEW r \in Nat, NEW w \in Nat \ {0}, r < w
    PROVE  (q * w + r) % w = r
<1> DEFINE a == q * w + r
           d == a \div w
           m == a % w
<1>1. a \in Nat /\ q * w \in Nat
  BY Product
<1>2. d \in Nat /\ m \in 0 .. w - 1 /\ d * w + m = q * w + r /\ d * w \in Nat
  BY <1>1, Division, Product
<1> HIDE DEF a, d, m
<1>3. ASSUME NEW x \in Nat, NEW y \in Nat, x + 1 <= y
      PROVE  x * w + w <= y * w
  <2>1. (x + 1) * w <= y * w
    BY <1>3, Monotone
  <2>2. (x + 1) * w = x * w + w
    OBVIOUS
  <2> QED
    BY <2>1, <2>2
<1>4. CASE q + 1 <= d
  BY <1>1, <1>2, <1>3, <1>4
<1>5. CASE d + 1 <= q
  BY <1>1, <1>2, <1>3, <1>5
<1>6. CASE d = q
  BY <1>1, <1>2, <1>6 DEF m, a
<1> QED
  BY <1>2, <1>4, <1>5, <1>6

\* The difference of two counters that wrap, while it is less than a round.
LEMMA WrappedDifference ==
    ASSUME NEW a \in Nat, NEW b \in Nat, NEW w \in Nat \ {0},
           a <= b, b - a < w
    PROVE  ((b % w) - (a % w)) % w = b - a
<1> DEFINE r == a % w
           k == a \div w
           t == b - a
<1>1. r \in 0 .. w - 1 /\ k \in Nat /\ k * w + r = a /\ k * w \in Nat
  BY Division, Product
<1>2. t \in 0 .. w - 1
  OBVIOUS
<1>3. b = k * w + (r + t)
  BY <1>1
<1> HIDE DEF r, k, t
<1>4. CASE r + t < w
  <2>1. b % w = r + t
    <3>1. r + t \in Nat /\ w \in Nat \ {0}
      BY <1>1, <1>2
    <3>2. (k * w + (r + t)) % w = r + t
      BY <1>1, <1>4, <3>1, Remainder
    <3> QED
      BY <1>3, <3>2
  <2>2. (r + t) - r = t /\ t % w = t
    BY <1>1, <1>2
  <2> QED
    BY <2>1, <2>2 DEF r, t
<1>5. CASE r + t >= w
  <2>1. b = (k + 1) * w + (r + t - w)
    <3>1. (k + 1) * w = k * w + w
      BY <1>1
    <3> QED
      BY <1>1, <1>2, <1>3, <3>1
  <2>2. b % w = r + t - w
    <3>1. r + t - w \in Nat /\ r + t - w < w /\ k + 1 \in Nat
      BY <1>1, <1>2, <1>5
    <3>2. ((k + 1) * w + (r + t - w)) % w = r + t - w
      BY <3>1, Remainder
    <3> QED
      BY <2>1, <3>2
  <2>3. (r + t - w) - r = t - w /\ (t - w) % w = t
    BY <1>1, <1>2
  <2> QED
    BY <2>2, <2>3 DEF r, t
<1> QED
  BY <1>1, <1>2, <1>4, <1>5

\* The tick that NextReading looks for exists, and the difference of line 35 is
\* how far ahead it is.
LEMMA NextReadingIs ==
    ASSUME NEW ticks \in TickValues, NEW now \in Nat
    PROVE  LET n == NextReading(ticks, now)
           IN  /\ n \in Nat
               /\ (ticks - osKernelGetTickCount(now)) % Word = n - Tick(now)
<1> DEFINE c == Tick(now)
           r == c % Word
           k == c \div Word
<1>1. Word \in Nat \ {0} /\ ticks \in Nat /\ ticks < Word /\ c \in Nat
  BY WordAssumption, TickAssumption, Division DEF TickValues, Tick
<1>2. r \in 0 .. Word - 1 /\ k \in Nat /\ k * Word + r = c /\ k * Word \in Nat
  <2> HIDE DEF c
  <2> QED
    BY <1>1, Division, Product
<1>3. \E n \in c .. c + Word - 1 : n % Word = ticks
  <2> HIDE DEF c, r, k
  <2>1. CASE r <= ticks
    <3>1. k * Word + ticks \in c .. c + Word - 1
      BY <1>1, <1>2, <2>1
    <3>2. (k * Word + ticks) % Word = ticks
      BY <1>1, <1>2, Remainder
    <3> QED
      BY <3>1, <3>2
  <2>2. CASE ticks < r
    <3>1. (k + 1) * Word = k * Word + Word
      BY <1>1, <1>2
    <3>2. (k + 1) * Word + ticks \in c .. c + Word - 1
      BY <1>1, <1>2, <2>2, <3>1
    <3>3. ((k + 1) * Word + ticks) % Word = ticks
      <4>1. k + 1 \in Nat
        BY <1>2
      <4> QED
        BY <1>1, <4>1, Remainder
    <3> QED
      BY <3>2, <3>3
  <2> QED
    BY <1>1, <1>2, <2>1, <2>2
<1> DEFINE n == NextReading(ticks, now)
<1>4. n \in c .. c + Word - 1 /\ n % Word = ticks
  BY <1>3 DEF NextReading
<1>5. osKernelGetTickCount(now) = c % Word
  BY TickCount DEF Tick
<1> HIDE DEF n, c
<1>6. n \in Nat /\ c <= n /\ n - c < Word
  BY <1>1, <1>4
<1>7. ((n % Word) - (c % Word)) % Word = n - c
  BY <1>1, <1>6, WrappedDifference
<1> QED
  BY <1>4, <1>5, <1>6, <1>7 DEF n, c

-----------------------------------------------------------------------------
\* AimsExactly for the number of ticks that osDelay was given.
AimsDelta ==
    pc = "sleep" =>
        /\ Nanos(deadline) >= start + delta * NanoInTick
        /\ Nanos(deadline) <= clock + delta * NanoInTick

\* That number is what the caller wants, and the clock is not before the call.
Inv ==
    /\ TypeOK
    /\ delta = Wanted
    /\ AimsDelta
    /\ pc # "idle" => start <= clock

\* Initially nobody sleeps.
LEMMA InvInit == Init => Inv
<1> SUFFICES ASSUME Init PROVE Inv
  OBVIOUS
<1>1. deadline \in [tv_sec : Nat, tv_nsec : 0 .. Second - 1]
  BY TimespecExact DEF Init
<1>2. clock \in Nat /\ 0 \in TickValues
  BY TickAssumption, WordAssumption DEF Init, TickValues
<1>3. Tick(0) = 0
  <2>1. NanoInTick \in Nat /\ NanoInTick > 0
    BY TickAssumption
  <2>2. 0 \div NanoInTick = 0
    BY <2>1
  <2> QED
    BY <2>2 DEF Tick
<1>4. delta = Wanted
  BY <1>3 DEF Init, Wanted
<1> QED
  BY <1>1, <1>2, <1>4 DEF Init, Inv, TypeOK, AimsDelta

\* osDelay is given what its caller wants, by osDelayUntil beyond the wrap too.
LEMMA WantedStep ==
    ASSUME Inv, [Next]_vars
    PROVE  target' \in Nat /\ (delta = Wanted)'
<1>t. clock \in Nat /\ start \in Nat /\ target \in Nat /\ delta = Wanted
  BY DEF Inv, TypeOK
<1>1. ASSUME NEW ticks \in TickValues, DelayCall(ticks)
      PROVE  target' \in Nat /\ (delta = Wanted)'
  <2>1. ticks \in Nat /\ Tick(clock) \in Nat
    BY <1>t, TickAssumption, WordAssumption, Division DEF TickValues, Tick
  <2>2. delta' = ticks /\ target' = Tick(clock) + ticks /\ Tick(start') = Tick(clock)
    BY <1>1 DEF DelayCall
  <2>3. Wanted' = target' - Tick(start')
    BY DEF Wanted, Tick
  <2> QED
    BY <2>1, <2>2, <2>3
<1>2. ASSUME NEW ticks \in TickValues, DelayUntilCall(ticks)
      PROVE  target' \in Nat /\ (delta = Wanted)'
  <2>1. /\ target' \in Nat
        /\ delta' = target' - Tick(clock)
    BY <1>2, <1>t, NextReadingIs DEF DelayUntilCall
  <2>2. Wanted' = target' - Tick(clock)
    BY <1>2 DEF DelayUntilCall, Wanted, Tick
  <2> QED
    BY <2>1, <2>2
<1>3. CASE UNCHANGED <<delta, calls>>
  BY <1>3, <1>t DEF calls, Wanted, Tick
<1>4. ClockRuns \/ DelayUntilSleep \/ SleepInterrupted \/ Wake \/ UNCHANGED vars
        => UNCHANGED <<delta, calls>>
  BY DEF ClockRuns, DelayUntilSleep, SleepInterrupted, Wake, vars
<1> QED
  BY <1>1, <1>2, <1>3, <1>4 DEF Next

\* However the clock runs between its two readings, a deadline is delta ticks
\* from the second.
LEMMA InvStep == Inv /\ [Next]_vars => Inv'
<1> SUFFICES ASSUME Inv, [Next]_vars PROVE Inv'
  OBVIOUS
<1>t. clock \in Nat /\ start \in Nat /\ delta \in Nat /\ NanoInTick \in Nat
  BY TickAssumption, WordAssumption DEF Inv, TypeOK, TickValues
<1>w. target' \in Nat /\ (delta = Wanted)'
  BY WantedStep
<1>1. CASE ClockRuns
  <2>1. delta * NanoInTick \in Nat
    BY <1>t, Product
  <2>2. TypeOK' /\ (pc' # "idle" => start' <= clock')
    BY <1>1, <1>t, <1>w DEF ClockRuns, calls, Inv, TypeOK
  <2>3. ASSUME pc = "sleep" PROVE Nanos(deadline) \in Int
    <3>1. deadline.tv_sec * Second \in Nat /\ deadline.tv_nsec \in Nat
      BY TickAssumption, Product DEF Inv, TypeOK
    <3> QED
      BY <3>1 DEF Nanos
  <2>4. AimsDelta'
    BY <1>1, <1>t, <2>1, <2>3 DEF ClockRuns, calls, Inv, AimsDelta, Nanos
  <2> QED
    BY <1>w, <2>2, <2>4 DEF Inv
<1>2. ASSUME NEW ticks \in TickValues, DelayCall(ticks)
      PROVE  Inv'
  <2>1. ticks \in Nat
    BY WordAssumption DEF TickValues
  <2>2. /\ deadline' \in [tv_sec : Nat, tv_nsec : 0 .. Second - 1]
        /\ Nanos(deadline') = clock + ticks * NanoInTick
    BY <1>2, <1>t, <2>1, TimespecExact DEF DelayCall
  <2>3. ticks * NanoInTick \in Nat
    BY <1>t, <2>1, Product
  <2> QED
    BY <1>2, <1>t, <1>w, <2>2, <2>3 DEF DelayCall, Inv, TypeOK, AimsDelta, Nanos
<1>3. ASSUME NEW ticks \in TickValues, DelayUntilCall(ticks)
      PROVE  Inv'
  <2>1. delta' \in TickValues
    BY <1>3, <1>t, TickCount, WordAssumption DEF DelayUntilCall, TickValues
  <2> QED
    BY <1>3, <1>t, <1>w, <2>1 DEF DelayUntilCall, Inv, TypeOK, AimsDelta
<1>4. CASE DelayUntilSleep
  <2>1. /\ deadline' \in [tv_sec : Nat, tv_nsec : 0 .. Second - 1]
        /\ Nanos(deadline') = clock + delta * NanoInTick
    BY <1>4, <1>t, TimespecExact DEF DelayUntilSleep
  <2>2. delta * NanoInTick \in Nat /\ start <= clock
    BY <1>4, <1>t, Product DEF DelayUntilSleep, Inv
  <2> QED
    BY <1>4, <1>t, <1>w, <2>1, <2>2 DEF DelayUntilSleep, calls, Inv, TypeOK, AimsDelta, Nanos
<1>5. CASE SleepInterrupted \/ UNCHANGED vars
  BY <1>5, <1>w DEF SleepInterrupted, vars, calls, Inv, TypeOK, AimsDelta, Nanos
<1>6. CASE Wake
  BY <1>6, <1>w DEF Wake, calls, Inv, TypeOK, AimsDelta
<1> QED
  BY <1>1, <1>2, <1>3, <1>4, <1>5, <1>6 DEF Next

\* Deadlines are normalised timespecs, whatever the length of a tick.
THEOREM TypeCorrect == Spec => []TypeOK
<1>1. Inv => TypeOK
  BY DEF Inv
<1> QED
  BY <1>1, InvInit, InvStep, PTL DEF Spec

\* A delay of any number of ticks aims at exactly that many ticks from the
\* moment its clock was read.
THEOREM DelaysAimExactly == Spec => []AimsExactly
<1>1. Inv => AimsExactly
  BY DEF Inv, AimsDelta, AimsExactly
<1> QED
  BY <1>1, InvInit, InvStep, PTL DEF Spec

-----------------------------------------------------------------------------
(* What the tick count shows of a delay. *)

\* A step that wakes the thread is Wake, at the deadline or later.
LEMMA WakesAfterDeadline ==
    ASSUME Inv, [Next]_vars, pc = "sleep", pc' = "idle"
    PROVE  start + delta * NanoInTick <= clock
<1>1. clock \in Nat /\ start \in Nat /\ delta \in Nat
  BY WordAssumption DEF Inv, TypeOK, TickValues
<1>2. delta * NanoInTick \in Nat
  BY <1>1, TickAssumption, Product
<1>3. Wake
  BY DEF Next, ClockRuns, DelayCall, DelayUntilCall, DelayUntilSleep,
         SleepInterrupted, vars
<1>4. Nanos(deadline) \in Nat
  <2>1. deadline.tv_sec * Second \in Nat /\ deadline.tv_nsec \in Nat
    BY TickAssumption, Product DEF Inv, TypeOK
  <2> QED
    BY <2>1 DEF Nanos
<1> QED
  BY <1>1, <1>2, <1>3, <1>4 DEF Wake, Inv, AimsDelta

\* Whatever the length of a tick and wherever the count wraps, a delay measured
\* with the tick count is no shorter than what was asked for.
THEOREM DelaysAreMeasured == Spec => MeasuredDelay
<1>1. ASSUME Inv, [Next]_vars, pc = "sleep", pc' = "idle",
             clock - start <= (Word - 1) * NanoInTick
      PROVE  (osKernelGetTickCount(clock) - osKernelGetTickCount(start)) % Word >= Wanted
  <2> DEFINE qs == start \div NanoInTick
             qc == clock \div NanoInTick
  <2>1. /\ clock \in Nat /\ start \in Nat /\ delta \in Nat /\ delta = Wanted
        /\ NanoInTick \in Nat \ {0} /\ Word \in Nat \ {0} /\ Word - 1 \in Nat
    BY <1>1, TickAssumption, WordAssumption DEF Inv, TypeOK, TickValues
  <2>2. qs + delta <= qc
    BY <1>1, <2>1, WakesAfterDeadline, WholeTicks
  <2>3. (Word - 1) * NanoInTick \in Nat
    BY <2>1, Product
  <2>4. clock <= start + (Word - 1) * NanoInTick
    BY <1>1, <2>1, <2>3
  <2>5. qc <= qs + (Word - 1)
    BY <2>1, <2>4, WholeTicksAtMost
  <2>6. qs \in Nat /\ qc \in Nat
    BY <2>1, Division
  <2>7. /\ osKernelGetTickCount(clock) = qc % Word
        /\ osKernelGetTickCount(start) = qs % Word
    BY <2>1, TickCount
  <2> HIDE DEF qs, qc
  <2>8. qs <= qc /\ qc - qs < Word
    BY <2>1, <2>2, <2>5, <2>6
  <2>9. ((qc % Word) - (qs % Word)) % Word = qc - qs
    BY <2>1, <2>6, <2>8, WrappedDifference
  <2> QED
    BY <2>1, <2>2, <2>6, <2>7, <2>9
<1>2. Inv /\ [Next]_vars =>
        [pc = "sleep" /\ pc' = "idle" /\ clock - start <= (Word - 1) * NanoInTick =>
          (osKernelGetTickCount(clock) - osKernelGetTickCount(start)) % Word >= Wanted]_vars
  BY <1>1
<1> QED
  BY <1>2, InvInit, InvStep, PTL DEF Spec, MeasuredDelay
=============================================================================
