--------------------------- MODULE ThreadsProofs ---------------------------
(* Proofs about Threads for any number of threads, handlers and priorities. *)
EXTENDS Threads, TLAPS

\* Calls of osThreadNew after pthread_create.
InNew == {t \in Everybody : pc[t] \in {"store", "return"}}

\* The main thread is never blocked and keeps its priority, and nobody has a
\* higher one; threads come into being after it has initialised the kernel.
MainIsFirst ==
    /\ pc[Main] \in {"boot", "body", "store", "return", "ended"}
    /\ pc[Main] = "boot" => ~ pinned /\ \A c \in Threads : pc[c] = "ended"
    /\ pc[Main] # "boot" => prio[Main] = Level(osPriorityISR)
    /\ \A c \in Threads : prio[c] <= osPriorityISR

\* A thread is joinable exactly as long as one call of osThreadNew is making it.
Joinable ==
    /\ \A c \in Threads : c \notin detached => \E t \in InNew : new[t].child = c
    /\ \A t \in InNew : new[t].child \notin detached
    /\ \A t, u \in InNew : new[t].child = new[u].child /\ new[t].child # None => t = u

\* Handlers belong to one thread that has not ended, or to one call that failed.
Owned ==
    /\ \A c \in Threads : pc[c] # "ended" => arg[c] \in live
    /\ \A c \in Threads : pc[c] \notin {"ready", "ended"} => key[c] = arg[c]
    /\ \A c, d \in Threads : pc[c] # "ended" /\ arg[c] = arg[d] => c = d
    /\ \A t \in InNew : new[t].child = None =>
          /\ new[t].handler \in live
          /\ \A c \in Threads : arg[c] # new[t].handler
          /\ \A u \in InNew :
                new[u].child = None /\ new[u].handler = new[t].handler => u = t

\* Until the creator has stored the pthread_t its thread is there, and once
\* the thread has come first to its wrapper the pthread_t is stored.
Stored ==
    /\ \A t \in InNew : new[t].child # None =>
          pc[new[t].child] # "ended" /\ arg[new[t].child] = new[t].handler
    /\ \A c \in Threads : pc[c] \notin {"ready", "ended"} => thread[arg[c]] = c
-----------------------------------------------------------------------------
(* Types. *)

\* Before the kernel is initialised there is only the main thread.
LEMMA TypeInit == Init => TypeOK
<1> SUFFICES ASSUME Init PROVE TypeOK
  OBVIOUS
<1> USE PrioritiesAssumption, NamesAssumption
<1>1. new \in [Everybody -> {NoCall}] /\ \A t \in Everybody : new[t] = NoCall
  BY DEF Init
<1>2. /\ pc \in [Everybody -> {"boot", "ended"}]
      /\ prio \in [Everybody -> 0 .. Highest]
      /\ \A c \in Threads : pc[c] = "ended" /\ arg[c] = None
  BY DEF Init, Everybody
<1> QED
  BY <1>1, <1>2 DEF Init, TypeOK

\* What osThreadNew does if pthread_create succeeds, and if it fails.
Made(t, p, h, c) ==
    /\ pc' = [pc EXCEPT ![c] = "ready", ![t] = "store"]
    /\ prio' = [prio EXCEPT ![c] = Level(Asked(p))]
    /\ arg' = [arg EXCEPT ![c] = h]
    /\ detached' = detached \ {c}
    /\ new' = [new EXCEPT ![t] = [handler |-> h, child |-> c]]

NotMade(t, h) ==
    /\ pc' = [pc EXCEPT ![t] = "store"]
    /\ new' = [new EXCEPT ![t] = [handler |-> h, child |-> None]]
    /\ UNCHANGED <<prio, arg, detached>>

\* Every operation keeps the types.
LEMMA TypeStep == TypeOK /\ [Next]_vars => TypeOK'
<1> SUFFICES ASSUME TypeOK, [Next]_vars PROVE TypeOK'
  OBVIOUS
<1> USE PrioritiesAssumption, NamesAssumption
<1>1. CASE osKernelInitialize
  <2>1. pinned' \in BOOLEAN
    BY <1>1 DEF osKernelInitialize, cp_threadUseSingleCpu
  <2>2. /\ prio' = [prio EXCEPT ![Main] = Level(osPriorityISR)]
        /\ pc[Main] = "boot" /\ pc' = [pc EXCEPT ![Main] = "body"]
        /\ UNCHANGED <<policy, arg, key, detached, live, thread, new>>
    BY <1>1 DEF osKernelInitialize, cp_threadUseSingleCpu
  <2>3. Level(osPriorityISR) \in 0 .. Highest
    BY DEF Level
  <2> QED
    BY <2>1, <2>2, <2>3 DEF TypeOK, Everybody
<1>2. CASE osKernelStart
  BY <1>2 DEF osKernelStart, TypeOK, Everybody, NoCall
<1>3. ASSUME NEW t \in Everybody, NEW p \in Requests, NewRefused(t, p)
      PROVE  TypeOK'
  BY <1>3 DEF NewRefused, TypeOK, Everybody, NoCall
<1>4. ASSUME NEW t \in Everybody, NEW p \in Requests, NewCreate(t, p)
      PROVE  TypeOK'
  <2>1. PICK h \in Handlers \ live :
          live' = live \cup {h} /\ ((\E c \in Unused : Made(t, p, h, c)) \/ NotMade(t, h))
    BY <1>4 DEF NewCreate, Made, NotMade
  <2>2. /\ pc[t] = "body" /\ UNCHANGED <<policy, pinned, key, thread>>
        /\ Level(Asked(p)) \in 0 .. Highest
    BY <1>4 DEF NewCreate, Level, Asked
  <2>3. ASSUME NEW c \in Unused, Made(t, p, h, c)
        PROVE  TypeOK'
    <3>1. c \in Threads /\ c # t /\ pc[c] = "ended"
      BY <2>2 DEF Unused, TypeOK
    <3>2. [handler |-> h, child |-> c] # NoCall
      BY DEF NoCall
    <3>3. \A d \in Threads : arg'[d] = None <=> pc'[d] = "ended"
      BY <2>2, <2>3, <3>1 DEF Made, TypeOK, Everybody
    <3>4. \A u \in Everybody : pc'[u] \in {"store", "return"} <=> new'[u] # NoCall
      BY <2>2, <2>3, <3>1, <3>2 DEF Made, TypeOK, Everybody
    <3> QED
      BY <2>1, <2>2, <2>3, <3>1, <3>3, <3>4 DEF Made, TypeOK, Everybody
  <2>4. ASSUME NotMade(t, h)
        PROVE  TypeOK'
    <3>1. [handler |-> h, child |-> None] # NoCall
      BY DEF NoCall
    <3> QED
      BY <2>1, <2>2, <2>4, <3>1 DEF NotMade, TypeOK, Everybody
  <2> QED
    BY <2>1, <2>3, <2>4
<1>5. ASSUME NEW t \in Everybody, NEW p \in Requests, NEW c \in Threads, osThreadSetPriority(t, c, p)
      PROVE  TypeOK'
  <2>1. p \in 0 .. Highest
    BY <1>5 DEF osThreadSetPriority
  <2>2. /\ prio' = [prio EXCEPT ![thread[arg[c]]] = p]
        /\ UNCHANGED <<policy, pinned, pc, arg, key, detached, live, thread, new>>
    BY <1>5 DEF osThreadSetPriority
  <2>3. prio' \in [Everybody -> 0 .. Highest]
    BY <2>1, <2>2 DEF TypeOK
  <2> QED
    BY <2>2, <2>3 DEF TypeOK
<1>6. ASSUME NEW t \in Everybody, NewStore(t)
      PROVE  TypeOK'
  BY <1>6 DEF NewStore, TypeOK, Everybody, NoCall
<1>7. ASSUME NEW t \in Everybody, NewFail(t)
      PROVE  TypeOK'
  BY <1>7 DEF NewFail, Return, TypeOK, Everybody, NoCall
<1>8. ASSUME NEW t \in Everybody, NewReturn(t)
      PROVE  TypeOK'
  BY <1>8 DEF NewReturn, Return, TypeOK, Everybody, NoCall
<1>9. ASSUME NEW c \in Threads, cp_threadWrapper(c)
      PROVE  TypeOK'
  BY <1>9 DEF cp_threadWrapper, TypeOK, Everybody, NoCall
<1>10. ASSUME NEW c \in Threads, osThreadExit(c)
      PROVE  TypeOK'
  BY <1>10 DEF osThreadExit, cp_threadDataCleanup, BeingMade, TypeOK, Everybody, NoCall
<1>11. ASSUME NEW c \in Threads, Block(c)
      PROVE  TypeOK'
  BY <1>11 DEF Block, TypeOK, Everybody, NoCall
<1>12. ASSUME NEW c \in Threads, Unblock(c)
      PROVE  TypeOK'
  BY <1>12 DEF Unblock, TypeOK, Everybody, NoCall
<1>13. CASE UNCHANGED vars
  BY <1>13 DEF vars, TypeOK, Everybody, NoCall
<1> QED
  BY <1>1, <1>2, <1>3, <1>4, <1>5, <1>6, <1>7, <1>8, <1>9, <1>10, <1>11, <1>12, <1>13 DEF Next

\* Values have their types whatever pthread_create, the scheduler and the
\* clients do; a call of osThreadNew has its handler until it returns.
THEOREM TypeCorrect == Spec => []TypeOK
BY TypeInit, TypeStep, PTL DEF Spec

-----------------------------------------------------------------------------
(* Who runs first. *)

\* In the beginning there is nothing but the main thread.
LEMMA MainInit == Init => MainIsFirst
BY PrioritiesAssumption, NamesAssumption DEF Init, MainIsFirst, Everybody

\* Nobody gets above the main thread, which is never blocked.
LEMMA MainStep == TypeOK /\ MainIsFirst /\ [Next]_vars => MainIsFirst'
<1> SUFFICES ASSUME TypeOK, MainIsFirst, [Next]_vars PROVE MainIsFirst'
  OBVIOUS
<1> USE PrioritiesAssumption, NamesAssumption
<1>1. CASE osKernelInitialize
  <2>1. /\ prio' = [prio EXCEPT ![Main] = Level(osPriorityISR)]
        /\ pc[Main] = "boot" /\ pc' = [pc EXCEPT ![Main] = "body"]
        /\ policy' = policy
    BY <1>1 DEF osKernelInitialize, cp_threadUseSingleCpu
  <2> QED
    BY <2>1 DEF MainIsFirst, TypeOK, Everybody, Level
<1>2. CASE osKernelStart
  BY <1>2 DEF osKernelStart, MainIsFirst, TypeOK, Everybody, Level
<1>3. ASSUME NEW t \in Everybody, NEW p \in Requests,
             NewRefused(t, p)
      PROVE  MainIsFirst'
  BY <1>3 DEF NewRefused, MainIsFirst, TypeOK, Everybody, Level
<1>4. ASSUME NEW t \in Everybody, NEW p \in Requests,
             NewCreate(t, p)
      PROVE  MainIsFirst'
  <2>0. Level(Asked(p)) <= osPriorityISR
    BY <1>4 DEF NewCreate, Level, Asked
  <2>1. PICK h \in Handlers \ live :
          live' = live \cup {h} /\ ((\E c \in Unused : Made(t, p, h, c)) \/ NotMade(t, h))
    BY <1>4 DEF NewCreate, Made, NotMade
  <2>2. pc[t] = "body" /\ UNCHANGED <<policy, pinned, key, thread>>
    BY <1>4 DEF NewCreate
  <2>3. ASSUME NEW c \in Unused, Made(t, p, h, c)
        PROVE  MainIsFirst'
    <3>1. c \in Threads /\ c # t /\ c # Main /\ pc[Main] # "boot"
      BY <2>2 DEF Unused, TypeOK, MainIsFirst, Everybody
    <3>2. \A d \in Threads : prio'[d] <= osPriorityISR
      BY <2>0, <2>3, <3>1 DEF Made, MainIsFirst, TypeOK, Everybody
    <3> QED
      BY <2>2, <2>3, <3>1, <3>2 DEF Made, MainIsFirst, TypeOK, Everybody, Level
  <2>4. ASSUME NotMade(t, h)
        PROVE  MainIsFirst'
    BY <2>2, <2>4 DEF NotMade, MainIsFirst, TypeOK, Everybody, Level
  <2> QED
    BY <2>1, <2>3, <2>4
<1>5. ASSUME NEW t \in Everybody, NEW p \in Requests, NEW c \in Threads,
             osThreadSetPriority(t, c, p)
      PROVE  MainIsFirst'
  <2>1. p <= osPriorityISR
    BY <1>5 DEF osThreadSetPriority
  <2>2. /\ prio' = [prio EXCEPT ![thread[arg[c]]] = p]
        /\ UNCHANGED <<policy, pinned, pc>>
    BY <1>5 DEF osThreadSetPriority
  <2>3. arg[c] \in Handlers
    BY <1>5 DEF osThreadSetPriority, Known, TypeOK
  <2>4. prio'[Main] = prio[Main] /\ \A d \in Threads : prio'[d] <= osPriorityISR
    BY <2>1, <2>2, <2>3 DEF MainIsFirst, TypeOK, Everybody
  <2> QED
    BY <2>2, <2>4 DEF MainIsFirst, Level
<1>6. ASSUME NEW t \in Everybody,
             NewStore(t)
      PROVE  MainIsFirst'
  BY <1>6 DEF NewStore, MainIsFirst, TypeOK, Everybody, Level
<1>7. ASSUME NEW t \in Everybody,
             NewFail(t)
      PROVE  MainIsFirst'
  BY <1>7 DEF NewFail, Return, MainIsFirst, TypeOK, Everybody, Level
<1>8. ASSUME NEW t \in Everybody,
             NewReturn(t)
      PROVE  MainIsFirst'
  BY <1>8 DEF NewReturn, Return, MainIsFirst, TypeOK, Everybody, Level
<1>9. ASSUME NEW c \in Threads,
             cp_threadWrapper(c)
      PROVE  MainIsFirst'
  BY <1>9 DEF cp_threadWrapper, MainIsFirst, TypeOK, Everybody, Level
<1>10. ASSUME NEW c \in Threads,
             osThreadExit(c)
      PROVE  MainIsFirst'
  BY <1>10 DEF osThreadExit, cp_threadDataCleanup, MainIsFirst, TypeOK, Everybody, Level
<1>11. ASSUME NEW c \in Threads,
             Block(c)
      PROVE  MainIsFirst'
  BY <1>11 DEF Block, MainIsFirst, TypeOK, Everybody, Level
<1>12. ASSUME NEW c \in Threads,
             Unblock(c)
      PROVE  MainIsFirst'
  BY <1>12 DEF Unblock, MainIsFirst, TypeOK, Everybody, Level
<1>13. CASE UNCHANGED vars
  BY <1>13 DEF vars, MainIsFirst, TypeOK, Everybody, Level
<1> QED
  BY <1>1, <1>2, <1>3, <1>4, <1>5, <1>6, <1>7, <1>8, <1>9, <1>10, <1>11, <1>12, <1>13 DEF Next

\* Until it ends the main thread has the CPU to itself, if priorities decide.
LEMMA OnlyMainRuns ==
    ASSUME TypeOK, MainIsFirst, NEW c \in Threads, MayRun(c), Real
    PROVE  pc[Main] = "ended"
<1>1. ASSUME pc[Main] # "ended" PROVE FALSE
  <2>1. Runnable(Main) /\ Main \in Everybody \ {c} /\ pc[Main] # "boot"
    BY <1>1, NamesAssumption DEF MainIsFirst, Runnable, Everybody, Real
  <2>2. prio[Main] < prio[c]
    BY <2>1 DEF MayRun
  <2>3. prio[Main] = osPriorityISR /\ prio[c] <= osPriorityISR
    BY <2>1 DEF MainIsFirst, Level, Real
  <2> QED
    BY <2>2, <2>3, PrioritiesAssumption DEF TypeOK, Everybody
<1> QED
  BY <1>1

\* A thread that ran before the main thread ended would have a higher priority.
LEMMA WaitStep == TypeOK /\ MainIsFirst /\ NobodyBeforeStart /\ [Next]_vars => NobodyBeforeStart'
<1> SUFFICES ASSUME TypeOK, MainIsFirst, NobodyBeforeStart, [Next]_vars PROVE NobodyBeforeStart'
  OBVIOUS
<1> USE NamesAssumption
<1>1. CASE osKernelInitialize
  BY <1>1 DEF osKernelInitialize, cp_threadUseSingleCpu, NobodyBeforeStart, MainIsFirst, TypeOK, Everybody
<1>2. CASE osKernelStart
  BY <1>2 DEF osKernelStart, NobodyBeforeStart, Real, MainIsFirst, TypeOK, Everybody
<1>3. ASSUME NEW t \in Everybody, NEW p \in Requests,
             NewRefused(t, p)
      PROVE  NobodyBeforeStart'
  BY <1>3 DEF NewRefused, NobodyBeforeStart, Real, MainIsFirst, TypeOK, Everybody
<1>4. ASSUME NEW t \in Everybody, NEW p \in Requests,
             NewCreate(t, p)
      PROVE  NobodyBeforeStart'
  <2>1. PICK h \in Handlers \ live :
          live' = live \cup {h} /\ ((\E c \in Unused : Made(t, p, h, c)) \/ NotMade(t, h))
    BY <1>4 DEF NewCreate, Made, NotMade
  <2>2. pc[t] = "body" /\ UNCHANGED <<policy, pinned, key, thread>>
    BY <1>4 DEF NewCreate
  <2>3. ASSUME NEW c \in Unused, Made(t, p, h, c)
        PROVE  NobodyBeforeStart'
    <3>1. c \in Threads /\ c # t /\ c # Main
      BY <2>2 DEF Unused, TypeOK, MainIsFirst, Everybody
    <3> QED
      BY <2>2, <2>3, <3>1 DEF Made, NobodyBeforeStart, Real, MainIsFirst, TypeOK, Everybody
  <2>4. ASSUME NotMade(t, h)
        PROVE  NobodyBeforeStart'
    BY <2>2, <2>4 DEF NotMade, NobodyBeforeStart, Real, MainIsFirst, TypeOK, Everybody
  <2> QED
    BY <2>1, <2>3, <2>4
<1>5. ASSUME NEW t \in Everybody, NEW p \in Requests, NEW c \in Threads,
             osThreadSetPriority(t, c, p)
      PROVE  NobodyBeforeStart'
  BY <1>5 DEF osThreadSetPriority, NobodyBeforeStart, Real, MainIsFirst, TypeOK, Everybody
<1>6. ASSUME NEW t \in Everybody,
             NewStore(t)
      PROVE  NobodyBeforeStart'
  BY <1>6 DEF NewStore, NobodyBeforeStart, Real, MainIsFirst, TypeOK, Everybody
<1>7. ASSUME NEW t \in Everybody,
             NewFail(t)
      PROVE  NobodyBeforeStart'
  BY <1>7 DEF NewFail, Return, NobodyBeforeStart, Real, MainIsFirst, TypeOK, Everybody
<1>8. ASSUME NEW t \in Everybody,
             NewReturn(t)
      PROVE  NobodyBeforeStart'
  BY <1>8 DEF NewReturn, Return, NobodyBeforeStart, Real, MainIsFirst, TypeOK, Everybody
<1>9. ASSUME NEW c \in Threads,
             cp_threadWrapper(c)
      PROVE  NobodyBeforeStart'
  <2>1. /\ MayRun(c) /\ pc' = [pc EXCEPT ![c] = "body"]
        /\ policy' = policy /\ pinned' = pinned
    BY <1>9 DEF cp_threadWrapper
  <2>2. Real => pc[Main] = "ended"
    BY <2>1, OnlyMainRuns
  <2> QED
    BY <2>1, <2>2 DEF NobodyBeforeStart, Real, TypeOK, Everybody
<1>10. ASSUME NEW c \in Threads,
             osThreadExit(c)
      PROVE  NobodyBeforeStart'
  BY <1>10 DEF osThreadExit, cp_threadDataCleanup, NobodyBeforeStart, Real, MainIsFirst, TypeOK, Everybody
<1>11. ASSUME NEW c \in Threads,
             Block(c)
      PROVE  NobodyBeforeStart'
  BY <1>11 DEF Block, NobodyBeforeStart, Real, MainIsFirst, TypeOK, Everybody
<1>12. ASSUME NEW c \in Threads,
             Unblock(c)
      PROVE  NobodyBeforeStart'
  BY <1>12 DEF Unblock, NobodyBeforeStart, Real, TypeOK, Everybody
<1>13. CASE UNCHANGED vars
  BY <1>13 DEF vars, NobodyBeforeStart, Real, MainIsFirst, TypeOK, Everybody
<1> QED
  BY <1>1, <1>2, <1>3, <1>4, <1>5, <1>6, <1>7, <1>8, <1>9, <1>10, <1>11, <1>12, <1>13 DEF Next

\* Whatever priorities the threads are given, and whoever sets them: with one
\* CPU and a real-time policy no thread runs before osKernelStart.
THEOREM ThreadsWaitForStart == Spec => []NobodyBeforeStart
<1>1. Init => NobodyBeforeStart
  BY DEF Init, NobodyBeforeStart, Real
<1>2. TypeOK /\ MainIsFirst /\ NobodyBeforeStart /\ [Next]_vars
         => (TypeOK /\ MainIsFirst /\ NobodyBeforeStart)'
  BY TypeStep, MainStep, WaitStep
<1> QED
  BY <1>1, <1>2, TypeInit, MainInit, PTL DEF Spec

-----------------------------------------------------------------------------
(* Joinable threads. *)

\* In the beginning every pthread_t is unused.
LEMMA JoinableInit == Init => Joinable
BY DEF Init, Joinable, InNew, Everybody

\* The call that makes a thread is the one that detaches it.
LEMMA JoinableStep == TypeOK /\ Joinable /\ [Next]_vars => Joinable'
<1> SUFFICES ASSUME TypeOK, Joinable, [Next]_vars PROVE Joinable'
  OBVIOUS
<1> USE NamesAssumption
<1>1. CASE osKernelInitialize
  <2>1. InNew' = InNew /\ new' = new /\ detached' = detached
    BY <1>1 DEF osKernelInitialize, cp_threadUseSingleCpu, InNew, TypeOK, Everybody
  <2> QED
    BY <2>1 DEF Joinable
<1>2. CASE osKernelStart
  <2>1. InNew' = InNew /\ new' = new /\ detached' = detached
    BY <1>2 DEF osKernelStart, InNew, TypeOK, Everybody
  <2> QED
    BY <2>1 DEF Joinable
<1>3. ASSUME NEW t \in Everybody, NEW p \in Requests,
             NewRefused(t, p)
      PROVE  Joinable'
  <2>1. InNew' = InNew /\ new' = new /\ detached' = detached
    BY <1>3 DEF NewRefused, InNew, TypeOK, Everybody
  <2> QED
    BY <2>1 DEF Joinable
<1>4. ASSUME NEW t \in Everybody, NEW p \in Requests,
             NewCreate(t, p)
      PROVE  Joinable'
  <2>1. PICK h \in Handlers \ live :
          live' = live \cup {h} /\ ((\E c \in Unused : Made(t, p, h, c)) \/ NotMade(t, h))
    BY <1>4 DEF NewCreate, Made, NotMade
  <2>2. pc[t] = "body" /\ UNCHANGED <<policy, pinned, key, thread>>
    BY <1>4 DEF NewCreate
  <2>3. ASSUME NEW c \in Unused, Made(t, p, h, c)
        PROVE  Joinable'
    <3>1. /\ c \in Threads /\ c # t /\ pc[c] = "ended" /\ c \in detached
          /\ InNew' = InNew \cup {t} /\ t \notin InNew
      BY <2>2, <2>3 DEF Made, Unused, InNew, TypeOK, Everybody
    <3>2. new'[t].child = c /\ \A u \in InNew : new'[u] = new[u]
      BY <2>3, <3>1 DEF Made, TypeOK, InNew
    <3>3. \A u \in InNew : new[u].child # c
      BY <3>1 DEF Joinable
    <3> QED
      BY <2>3, <3>1, <3>2, <3>3 DEF Made, Joinable
  <2>4. ASSUME NotMade(t, h)
        PROVE  Joinable'
    <3>1. InNew' = InNew \cup {t} /\ t \notin InNew
      BY <2>2, <2>4 DEF NotMade, InNew, TypeOK, Everybody
    <3>2. new'[t].child = None /\ \A u \in InNew : new'[u] = new[u]
      BY <2>4, <3>1 DEF NotMade, TypeOK, InNew
    <3> QED
      BY <2>4, <3>1, <3>2 DEF NotMade, Joinable, TypeOK
  <2> QED
    BY <2>1, <2>3, <2>4
<1>5. ASSUME NEW t \in Everybody, NEW p \in Requests, NEW c \in Threads,
             osThreadSetPriority(t, c, p)
      PROVE  Joinable'
  <2>1. InNew' = InNew /\ new' = new /\ detached' = detached
    BY <1>5 DEF osThreadSetPriority, InNew, TypeOK, Everybody
  <2> QED
    BY <2>1 DEF Joinable
<1>6. ASSUME NEW t \in Everybody,
             NewStore(t)
      PROVE  Joinable'
  <2>1. /\ pc[t] = "store" /\ pc' = [pc EXCEPT ![t] = "return"]
        /\ new' = new /\ detached' = detached
    BY <1>6 DEF NewStore
  <2>2. InNew' = InNew
    BY <2>1 DEF InNew, TypeOK, Everybody
  <2> QED
    BY <2>1, <2>2 DEF Joinable
<1>7. ASSUME NEW t \in Everybody,
             NewFail(t)
      PROVE  Joinable'
  <2>1. /\ new[t].child = None /\ pc[t] = "return"
        /\ pc' = [pc EXCEPT ![t] = "body"] /\ new' = [new EXCEPT ![t] = NoCall]
        /\ detached' = detached
    BY <1>7 DEF NewFail, Return
  <2>2. InNew' = InNew \ {t} /\ t \in InNew /\ \A u \in InNew' : new'[u] = new[u]
    BY <2>1 DEF InNew, TypeOK, Everybody
  <2> QED
    BY <2>1, <2>2 DEF Joinable, TypeOK
<1>8. ASSUME NEW t \in Everybody,
             NewReturn(t)
      PROVE  Joinable'
  <2>1. /\ new[t].child # None /\ pc[t] = "return"
        /\ pc' = [pc EXCEPT ![t] = "body"] /\ new' = [new EXCEPT ![t] = NoCall]
        /\ detached' = detached \cup {new[t].child}
    BY <1>8 DEF NewReturn, Return
  <2>2. InNew' = InNew \ {t} /\ t \in InNew /\ \A u \in InNew' : new'[u] = new[u]
    BY <2>1 DEF InNew, TypeOK, Everybody
  <2> QED
    BY <2>1, <2>2 DEF Joinable, TypeOK
<1>9. ASSUME NEW c \in Threads,
             cp_threadWrapper(c)
      PROVE  Joinable'
  <2>1. InNew' = InNew /\ new' = new /\ detached' = detached
    BY <1>9 DEF cp_threadWrapper, InNew, TypeOK, Everybody
  <2> QED
    BY <2>1 DEF Joinable
<1>10. ASSUME NEW c \in Threads,
             osThreadExit(c)
      PROVE  Joinable'
  <2>1. InNew' = InNew /\ new' = new /\ detached' = detached
    BY <1>10 DEF osThreadExit, cp_threadDataCleanup, InNew, TypeOK, Everybody
  <2> QED
    BY <2>1 DEF Joinable
<1>11. ASSUME NEW c \in Threads,
             Block(c)
      PROVE  Joinable'
  <2>1. InNew' = InNew /\ new' = new /\ detached' = detached
    BY <1>11 DEF Block, InNew, TypeOK, Everybody
  <2> QED
    BY <2>1 DEF Joinable
<1>12. ASSUME NEW c \in Threads,
             Unblock(c)
      PROVE  Joinable'
  <2>1. InNew' = InNew /\ new' = new /\ detached' = detached
    BY <1>12 DEF Unblock, InNew, TypeOK, Everybody
  <2> QED
    BY <2>1 DEF Joinable
<1>13. CASE UNCHANGED vars
  <2>1. InNew' = InNew /\ new' = new /\ detached' = detached
    BY <1>13 DEF vars, InNew, TypeOK, Everybody
  <2> QED
    BY <2>1 DEF Joinable
<1> QED
  BY <1>1, <1>2, <1>3, <1>4, <1>5, <1>6, <1>7, <1>8, <1>9, <1>10, <1>11, <1>12, <1>13 DEF Next

\* No ended thread waits for a join: it is detached, or its creator is about to
\* detach it.
THEOREM NothingToJoin == Spec => []NoZombies
<1>1. Joinable => NoZombies
  BY DEF Joinable, NoZombies, BeingMade, InNew
<1>2. TypeOK /\ Joinable /\ [Next]_vars => (TypeOK /\ Joinable)'
  BY TypeStep, JoinableStep
<1> QED
  BY <1>1, <1>2, TypeInit, JoinableInit, PTL DEF Spec

-----------------------------------------------------------------------------
(* Handlers. *)

\* In the beginning there are no handlers.
LEMMA OwnedInit == Init => Owned /\ Stored
<1> SUFFICES ASSUME Init PROVE Owned /\ Stored
  OBVIOUS
<1>1. InNew = {} /\ \A c \in Threads : pc[c] = "ended"
  BY NamesAssumption DEF Init, InNew, Everybody
<1> QED
  BY <1>1 DEF Owned, Stored

\* A handler has one owner from malloc to free.
LEMMA OwnedStep == TypeOK /\ Owned /\ [Next]_vars => Owned'
<1> SUFFICES ASSUME TypeOK, Owned, [Next]_vars PROVE Owned'
  OBVIOUS
<1> USE NamesAssumption
<1>1. CASE osKernelInitialize
  <2>1. /\ InNew' = InNew /\ new' = new /\ UNCHANGED <<arg, key, live>>
        /\ \A d \in Threads : pc[d] \in {"ready", "ended"} <=> pc'[d] \in {"ready", "ended"}
        /\ \A d \in Threads : pc[d] = "ended" <=> pc'[d] = "ended"
    BY <1>1 DEF osKernelInitialize, cp_threadUseSingleCpu, InNew, TypeOK, Everybody
  <2> QED
    BY <2>1 DEF Owned
<1>2. CASE osKernelStart
  <2>1. /\ InNew' = InNew /\ new' = new /\ UNCHANGED <<arg, key, live>>
        /\ \A d \in Threads : pc[d] \in {"ready", "ended"} <=> pc'[d] \in {"ready", "ended"}
        /\ \A d \in Threads : pc[d] = "ended" <=> pc'[d] = "ended"
    BY <1>2 DEF osKernelStart, InNew, TypeOK, Everybody
  <2> QED
    BY <2>1 DEF Owned
<1>3. ASSUME NEW t \in Everybody, NEW p \in Requests,
             NewRefused(t, p)
      PROVE  Owned'
  <2>1. /\ InNew' = InNew /\ UNCHANGED <<pc, arg, key, new>> /\ live \subseteq live'
    BY <1>3 DEF NewRefused, InNew
  <2> QED
    BY <2>1 DEF Owned
<1>4. ASSUME NEW t \in Everybody, NEW p \in Requests,
             NewCreate(t, p)
      PROVE  Owned'
  <2>1. PICK h \in Handlers \ live :
          live' = live \cup {h} /\ ((\E c \in Unused : Made(t, p, h, c)) \/ NotMade(t, h))
    BY <1>4 DEF NewCreate, Made, NotMade
  <2>2. pc[t] = "body" /\ UNCHANGED <<key, thread>>
    BY <1>4 DEF NewCreate
  <2>3. ASSUME NEW c \in Unused, Made(t, p, h, c)
        PROVE  Owned'
    <3>1. /\ c \in Threads /\ c # t /\ pc[c] = "ended" /\ c \in detached
          /\ InNew' = InNew \cup {t} /\ t \notin InNew
      BY <2>2, <2>3 DEF Made, Unused, InNew, TypeOK, Everybody
    <3>2. /\ new'[t] = [handler |-> h, child |-> c] /\ \A u \in InNew : new'[u] = new[u]
          /\ arg'[c] = h /\ \A d \in Threads \ {c} : arg'[d] = arg[d]
      BY <2>3, <3>1 DEF Made, TypeOK, InNew, Everybody
    <3>3. /\ pc'[c] = "ready"
          /\ t \in Threads => pc'[t] = "store"
          /\ \A d \in Threads \ {c, t} : pc'[d] = pc[d]
      BY <2>3, <3>1 DEF Made, TypeOK, Everybody
    <3>4. \A d \in Threads : arg[d] # h
      BY <2>1 DEF Owned, TypeOK
    <3> QED
      BY <2>1, <2>2, <3>1, <3>2, <3>3, <3>4 DEF Owned
  <2>4. ASSUME NotMade(t, h)
        PROVE  Owned'
    <3>1. InNew' = InNew \cup {t} /\ t \notin InNew
      BY <2>2, <2>4 DEF NotMade, InNew, TypeOK, Everybody
    <3>2. new'[t] = [handler |-> h, child |-> None] /\ \A u \in InNew : new'[u] = new[u]
      BY <2>4, <3>1 DEF NotMade, TypeOK, InNew
    <3>3. /\ t \in Threads => pc'[t] = "store"
          /\ \A d \in Threads \ {t} : pc'[d] = pc[d]
          /\ arg' = arg
      BY <2>4 DEF NotMade, TypeOK, Everybody
    <3>4. \A d \in Threads : arg[d] # h
      BY <2>1 DEF Owned, TypeOK
    <3> QED
      BY <2>1, <2>2, <3>1, <3>2, <3>3, <3>4 DEF Owned
  <2> QED
    BY <2>1, <2>3, <2>4
<1>5. ASSUME NEW t \in Everybody, NEW p \in Requests, NEW c \in Threads,
             osThreadSetPriority(t, c, p)
      PROVE  Owned'
  <2>1. /\ InNew' = InNew /\ new' = new /\ UNCHANGED <<arg, key, live>>
        /\ \A d \in Threads : pc[d] \in {"ready", "ended"} <=> pc'[d] \in {"ready", "ended"}
        /\ \A d \in Threads : pc[d] = "ended" <=> pc'[d] = "ended"
    BY <1>5 DEF osThreadSetPriority, InNew, TypeOK, Everybody
  <2> QED
    BY <2>1 DEF Owned
<1>6. ASSUME NEW t \in Everybody,
             NewStore(t)
      PROVE  Owned'
  <2>1. /\ InNew' = InNew /\ new' = new /\ UNCHANGED <<arg, key, live>>
        /\ \A d \in Threads : pc[d] \in {"ready", "ended"} <=> pc'[d] \in {"ready", "ended"}
        /\ \A d \in Threads : pc[d] = "ended" <=> pc'[d] = "ended"
    BY <1>6 DEF NewStore, InNew, TypeOK, Everybody
  <2> QED
    BY <2>1 DEF Owned
<1>7. ASSUME NEW t \in Everybody,
             NewFail(t)
      PROVE  Owned'
  <2>1. /\ new[t].child = None /\ pc[t] = "return"
        /\ pc' = [pc EXCEPT ![t] = "body"] /\ new' = [new EXCEPT ![t] = NoCall]
        /\ live' = live \ {new[t].handler} /\ UNCHANGED <<key, arg, thread>>
    BY <1>7 DEF NewFail, Return
  <2>2. /\ InNew' = InNew \ {t} /\ t \in InNew /\ \A u \in InNew' : new'[u] = new[u]
        /\ \A d \in Threads : pc[d] \in {"ready", "ended"} <=> pc'[d] \in {"ready", "ended"}
        /\ \A d \in Threads : pc[d] = "ended" <=> pc'[d] = "ended"
    BY <2>1 DEF InNew, TypeOK, Everybody
  <2> QED
    BY <2>1, <2>2 DEF Owned
<1>8. ASSUME NEW t \in Everybody,
             NewReturn(t)
      PROVE  Owned'
  <2>1. /\ new[t].child # None /\ pc[t] = "return"
        /\ pc' = [pc EXCEPT ![t] = "body"] /\ new' = [new EXCEPT ![t] = NoCall]
        /\ live' = live /\ UNCHANGED <<key, arg, thread>>
    BY <1>8 DEF NewReturn, Return
  <2>2. /\ InNew' = InNew \ {t} /\ t \in InNew /\ \A u \in InNew' : new'[u] = new[u]
        /\ \A d \in Threads : pc[d] \in {"ready", "ended"} <=> pc'[d] \in {"ready", "ended"}
        /\ \A d \in Threads : pc[d] = "ended" <=> pc'[d] = "ended"
    BY <2>1 DEF InNew, TypeOK, Everybody
  <2> QED
    BY <2>1, <2>2 DEF Owned
<1>9. ASSUME NEW c \in Threads,
             cp_threadWrapper(c)
      PROVE  Owned'
  <2>1. /\ pc[c] = "ready" /\ pc' = [pc EXCEPT ![c] = "body"]
        /\ key' = [key EXCEPT ![c] = arg[c]] /\ UNCHANGED <<arg, live, new>>
    BY <1>9 DEF cp_threadWrapper
  <2>2. InNew' = InNew
    BY <2>1 DEF InNew, TypeOK, Everybody
  <2> QED
    BY <2>1, <2>2 DEF Owned, TypeOK, Everybody
<1>10. ASSUME NEW c \in Threads,
             osThreadExit(c)
      PROVE  Owned'
  <2>1. /\ pc[c] = "body" /\ pc' = [pc EXCEPT ![c] = "ended"]
        /\ key' = [key EXCEPT ![c] = None] /\ arg' = [arg EXCEPT ![c] = None]
        /\ live' = live \ {key[c]} /\ new' = new
    BY <1>10 DEF osThreadExit, cp_threadDataCleanup
  <2>2. InNew' = InNew /\ key[c] = arg[c]
    BY <2>1 DEF InNew, Owned, TypeOK, Everybody
  <2>3. /\ pc'[c] = "ended" /\ arg'[c] = None
        /\ \A d \in Threads \ {c} : pc'[d] = pc[d] /\ arg'[d] = arg[d] /\ key'[d] = key[d]
    BY <2>1 DEF TypeOK, Everybody
  <2>4. \A d \in Threads \ {c} : pc[d] # "ended" => arg[d] # arg[c] /\ arg[d] # None
    BY <2>1 DEF Owned, TypeOK
  <2>5. \A t \in InNew : new[t].child = None => new[t].handler # arg[c] /\ new[t].handler # None
    BY DEF Owned, TypeOK
  <2> QED
    BY <2>1, <2>2, <2>3, <2>4, <2>5 DEF Owned
<1>11. ASSUME NEW c \in Threads,
             Block(c)
      PROVE  Owned'
  <2>1. /\ InNew' = InNew /\ new' = new /\ UNCHANGED <<arg, key, live>>
        /\ \A d \in Threads : pc[d] \in {"ready", "ended"} <=> pc'[d] \in {"ready", "ended"}
        /\ \A d \in Threads : pc[d] = "ended" <=> pc'[d] = "ended"
    BY <1>11 DEF Block, InNew, TypeOK, Everybody
  <2> QED
    BY <2>1 DEF Owned
<1>12. ASSUME NEW c \in Threads,
             Unblock(c)
      PROVE  Owned'
  <2>1. /\ InNew' = InNew /\ new' = new /\ UNCHANGED <<arg, key, live>>
        /\ \A d \in Threads : pc[d] \in {"ready", "ended"} <=> pc'[d] \in {"ready", "ended"}
        /\ \A d \in Threads : pc[d] = "ended" <=> pc'[d] = "ended"
    BY <1>12 DEF Unblock, InNew, TypeOK, Everybody
  <2> QED
    BY <2>1 DEF Owned
<1>13. CASE UNCHANGED vars
  <2>1. /\ InNew' = InNew /\ new' = new /\ UNCHANGED <<arg, key, live>>
        /\ \A d \in Threads : pc[d] \in {"ready", "ended"} <=> pc'[d] \in {"ready", "ended"}
        /\ \A d \in Threads : pc[d] = "ended" <=> pc'[d] = "ended"
    BY <1>13 DEF vars, InNew, TypeOK, Everybody
  <2> QED
    BY <2>1 DEF Owned
<1> QED
  BY <1>1, <1>2, <1>3, <1>4, <1>5, <1>6, <1>7, <1>8, <1>9, <1>10, <1>11, <1>12, <1>13 DEF Next

\* With threads that do not outrun their creator, both stores of the pthread_t hit
\* the handler of the thread.
LEMMA StoredStep == Patient /\ TypeOK /\ MainIsFirst /\ Joinable /\ Owned /\ Stored /\ [Next]_vars => Stored'
<1> SUFFICES ASSUME Patient, TypeOK, MainIsFirst, Joinable, Owned, Stored, [Next]_vars PROVE Stored'
  OBVIOUS
<1> USE NamesAssumption
<1>1. CASE osKernelInitialize
  <2>1. /\ InNew' = InNew /\ UNCHANGED <<new, arg, thread>>
        /\ \A d \in Threads : pc[d] \in {"ready", "ended"} <=> pc'[d] \in {"ready", "ended"}
        /\ \A d \in Threads : pc[d] = "ended" <=> pc'[d] = "ended"
    BY <1>1 DEF osKernelInitialize, cp_threadUseSingleCpu, InNew, TypeOK, Everybody
  <2>2. \A u \in InNew : new[u].child # None => new[u].child \in Threads
    BY DEF InNew, TypeOK, NoCall
  <2> QED
    BY <2>1, <2>2 DEF Stored
<1>2. CASE osKernelStart
  <2>1. /\ InNew' = InNew /\ UNCHANGED <<new, arg, thread>>
        /\ \A d \in Threads : pc[d] \in {"ready", "ended"} <=> pc'[d] \in {"ready", "ended"}
        /\ \A d \in Threads : pc[d] = "ended" <=> pc'[d] = "ended"
    BY <1>2 DEF osKernelStart, InNew, TypeOK, Everybody
  <2>2. \A u \in InNew : new[u].child # None => new[u].child \in Threads
    BY DEF InNew, TypeOK, NoCall
  <2> QED
    BY <2>1, <2>2 DEF Stored
<1>3. ASSUME NEW t \in Everybody, NEW p \in Requests,
             NewRefused(t, p)
      PROVE  Stored'
  <2>1. /\ InNew' = InNew /\ UNCHANGED <<new, arg, thread>>
        /\ \A d \in Threads : pc[d] \in {"ready", "ended"} <=> pc'[d] \in {"ready", "ended"}
        /\ \A d \in Threads : pc[d] = "ended" <=> pc'[d] = "ended"
    BY <1>3 DEF NewRefused, InNew, TypeOK, Everybody
  <2>2. \A u \in InNew : new[u].child # None => new[u].child \in Threads
    BY DEF InNew, TypeOK, NoCall
  <2> QED
    BY <2>1, <2>2 DEF Stored
<1>4. ASSUME NEW t \in Everybody, NEW p \in Requests,
             NewCreate(t, p)
      PROVE  Stored'
  <2>1. PICK h \in Handlers \ live :
          live' = live \cup {h} /\ ((\E c \in Unused : Made(t, p, h, c)) \/ NotMade(t, h))
    BY <1>4 DEF NewCreate, Made, NotMade
  <2>2. pc[t] = "body" /\ UNCHANGED <<key, thread>>
    BY <1>4 DEF NewCreate
  <2>3. ASSUME NEW c \in Unused, Made(t, p, h, c)
        PROVE  Stored'
    <3>1. /\ c \in Threads /\ c # t /\ pc[c] = "ended" /\ c \in detached
          /\ InNew' = InNew \cup {t} /\ t \notin InNew
      BY <2>2, <2>3 DEF Made, Unused, InNew, TypeOK, Everybody
    <3>2. /\ new'[t] = [handler |-> h, child |-> c] /\ \A u \in InNew : new'[u] = new[u]
          /\ arg'[c] = h /\ \A d \in Threads \ {c} : arg'[d] = arg[d]
      BY <2>3, <3>1 DEF Made, TypeOK, InNew, Everybody
    <3>3. /\ pc'[c] = "ready"
          /\ t \in Threads => pc'[t] = "store"
          /\ \A d \in Threads \ {c, t} : pc'[d] = pc[d]
      BY <2>3, <3>1 DEF Made, TypeOK, Everybody
    <3>4. \A u \in InNew : new[u].child # c
      BY <3>1 DEF Joinable
    <3>5. \A u \in InNew : new[u].child # None => new[u].child \in Threads
      BY DEF InNew, TypeOK, NoCall
    <3> QED
      BY <2>1, <2>2, <3>1, <3>2, <3>3, <3>4, <3>5 DEF Stored
  <2>4. ASSUME NotMade(t, h)
        PROVE  Stored'
    <3>1. InNew' = InNew \cup {t} /\ t \notin InNew
      BY <2>2, <2>4 DEF NotMade, InNew, TypeOK, Everybody
    <3>2. new'[t] = [handler |-> h, child |-> None] /\ \A u \in InNew : new'[u] = new[u]
      BY <2>4, <3>1 DEF NotMade, TypeOK, InNew
    <3>3. /\ t \in Threads => pc'[t] = "store"
          /\ \A d \in Threads \ {t} : pc'[d] = pc[d]
          /\ arg' = arg
      BY <2>4 DEF NotMade, TypeOK, Everybody
    <3>5. \A u \in InNew : new[u].child # None => new[u].child \in Threads
      BY DEF InNew, TypeOK, NoCall
    <3> QED
      BY <2>1, <2>2, <3>1, <3>2, <3>3, <3>5 DEF Stored
  <2> QED
    BY <2>1, <2>3, <2>4
<1>5. ASSUME NEW t \in Everybody, NEW p \in Requests, NEW c \in Threads,
             osThreadSetPriority(t, c, p)
      PROVE  Stored'
  <2>1. /\ InNew' = InNew /\ UNCHANGED <<new, arg, thread>>
        /\ \A d \in Threads : pc[d] \in {"ready", "ended"} <=> pc'[d] \in {"ready", "ended"}
        /\ \A d \in Threads : pc[d] = "ended" <=> pc'[d] = "ended"
    BY <1>5 DEF osThreadSetPriority, InNew, TypeOK, Everybody
  <2>2. \A u \in InNew : new[u].child # None => new[u].child \in Threads
    BY DEF InNew, TypeOK, NoCall
  <2> QED
    BY <2>1, <2>2 DEF Stored
<1>6. ASSUME NEW t \in Everybody,
             NewStore(t)
      PROVE  Stored'
  <2>1. /\ pc[t] = "store" /\ pc' = [pc EXCEPT ![t] = "return"]
        /\ thread' = [thread EXCEPT ![new[t].handler] = new[t].child]
        /\ UNCHANGED <<new, arg>>
    BY <1>6 DEF NewStore
  <2>2. /\ InNew' = InNew /\ t \in InNew
        /\ \A d \in Threads : pc[d] \in {"ready", "ended"} <=> pc'[d] \in {"ready", "ended"}
        /\ \A d \in Threads : pc[d] = "ended" <=> pc'[d] = "ended"
    BY <2>1 DEF InNew, TypeOK, Everybody
  <2>3. \A u \in InNew : new[u].child # None => new[u].child \in Threads
    BY DEF InNew, TypeOK, NoCall
  <2>4. \A d \in Threads : pc[d] # "ended" /\ arg[d] = new[t].handler => d = new[t].child
    BY <2>2, <2>3 DEF Owned, Stored
  <2>5. \A d \in Threads : pc[d] # "ended" => arg[d] \in Handlers
    BY DEF TypeOK
  <2>6. thread \in [Handlers -> Threads \cup {None}]
    BY DEF TypeOK
  <2>7. \A d \in Threads : pc[d] \notin {"ready", "ended"} => thread'[arg[d]] = d
    BY <2>1, <2>4, <2>5, <2>6 DEF Stored
  <2> QED
    BY <2>1, <2>2, <2>3, <2>7 DEF Stored
<1>7. ASSUME NEW t \in Everybody,
             NewFail(t)
      PROVE  Stored'
  <2>1. /\ pc[t] = "return" /\ pc' = [pc EXCEPT ![t] = "body"]
        /\ new' = [new EXCEPT ![t] = NoCall] /\ UNCHANGED <<arg, thread>>
    BY <1>7 DEF NewFail, Return
  <2>2. /\ InNew' = InNew \ {t} /\ t \in InNew /\ \A u \in InNew' : new'[u] = new[u]
        /\ \A d \in Threads : pc[d] \in {"ready", "ended"} <=> pc'[d] \in {"ready", "ended"}
        /\ \A d \in Threads : pc[d] = "ended" <=> pc'[d] = "ended"
    BY <2>1 DEF InNew, TypeOK, Everybody
  <2>3. \A u \in InNew : new[u].child # None => new[u].child \in Threads
    BY DEF InNew, TypeOK, NoCall
  <2> QED
    BY <2>1, <2>2, <2>3 DEF Stored
<1>8. ASSUME NEW t \in Everybody,
             NewReturn(t)
      PROVE  Stored'
  <2>1. /\ pc[t] = "return" /\ pc' = [pc EXCEPT ![t] = "body"]
        /\ new' = [new EXCEPT ![t] = NoCall] /\ UNCHANGED <<arg, thread>>
    BY <1>8 DEF NewReturn, Return
  <2>2. /\ InNew' = InNew \ {t} /\ t \in InNew /\ \A u \in InNew' : new'[u] = new[u]
        /\ \A d \in Threads : pc[d] \in {"ready", "ended"} <=> pc'[d] \in {"ready", "ended"}
        /\ \A d \in Threads : pc[d] = "ended" <=> pc'[d] = "ended"
    BY <2>1 DEF InNew, TypeOK, Everybody
  <2>3. \A u \in InNew : new[u].child # None => new[u].child \in Threads
    BY DEF InNew, TypeOK, NoCall
  <2> QED
    BY <2>1, <2>2, <2>3 DEF Stored
<1>9. ASSUME NEW c \in Threads,
             cp_threadWrapper(c)
      PROVE  Stored'
  <2>1. /\ pc[c] = "ready" /\ pc' = [pc EXCEPT ![c] = "body"]
        /\ thread' = [thread EXCEPT ![arg[c]] = c] /\ UNCHANGED <<arg, new>>
    BY <1>9 DEF cp_threadWrapper
  <2>2. /\ InNew' = InNew /\ arg[c] \in Handlers
        /\ \A d \in Threads \ {c} : pc'[d] = pc[d]
        /\ \A d \in Threads : pc[d] = "ended" <=> pc'[d] = "ended"
    BY <2>1 DEF InNew, TypeOK, Everybody
  <2>3. \A u \in InNew : new[u].child # None => new[u].child \in Threads
    BY DEF InNew, TypeOK, NoCall
  <2>4. \A d \in Threads \ {c} : pc[d] # "ended" => arg[d] # arg[c] /\ arg[d] \in Handlers
    BY DEF Owned, TypeOK
  <2>5. \A d \in Threads : pc'[d] \notin {"ready", "ended"} => thread'[arg[d]] = d
    BY <2>1, <2>2, <2>4 DEF Stored, TypeOK
  <2> QED
    BY <2>1, <2>2, <2>3, <2>5 DEF Stored
<1>10. ASSUME NEW c \in Threads,
             osThreadExit(c)
      PROVE  Stored'
  <2>1. /\ MayRun(c) /\ pc[c] = "body" /\ pc' = [pc EXCEPT ![c] = "ended"]
        /\ arg' = [arg EXCEPT ![c] = None] /\ UNCHANGED <<new, thread>>
        /\ BeingMade(c) => Real /\ new[Main].child = c
    BY <1>10 DEF osThreadExit, cp_threadDataCleanup
  <2>2. /\ InNew' = InNew
        /\ \A d \in Threads \ {c} : pc'[d] = pc[d] /\ arg'[d] = arg[d]
        /\ pc'[c] = "ended"
    BY <2>1 DEF InNew, TypeOK, Everybody
  <2>3. ~ BeingMade(c)
    <3>1. ASSUME Real, new[Main].child = c PROVE FALSE
      <4>1. Main \in InNew
        BY <3>1 DEF InNew, TypeOK, Everybody, NoCall
      <4>2. pc[Main] = "ended"
        BY <2>1, <3>1, OnlyMainRuns
      <4> QED
        BY <4>1, <4>2 DEF InNew
    <3> QED
      BY <2>1, <3>1
  <2>4. \A u \in InNew : new[u].child # c
    BY <2>3 DEF BeingMade, InNew
  <2>5. \A u \in InNew : new[u].child # None => new[u].child \in Threads
    BY DEF InNew, TypeOK, NoCall
  <2> QED
    BY <2>1, <2>2, <2>4, <2>5 DEF Stored
<1>11. ASSUME NEW c \in Threads,
             Block(c)
      PROVE  Stored'
  <2>1. /\ InNew' = InNew /\ UNCHANGED <<new, arg, thread>>
        /\ \A d \in Threads : pc[d] \in {"ready", "ended"} <=> pc'[d] \in {"ready", "ended"}
        /\ \A d \in Threads : pc[d] = "ended" <=> pc'[d] = "ended"
    BY <1>11 DEF Block, InNew, TypeOK, Everybody
  <2>2. \A u \in InNew : new[u].child # None => new[u].child \in Threads
    BY DEF InNew, TypeOK, NoCall
  <2> QED
    BY <2>1, <2>2 DEF Stored
<1>12. ASSUME NEW c \in Threads,
             Unblock(c)
      PROVE  Stored'
  <2>1. /\ InNew' = InNew /\ UNCHANGED <<new, arg, thread>>
        /\ \A d \in Threads : pc[d] \in {"ready", "ended"} <=> pc'[d] \in {"ready", "ended"}
        /\ \A d \in Threads : pc[d] = "ended" <=> pc'[d] = "ended"
    BY <1>12 DEF Unblock, InNew, TypeOK, Everybody
  <2>2. \A u \in InNew : new[u].child # None => new[u].child \in Threads
    BY DEF InNew, TypeOK, NoCall
  <2> QED
    BY <2>1, <2>2 DEF Stored
<1>13. CASE UNCHANGED vars
  <2>1. /\ InNew' = InNew /\ UNCHANGED <<new, arg, thread>>
        /\ \A d \in Threads : pc[d] \in {"ready", "ended"} <=> pc'[d] \in {"ready", "ended"}
        /\ \A d \in Threads : pc[d] = "ended" <=> pc'[d] = "ended"
    BY <1>13 DEF vars, InNew, TypeOK, Everybody
  <2>2. \A u \in InNew : new[u].child # None => new[u].child \in Threads
    BY DEF InNew, TypeOK, NoCall
  <2> QED
    BY <2>1, <2>2 DEF Stored
<1> QED
  BY <1>1, <1>2, <1>3, <1>4, <1>5, <1>6, <1>7, <1>8, <1>9, <1>10, <1>11, <1>12, <1>13 DEF Next

Inv == TypeOK /\ MainIsFirst /\ Joinable /\ Owned /\ Stored

\* The parts of Inv are inductive together.
LEMMA Invariant == Patient => (Spec => []Inv)
<1> SUFFICES ASSUME Patient PROVE Spec => []Inv
  OBVIOUS
<1>1. Init => Inv
  BY TypeInit, MainInit, JoinableInit, OwnedInit DEF Inv
<1>2. Inv /\ [Next]_vars => Inv'
  BY TypeStep, MainStep, JoinableStep, OwnedStep, StoredStep DEF Inv
<1> QED
  BY <1>1, <1>2, PTL DEF Spec

\* Threads that do not end before osThreadNew has returned, or are held back by
\* a main thread with a real priority, leave the handler to its store.
THEOREM StoresAreSafe == Patient => (Spec => []StoreHitsOwnHandler)
<1> SUFFICES ASSUME Patient PROVE Spec => []StoreHitsOwnHandler
  OBVIOUS
<1>1. Inv => StoreHitsOwnHandler
  <2> SUFFICES ASSUME Inv, NEW t \in Everybody, pc[t] = "store"
               PROVE  /\ new[t].handler \in live
                      /\ \A c \in Threads : arg[c] = new[t].handler => c = new[t].child
    BY DEF StoreHitsOwnHandler
  <2>1. t \in InNew /\ new[t].child \in Threads \cup {None}
    BY DEF Inv, InNew, TypeOK, NoCall
  <2> QED
    BY <2>1 DEF Inv, Owned, Stored
<1> QED
  BY <1>1, Invariant, PTL

\* The id of such a thread stays valid until it ends, whoever stored it.
THEOREM IdsNameThreads == Patient => (Spec => []HandlerNamesThread)
<1> SUFFICES ASSUME Patient PROVE Spec => []HandlerNamesThread
  OBVIOUS
<1>1. Inv => HandlerNamesThread
  BY DEF Inv, Owned, Stored, HandlerNamesThread, osThreadGetId
<1> QED
  BY <1>1, Invariant, PTL

-----------------------------------------------------------------------------
(* What becomes of a handler. *)

\* In a step every handler in use stays with its thread or call, or is freed.
Kept ==
    /\ \A c \in Threads : pc[c] # "ended" =>
          (pc'[c] # "ended" /\ arg'[c] = arg[c]) \/ arg[c] \notin live'
    /\ \A u \in InNew : new[u].child = None =>
          (u \in InNew' /\ new'[u] = new[u]) \/ new[u].handler \notin live'

\* Only the end of its thread, or of the call that failed, frees a handler.
LEMMA KeptStep == TypeOK /\ Owned /\ [Next]_vars => Kept
<1> SUFFICES ASSUME TypeOK, Owned, [Next]_vars PROVE Kept
  OBVIOUS
<1> USE NamesAssumption
<1>1. CASE osKernelInitialize
  <2>1. /\ InNew' = InNew /\ UNCHANGED <<new, arg>>
        /\ \A d \in Threads : pc[d] = "ended" <=> pc'[d] = "ended"
    BY <1>1 DEF osKernelInitialize, cp_threadUseSingleCpu, InNew, TypeOK, Everybody
  <2> QED
    BY <2>1 DEF Kept
<1>2. CASE osKernelStart
  <2>1. /\ InNew' = InNew /\ UNCHANGED <<new, arg>>
        /\ \A d \in Threads : pc[d] = "ended" <=> pc'[d] = "ended"
    BY <1>2 DEF osKernelStart, InNew, TypeOK, Everybody
  <2> QED
    BY <2>1 DEF Kept
<1>3. ASSUME NEW t \in Everybody, NEW p \in Requests,
             NewRefused(t, p)
      PROVE  Kept
  <2>1. /\ InNew' = InNew /\ UNCHANGED <<new, arg>>
        /\ \A d \in Threads : pc[d] = "ended" <=> pc'[d] = "ended"
    BY <1>3 DEF NewRefused, InNew, TypeOK, Everybody
  <2> QED
    BY <2>1 DEF Kept
<1>4. ASSUME NEW t \in Everybody, NEW p \in Requests,
             NewCreate(t, p)
      PROVE  Kept
  <2>1. PICK h \in Handlers \ live :
          live' = live \cup {h} /\ ((\E c \in Unused : Made(t, p, h, c)) \/ NotMade(t, h))
    BY <1>4 DEF NewCreate, Made, NotMade
  <2>2. pc[t] = "body" /\ UNCHANGED <<policy, pinned, key, thread>>
    BY <1>4 DEF NewCreate
  <2>3. ASSUME NEW c \in Unused, Made(t, p, h, c)
        PROVE  Kept
    <3>1. c \in Threads /\ c # t /\ pc[c] = "ended" /\ t \notin InNew
      BY <2>2, <2>3 DEF Unused, InNew, TypeOK
    <3>2. \A d \in Threads : pc[d] # "ended" => pc'[d] # "ended" /\ arg'[d] = arg[d]
      BY <2>3, <3>1 DEF Made, TypeOK, Everybody
    <3>3. \A u \in InNew : u \in InNew' /\ new'[u] = new[u]
      BY <2>3, <3>1 DEF Made, TypeOK, InNew
    <3> QED
      BY <3>2, <3>3 DEF Kept
  <2>4. ASSUME NotMade(t, h)
        PROVE  Kept
    <3>2. \A d \in Threads : pc[d] # "ended" => pc'[d] # "ended" /\ arg'[d] = arg[d]
      BY <2>4 DEF NotMade, TypeOK, Everybody
    <3>3. \A u \in InNew : u \in InNew' /\ new'[u] = new[u]
      BY <2>2, <2>4 DEF NotMade, TypeOK, InNew
    <3> QED
      BY <3>2, <3>3 DEF Kept
  <2> QED
    BY <2>1, <2>3, <2>4
<1>5. ASSUME NEW t \in Everybody, NEW p \in Requests, NEW c \in Threads,
             osThreadSetPriority(t, c, p)
      PROVE  Kept
  <2>1. /\ InNew' = InNew /\ UNCHANGED <<new, arg>>
        /\ \A d \in Threads : pc[d] = "ended" <=> pc'[d] = "ended"
    BY <1>5 DEF osThreadSetPriority, InNew, TypeOK, Everybody
  <2> QED
    BY <2>1 DEF Kept
<1>6. ASSUME NEW t \in Everybody,
             NewStore(t)
      PROVE  Kept
  <2>1. /\ InNew' = InNew /\ UNCHANGED <<new, arg>>
        /\ \A d \in Threads : pc[d] = "ended" <=> pc'[d] = "ended"
    BY <1>6 DEF NewStore, InNew, TypeOK, Everybody
  <2> QED
    BY <2>1 DEF Kept
<1>7. ASSUME NEW t \in Everybody,
             NewFail(t)
      PROVE  Kept
  <2>1. /\ new[t].child = None /\ pc[t] = "return" /\ pc' = [pc EXCEPT ![t] = "body"]
        /\ new' = [new EXCEPT ![t] = NoCall] /\ arg' = arg
        /\ live' = live \ {new[t].handler}
    BY <1>7 DEF NewFail, Return
  <2>2. \A d \in Threads : pc[d] # "ended" => pc'[d] # "ended"
    BY <2>1 DEF TypeOK, Everybody
  <2>3. \A u \in InNew \ {t} : u \in InNew' /\ new'[u] = new[u]
    BY <2>1 DEF TypeOK, InNew
  <2> QED
    BY <2>1, <2>2, <2>3 DEF Kept
<1>8. ASSUME NEW t \in Everybody,
             NewReturn(t)
      PROVE  Kept
  <2>1. /\ new[t].child # None /\ pc[t] = "return" /\ pc' = [pc EXCEPT ![t] = "body"]
        /\ new' = [new EXCEPT ![t] = NoCall] /\ arg' = arg
    BY <1>8 DEF NewReturn, Return
  <2>2. \A d \in Threads : pc[d] # "ended" => pc'[d] # "ended"
    BY <2>1 DEF TypeOK, Everybody
  <2>3. \A u \in InNew \ {t} : u \in InNew' /\ new'[u] = new[u]
    BY <2>1 DEF TypeOK, InNew
  <2> QED
    BY <2>1, <2>2, <2>3 DEF Kept
<1>9. ASSUME NEW c \in Threads,
             cp_threadWrapper(c)
      PROVE  Kept
  <2>1. /\ InNew' = InNew /\ UNCHANGED <<new, arg>>
        /\ \A d \in Threads : pc[d] = "ended" <=> pc'[d] = "ended"
    BY <1>9 DEF cp_threadWrapper, InNew, TypeOK, Everybody
  <2> QED
    BY <2>1 DEF Kept
<1>10. ASSUME NEW c \in Threads,
             osThreadExit(c)
      PROVE  Kept
  <2>1. /\ pc[c] = "body" /\ pc' = [pc EXCEPT ![c] = "ended"]
        /\ arg' = [arg EXCEPT ![c] = None] /\ live' = live \ {key[c]} /\ new' = new
    BY <1>10 DEF osThreadExit, cp_threadDataCleanup
  <2>2. InNew' = InNew /\ key[c] = arg[c]
    BY <2>1 DEF InNew, Owned, TypeOK, Everybody
  <2>3. \A d \in Threads \ {c} : pc'[d] = pc[d] /\ arg'[d] = arg[d]
    BY <2>1 DEF TypeOK, Everybody
  <2> QED
    BY <2>1, <2>2, <2>3 DEF Kept
<1>11. ASSUME NEW c \in Threads,
             Block(c)
      PROVE  Kept
  <2>1. /\ InNew' = InNew /\ UNCHANGED <<new, arg>>
        /\ \A d \in Threads : pc[d] = "ended" <=> pc'[d] = "ended"
    BY <1>11 DEF Block, InNew, TypeOK, Everybody
  <2> QED
    BY <2>1 DEF Kept
<1>12. ASSUME NEW c \in Threads,
             Unblock(c)
      PROVE  Kept
  <2>1. /\ InNew' = InNew /\ UNCHANGED <<new, arg>>
        /\ \A d \in Threads : pc[d] = "ended" <=> pc'[d] = "ended"
    BY <1>12 DEF Unblock, InNew, TypeOK, Everybody
  <2> QED
    BY <2>1 DEF Kept
<1>13. CASE UNCHANGED vars
  <2>1. /\ InNew' = InNew /\ UNCHANGED <<new, arg>>
        /\ \A d \in Threads : pc[d] = "ended" <=> pc'[d] = "ended"
    BY <1>13 DEF vars, InNew, TypeOK, Everybody
  <2> QED
    BY <2>1 DEF Kept
<1> QED
  BY <1>1, <1>2, <1>3, <1>4, <1>5, <1>6, <1>7, <1>8, <1>9, <1>10, <1>11, <1>12, <1>13 DEF Next

\* The handlers in use are exactly those of Owned.
LEMMA InUseIsLive == TypeOK /\ Owned => InUse \subseteq live
BY DEF TypeOK, Owned, InUse, InNew

\* Whatever threads do, and whenever they end: a handler stays allocated as long
\* as its thread or its creation needs it, and then it is freed.
THEOREM HandlersReturn == Spec => HandlersAreFreed
<1>1. Init => TypeOK /\ Owned
  BY TypeInit, OwnedInit
<1>2. TypeOK /\ Owned /\ [Next]_vars => (TypeOK /\ Owned)'
  BY TypeStep, OwnedStep
<1>3. TypeOK /\ Owned /\ [Next]_vars
         => [InUse' \subseteq live' /\ InUse \subseteq InUse' \cup (Handlers \ live')]_vars
  <2> SUFFICES ASSUME TypeOK, Owned, [Next]_vars
               PROVE  InUse' \subseteq live' /\ InUse \subseteq InUse' \cup (Handlers \ live')
    OBVIOUS
  <2>1. InUse' \subseteq live'
    <3>1. TypeOK' /\ Owned'
      BY <1>2
    <3> QED
      BY <3>1 DEF TypeOK, Owned, InUse, InNew
  <2>2. Kept /\ TypeOK'
    BY KeptStep, TypeStep
  <2>3. ASSUME NEW c \in Threads, pc[c] # "ended"
        PROVE  arg[c] \in InUse' \cup (Handlers \ live')
    BY <2>2, <2>3 DEF Kept, InUse, TypeOK
  <2>4. ASSUME NEW u \in Everybody, new[u] # NoCall, new[u].child = None
        PROVE  new[u].handler \in InUse' \cup (Handlers \ live')
    <3>1. u \in InNew /\ new[u].handler \in Handlers
      BY <2>4 DEF InNew, TypeOK
    <3>2. CASE new[u].handler \notin live'
      BY <3>1, <3>2
    <3>3. CASE u \in InNew' /\ new'[u] = new[u]
      BY <2>4, <3>3 DEF InUse
    <3> QED
      BY <2>2, <2>4, <3>1, <3>2, <3>3 DEF Kept
  <2> QED
    BY <2>1, <2>3, <2>4 DEF InUse
<1> QED
  BY <1>1, <1>2, <1>3, PTL DEF Spec, HandlersAreFreed
=============================================================================
