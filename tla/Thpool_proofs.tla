--------------------------- MODULE Thpool_proofs ---------------------------
(***************************************************************************)
(* The thread pool, for any number of threads, clients and jobs: its locks,*)
(* its counters, the soundness of thpool_wait, the conservation of jobs,   *)
(* the semaphore that never forgets a queued job, and the refinement of    *)
(* JobPool.                                                                *)
(***************************************************************************)
EXTENDS Thpool, FiniteSetTheorems, SequenceTheorems, TLAPS

\* The types of everything but the two counters, which need CountersExact.
DataOK ==
    /\ queue \in Seq(Job)
    /\ has_jobs \in {0, 1}
    /\ rwmutex \in Actor \cup {NoActor}
    /\ keep_alive \in BOOLEAN
    /\ mutex \in Actor \cup {NoActor}
    /\ sleeping \subseteq Client
    /\ pc \in [Actor -> PC]
    /\ held \in [Thread -> Job \cup {NoJob}]
    /\ finished \subseteq Job
    /\ added \subseteq Job
    /\ owed \in [Client -> SUBSET Job]

\* Where the actors are and what they hold there: the locks of jobs.c and
\* thpool.c exclude each other and a job is in the hands of a thread exactly
\* between job_queue_pull and the end of job->work.
THEOREM ControlCorrect == SafeSpec => [](DataOK /\ Control)
<1> USE ThpoolAssumption DEF Actor, ThreadPC, ClientPC, OwnerPC, PC
<1>1. Init => DataOK /\ Control
  BY DEF Init, JQInit, Control, DataOK
<1>2. ASSUME DataOK, Control, [Next]_vars
      PROVE  Control'
  <2> USE <1>2 DEF DataOK, Control, Goto, Free, thpoolVars, jqVars, counters, history
  <2>1. ASSUME NEW t \in Thread, CreateThread(t)  PROVE Control'
    BY <2>1 DEF CreateThread
  <2>2. ASSUME NEW t \in Thread, CreateThreadFails(t)  PROVE Control'
    BY <2>2 DEF CreateThreadFails
  <2>3. ASSUME NEW t \in Thread, MarkAlive(t)  PROVE Control'
    BY <2>3 DEF MarkAlive
  <2>4. ASSUME NEW t \in Thread, TestLoop(t)  PROVE Control'
    BY <2>4 DEF TestLoop
  <2>5. ASSUME NEW t \in Thread, WaitForJobs(t)  PROVE Control'
    BY <2>5 DEF WaitForJobs, BsemWait
  <2>6. ASSUME NEW t \in Thread, TestAwake(t)  PROVE Control'
    BY <2>6 DEF TestAwake
  <2>7. ASSUME NEW t \in Thread, MarkWorking(t)  PROVE Control'
    BY <2>7 DEF MarkWorking
  <2>8. ASSUME NEW t \in Thread, PullNothing(t)  PROVE Control'
    BY <2>8 DEF PullNothing, PullEmpty
  <2>9. ASSUME NEW t \in Thread, PullTheOnly(t)  PROVE Control'
    BY <2>9 DEF PullTheOnly, PullOnly
  <2>10. ASSUME NEW t \in Thread, PullTheFirst(t)  PROVE Control'
    BY <2>10 DEF PullTheFirst, PullFirst
  <2>11. ASSUME NEW t \in Thread, PostNext(t)  PROVE Control'
    BY <2>11 DEF PostNext, PostAndUnlock
  <2>12. ASSUME NEW t \in Thread, Work(t)  PROVE Control'
    BY <2>12 DEF Work
  <2>13. ASSUME NEW t \in Thread, MarkIdle(t)  PROVE Control'
    BY <2>13 DEF MarkIdle, SignalAllIdle
  <2>14. ASSUME NEW t \in Thread, MarkDead(t)  PROVE Control'
    BY <2>14 DEF MarkDead
  <2>15. ASSUME NEW t \in Thread, LastUnlock(t)  PROVE Control'
    BY <2>15 DEF LastUnlock
  <2>16. ASSUME NEW c \in Client, PostWork(c)  PROVE Control'
    BY <2>16 DEF PostWork, PostAndUnlock
  <2>17. ASSUME NEW c \in Client, SleepOnQueue(c)  PROVE Control'
    BY <2>17 DEF SleepOnQueue
  <2>18. ASSUME NEW c \in Client, QueueIsEmpty(c)  PROVE Control'
    BY <2>18 DEF QueueIsEmpty
  <2>19. ASSUME NEW c \in Client, SleepOnWorking(c)  PROVE Control'
    BY <2>19 DEF SleepOnWorking
  <2>20. ASSUME NEW c \in Client, ReturnFromWait(c)  PROVE Control'
    BY <2>20 DEF ReturnFromWait
  <2>21. ASSUME NEW c \in Client, WakeUp(c)  PROVE Control'
    BY <2>21 DEF WakeUp
  <2>22. ASSUME NEW c \in Client, NEW j \in Job, AddWork(c, j)  PROVE Control'
    BY <2>22 DEF AddWork, PushInsert, PushRefused
  <2>23. ASSUME NEW c \in Client, CallWait(c)  PROVE Control'
    BY <2>23 DEF CallWait
  <2>24. CASE InitReturns
    BY <2>24 DEF InitReturns
  <2>25. CASE PostAll
    BY <2>25 DEF PostAll, BsemPost
  <2>26. CASE Delete
    BY <2>26 DEF Delete
  <2>27. CASE Destroy
    BY <2>27 DEF Destroy
  <2>28. CASE UNCHANGED vars
    BY <2>28 DEF vars, thpoolVars, jqVars, counters, history
  <2>29. QED
    BY <2>1, <2>2, <2>3, <2>4, <2>5, <2>6, <2>7, <2>8, <2>9, <2>10, <2>11,
       <2>12, <2>13, <2>14, <2>15, <2>16, <2>17, <2>18, <2>19, <2>20,
       <2>21, <2>22, <2>23, <2>24, <2>25, <2>26, <2>27, <2>28
       DEF Next, ThreadStep, ClientStep, ClientCall, OwnerStep
<1>3. ASSUME DataOK, Control, [Next]_vars
      PROVE  DataOK'
  <2> USE <1>3 DEF DataOK, Control, Goto, Free, thpoolVars, jqVars, counters, history
  <2>1. ASSUME NEW t \in Thread, CreateThread(t)  PROVE DataOK'
    BY <2>1 DEF CreateThread
  <2>2. ASSUME NEW t \in Thread, CreateThreadFails(t)  PROVE DataOK'
    BY <2>2 DEF CreateThreadFails
  <2>3. ASSUME NEW t \in Thread, MarkAlive(t)  PROVE DataOK'
    BY <2>3 DEF MarkAlive
  <2>4. ASSUME NEW t \in Thread, TestLoop(t)  PROVE DataOK'
    BY <2>4 DEF TestLoop
  <2>5. ASSUME NEW t \in Thread, WaitForJobs(t)  PROVE DataOK'
    BY <2>5 DEF WaitForJobs, BsemWait
  <2>6. ASSUME NEW t \in Thread, TestAwake(t)  PROVE DataOK'
    BY <2>6 DEF TestAwake
  <2>7. ASSUME NEW t \in Thread, MarkWorking(t)  PROVE DataOK'
    BY <2>7 DEF MarkWorking
  <2>8. ASSUME NEW t \in Thread, PullNothing(t)  PROVE DataOK'
    BY <2>8 DEF PullNothing, PullEmpty
  <2>9. ASSUME NEW t \in Thread, PullTheOnly(t)  PROVE DataOK'
    BY <2>9 DEF PullTheOnly, PullOnly
  <2>10. ASSUME NEW t \in Thread, PullTheFirst(t)  PROVE DataOK'
    BY <2>10 DEF PullTheFirst, PullFirst
  <2>11. ASSUME NEW t \in Thread, PostNext(t)  PROVE DataOK'
    BY <2>11 DEF PostNext, PostAndUnlock
  <2>12. ASSUME NEW t \in Thread, Work(t)  PROVE DataOK'
    BY <2>12 DEF Work
  <2>13. ASSUME NEW t \in Thread, MarkIdle(t)  PROVE DataOK'
    BY <2>13 DEF MarkIdle, SignalAllIdle
  <2>14. ASSUME NEW t \in Thread, MarkDead(t)  PROVE DataOK'
    BY <2>14 DEF MarkDead
  <2>15. ASSUME NEW t \in Thread, LastUnlock(t)  PROVE DataOK'
    BY <2>15 DEF LastUnlock
  <2>16. ASSUME NEW c \in Client, PostWork(c)  PROVE DataOK'
    BY <2>16 DEF PostWork, PostAndUnlock
  <2>17. ASSUME NEW c \in Client, SleepOnQueue(c)  PROVE DataOK'
    BY <2>17 DEF SleepOnQueue
  <2>18. ASSUME NEW c \in Client, QueueIsEmpty(c)  PROVE DataOK'
    BY <2>18 DEF QueueIsEmpty
  <2>19. ASSUME NEW c \in Client, SleepOnWorking(c)  PROVE DataOK'
    BY <2>19 DEF SleepOnWorking
  <2>20. ASSUME NEW c \in Client, ReturnFromWait(c)  PROVE DataOK'
    BY <2>20 DEF ReturnFromWait
  <2>21. ASSUME NEW c \in Client, WakeUp(c)  PROVE DataOK'
    BY <2>21 DEF WakeUp
  <2>22. ASSUME NEW c \in Client, NEW j \in Job, AddWork(c, j)  PROVE DataOK'
    BY <2>22 DEF AddWork, PushInsert, PushRefused
  <2>23. ASSUME NEW c \in Client, CallWait(c)  PROVE DataOK'
    <3>1. Accepted \subseteq Job
      BY DEF Accepted, Queued, Held
    <3>2. QED
      BY <2>23, <3>1 DEF CallWait
  <2>24. CASE InitReturns
    BY <2>24 DEF InitReturns
  <2>25. CASE PostAll
    BY <2>25 DEF PostAll, BsemPost
  <2>26. CASE Delete
    BY <2>26 DEF Delete
  <2>27. CASE Destroy
    BY <2>27 DEF Destroy
  <2>28. CASE UNCHANGED vars
    BY <2>28 DEF vars, thpoolVars, jqVars, counters, history
  <2>29. QED
    BY <2>1, <2>2, <2>3, <2>4, <2>5, <2>6, <2>7, <2>8, <2>9, <2>10, <2>11,
       <2>12, <2>13, <2>14, <2>15, <2>16, <2>17, <2>18, <2>19, <2>20,
       <2>21, <2>22, <2>23, <2>24, <2>25, <2>26, <2>27, <2>28
       DEF Next, ThreadStep, ClientStep, ClientCall, OwnerStep
<1>4. QED
  BY <1>1, <1>2, <1>3, PTL DEF SafeSpec

\* Adding a new element to a finite set, and removing one.
LEMMA CardAdd ==
    ASSUME NEW S, IsFiniteSet(S), NEW x, x \notin S
    PROVE  Cardinality(S \cup {x}) = Cardinality(S) + 1
BY FS_AddElement

LEMMA CardRemove ==
    ASSUME NEW S, IsFiniteSet(S), NEW x \in S
    PROVE  Cardinality(S \ {x}) = Cardinality(S) - 1
BY FS_RemoveElement

\* The two counters of the pool, which the code changes in four critical
\* sections and reads with and without the lock, are exact at every step.
THEOREM CountersCorrect == SafeSpec => []CountersExact
<1> USE ThpoolAssumption DEF Actor, ThreadPC, ClientPC, OwnerPC
<1>1. Init => CountersExact
  <2> SUFFICES ASSUME Init  PROVE CountersExact
    OBVIOUS
  <2>1. Working = {} /\ Alive = {}
    BY DEF Init, Working, Alive
  <2>2. QED
    BY <2>1, FS_EmptySet DEF Init, CountersExact
<1>2. ASSUME DataOK, Control, DataOK', Control', CountersExact, [Next]_vars
      PROVE  CountersExact'
  <2> DEFINE Same == Working' = Working /\ Alive' = Alive /\ UNCHANGED counters
  <2>a. IsFiniteSet(Working) /\ IsFiniteSet(Alive)
    <3>1. Working \subseteq Thread /\ Alive \subseteq Thread
      BY DEF Working, Alive
    <3>2. QED
      BY <3>1, FS_Subset
  <2>b. Same => CountersExact'
    BY <1>2 DEF CountersExact, counters
  <2> HIDE DEF Same
  <2> USE <1>2 DEF DataOK, Control, Goto, thpoolVars
  <2>1. ASSUME NEW t \in Thread, CreateThread(t)  PROVE CountersExact'
    <3>1. Working' = Working /\ Alive' = Alive
      BY <2>1 DEF CreateThread, Working, Alive
    <3>2. QED
      BY <2>1, <3>1, <2>b DEF CreateThread, Same, counters
  <2>2. ASSUME NEW t \in Thread, CreateThreadFails(t)  PROVE CountersExact'
    <3>1. Working' = Working /\ Alive' = Alive
      BY <2>2 DEF CreateThreadFails, Working, Alive
    <3>2. QED
      BY <2>2, <3>1, <2>b DEF CreateThreadFails, Same, counters
  <2>3. ASSUME NEW t \in Thread, MarkAlive(t)  PROVE CountersExact'
    <3>1. Working' = Working /\ Alive' = Alive \cup {t} /\ t \notin Alive
      BY <2>3 DEF MarkAlive, Working, Alive
    <3>2. QED
      BY <2>3, <3>1, <2>a, CardAdd DEF MarkAlive, CountersExact
  <2>4. ASSUME NEW t \in Thread, TestLoop(t)  PROVE CountersExact'
    <3>1. Working' = Working /\ Alive' = Alive
      BY <2>4 DEF TestLoop, Working, Alive
    <3>2. QED
      BY <2>4, <3>1, <2>b DEF TestLoop, Same, counters
  <2>5. ASSUME NEW t \in Thread, WaitForJobs(t)  PROVE CountersExact'
    <3>1. Working' = Working /\ Alive' = Alive
      BY <2>5 DEF WaitForJobs, Working, Alive
    <3>2. QED
      BY <2>5, <3>1, <2>b DEF WaitForJobs, Same, counters
  <2>6. ASSUME NEW t \in Thread, TestAwake(t)  PROVE CountersExact'
    <3>1. Working' = Working /\ Alive' = Alive
      BY <2>6 DEF TestAwake, Working, Alive
    <3>2. QED
      BY <2>6, <3>1, <2>b DEF TestAwake, Same, counters
  <2>7. ASSUME NEW t \in Thread, MarkWorking(t)  PROVE CountersExact'
    <3>1. Working' = Working \cup {t} /\ t \notin Working /\ Alive' = Alive
      BY <2>7 DEF MarkWorking, Working, Alive
    <3>2. QED
      BY <2>7, <3>1, <2>a, CardAdd DEF MarkWorking, CountersExact
  <2>8. ASSUME NEW t \in Thread, PullNothing(t)  PROVE CountersExact'
    <3>1. Working' = Working /\ Alive' = Alive
      BY <2>8 DEF PullNothing, Working, Alive
    <3>2. QED
      BY <2>8, <3>1, <2>b DEF PullNothing, Same, counters
  <2>9. ASSUME NEW t \in Thread, PullTheOnly(t)  PROVE CountersExact'
    <3>1. Working' = Working /\ Alive' = Alive
      BY <2>9 DEF PullTheOnly, Working, Alive
    <3>2. QED
      BY <2>9, <3>1, <2>b DEF PullTheOnly, Same, counters
  <2>10. ASSUME NEW t \in Thread, PullTheFirst(t)  PROVE CountersExact'
    <3>1. Working' = Working /\ Alive' = Alive
      BY <2>10 DEF PullTheFirst, Working, Alive
    <3>2. QED
      BY <2>10, <3>1, <2>b DEF PullTheFirst, Same, counters
  <2>11. ASSUME NEW t \in Thread, PostNext(t)  PROVE CountersExact'
    <3>1. Working' = Working /\ Alive' = Alive
      BY <2>11 DEF PostNext, Working, Alive
    <3>2. QED
      BY <2>11, <3>1, <2>b DEF PostNext, Same, counters
  <2>12. ASSUME NEW t \in Thread, Work(t)  PROVE CountersExact'
    <3>1. Working' = Working /\ Alive' = Alive
      BY <2>12 DEF Work, Working, Alive
    <3>2. QED
      BY <2>12, <3>1, <2>b DEF Work, Same, counters
  <2>13. ASSUME NEW t \in Thread, MarkIdle(t)  PROVE CountersExact'
    <3>1. Working' = Working \ {t} /\ t \in Working /\ Alive' = Alive
      BY <2>13 DEF MarkIdle, Working, Alive
    <3>2. QED
      BY <2>13, <3>1, <2>a, CardRemove DEF MarkIdle, CountersExact
  <2>14. ASSUME NEW t \in Thread, MarkDead(t)  PROVE CountersExact'
    <3>1. Working' = Working /\ Alive' = Alive \ {t} /\ t \in Alive
      BY <2>14 DEF MarkDead, Working, Alive
    <3>2. QED
      BY <2>14, <3>1, <2>a, CardRemove DEF MarkDead, CountersExact
  <2>15. ASSUME NEW t \in Thread, LastUnlock(t)  PROVE CountersExact'
    <3>1. Working' = Working /\ Alive' = Alive
      BY <2>15 DEF LastUnlock, Working, Alive
    <3>2. QED
      BY <2>15, <3>1, <2>b DEF LastUnlock, Same, counters
  <2>16. ASSUME NEW c \in Client, PostWork(c)  PROVE CountersExact'
    <3>1. Working' = Working /\ Alive' = Alive
      BY <2>16 DEF PostWork, Working, Alive
    <3>2. QED
      BY <2>16, <3>1, <2>b DEF PostWork, Same, counters
  <2>17. ASSUME NEW c \in Client, SleepOnQueue(c)  PROVE CountersExact'
    <3>1. Working' = Working /\ Alive' = Alive
      BY <2>17 DEF SleepOnQueue, Working, Alive
    <3>2. QED
      BY <2>17, <3>1, <2>b DEF SleepOnQueue, Same, counters
  <2>18. ASSUME NEW c \in Client, QueueIsEmpty(c)  PROVE CountersExact'
    <3>1. Working' = Working /\ Alive' = Alive
      BY <2>18 DEF QueueIsEmpty, Working, Alive
    <3>2. QED
      BY <2>18, <3>1, <2>b DEF QueueIsEmpty, Same, counters
  <2>19. ASSUME NEW c \in Client, SleepOnWorking(c)  PROVE CountersExact'
    <3>1. Working' = Working /\ Alive' = Alive
      BY <2>19 DEF SleepOnWorking, Working, Alive
    <3>2. QED
      BY <2>19, <3>1, <2>b DEF SleepOnWorking, Same, counters
  <2>20. ASSUME NEW c \in Client, ReturnFromWait(c)  PROVE CountersExact'
    <3>1. Working' = Working /\ Alive' = Alive
      BY <2>20 DEF ReturnFromWait, Working, Alive
    <3>2. QED
      BY <2>20, <3>1, <2>b DEF ReturnFromWait, Same, counters
  <2>21. ASSUME NEW c \in Client, WakeUp(c)  PROVE CountersExact'
    <3>1. Working' = Working /\ Alive' = Alive
      BY <2>21 DEF WakeUp, Working, Alive
    <3>2. QED
      BY <2>21, <3>1, <2>b DEF WakeUp, Same, counters
  <2>22. ASSUME NEW c \in Client, NEW j \in Job, AddWork(c, j)  PROVE CountersExact'
    <3>1. Working' = Working /\ Alive' = Alive
      BY <2>22 DEF AddWork, Working, Alive
    <3>2. QED
      BY <2>22, <3>1, <2>b DEF AddWork, Same, counters
  <2>23. ASSUME NEW c \in Client, CallWait(c)  PROVE CountersExact'
    <3>1. Working' = Working /\ Alive' = Alive
      BY <2>23 DEF CallWait, Working, Alive
    <3>2. QED
      BY <2>23, <3>1, <2>b DEF CallWait, Same, counters
  <2>24. CASE InitReturns
    <3>1. Working' = Working /\ Alive' = Alive
      BY <2>24 DEF InitReturns, Working, Alive
    <3>2. QED
      BY <2>24, <3>1, <2>b DEF InitReturns, Same, counters
  <2>25. CASE PostAll
    <3>1. Working' = Working /\ Alive' = Alive
      BY <2>25 DEF PostAll, Working, Alive
    <3>2. QED
      BY <2>25, <3>1, <2>b DEF PostAll, Same, counters
  <2>26. CASE Delete
    <3>1. Working' = Working /\ Alive' = Alive
      BY <2>26 DEF Delete, Working, Alive
    <3>2. QED
      BY <2>26, <3>1, <2>b DEF Delete, Same, counters
  <2>27. CASE Destroy
    <3>1. Working' = Working /\ Alive' = Alive
      BY <2>27 DEF Destroy, Working, Alive
    <3>2. QED
      BY <2>27, <3>1, <2>b DEF Destroy, Same, counters
  <2>28. CASE UNCHANGED vars
    BY <2>28, <2>b DEF vars, thpoolVars, counters, Same, Working, Alive
  <2>29. QED
    BY <2>1, <2>2, <2>3, <2>4, <2>5, <2>6, <2>7, <2>8, <2>9, <2>10, <2>11,
       <2>12, <2>13, <2>14, <2>15, <2>16, <2>17, <2>18, <2>19, <2>20,
       <2>21, <2>22, <2>23, <2>24, <2>25, <2>26, <2>27, <2>28
       DEF Next, ThreadStep, ClientStep, ClientCall, OwnerStep
<1>3. QED
  BY <1>1, <1>2, ControlCorrect, PTL DEF SafeSpec

\* The types of the whole state; the counters are naturals because they count.
THEOREM TypeCorrect == SafeSpec => []TypeOK
<1>1. DataOK /\ CountersExact => TypeOK
  <2> SUFFICES ASSUME DataOK, CountersExact  PROVE TypeOK
    OBVIOUS
  <2>1. Working \subseteq Thread /\ Alive \subseteq Thread
    BY DEF Working, Alive
  <2>2. Cardinality(Working) \in Nat /\ Cardinality(Alive) \in Nat
    BY <2>1, ThpoolAssumption, FS_Subset, FS_CardinalityType
  <2>3. QED
    BY <2>2 DEF DataOK, CountersExact, TypeOK
<1>2. QED
  BY <1>1, ControlCorrect, CountersCorrect, PTL

\* The elements of a queue after a push and after a pull.
LEMMA AppendElements ==
    ASSUME NEW S, NEW q \in Seq(S), NEW x \in S
    PROVE  {Append(q, x)[i] : i \in DOMAIN Append(q, x)}
              = {q[i] : i \in DOMAIN q} \cup {x}
<1>1. /\ DOMAIN Append(q, x) = 1 .. Len(q) + 1
      /\ \A i \in 1 .. Len(q) : Append(q, x)[i] = q[i]
      /\ Append(q, x)[Len(q) + 1] = x
      /\ DOMAIN q = 1 .. Len(q) /\ Len(q) \in Nat
  OBVIOUS
<1>2. 1 .. Len(q) + 1 = (1 .. Len(q)) \cup {Len(q) + 1}
  BY <1>1
<1>3. QED
  BY <1>1, <1>2

LEMMA TailElements ==
    ASSUME NEW S, NEW q \in Seq(S), q # <<>>
    PROVE  {q[i] : i \in DOMAIN q} = {Head(q)} \cup {Tail(q)[i] : i \in DOMAIN Tail(q)}
<1>1. /\ DOMAIN q = 1 .. Len(q) /\ Len(q) \in Nat /\ Len(q) >= 1
      /\ DOMAIN Tail(q) = 1 .. Len(q) - 1
      /\ \A i \in 1 .. Len(q) - 1 : Tail(q)[i] = q[i + 1]
      /\ Head(q) = q[1]
  OBVIOUS
<1>2. \A i \in 2 .. Len(q) : i - 1 \in 1 .. Len(q) - 1 /\ q[i] = Tail(q)[i - 1]
  BY <1>1
<1>3. {q[i] : i \in DOMAIN q} \subseteq {Head(q)} \cup {Tail(q)[i] : i \in DOMAIN Tail(q)}
  <2>1. SUFFICES ASSUME NEW i \in 1 .. Len(q)
                 PROVE  q[i] \in {Head(q)} \cup {Tail(q)[k] : k \in DOMAIN Tail(q)}
    BY <1>1
  <2>2. CASE i = 1
    BY <2>2, <1>1
  <2>3. CASE i # 1
    <3>1. i \in 2 .. Len(q)
      BY <2>3, <1>1
    <3>2. QED
      BY <3>1, <1>1, <1>2
  <2>4. QED
    BY <2>2, <2>3
<1>4. {Head(q)} \cup {Tail(q)[i] : i \in DOMAIN Tail(q)} \subseteq {q[i] : i \in DOMAIN q}
  <2>1. \A i \in 1 .. Len(q) - 1 : i + 1 \in 1 .. Len(q)
    BY <1>1
  <2>2. QED
    BY <1>1, <2>1
<1>5. QED
  BY <1>3, <1>4

LEMMA TailDistinct ==
    ASSUME NEW S, NEW q \in Seq(S), q # <<>>,
           \A i, k \in DOMAIN q : q[i] = q[k] => i = k
    PROVE  /\ \A i, k \in DOMAIN Tail(q) : Tail(q)[i] = Tail(q)[k] => i = k
           /\ Head(q) \notin {Tail(q)[i] : i \in DOMAIN Tail(q)}
<1>1. /\ DOMAIN q = 1 .. Len(q) /\ Len(q) \in Nat /\ Len(q) >= 1
      /\ DOMAIN Tail(q) = 1 .. Len(q) - 1
      /\ \A i \in 1 .. Len(q) - 1 : Tail(q)[i] = q[i + 1]
      /\ Head(q) = q[1]
  OBVIOUS
<1>2. QED
  BY <1>1

LEMMA AppendDistinct ==
    ASSUME NEW S, NEW q \in Seq(S), NEW x \in S,
           \A i, k \in DOMAIN q : q[i] = q[k] => i = k,
           x \notin {q[i] : i \in DOMAIN q}
    PROVE  \A i, k \in DOMAIN Append(q, x) :
              Append(q, x)[i] = Append(q, x)[k] => i = k
<1>1. /\ DOMAIN Append(q, x) = 1 .. Len(q) + 1
      /\ \A i \in 1 .. Len(q) : Append(q, x)[i] = q[i]
      /\ Append(q, x)[Len(q) + 1] = x
      /\ DOMAIN q = 1 .. Len(q) /\ Len(q) \in Nat
  OBVIOUS
<1>2. QED
  BY <1>1

LEMMA QueuedTail ==
    ASSUME queue \in Seq(Job), queue # <<>>
    PROVE  Queued = {Head(queue)} \cup {Tail(queue)[i] : i \in DOMAIN Tail(queue)}
<1> DEFINE q == queue
<1>1. q \in Seq(Job) /\ q # <<>>
  OBVIOUS
<1>2. Queued = {q[i] : i \in DOMAIN q}
  BY DEF Queued
<1> HIDE DEF q
<1>3. {q[i] : i \in DOMAIN q} = {Head(q)} \cup {Tail(q)[i] : i \in DOMAIN Tail(q)}
  BY <1>1, TailElements
<1>4. QED
  BY <1>2, <1>3 DEF q

LEMMA OneIsNotEmpty == ASSUME NEW q, Len(q) = 1  PROVE q # <<>>
<1>1. Len(<<>>) = 0
  OBVIOUS
<1>2. QED
  BY <1>1

\* A job that was accepted is in exactly one place: once in the queue, with
\* one thread, or finished.  job_queue_push and job_queue_pull interleave with
\* each other only at whole critical sections of rwmutex.
THEOREM JobsCorrect == SafeSpec => [](AcceptedWasAdded /\ JobsConserved)
<1> DEFINE Jobs == AcceptedWasAdded /\ JobsConserved
<1>1. Init => Jobs
  BY DEF Init, JQInit, AcceptedWasAdded, JobsConserved, Accepted, Queued, Held
<1>2. ASSUME DataOK, Control, Jobs, [Next]_vars
      PROVE  Jobs'
  <2> USE <1>2 DEF DataOK, AcceptedWasAdded, JobsConserved, Accepted
  <2>a. queue' = queue /\ held' = held /\ finished' = finished /\ added' = added => Jobs'
    BY DEF Queued, Held
  <2>b. ASSUME NEW t \in Thread, pc[t] = "pull", queue # <<>>, queue' = Tail(queue),
               held' = [held EXCEPT ![t] = Head(queue)],
               finished' = finished, added' = added
        PROVE  Jobs'
    <3>1. held[t] = NoJob
      BY <2>b DEF Control
    <3>2. Head(queue) \in Queued /\ Queued = Queued' \cup {Head(queue)}
      <4>1. Queued = {Head(queue)} \cup {Tail(queue)[i] : i \in DOMAIN Tail(queue)}
        BY <2>b, QueuedTail
      <4>2. Queued' = {Tail(queue)[i] : i \in DOMAIN Tail(queue)}
        BY <2>b DEF Queued
      <4>3. QED
        BY <4>1, <4>2
    <3>3. /\ \A i, k \in DOMAIN queue' : queue'[i] = queue'[k] => i = k
          /\ Head(queue) \notin Queued'
      BY <2>b, TailDistinct DEF Queued
    <3>4. Head(queue) \in Job
      BY <2>b
    <3>5. Held' = Held \cup {Head(queue)}
      BY <2>b, <3>1, <3>4, ThpoolAssumption DEF Held
    <3>6. \A u \in Thread : u # t => held[u] # Head(queue)
      BY <3>2, <3>4, ThpoolAssumption DEF Held
    <3>7. \A u, w \in Thread : held'[u] = held'[w] /\ held'[u] # NoJob => u = w
      BY <2>b, <3>6
    <3>8. QED
      BY <2>b, <3>2, <3>3, <3>5, <3>7
  <2> USE DEF thpoolVars, jqVars, history
  <2>1. ASSUME NEW t \in Thread, CreateThread(t)  PROVE Jobs'
    BY <2>1, <2>a DEF CreateThread
  <2>2. ASSUME NEW t \in Thread, CreateThreadFails(t)  PROVE Jobs'
    BY <2>2, <2>a DEF CreateThreadFails
  <2>3. ASSUME NEW t \in Thread, MarkAlive(t)  PROVE Jobs'
    BY <2>3, <2>a DEF MarkAlive
  <2>4. ASSUME NEW t \in Thread, TestLoop(t)  PROVE Jobs'
    BY <2>4, <2>a DEF TestLoop
  <2>5. ASSUME NEW t \in Thread, WaitForJobs(t)  PROVE Jobs'
    BY <2>5, <2>a DEF WaitForJobs, BsemWait
  <2>6. ASSUME NEW t \in Thread, TestAwake(t)  PROVE Jobs'
    BY <2>6, <2>a DEF TestAwake
  <2>7. ASSUME NEW t \in Thread, MarkWorking(t)  PROVE Jobs'
    BY <2>7, <2>a DEF MarkWorking
  <2>8. ASSUME NEW t \in Thread, PullNothing(t)  PROVE Jobs'
    BY <2>8, <2>a DEF PullNothing, PullEmpty
  <2>9. ASSUME NEW t \in Thread, PullTheOnly(t)  PROVE Jobs'
    <3>1. Len(queue) = 1
      BY <2>9 DEF PullTheOnly, PullOnly
    <3>2. queue # <<>>
      BY <3>1, OneIsNotEmpty
    <3>3. QED
      BY <2>9, <3>2, <2>b DEF PullTheOnly, PullOnly, Goto
  <2>10. ASSUME NEW t \in Thread, PullTheFirst(t)  PROVE Jobs'
    <3>1. queue # <<>>
      BY <2>10 DEF PullTheFirst, PullFirst
    <3>2. QED
      BY <2>10, <3>1, <2>b DEF PullTheFirst, PullFirst, Goto
  <2>11. ASSUME NEW t \in Thread, PostNext(t)  PROVE Jobs'
    BY <2>11, <2>a DEF PostNext, PostAndUnlock
  <2>12. ASSUME NEW t \in Thread, Work(t)  PROVE Jobs'
    <3>1. held[t] \in Job /\ held[t] # NoJob
      BY <2>12, ThpoolAssumption DEF Work, Goto, Control
    <3>2. Held' = Held \ {held[t]} /\ held[t] \in Held
      BY <2>12, <3>1 DEF Work, Held
    <3>3. Queued' = Queued
      BY <2>12 DEF Work, Queued
    <3>4. \A u, w \in Thread : held'[u] = held'[w] /\ held'[u] # NoJob => u = w
      BY <2>12 DEF Work
    <3>5. QED
      BY <2>12, <3>2, <3>3, <3>4 DEF Work
  <2>13. ASSUME NEW t \in Thread, MarkIdle(t)  PROVE Jobs'
    BY <2>13, <2>a DEF MarkIdle, SignalAllIdle
  <2>14. ASSUME NEW t \in Thread, MarkDead(t)  PROVE Jobs'
    BY <2>14, <2>a DEF MarkDead
  <2>15. ASSUME NEW t \in Thread, LastUnlock(t)  PROVE Jobs'
    BY <2>15, <2>a DEF LastUnlock
  <2>16. ASSUME NEW c \in Client, PostWork(c)  PROVE Jobs'
    BY <2>16, <2>a DEF PostWork, PostAndUnlock
  <2>17. ASSUME NEW c \in Client, SleepOnQueue(c)  PROVE Jobs'
    BY <2>17, <2>a DEF SleepOnQueue
  <2>18. ASSUME NEW c \in Client, QueueIsEmpty(c)  PROVE Jobs'
    BY <2>18, <2>a DEF QueueIsEmpty
  <2>19. ASSUME NEW c \in Client, SleepOnWorking(c)  PROVE Jobs'
    BY <2>19, <2>a DEF SleepOnWorking
  <2>20. ASSUME NEW c \in Client, ReturnFromWait(c)  PROVE Jobs'
    BY <2>20, <2>a DEF ReturnFromWait
  <2>21. ASSUME NEW c \in Client, WakeUp(c)  PROVE Jobs'
    BY <2>21, <2>a DEF WakeUp
  <2>22. ASSUME NEW c \in Client, NEW j \in Job, AddWork(c, j)  PROVE Jobs'
    <3>1. CASE PushRefused(c)
      <4>1. Queued' = Queued /\ Held' = Held
        BY <2>22, <3>1 DEF AddWork, PushRefused, Queued, Held
      <4>2. QED
        BY <2>22, <3>1, <4>1 DEF AddWork, PushRefused
    <3>2. CASE PushInsert(c, j)
      <4>1. j \notin Queued /\ j \notin Held /\ j \notin finished
        BY <2>22 DEF AddWork
      <4>2. Queued' = Queued \cup {j}
        BY <2>22, <3>2, AppendElements DEF AddWork, PushInsert, Queued
      <4>3. \A i, k \in DOMAIN queue' : queue'[i] = queue'[k] => i = k
        BY <2>22, <3>2, <4>1, AppendDistinct DEF AddWork, PushInsert, Queued
      <4>4. Held' = Held
        BY <2>22 DEF AddWork, Held
      <4>5. QED
        BY <2>22, <4>1, <4>2, <4>3, <4>4 DEF AddWork
    <3>3. QED
      BY <2>22, <3>1, <3>2 DEF AddWork
  <2>23. ASSUME NEW c \in Client, CallWait(c)  PROVE Jobs'
    BY <2>23, <2>a DEF CallWait
  <2>24. CASE InitReturns
    BY <2>24, <2>a DEF InitReturns
  <2>25. CASE PostAll
    BY <2>25, <2>a DEF PostAll, BsemPost
  <2>26. CASE Delete
    <3>1. queue' = <<>> /\ Queued' = {} /\ Held' = Held
      BY <2>26 DEF Delete, Queued, Held
    <3>2. QED
      BY <2>26, <3>1 DEF Delete
  <2>27. CASE Destroy
    BY <2>27, <2>a DEF Destroy
  <2>28. CASE UNCHANGED vars
    BY <2>28, <2>a DEF vars
  <2>29. QED
    BY <2>1, <2>2, <2>3, <2>4, <2>5, <2>6, <2>7, <2>8, <2>9, <2>10, <2>11,
       <2>12, <2>13, <2>14, <2>15, <2>16, <2>17, <2>18, <2>19, <2>20,
       <2>21, <2>22, <2>23, <2>24, <2>25, <2>26, <2>27, <2>28
       DEF Next, ThreadStep, ClientStep, ClientCall, OwnerStep
<1>3. QED
  BY <1>1, <1>2, ControlCorrect, PTL DEF SafeSpec

\* Taking a job out of the queue hands it to the thread that pulls.
LEMMA PullMoves ==
    ASSUME DataOK, Control, NEW t \in Thread, PullTheOnly(t) \/ PullTheFirst(t)
    PROVE  /\ queue # <<>>
           /\ Queued = Queued' \cup {Head(queue)}
           /\ Held' = Held \cup {Head(queue)}
           /\ finished' = finished /\ owed' = owed
<1>1. queue \in Seq(Job) /\ queue' = Tail(queue)
  BY DEF DataOK, PullTheOnly, PullTheFirst, PullOnly, PullFirst
<1>2. queue # <<>>
  <2>1. CASE PullTheOnly(t)
    <3>1. Len(queue) = 1
      BY <2>1 DEF PullTheOnly, PullOnly
    <3>2. QED
      BY <3>1, OneIsNotEmpty
  <2>2. CASE PullTheFirst(t)
    BY <2>2 DEF PullTheFirst, PullFirst
  <2>3. QED
    BY <2>1, <2>2
<1>3. Queued = Queued' \cup {Head(queue)}
  <2>1. Queued' = {Tail(queue)[i] : i \in DOMAIN Tail(queue)}
    BY <1>1 DEF Queued
  <2>2. QED
    BY <1>1, <1>2, <2>1, QueuedTail
<1>4. held' = [held EXCEPT ![t] = Head(queue)] /\ held[t] = NoJob /\ Head(queue) \in Job
  BY <1>1, <1>2 DEF PullTheOnly, PullTheFirst, Goto, Control
<1>5. Held' = Held \cup {Head(queue)}
  BY <1>4, ThpoolAssumption DEF Held, DataOK
<1>6. QED
  BY <1>2, <1>3, <1>5 DEF PullTheOnly, PullTheFirst, history

LEMMA WorkMoves ==
    ASSUME DataOK, Control, JobsConserved, NEW t \in Thread, Work(t)
    PROVE  /\ held[t] \in Held
           /\ Held' = Held \ {held[t]}
           /\ finished' = finished \cup {held[t]}
           /\ UNCHANGED <<queue, owed>>
<1>1. held[t] \in Job /\ held[t] # NoJob
  BY ThpoolAssumption DEF Work, Goto, Control, DataOK
<1>2. \A u \in Thread : u # t => held[u] # held[t]
  BY <1>1 DEF JobsConserved
<1>3. QED
  BY <1>1, <1>2 DEF Work, Held, DataOK, jqVars

\* Jobs only move forward: from the queue to a thread to the finished ones.
LEMMA JobsMoveForward ==
    ASSUME DataOK, Control, JobsConserved, [Next]_vars
    PROVE  /\ (Held \cup finished) \subseteq (Held \cup finished)'
           /\ ~Delete => Accepted \subseteq Accepted'
<1> DEFINE Forward == /\ (Held \cup finished) \subseteq (Held \cup finished)'
                      /\ ~Delete => Accepted \subseteq Accepted'
<1>a. UNCHANGED <<held, finished>> /\ (Delete \/ Queued \subseteq Queued') => Forward
  BY DEF Held, Accepted
<1>1. ASSUME NEW t \in Thread, PullTheOnly(t) \/ PullTheFirst(t)
      PROVE  Forward
  BY <1>1, PullMoves DEF Accepted
<1>2. ASSUME NEW t \in Thread, Work(t)
      PROVE  Forward
  <2>1. Queued' = Queued
    BY <1>2, WorkMoves DEF Queued
  <2>2. QED
    BY <1>2, <2>1, WorkMoves DEF Accepted
<1>3. ASSUME NEW c \in Client, NEW j \in Job, AddWork(c, j)
      PROVE  Forward
  <2>1. CASE PushInsert(c, j)
    <3>1. queue \in Seq(Job) /\ queue' = Append(queue, j)
      BY <2>1 DEF PushInsert, DataOK
    <3>2. Queued' = Queued \cup {j}
      BY <3>1, AppendElements DEF Queued
    <3>3. QED
      BY <1>3, <3>2, <1>a DEF AddWork
  <2>2. CASE PushRefused(c)
    <3>1. Queued' = Queued
      BY <2>2 DEF PushRefused, Queued
    <3>2. QED
      BY <1>3, <3>1, <1>a DEF AddWork
  <2>3. QED
    BY <1>3, <2>1, <2>2 DEF AddWork
<1>4. CASE Delete
  BY <1>4, <1>a DEF Delete, thpoolVars, history
<1>5. ASSUME UNCHANGED <<queue, held, finished>>
      PROVE  Forward
  <2>1. Queued' = Queued
    BY <1>5 DEF Queued
  <2>2. QED
    BY <1>5, <2>1, <1>a
<1> USE DEF thpoolVars, jqVars, history
<1>6. ASSUME NEW t \in Thread, CreateThread(t) \/ CreateThreadFails(t)
      PROVE  Forward
  BY <1>6, <1>5 DEF CreateThread, CreateThreadFails
<1>7. ASSUME NEW t \in Thread, MarkAlive(t) \/ TestLoop(t) \/ WaitForJobs(t) \/ TestAwake(t)
                                \/ MarkWorking(t) \/ PullNothing(t) \/ PostNext(t)
      PROVE  Forward
  BY <1>7, <1>5 DEF MarkAlive, TestLoop, WaitForJobs, BsemWait, TestAwake, MarkWorking,
                    PullNothing, PullEmpty, PostNext, PostAndUnlock
<1>8. ASSUME NEW t \in Thread, MarkIdle(t) \/ MarkDead(t) \/ LastUnlock(t)
      PROVE  Forward
  BY <1>8, <1>5 DEF MarkIdle, MarkDead, LastUnlock
<1>9. ASSUME NEW c \in Client, ClientStep(c) \/ CallWait(c)
      PROVE  Forward
  BY <1>9, <1>5 DEF ClientStep, CallWait, PostWork, PostAndUnlock, SleepOnQueue, QueueIsEmpty,
                    SleepOnWorking, ReturnFromWait, WakeUp
<1>10. CASE InitReturns \/ PostAll \/ Destroy \/ UNCHANGED vars
  BY <1>10, <1>5 DEF InitReturns, PostAll, BsemPost, Destroy, vars
<1>11. QED
  BY <1>1, <1>2, <1>3, <1>4, <1>6, <1>7, <1>8, <1>9, <1>10
     DEF Next, ThreadStep, ClientCall, OwnerStep

\* The counters tell the truth about the jobs: nobody counted, nothing held.
LEMMA NobodyWorks ==
    ASSUME Control, CountersExact, num_threads_working = 0
    PROVE  Held = {}
<1>1. Working \subseteq Thread
  BY DEF Working
<1>2. IsFiniteSet(Working)
  BY <1>1, ThpoolAssumption, FS_Subset
<1>3. Working = {}
  BY <1>2, FS_EmptySet DEF CountersExact
<1>4. QED
  BY <1>3 DEF Working, Held, Control

LEMMA NobodyAlive ==
    ASSUME Control, CountersExact, num_threads_alive = 0
    PROVE  Held = {}
<1>1. Alive \subseteq Thread
  BY DEF Alive
<1>2. IsFiniteSet(Alive)
  BY <1>1, ThpoolAssumption, FS_Subset
<1>3. Alive = {}
  BY <1>2, FS_EmptySet DEF CountersExact
<1>4. QED
  BY <1>3 DEF Alive, Held, Control

\* What a waiting client is owed is never lost from sight (thpool_wait).
THEOREM OwedCorrect == SafeSpec => []OwedInv
<1> USE ThpoolAssumption DEF Actor
<1>1. Init => OwedInv
  BY DEF Init, OwedInv
<1>2. ASSUME DataOK, Control, DataOK', Control', JobsConserved, OwedInv, [Next]_vars
      PROVE  OwedInv'
  <2> USE <1>2
  <2>a. (Held \cup finished) \subseteq (Held \cup finished)'
    BY JobsMoveForward
  <2>b. ~Delete => Accepted \subseteq Accepted'
    BY JobsMoveForward
  <2>c. ASSUME owed' = owed, ~Delete, \A c \in Client : pc'[c] = pc[c]
        PROVE  OwedInv'
    BY <2>a, <2>b, <2>c DEF OwedInv
  <2>1. ASSUME NEW t \in Thread, ThreadStep(t) \/ CreateThread(t) \/ CreateThreadFails(t)
        PROVE  OwedInv'
    <3>1. \A c \in Client : pc'[c] = pc[c]
      BY <2>1 DEF ThreadStep, MarkAlive, TestLoop, WaitForJobs, TestAwake, MarkWorking,
         PullNothing, PullTheOnly, PullTheFirst, PostNext, Work, MarkIdle, MarkDead, LastUnlock,
         CreateThread, CreateThreadFails, Goto, DataOK
    <3>2. owed' = owed
      BY <2>1 DEF ThreadStep, MarkAlive, TestLoop, WaitForJobs, TestAwake, MarkWorking,
         PullNothing, PullTheOnly, PullTheFirst, PostNext, Work, MarkIdle, MarkDead, LastUnlock,
         CreateThread, CreateThreadFails, thpoolVars, history
    <3>3. ~Delete
      <4>1. pc'[Owner] = pc[Owner]
        BY <2>1 DEF ThreadStep, MarkAlive, TestLoop, WaitForJobs, TestAwake, MarkWorking,
           PullNothing, PullTheOnly, PullTheFirst, PostNext, Work, MarkIdle, MarkDead, LastUnlock,
           CreateThread, CreateThreadFails, Goto, DataOK
      <4>2. QED
        BY <4>1 DEF Delete, Goto, DataOK
    <3>4. QED
      BY <2>c, <3>1, <3>2, <3>3
  <2>2. ASSUME NEW c \in Client, CallWait(c)
        PROVE  OwedInv'
    <3>1. Accepted' = Accepted /\ owed' = [owed EXCEPT ![c] = Accepted]
      BY <2>2 DEF CallWait, Accepted, Queued, Held, jqVars
    <3>2. pc' = [pc EXCEPT ![c] = "testSize"]
      BY <2>2 DEF CallWait, Goto
    <3>3. QED
      BY <3>1, <3>2, <2>a DEF OwedInv, DataOK
  <2>3. ASSUME NEW c \in Client, QueueIsEmpty(c)
        PROVE  OwedInv'
    <3>1. Queued = {} /\ Held' = Held /\ finished' = finished /\ owed' = owed /\ Queued' = {}
      BY <2>3 DEF QueueIsEmpty, Queued, Held, thpoolVars, jqVars, history
    <3>2. pc[c] = "testSize" /\ pc' = [pc EXCEPT ![c] = "testWorking"]
      BY <2>3 DEF QueueIsEmpty, Goto
    <3>3. QED
      BY <3>1, <3>2 DEF OwedInv, Accepted, DataOK
  <2>4. ASSUME NEW c \in Client, SleepOnQueue(c) \/ SleepOnWorking(c) \/ WakeUp(c)
        PROVE  OwedInv'
    <3>1. Accepted' = Accepted /\ Held' = Held /\ finished' = finished /\ owed' = owed
      BY <2>4 DEF SleepOnQueue, SleepOnWorking, WakeUp, Accepted, Queued, Held, jqVars, history
    <3>2. /\ pc[c] \in {"testSize", "testWorking", "asleep"}
          /\ \E to \in {"testSize", "asleep"} : pc' = [pc EXCEPT ![c] = to]
      BY <2>4 DEF SleepOnQueue, SleepOnWorking, WakeUp, Goto
    <3>3. QED
      BY <3>1, <3>2 DEF OwedInv, Accepted, DataOK
  <2>5. ASSUME NEW c \in Client, ReturnFromWait(c)
        PROVE  OwedInv'
    <3>1. pc' = [pc EXCEPT ![c] = "idle"] /\ owed' = [owed EXCEPT ![c] = {}]
      BY <2>5 DEF ReturnFromWait, Goto
    <3>2. Accepted' = Accepted
      BY <2>5 DEF ReturnFromWait, Accepted, Queued, Held, jqVars
    <3>3. QED
      BY <3>1, <3>2, <2>a DEF OwedInv, DataOK
  <2>6. ASSUME NEW c \in Client,
               PostWork(c) \/ \E j \in Job : AddWork(c, j)
        PROVE  OwedInv'
    <3>1. owed' = owed
      BY <2>6 DEF PostWork, AddWork, thpoolVars, history
    <3>2. /\ pc[c] \in {"idle", "post"}
          /\ \E to \in {"idle", "post"} : pc' = [pc EXCEPT ![c] = to]
      BY <2>6 DEF PostWork, AddWork, Goto
    <3>3. ~Delete
      BY <3>2 DEF Delete, Goto, DataOK
    <3>4. QED
      BY <3>1, <3>2, <3>3, <2>a, <2>b DEF OwedInv, DataOK
  <2>7. CASE Delete
    <3>1. \A c \in Client : pc[c] = "idle" /\ pc'[c] = "idle"
      BY <2>7 DEF Delete, Goto, Control, DataOK
    <3>2. owed' = owed
      BY <2>7 DEF Delete, thpoolVars, history
    <3>3. QED
      BY <3>1, <3>2 DEF OwedInv
  <2>8. CASE InitReturns \/ PostAll \/ Destroy \/ UNCHANGED vars
    <3>1. /\ owed' = owed
          /\ \A c \in Client : pc'[c] = pc[c]
          /\ pc'[Owner] # "deleted" \/ pc' = pc
      BY <2>8 DEF InitReturns, PostAll, Destroy, Goto, DataOK, vars, thpoolVars, history
    <3>2. ~Delete
      BY <3>1 DEF Delete, Goto, DataOK
    <3>3. QED
      BY <3>1, <3>2, <2>c
  <2>9. QED
    BY <2>1, <2>2, <2>3, <2>4, <2>5, <2>6, <2>7, <2>8
       DEF Next, ClientStep, ClientCall, OwnerStep
<1>3. QED
  BY <1>1, <1>2, ControlCorrect, JobsCorrect, PTL DEF SafeSpec

\* thpool_wait: when it returns, every job accepted before it was called has
\* been executed, although it never holds the lock of the queue.
THEOREM WaitCorrect == SafeSpec => WaitSound
<1> DEFINE A == \A c \in Client :
                  pc[c] = "testWorking" /\ pc'[c] = "idle" => owed[c] \subseteq finished
<1>1. ASSUME DataOK, Control, CountersExact, OwedInv, [Next]_vars
      PROVE  A
  <2> SUFFICES ASSUME NEW c \in Client, pc[c] = "testWorking", pc'[c] = "idle"
               PROVE  owed[c] \subseteq finished
    OBVIOUS
  <2>1. num_threads_working = 0
    BY <1>1, ThpoolAssumption
       DEF Next, ThreadStep, ClientStep, ClientCall, OwnerStep, DataOK, Goto, vars, Actor,
           MarkAlive, TestLoop, WaitForJobs, TestAwake, MarkWorking,
           PullNothing, PullTheOnly, PullTheFirst, PostNext, Work, MarkIdle, MarkDead, LastUnlock,
           CreateThread, CreateThreadFails, InitReturns, PostAll, Delete, Destroy,
           PostWork, SleepOnQueue, QueueIsEmpty, SleepOnWorking, ReturnFromWait, WakeUp,
           AddWork, CallWait
  <2>2. Held = {}
    BY <2>1, <1>1, NobodyWorks
  <2>3. QED
    BY <2>2, <1>1 DEF OwedInv
<1>2. QED
  BY <1>1, ControlCorrect, CountersCorrect, OwedCorrect, PTL DEF SafeSpec, WaitSound

LEMMA TailOfOne == ASSUME NEW S, NEW q \in Seq(S), Len(q) = 1  PROVE Tail(q) = <<>>
<1>1. Tail(q) \in Seq(S) /\ Len(Tail(q)) = 0
  OBVIOUS
<1>2. QED
  BY <1>1, EmptySeq

\* The semaphore never forgets a queued job: PullOnly posts nothing because it
\* empties the queue, PullFirst posts for the rest, and a wait that consumed
\* the token is followed by a pull.
THEOREM SignalCorrect == SafeSpec => []QueueIsSignalled
<1> USE ThpoolAssumption DEF Actor
<1>1. Init => QueueIsSignalled
  BY DEF Init, JQInit, QueueIsSignalled
<1>2. ASSUME DataOK, Control, DataOK', Control', QueueIsSignalled, [Next]_vars
      PROVE  QueueIsSignalled'
  <2> USE <1>2 DEF DataOK, QueueIsSignalled, Goto, thpoolVars, jqVars
  <2>1. ASSUME NEW t \in Thread, CreateThread(t)  PROVE QueueIsSignalled'
    BY <2>1 DEF CreateThread
  <2>2. ASSUME NEW t \in Thread, CreateThreadFails(t)  PROVE QueueIsSignalled'
    BY <2>2 DEF CreateThreadFails
  <2>3. ASSUME NEW t \in Thread, MarkAlive(t)  PROVE QueueIsSignalled'
    BY <2>3 DEF MarkAlive
  <2>4. ASSUME NEW t \in Thread, TestLoop(t)  PROVE QueueIsSignalled'
    BY <2>4 DEF TestLoop
  <2>5. ASSUME NEW t \in Thread, WaitForJobs(t)  PROVE QueueIsSignalled'
    BY <2>5 DEF WaitForJobs, BsemWait
  <2>6. ASSUME NEW t \in Thread, TestAwake(t)  PROVE QueueIsSignalled'
    BY <2>6 DEF TestAwake
  <2>7. ASSUME NEW t \in Thread, MarkWorking(t)  PROVE QueueIsSignalled'
    BY <2>7 DEF MarkWorking
  <2>8. ASSUME NEW t \in Thread, PullNothing(t)  PROVE QueueIsSignalled'
    BY <2>8 DEF PullNothing, PullEmpty
  <2>9. ASSUME NEW t \in Thread, PullTheOnly(t)  PROVE QueueIsSignalled'
    <3>1. queue \in Seq(Job) /\ Len(queue) = 1 /\ queue' = Tail(queue)
      BY <2>9 DEF PullTheOnly, PullOnly
    <3>2. queue' = <<>>
      BY <3>1, TailOfOne
    <3>3. QED
      BY <3>2
  <2>10. ASSUME NEW t \in Thread, PullTheFirst(t)  PROVE QueueIsSignalled'
    <3>1. rwmutex' # NoActor
      BY <2>10 DEF PullTheFirst, PullFirst
    <3>2. QED
      BY <3>1
  <2>11. ASSUME NEW t \in Thread, PostNext(t)  PROVE QueueIsSignalled'
    BY <2>11 DEF PostNext, PostAndUnlock
  <2>12. ASSUME NEW t \in Thread, Work(t)  PROVE QueueIsSignalled'
    BY <2>12 DEF Work
  <2>13. ASSUME NEW t \in Thread, MarkIdle(t)  PROVE QueueIsSignalled'
    BY <2>13 DEF MarkIdle, SignalAllIdle
  <2>14. ASSUME NEW t \in Thread, MarkDead(t)  PROVE QueueIsSignalled'
    BY <2>14 DEF MarkDead
  <2>15. ASSUME NEW t \in Thread, LastUnlock(t)  PROVE QueueIsSignalled'
    BY <2>15 DEF LastUnlock
  <2>16. ASSUME NEW c \in Client, PostWork(c)  PROVE QueueIsSignalled'
    BY <2>16 DEF PostWork, PostAndUnlock
  <2>17. ASSUME NEW c \in Client, SleepOnQueue(c)  PROVE QueueIsSignalled'
    BY <2>17 DEF SleepOnQueue
  <2>18. ASSUME NEW c \in Client, QueueIsEmpty(c)  PROVE QueueIsSignalled'
    BY <2>18 DEF QueueIsEmpty
  <2>19. ASSUME NEW c \in Client, SleepOnWorking(c)  PROVE QueueIsSignalled'
    BY <2>19 DEF SleepOnWorking
  <2>20. ASSUME NEW c \in Client, ReturnFromWait(c)  PROVE QueueIsSignalled'
    BY <2>20 DEF ReturnFromWait
  <2>21. ASSUME NEW c \in Client, WakeUp(c)  PROVE QueueIsSignalled'
    BY <2>21 DEF WakeUp
  <2>22. ASSUME NEW c \in Client, NEW j \in Job, AddWork(c, j)  PROVE QueueIsSignalled'
    <3>1. rwmutex' # NoActor
      BY <2>22 DEF AddWork, PushInsert, PushRefused
    <3>2. QED
      BY <3>1
  <2>23. ASSUME NEW c \in Client, CallWait(c)  PROVE QueueIsSignalled'
    BY <2>23 DEF CallWait
  <2>24. CASE InitReturns
    BY <2>24 DEF InitReturns
  <2>25. CASE PostAll
    BY <2>25 DEF PostAll, BsemPost
  <2>26. CASE Delete
    BY <2>26 DEF Delete
  <2>27. CASE Destroy
    BY <2>27 DEF Destroy
  <2>28. CASE UNCHANGED vars
    BY <2>28 DEF vars, thpoolVars, jqVars, counters, history
  <2>29. QED
    BY <2>1, <2>2, <2>3, <2>4, <2>5, <2>6, <2>7, <2>8, <2>9, <2>10, <2>11,
       <2>12, <2>13, <2>14, <2>15, <2>16, <2>17, <2>18, <2>19, <2>20,
       <2>21, <2>22, <2>23, <2>24, <2>25, <2>26, <2>27, <2>28
       DEF Next, ThreadStep, ClientStep, ClientCall, OwnerStep
<1>3. QED
  BY <1>1, <1>2, ControlCorrect, PTL DEF SafeSpec

\* Every step of the pool is a step of JobPool or leaves it unchanged (the
\* safety half of Implements).
THEOREM ThpoolImplements == SafeSpec => ImplementsSafe
<1> USE ThpoolAssumption DEF Actor
<1> DEFINE InWait == {c \in Client : pc[c] \in {"testSize", "testWorking", "asleep"}}
           Closed == pc[Owner] = "deleted"
           Abs == <<queue, Held, finished, owed, InWait, Closed>>
           Step == [JP!PoolNext]_(JP!poolVars)
<1>0. JP!Todo = Queued
  BY DEF JP!Todo, Queued
<1>1. Init => JP!PoolInit
  BY DEF Init, JQInit, JP!PoolInit, Held
<1>2. ASSUME DataOK, Control, DataOK', Control', CountersExact, AcceptedWasAdded,
             JobsConserved, OwedInv, [Next]_vars
      PROVE  Step
  <2> USE <1>2
  <2>a. UNCHANGED Abs => Step
    BY DEF JP!poolVars
  <2>1. ASSUME NEW t \in Thread, PullTheOnly(t) \/ PullTheFirst(t)
        PROVE  Step
    <3>1. queue # <<>> /\ Held' = Held \cup {Head(queue)} /\ finished' = finished /\ owed' = owed
      BY <2>1, PullMoves
    <3>2. queue' = Tail(queue)
      BY <2>1 DEF PullTheOnly, PullOnly, PullTheFirst, PullFirst
    <3>3. InWait' = InWait /\ Closed' = Closed
      BY <2>1 DEF PullTheOnly, PullTheFirst, Goto, DataOK
    <3>4. JP!Start
      BY <3>1, <3>2, <3>3 DEF JP!Start
    <3>5. QED
      BY <3>4 DEF JP!PoolNext
  <2>2. ASSUME NEW t \in Thread, Work(t)
        PROVE  Step
    <3>1. /\ held[t] \in Held /\ Held' = Held \ {held[t]}
          /\ finished' = finished \cup {held[t]} /\ UNCHANGED <<queue, owed>>
      BY <2>2, WorkMoves
    <3>2. InWait' = InWait /\ Closed' = Closed
      BY <2>2 DEF Work, Goto, DataOK
    <3>3. held[t] \in Job
      BY <3>1 DEF Held, DataOK
    <3>4. JP!Finish(held[t])
      BY <3>1, <3>2 DEF JP!Finish
    <3>5. QED
      BY <3>3, <3>4 DEF JP!PoolNext
  <2>3. ASSUME NEW c \in Client, NEW j \in Job, AddWork(c, j)
        PROVE  Step
    <3>1. /\ InWait' = InWait /\ Closed' = Closed /\ ~Closed
          /\ Held' = Held /\ finished' = finished /\ owed' = owed
      BY <2>3 DEF AddWork, Goto, DataOK, Held
    <3>2. CASE PushRefused(c)
      BY <3>1, <3>2, <2>a DEF PushRefused
    <3>3. CASE PushInsert(c, j)
      <4>1. j \notin Queued \cup Held \cup finished
        BY <2>3 DEF AddWork, AcceptedWasAdded, Accepted
      <4>2. queue' = Append(queue, j)
        BY <3>3 DEF PushInsert
      <4>3. JP!Submit(j)
        BY <1>0, <3>1, <4>1, <4>2 DEF JP!Submit
      <4>4. QED
        BY <4>3 DEF JP!PoolNext
    <3>4. QED
      BY <2>3, <3>2, <3>3 DEF AddWork
  <2>4. ASSUME NEW c \in Client, CallWait(c)
        PROVE  Step
    <3>1. c \notin InWait /\ InWait' = InWait \cup {c} /\ Closed' = Closed
      BY <2>4 DEF CallWait, Goto, DataOK
    <3>2. /\ owed' = [owed EXCEPT ![c] = Queued \cup Held \cup finished]
          /\ UNCHANGED <<queue, Held, finished>>
      BY <2>4 DEF CallWait, jqVars, Held, Accepted
    <3>3. JP!CallWait(c)
      BY <1>0, <3>1, <3>2 DEF JP!CallWait
    <3>4. QED
      BY <3>3 DEF JP!PoolNext
  <2>5. ASSUME NEW c \in Client, ReturnFromWait(c)
        PROVE  Step
    <3>1. c \in InWait /\ InWait' = InWait \ {c} /\ Closed' = Closed
      BY <2>5 DEF ReturnFromWait, Goto, DataOK
    <3>2. /\ owed' = [owed EXCEPT ![c] = {}] /\ UNCHANGED <<queue, Held, finished>>
      BY <2>5 DEF ReturnFromWait, jqVars, Held
    <3>3. Held = {}
      BY <2>5, NobodyWorks DEF ReturnFromWait
    <3>4. owed[c] \subseteq finished
      BY <2>5, <3>3 DEF ReturnFromWait, Goto, OwedInv
    <3>5. JP!ReturnWait(c)
      BY <3>1, <3>2, <3>4 DEF JP!ReturnWait
    <3>6. QED
      BY <3>5 DEF JP!PoolNext
  <2>6. CASE Delete
    <3>1. ~Closed /\ Closed' /\ queue' = <<>> /\ UNCHANGED <<Held, finished, owed>>
      BY <2>6 DEF Delete, Goto, DataOK, thpoolVars, history, Held
    <3>2. InWait = {} /\ InWait' = {}
      BY <2>6 DEF Delete, Goto, Control, DataOK
    <3>3. Held = {}
      BY <2>6, NobodyAlive DEF Delete
    <3>4. JP!Close
      BY <3>1, <3>2, <3>3 DEF JP!Close
    <3>5. QED
      BY <3>4 DEF JP!PoolNext
  <2> USE DEF thpoolVars, jqVars, history, Goto, DataOK
  <2>7. ASSUME NEW t \in Thread,
               CreateThread(t) \/ CreateThreadFails(t) \/ MarkAlive(t) \/ TestLoop(t)
                 \/ WaitForJobs(t) \/ TestAwake(t) \/ MarkWorking(t)
        PROVE  Step
    <3>1. queue' = queue /\ Held' = Held /\ finished' = finished /\ owed' = owed
      BY <2>7 DEF CreateThread, CreateThreadFails, MarkAlive, TestLoop, WaitForJobs, BsemWait,
                  TestAwake, MarkWorking, Held
    <3>2. InWait' = InWait /\ Closed' = Closed
      BY <2>7 DEF CreateThread, CreateThreadFails, MarkAlive, TestLoop, WaitForJobs,
                  TestAwake, MarkWorking
    <3>3. QED
      BY <3>1, <3>2, <2>a
  <2>8. ASSUME NEW t \in Thread,
               PullNothing(t) \/ PostNext(t) \/ MarkIdle(t) \/ MarkDead(t) \/ LastUnlock(t)
        PROVE  Step
    <3>1. queue' = queue /\ Held' = Held /\ finished' = finished /\ owed' = owed
      BY <2>8 DEF PullNothing, PullEmpty, PostNext, PostAndUnlock, MarkIdle, MarkDead,
                  LastUnlock, Held
    <3>2. InWait' = InWait /\ Closed' = Closed
      BY <2>8 DEF PullNothing, PostNext, MarkIdle, MarkDead, LastUnlock
    <3>3. QED
      BY <3>1, <3>2, <2>a
  <2>9. ASSUME NEW c \in Client,
               PostWork(c) \/ SleepOnQueue(c) \/ QueueIsEmpty(c) \/ SleepOnWorking(c) \/ WakeUp(c)
        PROVE  Step
    <3>1. queue' = queue /\ Held' = Held /\ finished' = finished /\ owed' = owed
      BY <2>9 DEF PostWork, PostAndUnlock, SleepOnQueue, QueueIsEmpty, SleepOnWorking, WakeUp, Held
    <3>2. InWait' = InWait /\ Closed' = Closed
      BY <2>9 DEF PostWork, SleepOnQueue, QueueIsEmpty, SleepOnWorking, WakeUp
    <3>3. QED
      BY <3>1, <3>2, <2>a
  <2>10. CASE InitReturns \/ PostAll \/ Destroy \/ UNCHANGED vars
    <3>1. queue' = queue /\ Held' = Held /\ finished' = finished /\ owed' = owed
      BY <2>10 DEF InitReturns, PostAll, BsemPost, Destroy, vars, Held
    <3>2. InWait' = InWait /\ Closed' = Closed
      BY <2>10 DEF InitReturns, PostAll, Destroy, vars
    <3>3. QED
      BY <3>1, <3>2, <2>a
  <2>11. QED
    BY <2>1, <2>2, <2>3, <2>4, <2>5, <2>6, <2>7, <2>8, <2>9, <2>10
       DEF Next, ThreadStep, ClientStep, ClientCall, OwnerStep
<1>3. QED
  BY <1>1, <1>2, ControlCorrect, CountersCorrect, JobsCorrect, OwedCorrect, PTL
     DEF SafeSpec, ImplementsSafe, JP!PoolSafe

=============================================================================
