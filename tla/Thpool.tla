------------------------------- MODULE Thpool -------------------------------
(***************************************************************************)
(* threads/thpool.c: n threads that execute the jobs of one queue, the     *)
(* clients that add jobs and wait for them (poll threads of the cerver,    *)
(* lobbies, the application), and the owner that creates and destroys the  *)
(* pool.                                                                   *)
(*                                                                         *)
(* thpool->mutex protects the two counters; a critical section is one step *)
(* unless the code does something visible inside it.  keep_alive and the   *)
(* counters that the owner polls are read without the lock, as in the code.*)
(***************************************************************************)
EXTENDS JobQueue, FiniteSets

CONSTANTS Thread,    \* the threads of the pool
          Client,    \* the threads that use the pool
          Waiter,    \* the clients that call thpool_wait
          Job,       \* the jobs the clients may add, each of them once
          NoJob,
          Owner,     \* the thread that creates and destroys the pool
          Unlucky    \* the threads that pthread_create may fail to start

ASSUME ThpoolAssumption ==
    /\ IsFiniteSet(Thread) /\ Thread # {}
    /\ Waiter \subseteq Client
    /\ Unlucky \subseteq Thread
    /\ Thread \cap Client = {}
    /\ Owner \notin Thread \cup Client
    /\ NoActor \notin Thread \cup Client \cup {Owner}
    /\ NoJob \notin Job

VARIABLES keep_alive,
          num_threads_alive,
          num_threads_working,
          mutex,      \* the holder of thpool->mutex across steps
          sleeping,   \* the clients blocked on thpool->threads_all_idle
          pc,         \* where every actor is
          held,       \* the job a thread has pulled and not finished
          finished,   \* history: the jobs that have been executed
          added,      \* history: the jobs whose insertion was tried
          owed        \* history: what was accepted before a client's wait

counters == <<num_threads_alive, num_threads_working>>
history == <<finished, added, owed>>
thpoolVars == <<keep_alive, counters, mutex, sleeping, held, history>>
vars == <<jqVars, thpoolVars, pc>>

Actor == Thread \cup Client \cup {Owner}

Goto(a, from, to) == pc[a] = from /\ pc' = [pc EXCEPT ![a] = to]
Free == mutex = NoActor

Queued == {queue[i] : i \in DOMAIN queue}
Held == {held[t] : t \in Thread} \ {NoJob}
Accepted == Queued \cup Held \cup finished

\* thpool_create, and thpool_init up to the creation of the first thread.
Init ==
    /\ JQInit
    /\ keep_alive = TRUE
    /\ num_threads_alive = 0
    /\ num_threads_working = 0
    /\ mutex = NoActor
    /\ sleeping = {}
    /\ pc = [a \in Actor |-> IF a \in Thread THEN "unborn"
                             ELSE IF a = Owner THEN "create" ELSE "idle"]
    /\ held = [t \in Thread |-> NoJob]
    /\ finished = {}
    /\ added = {}
    /\ owed = [c \in Client |-> {}]

-----------------------------------------------------------------------------
(***************************************************************************)
(* thpool_init: the result of each pthread_create is ignored, then the     *)
(* owner spins until every thread has counted itself.                      *)
(***************************************************************************)
CreateThread(t) ==
    /\ pc[Owner] = "create"
    /\ Goto(t, "unborn", "born")
    /\ UNCHANGED <<jqVars, thpoolVars>>

CreateThreadFails(t) ==
    /\ pc[Owner] = "create"
    /\ t \in Unlucky
    /\ Goto(t, "unborn", "failed")
    /\ UNCHANGED <<jqVars, thpoolVars>>

InitReturns ==
    /\ \A t \in Thread : pc[t] # "unborn"
    /\ num_threads_alive = Cardinality(Thread)
    /\ Goto(Owner, "create", "serving")
    /\ UNCHANGED <<jqVars, thpoolVars>>

-----------------------------------------------------------------------------
(***************************************************************************)
(* thread_do                                                               *)
(***************************************************************************)
\* Fault: two unlocked increments, one of them lost.
MarkAliveLost(t) ==
    /\ Free
    /\ Goto(t, "born", "loop")
    /\ UNCHANGED <<jqVars, thpoolVars>>

MarkAlive(t) ==
    /\ Free
    /\ Goto(t, "born", "loop")
    /\ num_threads_alive' = num_threads_alive + 1
    /\ UNCHANGED <<jqVars, keep_alive, num_threads_working, mutex, sleeping, held, history>>

\* while (thpool->keep_alive)
TestLoop(t) ==
    /\ Goto(t, "loop", IF keep_alive THEN "wait" ELSE "exit")
    /\ UNCHANGED <<jqVars, thpoolVars>>

WaitForJobs(t) ==
    /\ Goto(t, "wait", "awake")
    /\ BsemWait
    /\ UNCHANGED thpoolVars

\* if (thpool->keep_alive), the test after the semaphore
TestAwake(t) ==
    /\ Goto(t, "awake", IF keep_alive THEN "enter" ELSE "loop")
    /\ UNCHANGED <<jqVars, thpoolVars>>

MarkWorking(t) ==
    /\ Free
    /\ Goto(t, "enter", "pull")
    /\ num_threads_working' = num_threads_working + 1
    /\ UNCHANGED <<jqVars, keep_alive, num_threads_alive, mutex, sleeping, held, history>>

PullNothing(t) ==
    /\ PullEmpty
    /\ Goto(t, "pull", "leave")
    /\ UNCHANGED thpoolVars

PullTheOnly(t) ==
    /\ PullOnly
    /\ Goto(t, "pull", "work")
    /\ held' = [held EXCEPT ![t] = Head(queue)]
    /\ UNCHANGED <<keep_alive, counters, mutex, sleeping, history>>

PullTheFirst(t) ==
    /\ PullFirst(t)
    /\ Goto(t, "pull", "repost")
    /\ held' = [held EXCEPT ![t] = Head(queue)]
    /\ UNCHANGED <<keep_alive, counters, mutex, sleeping, history>>

PostNext(t) ==
    /\ PostAndUnlock(t)
    /\ Goto(t, "repost", "work")
    /\ UNCHANGED thpoolVars

\* job->work (job->args); job_delete (job);
Work(t) ==
    /\ Goto(t, "work", "leave")
    /\ finished' = finished \cup {held[t]}
    /\ held' = [held EXCEPT ![t] = NoJob]
    /\ UNCHANGED <<jqVars, keep_alive, counters, mutex, sleeping, added, owed>>

\* pthread_cond_signal (thpool->threads_all_idle): one sleeper, if any
SignalAllIdle ==
    IF sleeping = {} THEN UNCHANGED sleeping
    ELSE \E c \in sleeping : sleeping' = sleeping \ {c}

\* Fault: the last thread to finish signals nobody.
MarkIdleSilently(t) ==
    /\ Free
    /\ Goto(t, "leave", "loop")
    /\ num_threads_working' = num_threads_working - 1
    /\ UNCHANGED <<jqVars, keep_alive, num_threads_alive, mutex, sleeping, held, history>>

MarkIdle(t) ==
    /\ Free
    /\ Goto(t, "leave", "loop")
    /\ num_threads_working' = num_threads_working - 1
    /\ IF num_threads_working = 1 THEN SignalAllIdle ELSE UNCHANGED sleeping
    /\ UNCHANGED <<jqVars, keep_alive, num_threads_alive, mutex, held, history>>

\* The last critical section: after the decrement the owner may go on, while
\* the thread still has to unlock the mutex.
MarkDead(t) ==
    /\ Free
    /\ Goto(t, "exit", "unlock")
    /\ mutex' = t
    /\ num_threads_alive' = num_threads_alive - 1
    /\ UNCHANGED <<jqVars, keep_alive, num_threads_working, sleeping, held, history>>

LastUnlock(t) ==
    /\ Goto(t, "unlock", "gone")
    /\ mutex' = NoActor
    /\ UNCHANGED <<jqVars, keep_alive, counters, sleeping, held, history>>

-----------------------------------------------------------------------------
(***************************************************************************)
(* The clients.  A client uses the pool between thpool_init and            *)
(* thpool_destroy, which is what every caller in cerver does.              *)
(***************************************************************************)
\* thpool_add_work: job_create and the insertion under rwmutex
AddWork(c, j) ==
    /\ pc[Owner] = "serving"
    /\ j \notin added
    /\ Goto(c, "idle", "post")
    /\ \/ PushInsert(c, j)
       \/ PushRefused(c)
    /\ added' = added \cup {j}
    /\ UNCHANGED <<keep_alive, counters, mutex, sleeping, held, finished, owed>>

PostWork(c) ==
    /\ PostAndUnlock(c)
    /\ Goto(c, "post", "idle")
    /\ UNCHANGED thpoolVars

\* thpool_wait locks the mutex
CallWait(c) ==
    /\ pc[Owner] = "serving"
    /\ Free
    /\ Goto(c, "idle", "testSize")
    /\ mutex' = c
    /\ owed' = [owed EXCEPT ![c] = Accepted]
    /\ UNCHANGED <<jqVars, keep_alive, counters, sleeping, held, finished, added>>

\* The loop test reads job_queue->queue->size without rwmutex and sleeps when
\* there are jobs; pthread_cond_wait gives the mutex back.
SleepOnQueue(c) ==
    /\ queue # <<>>
    /\ Goto(c, "testSize", "asleep")
    /\ mutex' = NoActor
    /\ sleeping' = sleeping \cup {c}
    /\ UNCHANGED <<jqVars, keep_alive, counters, held, history>>

QueueIsEmpty(c) ==
    /\ queue = <<>>
    /\ Goto(c, "testSize", "testWorking")
    /\ UNCHANGED <<jqVars, thpoolVars>>

\* The second half of the test reads num_threads_working.
SleepOnWorking(c) ==
    /\ num_threads_working # 0
    /\ Goto(c, "testWorking", "asleep")
    /\ mutex' = NoActor
    /\ sleeping' = sleeping \cup {c}
    /\ UNCHANGED <<jqVars, keep_alive, counters, held, history>>

\* Fault: the wait ends as soon as the queue is empty.
ReturnAtOnce(c) ==
    /\ Goto(c, "testWorking", "idle")
    /\ mutex' = NoActor
    /\ owed' = [owed EXCEPT ![c] = {}]
    /\ UNCHANGED <<jqVars, keep_alive, counters, sleeping, held, finished, added>>

ReturnFromWait(c) ==
    /\ num_threads_working = 0
    /\ Goto(c, "testWorking", "idle")
    /\ mutex' = NoActor
    /\ owed' = [owed EXCEPT ![c] = {}]
    /\ UNCHANGED <<jqVars, keep_alive, counters, sleeping, held, finished, added>>

\* A signalled client owns the mutex again.
WakeUp(c) ==
    /\ c \notin sleeping
    /\ Free
    /\ Goto(c, "asleep", "testSize")
    /\ mutex' = c
    /\ UNCHANGED <<jqVars, keep_alive, counters, sleeping, held, history>>

-----------------------------------------------------------------------------
(***************************************************************************)
(* thpool_destroy                                                          *)
(***************************************************************************)
Destroy ==
    /\ \A c \in Client : pc[c] = "idle"
    /\ Goto(Owner, "serving", "ending")
    /\ keep_alive' = FALSE
    /\ UNCHANGED <<jqVars, counters, mutex, sleeping, held, history>>

\* both loops: while (thpool->num_threads_alive) bsem_post_all (has_jobs)
PostAll ==
    /\ pc[Owner] = "ending"
    /\ num_threads_alive # 0
    /\ BsemPost
    /\ UNCHANGED <<thpoolVars, pc>>

\* thpool_delete: the jobs still in the queue are dropped with it
Delete ==
    /\ num_threads_alive = 0
    /\ Goto(Owner, "ending", "deleted")
    /\ queue' = <<>>
    /\ UNCHANGED <<has_jobs, rwmutex, thpoolVars>>

-----------------------------------------------------------------------------
ThreadStep(t) ==
    \/ MarkAlive(t) \/ TestLoop(t) \/ WaitForJobs(t) \/ TestAwake(t)
    \/ MarkWorking(t)
    \/ PullNothing(t) \/ PullTheOnly(t) \/ PullTheFirst(t) \/ PostNext(t)
    \/ Work(t) \/ MarkIdle(t)
    \/ MarkDead(t) \/ LastUnlock(t)

\* What a client does once it is inside a call.
ClientStep(c) ==
    \/ PostWork(c)
    \/ SleepOnQueue(c) \/ QueueIsEmpty(c)
    \/ SleepOnWorking(c) \/ ReturnFromWait(c)
    \/ WakeUp(c)

ClientCall(c) ==
    \/ \E j \in Job : AddWork(c, j)
    \/ c \in Waiter /\ CallWait(c)

OwnerStep ==
    \/ \E t \in Thread : CreateThread(t) \/ CreateThreadFails(t)
    \/ InitReturns
    \/ PostAll
    \/ Delete

Next ==
    \/ \E t \in Thread : ThreadStep(t)
    \/ \E c \in Client : ClientStep(c) \/ ClientCall(c)
    \/ OwnerStep
    \/ Destroy

(***************************************************************************)
(* Every thread runs when it can, and every call that started goes on.     *)
(* Nothing makes a client call or the owner destroy the pool.              *)
(***************************************************************************)
Fairness ==
    /\ \A t \in Thread : WF_vars(ThreadStep(t))
    /\ \A c \in Client : WF_vars(ClientStep(c))
    /\ WF_vars(OwnerStep)

SafeSpec == Init /\ [][Next]_vars
Spec == SafeSpec /\ Fairness

-----------------------------------------------------------------------------
PC == {"unborn", "born", "failed", "loop", "wait", "awake", "enter", "pull", "repost",
       "work", "leave", "exit", "unlock", "gone",
       "idle", "post", "testSize", "testWorking", "asleep",
       "create", "serving", "ending", "deleted"}

\* The types of the state of the pool.
TypeOK ==
    /\ queue \in Seq(Job)
    /\ has_jobs \in {0, 1}
    /\ rwmutex \in Actor \cup {NoActor}
    /\ keep_alive \in BOOLEAN
    /\ num_threads_alive \in Nat
    /\ num_threads_working \in Nat
    /\ mutex \in Actor \cup {NoActor}
    /\ sleeping \subseteq Client
    /\ pc \in [Actor -> PC]
    /\ held \in [Thread -> Job \cup {NoJob}]
    /\ finished \subseteq Job
    /\ added \subseteq Job
    /\ owed \in [Client -> SUBSET Job]

\* The counters count: num_threads_working is the number of threads between
\* the two critical sections of thread_do, num_threads_alive the number of
\* threads that have not left, whatever the interleaving.
Working == {t \in Thread : pc[t] \in {"pull", "repost", "work", "leave"}}
Alive == {t \in Thread : pc[t] \notin {"unborn", "born", "failed", "unlock", "gone"}}
CountersExact ==
    /\ num_threads_working = Cardinality(Working)
    /\ num_threads_alive = Cardinality(Alive)

\* thpool_wait returns only when every job that was accepted before the call
\* has been executed, although the size of the queue is read without its lock
\* and before num_threads_working.
WaitSound ==
    [][\A c \in Client :
         pc[c] = "testWorking" /\ pc'[c] = "idle" => owed[c] \subseteq finished]_vars

\* A job that waits in the queue is never forgotten by the semaphore: either
\* the token is there, or whoever holds rwmutex is about to put it there, or
\* a thread has taken it and will still look into the queue.
QueueIsSignalled ==
    queue # <<>> /\ keep_alive =>
        \/ has_jobs = 1
        \/ rwmutex # NoActor
        \/ \E t \in Thread : pc[t] \in {"awake", "enter", "pull"}

\* No job is executed twice or by two threads, and none that was accepted
\* disappears while the pool exists.
JobsConserved ==
    /\ \A i, k \in DOMAIN queue : queue[i] = queue[k] => i = k
    /\ \A t, u \in Thread : held[t] = held[u] /\ held[t] # NoJob => t = u
    /\ Queued \cap (Held \cup finished) = {}
    /\ Held \cap finished = {}

(***************************************************************************)
(* What makes the properties inductive: where an actor can be, what it     *)
(* holds there, and what a waiting client is still owed.                   *)
(***************************************************************************)
ThreadPC == {"unborn", "born", "failed", "loop", "wait", "awake", "enter", "pull",
             "repost", "work", "leave", "exit", "unlock", "gone"}
ClientPC == {"idle", "post", "testSize", "testWorking", "asleep"}
OwnerPC == {"create", "serving", "ending", "deleted"}

\* The locks are held exactly where the code is between lock and unlock, a
\* thread has a job exactly between the pull and the end of the work, and no
\* client is inside a call before the pool serves and once it is destroyed.
Control ==
    /\ \A t \in Thread : pc[t] \in ThreadPC
    /\ \A c \in Client : pc[c] \in ClientPC
    /\ pc[Owner] \in OwnerPC
    /\ \A a \in Actor : rwmutex = a <=> pc[a] \in {"post", "repost"}
    /\ \A a \in Actor : mutex = a <=> pc[a] \in {"testSize", "testWorking", "unlock"}
    /\ \A t \in Thread : held[t] # NoJob <=> pc[t] \in {"repost", "work"}
    /\ \A c \in sleeping : pc[c] = "asleep"
    /\ pc[Owner] # "serving" => \A c \in Client : pc[c] = "idle"

\* Only what was added can be accepted.
AcceptedWasAdded == Accepted \subseteq added

\* Whatever a waiting client is owed is still somewhere in the pool, and once
\* it has seen an empty queue it is at least in the hands of a thread.
OwedInv ==
    \A c \in Client :
        /\ pc[c] \in {"testSize", "asleep"} => owed[c] \subseteq Accepted
        /\ pc[c] = "testWorking" => owed[c] \subseteq Held \cup finished
        /\ pc[c] \in {"idle", "post"} => owed[c] = {}

\* The pool is the JobPool that thpool.h describes.
JP == INSTANCE JobPool
        WITH todo    <- queue,
             running <- Held,
             inWait  <- {c \in Client : pc[c] \in {"testSize", "testWorking", "asleep"}},
             closed  <- pc[Owner] = "deleted"

ImplementsSafe == JP!PoolSafe
Implements == JP!PoolSpec

\* Destroying the pool ends: no post is lost on a thread that is between its
\* loop test and the semaphore.
DestroyEnds == pc[Owner] = "ending" ~> pc[Owner] = "deleted"

\* thpool.h: "wait until all jobs have finished".  A client that waits is let
\* go once the pool is idle for good.
WaitEnds ==
    \A c \in Client : pc[c] = "asleep" ~> pc[c] = "idle"

\* thpool_init: "returns 0 on success, 1 on error".  It returns, unless a
\* thread could not be created: then it waits for that thread for ever.
InitEnds == <>(pc[Owner] # "create" \/ \E t \in Thread : pc[t] = "failed")

\* The three calls that wait come back.
CallsEnd == InitEnds /\ WaitEnds /\ DestroyEnds
=============================================================================
