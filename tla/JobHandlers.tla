---------------------------- MODULE JobHandlers -----------------------------
(***************************************************************************)
(* threads/jobs.c, a queue of the type JOB_QUEUE_TYPE_HANDLERS: callers    *)
(* take a handler from the pool, put their data in it, push it, and either *)
(* wait for the answer (job_handler_wait) or do not (job_queue_push_       *)
(* handler); a thread pulls the handlers and calls the method of the queue *)
(* with their data; an owner starts and stops it.                          *)
(*                                                                         *)
(* The queue is the one of JobQueue.  The pool is collections/pool.c:      *)
(* pool_push () and queue_push () read the end of the list before          *)
(* dlist_insert_after () takes its lock, so that by then the element may   *)
(* have been taken out and freed.  crashed says that this has happened;    *)
(* what the process does then is not modelled.                             *)
(***************************************************************************)
EXTENDS JobQueue, SequencesExt, FiniteSets

CONSTANTS Caller, Consumer, Owner,
          Handler,        \* bound: the handlers that are ever created
          Nil, Freed,
          Refusable,      \* bound: the callers for which the list may find no memory
          PoolInit,       \* what pool_init () has made: sequences of handlers
          Calls           \* bound: the calls of each caller

VARIABLES pool,           \* job_queue->pool->dlist
          created,        \* the handlers that exist
          seen,           \* the end that a caller has read, before the insertion
          data, done,     \* of each handler
          running, pc,
          handler,        \* the handler that a caller or a consumer works with
          called,         \* how many calls a caller has made
          handled, deleted, \* history: the data that were handled, and deleted
          crashed

poolVars == <<pool, created, seen>>
hVars == <<poolVars, data, done, running, pc, handler, called, handled, deleted, crashed>>
vars == <<jqVars, hVars>>

Thread == Caller \cup Consumer \cup {Owner}

Init ==
    /\ JQInit
    /\ pool \in PoolInit /\ created = ToSet(pool) /\ seen = [c \in Caller |-> Nil]
    /\ data = [h \in Handler |-> Nil] /\ done = [h \in Handler |-> FALSE]
    /\ running = FALSE
    /\ pc = [t \in Thread |-> IF t \in Consumer THEN "none" ELSE "idle"]
    /\ handler = [t \in Thread |-> Nil]
    /\ called = [c \in Caller |-> 0]
    /\ handled = {} /\ deleted = {} /\ crashed = FALSE

Goto(t, from, to) == ~ crashed /\ pc[t] = from /\ pc' = [pc EXCEPT ![t] = to]
Datum(c) == <<c, called[c]>>

-----------------------------------------------------------------------------
\* pool_pop (): the first element, or a new handler when there is none.
PoolPop(h) ==
    \/ /\ pool # <<>> /\ h = Head(pool)
       /\ pool' = Tail(pool)
       /\ seen' = [c \in Caller |-> IF seen[c] = h THEN Freed ELSE seen[c]]
       /\ UNCHANGED created
    \/ /\ pool = <<>>
       /\ h \in Handler \ created
       /\ created' = created \cup {h}
       /\ UNCHANGED <<pool, seen>>

\* The end of the list, when the arguments of dlist_insert_after () are
\* evaluated.
PoolEnd == IF pool = <<>> THEN Nil ELSE Last(pool)

\* dlist_insert_after () with its lock: NULL is the start.
PoolInsert(c, h) ==
    IF seen[c] = Freed
    THEN crashed' = TRUE /\ UNCHANGED <<pool, seen>>
    ELSE /\ \E i \in 0 .. Len(pool) :
               /\ IF i = 0 THEN seen[c] = Nil ELSE seen[c] = pool[i]
               /\ pool' = InsertAt(pool, i + 1, h)
         /\ seen' = [seen EXCEPT ![c] = Nil]
         /\ UNCHANGED crashed

-----------------------------------------------------------------------------
\* A call of job_handler_wait () or job_queue_push_handler ().  Which of them it
\* is makes no difference until the handler is in the queue, or is refused.
TakeHandler(c) ==
    \E h \in Handler :
        /\ called[c] < Calls
        /\ Goto(c, "idle", "push")
        /\ PoolPop(h)
        /\ called' = [called EXCEPT ![c] = @ + 1]
        /\ data' = [data EXCEPT ![h] = <<c, called[c] + 1>>]
        /\ handler' = [handler EXCEPT ![c] = h]
        /\ UNCHANGED <<jqVars, done, running, handled, deleted, crashed>>

InsertHandler(c) ==
    /\ Goto(c, "push", "post") /\ PushInsert(c, handler[c])
    /\ UNCHANGED <<poolVars, data, done, running, handler, called, handled, deleted, crashed>>

\* A handler that cannot be queued goes back to the pool if a caller waits for
\* it, and is forgotten otherwise.
InsertFails(c) ==
    /\ c \in Refusable
    /\ \E to \in {"refused", "forgotten"} : Goto(c, "push", to)
    /\ PushRefused(c)
    /\ UNCHANGED <<poolVars, data, done, running, handler, called, handled, deleted, crashed>>

PostHandler(c) ==
    /\ \/ \E to \in {"wait", "idle"} : Goto(c, "post", to)
       \/ Goto(c, "refused", "return")
       \/ Goto(c, "forgotten", "idle")
    /\ PostAndUnlock(c)
    /\ handler' = IF pc'[c] = "idle" THEN [handler EXCEPT ![c] = Nil] ELSE handler
    /\ UNCHANGED <<poolVars, data, done, running, called, handled, deleted, crashed>>

\* With the mutex of the handler, which pthread_cond_wait () gives back.
AwaitDone(c) ==
    /\ Goto(c, "wait", IF done[handler[c]] THEN "return" ELSE "sleep")
    /\ UNCHANGED <<jqVars, poolVars, data, done, running, handler, called, handled, deleted, crashed>>

\* Fault: done stays set when the handler goes back to the pool.
ResetHandlerKeepsDone(c) ==
    /\ Goto(c, "return", "insert")
    /\ deleted' = deleted \cup {data[handler[c]]}
    /\ data' = [data EXCEPT ![handler[c]] = Nil]
    /\ seen' = [seen EXCEPT ![c] = PoolEnd]
    /\ UNCHANGED <<jqVars, done, pool, created, running, handler, called, handled, crashed>>

\* job_handler_return () up to the lock of the list.
ResetHandler(c) ==
    /\ Goto(c, "return", "insert")
    /\ done' = [done EXCEPT ![handler[c]] = FALSE]
    /\ deleted' = deleted \cup {data[handler[c]]}
    /\ data' = [data EXCEPT ![handler[c]] = Nil]
    /\ seen' = [seen EXCEPT ![c] = PoolEnd]
    /\ UNCHANGED <<jqVars, pool, created, running, handler, called, handled, crashed>>

ReturnHandler(c) ==
    /\ Goto(c, "insert", "idle")
    /\ PoolInsert(c, handler[c])
    /\ handler' = [handler EXCEPT ![c] = Nil]
    /\ UNCHANGED <<jqVars, created, data, done, running, called, handled, deleted>>

-----------------------------------------------------------------------------
\* job_queue_handlers (): the thread of the queue.
TestRunning(k) ==
    /\ Goto(k, "test", IF running THEN "bsem" ELSE "ended")
    /\ UNCHANGED <<jqVars, poolVars, data, done, running, handler, called, handled, deleted, crashed>>

WaitForJobs(k) ==
    /\ Goto(k, "bsem", "pull") /\ BsemWait
    /\ UNCHANGED <<poolVars, data, done, running, handler, called, handled, deleted, crashed>>

PullNothing(k) ==
    /\ Goto(k, "pull", "test") /\ PullEmpty
    /\ UNCHANGED <<poolVars, data, done, running, handler, called, handled, deleted, crashed>>

PullHandler(k) ==
    /\ \/ Goto(k, "pull", "work") /\ PullOnly
       \/ Goto(k, "pull", "repost") /\ PullFirst(k)
    /\ handler' = [handler EXCEPT ![k] = Head(queue)]
    /\ UNCHANGED <<poolVars, data, done, running, called, handled, deleted, crashed>>

PostNext(k) ==
    /\ Goto(k, "repost", "work") /\ PostAndUnlock(k)
    /\ UNCHANGED <<poolVars, data, done, running, handler, called, handled, deleted, crashed>>

\* The method of the queue.
Handle(k) ==
    /\ Goto(k, "work", "signal")
    /\ handled' = handled \cup {data[handler[k]]}
    /\ UNCHANGED <<jqVars, poolVars, data, done, running, handler, called, deleted, crashed>>

\* Fault: the flag is set, and nobody is woken.
SignalSetOnly(k) ==
    /\ Goto(k, "signal", "test")
    /\ done' = [done EXCEPT ![handler[k]] = TRUE]
    /\ handler' = [handler EXCEPT ![k] = Nil]
    /\ UNCHANGED <<jqVars, poolVars, data, running, called, handled, deleted, crashed>>

\* job_handler_signal (), with the mutex of the handler.
Signal(k) ==
    LET h == handler[k] IN
    /\ ~ crashed /\ pc[k] = "signal"
    /\ done' = [done EXCEPT ![h] = TRUE]
    /\ pc' = [t \in Thread |-> CASE t = k -> "test"
                                 [] pc[t] = "sleep" /\ handler[t] = h -> "wait"
                                 [] OTHER -> pc[t]]
    /\ handler' = [handler EXCEPT ![k] = Nil]
    /\ UNCHANGED <<jqVars, poolVars, data, running, called, handled, deleted, crashed>>

-----------------------------------------------------------------------------
\* The owner: job_queue_start () and job_queue_stop ().  A thread of an
\* earlier start may be alive when the queue is started again; one that has
\* ended gives its name to a new one.
Start ==
    /\ Goto(Owner, "idle", "create") /\ ~ running
    /\ running' = TRUE
    /\ UNCHANGED <<jqVars, poolVars, data, done, handler, called, handled, deleted, crashed>>

CreateThread ==
    \E k \in Consumer :
        /\ ~ crashed /\ pc[Owner] = "create" /\ pc[k] \in {"none", "ended"}
        /\ pc' = [pc EXCEPT ![Owner] = "idle", ![k] = "test"]
        /\ UNCHANGED <<jqVars, poolVars, data, done, running, handler, called, handled, deleted, crashed>>

CreateThreadFails ==
    /\ Goto(Owner, "create", "idle")
    /\ running' = FALSE
    /\ UNCHANGED <<jqVars, poolVars, data, done, handler, called, handled, deleted, crashed>>

Stop ==
    /\ Goto(Owner, "idle", "stop") /\ running
    /\ running' = FALSE
    /\ UNCHANGED <<jqVars, poolVars, data, done, handler, called, handled, deleted, crashed>>

StopPost ==
    /\ Goto(Owner, "stop", "idle") /\ BsemPost
    /\ UNCHANGED <<poolVars, data, done, running, handler, called, handled, deleted, crashed>>

-----------------------------------------------------------------------------
\* The steps that a thread takes by itself; a caller decides to call, and the
\* owner to start and stop.
CallerStep(c) ==
    InsertHandler(c) \/ PostHandler(c) \/ AwaitDone(c) \/ ResetHandler(c) \/ ReturnHandler(c)
ConsumerStep(k) ==
    TestRunning(k) \/ WaitForJobs(k) \/ PullNothing(k) \/ PullHandler(k) \/ PostNext(k) \/ Handle(k) \/ Signal(k)
OwnerStep == CreateThread \/ CreateThreadFails \/ StopPost

Next ==
    \/ \E c \in Caller : TakeHandler(c) \/ InsertFails(c) \/ CallerStep(c)
    \/ \E k \in Consumer : ConsumerStep(k)
    \/ Start \/ Stop \/ OwnerStep

Spec == Init /\ [][Next]_vars
FairSpec ==
    /\ Spec /\ WF_vars(OwnerStep)
    /\ \A c \in Caller : WF_vars(CallerStep(c) \/ InsertFails(c))
    /\ \A k \in Consumer : WF_vars(ConsumerStep(k))

-----------------------------------------------------------------------------
\* The method is called with data that their caller has not deleted, and a
\* caller that waits deletes its data only when they were handled, unless the
\* queue refused them.  The flag and the data of a handler that is used again
\* must not be those of its last use.
AnswersOwn ==
    /\ \A k \in Consumer : pc[k] \in {"work", "signal"} => data[handler[k]] \notin deleted \cup {Nil}
    /\ \A c \in Caller : pc[c] \in {"wait", "sleep"} /\ done[handler[c]] => Datum(c) \in handled
    /\ \A i, j \in DOMAIN pool : i # j => pool[i] # pool[j]
    /\ ToSet(pool) \cap (ToSet(queue) \cup {handler[t] : t \in Thread}) = {}

\* A caller that waits gets its answer unless the queue stops, and after a stop
\* the thread of the queue ends unless the queue is started again.  A caller
\* whose queue has stopped waits for ever, and of two threads one.
CallsEnd ==
    /\ \A c \in Caller :
           pc[c] \in {"wait", "sleep"} ~> pc[c] = "return" \/ ~ running \/ crashed
    /\ \A k \in Consumer :
           pc[Owner] = "stop" /\ (\A l \in Consumer \ {k} : pc[l] \in {"none", "ended"})
               ~> pc[k] \in {"none", "ended"} \/ pc[Owner] = "create" \/ crashed
=============================================================================
