------------------------------- MODULE Threads -------------------------------
(***************************************************************************)
(* What threads are given work with, each on its own: a worker with its    *)
(* owner and its clients, the handlers of a job queue, the requests for    *)
(* jobs of an id, and threads that call the binary semaphore.              *)
(* A behaviour is one of one part, and the others stay as they were made.  *)
(***************************************************************************)
EXTENDS Worker, SequencesExt

CONSTANTS Caller, Consumer, Owner, Handler, Refusable, PoolInit, Calls, Freed,  \* see JobHandlers
          Requester, IdOf(_),                                                   \* see JobRequests
          Waiter,         \* the threads of the semaphore
          Nil             \* the null pointer

ASSUME ThreadsAssumption ==
    /\ Caller \cap Consumer = {} /\ Owner \notin Caller \cup Consumer
    /\ Calls \in Nat
    /\ Nil \notin Handler \cup Job \cup (Caller \X (1 .. Calls))
    \* pool_init () makes handlers of their own.
    /\ \A s \in PoolInit : s \in Seq(Handler) /\ IsInjective(s)

VARIABLES part,
          handlerQueue, handlerToken, handlerMutex, pool, created, seen, data, answered, running,
          pcH, handler, called, handled, deleted, crashed,
          requestQueue, requestToken, waiting, requested_id, requested_job, pcR, wanted, got, pushed,
          collected, overlap, repeat,
          v, mutex, sleeping, pcB

H == INSTANCE JobHandlers WITH
         queue <- handlerQueue, has_jobs <- handlerToken, rwmutex <- handlerMutex,
         done <- answered, pc <- pcH
R == INSTANCE JobRequests WITH queue <- requestQueue, has_jobs <- requestToken, pc <- pcR
B == INSTANCE Bsem WITH Thread <- Waiter, owner <- mutex, pc <- pcB

workerVars == <<queue, has_jobs, rwmutex, state, stop, end, pcW, local, held, done, pcO, stops,
                freed, posting>>
handlerVars == <<handlerQueue, handlerToken, handlerMutex, pool, created, seen, data, answered,
                 running, pcH, handler, called, handled, deleted, crashed>>
requestVars == <<requestQueue, requestToken, waiting, requested_id, requested_job, pcR, wanted, got,
                 pushed, collected, overlap, repeat>>
bsemVars == <<v, mutex, sleeping, pcB>>
allVars == <<part, workerVars, handlerVars, requestVars, bsemVars>>

OfWorker(A) == part = "worker" /\ A /\ UNCHANGED <<part, handlerVars, requestVars, bsemVars>>
OfHandlers(A) == part = "handlers" /\ A /\ UNCHANGED <<part, workerVars, requestVars, bsemVars>>
OfRequests(A) == part = "requests" /\ A /\ UNCHANGED <<part, workerVars, handlerVars, bsemVars>>
OfBsem(A) == part = "bsem" /\ A /\ UNCHANGED <<part, workerVars, handlerVars, requestVars>>

PartsInit ==
    /\ part \in {"worker", "handlers", "requests", "bsem"}
    /\ Init /\ H!Init /\ R!Init /\ B!Init
PartsNext == OfWorker(Next) \/ OfHandlers(H!Next) \/ OfRequests(R!Next) \/ OfBsem(B!Next)
PartsSpec == PartsInit /\ [][PartsNext]_allVars

\* Handlers are answered: see JobHandlers.
AnswersOwn == H!AnswersOwn
\* And so do requests that can be answered: see JobRequests.
CallsEnd == H!CallsEnd /\ R!RequestsEnd
RequestsKeepJobs == R!RequestsKeepJobs
\* A post is not lost, and the semaphore is the abstract one: see Bsem.
NoLostPost == B!NoLostPost
Implements == B!Implements
=============================================================================
