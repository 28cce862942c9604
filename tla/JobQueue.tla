------------------------------ MODULE JobQueue ------------------------------
(***************************************************************************)
(* threads/jobs.c: the queue of jobs that feeds every group of threads of  *)
(* cerver (thread pool, handlers, workers, admin).  The queue has its own  *)
(* lock, rwmutex, and a binary semaphore, has_jobs, whose posts and waits  *)
(* are atomic here (Bsem shows that they may be).  Inserting and posting   *)
(* are separate steps: the semaphore does not need rwmutex, so that other  *)
(* threads see what lies between the two.                                  *)
(*                                                                         *)
(* This module has no Init and Next of its own: the modules of the threads *)
(* that use a queue extend it.                                             *)
(***************************************************************************)
EXTENDS Sequences, Naturals

CONSTANT NoActor       \* the owner of a mutex that nobody holds

VARIABLES queue,       \* job_queue->queue, the oldest job first
          has_jobs,    \* job_queue->has_jobs->v
          rwmutex      \* the holder of job_queue->rwmutex

jqVars == <<queue, has_jobs, rwmutex>>

\* job_queue_create
JQInit ==
    /\ queue = <<>>
    /\ has_jobs = 0
    /\ rwmutex = NoActor

\* bsem_wait (job_queue->has_jobs) has come back.
BsemWait ==
    /\ has_jobs = 1
    /\ has_jobs' = 0
    /\ UNCHANGED <<queue, rwmutex>>

\* job_queue_signal, bsem_post and bsem_post_all from outside of the lock.
BsemPost ==
    /\ has_jobs' = 1
    /\ UNCHANGED <<queue, rwmutex>>

(***************************************************************************)
(* job_queue_push_internal: insert at the end of the list, post whether or *)
(* not the insertion succeeded, unlock.                                    *)
(***************************************************************************)
PushInsert(a, j) ==
    /\ rwmutex = NoActor
    /\ rwmutex' = a
    /\ queue' = Append(queue, j)
    /\ UNCHANGED has_jobs

\* dlist_insert_after found no memory for the element.
PushRefused(a) ==
    /\ rwmutex = NoActor
    /\ rwmutex' = a
    /\ UNCHANGED <<queue, has_jobs>>

\* Fault: the lock is given back without a post.
UnlockOnly(a) ==
    /\ rwmutex = a
    /\ rwmutex' = NoActor
    /\ UNCHANGED <<queue, has_jobs>>

\* The post under the lock, of a push and of a pull that left jobs behind.
PostAndUnlock(a) ==
    /\ rwmutex = a
    /\ rwmutex' = NoActor
    /\ has_jobs' = 1
    /\ UNCHANGED queue

(***************************************************************************)
(* job_queue_pull: nothing, the only job, or the first of several.  Only   *)
(* in the last case is the semaphore posted again, for the next thread.    *)
(***************************************************************************)
PullEmpty ==
    /\ rwmutex = NoActor
    /\ Len(queue) = 0
    /\ UNCHANGED jqVars

PullOnly ==
    /\ rwmutex = NoActor
    /\ Len(queue) = 1
    /\ queue' = Tail(queue)
    /\ UNCHANGED <<has_jobs, rwmutex>>

\* Fault: the job that is handed out stays in the list.
PullNotRemoved(a) ==
    /\ rwmutex = NoActor
    /\ Len(queue) > 1
    /\ rwmutex' = a
    /\ UNCHANGED <<queue, has_jobs>>

PullFirst(a) ==
    /\ rwmutex = NoActor
    /\ Len(queue) > 1
    /\ queue' = Tail(queue)
    /\ rwmutex' = a
    /\ UNCHANGED has_jobs
=============================================================================
