---------------------------- MODULE JobRequests -----------------------------
(***************************************************************************)
(* threads/jobs.c, jobs with an id: some threads push jobs with            *)
(* job_queue_push_job_with_id (), others ask for the job of an id with     *)
(* job_queue_request () and sleep until it comes.  What they do between a  *)
(* lock and an unlock of rwmutex is one step.                              *)
(*                                                                         *)
(* The queue has one place for a requested id and one for the job: overlap *)
(* says that a request has begun during another one, repeat that a second  *)
(* job of the requested id came before the first was collected: it takes   *)
(* the place of the first, and its token wakes the next request too early. *)
(***************************************************************************)
EXTENDS Naturals, Sequences, SequencesExt

CONSTANTS Requester,
          Job, IdOf(_),   \* the jobs, each with an id that is not 0
          Nil

VARIABLES queue, has_jobs,
          waiting, requested_id, requested_job,
          pc, wanted,     \* of the requesters
          got,            \* what the last request returned
          pushed, collected, \* history: the jobs that were pushed, and returned
          overlap, repeat    \* history, see above

vars == <<queue, has_jobs, waiting, requested_id, requested_job, pc, wanted, got,
          pushed, collected, overlap, repeat>>

Init ==
    /\ queue = <<>> /\ has_jobs = 0
    /\ waiting = FALSE /\ requested_id = 0 /\ requested_job = Nil
    /\ pc = [r \in Requester |-> "idle"] /\ wanted = [r \in Requester |-> 0]
    /\ got = [r \in Requester |-> Nil]
    /\ pushed = {} /\ collected = {} /\ overlap = FALSE /\ repeat = FALSE

\* Fault: the test of waiting is missing, and a job goes to nobody.
PushJobWithIdUnasked(j) ==
    /\ j \notin pushed /\ pushed' = pushed \cup {j}
    /\ IF requested_id \in {0, IdOf(j)}
       THEN requested_job' = j /\ has_jobs' = 1 /\ UNCHANGED queue
       ELSE queue' = Append(queue, j) /\ UNCHANGED <<has_jobs, requested_job>>
    /\ repeat' = (repeat \/ (requested_job' # requested_job /\ requested_job # Nil))
    /\ UNCHANGED <<waiting, requested_id, pc, wanted, got, collected, overlap>>

\* job_queue_push_job_with_id_internal (): to the thread that waits for it, or
\* at the end of the queue, where no thread is woken.
PushJobWithId(j) ==
    /\ j \notin pushed /\ pushed' = pushed \cup {j}
    /\ IF waiting /\ requested_id = IdOf(j)
       THEN requested_job' = j /\ has_jobs' = 1 /\ UNCHANGED queue
       ELSE queue' = Append(queue, j) /\ UNCHANGED <<has_jobs, requested_job>>
    /\ repeat' = (repeat \/ (requested_job' # requested_job /\ requested_job # Nil))
    /\ UNCHANGED <<waiting, requested_id, pc, wanted, got, collected, overlap>>

\* job_queue_request (): dlist_remove () finds the first job of the id, or the
\* request is left for those that push.
Request(r, id) ==
    LET places == {i \in 1 .. Len(queue) : IdOf(queue[i]) = id} IN
    /\ pc[r] = "idle"
    /\ wanted' = [wanted EXCEPT ![r] = id]
    /\ \/ /\ \E i \in places :
                /\ \A k \in places : i <= k
                /\ queue' = RemoveAt(queue, i)
                /\ got' = [got EXCEPT ![r] = queue[i]] /\ collected' = collected \cup {queue[i]}
          /\ UNCHANGED <<waiting, requested_id, requested_job, pc, overlap>>
       \/ /\ places = {}
          /\ waiting' = TRUE /\ requested_id' = id /\ requested_job' = Nil
          /\ pc' = [pc EXCEPT ![r] = "asked"]
          /\ overlap' = (overlap \/ waiting)
          /\ UNCHANGED <<queue, got, collected>>
    /\ UNCHANGED <<has_jobs, pushed, repeat>>

\* bsem_wait () comes back.
Woken(r) ==
    /\ pc[r] = "asked" /\ has_jobs = 1
    /\ has_jobs' = 0 /\ pc' = [pc EXCEPT ![r] = "woken"]
    /\ UNCHANGED <<queue, waiting, requested_id, requested_job, wanted, got, pushed, collected,
                   overlap, repeat>>

Collect(r) ==
    /\ pc[r] = "woken"
    /\ got' = [got EXCEPT ![r] = requested_job] /\ collected' = collected \cup ({requested_job} \ {Nil})
    /\ waiting' = FALSE /\ requested_id' = 0 /\ requested_job' = Nil
    /\ pc' = [pc EXCEPT ![r] = "idle"]
    /\ UNCHANGED <<queue, has_jobs, wanted, pushed, overlap, repeat>>

Step(r) == Woken(r) \/ Collect(r)
Next ==
    \/ \E j \in Job : PushJobWithId(j)
    \/ \E r \in Requester : Step(r) \/ \E j \in Job : Request(r, IdOf(j))

Spec == Init /\ [][Next]_vars
FairSpec == Spec /\ \A r \in Requester : WF_vars(Step(r))

-----------------------------------------------------------------------------
\* While one thread asks at a time and one job comes for a request: a request
\* returns a job of its id, a job that was pushed is in the queue, in the place
\* of the requested one, or returned, and a thread that sleeps has its request
\* in the queue.
RequestsKeepJobs ==
    ~ overlap /\ ~ repeat =>
        /\ \A r \in Requester :
               /\ pc[r] = "idle" /\ wanted[r] # 0 => got[r] # Nil /\ IdOf(got[r]) = wanted[r]
               /\ pc[r] = "asked" => waiting /\ requested_id = wanted[r]
        /\ pushed = collected \cup ToSet(queue) \cup ({requested_job} \ {Nil})
        /\ collected \cap (ToSet(queue) \cup {requested_job}) = {}

\* Under the same condition a thread sleeps only until a job of its id is pushed.
RequestsEnd ==
    \A r \in Requester :
        pc[r] = "asked" /\ (\E j \in pushed \ collected : IdOf(j) = wanted[r])
            ~> pc[r] = "idle" \/ overlap \/ repeat
=============================================================================
