------------------------------- MODULE Worker -------------------------------
(***************************************************************************)
(* threads/worker.c: a thread that executes the jobs of its own queue, the *)
(* clients that push them, and one owner that starts, stops, resumes, ends *)
(* and deletes the worker.                                                 *)
(*                                                                         *)
(* Each read or write of the state and of the two requests is a step: the  *)
(* mutex of the worker covers one of them at a time.  The thread reads the *)
(* two requests together with the write they lead to, because the one      *)
(* owner makes them one after the other.  The jobs are numbered in the     *)
(* order of their insertion, and none is pushed while the worker is being  *)
(* deleted.                                                                *)
(***************************************************************************)
EXTENDS JobQueue, Integers

CONSTANTS Pusher,       \* the threads that push jobs
          Self,         \* the thread of the worker
          NJobs,        \* bound: the jobs that are pushed in one run
          MaxStops      \* bound: the calls of worker_stop in one run

ASSUME WorkerAssumption ==
    /\ NJobs \in Nat /\ MaxStops \in Nat
    /\ Self \notin Pusher
    /\ NoActor \notin Pusher \cup {Self}

Job == 1 .. NJobs
NoJob == 0

VARIABLES state,        \* worker->state
          stop, end,    \* worker->stop and worker->end: what the owner wants
          freed,        \* the worker has been deleted
          pcW,          \* the thread of the worker
          local,        \* its own copy of the state
          held,         \* the job it has pulled and not executed
          done,         \* history: the jobs it has executed
          pcO,          \* the owner
          stops,        \* how many times it has called worker_stop
          posting       \* the clients between the insertion and the post

requests == <<stop, end>>
threadVars == <<pcW, local, held, done>>
ownerVars == <<pcO, stops, freed>>
vars == <<jqVars, state, requests, threadVars, ownerVars, posting>>

\* worker_create ()
Init ==
    /\ JQInit
    /\ state = "NONE"
    /\ stop = FALSE /\ end = FALSE
    /\ freed = FALSE
    /\ pcW = "unborn" /\ local = "NONE" /\ held = NoJob
    /\ done = <<>>
    /\ pcO = "created" /\ stops = 0
    /\ posting = {}

StepW(from, to) == pcW = from /\ pcW' = to /\ UNCHANGED <<ownerVars, posting>>
StepO(from, to) == pcO = from /\ pcO' = to /\ UNCHANGED <<threadVars, posting>>

Running == state \in {"AVAILABLE", "WORKING"}

\* The jobs that have been inserted, the executed ones first.
Track == done \o (IF held = NoJob THEN <<>> ELSE <<held>>) \o queue

-----------------------------------------------------------------------------
(* The clients                                                             *)

\* worker_push_job () and worker_push_job_with_work ()
Push(p) ==
    /\ ~ freed
    /\ Len(Track) < NJobs
    /\ PushInsert(p, Len(Track) + 1)
    /\ posting' = posting \cup {p}
    /\ UNCHANGED <<state, requests, threadVars, ownerVars>>

PushPost(p) ==
    /\ p \in posting
    /\ PostAndUnlock(p)
    /\ posting' = posting \ {p}
    /\ UNCHANGED <<state, requests, threadVars, ownerVars>>

-----------------------------------------------------------------------------
(* The owner                                                               *)

\* worker_start (): the state is set before the thread is created.
Start ==
    /\ pcO = "created"
    /\ pcO' = "serving"
    /\ state' = "AVAILABLE"
    /\ pcW' = "wait"
    /\ UNCHANGED <<jqVars, requests, local, held, done, stops, freed, posting>>

\* The thread could not be created; the state stays.
StartFails ==
    /\ StepO("created", "failed")
    /\ state' = "AVAILABLE"
    /\ UNCHANGED <<jqVars, requests, stops, freed>>

CallStop ==
    /\ stops < MaxStops /\ Running
    /\ StepO("serving", "setStop")
    /\ stops' = stops + 1
    /\ UNCHANGED <<jqVars, state, requests, freed>>

SetStop ==
    /\ StepO("setStop", "stopping")
    /\ stop' = TRUE
    /\ UNCHANGED <<jqVars, state, end, stops, freed>>

\* The loop of worker_stop_internal (): it looks, and posts when the worker
\* has still to be woken up.
SeesStopped ==
    /\ state = "STOPPED"
    /\ StepO("stopping", "serving")
    /\ UNCHANGED <<jqVars, state, requests, stops, freed>>

SeesRunning ==
    /\ Running
    /\ StepO("stopping", "stopPost")
    /\ UNCHANGED <<jqVars, state, requests, stops, freed>>

StopPost ==
    /\ StepO("stopPost", "stopping")
    /\ BsemPost
    /\ UNCHANGED <<state, requests, stops, freed>>

\* worker_resume ()
Resume ==
    /\ state = "STOPPED"
    /\ StepO("serving", "resumePost")
    /\ state' = "AVAILABLE"
    /\ UNCHANGED <<jqVars, requests, stops, freed>>

ResumePost ==
    /\ StepO("resumePost", "serving")
    /\ BsemPost
    /\ UNCHANGED <<state, requests, stops, freed>>

CallEnd ==
    /\ Running \/ state = "STOPPED"
    /\ StepO("serving", "ending")
    /\ end' = TRUE
    /\ UNCHANGED <<jqVars, state, stop, stops, freed>>

SeesEnded ==
    /\ state = "ENDED"
    /\ StepO("ending", "ended")
    /\ UNCHANGED <<jqVars, state, requests, stops, freed>>

\* Fault: a stopped worker is not woken up.
SeesOnlyRunning ==
    /\ Running
    /\ StepO("ending", "endPost")
    /\ UNCHANGED <<jqVars, state, requests, stops, freed>>

SeesNotEnded ==
    /\ Running \/ state = "STOPPED"
    /\ StepO("ending", "endPost")
    /\ UNCHANGED <<jqVars, state, requests, stops, freed>>

EndPost ==
    /\ StepO("endPost", "ending")
    /\ BsemPost
    /\ UNCHANGED <<state, requests, stops, freed>>

\* worker_delete (): the queue goes with the worker.
Delete ==
    /\ posting = {}
    /\ StepO("ended", "deleted")
    /\ freed' = TRUE
    /\ UNCHANGED <<jqVars, state, requests, stops>>

-----------------------------------------------------------------------------
(* worker_thread ()                                                        *)

Wake ==
    /\ StepW("wait", "look")
    /\ BsemWait
    /\ UNCHANGED <<state, requests, local, held, done>>

ReadState ==
    /\ StepW("look", "requests")
    /\ local' = state
    /\ UNCHANGED <<jqVars, state, requests, held, done>>

\* Fault: the thread goes on with the state it has read.
StopWhileWaitingGoesOn ==
    /\ stop
    /\ StepW("requests", "clear")
    /\ state' = "STOPPED"
    /\ UNCHANGED <<jqVars, requests, local, held, done>>

StopWhileWaiting ==
    /\ stop
    /\ StepW("requests", "clear")
    /\ state' = "STOPPED" /\ local' = "STOPPED"
    /\ UNCHANGED <<jqVars, requests, held, done>>

EndWhileWaiting ==
    /\ ~ stop /\ end
    /\ StepW("requests", "exit")
    /\ state' = "ENDED" /\ local' = "ENDED"
    /\ UNCHANGED <<jqVars, requests, held, done>>

NoRequest ==
    /\ ~ stop /\ ~ end
    /\ StepW("requests", "try")
    /\ UNCHANGED <<jqVars, state, requests, local, held, done>>

\* The request is cleared after the state that answers it was published.
ClearStop ==
    /\ StepW("clear", "try")
    /\ stop' = FALSE
    /\ UNCHANGED <<jqVars, state, end, local, held, done>>

\* Only a worker that was available pulls.
Pass ==
    /\ local # "AVAILABLE"
    /\ StepW("try", "wait")
    /\ UNCHANGED <<jqVars, state, requests, local, held, done>>

PullNothing ==
    /\ local = "AVAILABLE"
    /\ StepW("try", "wait")
    /\ PullEmpty
    /\ UNCHANGED <<state, requests, local, held, done>>

PullTheOnly ==
    /\ local = "AVAILABLE"
    /\ StepW("try", "begin")
    /\ PullOnly
    /\ held' = queue[1]
    /\ UNCHANGED <<state, requests, local, done>>

PullTheFirst ==
    /\ local = "AVAILABLE"
    /\ StepW("try", "repost")
    /\ PullFirst(Self)
    /\ held' = queue[1]
    /\ UNCHANGED <<state, requests, local, done>>

PostNext ==
    /\ StepW("repost", "begin")
    /\ PostAndUnlock(Self)
    /\ UNCHANGED <<state, requests, local, held, done>>

Begin ==
    /\ StepW("begin", "work")
    /\ state' = "WORKING"
    /\ UNCHANGED <<jqVars, requests, local, held, done>>

Work ==
    /\ StepW("work", "worked")
    /\ done' = Append(done, held)
    /\ held' = NoJob
    /\ UNCHANGED <<jqVars, state, requests, local>>

StopWhileWorking ==
    /\ stop
    /\ StepW("worked", "clearWorked")
    /\ state' = "STOPPED" /\ local' = "STOPPED"
    /\ UNCHANGED <<jqVars, requests, held, done>>

ClearStopWorked ==
    /\ StepW("clearWorked", "cleanUp")
    /\ stop' = FALSE
    /\ UNCHANGED <<jqVars, state, end, local, held, done>>

EndWhileWorking ==
    /\ ~ stop /\ end
    /\ StepW("worked", "cleanUp")
    /\ state' = "ENDED" /\ local' = "ENDED"
    /\ UNCHANGED <<jqVars, requests, held, done>>

StayAvailable ==
    /\ ~ stop /\ ~ end
    /\ StepW("worked", "cleanUp")
    /\ state' = "AVAILABLE"
    /\ UNCHANGED <<jqVars, requests, local, held, done>>

\* The data is deleted, the reference removed and the job given back to the
\* pool of the queue.
CleanUp ==
    /\ ~ freed
    /\ StepW("cleanUp", IF local = "ENDED" THEN "exit" ELSE "wait")
    /\ UNCHANGED <<jqVars, state, requests, local, held, done>>

\* The last message has the name of the worker.
Exit ==
    /\ ~ freed
    /\ StepW("exit", "gone")
    /\ UNCHANGED <<jqVars, state, requests, local, held, done>>

\* The owner has deleted the worker before its thread was done with it:
\* anything may follow.
UseFreed ==
    /\ freed
    /\ pcW \in {"cleanUp", "exit"}
    /\ StepW(pcW, "crashed")
    /\ UNCHANGED <<jqVars, state, requests, local, held, done>>

-----------------------------------------------------------------------------
WorkerThread ==
    \/ Wake \/ ReadState
    \/ StopWhileWaiting \/ EndWhileWaiting \/ NoRequest \/ ClearStop
    \/ Pass \/ PullNothing \/ PullTheOnly \/ PullTheFirst \/ PostNext
    \/ Begin \/ Work
    \/ StopWhileWorking \/ ClearStopWorked \/ EndWhileWorking \/ StayAvailable
    \/ CleanUp \/ Exit \/ UseFreed

OwnerCall == Start \/ StartFails \/ CallStop \/ Resume \/ CallEnd \/ Delete

OwnerInCall ==
    \/ SetStop \/ SeesStopped \/ SeesRunning \/ StopPost
    \/ ResumePost
    \/ SeesEnded \/ SeesNotEnded \/ EndPost

Next ==
    \/ WorkerThread \/ OwnerCall \/ OwnerInCall
    \/ \E p \in Pusher : Push(p) \/ PushPost(p)

(***************************************************************************)
(* Every thread runs when it can and every call goes on; nothing makes the *)
(* owner or a client call.                                                 *)
(***************************************************************************)
Fairness ==
    /\ WF_vars(WorkerThread)
    /\ WF_vars(OwnerInCall)
    /\ \A p \in Pusher : WF_vars(PushPost(p))

SafeSpec == Init /\ [][Next]_vars
Spec == SafeSpec /\ Fairness

-----------------------------------------------------------------------------
(***************************************************************************)
(* Properties                                                              *)
(***************************************************************************)
State == {"NONE", "AVAILABLE", "WORKING", "STOPPED", "ENDED"}

\* The types of the state of the worker.
TypeOK ==
    /\ queue \in Seq(Job) /\ has_jobs \in {0, 1}
    /\ rwmutex \in Pusher \cup {Self, NoActor}
    /\ state \in State /\ local \in State
    /\ stop \in BOOLEAN /\ end \in BOOLEAN /\ freed \in BOOLEAN
    /\ pcW \in {"unborn", "wait", "look", "requests", "clear", "try", "repost", "begin", "work",
                "worked", "clearWorked", "cleanUp", "exit", "gone", "crashed"}
    /\ held \in Job \cup {NoJob}
    /\ done \in Seq(Job)
    /\ pcO \in {"created", "failed", "serving", "setStop", "stopping", "stopPost", "resumePost",
                "ending", "endPost", "ended", "deleted"}
    /\ stops \in 0 .. MaxStops
    /\ posting \subseteq Pusher

\* Where the thread is with what it has read: it pulls and works only while
\* the published state says so, and it leaves once ENDED has been published.
Control ==
    /\ local = "AVAILABLE" /\ pcW \in {"requests", "try", "repost", "begin"} => state = "AVAILABLE"
    /\ pcW \in {"repost", "begin"} => local = "AVAILABLE"
    /\ pcW \in {"work", "worked"} => state = "WORKING"
    /\ pcW \in {"clear", "clearWorked"} => local = "STOPPED"
    /\ held # NoJob <=> pcW \in {"repost", "begin", "work"}
    /\ state = "ENDED" => \/ pcW \in {"exit", "gone", "crashed"}
                          \/ pcW = "cleanUp" /\ local = "ENDED"
    /\ pcO \in {"ended", "deleted"} => state = "ENDED"
    /\ pcO \in {"created", "failed"} => pcW = "unborn"

\* Each job is executed at most once, in the order of the pushes, and none
\* is lost, whatever stops and resumes happen in between.
InOrder == \A i \in DOMAIN Track : Track[i] = i

\* Once worker_stop () has come back no job is executed before the worker is
\* resumed, and none at all once worker_end () has come back.
StoppedIsIdle ==
    \/ pcO = "serving" /\ state = "STOPPED"
    \/ pcO \in {"ended", "deleted"}
    => pcW \notin {"repost", "begin", "work"} /\ ~ (pcW = "try" /\ local = "AVAILABLE")

\* A job that waits in the queue is executed unless the worker is stopped or
\* ended: neither a post that a stopped worker used up nor one that was
\* overtaken by another is missed.  (A part of OwnerCallsEnd.)
Executed ==
    \A j \in Job :
        (\E i \in DOMAIN queue : queue[i] = j) /\ pcO # "failed" /\ pcO # "created" ~>
            \/ \E i \in DOMAIN done : done[i] = j
            \/ state \in {"STOPPED", "ENDED"}

\* worker_stop () comes back, unless the worker has still to clear the last
\* request: then the new one is cleared with it and the call never ends.
\* worker_end () comes back, whatever the worker was doing.  And meanwhile the
\* jobs are executed.
OwnerCallsEnd ==
    /\ Executed
    /\ pcO = "setStop" /\ ~ stop ~> pcO = "serving"
    /\ pcO = "ending" ~> pcO = "ended"
=============================================================================
