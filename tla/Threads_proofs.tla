---------------------------- MODULE Threads_proofs ----------------------------
(***************************************************************************)
(* What threads are given work with: the worker, for any number of clients,*)
(* jobs and stops, the handlers of a queue and the requests for jobs, for  *)
(* any number of threads, handlers and jobs, and the binary semaphore for  *)
(* any set of threads, each alone and then as a part of Threads.           *)
(***************************************************************************)
EXTENDS Threads, SequenceTheorems, TLAPS

-----------------------------------------------------------------------------
(* The worker of threads/worker.c                                          *)

\* The jobs of the worker are a sequence of numbers, whatever it has pulled.
LEMMA TrackType ==
  ASSUME done \in Seq(Job), queue \in Seq(Job), held \in Job \cup {NoJob}
  PROVE  Track \in Seq(Job) /\ Len(Track) \in Nat
<1> DEFINE mid == IF held = NoJob THEN <<>> ELSE <<held>>
<1>1. mid \in Seq(Job)
  <2>1. CASE held = NoJob
    BY <2>1
  <2>2. CASE held # NoJob
    BY <2>2
  <2>3. QED
    BY <2>1, <2>2
<1> HIDE DEF mid
<1>2. done \o mid \in Seq(Job)
  BY <1>1, ConcatProperties
<1>3. (done \o mid) \o queue \in Seq(Job)
  BY <1>2, ConcatProperties
<1>4. QED
  BY <1>3, LenProperties DEF Track, mid

\* A number that is given to a job is one of the bound, and the queue that
\* gets it stays one of jobs (job_queue_push_internal).
LEMMA PushType ==
  ASSUME TypeOK, Len(Track) < NJobs
  PROVE  Append(queue, Len(Track) + 1) \in Seq(Job)
<1>1. Len(Track) \in Nat
  BY TrackType DEF TypeOK
<1>2. Len(Track) + 1 \in Job
  BY <1>1, WorkerAssumption DEF Job
<1>3. QED
  BY <1>2, AppendProperties DEF TypeOK

\* What a pull takes is a job, and what it leaves is a queue of jobs.
LEMMA PullType ==
  ASSUME queue \in Seq(Job), Len(queue) >= 1
  PROVE  queue[1] \in Job /\ queue[1] # NoJob /\ Tail(queue) \in Seq(Job)
<1>1. queue # <<>>
  BY EmptySeq
<1>2. queue[1] \in Job /\ Tail(queue) \in Seq(Job)
  BY <1>1, HeadTailProperties, LenProperties, ElementOfSeq
<1>3. QED
  BY <1>2 DEF Job, NoJob

\* What the thread of the worker has read of its state stays true for as
\* long as it relies on it: only the owner changes it, and only from STOPPED.
THEOREM ControlCorrect == SafeSpec => [](TypeOK /\ Control)
<1>1. Init => TypeOK /\ Control
  <2> SUFFICES ASSUME Init  PROVE TypeOK /\ Control
    OBVIOUS
  <2>1. <<>> \in Seq(Job)
    BY EmptySeq
  <2>2. stop \in BOOLEAN /\ end \in BOOLEAN /\ freed \in BOOLEAN
    BY DEF Init
  <2>3. stops \in 0 .. MaxStops
    BY WorkerAssumption DEF Init
  <2>4. TypeOK
    BY <2>1, <2>2, <2>3 DEF Init, JQInit, TypeOK, State
  <2>5. QED
    BY <2>4 DEF Init, Control, NoJob
<1>2. ASSUME TypeOK, Control, [Next]_vars
      PROVE  Control'
  <2>0. queue \in Seq(Job) /\ Len(queue) \in Nat
    BY <1>2, LenProperties DEF TypeOK
  <2> USE <1>2 DEF Control, StepW, StepO, jqVars, requests, threadVars, ownerVars
  <2>1. CASE Start
    BY <2>1 DEF Start
  <2>2. CASE StartFails
    BY <2>2 DEF StartFails
  <2>3. CASE CallStop
    BY <2>3 DEF CallStop, Running
  <2>4. CASE SetStop
    BY <2>4 DEF SetStop
  <2>5. CASE SeesStopped
    BY <2>5 DEF SeesStopped
  <2>6. CASE SeesRunning
    BY <2>6 DEF SeesRunning, Running
  <2>7. CASE StopPost
    BY <2>7 DEF StopPost, BsemPost
  <2>8. CASE Resume
    BY <2>8 DEF Resume
  <2>9. CASE ResumePost
    BY <2>9 DEF ResumePost, BsemPost
  <2>10. CASE CallEnd
    BY <2>10 DEF CallEnd, Running
  <2>11. CASE SeesEnded
    BY <2>11 DEF SeesEnded
  <2>12. CASE SeesNotEnded
    BY <2>12 DEF SeesNotEnded, Running
  <2>13. CASE EndPost
    BY <2>13 DEF EndPost, BsemPost
  <2>14. CASE Delete
    BY <2>14 DEF Delete
  <2>15. CASE Wake
    BY <2>15 DEF Wake, BsemWait
  <2>16. CASE ReadState
    BY <2>16 DEF ReadState
  <2>17. CASE StopWhileWaiting
    BY <2>17 DEF StopWhileWaiting
  <2>18. CASE EndWhileWaiting
    BY <2>18 DEF EndWhileWaiting
  <2>19. CASE NoRequest
    BY <2>19 DEF NoRequest
  <2>20. CASE ClearStop
    BY <2>20 DEF ClearStop
  <2>21. CASE Pass
    BY <2>21 DEF Pass
  <2>22. CASE PullNothing
    BY <2>22 DEF PullNothing, PullEmpty
  <2>23. CASE PullTheOnly
    BY <2>23, <2>0, PullType DEF PullTheOnly, PullOnly
  <2>24. CASE PullTheFirst
    BY <2>24, <2>0, PullType DEF PullTheFirst, PullFirst
  <2>25. CASE PostNext
    BY <2>25 DEF PostNext, PostAndUnlock
  <2>26. CASE Begin
    BY <2>26 DEF Begin
  <2>27. CASE Work
    BY <2>27 DEF Work
  <2>28. CASE StopWhileWorking
    BY <2>28 DEF StopWhileWorking
  <2>29. CASE ClearStopWorked
    BY <2>29 DEF ClearStopWorked
  <2>30. CASE EndWhileWorking
    BY <2>30 DEF EndWhileWorking
  <2>31. CASE StayAvailable
    BY <2>31 DEF StayAvailable
  <2>32. CASE CleanUp
    BY <2>32 DEF CleanUp
  <2>33. CASE Exit
    BY <2>33 DEF Exit
  <2>34. CASE UseFreed
    BY <2>34 DEF UseFreed
  <2>35. ASSUME NEW p \in Pusher, Push(p)  PROVE Control'
    BY <2>35 DEF Push, PushInsert
  <2>36. ASSUME NEW p \in Pusher, PushPost(p)  PROVE Control'
    BY <2>36 DEF PushPost, PostAndUnlock
  <2>37. CASE UNCHANGED vars
    BY <2>37 DEF vars
  <2>38. QED
    BY <2>1, <2>2, <2>3, <2>4, <2>5, <2>6, <2>7, <2>8, <2>9, <2>10, <2>11,
       <2>12, <2>13, <2>14, <2>15, <2>16, <2>17, <2>18, <2>19, <2>20, <2>21,
       <2>22, <2>23, <2>24, <2>25, <2>26, <2>27, <2>28, <2>29, <2>30, <2>31,
       <2>32, <2>33, <2>34, <2>35, <2>36, <2>37
       DEF Next, WorkerThread, OwnerCall, OwnerInCall
<1>3. ASSUME TypeOK, Control, [Next]_vars
      PROVE  TypeOK'
  <2>0. queue \in Seq(Job) /\ Len(queue) \in Nat
    BY <1>3, LenProperties DEF TypeOK
  <2> USE <1>3, WorkerAssumption DEF TypeOK, State, StepW, StepO, jqVars, requests, threadVars, ownerVars
  <2>1. CASE Start
    BY <2>1 DEF Start
  <2>2. CASE StartFails
    BY <2>2 DEF StartFails
  <2>3. CASE CallStop
    BY <2>3 DEF CallStop, Running
  <2>4. CASE SetStop
    BY <2>4 DEF SetStop
  <2>5. CASE SeesStopped
    BY <2>5 DEF SeesStopped
  <2>6. CASE SeesRunning
    BY <2>6 DEF SeesRunning, Running
  <2>7. CASE StopPost
    BY <2>7 DEF StopPost, BsemPost
  <2>8. CASE Resume
    BY <2>8 DEF Resume
  <2>9. CASE ResumePost
    BY <2>9 DEF ResumePost, BsemPost
  <2>10. CASE CallEnd
    BY <2>10 DEF CallEnd, Running
  <2>11. CASE SeesEnded
    BY <2>11 DEF SeesEnded
  <2>12. CASE SeesNotEnded
    BY <2>12 DEF SeesNotEnded, Running
  <2>13. CASE EndPost
    BY <2>13 DEF EndPost, BsemPost
  <2>14. CASE Delete
    BY <2>14 DEF Delete
  <2>15. CASE Wake
    BY <2>15 DEF Wake, BsemWait
  <2>16. CASE ReadState
    BY <2>16 DEF ReadState
  <2>17. CASE StopWhileWaiting
    BY <2>17 DEF StopWhileWaiting
  <2>18. CASE EndWhileWaiting
    BY <2>18 DEF EndWhileWaiting
  <2>19. CASE NoRequest
    BY <2>19 DEF NoRequest
  <2>20. CASE ClearStop
    <3>1. stop' = FALSE
      BY <2>20 DEF ClearStop
    <3>2. stop' \in BOOLEAN
      BY <3>1
    <3>3. QED
      BY <2>20, <3>2 DEF ClearStop
  <2>21. CASE Pass
    BY <2>21 DEF Pass
  <2>22. CASE PullNothing
    BY <2>22 DEF PullNothing, PullEmpty
  <2>23. CASE PullTheOnly
    BY <2>23, <2>0, PullType DEF PullTheOnly, PullOnly
  <2>24. CASE PullTheFirst
    BY <2>24, <2>0, PullType DEF PullTheFirst, PullFirst
  <2>25. CASE PostNext
    BY <2>25 DEF PostNext, PostAndUnlock
  <2>26. CASE Begin
    BY <2>26 DEF Begin
  <2>27. CASE Work
    BY <2>27, AppendProperties DEF Work, Control
  <2>28. CASE StopWhileWorking
    BY <2>28 DEF StopWhileWorking
  <2>29. CASE ClearStopWorked
    <3>1. stop' = FALSE
      BY <2>29 DEF ClearStopWorked
    <3>2. stop' \in BOOLEAN
      BY <3>1
    <3>3. QED
      BY <2>29, <3>2 DEF ClearStopWorked
  <2>30. CASE EndWhileWorking
    BY <2>30 DEF EndWhileWorking
  <2>31. CASE StayAvailable
    BY <2>31 DEF StayAvailable
  <2>32. CASE CleanUp
    BY <2>32 DEF CleanUp
  <2>33. CASE Exit
    BY <2>33 DEF Exit
  <2>34. CASE UseFreed
    BY <2>34 DEF UseFreed
  <2>35. ASSUME NEW p \in Pusher, Push(p)  PROVE TypeOK'
    BY <2>35, PushType DEF Push, PushInsert
  <2>36. ASSUME NEW p \in Pusher, PushPost(p)  PROVE TypeOK'
    BY <2>36 DEF PushPost, PostAndUnlock
  <2>37. CASE UNCHANGED vars
    BY <2>37 DEF vars
  <2>38. QED
    BY <2>1, <2>2, <2>3, <2>4, <2>5, <2>6, <2>7, <2>8, <2>9, <2>10, <2>11,
       <2>12, <2>13, <2>14, <2>15, <2>16, <2>17, <2>18, <2>19, <2>20, <2>21,
       <2>22, <2>23, <2>24, <2>25, <2>26, <2>27, <2>28, <2>29, <2>30, <2>31,
       <2>32, <2>33, <2>34, <2>35, <2>36, <2>37
       DEF Next, WorkerThread, OwnerCall, OwnerInCall
<1>4. QED
  BY <1>1, <1>2, <1>3, PTL DEF SafeSpec

\* The types of the state of the worker, for any number of clients and jobs.
THEOREM TypeCorrect == SafeSpec => []TypeOK
BY ControlCorrect, PTL

\* worker_stop and worker_end mean what they say: after them no job runs.
THEOREM StoppedCorrect == SafeSpec => []StoppedIsIdle
<1>1. Control => StoppedIsIdle
  BY DEF Control, StoppedIsIdle
<1>2. QED
  BY <1>1, ControlCorrect, PTL

-----------------------------------------------------------------------------
\* What the thread takes from the front of the queue is the job that follows
\* the executed ones: the pull loses nothing and changes no order.
LEMMA PullTrack ==
  ASSUME NEW d \in Seq(Job), NEW q \in Seq(Job), Len(q) >= 1
  PROVE  (d \o <<q[1]>>) \o Tail(q) = (d \o <<>>) \o q
<1> DEFINE one == <<q[1]>>
           rest == Tail(q)
<1>1. q # <<>>
  BY EmptySeq
<1>2. /\ q[1] \in Job /\ rest \in Seq(Job)
      /\ Len(rest) = Len(q) - 1 /\ Len(q) \in Nat /\ Len(rest) \in Nat
      /\ \A i \in 1 .. Len(rest) : rest[i] = q[i + 1]
  BY <1>1, HeadTailProperties, LenProperties, ElementOfSeq
<1>3. one \in Seq(Job) /\ Len(one) = 1 /\ one[1] = q[1]
  BY <1>2
<1>ONE. one \in Seq(Job)
  BY <1>3
<1>REST. rest \in Seq(Job)
  BY <1>2
<1> HIDE DEF one, rest
<1>4. /\ one \o rest \in Seq(Job)
      /\ Len(one \o rest) = Len(one) + Len(rest)
      /\ \A i \in 1 .. Len(one) + Len(rest) :
            (one \o rest)[i] = IF i <= Len(one) THEN one[i] ELSE rest[i - Len(one)]
  BY <1>ONE, <1>REST, ConcatProperties
<1>5. Len(one) + Len(rest) = Len(q)
  BY <1>2, <1>3
<1>6. ASSUME NEW i \in 1 .. Len(q)  PROVE (one \o rest)[i] = q[i]
  <2>1. CASE i = 1
    <3>1. i <= Len(one) /\ i \in 1 .. Len(one) + Len(rest)
      BY <2>1, <1>3, <1>5
    <3>2. QED
      BY <3>1, <2>1, <1>3, <1>4
  <2>2. CASE i # 1
    <3>1. /\ i \in 1 .. Len(one) + Len(rest) /\ ~ (i <= Len(one))
          /\ i - Len(one) \in 1 .. Len(rest) /\ (i - Len(one)) + 1 = i
      BY <2>2, <1>2, <1>3, <1>5
    <3>2. (one \o rest)[i] = rest[i - Len(one)]
      BY <3>1, <1>4
    <3>3. rest[i - Len(one)] = q[(i - Len(one)) + 1]
      BY <3>1, <1>2
    <3>4. QED
      BY <3>1, <3>2, <3>3
  <2>3. QED
    BY <2>1, <2>2
<1>7. Len(one \o rest) = Len(q) /\ \A i \in 1 .. Len(one \o rest) : (one \o rest)[i] = q[i]
  BY <1>4, <1>5, <1>6
<1>8. one \o rest = q
  <2> DEFINE both == one \o rest
  <2>1. both \in Seq(Job) /\ Len(both) = Len(q) /\ \A i \in 1 .. Len(both) : both[i] = q[i]
    BY <1>4, <1>7
  <2> HIDE DEF both
  <2>2. both = q
    BY <2>1, SeqEqual
  <2>3. QED
    BY <2>2 DEF both
<1>9. (d \o one) \o rest = d \o (one \o rest)
  BY <1>ONE, <1>REST, ConcatAssociative, SMTT(30)
<1>10. d \o <<>> = d
  BY ConcatEmptySeq
<1>11. QED
  BY <1>8, <1>9, <1>10 DEF one, rest

\* A job that is inserted at the end of the queue is the last of all.
LEMMA PushTrack ==
  ASSUME NEW s \in Seq(Job), NEW q \in Seq(Job), NEW j \in Job
  PROVE  s \o Append(q, j) = Append(s \o q, j)
<1>1. s \o q \in Seq(Job)
  BY ConcatProperties
<1>2. Append(q, j) = q \o <<j>> /\ Append(s \o q, j) = (s \o q) \o <<j>>
  BY <1>1, AppendIsConcat
<1>3. <<j>> \in Seq(Job)
  OBVIOUS
<1>4. QED
  BY <1>2, <1>3, ConcatAssociative

\* A sequence of the first numbers in their order stays one when the next
\* number is appended.
LEMMA CountOn ==
  ASSUME NEW s \in Seq(Job), Len(s) + 1 \in Job, \A i \in DOMAIN s : s[i] = i
  PROVE  \A i \in DOMAIN Append(s, Len(s) + 1) : Append(s, Len(s) + 1)[i] = i
<1> DEFINE a == Append(s, Len(s) + 1)
<1>1. /\ a \in Seq(Job) /\ Len(a) = Len(s) + 1
      /\ \A i \in 1 .. Len(s) : a[i] = s[i]
      /\ a[Len(s) + 1] = Len(s) + 1
  BY AppendProperties
<1>2. DOMAIN a = 1 .. Len(s) + 1 /\ DOMAIN s = 1 .. Len(s) /\ Len(s) \in Nat
  BY <1>1, LenProperties
<1> HIDE DEF a
<1>3. ASSUME NEW i \in DOMAIN a  PROVE a[i] = i
  <2>1. CASE i = Len(s) + 1
    BY <2>1, <1>1
  <2>2. CASE i # Len(s) + 1
    BY <2>2, <1>1, <1>2
  <2>3. QED
    BY <2>1, <2>2
<1>4. QED
  BY <1>3 DEF a

\* Only an insertion changes the jobs that have been inserted: a pull moves
\* one from the queue to the thread, the execution moves it to the done ones.
LEMMA TrackGrows ==
  ASSUME TypeOK, Control, [Next]_vars
  PROVE  \/ Track' = Track
         \/ /\ Len(Track) < NJobs
            /\ Track' = Append(Track, Len(Track) + 1)
<1>0. /\ queue \in Seq(Job) /\ Len(queue) \in Nat /\ done \in Seq(Job)
      /\ held \in Job \cup {NoJob}
  BY LenProperties DEF TypeOK
<1>1. ASSUME UNCHANGED <<done, held, queue>>  PROVE Track' = Track
  BY <1>1 DEF Track
<1>2. CASE Start
  BY <1>2, <1>1 DEF Start, StepW, StepO, threadVars, jqVars
<1>3. CASE StartFails
  BY <1>3, <1>1 DEF StartFails, StepW, StepO, threadVars, jqVars
<1>4. CASE CallStop
  BY <1>4, <1>1 DEF CallStop, StepW, StepO, threadVars, jqVars
<1>5. CASE SetStop
  BY <1>5, <1>1 DEF SetStop, StepW, StepO, threadVars, jqVars
<1>6. CASE SeesStopped
  BY <1>6, <1>1 DEF SeesStopped, StepW, StepO, threadVars, jqVars
<1>7. CASE SeesRunning
  BY <1>7, <1>1 DEF SeesRunning, StepW, StepO, threadVars, jqVars
<1>8. CASE StopPost
  BY <1>8, <1>1 DEF StopPost, BsemPost, StepW, StepO, threadVars, jqVars
<1>9. CASE Resume
  BY <1>9, <1>1 DEF Resume, StepW, StepO, threadVars, jqVars
<1>10. CASE ResumePost
  BY <1>10, <1>1 DEF ResumePost, BsemPost, StepW, StepO, threadVars, jqVars
<1>11. CASE CallEnd
  BY <1>11, <1>1 DEF CallEnd, StepW, StepO, threadVars, jqVars
<1>12. CASE SeesEnded
  BY <1>12, <1>1 DEF SeesEnded, StepW, StepO, threadVars, jqVars
<1>13. CASE SeesNotEnded
  BY <1>13, <1>1 DEF SeesNotEnded, StepW, StepO, threadVars, jqVars
<1>14. CASE EndPost
  BY <1>14, <1>1 DEF EndPost, BsemPost, StepW, StepO, threadVars, jqVars
<1>15. CASE Delete
  BY <1>15, <1>1 DEF Delete, StepW, StepO, threadVars, jqVars
<1>16. CASE Wake
  BY <1>16, <1>1 DEF Wake, BsemWait, StepW, StepO, threadVars, jqVars
<1>17. CASE ReadState
  BY <1>17, <1>1 DEF ReadState, StepW, StepO, threadVars, jqVars
<1>18. CASE StopWhileWaiting
  BY <1>18, <1>1 DEF StopWhileWaiting, StepW, StepO, threadVars, jqVars
<1>19. CASE EndWhileWaiting
  BY <1>19, <1>1 DEF EndWhileWaiting, StepW, StepO, threadVars, jqVars
<1>20. CASE NoRequest
  BY <1>20, <1>1 DEF NoRequest, StepW, StepO, threadVars, jqVars
<1>21. CASE ClearStop
  BY <1>21, <1>1 DEF ClearStop, StepW, StepO, threadVars, jqVars
<1>22. CASE Pass
  BY <1>22, <1>1 DEF Pass, StepW, StepO, threadVars, jqVars
<1>23. CASE PullNothing
  BY <1>23, <1>1 DEF PullNothing, PullEmpty, StepW, StepO, threadVars, jqVars
<1>24. CASE PostNext
  BY <1>24, <1>1 DEF PostNext, PostAndUnlock, StepW, StepO, threadVars, jqVars
<1>25. CASE Begin
  BY <1>25, <1>1 DEF Begin, StepW, StepO, threadVars, jqVars
<1>26. CASE StopWhileWorking
  BY <1>26, <1>1 DEF StopWhileWorking, StepW, StepO, threadVars, jqVars
<1>27. CASE ClearStopWorked
  BY <1>27, <1>1 DEF ClearStopWorked, StepW, StepO, threadVars, jqVars
<1>28. CASE EndWhileWorking
  BY <1>28, <1>1 DEF EndWhileWorking, StepW, StepO, threadVars, jqVars
<1>29. CASE StayAvailable
  BY <1>29, <1>1 DEF StayAvailable, StepW, StepO, threadVars, jqVars
<1>30. CASE CleanUp
  BY <1>30, <1>1 DEF CleanUp, StepW, StepO, threadVars, jqVars
<1>31. CASE Exit
  BY <1>31, <1>1 DEF Exit, StepW, StepO, threadVars, jqVars
<1>32. CASE UseFreed
  BY <1>32, <1>1 DEF UseFreed, StepW, StepO, threadVars, jqVars
<1>33. CASE PullTheOnly
  <2>1. /\ held = NoJob /\ Len(queue) >= 1 /\ done' = done
        /\ held' = queue[1] /\ queue' = Tail(queue)
    BY <1>33, <1>0 DEF PullTheOnly, PullOnly, StepW, Control
  <2>2. held' # NoJob
    BY <2>1, <1>0, PullType
  <2>3. Track' = (done \o <<queue[1]>>) \o Tail(queue) /\ Track = (done \o <<>>) \o queue
    BY <2>1, <2>2 DEF Track
  <2>4. QED
    BY <2>3, <2>1, <1>0, PullTrack
<1>34. CASE PullTheFirst
  <2>1. /\ held = NoJob /\ Len(queue) >= 1 /\ done' = done
        /\ held' = queue[1] /\ queue' = Tail(queue)
    BY <1>34, <1>0 DEF PullTheFirst, PullFirst, StepW, Control
  <2>2. held' # NoJob
    BY <2>1, <1>0, PullType
  <2>3. Track' = (done \o <<queue[1]>>) \o Tail(queue) /\ Track = (done \o <<>>) \o queue
    BY <2>1, <2>2 DEF Track
  <2>4. QED
    BY <2>3, <2>1, <1>0, PullTrack
<1>35. CASE Work
  <2>1. /\ held \in Job /\ held # NoJob /\ queue' = queue
        /\ done' = Append(done, held) /\ held' = NoJob
    BY <1>35, <1>0 DEF Work, StepW, Control, jqVars
  <2>2. Append(done, held) = done \o <<held>> /\ Append(done, held) \in Seq(Job)
    BY <2>1, <1>0, AppendIsConcat, AppendProperties
  <2>3. Track' = (Append(done, held) \o <<>>) \o queue /\ Track = (done \o <<held>>) \o queue
    BY <2>1 DEF Track
  <2>4. Append(done, held) \o <<>> = Append(done, held)
    BY <2>2, ConcatEmptySeq
  <2>5. QED
    BY <2>2, <2>3, <2>4
<1>36. ASSUME NEW p \in Pusher, Push(p)
      PROVE  Len(Track) < NJobs /\ Track' = Append(Track, Len(Track) + 1)
  <2>1. /\ Len(Track) < NJobs /\ done' = done /\ held' = held
        /\ queue' = Append(queue, Len(Track) + 1)
    BY <1>36 DEF Push, PushInsert, threadVars
  <2>2. Len(Track) + 1 \in Job
    <3>1. Len(Track) \in Nat
      BY <1>0, TrackType
    <3>2. QED
      BY <2>1, <3>1, WorkerAssumption DEF Job
  <2> DEFINE mid == IF held = NoJob THEN <<>> ELSE <<held>>
  <2>3. mid \in Seq(Job)
    <3>1. CASE held = NoJob
      BY <3>1
    <3>2. CASE held # NoJob
      BY <3>2, <1>0
    <3>3. QED
      BY <3>1, <3>2
  <2>4. Track = (done \o mid) \o queue /\ Track' = (done \o mid) \o Append(queue, Len(Track) + 1)
    BY <2>1 DEF Track
  <2> HIDE DEF mid
  <2>5. done \o mid \in Seq(Job)
    BY <1>0, <2>3, ConcatProperties
  <2>6. (done \o mid) \o Append(queue, Len(Track) + 1)
          = Append((done \o mid) \o queue, Len(Track) + 1)
    BY <2>2, <2>5, <1>0, PushTrack
  <2>7. QED
    BY <2>1, <2>4, <2>6
<1>37. ASSUME NEW p \in Pusher, PushPost(p)  PROVE Track' = Track
  BY <1>37, <1>1 DEF PushPost, PostAndUnlock, threadVars
<1>38. CASE UNCHANGED vars
  BY <1>38, <1>1 DEF vars, threadVars, jqVars
<1>39. QED
  BY <1>2, <1>3, <1>4, <1>5, <1>6, <1>7, <1>8, <1>9, <1>10, <1>11, <1>12,
     <1>13, <1>14, <1>15, <1>16, <1>17, <1>18, <1>19, <1>20, <1>21, <1>22,
     <1>23, <1>24, <1>25, <1>26, <1>27, <1>28, <1>29, <1>30, <1>31, <1>32,
     <1>33, <1>34, <1>35, <1>36, <1>37, <1>38
     DEF Next, WorkerThread, OwnerCall, OwnerInCall

\* Jobs are executed once and in the order of their insertion, none is lost,
\* whatever the owner does and for any number of clients, jobs and stops.
THEOREM OrderCorrect == SafeSpec => []InOrder
<1>1. Init => InOrder
  <2> SUFFICES ASSUME Init  PROVE InOrder
    OBVIOUS
  <2>1. Track = (<<>> \o <<>>) \o <<>>
    BY DEF Init, JQInit, Track
  <2>2. (<<>> \o <<>>) \o <<>> = <<>>
    <3>1. <<>> \in Seq(Job)
      BY EmptySeq
    <3>2. QED
      BY <3>1, ConcatEmptySeq
  <2>3. QED
    BY <2>1, <2>2, EmptySeq DEF InOrder
<1>2. TypeOK /\ Control /\ InOrder /\ [Next]_vars => InOrder'
  <2> SUFFICES ASSUME TypeOK, Control, InOrder, [Next]_vars  PROVE InOrder'
    OBVIOUS
  <2>1. Track \in Seq(Job) /\ Len(Track) \in Nat
    BY TrackType DEF TypeOK
  <2>2. CASE Track' = Track
    BY <2>2 DEF InOrder
  <2>3. CASE Len(Track) < NJobs /\ Track' = Append(Track, Len(Track) + 1)
    <3>1. Len(Track) + 1 \in Job
      BY <2>1, <2>3, WorkerAssumption DEF Job
    <3>2. \A i \in DOMAIN Track : Track[i] = i
      BY DEF InOrder
    <3>3. \A i \in DOMAIN Append(Track, Len(Track) + 1) : Append(Track, Len(Track) + 1)[i] = i
      BY <2>1, <3>1, <3>2, CountOn
    <3>4. QED
      BY <2>3, <3>3 DEF InOrder
  <2>4. QED
    BY <2>2, <2>3, TrackGrows
<1>3. QED
  BY <1>1, <1>2, ControlCorrect, PTL DEF SafeSpec

-----------------------------------------------------------------------------
(* The handlers of a job queue (threads/jobs.c)                            *)

(***************************************************************************)
(* The hypotheses: the owner, the callers and the threads of the queue are *)
(* different threads, the null pointer is no handler and no data, and      *)
(* pool_init () makes handlers of their own.                               *)
(***************************************************************************)
Datums == Caller \X (1 .. Calls)
Hypotheses ==
    /\ Caller \cap Consumer = {} /\ Owner \notin Caller \cup Consumer
    /\ Calls \in Nat /\ Nil \notin Handler \cup Datums
    /\ \A s \in PoolInit : s \in Seq(Handler) /\ H!IsInjective(s)

(***************************************************************************)
(* The inductive invariant                                                 *)
(***************************************************************************)
CallerPC == {"idle", "push", "post", "refused", "forgotten", "wait", "sleep", "return", "insert"}
WorkingPC == {"repost", "work", "signal"}
ConsumerPC == {"none", "test", "bsem", "pull", "ended"} \cup WorkingPC

HandlerTypes ==
    /\ handlerQueue \in Seq(Handler) /\ pool \in Seq(Handler) /\ created \subseteq Handler
    /\ data \in [Handler -> Datums \cup {Nil}] /\ answered \in [Handler -> BOOLEAN]
    /\ DOMAIN pcH = H!Thread /\ handler \in [H!Thread -> Handler \cup {Nil}]
    /\ \A c \in Caller : pcH[c] \in CallerPC
    /\ \A k \in Consumer : pcH[k] \in ConsumerPC
    /\ called \in [Caller -> 0 .. Calls]

\* A thread works with a handler exactly while it is between the pool and the
\* queue, or the queue and its answer.
HoldsHandler ==
    /\ \A c \in Caller : handler[c] = Nil <=> pcH[c] = "idle"
    /\ \A k \in Consumer : handler[k] = Nil <=> pcH[k] \notin WorkingPC
    /\ handler[Owner] = Nil

\* A handler is in one place: in the pool, in the queue, or with a thread of the
\* queue; a caller's own may be anywhere but in the pool.
QueuedHandlers == H!ToSet(handlerQueue)
PooledHandlers == H!ToSet(pool)
HandlerInOnePlace ==
    /\ H!IsInjective(handlerQueue) /\ H!IsInjective(pool)
    /\ QueuedHandlers \cap PooledHandlers = {} /\ QueuedHandlers \cup PooledHandlers \subseteq created
    /\ \A t \in H!Thread : handler[t] # Nil => handler[t] \in created \ PooledHandlers
    /\ \A k \in Consumer : handler[k] \notin QueuedHandlers
    /\ \A c, d \in Caller : handler[c] = handler[d] /\ handler[c] # Nil => c = d
    /\ \A k, l \in Consumer : handler[k] = handler[l] /\ handler[k] # Nil => k = l

\* The queue and its threads have nothing to do with a handler, and a caller
\* that has not queued it, or has its answer, has it alone.
FreeHandler(h) == h \notin QueuedHandlers /\ \A k \in Consumer : handler[k] # h
HasAlone ==
    \A c \in Caller :
        /\ pcH[c] \in {"push", "refused", "forgotten", "return", "insert"} => FreeHandler(handler[c])
        /\ pcH[c] \in {"push", "refused", "forgotten", "insert"} => ~ answered[handler[c]]
        /\ pcH[c] \notin {"idle", "insert"} => called[c] > 0 /\ data[handler[c]] = H!Datum(c)

\* done is that of the last use of a handler, and is not set in the pool.
DoneIsAnswered ==
    /\ \A h \in Handler : answered[h] => FreeHandler(h) /\ data[h] \in handled
    /\ \A h \in PooledHandlers \cup (Handler \ created) : ~ answered[h]
    /\ \A k \in Consumer : pcH[k] = "signal" => data[handler[k]] \in handled

\* The data of every call are its own, and gone once they are deleted.
DataAreOwn ==
    /\ \A h \in Handler : ~ FreeHandler(h) => data[h] # Nil
    /\ \A h \in Handler : data[h] # Nil => data[h] \notin deleted /\ data[h][2] <= called[data[h][1]]
    /\ \A h, g \in Handler : data[h] = data[g] /\ data[h] # Nil => h = g
    /\ deleted \subseteq {d \in Datums : d[2] <= called[d[1]]}

HandlerInv == HandlerTypes /\ HoldsHandler /\ HandlerInOnePlace /\ HasAlone /\ DoneIsAnswered /\ DataAreOwn

-----------------------------------------------------------------------------
(* Lemmas about lists without repetitions                                  *)

\* What queue_pop () and pool_pop () leave.
LEMMA TailKeepsOthers ==
  ASSUME NEW s \in Seq(Handler), H!IsInjective(s), s # <<>>
  PROVE  /\ Tail(s) \in Seq(Handler) /\ H!IsInjective(Tail(s))
         /\ H!ToSet(Tail(s)) = H!ToSet(s) \ {Head(s)}
         /\ Head(s) \in H!ToSet(s) /\ Head(s) \in Handler
<1> DEFINE t == Tail(s)
<1>1. /\ t \in Seq(Handler) /\ Len(t) = Len(s) - 1 /\ Len(s) \in Nat \ {0}
      /\ \A i \in 1 .. Len(t) : t[i] = s[i + 1]
  BY HeadTailProperties, LenProperties
<1>2. Head(s) = s[1] /\ s[1] \in Handler /\ DOMAIN s = 1 .. Len(s) /\ DOMAIN t = 1 .. Len(t)
  BY <1>1
<1> HIDE DEF t
<1>3. \A i, j \in 1 .. Len(s) : s[i] = s[j] => i = j
  BY <1>2 DEF H!IsInjective
<1>4. H!IsInjective(t)
  BY <1>1, <1>2, <1>3 DEF H!IsInjective
<1>5. ASSUME NEW x \in H!ToSet(t)  PROVE x \in H!ToSet(s) \ {s[1]}
  <2>1. PICK i \in 1 .. Len(t) : x = s[i + 1]
    BY <1>1, <1>2 DEF H!ToSet
  <2>2. QED
    BY <1>1, <1>2, <1>3, <2>1 DEF H!ToSet
<1>6. ASSUME NEW x \in H!ToSet(s), x # s[1]  PROVE x \in H!ToSet(t)
  <2>1. PICK i \in 1 .. Len(s) : x = s[i] /\ i # 1
    BY <1>2, <1>6 DEF H!ToSet
  <2>2. i - 1 \in 1 .. Len(t) /\ t[i - 1] = x
    BY <1>1, <2>1
  <2>3. QED
    BY <1>2, <2>2 DEF H!ToSet
<1>7. s[1] \in H!ToSet(s)
  BY <1>1, <1>2 DEF H!ToSet
<1>8. QED
  BY <1>1, <1>2, <1>4, <1>5, <1>6, <1>7 DEF t

\* Putting an element that is not there in a list, at any place: the insertion
\* of queue_push () and pool_push ().
LEMMA InsertKeepsOthers ==
  ASSUME NEW s \in Seq(Handler), H!IsInjective(s), NEW h \in Handler \ H!ToSet(s), NEW i \in 0 .. Len(s)
  PROVE  /\ H!InsertAt(s, i + 1, h) \in Seq(Handler) /\ H!IsInjective(H!InsertAt(s, i + 1, h))
         /\ H!ToSet(H!InsertAt(s, i + 1, h)) = H!ToSet(s) \cup {h}
<1> DEFINE t == H!InsertAt(s, i + 1, h)
           a == SubSeq(s, 1, i)
           b == SubSeq(s, i + 1, Len(s))
<1>1. a \in Seq(Handler) /\ Len(a) = i /\ \A k \in 1 .. i : a[k] = s[k]
  OBVIOUS
<1>2. b \in Seq(Handler) /\ Len(b) = Len(s) - i /\ \A k \in 1 .. Len(s) - i : b[k] = s[k + i]
  OBVIOUS
<1>3. t = a \o <<h>> \o b
  <2>1. (i + 1) - 1 = i
    OBVIOUS
  <2>2. QED
    BY <2>1 DEF H!InsertAt
<1>0. Len(s) \in Nat /\ DOMAIN s = 1 .. Len(s)
  OBVIOUS
<1> HIDE DEF a, b, t
<1>4. t \in Seq(Handler) /\ Len(t) = Len(s) + 1 /\ DOMAIN t = 1 .. Len(s) + 1
  <2> DEFINE u == a \o <<h>>
  <2>1. u \in Seq(Handler) /\ Len(u) = i + 1 /\ t = u \o b
    BY <1>1, <1>3
  <2> HIDE DEF u
  <2>2. t \in Seq(Handler) /\ Len(t) = Len(u) + Len(b)
    BY <1>2, <2>1, ConcatProperties
  <2>3. Len(t) = Len(s) + 1
    BY <1>0, <1>2, <2>1, <2>2
  <2>4. QED
    BY <2>2, <2>3
<1>5. \A k \in 1 .. i : t[k] = s[k]
  BY <1>1, <1>2, <1>3
<1>6. t[i + 1] = h
  BY <1>1, <1>2, <1>3
<1>7. ASSUME NEW k \in i + 1 .. Len(s)  PROVE t[k + 1] = s[k]
  <2>1. k - i \in 1 .. Len(s) - i /\ (k - i) + i = k
    BY <1>0
  <2>2. t[k + 1] = b[k - i]
    BY <1>0, <1>1, <1>2, <1>3, <2>1
  <2>3. QED
    BY <1>2, <2>1, <2>2
<1>8. \A k, l \in 1 .. Len(s) : s[k] = s[l] => k = l
  BY <1>0 DEF H!IsInjective
<1>9. \A k \in 1 .. Len(s) : s[k] # h
  BY <1>0 DEF H!ToSet
<1>10. H!IsInjective(t)
  <2> SUFFICES ASSUME NEW k \in 1 .. Len(s) + 1, NEW l \in 1 .. Len(s) + 1, t[k] = t[l]  PROVE k = l
    BY <1>4 DEF H!IsInjective
  <2> DEFINE Old(n) == IF n <= i THEN n ELSE n - 1
  <2>1. \A n \in 1 .. Len(s) + 1 : n # i + 1 => Old(n) \in 1 .. Len(s) /\ t[n] = s[Old(n)]
    <3> SUFFICES ASSUME NEW n \in 1 .. Len(s) + 1, n # i + 1
                 PROVE  Old(n) \in 1 .. Len(s) /\ t[n] = s[Old(n)]
      OBVIOUS
    <3>1. CASE n <= i
      BY <1>0, <1>5, <3>1
    <3>2. CASE n > i
      <4>1. n - 1 \in i + 1 .. Len(s) /\ (n - 1) + 1 = n
        BY <1>0, <3>2
      <4>2. QED
        BY <1>7, <3>2, <4>1
    <3>3. QED
      BY <3>1, <3>2
  <2>2. k = i + 1 <=> l = i + 1
    <3> HIDE DEF Old
    <3> QED
      BY <1>6, <1>9, <2>1
  <2>3. CASE k # i + 1
    <3>1. Old(k) = Old(l)
      <4> HIDE DEF Old
      <4> QED
        BY <1>8, <2>1, <2>2, <2>3
    <3>2. QED
      BY <2>2, <2>3, <3>1
  <2>4. QED
    BY <2>2, <2>3
<1>11. ASSUME NEW x \in H!ToSet(t)  PROVE x \in H!ToSet(s) \cup {h}
  <2>1. PICK k \in 1 .. Len(s) + 1 : x = t[k]
    BY <1>4 DEF H!ToSet
  <2>2. CASE k <= i
    BY <1>0, <1>5, <2>1, <2>2 DEF H!ToSet
  <2>3. CASE k = i + 1
    BY <1>6, <2>1, <2>3
  <2>4. CASE k > i + 1
    <3>1. k - 1 \in i + 1 .. Len(s) /\ (k - 1) + 1 = k
      BY <1>0, <2>1, <2>4
    <3>2. x = s[k - 1]
      BY <1>7, <2>1, <3>1
    <3>3. k - 1 \in 1 .. Len(s)
      BY <1>0, <3>1
    <3>4. QED
      BY <1>0, <3>2, <3>3 DEF H!ToSet
  <2>5. QED
    BY <2>2, <2>3, <2>4
<1>12. ASSUME NEW x \in H!ToSet(s)  PROVE x \in H!ToSet(t)
  <2>1. PICK k \in 1 .. Len(s) : x = s[k]
    BY <1>0 DEF H!ToSet
  <2>2. CASE k <= i
    BY <1>0, <1>4, <1>5, <2>1, <2>2 DEF H!ToSet
  <2>3. CASE k > i
    <3>1. k \in i + 1 .. Len(s) /\ k + 1 \in 1 .. Len(s) + 1
      BY <1>0, <2>1, <2>3
    <3>2. t[k + 1] = x
      BY <1>7, <2>1, <3>1
    <3>3. QED
      BY <1>4, <3>1, <3>2 DEF H!ToSet
  <2>4. QED
    BY <2>2, <2>3
<1>13. h \in H!ToSet(t)
  BY <1>0, <1>4, <1>6 DEF H!ToSet
<1>14. H!ToSet(t) = H!ToSet(s) \cup {h}
  BY <1>11, <1>12, <1>13
<1>15. QED
  BY <1>4, <1>10, <1>14 DEF t

\* And at its end: job_queue_push () on the queue of the jobs.
LEMMA AppendKeepsOthers ==
  ASSUME NEW s \in Seq(Handler), H!IsInjective(s), NEW h \in Handler \ H!ToSet(s)
  PROVE  /\ Append(s, h) \in Seq(Handler) /\ H!IsInjective(Append(s, h))
         /\ H!ToSet(Append(s, h)) = H!ToSet(s) \cup {h}
<1>1. Len(s) \in Nat /\ DOMAIN s = 1 .. Len(s)
  OBVIOUS
<1> DEFINE t == Append(s, h)
<1>2. /\ t \in Seq(Handler) /\ Len(t) = Len(s) + 1 /\ DOMAIN t = 1 .. Len(s) + 1
      /\ t[Len(s) + 1] = h /\ \A k \in 1 .. Len(s) : t[k] = s[k]
  BY <1>1
<1> HIDE DEF t
<1>3. \A k, l \in 1 .. Len(s) : s[k] = s[l] => k = l
  BY <1>1 DEF H!IsInjective
<1>4. \A k \in 1 .. Len(s) : s[k] # h
  BY <1>1 DEF H!ToSet
<1>5. \A k \in 1 .. Len(s) + 1 : k \in 1 .. Len(s) \/ k = Len(s) + 1
  BY <1>1
<1>6. H!IsInjective(t)
  BY <1>1, <1>2, <1>3, <1>4, <1>5 DEF H!IsInjective
<1>7. H!ToSet(t) = H!ToSet(s) \cup {h}
  BY <1>1, <1>2, <1>5 DEF H!ToSet
<1>8. QED
  BY <1>2, <1>6, <1>7 DEF t

-----------------------------------------------------------------------------
(* The steps                                                               *)

LEMMA HandlerInitHolds ==
  ASSUME Hypotheses, H!Init
  PROVE  HandlerInv
<1>1. handlerQueue = <<>> /\ pool \in Seq(Handler) /\ H!IsInjective(pool) /\ created = PooledHandlers
  BY DEF Hypotheses, H!Init, H!JQInit, PooledHandlers
<1>2. PooledHandlers \subseteq Handler /\ QueuedHandlers = {} /\ H!IsInjective(handlerQueue) /\ handlerQueue \in Seq(Handler)
  BY <1>1, EmptySeq DEF PooledHandlers, QueuedHandlers, H!ToSet, H!IsInjective
<1>3. HandlerTypes
  BY <1>1, <1>2 DEF Hypotheses, H!Init, HandlerTypes, H!Thread, CallerPC, ConsumerPC
<1>4. HoldsHandler /\ HasAlone /\ DoneIsAnswered /\ DataAreOwn
  BY <1>2 DEF Hypotheses, H!Init, H!Thread, HoldsHandler, HasAlone, DoneIsAnswered, DataAreOwn, FreeHandler, WorkingPC
<1>5. HandlerInOnePlace
  BY <1>1, <1>2 DEF Hypotheses, H!Init, HandlerInOnePlace, H!Thread
<1>6. QED
  BY <1>3, <1>4, <1>5 DEF HandlerInv

\* Steps that change nothing of the handlers.
HandlersKept == UNCHANGED <<handlerQueue, pool, created, data, answered, handler, called, handled, deleted>>

LEMMA KeptPlaces ==
  ASSUME HandlerInv, HandlersKept
  PROVE  /\ HandlerInOnePlace' /\ DataAreOwn' /\ QueuedHandlers' = QueuedHandlers /\ PooledHandlers' = PooledHandlers
         /\ \A h : FreeHandler(h)' <=> FreeHandler(h)
<1>1. QueuedHandlers' = QueuedHandlers /\ PooledHandlers' = PooledHandlers
  BY DEF HandlersKept, QueuedHandlers, PooledHandlers
<1>2. \A h : FreeHandler(h)' <=> FreeHandler(h)
  BY <1>1 DEF HandlersKept, FreeHandler
<1>3. QED
  BY <1>1, <1>2 DEF HandlerInv, HandlersKept, HandlerInOnePlace, DataAreOwn

\* Steps of the owner, of a thread of the queue that holds the same handler
\* before and after, and of the queue alone.
LEMMA ConsumerMoves ==
  ASSUME Hypotheses, HandlerInv, HandlersKept, DOMAIN pcH' = H!Thread,
         \A c \in Caller : pcH'[c] = pcH[c],
         \A k \in Consumer : /\ pcH'[k] \in ConsumerPC
                             /\ pcH'[k] \in WorkingPC <=> pcH[k] \in WorkingPC
                             /\ pcH'[k] = "signal" => pcH[k] = "signal"
  PROVE  HandlerInv'
<1>1. HandlerTypes' /\ HoldsHandler'
  BY DEF HandlerInv, HandlerTypes, HoldsHandler, HandlersKept
<1>2. HasAlone' /\ DoneIsAnswered'
  BY KeptPlaces DEF HandlerInv, HandlersKept, HasAlone, DoneIsAnswered, H!Datum
<1>3. QED
  BY <1>1, <1>2, KeptPlaces DEF HandlerInv

\* Steps of a caller that changes only its own place in its call.
LEMMA CallerMoves ==
  ASSUME Hypotheses, HandlerInv, HandlersKept, NEW c \in Caller, NEW to \in CallerPC \ {"idle", "insert"},
         pcH[c] \notin {"idle", "insert"}, pcH' = [pcH EXCEPT ![c] = to],
         to \in {"push", "refused", "forgotten", "return"} => FreeHandler(handler[c]),
         to \in {"push", "refused", "forgotten"} => ~ answered[handler[c]]
  PROVE  HandlerInv'
<1>0. \A k \in Consumer : k # c
  BY DEF Hypotheses
<1>1. HandlerTypes'
  BY <1>0 DEF HandlerInv, HandlerTypes, HandlersKept, H!Thread
<1>2. HoldsHandler'
  BY <1>0 DEF HandlerInv, HandlerTypes, HoldsHandler, HandlersKept, H!Thread
<1>3. HasAlone'
  BY KeptPlaces DEF HandlerInv, HandlerTypes, HandlersKept, HasAlone, H!Datum, H!Thread
<1>4. DoneIsAnswered'
  BY <1>0, KeptPlaces DEF HandlerInv, HandlerTypes, HandlersKept, DoneIsAnswered, H!Thread
<1>5. QED
  BY <1>1, <1>2, <1>3, <1>4, KeptPlaces DEF HandlerInv

\* The queue refuses a handler, and the caller still has it alone.
LEMMA InsertFailsKeeps ==
  ASSUME Hypotheses, HandlerInv, NEW c \in Caller, H!InsertFails(c)
  PROVE  HandlerInv'
<1>1. HandlersKept
  BY DEF H!InsertFails, H!PushRefused, H!poolVars, HandlersKept
<1>2. FreeHandler(handler[c]) /\ ~ answered[handler[c]]
  BY DEF H!InsertFails, H!Goto, HandlerInv, HasAlone
<1>3. PICK to \in {"refused", "forgotten"} : pcH[c] = "push" /\ pcH' = [pcH EXCEPT ![c] = to]
  BY DEF H!InsertFails, H!Goto
<1>4. QED
  BY <1>1, <1>2, <1>3, CallerMoves DEF CallerPC

\* A caller sees done, set by the thread of the queue that has answered it.
LEMMA AwaitDoneKeeps ==
  ASSUME Hypotheses, HandlerInv, NEW c \in Caller, H!AwaitDone(c)
  PROVE  HandlerInv'
<1>1. HandlersKept
  BY DEF H!AwaitDone, H!poolVars, H!jqVars, HandlersKept
<1>2. handler[c] \in Handler /\ pcH[c] = "wait"
  BY DEF H!AwaitDone, H!Goto, HandlerInv, HoldsHandler, HandlerTypes, H!Thread
<1>3. CASE answered[handler[c]]
  <2>1. FreeHandler(handler[c]) /\ pcH' = [pcH EXCEPT ![c] = "return"]
    BY <1>2, <1>3 DEF H!AwaitDone, H!Goto, HandlerInv, DoneIsAnswered
  <2>2. QED
    BY <1>1, <1>2, <2>1, CallerMoves DEF CallerPC
<1>4. CASE ~ answered[handler[c]]
  <2>1. pcH' = [pcH EXCEPT ![c] = "sleep"]
    BY <1>4 DEF H!AwaitDone, H!Goto
  <2>2. QED
    BY <1>1, <1>2, <2>1, CallerMoves DEF CallerPC
<1>5. QED
  BY <1>3, <1>4

\* The handler that a call takes is in nobody's hands and has no answer.
LEMMA PoolPopIsFree ==
  ASSUME Hypotheses, HandlerInv, NEW h \in Handler, H!PoolPop(h)
  PROVE  /\ pool' \in Seq(Handler) /\ H!IsInjective(pool') /\ PooledHandlers' = PooledHandlers \ {h}
         /\ created' = created \cup {h} /\ created' \subseteq Handler
         /\ h \notin QueuedHandlers /\ ~ answered[h] /\ \A t \in H!Thread : handler[t] # h
<1>1. CASE pool # <<>> /\ h = Head(pool) /\ pool' = Tail(pool) /\ created' = created
  <2>1. h \in PooledHandlers /\ pool' \in Seq(Handler) /\ H!IsInjective(pool') /\ PooledHandlers' = PooledHandlers \ {h}
    BY <1>1, TailKeepsOthers DEF HandlerInv, HandlerTypes, HandlerInOnePlace, PooledHandlers
  <2>2. QED
    BY <1>1, <2>1 DEF Hypotheses, HandlerInv, HandlerTypes, HandlerInOnePlace, DoneIsAnswered
<1>2. CASE h \in Handler \ created /\ created' = created \cup {h} /\ pool' = pool
  <2>1. PooledHandlers' = PooledHandlers
    BY <1>2 DEF PooledHandlers
  <2>2. QED
    BY <1>2, <2>1 DEF Hypotheses, HandlerInv, HandlerTypes, HandlerInOnePlace, DoneIsAnswered
<1>3. QED
  BY <1>1, <1>2 DEF H!PoolPop

\* A call takes a handler and puts new data in it.
LEMMA TakeHandlerKeeps ==
  ASSUME Hypotheses, HandlerInv, NEW c \in Caller, H!TakeHandler(c)
  PROVE  HandlerInv'
<1>0. (\A k \in Consumer : k # c) /\ Owner # c
  BY DEF Hypotheses
<1> DEFINE d == <<c, called[c] + 1>>
<1>1. PICK h \in Handler :
        /\ called[c] < Calls /\ pcH[c] = "idle" /\ pcH' = [pcH EXCEPT ![c] = "push"]
        /\ H!PoolPop(h)
        /\ called' = [called EXCEPT ![c] = @ + 1] /\ data' = [data EXCEPT ![h] = d]
        /\ handler' = [handler EXCEPT ![c] = h]
        /\ UNCHANGED <<handlerQueue, answered, handled, deleted>>
  BY DEF H!TakeHandler, H!Goto, H!jqVars
<1>2. /\ pool' \in Seq(Handler) /\ H!IsInjective(pool') /\ PooledHandlers' = PooledHandlers \ {h}
      /\ created' = created \cup {h} /\ created' \subseteq Handler
      /\ h \notin QueuedHandlers /\ ~ answered[h] /\ \A t \in H!Thread : handler[t] # h
  BY <1>1, PoolPopIsFree
<1>3. QueuedHandlers' = QueuedHandlers
  BY <1>1 DEF QueuedHandlers
<1>4. called[c] + 1 \in 1 .. Calls /\ d \in Datums /\ d # Nil
  BY <1>1 DEF Hypotheses, HandlerInv, HandlerTypes, Datums
<1>5. /\ called'[c] = called[c] + 1 /\ \A e \in Caller : e # c => called'[e] = called[e]
      /\ \A e \in Datums : e[2] <= called[e[1]] => e # d /\ e[2] <= called'[e[1]]
  BY <1>1 DEF Hypotheses, HandlerInv, HandlerTypes, Datums
<1>6. d[1] = c /\ d[2] = called[c] + 1
  OBVIOUS
<1> HIDE DEF d
<1>7. HandlerTypes'
  <2>1. called' \in [Caller -> 0 .. Calls]
    BY <1>1 DEF Hypotheses, HandlerInv, HandlerTypes
  <2>2. data' \in [Handler -> Datums \cup {Nil}]
    BY <1>1, <1>4 DEF HandlerInv, HandlerTypes
  <2>3. handler' \in [H!Thread -> Handler \cup {Nil}] /\ DOMAIN pcH' = H!Thread
    BY <1>1 DEF HandlerInv, HandlerTypes
  <2>4. \A e \in Caller : pcH'[e] \in CallerPC
    BY <1>1 DEF HandlerInv, HandlerTypes, CallerPC, H!Thread
  <2>5. \A k \in Consumer : pcH'[k] \in ConsumerPC
    BY <1>0, <1>1 DEF HandlerInv, HandlerTypes, H!Thread
  <2>6. QED
    BY <1>1, <1>2, <2>1, <2>2, <2>3, <2>4, <2>5 DEF HandlerInv, HandlerTypes
<1>8. \A t \in H!Thread : t # c => handler'[t] = handler[t] /\ pcH'[t] = pcH[t]
  BY <1>1 DEF HandlerInv, HandlerTypes
<1>9. handler'[c] = h /\ pcH'[c] = "push" /\ c \in H!Thread
  BY <1>1 DEF HandlerInv, HandlerTypes, H!Thread
<1>10. /\ \A g \in Handler : g # h => data'[g] = data[g]
       /\ data'[h] = d
  BY <1>1 DEF HandlerInv, HandlerTypes
<1>11. HoldsHandler'
  BY <1>0, <1>8, <1>9 DEF Hypotheses, HandlerInv, HoldsHandler, H!Thread
<1>12. HandlerInOnePlace'
  <2>1. \A t \in H!Thread : handler'[t] # Nil => handler'[t] \in created' \ PooledHandlers'
    BY <1>2, <1>8, <1>9 DEF HandlerInv, HandlerInOnePlace
  <2>2. \A e, f \in Caller : handler'[e] = handler'[f] /\ handler'[e] # Nil => e = f
    BY <1>2, <1>8, <1>9 DEF HandlerInv, HandlerInOnePlace, H!Thread
  <2>3. /\ \A k \in Consumer : handler'[k] \notin QueuedHandlers'
        /\ \A k, l \in Consumer : handler'[k] = handler'[l] /\ handler'[k] # Nil => k = l
    BY <1>0, <1>3, <1>8 DEF HandlerInv, HandlerInOnePlace, H!Thread
  <2>4. QED
    BY <1>1, <1>2, <1>3, <2>1, <2>2, <2>3 DEF HandlerInv, HandlerInOnePlace
<1>13. \A g : FreeHandler(g)' <=> FreeHandler(g)
  BY <1>0, <1>3, <1>8 DEF FreeHandler, H!Thread
<1>14. FreeHandler(h)
  BY <1>2 DEF FreeHandler, H!Thread
<1>15. HasAlone'
  <2> SUFFICES ASSUME NEW e \in Caller
               PROVE  /\ pcH'[e] \in {"push", "refused", "forgotten", "return", "insert"} => FreeHandler(handler'[e])
                      /\ pcH'[e] \in {"push", "refused", "forgotten", "insert"} => ~ answered[handler'[e]]
                      /\ pcH'[e] \notin {"idle", "insert"} => called'[e] > 0 /\ data'[handler'[e]] = <<e, called'[e]>>
    BY <1>1, <1>13 DEF HasAlone, H!Datum
  <2>1. CASE e = c
    <3>1. called'[c] > 0
      BY <1>4, <1>5
    <3>2. QED
      BY <1>1, <1>2, <1>5, <1>9, <1>10, <1>14, <2>1, <3>1 DEF d
  <2>2. CASE e # c
    <3>1. handler'[e] = handler[e] /\ pcH'[e] = pcH[e] /\ called'[e] = called[e] /\ handler[e] # h
      BY <1>2, <1>5, <1>8, <2>2 DEF H!Thread
    <3>2. pcH[e] # "idle" => data'[handler[e]] = data[handler[e]]
      BY <1>10, <3>1 DEF HandlerInv, HandlerTypes, HoldsHandler, H!Thread
    <3>3. QED
      BY <3>1, <3>2 DEF HandlerInv, HasAlone, H!Datum
  <2>3. QED
    BY <2>1, <2>2
<1>16. DoneIsAnswered'
  <2>1. \A g \in Handler : answered[g] => FreeHandler(g)' /\ data'[g] \in handled
    BY <1>2, <1>10, <1>13 DEF HandlerInv, DoneIsAnswered
  <2>2. \A g \in PooledHandlers' \cup (Handler \ created') : ~ answered[g]
    BY <1>2 DEF HandlerInv, DoneIsAnswered
  <2>3. \A k \in Consumer : pcH'[k] = "signal" => data'[handler'[k]] \in handled
    <3> SUFFICES ASSUME NEW k \in Consumer, pcH[k] = "signal"  PROVE data'[handler[k]] \in handled
      BY <1>0, <1>8 DEF H!Thread
    <3>1. handler[k] \in Handler \ {h}
      BY <1>2 DEF HandlerInv, HandlerTypes, HoldsHandler, WorkingPC, H!Thread
    <3>2. QED
      BY <1>10, <3>1 DEF HandlerInv, DoneIsAnswered
  <2>4. QED
    BY <1>1, <2>1, <2>2, <2>3 DEF DoneIsAnswered
<1>17. DataAreOwn'
  <2>1. \A g \in Handler : ~ FreeHandler(g)' => data'[g] # Nil
    BY <1>10, <1>13, <1>14 DEF HandlerInv, DataAreOwn
  <2>2. \A g \in Handler : data[g] # Nil => data[g] \in Datums /\ data[g] # d /\ data[g][2] <= called'[data[g][1]]
    BY <1>5 DEF HandlerInv, HandlerTypes, DataAreOwn
  <2>3. d \notin deleted /\ \A e \in deleted : e[2] <= called'[e[1]]
    BY <1>4, <1>5 DEF HandlerInv, DataAreOwn
  <2>4. \A g \in Handler : data'[g] # Nil => data'[g] \notin deleted /\ data'[g][2] <= called'[data'[g][1]]
    <3>1. d[2] <= called'[d[1]]
      BY <1>5, <1>6 DEF HandlerInv, HandlerTypes, Hypotheses
    <3>2. QED
      BY <1>10, <2>2, <2>3, <3>1 DEF HandlerInv, DataAreOwn
  <2>5. \A g, f \in Handler : data'[g] = data'[f] /\ data'[g] # Nil => g = f
    BY <1>10, <2>2 DEF HandlerInv, DataAreOwn
  <2>6. QED
    BY <1>1, <2>1, <2>3, <2>4, <2>5 DEF HandlerInv, DataAreOwn
<1>18. QED
  BY <1>7, <1>11, <1>12, <1>15, <1>16, <1>17 DEF HandlerInv

\* The handler goes to the end of the queue.
LEMMA InsertHandlerKeeps ==
  ASSUME Hypotheses, HandlerInv, NEW c \in Caller, H!InsertHandler(c)
  PROVE  HandlerInv'
<1> DEFINE h == handler[c]
<1>1. /\ pcH[c] = "push" /\ pcH' = [pcH EXCEPT ![c] = "post"] /\ handlerQueue' = Append(handlerQueue, h)
      /\ UNCHANGED <<pool, created, data, answered, handler, called, handled, deleted>>
  BY DEF H!InsertHandler, H!Goto, H!PushInsert, H!poolVars
<1>2. h \in Handler /\ FreeHandler(h) /\ ~ answered[h] /\ called[c] > 0 /\ data[h] = H!Datum(c)
  BY <1>1 DEF HandlerInv, HoldsHandler, HandlerTypes, HasAlone, H!Thread
<1>3. handlerQueue' \in Seq(Handler) /\ H!IsInjective(handlerQueue') /\ QueuedHandlers' = QueuedHandlers \cup {h} /\ PooledHandlers' = PooledHandlers
  BY <1>1, <1>2, AppendKeepsOthers DEF HandlerInv, HandlerTypes, HandlerInOnePlace, FreeHandler, QueuedHandlers, PooledHandlers
<1>4. data[h] # Nil
  <2>1. called[c] \in 1 .. Calls
    BY <1>1, <1>2 DEF HandlerInv, HandlerTypes, Hypotheses, H!Datum, Datums
  <2>2. QED
    BY <1>2, <2>1 DEF Hypotheses, H!Datum, Datums
<1>5. \A k \in Consumer : k # c
  BY DEF Hypotheses
<1> HIDE DEF h
<1>6. HandlerTypes' /\ HoldsHandler'
  BY <1>1, <1>3, <1>5 DEF HandlerInv, HandlerTypes, HoldsHandler, H!Thread, CallerPC
<1>7. \A g : FreeHandler(g)' <=> FreeHandler(g) /\ g # h
  BY <1>1, <1>2, <1>3 DEF FreeHandler
<1>8. HandlerInOnePlace'
  <2>1. h \in created \ PooledHandlers /\ \A k \in Consumer : handler[k] # h
    BY <1>2 DEF HandlerInv, HandlerInOnePlace, FreeHandler, H!Thread, Hypotheses, h
  <2>2. QED
    BY <1>1, <1>3, <2>1 DEF HandlerInv, HandlerInOnePlace
<1>9. HasAlone'
  <2> SUFFICES ASSUME NEW e \in Caller
               PROVE  /\ pcH'[e] \in {"push", "refused", "forgotten", "return", "insert"} => FreeHandler(handler[e])'
                      /\ pcH'[e] \in {"push", "refused", "forgotten", "insert"} => ~ answered[handler[e]]
                      /\ pcH'[e] \notin {"idle", "insert"} => called[e] > 0 /\ data[handler[e]] = <<e, called[e]>>
    BY <1>1 DEF HasAlone, H!Datum
  <2>1. CASE e = c
    BY <1>1, <1>2, <2>1 DEF HandlerInv, HandlerTypes, H!Thread, H!Datum, h
  <2>2. CASE e # c
    <3>1. pcH'[e] = pcH[e] /\ (pcH[e] # "idle" => handler[e] # h)
      BY <1>1, <1>2, <2>2 DEF HandlerInv, HandlerTypes, HoldsHandler, HandlerInOnePlace, H!Thread, h
    <3>2. QED
      BY <1>1, <1>7, <3>1 DEF HandlerInv, HasAlone, H!Datum
  <2>3. QED
    BY <2>1, <2>2
<1>10. DoneIsAnswered'
  BY <1>1, <1>2, <1>3, <1>5, <1>7 DEF HandlerInv, HandlerTypes, DoneIsAnswered, H!Thread
<1>11. DataAreOwn'
  BY <1>1, <1>4, <1>7 DEF HandlerInv, DataAreOwn
<1>12. QED
  BY <1>6, <1>8, <1>9, <1>10, <1>11 DEF HandlerInv

\* A caller leaves its call, or goes on to wait or to give the handler back.
LEMMA PostHandlerKeeps ==
  ASSUME Hypotheses, HandlerInv, NEW c \in Caller, H!PostHandler(c)
  PROVE  HandlerInv'
<1>0. (\A k \in Consumer : k # c) /\ Owner # c
  BY DEF Hypotheses
<1>1. UNCHANGED <<handlerQueue, pool, created, data, answered, called, handled, deleted>>
  BY DEF H!PostHandler, H!PostAndUnlock, H!poolVars
<1>2. pcH[c] \in {"post", "refused", "forgotten"} /\ c \in H!Thread
  BY DEF H!PostHandler, H!Goto, H!Thread
<1>3. PICK to \in {"wait", "idle", "return"} :
        /\ pcH' = [pcH EXCEPT ![c] = to] /\ (to = "return" => pcH[c] = "refused")
        /\ handler' = IF to = "idle" THEN [handler EXCEPT ![c] = Nil] ELSE handler
  BY <1>2 DEF H!PostHandler, H!Goto, HandlerInv, HandlerTypes
<1>4. CASE to # "idle"
  <2>1. HandlersKept
    BY <1>1, <1>3, <1>4 DEF HandlersKept
  <2>2. to = "return" => FreeHandler(handler[c])
    BY <1>3 DEF HandlerInv, HasAlone
  <2>3. QED
    BY <1>2, <1>3, <1>4, <2>1, <2>2, CallerMoves DEF CallerPC
<1>5. CASE to = "idle"
  <2>1. /\ QueuedHandlers' = QueuedHandlers /\ PooledHandlers' = PooledHandlers
        /\ \A t \in H!Thread : t # c => handler'[t] = handler[t] /\ pcH'[t] = pcH[t]
        /\ handler'[c] = Nil /\ pcH'[c] = "idle"
    BY <1>1, <1>2, <1>3, <1>5 DEF HandlerInv, HandlerTypes, QueuedHandlers, PooledHandlers
  <2>2. \A g : FreeHandler(g)' <=> FreeHandler(g)
    BY <1>0, <2>1 DEF FreeHandler, H!Thread
  <2>3. HandlerTypes'
    <3>1. handler' \in [H!Thread -> Handler \cup {Nil}] /\ DOMAIN pcH' = H!Thread
      BY <1>3, <1>5 DEF HandlerInv, HandlerTypes
    <3>2. (\A e \in Caller : pcH'[e] \in CallerPC) /\ \A k \in Consumer : pcH'[k] \in ConsumerPC
      BY <1>0, <2>1 DEF HandlerInv, HandlerTypes, H!Thread, CallerPC
    <3>3. QED
      BY <1>1, <3>1, <3>2 DEF HandlerInv, HandlerTypes
  <2>4. HoldsHandler'
    BY <1>0, <2>1 DEF Hypotheses, HandlerInv, HoldsHandler, H!Thread
  <2>5. HandlerInOnePlace'
    BY <1>0, <1>1, <2>1 DEF Hypotheses, HandlerInv, HandlerInOnePlace, H!Thread
  <2>6. HasAlone'
    BY <1>0, <1>1, <2>1, <2>2 DEF HandlerInv, HasAlone, H!Datum, H!Thread
  <2>7. DoneIsAnswered'
    BY <1>0, <1>1, <2>1, <2>2 DEF HandlerInv, DoneIsAnswered, H!Thread
  <2>8. DataAreOwn'
    BY <1>1, <2>2 DEF HandlerInv, DataAreOwn
  <2>9. QED
    BY <2>3, <2>4, <2>5, <2>6, <2>7, <2>8 DEF HandlerInv
<1>6. QED
  BY <1>4, <1>5

\* job_handler_reset () deletes the data of a handler that its caller has alone.
LEMMA ResetHandlerKeeps ==
  ASSUME Hypotheses, HandlerInv, NEW c \in Caller, H!ResetHandler(c)
  PROVE  HandlerInv'
<1>0. (\A k \in Consumer : k # c) /\ Owner # c
  BY DEF Hypotheses
<1> DEFINE h == handler[c]
<1>1. /\ pcH[c] = "return" /\ pcH' = [pcH EXCEPT ![c] = "insert"]
      /\ answered' = [answered EXCEPT ![h] = FALSE] /\ data' = [data EXCEPT ![h] = Nil]
      /\ deleted' = deleted \cup {data[h]}
      /\ UNCHANGED <<handlerQueue, pool, created, handler, called, handled>>
  BY DEF H!ResetHandler, H!Goto, H!jqVars
<1>2. h \in Handler /\ FreeHandler(h) /\ called[c] > 0 /\ data[h] = H!Datum(c) /\ c \in H!Thread
  BY <1>1 DEF HandlerInv, HoldsHandler, HandlerTypes, HasAlone, H!Thread
<1>3. QueuedHandlers' = QueuedHandlers /\ PooledHandlers' = PooledHandlers
  BY <1>1 DEF QueuedHandlers, PooledHandlers
<1>4. \A g : FreeHandler(g)' <=> FreeHandler(g)
  BY <1>1, <1>3 DEF FreeHandler
<1>5. data[h] # Nil /\ data[h] \in Datums
  <2>1. called[c] \in 1 .. Calls
    BY <1>2 DEF HandlerInv, HandlerTypes, Hypotheses
  <2>2. QED
    BY <1>2, <2>1 DEF Hypotheses, H!Datum, Datums
<1>6. \A g \in Handler : /\ g # h => data'[g] = data[g] /\ answered'[g] = answered[g]
                         /\ g = h => data'[g] = Nil /\ ~ answered'[g]
  BY <1>1, <1>2 DEF HandlerInv, HandlerTypes
<1>7. \A e \in Caller : e # c /\ pcH[e] # "idle" => handler[e] \in Handler \ {h}
  BY <1>2 DEF HandlerInv, HandlerTypes, HoldsHandler, HandlerInOnePlace, H!Thread
<1>8. pcH'[c] = "insert" /\ \A t \in H!Thread : t # c => pcH'[t] = pcH[t]
  BY <1>1, <1>2 DEF HandlerInv, HandlerTypes
<1>9. HandlerTypes'
  <2>1. data' \in [Handler -> Datums \cup {Nil}]
    BY <1>1 DEF HandlerInv, HandlerTypes
  <2>2. answered' \in [Handler -> BOOLEAN]
    BY <1>1 DEF HandlerInv, HandlerTypes
  <2>3. (\A e \in Caller : pcH'[e] \in CallerPC) /\ \A k \in Consumer : pcH'[k] \in ConsumerPC
    BY <1>0, <1>8 DEF HandlerInv, HandlerTypes, H!Thread, CallerPC
  <2>4. QED
    BY <1>1, <2>1, <2>2, <2>3 DEF HandlerInv, HandlerTypes
<1>10. HoldsHandler'
  BY <1>0, <1>1, <1>8 DEF HandlerInv, HoldsHandler, H!Thread
<1>11. HandlerInOnePlace'
  BY <1>1, <1>3 DEF HandlerInv, HandlerInOnePlace
<1>12. HasAlone'
  <2> SUFFICES ASSUME NEW e \in Caller
               PROVE  /\ pcH'[e] \in {"push", "refused", "forgotten", "return", "insert"} => FreeHandler(handler[e])
                      /\ pcH'[e] \in {"push", "refused", "forgotten", "insert"} => ~ answered'[handler[e]]
                      /\ pcH'[e] \notin {"idle", "insert"} => called[e] > 0 /\ data'[handler[e]] = <<e, called[e]>>
    BY <1>1, <1>4 DEF HasAlone, H!Datum
  <2>1. CASE e = c
    BY <1>2, <1>6, <1>8, <2>1
  <2>2. CASE e # c
    <3>1. pcH'[e] = pcH[e]
      BY <1>8, <2>2 DEF H!Thread
    <3>2. pcH[e] # "idle" => answered'[handler[e]] = answered[handler[e]] /\ data'[handler[e]] = data[handler[e]]
      BY <1>6, <1>7, <2>2
    <3>3. QED
      BY <3>1, <3>2 DEF HandlerInv, HasAlone, H!Datum
  <2>3. QED
    BY <2>1, <2>2
<1>13. DoneIsAnswered'
  <2>1. \A g \in Handler : answered'[g] => FreeHandler(g)' /\ data'[g] \in handled
    BY <1>4, <1>6 DEF HandlerInv, DoneIsAnswered
  <2>2. \A g \in PooledHandlers \cup (Handler \ created) : ~ answered'[g]
    BY <1>6 DEF HandlerInv, DoneIsAnswered, HandlerTypes, PooledHandlers, H!ToSet
  <2>3. \A k \in Consumer : pcH'[k] = "signal" => data'[handler[k]] \in handled
    <3> SUFFICES ASSUME NEW k \in Consumer, pcH[k] = "signal"  PROVE data'[handler[k]] \in handled
      BY <1>0, <1>8 DEF H!Thread
    <3>1. handler[k] \in Handler \ {h}
      BY <1>2 DEF HandlerInv, HandlerTypes, HoldsHandler, WorkingPC, H!Thread, FreeHandler
    <3>2. QED
      BY <1>6, <3>1 DEF HandlerInv, DoneIsAnswered
  <2>4. QED
    BY <1>1, <1>3, <2>1, <2>2, <2>3 DEF DoneIsAnswered
<1>14. DataAreOwn'
  <2>1. \A g \in Handler : ~ FreeHandler(g)' => data'[g] # Nil
    BY <1>2, <1>4, <1>6 DEF HandlerInv, DataAreOwn
  <2>2. \A g \in Handler : data'[g] # Nil =>
            g # h /\ data'[g] # data[h] /\ data'[g] \notin deleted /\ data'[g][2] <= called[data'[g][1]]
    BY <1>2, <1>5, <1>6 DEF HandlerInv, DataAreOwn
  <2>3. \A g, f \in Handler : data'[g] = data'[f] /\ data'[g] # Nil => g = f
    BY <1>6 DEF HandlerInv, DataAreOwn
  <2>4. deleted' \subseteq {e \in Datums : e[2] <= called[e[1]]}
    BY <1>1, <1>2, <1>5 DEF HandlerInv, DataAreOwn
  <2>5. QED
    BY <1>1, <2>1, <2>2, <2>3, <2>4 DEF DataAreOwn
<1>15. QED
  BY <1>9, <1>10, <1>11, <1>12, <1>13, <1>14 DEF HandlerInv

\* And job_handler_return () puts it back into the pool.
LEMMA ReturnHandlerKeeps ==
  ASSUME Hypotheses, HandlerInv, NEW c \in Caller, H!ReturnHandler(c)
  PROVE  HandlerInv'
<1>0. (\A k \in Consumer : k # c) /\ Owner # c
  BY DEF Hypotheses
<1>1. /\ pcH[c] = "insert" /\ pcH' = [pcH EXCEPT ![c] = "idle"] /\ handler' = [handler EXCEPT ![c] = Nil]
      /\ UNCHANGED <<handlerQueue, created, data, answered, called, handled, deleted>>
  BY DEF H!ReturnHandler, H!Goto, H!jqVars
<1>2. handler[c] \in Handler /\ c \in H!Thread
  BY <1>1 DEF HandlerInv, HoldsHandler, HandlerTypes, H!Thread
<1>3. PICK h \in Handler : h = handler[c]
  BY <1>2
<1>4. FreeHandler(h) /\ ~ answered[h] /\ h \in created \ PooledHandlers
  BY <1>1, <1>2, <1>3 DEF Hypotheses, HandlerInv, HasAlone, HandlerInOnePlace
<1>5. /\ pool' \in Seq(Handler) /\ H!IsInjective(pool')
      /\ PooledHandlers' = PooledHandlers \/ PooledHandlers' = PooledHandlers \cup {h}
  <2>1. CASE pool' = pool
    BY <2>1 DEF HandlerInv, HandlerTypes, HandlerInOnePlace, PooledHandlers
  <2>2. CASE \E i \in 0 .. Len(pool) : pool' = H!InsertAt(pool, i + 1, h)
    BY <1>4, <2>2, InsertKeepsOthers DEF HandlerInv, HandlerTypes, HandlerInOnePlace, PooledHandlers
  <2>3. QED
    BY <1>3, <2>1, <2>2 DEF H!ReturnHandler, H!PoolInsert
<1>6. QueuedHandlers' = QueuedHandlers
  BY <1>1 DEF QueuedHandlers
<1>7. /\ \A t \in H!Thread : t # c => handler'[t] = handler[t] /\ pcH'[t] = pcH[t]
      /\ handler'[c] = Nil /\ pcH'[c] = "idle"
  BY <1>1, <1>2 DEF HandlerInv, HandlerTypes
<1>8. \A t \in H!Thread : t # c => handler[t] # h
  BY <1>0, <1>2, <1>3, <1>4 DEF Hypotheses, HandlerInv, HandlerTypes, HandlerInOnePlace, HoldsHandler, FreeHandler, H!Thread
<1>9. \A g : FreeHandler(g)' <=> FreeHandler(g)
  BY <1>0, <1>6, <1>7 DEF FreeHandler, H!Thread
<1>10. HandlerTypes'
  <2>1. handler' \in [H!Thread -> Handler \cup {Nil}] /\ DOMAIN pcH' = H!Thread
    BY <1>1 DEF HandlerInv, HandlerTypes
  <2>2. (\A e \in Caller : pcH'[e] \in CallerPC) /\ \A k \in Consumer : pcH'[k] \in ConsumerPC
    BY <1>0, <1>7 DEF HandlerInv, HandlerTypes, H!Thread, CallerPC
  <2>3. QED
    BY <1>1, <1>5, <2>1, <2>2 DEF HandlerInv, HandlerTypes
<1>11. HoldsHandler'
  BY <1>0, <1>7 DEF Hypotheses, HandlerInv, HoldsHandler, H!Thread
<1>12. HandlerInOnePlace'
  <2>1. QueuedHandlers' \cap PooledHandlers' = {} /\ QueuedHandlers' \cup PooledHandlers' \subseteq created'
    BY <1>1, <1>4, <1>5, <1>6 DEF HandlerInv, HandlerInOnePlace, FreeHandler
  <2>2. \A t \in H!Thread : handler'[t] # Nil => handler'[t] \in created' \ PooledHandlers'
    BY <1>1, <1>5, <1>7, <1>8 DEF HandlerInv, HandlerInOnePlace
  <2>3. QED
    BY <1>0, <1>1, <1>5, <1>6, <1>7, <2>1, <2>2 DEF Hypotheses, HandlerInv, HandlerInOnePlace, H!Thread
<1>13. HasAlone'
  BY <1>0, <1>1, <1>7, <1>9 DEF HandlerInv, HasAlone, H!Datum, H!Thread
<1>14. DoneIsAnswered'
  BY <1>0, <1>1, <1>4, <1>5, <1>7, <1>9 DEF HandlerInv, DoneIsAnswered, H!Thread
<1>15. DataAreOwn'
  BY <1>1, <1>9 DEF HandlerInv, DataAreOwn
<1>16. QED
  BY <1>10, <1>11, <1>12, <1>13, <1>14, <1>15 DEF HandlerInv

\* What the thread of the queue pulls is out of the queue.
LEMMA PullHandlerKeeps ==
  ASSUME Hypotheses, HandlerInv, NEW k \in Consumer, H!PullHandler(k)
  PROVE  HandlerInv'
<1>0. (\A c \in Caller : k # c) /\ Owner # k /\ k \in H!Thread
  BY DEF Hypotheses, H!Thread
<1>1. PICK to \in {"work", "repost"} :
        /\ pcH[k] = "pull" /\ pcH' = [pcH EXCEPT ![k] = to]
        /\ Len(handlerQueue) > 0 /\ handlerQueue' = Tail(handlerQueue) /\ handler' = [handler EXCEPT ![k] = Head(handlerQueue)]
        /\ UNCHANGED <<pool, created, data, answered, called, handled, deleted>>
  <2>0. Len(handlerQueue) \in Nat
    BY LenProperties DEF HandlerInv, HandlerTypes
  <2>1. Len(handlerQueue) = 1 \/ Len(handlerQueue) > 1 => Len(handlerQueue) > 0
    BY <2>0
  <2>2. QED
    BY <2>1 DEF H!PullHandler, H!Goto, H!PullOnly, H!PullFirst, H!poolVars
<1>2. PICK h : h = Head(handlerQueue)
  OBVIOUS
<1>3. /\ handlerQueue' \in Seq(Handler) /\ H!IsInjective(handlerQueue') /\ QueuedHandlers' = QueuedHandlers \ {h}
      /\ h \in QueuedHandlers /\ h \in Handler
  <2>1. handlerQueue # <<>>
    BY <1>1, EmptySeq
  <2>2. QED
    BY <1>1, <1>2, <2>1, TailKeepsOthers DEF HandlerInv, HandlerTypes, HandlerInOnePlace, QueuedHandlers
<1>4. PooledHandlers' = PooledHandlers
  BY <1>1 DEF PooledHandlers
<1>5. /\ \A t \in H!Thread : t # k => handler'[t] = handler[t] /\ pcH'[t] = pcH[t]
      /\ handler'[k] = h /\ pcH'[k] = to
  BY <1>0, <1>1, <1>2 DEF HandlerInv, HandlerTypes
<1>6. handler[k] = Nil /\ \A l \in Consumer : handler[l] # h
  BY <1>1, <1>3 DEF HandlerInv, HoldsHandler, HandlerInOnePlace, WorkingPC
<1>7. \A g \in Handler : FreeHandler(g)' <=> FreeHandler(g)
  <2> SUFFICES ASSUME NEW g \in Handler  PROVE FreeHandler(g)' <=> FreeHandler(g)
    OBVIOUS
  <2>1. CASE g = h
    BY <1>3, <1>5, <2>1 DEF FreeHandler
  <2>2. CASE g # h
    <3>1. \A l \in Consumer : handler'[l] = g <=> handler[l] = g
      BY <1>5, <1>6, <2>2 DEF Hypotheses, H!Thread
    <3>2. QED
      BY <1>3, <2>2, <3>1 DEF FreeHandler
  <2>3. QED
    BY <2>1, <2>2
<1>8. HandlerTypes'
  <2>1. handler' \in [H!Thread -> Handler \cup {Nil}] /\ DOMAIN pcH' = H!Thread
    BY <1>1, <1>2, <1>3 DEF HandlerInv, HandlerTypes
  <2>2. (\A e \in Caller : pcH'[e] \in CallerPC) /\ \A l \in Consumer : pcH'[l] \in ConsumerPC
    BY <1>0, <1>5 DEF HandlerInv, HandlerTypes, H!Thread, ConsumerPC, WorkingPC
  <2>3. QED
    BY <1>1, <1>3, <2>1, <2>2 DEF HandlerInv, HandlerTypes
<1>9. HoldsHandler'
  BY <1>0, <1>3, <1>5 DEF Hypotheses, HandlerInv, HoldsHandler, H!Thread, WorkingPC
<1>10. HandlerInOnePlace'
  <2>1. QueuedHandlers' \cap PooledHandlers' = {} /\ QueuedHandlers' \cup PooledHandlers' \subseteq created'
    BY <1>1, <1>3, <1>4 DEF HandlerInv, HandlerInOnePlace
  <2>2. \A t \in H!Thread : handler'[t] # Nil => handler'[t] \in created' \ PooledHandlers'
    BY <1>1, <1>3, <1>4, <1>5 DEF HandlerInv, HandlerInOnePlace
  <2>3. /\ \A l \in Consumer : handler'[l] \notin QueuedHandlers'
        /\ \A l, m \in Consumer : handler'[l] = handler'[m] /\ handler'[l] # Nil => l = m
    BY <1>3, <1>5, <1>6 DEF HandlerInv, HandlerInOnePlace, H!Thread
  <2>4. \A c, d \in Caller : handler'[c] = handler'[d] /\ handler'[c] # Nil => c = d
    BY <1>0, <1>5 DEF HandlerInv, HandlerInOnePlace, H!Thread
  <2>5. QED
    BY <1>1, <1>3, <1>4, <2>1, <2>2, <2>3, <2>4 DEF HandlerInv, HandlerInOnePlace
<1>11. HasAlone'
  <2> SUFFICES ASSUME NEW e \in Caller
               PROVE  /\ pcH[e] \in {"push", "refused", "forgotten", "return", "insert"} => FreeHandler(handler[e])'
                      /\ pcH[e] \in {"push", "refused", "forgotten", "insert"} => ~ answered[handler[e]]
                      /\ pcH[e] \notin {"idle", "insert"} => called[e] > 0 /\ data[handler[e]] = <<e, called[e]>>
    <3>1. \A e \in Caller : handler'[e] = handler[e] /\ pcH'[e] = pcH[e]
      BY <1>0, <1>5 DEF H!Thread
    <3>2. QED
      BY <1>1, <3>1 DEF HasAlone, H!Datum
  <2>1. PICK g : g = handler[e]
    OBVIOUS
  <2>2. FreeHandler(handler[e])' <=> FreeHandler(g)'
    BY <1>0, <1>5, <2>1 DEF FreeHandler, H!Thread
  <2>3. pcH[e] # "idle" => g \in Handler
    BY <2>1 DEF HandlerInv, HandlerTypes, HoldsHandler, H!Thread
  <2>4. QED
    BY <1>7, <2>1, <2>2, <2>3 DEF HandlerInv, HasAlone, H!Datum
<1>12. DoneIsAnswered'
  BY <1>1, <1>4, <1>5, <1>7 DEF HandlerInv, DoneIsAnswered, H!Thread
<1>13. DataAreOwn'
  BY <1>1, <1>7 DEF HandlerInv, DataAreOwn
<1>14. QED
  BY <1>8, <1>9, <1>10, <1>11, <1>12, <1>13 DEF HandlerInv

\* The method of the queue handles the data of the call.
LEMMA HandleKeeps ==
  ASSUME Hypotheses, HandlerInv, NEW k \in Consumer, H!Handle(k)
  PROVE  HandlerInv'
<1>0. \A c \in Caller : k # c
  BY DEF Hypotheses
<1>1. /\ pcH[k] = "work" /\ pcH' = [pcH EXCEPT ![k] = "signal"]
      /\ handled' = handled \cup {data[handler[k]]}
      /\ UNCHANGED <<handlerQueue, pool, created, data, answered, handler, called, deleted>>
  BY DEF H!Handle, H!Goto, H!jqVars, H!poolVars
<1>2. QueuedHandlers' = QueuedHandlers /\ PooledHandlers' = PooledHandlers
  BY <1>1 DEF QueuedHandlers, PooledHandlers
<1>3. \A g : FreeHandler(g)' <=> FreeHandler(g)
  BY <1>1, <1>2 DEF FreeHandler
<1>4. pcH'[k] = "signal" /\ \A t \in H!Thread : t # k => pcH'[t] = pcH[t]
  BY <1>1 DEF HandlerInv, HandlerTypes, H!Thread
<1>5. HandlerTypes' /\ HoldsHandler'
  BY <1>0, <1>1, <1>4 DEF HandlerInv, HandlerTypes, HoldsHandler, H!Thread, ConsumerPC, WorkingPC
<1>6. HandlerInOnePlace' /\ DataAreOwn'
  BY <1>1, <1>2, <1>3 DEF HandlerInv, HandlerInOnePlace, DataAreOwn
<1>7. HasAlone'
  BY <1>0, <1>1, <1>3, <1>4 DEF HandlerInv, HasAlone, H!Datum, H!Thread
<1>8. DoneIsAnswered'
  BY <1>1, <1>2, <1>3, <1>4 DEF HandlerInv, DoneIsAnswered, H!Thread
<1>9. QED
  BY <1>5, <1>6, <1>7, <1>8 DEF HandlerInv

\* job_handler_signal (): the handler is answered, and those that sleep on it
\* look at done again.
LEMMA SignalKeeps ==
  ASSUME Hypotheses, HandlerInv, NEW k \in Consumer, H!Signal(k)
  PROVE  HandlerInv'
<1>0. (\A c \in Caller : k # c) /\ Owner # k /\ k \in H!Thread
  BY DEF Hypotheses, H!Thread
<1>1. PICK h : h = handler[k]
  OBVIOUS
<1>2. /\ pcH[k] = "signal" /\ answered' = [answered EXCEPT ![h] = TRUE] /\ handler' = [handler EXCEPT ![k] = Nil]
      /\ pcH' = [t \in H!Thread |-> CASE t = k -> "test"
                                   [] pcH[t] = "sleep" /\ handler[t] = h -> "wait"
                                   [] OTHER -> pcH[t]]
      /\ UNCHANGED <<handlerQueue, pool, created, data, called, handled, deleted>>
  BY <1>1 DEF H!Signal, H!jqVars, H!poolVars
<1>3. h \in Handler /\ h \in created \ PooledHandlers /\ h \notin QueuedHandlers /\ data[h] \in handled
  BY <1>0, <1>1, <1>2 DEF HandlerInv, HandlerTypes, HoldsHandler, HandlerInOnePlace, DoneIsAnswered, WorkingPC
<1>4. QueuedHandlers' = QueuedHandlers /\ PooledHandlers' = PooledHandlers
  BY <1>2 DEF QueuedHandlers, PooledHandlers
<1>5. /\ \A t \in H!Thread : t # k => handler'[t] = handler[t]
      /\ handler'[k] = Nil /\ pcH'[k] = "test" /\ DOMAIN pcH' = H!Thread
      /\ \A t \in H!Thread : t # k => pcH'[t] = pcH[t] \/ (pcH[t] = "sleep" /\ pcH'[t] = "wait")
  BY <1>0, <1>2 DEF HandlerInv, HandlerTypes
<1>6. \A g \in Handler : g # h => answered'[g] = answered[g] /\ (FreeHandler(g)' <=> FreeHandler(g))
  <2> SUFFICES ASSUME NEW g \in Handler, g # h  PROVE answered'[g] = answered[g] /\ (FreeHandler(g)' <=> FreeHandler(g))
    OBVIOUS
  <2>1. \A l \in Consumer : handler'[l] = g <=> handler[l] = g
    BY <1>1, <1>5 DEF Hypotheses, H!Thread
  <2>2. QED
    BY <1>2, <1>4, <2>1 DEF HandlerInv, HandlerTypes, FreeHandler
<1>7. \A g : g = h => FreeHandler(g)' /\ ~ FreeHandler(g)
  <2>1. \A l \in Consumer : handler'[l] # h
    BY <1>0, <1>1, <1>3, <1>5 DEF Hypotheses, HandlerInv, HandlerInOnePlace, H!Thread
  <2>2. QED
    BY <1>1, <1>3, <1>4, <2>1 DEF FreeHandler
<1>8. \A t \in H!Thread : t # k =>
          /\ pcH'[t] \in {"push", "refused", "forgotten", "return", "insert", "idle", "signal"} => pcH'[t] = pcH[t]
          /\ pcH'[t] \in WorkingPC <=> pcH[t] \in WorkingPC
          /\ pcH'[t] = "idle" <=> pcH[t] = "idle"
          /\ pcH'[t] \notin {"idle", "insert"} => pcH[t] \notin {"idle", "insert"}
  BY <1>5 DEF WorkingPC
<1>9. HandlerTypes'
  <2>1. handler' \in [H!Thread -> Handler \cup {Nil}]
    BY <1>2 DEF HandlerInv, HandlerTypes
  <2>2. answered' \in [Handler -> BOOLEAN]
    BY <1>2 DEF HandlerInv, HandlerTypes
  <2>3. \A e \in Caller : pcH'[e] \in CallerPC
    BY <1>0, <1>5 DEF HandlerInv, HandlerTypes, H!Thread, CallerPC
  <2>4. \A l \in Consumer : pcH'[l] \in ConsumerPC
    <3> SUFFICES ASSUME NEW l \in Consumer  PROVE pcH'[l] \in ConsumerPC
      OBVIOUS
    <3>1. l \in H!Thread /\ pcH[l] \in ConsumerPC
      BY DEF HandlerInv, HandlerTypes, H!Thread
    <3>2. QED
      BY <1>5, <3>1 DEF ConsumerPC, WorkingPC
  <2>5. QED
    BY <1>2, <1>5, <2>1, <2>2, <2>3, <2>4 DEF HandlerInv, HandlerTypes
<1>10. HoldsHandler'
  <2>1. \A e \in Caller : handler'[e] = Nil <=> pcH'[e] = "idle"
    BY <1>0, <1>5, <1>8 DEF HandlerInv, HoldsHandler, H!Thread
  <2>2. \A l \in Consumer : handler'[l] = Nil <=> pcH'[l] \notin WorkingPC
    <3> SUFFICES ASSUME NEW l \in Consumer  PROVE handler'[l] = Nil <=> pcH'[l] \notin WorkingPC
      OBVIOUS
    <3>1. CASE l = k
      BY <1>5, <3>1 DEF WorkingPC
    <3>2. CASE l # k
      BY <1>5, <1>8, <3>2 DEF HandlerInv, HoldsHandler, H!Thread
    <3>3. QED
      BY <3>1, <3>2
  <2>3. QED
    BY <1>0, <1>5, <2>1, <2>2 DEF HandlerInv, HoldsHandler, H!Thread
<1>11. HandlerInOnePlace'
  <2>1. \A t \in H!Thread : handler'[t] # Nil => handler'[t] = handler[t]
    BY <1>5
  <2>2. \A t \in H!Thread : handler'[t] # Nil => handler'[t] \in created' \ PooledHandlers'
    BY <1>2, <1>4, <2>1 DEF HandlerInv, HandlerInOnePlace
  <2>3. \A l \in Consumer : handler'[l] \notin QueuedHandlers'
    <3>1. Nil \notin QueuedHandlers
      BY DEF Hypotheses, HandlerInv, HandlerTypes, QueuedHandlers, H!ToSet
    <3>2. QED
      BY <1>4, <2>1, <3>1 DEF HandlerInv, HandlerInOnePlace, H!Thread
  <2>4. /\ \A c, d \in Caller : handler'[c] = handler'[d] /\ handler'[c] # Nil => c = d
        /\ \A l, m \in Consumer : handler'[l] = handler'[m] /\ handler'[l] # Nil => l = m
    BY <2>1 DEF HandlerInv, HandlerInOnePlace, H!Thread
  <2>5. QED
    BY <1>2, <1>4, <2>2, <2>3, <2>4 DEF HandlerInv, HandlerInOnePlace
<1>12. HasAlone'
  <2> SUFFICES ASSUME NEW e \in Caller
               PROVE  /\ pcH'[e] \in {"push", "refused", "forgotten", "return", "insert"} => FreeHandler(handler[e])'
                      /\ pcH'[e] \in {"push", "refused", "forgotten", "insert"} => ~ answered'[handler[e]]
                      /\ pcH'[e] \notin {"idle", "insert"} => called[e] > 0 /\ data[handler[e]] = <<e, called[e]>>
    <3>1. \A e \in Caller : handler'[e] = handler[e]
      BY <1>0, <1>5 DEF H!Thread
    <3>2. QED
      BY <1>2, <3>1 DEF HasAlone, H!Datum
  <2>1. PICK g : g = handler[e]
    OBVIOUS
  <2>2. FreeHandler(handler[e])' <=> FreeHandler(g)'
    BY <1>0, <1>5, <2>1 DEF FreeHandler, H!Thread
  <2>3. pcH[e] # "idle" => g \in Handler
    BY <2>1 DEF HandlerInv, HandlerTypes, HoldsHandler, H!Thread
  <2>4. e \in H!Thread /\ e # k
    BY <1>0 DEF H!Thread
  <2>5. pcH'[e] \in {"push", "refused", "forgotten", "return", "insert"} => FreeHandler(g) /\ g # h /\ pcH[e] = pcH'[e]
    BY <1>7, <1>8, <2>1, <2>4 DEF HandlerInv, HasAlone
  <2>6. QED
    BY <1>6, <1>8, <2>1, <2>2, <2>3, <2>4, <2>5 DEF HandlerInv, HasAlone, H!Datum
<1>13. DoneIsAnswered'
  <2>1. \A g \in Handler : answered'[g] => FreeHandler(g)' /\ data[g] \in handled
    BY <1>3, <1>6, <1>7 DEF HandlerInv, DoneIsAnswered
  <2>2. \A g \in PooledHandlers \cup (Handler \ created) : ~ answered'[g]
    <3>1. PooledHandlers \subseteq Handler
      BY DEF HandlerInv, HandlerTypes, PooledHandlers, H!ToSet
    <3>2. QED
      BY <1>3, <1>6, <3>1 DEF HandlerInv, DoneIsAnswered
  <2>3. \A l \in Consumer : pcH'[l] = "signal" => data[handler'[l]] \in handled
    BY <1>0, <1>5, <1>8 DEF HandlerInv, DoneIsAnswered, H!Thread
  <2>4. QED
    BY <1>2, <1>4, <2>1, <2>2, <2>3 DEF DoneIsAnswered
<1>14. DataAreOwn'
  BY <1>2, <1>6, <1>7 DEF HandlerInv, DataAreOwn
<1>15. QED
  BY <1>9, <1>10, <1>11, <1>12, <1>13, <1>14 DEF HandlerInv

\* The other steps of a thread of the queue.
LEMMA ConsumerKeeps ==
  ASSUME Hypotheses, HandlerInv, NEW k \in Consumer,
         H!TestRunning(k) \/ H!WaitForJobs(k) \/ H!PullNothing(k) \/ H!PostNext(k)
  PROVE  HandlerInv'
<1>1. HandlersKept
  BY DEF H!TestRunning, H!WaitForJobs, H!PullNothing, H!PostNext, H!BsemWait, H!PullEmpty, H!PostAndUnlock,
         HandlersKept, H!jqVars, H!poolVars
<1>2. PICK to \in {"bsem", "ended", "pull", "test", "work"} :
        /\ pcH' = [pcH EXCEPT ![k] = to] /\ (to = "work" <=> pcH[k] = "repost")
        /\ pcH[k] \in {"test", "bsem", "pull", "repost"}
  BY DEF H!TestRunning, H!WaitForJobs, H!PullNothing, H!PostNext, H!Goto
<1>3. k \in H!Thread /\ \A c \in Caller : c # k
  BY DEF Hypotheses, H!Thread
<1>4. DOMAIN pcH' = H!Thread /\ pcH'[k] = to /\ \A t \in H!Thread : t # k => pcH'[t] = pcH[t]
  BY <1>2, <1>3 DEF HandlerInv, HandlerTypes
<1>5. \A c \in Caller : pcH'[c] = pcH[c]
  BY <1>3, <1>4 DEF H!Thread
<1>6. ASSUME NEW l \in Consumer
      PROVE  /\ pcH'[l] \in ConsumerPC
             /\ pcH'[l] \in WorkingPC <=> pcH[l] \in WorkingPC
             /\ pcH'[l] = "signal" => pcH[l] = "signal"
  <2>1. CASE l = k
    BY <1>2, <1>4, <2>1 DEF ConsumerPC, WorkingPC
  <2>2. CASE l # k
    BY <1>4, <2>2 DEF HandlerInv, HandlerTypes, H!Thread
  <2>3. QED
    BY <2>1, <2>2
<1>7. QED
  BY <1>1, <1>4, <1>5, <1>6, ConsumerMoves

\* The steps of the owner, which starts and stops the thread of the queue.
LEMMA OwnerKeeps ==
  ASSUME Hypotheses, HandlerInv, H!Start \/ H!Stop \/ H!OwnerStep
  PROVE  HandlerInv'
<1>1. HandlersKept
  BY DEF H!Start, H!Stop, H!OwnerStep, H!CreateThread, H!CreateThreadFails, H!StopPost, H!BsemPost, HandlersKept,
         H!jqVars, H!poolVars
<1>2. Owner \in H!Thread /\ Consumer \subseteq H!Thread /\ Caller \subseteq H!Thread
      /\ Owner \notin Consumer /\ Owner \notin Caller /\ Caller \cap Consumer = {}
  BY DEF Hypotheses, H!Thread
<1>3. CASE H!CreateThread
  <2>1. PICK k \in Consumer :
          pcH[k] \in {"none", "ended"} /\ pcH' = [pcH EXCEPT ![Owner] = "idle", ![k] = "test"]
    BY <1>3 DEF H!CreateThread
  <2>2. /\ DOMAIN pcH' = H!Thread /\ pcH'[k] = "test"
        /\ \A t \in H!Thread \ {k, Owner} : pcH'[t] = pcH[t]
    BY <1>2, <2>1 DEF HandlerInv, HandlerTypes
  <2>3. ASSUME NEW l \in Consumer
        PROVE  /\ pcH'[l] \in ConsumerPC
               /\ pcH'[l] \in WorkingPC <=> pcH[l] \in WorkingPC
               /\ pcH'[l] = "signal" => pcH[l] = "signal"
    <3>1. CASE l = k
      BY <2>1, <2>2, <3>1 DEF ConsumerPC, WorkingPC
    <3>2. CASE l # k
      BY <1>2, <2>2, <3>2 DEF HandlerInv, HandlerTypes
    <3>3. QED
      BY <3>1, <3>2
  <2>4. \A c \in Caller : pcH'[c] = pcH[c]
    BY <1>2, <2>2
  <2>5. QED
    BY <1>1, <2>2, <2>3, <2>4, ConsumerMoves
<1>4. CASE H!Start \/ H!Stop \/ H!CreateThreadFails \/ H!StopPost
  <2>1. PICK to : pcH' = [pcH EXCEPT ![Owner] = to]
    BY <1>4 DEF H!Start, H!Stop, H!CreateThreadFails, H!StopPost, H!Goto
  <2>2. DOMAIN pcH' = H!Thread /\ \A t \in H!Thread \ {Owner} : pcH'[t] = pcH[t]
    BY <2>1 DEF HandlerInv, HandlerTypes
  <2>3. \A k \in Consumer : pcH'[k] = pcH[k] /\ pcH[k] \in ConsumerPC
    BY <1>2, <2>2 DEF HandlerInv, HandlerTypes
  <2>4. \A c \in Caller : pcH'[c] = pcH[c]
    BY <1>2, <2>2
  <2>5. QED
    BY <1>1, <2>2, <2>3, <2>4, ConsumerMoves
<1>5. QED
  BY <1>3, <1>4 DEF H!OwnerStep

-----------------------------------------------------------------------------
\* The invariant holds of the handlers of a queue (jobs.c), whatever callers,
\* threads of the queue and refusals there are.
THEOREM HandlersInvariant ==
  ASSUME Hypotheses
  PROVE  H!Spec => []HandlerInv
<1>1. H!Init => HandlerInv
  BY HandlerInitHolds
<1>2. HandlerInv /\ [H!Next]_(H!vars) => HandlerInv'
  <2> SUFFICES ASSUME HandlerInv, [H!Next]_(H!vars)  PROVE HandlerInv'
    OBVIOUS
  <2>1. ASSUME NEW c \in Caller, H!TakeHandler(c) \/ H!InsertFails(c) \/ H!CallerStep(c)  PROVE HandlerInv'
    BY <2>1, TakeHandlerKeeps, InsertFailsKeeps, InsertHandlerKeeps, PostHandlerKeeps, AwaitDoneKeeps,
       ResetHandlerKeeps, ReturnHandlerKeeps DEF H!CallerStep
  <2>2. ASSUME NEW k \in Consumer, H!ConsumerStep(k)  PROVE HandlerInv'
    BY <2>2, ConsumerKeeps, PullHandlerKeeps, HandleKeeps, SignalKeeps DEF H!ConsumerStep
  <2>3. CASE H!Start \/ H!Stop \/ H!OwnerStep
    BY <2>3, OwnerKeeps
  <2>4. CASE UNCHANGED H!vars
    <3>1. HandlersKept /\ pcH' = pcH
      BY <2>4 DEF H!vars, H!jqVars, H!hVars, H!poolVars, HandlersKept
    <3>2. QED
      BY <3>1, ConsumerMoves DEF HandlerInv, HandlerTypes
  <2>5. QED
    BY <2>1, <2>2, <2>3, <2>4 DEF H!Next
<1>3. QED
  BY <1>1, <1>2, PTL DEF H!Spec

\* The method of the queue is called with data that are not deleted, a caller
\* that waits is answered for its own data, and the pool holds no handler that
\* is in use (job_handler_wait, job_queue_handlers, job_handler_return).
THEOREM HandlersAnswerTheirOwn ==
  ASSUME Hypotheses
  PROVE  H!Spec => []H!AnswersOwn
<1>1. HandlerInv => H!AnswersOwn
  <2> SUFFICES ASSUME HandlerInv  PROVE H!AnswersOwn
    OBVIOUS
  <2>1. \A k \in Consumer : pcH[k] \in {"work", "signal"} => data[handler[k]] \notin deleted \cup {Nil}
    <3> SUFFICES ASSUME NEW k \in Consumer, pcH[k] \in {"work", "signal"}
                 PROVE  data[handler[k]] \notin deleted \cup {Nil}
      OBVIOUS
    <3>1. handler[k] \in Handler
      BY DEF HandlerInv, HandlerTypes, HoldsHandler, WorkingPC, H!Thread
    <3>2. ~ FreeHandler(handler[k])
      BY DEF FreeHandler
    <3>3. QED
      BY <3>1, <3>2 DEF HandlerInv, DataAreOwn
  <2>2. \A c \in Caller : pcH[c] \in {"wait", "sleep"} /\ answered[handler[c]] => H!Datum(c) \in handled
    <3> SUFFICES ASSUME NEW c \in Caller, pcH[c] \in {"wait", "sleep"}, answered[handler[c]]
                 PROVE  H!Datum(c) \in handled
      OBVIOUS
    <3>1. handler[c] \in Handler
      BY DEF HandlerInv, HandlerTypes, HoldsHandler, H!Thread
    <3>2. QED
      BY <3>1 DEF HandlerInv, HasAlone, DoneIsAnswered
  <2>3. \A i, j \in DOMAIN pool : i # j => pool[i] # pool[j]
    BY DEF HandlerInv, HandlerInOnePlace, H!IsInjective
  <2>4. PooledHandlers \cap (QueuedHandlers \cup {handler[t] : t \in H!Thread}) = {}
    <3>1. PooledHandlers \subseteq Handler
      BY DEF HandlerInv, HandlerTypes, PooledHandlers, H!ToSet
    <3>2. QED
      BY <3>1 DEF Hypotheses, HandlerInv, HandlerInOnePlace
  <2>5. QED
    BY <2>1, <2>2, <2>3, <2>4 DEF H!AnswersOwn, PooledHandlers, QueuedHandlers
<1>2. QED
  BY <1>1, HandlersInvariant, PTL

-----------------------------------------------------------------------------
(* The requests for a job of an id (threads/jobs.c)                        *)

RequestTypes ==
    /\ requestQueue \in Seq(Job) /\ requestToken \in {0, 1}
    /\ waiting \in BOOLEAN /\ requested_job \in Job \cup {Nil}
    /\ pcR \in [Requester -> {"idle", "asked", "woken"}]
    /\ DOMAIN wanted = Requester /\ got \in [Requester -> Job \cup {Nil}]
    /\ pushed \subseteq Job /\ collected \subseteq Job
    /\ overlap \in BOOLEAN /\ repeat \in BOOLEAN

\* A request is in the one place of the queue only while its thread is in the
\* call, which is alone in it.
AsksAlone ==
    /\ \A r, q \in Requester : pcR[r] # "idle" /\ pcR[q] # "idle" => r = q
    /\ \A r \in Requester : pcR[r] # "idle" => waiting /\ requested_id = wanted[r]
    /\ ~ waiting => requested_job = Nil /\ requestToken = 0
    /\ requested_job # Nil => IdOf(requested_job) = requested_id

\* The token of the semaphore and the job come together, and go one by one.
TokenHasJob ==
    \A r \in Requester :
        /\ pcR[r] = "asked" => (requestToken = 1 <=> requested_job # Nil)
        /\ pcR[r] = "woken" => requestToken = 0 /\ requested_job # Nil

Answered ==
    \A r \in Requester :
        pcR[r] = "idle" /\ wanted[r] # 0 => got[r] # Nil /\ IdOf(got[r]) = wanted[r]

\* A job that was pushed is in one place.
OnePlace ==
    /\ R!IsInjective(requestQueue)
    /\ pushed = collected \cup R!ToSet(requestQueue) \cup ({requested_job} \ {Nil})
    /\ collected \cap (R!ToSet(requestQueue) \cup {requested_job}) = {}
    /\ requested_job \notin R!ToSet(requestQueue)

OneRequest == ~ overlap /\ ~ repeat
RequestInv == RequestTypes /\ (OneRequest => AsksAlone /\ TokenHasJob /\ Answered /\ OnePlace)

-----------------------------------------------------------------------------
(* Lemmas about the list of the jobs                                       *)

\* Taking one job out of a list without repetitions.
LEMMA RemoveKeepsOthers ==
  ASSUME NEW s \in Seq(Job), R!IsInjective(s), NEW i \in 1 .. Len(s)
  PROVE  /\ R!RemoveAt(s, i) \in Seq(Job) /\ R!IsInjective(R!RemoveAt(s, i))
         /\ R!ToSet(R!RemoveAt(s, i)) = R!ToSet(s) \ {s[i]}
<1> DEFINE t == R!RemoveAt(s, i)
<1>1. t \in Seq(Job) /\ Len(t) = Len(s) - 1
      /\ \A k \in 1 .. Len(s) - 1 : t[k] = IF k < i THEN s[k] ELSE s[k + 1]
  <2> DEFINE a == SubSeq(s, 1, i - 1)
             b == SubSeq(s, i + 1, Len(s))
  <2>1. a \in Seq(Job) /\ Len(a) = i - 1 /\ \A k \in 1 .. i - 1 : a[k] = s[k]
    OBVIOUS
  <2>2. b \in Seq(Job) /\ Len(b) = Len(s) - i /\ \A k \in 1 .. Len(s) - i : b[k] = s[k + i]
    OBVIOUS
  <2>3. t = a \o b
    BY DEF R!RemoveAt
  <2> HIDE DEF a, b, t
  <2>4. t \in Seq(Job) /\ Len(t) = Len(s) - 1
    BY <2>1, <2>2, <2>3
  <2>5. ASSUME NEW k \in 1 .. Len(s) - 1
        PROVE  t[k] = IF k < i THEN s[k] ELSE s[k + 1]
    <3>1. t[k] = IF k <= Len(a) THEN a[k] ELSE b[k - Len(a)]
      BY <2>1, <2>2, <2>3
    <3>2. CASE k < i
      BY <2>1, <3>1, <3>2
    <3>3. CASE k >= i
      <4>1. k - Len(a) \in 1 .. Len(s) - i /\ (k - Len(a)) + i = k + 1
        BY <2>1, <3>3
      <4>2. t[k] = b[k - Len(a)]
        BY <2>1, <3>1, <3>3
      <4>3. b[k - Len(a)] = s[(k - Len(a)) + i]
        BY <2>2, <4>1
      <4>4. QED
        BY <3>3, <4>1, <4>2, <4>3
    <3>4. QED
      BY <3>2, <3>3
  <2>6. QED
    BY <2>4, <2>5
<1>2. \A k, l \in 1 .. Len(s) : s[k] = s[l] => k = l
  BY DEF R!IsInjective
<1>3. R!IsInjective(t)
  <2> HIDE DEF t
  <2>1. QED
    BY <1>1, <1>2 DEF R!IsInjective
<1>4. ASSUME NEW x \in R!ToSet(t)  PROVE x \in R!ToSet(s) \ {s[i]}
  <2> HIDE DEF t
  <2>1. PICK k \in 1 .. Len(s) - 1 : x = t[k]
    BY <1>1, <1>4 DEF R!ToSet
  <2>2. QED
    BY <1>1, <1>2, <2>1 DEF R!ToSet
<1>5. ASSUME NEW x \in R!ToSet(s) \ {s[i]}  PROVE x \in R!ToSet(t)
  <2> HIDE DEF t
  <2>1. PICK k \in 1 .. Len(s) : x = s[k] /\ k # i
    BY DEF R!ToSet
  <2>2. CASE k < i
    BY <1>1, <2>1, <2>2 DEF R!ToSet
  <2>3. CASE k > i
    <3>1. k - 1 \in 1 .. Len(t) /\ t[k - 1] = s[k]
      BY <1>1, <2>1, <2>3
    <3>2. QED
      BY <1>1, <2>1, <3>1 DEF R!ToSet
  <2>4. QED
    BY <2>1, <2>2, <2>3
<1>6. QED
  BY <1>1, <1>3, <1>4, <1>5

\* A new job at the end of a list.
LEMMA AppendAddsOne ==
  ASSUME NEW s \in Seq(Job), NEW j \in Job
  PROVE  /\ R!ToSet(Append(s, j)) = R!ToSet(s) \cup {j}
         /\ R!IsInjective(s) /\ j \notin R!ToSet(s) => R!IsInjective(Append(s, j))
<1>1. R!ToSet(Append(s, j)) = R!ToSet(s) \cup {j}
  <2>1. ASSUME NEW x \in R!ToSet(Append(s, j))  PROVE x \in R!ToSet(s) \cup {j}
    <3>1. PICK k \in 1 .. Len(s) + 1 : x = Append(s, j)[k]
      BY DEF R!ToSet
    <3>2. QED
      BY <3>1 DEF R!ToSet
  <2>2. ASSUME NEW x \in R!ToSet(s) \cup {j}  PROVE x \in R!ToSet(Append(s, j))
    <3>1. CASE x = j
      <4>1. Append(s, j)[Len(s) + 1] = j /\ Len(s) + 1 \in DOMAIN Append(s, j)
        OBVIOUS
      <4>2. QED
        BY <3>1, <4>1 DEF R!ToSet
    <3>2. CASE x \in R!ToSet(s)
      <4>1. PICK k \in 1 .. Len(s) : x = s[k]
        BY <3>2 DEF R!ToSet
      <4>2. Append(s, j)[k] = x /\ k \in DOMAIN Append(s, j)
        BY <4>1
      <4>3. QED
        BY <4>2 DEF R!ToSet
    <3>3. QED
      BY <2>2, <3>1, <3>2
  <2>3. QED
    BY <2>1, <2>2
<1>2. ASSUME R!IsInjective(s), j \notin R!ToSet(s)  PROVE R!IsInjective(Append(s, j))
  BY <1>2 DEF R!ToSet, R!IsInjective
<1>3. QED
  BY <1>1, <1>2

-----------------------------------------------------------------------------
(* The steps                                                               *)

\* The first state has no request and no job.
LEMMA RequestInitHolds == R!Init => RequestInv
<1> SUFFICES ASSUME R!Init  PROVE RequestInv
  OBVIOUS
<1>1. R!ToSet(requestQueue) = {} /\ R!IsInjective(requestQueue)
  BY DEF R!Init, R!ToSet, R!IsInjective
<1>2. RequestTypes
  <2>1. requestQueue \in Seq(Job)
    BY DEF R!Init
  <2>2. DOMAIN wanted = Requester
    BY DEF R!Init
  <2>3. pcR \in [Requester -> {"idle", "asked", "woken"}] /\ got \in [Requester -> Job \cup {Nil}]
    BY DEF R!Init
  <2>4. QED
    BY <2>1, <2>2, <2>3 DEF R!Init, RequestTypes
<1>3. AsksAlone /\ TokenHasJob /\ Answered
  BY DEF R!Init, AsksAlone, TokenHasJob, Answered
<1>4. OnePlace
  BY <1>1 DEF R!Init, OnePlace
<1>5. QED
  BY <1>2, <1>3, <1>4 DEF RequestInv

\* job_queue_push_job_with_id () brings one job to one place.
LEMMA PushKeepsRequests ==
  ASSUME RequestInv, Nil \notin Job, NEW j \in Job, R!PushJobWithId(j)
  PROVE  RequestInv'
<1> USE DEF R!PushJobWithId
<1>1. RequestTypes'
  BY DEF RequestInv, RequestTypes
<1>2. ASSUME OneRequest'  PROVE AsksAlone' /\ TokenHasJob' /\ Answered' /\ OnePlace'
  <2>1. OneRequest /\ (requested_job' = requested_job \/ requested_job = Nil)
    BY <1>2 DEF OneRequest, RequestInv, RequestTypes
  <2>2. AsksAlone /\ TokenHasJob /\ Answered /\ OnePlace /\ RequestTypes
    BY <2>1 DEF RequestInv
  <2>3. j \notin collected /\ j \notin R!ToSet(requestQueue) /\ j # requested_job /\ j # Nil
    BY <2>2 DEF OnePlace
  <2>4. CASE waiting /\ requested_id = IdOf(j)
    <3>1. requested_job = Nil /\ requested_job' = j /\ requestToken' = 1 /\ requestQueue' = requestQueue
      BY <2>1, <2>3, <2>4
    <3>2. OnePlace'
      BY <2>2, <2>3, <3>1 DEF OnePlace
    <3>3. AsksAlone'
      BY <2>2, <2>4, <3>1 DEF AsksAlone
    <3>4. TokenHasJob' /\ Answered'
      BY <2>2, <2>3, <3>1 DEF TokenHasJob, Answered
    <3>5. QED
      BY <3>2, <3>3, <3>4
  <2>5. CASE ~ (waiting /\ requested_id = IdOf(j))
    <3>1. requestQueue' = Append(requestQueue, j) /\ requested_job' = requested_job /\ requestToken' = requestToken
      BY <2>5
    <3>2. R!ToSet(requestQueue') = R!ToSet(requestQueue) \cup {j} /\ R!IsInjective(requestQueue')
      BY <2>2, <2>3, <3>1, AppendAddsOne DEF RequestTypes, OnePlace
    <3>3. OnePlace'
      BY <2>2, <2>3, <3>1, <3>2 DEF OnePlace
    <3>4. AsksAlone' /\ TokenHasJob' /\ Answered'
      BY <2>2, <3>1 DEF AsksAlone, TokenHasJob, Answered
    <3>5. QED
      BY <3>3, <3>4
  <2>6. QED
    BY <2>4, <2>5
<1>3. QED
  BY <1>1, <1>2 DEF RequestInv

\* job_queue_request () takes its job from the list, or takes the one place,
\* which is free unless requests overlap.
LEMMA RequestKeepsRequests ==
  ASSUME RequestInv, Nil \notin Job, NEW r \in Requester, NEW id, R!Request(r, id)
  PROVE  RequestInv'
<1>1. pcR[r] = "idle" /\ wanted' = [wanted EXCEPT ![r] = id]
      /\ UNCHANGED <<requestToken, pushed, repeat>>
  BY DEF R!Request
<1>2. CASE \E i \in 1 .. Len(requestQueue) :
             /\ IdOf(requestQueue[i]) = id /\ requestQueue' = R!RemoveAt(requestQueue, i)
             /\ got' = [got EXCEPT ![r] = requestQueue[i]] /\ collected' = collected \cup {requestQueue[i]}
             /\ UNCHANGED <<waiting, requested_id, requested_job, pcR, overlap>>
  <2>1. PICK i \in 1 .. Len(requestQueue) :
             /\ IdOf(requestQueue[i]) = id /\ requestQueue' = R!RemoveAt(requestQueue, i)
             /\ got' = [got EXCEPT ![r] = requestQueue[i]] /\ collected' = collected \cup {requestQueue[i]}
             /\ UNCHANGED <<waiting, requested_id, requested_job, pcR, overlap>>
    BY <1>2
  <2>2. requestQueue[i] \in Job /\ requestQueue[i] \in R!ToSet(requestQueue) /\ requestQueue[i] # Nil
    BY DEF RequestInv, RequestTypes, R!ToSet
  <2>3. requestQueue' \in Seq(Job)
    BY <2>1 DEF RequestInv, RequestTypes, R!RemoveAt
  <2>4. RequestTypes'
    BY <1>1, <2>1, <2>2, <2>3 DEF RequestInv, RequestTypes
  <2>5. ASSUME OneRequest'  PROVE AsksAlone' /\ TokenHasJob' /\ Answered' /\ OnePlace'
    <3>1. AsksAlone /\ TokenHasJob /\ Answered /\ OnePlace /\ RequestTypes
      BY <1>1, <2>1, <2>5 DEF RequestInv, OneRequest
    <3>2. R!IsInjective(requestQueue') /\ R!ToSet(requestQueue') = R!ToSet(requestQueue) \ {requestQueue[i]}
      BY <2>1, <3>1, RemoveKeepsOthers DEF OnePlace, RequestTypes
    <3>3. OnePlace'
      BY <1>1, <2>1, <2>2, <3>1, <3>2 DEF OnePlace
    <3>4. AsksAlone' /\ TokenHasJob'
      BY <1>1, <2>1, <3>1 DEF AsksAlone, TokenHasJob, RequestTypes
    <3>5. Answered'
      BY <1>1, <2>1, <2>2, <3>1 DEF Answered, RequestTypes
    <3>6. QED
      BY <3>3, <3>4, <3>5
  <2>6. QED
    BY <2>4, <2>5 DEF RequestInv
<1>3. CASE /\ waiting' = TRUE /\ requested_id' = id /\ requested_job' = Nil
           /\ pcR' = [pcR EXCEPT ![r] = "asked"]
           /\ overlap' = (overlap \/ waiting)
           /\ UNCHANGED <<requestQueue, got, collected>>
  <2>1. RequestTypes'
    BY <1>1, <1>3 DEF RequestInv, RequestTypes
  <2>2. ASSUME OneRequest'  PROVE AsksAlone' /\ TokenHasJob' /\ Answered' /\ OnePlace'
    <3>1. ~ waiting /\ AsksAlone /\ TokenHasJob /\ Answered /\ OnePlace /\ RequestTypes
      BY <1>1, <1>3, <2>2 DEF RequestInv, OneRequest, RequestTypes
    <3>2. requested_job = Nil /\ requestToken = 0 /\ \A q \in Requester : pcR[q] = "idle"
      BY <3>1 DEF AsksAlone
    <3>3. \A q \in Requester : pcR'[q] # "idle" => q = r
      BY <1>3, <3>1, <3>2 DEF RequestTypes
    <3>4. AsksAlone'
      BY <1>1, <1>3, <3>1, <3>3 DEF AsksAlone, RequestTypes
    <3>5. TokenHasJob'
      BY <1>1, <1>3, <3>1, <3>2, <3>3 DEF TokenHasJob, RequestTypes
    <3>6. Answered'
      BY <1>1, <1>3, <3>1, <3>2 DEF Answered, RequestTypes
    <3>7. OnePlace'
      BY <1>1, <1>3, <3>1, <3>2 DEF OnePlace
    <3>8. QED
      BY <3>4, <3>5, <3>6, <3>7
  <2>3. QED
    BY <2>1, <2>2 DEF RequestInv
<1>4. QED
  BY <1>2, <1>3 DEF R!Request

\* bsem_wait () takes the token, which came with the job.
LEMMA WokenKeepsRequests ==
  ASSUME RequestInv, NEW r \in Requester, R!Woken(r)
  PROVE  RequestInv'
<1>1. RequestTypes'
  BY DEF RequestInv, RequestTypes, R!Woken
<1>2. ASSUME OneRequest'  PROVE AsksAlone' /\ TokenHasJob' /\ Answered' /\ OnePlace'
  <2>1. AsksAlone /\ TokenHasJob /\ Answered /\ OnePlace /\ RequestTypes
    BY <1>2 DEF RequestInv, OneRequest, R!Woken
  <2>2. \A q \in Requester : q # r => pcR[q] = "idle" /\ pcR'[q] = "idle"
    BY <2>1 DEF AsksAlone, R!Woken, RequestTypes
  <2>3. AsksAlone'
    BY <2>1, <2>2 DEF AsksAlone, R!Woken, RequestTypes
  <2>4. TokenHasJob' /\ Answered'
    BY <2>1, <2>2 DEF TokenHasJob, Answered, R!Woken, RequestTypes
  <2>5. OnePlace'
    BY <2>1 DEF OnePlace, R!Woken
  <2>6. QED
    BY <2>3, <2>4, <2>5
<1>3. QED
  BY <1>1, <1>2 DEF RequestInv

\* The end of job_queue_request () takes the job and frees the one place.
LEMMA CollectKeepsRequests ==
  ASSUME RequestInv, Nil \notin Job, NEW r \in Requester, R!Collect(r)
  PROVE  RequestInv'
<1>1. RequestTypes'
  BY DEF RequestInv, RequestTypes, R!Collect
<1>2. ASSUME OneRequest'  PROVE AsksAlone' /\ TokenHasJob' /\ Answered' /\ OnePlace'
  <2>1. AsksAlone /\ TokenHasJob /\ Answered /\ OnePlace /\ RequestTypes
    BY <1>2 DEF RequestInv, OneRequest, R!Collect
  <2>2. requestToken = 0 /\ requested_job \in Job /\ IdOf(requested_job) = wanted[r]
    BY <2>1 DEF AsksAlone, TokenHasJob, R!Collect, RequestTypes
  <2>3. \A q \in Requester : pcR'[q] = "idle"
    BY <2>1 DEF AsksAlone, R!Collect, RequestTypes
  <2>4. AsksAlone' /\ TokenHasJob'
    BY <2>1, <2>2, <2>3 DEF AsksAlone, TokenHasJob, R!Collect
  <2>5. Answered'
    <3> SUFFICES ASSUME NEW q \in Requester, wanted[q] # 0
                 PROVE  got'[q] # Nil /\ IdOf(got'[q]) = wanted[q]
      BY DEF Answered, R!Collect
    <3>1. CASE q = r
      BY <2>1, <2>2, <3>1 DEF R!Collect, RequestTypes
    <3>2. CASE q # r
      BY <2>1, <3>2 DEF AsksAlone, Answered, R!Collect, RequestTypes
    <3>3. QED
      BY <3>1, <3>2
  <2>6. OnePlace'
    <3>1. requestQueue' = requestQueue /\ pushed' = pushed /\ requested_job' = Nil
          /\ collected' = collected \cup {requested_job}
      BY <2>1, <2>2 DEF R!Collect
    <3>2. Nil \notin R!ToSet(requestQueue) /\ Nil \notin collected
      BY <2>1 DEF RequestTypes, R!ToSet
    <3>3. QED
      BY <2>1, <2>2, <3>1, <3>2 DEF OnePlace
  <2>7. QED
    BY <2>4, <2>5, <2>6
<1>3. QED
  BY <1>1, <1>2 DEF RequestInv

-----------------------------------------------------------------------------
\* The invariant holds of the requests for jobs (jobs.c), whose jobs are not
\* the null pointer.
THEOREM RequestsInvariant ==
  ASSUME Nil \notin Job
  PROVE  R!Spec => []RequestInv
<1>1. R!Init => RequestInv
  BY RequestInitHolds
<1>2. RequestInv /\ [R!Next]_(R!vars) => RequestInv'
  <2> SUFFICES ASSUME RequestInv, [R!Next]_(R!vars)  PROVE RequestInv'
    OBVIOUS
  <2>1. CASE \E j \in Job : R!PushJobWithId(j)
    BY <2>1, PushKeepsRequests
  <2>2. CASE \E r \in Requester : R!Step(r)
    BY <2>2, WokenKeepsRequests, CollectKeepsRequests DEF R!Step
  <2>3. CASE \E r \in Requester : \E j \in Job : R!Request(r, IdOf(j))
    BY <2>3, RequestKeepsRequests
  <2>4. CASE UNCHANGED R!vars
    BY <2>4 DEF R!vars, RequestInv, RequestTypes, OneRequest, AsksAlone, TokenHasJob, Answered, OnePlace
  <2>5. QED
    BY <2>1, <2>2, <2>3, <2>4 DEF R!Next
<1>3. QED
  BY <1>1, <1>2, PTL DEF R!Spec

\* job_queue_request () returns a job of its id, and no job is lost or returned
\* twice, while one thread asks at a time and one job comes for a request.
THEOREM RequestsCorrect ==
  ASSUME Nil \notin Job
  PROVE  R!Spec => []R!RequestsKeepJobs
<1>1. RequestInv => R!RequestsKeepJobs
  BY DEF RequestInv, RequestTypes, OneRequest, AsksAlone, Answered, OnePlace, R!RequestsKeepJobs
<1>2. QED
  BY <1>1, RequestsInvariant, PTL

-----------------------------------------------------------------------------
(* The binary semaphore of threads/bsem.c                                  *)

\* Mutual exclusion and the value of the semaphore (bsem_wait, bsem_post,
\* bsem_post_all): the invariant is inductive as it stands.
THEOREM BsemTypeCorrect == B!SafeSpec => []B!TypeOK
<1> USE DEF B!PC
<1>1. B!Init => B!TypeOK
  BY DEF B!Init, B!TypeOK
<1>2. ASSUME B!TypeOK, [B!Next]_(B!vars)
      PROVE  B!TypeOK'
  <2> USE <1>2 DEF B!TypeOK, B!Goto, B!Lock, B!Unlock
  <2>1. ASSUME NEW t \in Waiter, B!Call(t)  PROVE B!TypeOK'
    BY <2>1 DEF B!Call
  <2>2. ASSUME NEW t \in Waiter, B!WaitLock(t)  PROVE B!TypeOK'
    BY <2>2 DEF B!WaitLock
  <2>3. ASSUME NEW t \in Waiter, B!WaitSleep(t)  PROVE B!TypeOK'
    BY <2>3 DEF B!WaitSleep
  <2>4. ASSUME NEW t \in Waiter, B!WaitWake(t)  PROVE B!TypeOK'
    BY <2>4 DEF B!WaitWake
  <2>5. ASSUME NEW t \in Waiter, B!WaitTake(t)  PROVE B!TypeOK'
    BY <2>5 DEF B!WaitTake
  <2>6. ASSUME NEW t \in Waiter, B!WaitUnlock(t)  PROVE B!TypeOK'
    BY <2>6 DEF B!WaitUnlock
  <2>7. ASSUME NEW t \in Waiter, B!PostLock(t)  PROVE B!TypeOK'
    BY <2>7 DEF B!PostLock
  <2>8. ASSUME NEW t \in Waiter, B!SetAndSignal(t)  PROVE B!TypeOK'
    BY <2>8 DEF B!SetAndSignal, B!Signal
  <2>9. ASSUME NEW t \in Waiter, B!PostAllLock(t)  PROVE B!TypeOK'
    BY <2>9 DEF B!PostAllLock
  <2>10. ASSUME NEW t \in Waiter, B!SetAndBroadcast(t)  PROVE B!TypeOK'
    BY <2>10 DEF B!SetAndBroadcast
  <2>11. CASE B!Reset
    BY <2>11 DEF B!Reset
  <2>12. CASE UNCHANGED B!vars
    BY <2>12 DEF B!vars
  <2>13. QED
    BY <2>1, <2>2, <2>3, <2>4, <2>5, <2>6, <2>7, <2>8, <2>9, <2>10, <2>11, <2>12
       DEF B!Next, B!WaitStep, B!PostStep
<1>3. QED
  BY <1>1, <1>2, PTL DEF B!SafeSpec

\* A token that a sleeper could take is never left without a thread that is
\* about to look at it: bsem_post wakes one sleeper and that is enough.
THEOREM PostNeverLost == B!SafeSpec => []B!NoLostPost
<1> USE DEF B!PC
<1>1. B!Init => B!NoLostPost
  BY DEF B!Init, B!NoLostPost
<1>2. ASSUME B!TypeOK, B!TypeOK', B!NoLostPost, [B!Next]_(B!vars)
      PROVE  B!NoLostPost'
  <2> USE <1>2 DEF B!TypeOK, B!NoLostPost, B!Awake, B!Goto, B!Lock, B!Unlock
  <2>1. ASSUME NEW t \in Waiter, B!Call(t)  PROVE B!NoLostPost'
    BY <2>1 DEF B!Call
  <2>2. ASSUME NEW t \in Waiter, B!WaitLock(t)  PROVE B!NoLostPost'
    BY <2>2 DEF B!WaitLock
  <2>3. ASSUME NEW t \in Waiter, B!WaitSleep(t)  PROVE B!NoLostPost'
    BY <2>3 DEF B!WaitSleep
  <2>4. ASSUME NEW t \in Waiter, B!WaitWake(t)  PROVE B!NoLostPost'
    BY <2>4 DEF B!WaitWake
  <2>5. ASSUME NEW t \in Waiter, B!WaitTake(t)  PROVE B!NoLostPost'
    BY <2>5 DEF B!WaitTake
  <2>6. ASSUME NEW t \in Waiter, B!WaitUnlock(t)  PROVE B!NoLostPost'
    BY <2>6 DEF B!WaitUnlock
  <2>7. ASSUME NEW t \in Waiter, B!PostLock(t)  PROVE B!NoLostPost'
    BY <2>7 DEF B!PostLock
  <2>8. ASSUME NEW t \in Waiter, B!SetAndSignal(t)  PROVE B!NoLostPost'
    <3>1. CASE sleeping = {}
      BY <2>8, <3>1 DEF B!SetAndSignal, B!Signal
    <3>2. CASE sleeping # {}
      <4>1. PICK s \in sleeping : sleeping' = sleeping \ {s}
        BY <2>8, <3>2 DEF B!SetAndSignal, B!Signal
      <4>2. s \in Waiter /\ s # t /\ pcB'[s] = "cond"
        BY <2>8, <4>1 DEF B!SetAndSignal
      <4>3. QED
        BY <4>1, <4>2
    <3>3. QED
      BY <3>1, <3>2
  <2>9. ASSUME NEW t \in Waiter, B!PostAllLock(t)  PROVE B!NoLostPost'
    BY <2>9 DEF B!PostAllLock
  <2>10. ASSUME NEW t \in Waiter, B!SetAndBroadcast(t)  PROVE B!NoLostPost'
    BY <2>10 DEF B!SetAndBroadcast
  <2>11. CASE B!Reset
    BY <2>11 DEF B!Reset
  <2>12. CASE UNCHANGED B!vars
    BY <2>12 DEF B!vars
  <2>13. QED
    BY <2>1, <2>2, <2>3, <2>4, <2>5, <2>6, <2>7, <2>8, <2>9, <2>10, <2>11, <2>12
       DEF B!Next, B!WaitStep, B!PostStep
<1>3. QED
  BY <1>1, <1>2, BsemTypeCorrect, PTL DEF B!SafeSpec

\* Every step of the mutex-and-condition implementation is a step of the
\* abstract semaphore or leaves it unchanged (the safety half of Implements).
THEOREM BsemImplements == B!SafeSpec => B!ImplementsSafe
<1> USE DEF B!PC
<1> DEFINE W == {t \in Waiter : pcB[t] \in {"lockWait", "test", "cond"}}
<1>1. B!Init => B!BS!AbsInit
  BY DEF B!Init, B!BS!AbsInit
<1>2. ASSUME B!TypeOK, [B!Next]_(B!vars)
      PROVE  [B!BS!AbsNext]_(B!BS!absVars)
  <2> USE <1>2 DEF B!TypeOK, B!Goto, B!Lock, B!Unlock
  <2> USE DEF B!BS!AbsNext, B!BS!BeginWait, B!BS!EndWait, B!BS!DoPost, B!BS!DoReset, B!BS!absVars
  <2>1. ASSUME NEW t \in Waiter, B!Call(t)  PROVE [B!BS!AbsNext]_(B!BS!absVars)
    <3>1. CASE pcB' = [pcB EXCEPT ![t] = "lockWait"]
      <4>1. W' = W \cup {t} /\ t \notin W /\ (v = 1)' = (v = 1)
        BY <2>1, <3>1 DEF B!Call
      <4>2. QED
        BY <4>1
    <3>2. CASE pcB' # [pcB EXCEPT ![t] = "lockWait"]
      <4>1. W' = W /\ (v = 1)' = (v = 1)
        BY <2>1, <3>2 DEF B!Call
      <4>2. QED
        BY <4>1
    <3>3. QED
      BY <3>1, <3>2
  <2>2. ASSUME NEW t \in Waiter,
               B!WaitLock(t) \/ B!WaitSleep(t) \/ B!WaitWake(t) \/ B!WaitUnlock(t)
                           \/ B!PostLock(t) \/ B!PostAllLock(t)
        PROVE [B!BS!AbsNext]_(B!BS!absVars)
    <3>1. W' = W /\ v' = v
      BY <2>2 DEF B!WaitLock, B!WaitSleep, B!WaitWake, B!WaitUnlock, B!PostLock, B!PostAllLock
    <3>2. QED
      BY <3>1
  <2>3. ASSUME NEW t \in Waiter, B!WaitTake(t)  PROVE [B!BS!AbsNext]_(B!BS!absVars)
    <3>1. W' = W \ {t} /\ t \in W /\ v = 1 /\ v' = 0
      BY <2>3 DEF B!WaitTake
    <3>2. QED
      BY <3>1
  <2>4. ASSUME NEW t \in Waiter, B!SetAndSignal(t) \/ B!SetAndBroadcast(t)
        PROVE [B!BS!AbsNext]_(B!BS!absVars)
    <3>1. W' = W /\ v' = 1
      BY <2>4 DEF B!SetAndSignal, B!SetAndBroadcast
    <3>2. QED
      BY <3>1
  <2>5. CASE B!Reset
    <3>1. W = {} /\ W' = W /\ v' = 0
      BY <2>5 DEF B!Reset
    <3>2. QED
      BY <3>1
  <2>6. CASE UNCHANGED B!vars
    BY <2>6 DEF B!vars
  <2>7. QED
    BY <2>1, <2>2, <2>3, <2>4, <2>5, <2>6 DEF B!Next, B!WaitStep, B!PostStep
<1>3. QED
  BY <1>1, <1>2, BsemTypeCorrect, PTL DEF B!SafeSpec, B!ImplementsSafe, B!BS!AbsSafe

-----------------------------------------------------------------------------
(* The parts                                                               *)

\* Each part behaves as it does alone: the others leave its state as it is.
LEMMA PartsBehave ==
  PartsSpec => SafeSpec /\ H!Spec /\ R!Spec /\ B!SafeSpec
<1>1. PartsInit => Init /\ H!Init /\ R!Init /\ B!Init
  BY DEF PartsInit
<1>2. [PartsNext]_allVars => [Next]_vars /\ [H!Next]_(H!vars) /\ [R!Next]_(R!vars) /\ [B!Next]_(B!vars)
  <2> SUFFICES ASSUME [PartsNext]_allVars
               PROVE  [Next]_vars /\ [H!Next]_(H!vars) /\ [R!Next]_(R!vars) /\ [B!Next]_(B!vars)
    OBVIOUS
  <2>1. UNCHANGED workerVars => UNCHANGED vars
    BY DEF workerVars, vars, jqVars, requests, threadVars, ownerVars
  <2>2. UNCHANGED handlerVars => UNCHANGED H!vars
    BY DEF handlerVars, H!vars, H!jqVars, H!hVars, H!poolVars
  <2>3. UNCHANGED requestVars => UNCHANGED R!vars
    BY DEF requestVars, R!vars
  <2>4. UNCHANGED bsemVars => UNCHANGED B!vars
    BY DEF bsemVars, B!vars
  <2>5. CASE OfWorker(Next)
    BY <2>2, <2>3, <2>4, <2>5 DEF OfWorker
  <2>6. CASE OfHandlers(H!Next)
    BY <2>1, <2>3, <2>4, <2>6 DEF OfHandlers
  <2>7. CASE OfRequests(R!Next)
    BY <2>1, <2>2, <2>4, <2>7 DEF OfRequests
  <2>8. CASE OfBsem(B!Next)
    BY <2>1, <2>2, <2>3, <2>8 DEF OfBsem
  <2>9. CASE UNCHANGED allVars
    BY <2>1, <2>2, <2>3, <2>4, <2>9 DEF allVars
  <2>10. QED
    BY <2>5, <2>6, <2>7, <2>8, <2>9 DEF PartsNext
<1>3. QED
  BY <1>1, <1>2, PTL DEF PartsSpec, SafeSpec, H!Spec, R!Spec, B!SafeSpec

\* The worker of a part is the worker.
THEOREM PartsOrder == PartsSpec => [](InOrder /\ StoppedIsIdle)
  BY PartsBehave, OrderCorrect, StoppedCorrect, PTL

\* job_handler_wait () is answered for its own data: see above.
THEOREM PartsAnswerOwn == PartsSpec => []AnswersOwn
<1>1. H!AnswersOwn <=> AnswersOwn
  BY DEF AnswersOwn
<1>2. H!Spec => []H!AnswersOwn
  BY HandlersAnswerTheirOwn, ThreadsAssumption DEF Hypotheses, Datums, IsInjective, H!IsInjective
<1>3. QED
  BY <1>1, <1>2, PartsBehave, PTL

\* job_queue_request () returns a job of its id: see above.
THEOREM PartsKeepJobs == PartsSpec => []RequestsKeepJobs
<1>1. R!RequestsKeepJobs <=> RequestsKeepJobs
  BY DEF RequestsKeepJobs
<1>2. R!Spec => []R!RequestsKeepJobs
  BY RequestsCorrect, ThreadsAssumption
<1>3. QED
  BY <1>1, <1>2, PartsBehave, PTL

\* bsem_post () is not lost: see above.
THEOREM PartsLoseNoPost == PartsSpec => []NoLostPost
<1>1. B!NoLostPost <=> NoLostPost
  BY DEF NoLostPost
<1>2. QED
  BY <1>1, PostNeverLost, PartsBehave, PTL
=============================================================================
