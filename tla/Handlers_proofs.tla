--------------------------- MODULE Handlers_proofs --------------------------
(***************************************************************************)
(* The packet handlers, for any cerver, any number of handlers and of      *)
(* packets: the counters that start and teardown read, the order of the    *)
(* packets, and that packets are handled only while the cerver serves.     *)
(* And the life of a cerver, for any detached threads and number of        *)
(* starts: what is started, what the teardown leaves, what is deleted.     *)
(***************************************************************************)
EXTENDS Serving, FiniteSetTheorems, SequenceTheorems, TLAPS

\* The threads that the two counters count.
AliveSet == {h \in Handler : pc[h] \in Counted}
WorkingSet == {h \in Handler : pc[h] \in {"pull", "work", "worked"}}
CountersExact ==
    /\ alive \in 0 .. Cardinality(Handler) /\ working \in 0 .. Cardinality(Handler)
    /\ Exists => alive = Cardinality(AliveSet) /\ working = Cardinality(WorkingSet)

\* The types of everything but the counters, which need CountersExact.
DataOK ==
    /\ config \in Config
    /\ isRunning \in BOOLEAN /\ errors \in BOOLEAN
    /\ lock \in Handler \cup {Nobody}
    /\ queue \in [Handler -> Seq(Packet)] /\ token \in [Handler -> BOOLEAN]
    /\ pc \in [Handler -> PC]
    /\ held \in [Handler -> Packet \cup {NoPacket}]
    /\ handled \in [Handler -> Seq(Packet)]
    /\ pcM \in Interruptible \cup {"teardown", "stopApps", "stopOthers", "stopAll",
                                  "delete", "deleted"}

\* What the main thread knows of the flag and of the threads.
Flow ==
    /\ pcM \in {"startApps", "spin", "hung", "startOthers", "serve"} => isRunning
    /\ pcM \in {"stopApps", "stopOthers", "stopAll", "delete", "deleted"} => ~ isRunning
    /\ isRunning => \A h \in Handler : pc[h] \notin {"leave", "unlock", "gone", "crashed"}
    /\ pcM \in {"startApps", "spin"} => \A h \in Handler \ config.app : pc[h] = "unborn"
    /\ pcM = "serve" => ~ errors
    /\ config.multiple /\ ~ errors /\ pcM \in {"startOthers", "serve"} =>
           \A h \in config.app : pc[h] \in Counted
    /\ pcM \in {"delete", "deleted"} =>
           \A h \in Handler : pc[h] \notin Counted \ {"loop", "leave"}

\* What a thread knows of its queue.
Hands(h) ==
    /\ pc[h] = "work" <=> held[h] # NoPacket
    /\ isRunning /\ token[h] => queue[h] # <<>>
    /\ isRunning /\ token[h] /\ pc[h] \in {"awake", "count", "pull"} => Len(queue[h]) > 1
    /\ isRunning /\ pc[h] = "awake" => queue[h] # <<>>
    /\ pc[h] \in {"count", "pull"} => queue[h] # <<>>
    /\ h \notin Queued => queue[h] = <<>> /\ held[h] = NoPacket

\* InOrder, part by part.
Numbered(h) ==
    LET n == Len(handled[h])
        k == IF held[h] = NoPacket THEN 0 ELSE 1
    IN  /\ \A i \in 1 .. n : handled[h][i] = i
        /\ held[h] # NoPacket => held[h] = n + 1
        /\ \A i \in 1 .. Len(queue[h]) : queue[h][i] = n + k + i

-----------------------------------------------------------------------------
\* Adding a new element to a finite set, and removing one.
LEMMA CardAdd ==
    ASSUME NEW S, IsFiniteSet(S), NEW x, x \notin S
    PROVE  Cardinality(S \cup {x}) = Cardinality(S) + 1
BY FS_AddElement

LEMMA CardRemove ==
    ASSUME NEW S, IsFiniteSet(S), NEW x \in S
    PROVE  Cardinality(S \ {x}) = Cardinality(S) - 1
BY FS_RemoveElement

\* The two sets are finite, and their cardinalities numbers.
LEMMA SetsFinite ==
    /\ IsFiniteSet(AliveSet) /\ IsFiniteSet(WorkingSet)
    /\ Cardinality(AliveSet) \in 0 .. Cardinality(Handler)
    /\ Cardinality(WorkingSet) \in 0 .. Cardinality(Handler)
<1>1. AliveSet \subseteq Handler /\ WorkingSet \subseteq Handler
  BY DEF AliveSet, WorkingSet
<1>2. IsFiniteSet(Handler)
  BY HandlersAssumption
<1>3. QED
  BY <1>1, <1>2, FS_Subset, FS_CardinalityType

\* The number that the next packet of a handler gets.
LEMMA TrackLength ==
    ASSUME DataOK, NEW h \in Handler
    PROVE  Len(Track(h)) = Len(handled[h]) + (IF held[h] = NoPacket THEN 0 ELSE 1)
                           + Len(queue[h])
<1> DEFINE s == handled[h]
           q == queue[h]
           one == IF held[h] = NoPacket THEN <<>> ELSE <<held[h]>>
<1>1. s \in Seq(Packet) /\ q \in Seq(Packet)
  BY DEF DataOK
<1>2. one \in Seq(Packet) /\ Len(one) = IF held[h] = NoPacket THEN 0 ELSE 1
  BY DEF DataOK
<1>3. Track(h) = s \o one \o q
  BY DEF Track
<1> HIDE DEF s, one, q
<1>4. s \o one \in Seq(Packet) /\ Len(s \o one) = Len(s) + Len(one)
  BY <1>1, <1>2, ConcatProperties
<1>5. Len((s \o one) \o q) = Len(s \o one) + Len(q)
  BY <1>1, <1>4, ConcatProperties
<1>6. QED
  BY <1>2, <1>3, <1>4, <1>5 DEF s, q

\* InOrder says what its parts say.
LEMMA PartsInOrder ==
    ASSUME DataOK, NEW h \in Handler, Numbered(h)
    PROVE  \A i \in DOMAIN Track(h) : Track(h)[i] = i
<1> DEFINE s == handled[h]
           q == queue[h]
           one == IF held[h] = NoPacket THEN <<>> ELSE <<held[h]>>
<1>1. s \in Seq(Packet) /\ q \in Seq(Packet)
  BY DEF DataOK
<1>2. one \in Seq(Packet) /\ Len(one) = IF held[h] = NoPacket THEN 0 ELSE 1
  BY DEF DataOK
<1>3. Track(h) = s \o one \o q
  BY DEF Track
<1>a. \A i \in 1 .. Len(s) : s[i] = i
  BY DEF Numbered
<1>b. \A i \in 1 .. Len(one) : one[i] = Len(s) + i
  <2>1. CASE held[h] = NoPacket
    BY <2>1, <1>2
  <2>2. CASE held[h] # NoPacket
    <3>1. one = <<Len(s) + 1>>
      BY <2>2 DEF Numbered
    <3>2. Len(s) \in Nat
      BY <1>1, LenProperties
    <3> HIDE DEF one, s
    <3>3. QED
      BY <3>1, <3>2
  <2>3. QED
    BY <2>1, <2>2
<1>c. \A i \in 1 .. Len(q) : q[i] = Len(s) + Len(one) + i
  BY <1>2 DEF Numbered
<1>4. /\ \A i \in 1 .. Len(s) : s[i] = i
      /\ \A i \in 1 .. Len(one) : one[i] = Len(s) + i
      /\ \A i \in 1 .. Len(q) : q[i] = Len(s) + Len(one) + i
  BY <1>a, <1>b, <1>c
<1> HIDE DEF s, one, q
<1>5. Len(s) \in Nat /\ Len(one) \in Nat /\ Len(q) \in Nat
  BY <1>1, <1>2, LenProperties
<1>6. /\ s \o one \in Seq(Packet) /\ Len(s \o one) = Len(s) + Len(one)
      /\ \A i \in 1 .. Len(s) + Len(one) :
             (s \o one)[i] = IF i <= Len(s) THEN s[i] ELSE one[i - Len(s)]
  BY <1>1, <1>2, ConcatProperties
<1>7. \A i \in 1 .. Len(s \o one) : (s \o one)[i] = i
  BY <1>4, <1>5, <1>6
<1>8. /\ (s \o one) \o q \in Seq(Packet) /\ Len((s \o one) \o q) = Len(s \o one) + Len(q)
      /\ \A i \in 1 .. Len(s \o one) + Len(q) :
             ((s \o one) \o q)[i] = IF i <= Len(s \o one) THEN (s \o one)[i]
                                    ELSE q[i - Len(s \o one)]
  BY <1>1, <1>6, ConcatProperties
<1>9. \A i \in 1 .. Len((s \o one) \o q) : ((s \o one) \o q)[i] = i
  BY <1>4, <1>5, <1>6, <1>7, <1>8
<1>10. DOMAIN ((s \o one) \o q) = 1 .. Len((s \o one) \o q)
  BY <1>8, LenProperties
<1>11. QED
  BY <1>3, <1>9, <1>10

\* The packet that is given to a handler next.
LEMMA NextPacket ==
    ASSUME DataOK, NEW h \in Handler, Len(Track(h)) < NPackets[h]
    PROVE  Len(Track(h)) + 1 \in Packet
<1>1. Len(handled[h]) \in Nat /\ Len(queue[h]) \in Nat
  BY LenProperties DEF DataOK
<1>2. Len(Track(h)) \in Nat
  BY <1>1, TrackLength
<1>3. NPackets[h] \in Nat
  BY HandlersAssumption
<1>4. Len(Track(h)) + 1 \in 1 .. NPackets[h]
  BY <1>2, <1>3
<1>5. QED
  BY <1>4 DEF Packet

\* A push of a packet gives a sequence of packets.
LEMMA AppendType ==
    ASSUME NEW S, NEW q \in Seq(S), NEW x \in S
    PROVE  Append(q, x) \in Seq(S)
BY AppendProperties

\* Every step keeps the types.
LEMMA DataStep ==
  ASSUME DataOK, \A h \in Handler : Hands(h), [Next]_vars
  PROVE  DataOK'
<1> USE DEF DataOK, PC, Interruptible, counters, queues, work
<1>1. ASSUME NEW h \in Handler, StartApp(h)  PROVE DataOK'
  BY <1>1 DEF StartApp, Main
<1>2. ASSUME NEW h \in Handler, StartAppFails(h)  PROVE DataOK'
  BY <1>2 DEF StartAppFails, Main
<1>3. ASSUME NEW h \in Handler, StartOther(h)  PROVE DataOK'
  BY <1>3 DEF StartOther, Main
<1>4. ASSUME NEW h \in Handler, Push(h)  PROVE DataOK'
  <2>1. Len(Track(h)) + 1 \in Packet
    BY <1>4, NextPacket DEF Push
  <2>2. queue[h] \in Seq(Packet)
    OBVIOUS
  <2>3. Append(queue[h], Len(Track(h)) + 1) \in Seq(Packet)
    BY <2>1, <2>2, AppendType
  <2>4. QED
    BY <1>4, <2>3 DEF Push, Main, PostAll
<1>5. ASSUME NEW h \in Handler, HandleDirectly(h)  PROVE DataOK'
  <2>1. Len(Track(h)) + 1 \in Packet
    BY <1>5, NextPacket DEF HandleDirectly
  <2>2. handled[h] \in Seq(Packet)
    OBVIOUS
  <2>3. Append(handled[h], Len(Track(h)) + 1) \in Seq(Packet)
    BY <2>1, <2>2, AppendType
  <2>4. QED
    BY <1>5, <2>3 DEF HandleDirectly, PostAll
<1>6. ASSUME NEW h \in Handler, MarkAlive(h)  PROVE DataOK'
  BY <1>6 DEF MarkAlive, Goto
<1>7. ASSUME NEW h \in Handler, TestLoop(h)  PROVE DataOK'
  BY <1>7 DEF TestLoop, Goto
<1>8. ASSUME NEW h \in Handler, Wait(h)  PROVE DataOK'
  BY <1>8 DEF Wait, Goto
<1>9. ASSUME NEW h \in Handler, TestAwake(h)  PROVE DataOK'
  BY <1>9 DEF TestAwake, Goto
<1>10. ASSUME NEW h \in Handler, MarkWorking(h)  PROVE DataOK'
  BY <1>10 DEF MarkWorking, Goto
<1>11. ASSUME NEW h \in Handler, Pull(h)  PROVE DataOK'
  BY <1>11 DEF Pull, Goto, PostAll
<1>12. ASSUME NEW h \in Handler, Handle(h)  PROVE DataOK'
  <2>1. handled[h] \in Seq(Packet) /\ held[h] \in Packet
    BY <1>12 DEF Handle, Goto, Hands
  <2>2. Append(handled[h], held[h]) \in Seq(Packet)
    BY <2>1, AppendType
  <2>3. QED
    BY <1>12, <2>2 DEF Handle, Goto
<1>13. ASSUME NEW h \in Handler, MarkIdle(h)  PROVE DataOK'
  BY <1>13 DEF MarkIdle, Goto
<1>14. ASSUME NEW h \in Handler, MarkDead(h)  PROVE DataOK'
  BY <1>14 DEF MarkDead, Goto
<1>15. ASSUME NEW h \in Handler, LastUnlock(h)  PROVE DataOK'
  BY <1>15 DEF LastUnlock, Goto
<1>16. ASSUME NEW h \in Handler, UseFreed(h)  PROVE DataOK'
  BY <1>16 DEF UseFreed, Goto
<1>17. ASSUME AppsStarted  PROVE DataOK'
  BY <1>17 DEF AppsStarted, Main
<1>18. ASSUME SpinEnds  PROVE DataOK'
  BY <1>18 DEF SpinEnds, Main
<1>19. ASSUME SpinHangs  PROVE DataOK'
  BY <1>19 DEF SpinHangs, Main
<1>20. ASSUME StartReturns  PROVE DataOK'
  BY <1>20 DEF StartReturns, Main
<1>21. ASSUME PollFails  PROVE DataOK'
  BY <1>21 DEF PollFails, Main
<1>22. ASSUME Teardown  PROVE DataOK'
  BY <1>22 DEF Teardown, Main
<1>23. ASSUME Shutdown  PROVE DataOK'
  BY <1>23 DEF Shutdown, Main
<1>24. ASSUME PostApps  PROVE DataOK'
  BY <1>24 DEF PostApps, Main, PostAll
<1>25. ASSUME AppsGone  PROVE DataOK'
  BY <1>25 DEF AppsGone, Main
<1>26. ASSUME StopApp  PROVE DataOK'
  BY <1>26 DEF StopApp, Main, PostAll
<1>27. ASSUME StopOthers  PROVE DataOK'
  BY <1>27 DEF StopOthers, Main, PostAll
<1>28. ASSUME StopAll  PROVE DataOK'
  BY <1>28 DEF StopAll, Main, PostAll
<1>29. ASSUME AllGone  PROVE DataOK'
  BY <1>29 DEF AllGone, Main
<1>30. ASSUME Delete  PROVE DataOK'
  BY <1>30 DEF Delete, Main
<1>31. ASSUME UNCHANGED vars  PROVE DataOK'
  BY <1>31 DEF vars
<1>32. QED
  BY <1>1, <1>2, <1>3, <1>4, <1>5, <1>6, <1>7, <1>8, <1>9, <1>10,
     <1>11, <1>12, <1>13, <1>14, <1>15, <1>16, <1>17, <1>18, <1>19, <1>20,
     <1>21, <1>22, <1>23, <1>24, <1>25, <1>26, <1>27, <1>28, <1>29, <1>30,
     <1>31
  DEF Next, HandlerThread, Starting, TearingDown


\* The two sets stay when no thread goes on.
LEMMA SameSets ==
    ASSUME UNCHANGED pc  PROVE AliveSet' = AliveSet /\ WorkingSet' = WorkingSet
BY DEF AliveSet, WorkingSet

\* A counter that follows its set by one.
LEMMA CountFollows ==
    ASSUME NEW S \in SUBSET Handler, NEW T \in SUBSET Handler, NEW n, NEW m, n = Cardinality(S),
           \/ m = n /\ T = S
           \/ m = n + 1 /\ \E h \in Handler \ S : T = S \cup {h}
           \/ m = n - 1 /\ \E h \in S : T = S \ {h}
    PROVE  m = Cardinality(T) /\ m \in 0 .. Cardinality(Handler)
<1>1. /\ IsFiniteSet(S) /\ Cardinality(S) \in Nat
      /\ IsFiniteSet(T) /\ Cardinality(T) \in Nat /\ Cardinality(T) <= Cardinality(Handler)
      /\ Cardinality(Handler) \in Nat
  BY HandlersAssumption, FS_Subset, FS_CardinalityType
<1>2. ASSUME NEW h \in Handler \ S, T = S \cup {h}  PROVE Cardinality(T) = Cardinality(S) + 1
  BY <1>1, <1>2, CardAdd
<1>3. ASSUME NEW h \in S, T = S \ {h}  PROVE Cardinality(T) = Cardinality(S) - 1
  BY <1>1, <1>3, CardRemove
<1>4. m = Cardinality(T)
  BY <1>2, <1>3
<1>5. QED
  BY <1>1, <1>4

\* The counters are changed together with what they count.
LEMMA CountersFollow ==
    ASSUME CountersExact, Exists, Exists' => Exists,
           \/ alive' = alive /\ AliveSet' = AliveSet
           \/ alive' = alive + 1 /\ \E h \in Handler \ AliveSet : AliveSet' = AliveSet \cup {h}
           \/ alive' = alive - 1 /\ \E h \in AliveSet : AliveSet' = AliveSet \ {h},
           \/ working' = working /\ WorkingSet' = WorkingSet
           \/ /\ working' = working + 1
              /\ \E h \in Handler \ WorkingSet : WorkingSet' = WorkingSet \cup {h}
           \/ working' = working - 1 /\ \E h \in WorkingSet : WorkingSet' = WorkingSet \ {h}
    PROVE  CountersExact'
<1>1. /\ AliveSet \in SUBSET Handler /\ AliveSet' \in SUBSET Handler
      /\ WorkingSet \in SUBSET Handler /\ WorkingSet' \in SUBSET Handler
  BY DEF AliveSet, WorkingSet
<1>2. alive = Cardinality(AliveSet) /\ working = Cardinality(WorkingSet)
  BY DEF CountersExact
<1>3. alive' = Cardinality(AliveSet') /\ alive' \in 0 .. Cardinality(Handler)
  BY <1>1, <1>2, CountFollows
<1>4. working' = Cardinality(WorkingSet') /\ working' \in 0 .. Cardinality(Handler)
  BY <1>1, <1>2, CountFollows
<1>5. QED
  BY <1>3, <1>4 DEF CountersExact

\* The counters stay exact when neither they nor the threads move.
LEMMA CountersStay ==
    ASSUME CountersExact, UNCHANGED <<alive, working, pc>>, Exists' => Exists
    PROVE  CountersExact'
BY SameSets DEF CountersExact

\* The steps in which a thread goes on, and what the others leave alone.
LEMMA ThreadsMove ==
    ASSUME [Next]_vars
    PROVE  \/ \E h \in Handler : StartApp(h) \/ StartAppFails(h) \/ StartOther(h) \/ MarkAlive(h)
                  \/ TestLoop(h) \/ Wait(h) \/ TestAwake(h) \/ MarkWorking(h)
                  \/ Pull(h) \/ Handle(h) \/ MarkIdle(h) \/ MarkDead(h)
                  \/ LastUnlock(h)
           \/ UNCHANGED <<alive, working, pc>> /\ (Exists' => Exists)
           \/ UNCHANGED <<alive, working, pcM>> /\ ~ Exists
BY DEF Next, vars, HandlerThread, Starting, TearingDown, Goto, Main, counters,
       queues, work, Push, HandleDirectly, UseFreed, AppsStarted, SpinEnds, SpinHangs,
       StartReturns, PollFails, Teardown, Shutdown, PostApps, AppsGone, StopApp, StopOthers,
       StopAll, AllGone, Delete, Exists, Interruptible

\* Every step keeps the counters exact while the cerver exists.
LEMMA CountersStep ==
  ASSUME DataOK, CountersExact, [Next]_vars
  PROVE  CountersExact'
<1> USE DEF Counted
<1>1. ASSUME NEW h \in Handler, StartApp(h)  PROVE CountersExact'
  <2>1. pc' = [pc EXCEPT ![h] = "born"]
    BY <1>1 DEF StartApp, Main
  <2>2. h \notin AliveSet /\ h \notin WorkingSet
    BY <1>1 DEF StartApp, Main, AliveSet, WorkingSet
  <2>3. AliveSet' = AliveSet /\ WorkingSet' = WorkingSet
    BY <1>1, <2>1 DEF StartApp, Main, DataOK, AliveSet, WorkingSet
  <2>4. QED
    BY <1>1, <2>2, <2>3, CountersFollow DEF StartApp, Main, counters, Exists
<1>2. ASSUME NEW h \in Handler, StartAppFails(h)  PROVE CountersExact'
  <2>1. pc' = [pc EXCEPT ![h] = "failed"]
    BY <1>2 DEF StartAppFails, Main
  <2>2. h \notin AliveSet /\ h \notin WorkingSet
    BY <1>2 DEF StartAppFails, Main, AliveSet, WorkingSet
  <2>3. AliveSet' = AliveSet /\ WorkingSet' = WorkingSet
    BY <1>2, <2>1 DEF StartAppFails, Main, DataOK, AliveSet, WorkingSet
  <2>4. QED
    BY <1>2, <2>2, <2>3, CountersFollow DEF StartAppFails, Main, counters, Exists
<1>3. ASSUME NEW h \in Handler, StartOther(h)  PROVE CountersExact'
  <2>1. PICK to \in {"born", "failed"} : pc' = [pc EXCEPT ![h] = to]
    BY <1>3 DEF StartOther
  <2>2. pc[h] = "unborn"
    BY <1>3 DEF StartOther
  <2>3. AliveSet' = AliveSet /\ WorkingSet' = WorkingSet
    BY <1>3, <2>1, <2>2 DEF StartOther, Main, DataOK, AliveSet, WorkingSet
  <2>4. QED
    BY <1>3, <2>3, CountersFollow DEF StartOther, Main, counters, Exists
<1>4. ASSUME NEW h \in Handler, MarkAlive(h)  PROVE CountersExact'
  <2>1. pc' = [pc EXCEPT ![h] = "loop"]
    BY <1>4 DEF MarkAlive, Goto
  <2>2. h \notin AliveSet /\ h \notin WorkingSet
    BY <1>4 DEF MarkAlive, Goto, AliveSet, WorkingSet
  <2>3. AliveSet' = AliveSet \cup {h} /\ WorkingSet' = WorkingSet
    BY <1>4, <2>1 DEF MarkAlive, Goto, DataOK, AliveSet, WorkingSet
  <2>4. QED
    BY <1>4, <2>2, <2>3, CountersFollow DEF MarkAlive, Goto, counters, Exists
<1>5. ASSUME NEW h \in Handler, TestLoop(h)  PROVE CountersExact'
  <2>1. pc' = [pc EXCEPT ![h] = IF isRunning THEN "wait" ELSE "leave"]
    BY <1>5 DEF TestLoop, Goto
  <2>2. h \in AliveSet /\ h \notin WorkingSet
    BY <1>5 DEF TestLoop, Goto, AliveSet, WorkingSet
  <2>3. AliveSet' = AliveSet /\ WorkingSet' = WorkingSet
    BY <1>5, <2>1 DEF TestLoop, Goto, DataOK, AliveSet, WorkingSet
  <2>4. QED
    BY <1>5, <2>2, <2>3, CountersFollow DEF TestLoop, Goto, counters, Exists
<1>6. ASSUME NEW h \in Handler, Wait(h)  PROVE CountersExact'
  <2>1. pc' = [pc EXCEPT ![h] = "awake"]
    BY <1>6 DEF Wait, Goto
  <2>2. h \in AliveSet /\ h \notin WorkingSet
    BY <1>6 DEF Wait, Goto, AliveSet, WorkingSet
  <2>3. AliveSet' = AliveSet /\ WorkingSet' = WorkingSet
    BY <1>6, <2>1 DEF Wait, Goto, DataOK, AliveSet, WorkingSet
  <2>4. QED
    BY <1>6, <2>2, <2>3, CountersFollow DEF Wait, Goto, counters, Exists
<1>7. ASSUME NEW h \in Handler, TestAwake(h)  PROVE CountersExact'
  <2>1. pc' = [pc EXCEPT ![h] = IF isRunning THEN "count" ELSE "loop"]
    BY <1>7 DEF TestAwake, Goto
  <2>2. h \in AliveSet /\ h \notin WorkingSet
    BY <1>7 DEF TestAwake, Goto, AliveSet, WorkingSet
  <2>3. AliveSet' = AliveSet /\ WorkingSet' = WorkingSet
    BY <1>7, <2>1 DEF TestAwake, Goto, DataOK, AliveSet, WorkingSet
  <2>4. QED
    BY <1>7, <2>2, <2>3, CountersFollow DEF TestAwake, Goto, counters, Exists
<1>8. ASSUME NEW h \in Handler, MarkWorking(h)  PROVE CountersExact'
  <2>1. pc' = [pc EXCEPT ![h] = "pull"]
    BY <1>8 DEF MarkWorking, Goto
  <2>2. h \in AliveSet /\ h \notin WorkingSet
    BY <1>8 DEF MarkWorking, Goto, AliveSet, WorkingSet
  <2>3. AliveSet' = AliveSet /\ WorkingSet' = WorkingSet \cup {h}
    BY <1>8, <2>1 DEF MarkWorking, Goto, DataOK, AliveSet, WorkingSet
  <2>4. QED
    BY <1>8, <2>2, <2>3, CountersFollow DEF MarkWorking, Goto, counters, Exists
<1>9. ASSUME NEW h \in Handler, Pull(h)  PROVE CountersExact'
  <2>1. pc' = [pc EXCEPT ![h] = "work"]
    BY <1>9 DEF Pull, Goto
  <2>2. h \in AliveSet /\ h \in WorkingSet
    BY <1>9 DEF Pull, Goto, AliveSet, WorkingSet
  <2>3. AliveSet' = AliveSet /\ WorkingSet' = WorkingSet
    BY <1>9, <2>1 DEF Pull, Goto, DataOK, AliveSet, WorkingSet
  <2>4. QED
    BY <1>9, <2>2, <2>3, CountersFollow DEF Pull, Goto, counters, Exists
<1>10. ASSUME NEW h \in Handler, Handle(h)  PROVE CountersExact'
  <2>1. pc' = [pc EXCEPT ![h] = "worked"]
    BY <1>10 DEF Handle, Goto
  <2>2. h \in AliveSet /\ h \in WorkingSet
    BY <1>10 DEF Handle, Goto, AliveSet, WorkingSet
  <2>3. AliveSet' = AliveSet /\ WorkingSet' = WorkingSet
    BY <1>10, <2>1 DEF Handle, Goto, DataOK, AliveSet, WorkingSet
  <2>4. QED
    BY <1>10, <2>2, <2>3, CountersFollow DEF Handle, Goto, counters, Exists
<1>11. ASSUME NEW h \in Handler, MarkIdle(h)  PROVE CountersExact'
  <2>1. pc' = [pc EXCEPT ![h] = "loop"]
    BY <1>11 DEF MarkIdle, Goto
  <2>2. h \in AliveSet /\ h \in WorkingSet
    BY <1>11 DEF MarkIdle, Goto, AliveSet, WorkingSet
  <2>3. AliveSet' = AliveSet /\ WorkingSet' = WorkingSet \ {h}
    BY <1>11, <2>1 DEF MarkIdle, Goto, DataOK, AliveSet, WorkingSet
  <2>4. QED
    BY <1>11, <2>2, <2>3, CountersFollow DEF MarkIdle, Goto, counters, Exists
<1>12. ASSUME NEW h \in Handler, MarkDead(h)  PROVE CountersExact'
  <2>1. pc' = [pc EXCEPT ![h] = "unlock"]
    BY <1>12 DEF MarkDead, Goto
  <2>2. h \in AliveSet /\ h \notin WorkingSet
    BY <1>12 DEF MarkDead, Goto, AliveSet, WorkingSet
  <2>3. AliveSet' = AliveSet \ {h} /\ WorkingSet' = WorkingSet
    BY <1>12, <2>1 DEF MarkDead, Goto, DataOK, AliveSet, WorkingSet
  <2>4. QED
    BY <1>12, <2>2, <2>3, CountersFollow DEF MarkDead, Goto, counters, Exists
<1>13. ASSUME NEW h \in Handler, LastUnlock(h)  PROVE CountersExact'
  <2>1. pc' = [pc EXCEPT ![h] = "gone"]
    BY <1>13 DEF LastUnlock, Goto
  <2>2. h \notin AliveSet /\ h \notin WorkingSet
    BY <1>13 DEF LastUnlock, Goto, AliveSet, WorkingSet
  <2>3. AliveSet' = AliveSet /\ WorkingSet' = WorkingSet
    BY <1>13, <2>1 DEF LastUnlock, Goto, DataOK, AliveSet, WorkingSet
  <2>4. QED
    BY <1>13, <2>2, <2>3, CountersFollow DEF LastUnlock, Goto, counters, Exists
<1>14. ASSUME UNCHANGED <<alive, working, pc>>, Exists' => Exists  PROVE CountersExact'
  BY <1>14, CountersStay
<1>15. ASSUME UNCHANGED <<alive, working, pcM>>, ~ Exists  PROVE CountersExact'
  BY <1>15 DEF CountersExact, Exists
<1>16. QED
  BY <1>1, <1>2, <1>3, <1>4, <1>5, <1>6, <1>7, <1>8, <1>9, <1>10,
     <1>11, <1>12, <1>13, <1>14, <1>15, ThreadsMove


\* What is given of a configuration.
LEMMA ConfigFacts ==
    ASSUME DataOK
    PROVE  /\ config.multiple \in BOOLEAN
           /\ config.app \in SUBSET Handler /\ config.other \in SUBSET Handler
           /\ config.app \cap config.other = {}
BY HandlersAssumption DEF DataOK, ConfigType

\* When as many threads as there are app handlers are alive, and none of another
\* kind, these are the app handlers; and none when the counter is 0.
LEMMA AllAlive ==
    ASSUME DataOK, CountersExact, Exists, alive = Cardinality(config.app),
           \A h \in Handler \ config.app : pc[h] = "unborn"
    PROVE  \A h \in config.app : pc[h] \in Counted
<1>1. AliveSet \subseteq config.app
  BY DEF AliveSet, Counted
<1>2. IsFiniteSet(config.app)
  BY ConfigFacts, HandlersAssumption, FS_Subset
<1>3. AliveSet = config.app
  BY <1>1, <1>2, FS_Subset DEF CountersExact
<1>4. QED
  BY <1>3 DEF AliveSet

\* With the counter at 0 no thread is alive.
LEMMA NoneAlive ==
    ASSUME CountersExact, Exists, alive = 0
    PROVE  \A h \in Handler : pc[h] \notin Counted
<1>1. AliveSet = {}
  BY SetsFinite, FS_EmptySet DEF CountersExact
<1>2. QED
  BY <1>1 DEF AliveSet

\* Every step keeps what the main thread knows.
LEMMA FlowStep ==
  ASSUME DataOK, CountersExact, Flow, \A h \in Handler : Hands(h), [Next]_vars
  PROVE  Flow'
<1> USE DEF DataOK, Flow, Interruptible, counters, queues, work, Exists
<1>1. ASSUME NEW h \in Handler, StartApp(h)  PROVE Flow'
  BY <1>1, ConfigFacts DEF StartApp, Main, Counted
<1>2. ASSUME NEW h \in Handler, StartAppFails(h)  PROVE Flow'
  BY <1>2, ConfigFacts DEF StartAppFails, Main, Counted
<1>3. ASSUME NEW h \in Handler, StartOther(h)  PROVE Flow'
  BY <1>3, ConfigFacts DEF StartOther, Main, Counted
<1>4. ASSUME NEW h \in Handler, Push(h)  PROVE Flow'
  BY <1>4 DEF Push, Main, Counted
<1>5. ASSUME NEW h \in Handler, HandleDirectly(h)  PROVE Flow'
  BY <1>5 DEF HandleDirectly, Counted
<1>6. ASSUME NEW h \in Handler, MarkAlive(h)  PROVE Flow'
  BY <1>6 DEF MarkAlive, Goto, Counted
<1>7. ASSUME NEW h \in Handler, TestLoop(h)  PROVE Flow'
  BY <1>7 DEF TestLoop, Goto, Counted
<1>8. ASSUME NEW h \in Handler, Wait(h)  PROVE Flow'
  BY <1>8 DEF Wait, Goto, Counted
<1>9. ASSUME NEW h \in Handler, TestAwake(h)  PROVE Flow'
  BY <1>9 DEF TestAwake, Goto, Counted
<1>10. ASSUME NEW h \in Handler, MarkWorking(h)  PROVE Flow'
  BY <1>10 DEF MarkWorking, Goto, Counted
<1>11. ASSUME NEW h \in Handler, Pull(h)  PROVE Flow'
  BY <1>11 DEF Pull, Goto, Counted
<1>12. ASSUME NEW h \in Handler, Handle(h)  PROVE Flow'
  BY <1>12 DEF Handle, Goto, Counted
<1>13. ASSUME NEW h \in Handler, MarkIdle(h)  PROVE Flow'
  BY <1>13 DEF MarkIdle, Goto, Counted
<1>14. ASSUME NEW h \in Handler, MarkDead(h)  PROVE Flow'
  BY <1>14 DEF MarkDead, Goto, Counted
<1>15. ASSUME NEW h \in Handler, LastUnlock(h)  PROVE Flow'
  BY <1>15 DEF LastUnlock, Goto, Counted
<1>16. ASSUME NEW h \in Handler, UseFreed(h)  PROVE Flow'
  BY <1>16 DEF UseFreed, Goto, Counted
<1>17. ASSUME AppsStarted  PROVE Flow'
  BY <1>17 DEF AppsStarted, Main, Counted
<1>18. ASSUME SpinEnds  PROVE Flow'
  <2>1. \A h \in config.app : pc[h] \in Counted
    BY <1>18, AllAlive DEF SpinEnds, Main, Exists
  <2>2. QED
    BY <1>18, <2>1 DEF SpinEnds, Main
<1>19. ASSUME SpinHangs  PROVE Flow'
  BY <1>19 DEF SpinHangs, Main, Counted
<1>20. ASSUME StartReturns  PROVE Flow'
  BY <1>20, ConfigFacts DEF StartReturns, Main, Counted
<1>21. ASSUME PollFails  PROVE Flow'
  BY <1>21 DEF PollFails, Main, Counted
<1>22. ASSUME Teardown  PROVE Flow'
  BY <1>22 DEF Teardown, Main, Counted
<1>23. ASSUME Shutdown  PROVE Flow'
  BY <1>23 DEF Shutdown, Main, Counted
<1>24. ASSUME PostApps  PROVE Flow'
  BY <1>24 DEF PostApps, Main, Counted
<1>25. ASSUME AppsGone  PROVE Flow'
  BY <1>25 DEF AppsGone, Main, Counted
<1>26. ASSUME StopApp  PROVE Flow'
  BY <1>26 DEF StopApp, Main, Counted
<1>27. ASSUME StopOthers  PROVE Flow'
  BY <1>27 DEF StopOthers, Main, Counted
<1>28. ASSUME StopAll  PROVE Flow'
  BY <1>28 DEF StopAll, Main, Counted
<1>29. ASSUME AllGone  PROVE Flow'
  <2>1. \A h \in Handler : pc[h] \notin Counted
    BY <1>29, NoneAlive DEF AllGone, Main, Exists
  <2>2. QED
    BY <1>29, <2>1 DEF AllGone, Main, Counted
<1>30. ASSUME Delete  PROVE Flow'
  BY <1>30 DEF Delete, Main, Counted
<1>31. ASSUME UNCHANGED vars  PROVE Flow'
  BY <1>31 DEF vars, Counted
<1>32. QED
  BY <1>1, <1>2, <1>3, <1>4, <1>5, <1>6, <1>7, <1>8, <1>9, <1>10,
     <1>11, <1>12, <1>13, <1>14, <1>15, <1>16, <1>17, <1>18, <1>19, <1>20,
     <1>21, <1>22, <1>23, <1>24, <1>25, <1>26, <1>27, <1>28, <1>29, <1>30,
     <1>31
  DEF Next, HandlerThread, Starting, TearingDown


\* The queue after a push, and after a pull.
LEMMA PushMoves ==
    ASSUME NEW q \in Seq(Packet), NEW p \in Packet
    PROVE  Append(q, p) # <<>> /\ (q # <<>> => Len(Append(q, p)) > 1)
BY AppendProperties, EmptySeq, LenProperties

\* A queue that is not empty loses its head; one of two or more keeps a packet.
LEMMA PullMoves ==
    ASSUME NEW q \in Seq(Packet), q # <<>>
    PROVE  /\ Len(q) \in Nat \ {0} /\ Head(q) = q[1] /\ Head(q) \in Packet
           /\ Len(Tail(q)) = Len(q) - 1
           /\ Len(q) > 1 => Tail(q) # <<>>
           /\ \A i \in 1 .. Len(q) - 1 : Tail(q)[i] = q[i + 1]
<1>1. Len(q) \in Nat \ {0}
  BY EmptySeq, LenProperties
<1>2. Head(q) = q[1]
  BY <1>1
<1>3. /\ Head(q) \in Packet /\ Len(Tail(q)) = Len(q) - 1
      /\ \A i \in 1 .. Len(Tail(q)) : Tail(q)[i] = q[i + 1]
  BY HeadTailProperties
<1>4. Len(q) > 1 => Tail(q) # <<>>
  BY <1>1, <1>3, EmptySeq
<1>5. QED
  BY <1>1, <1>2, <1>3, <1>4

\* The mark of a thread that has no packet is not a packet.
LEMMA PacketIsSome == NoPacket \notin Packet
BY DEF NoPacket, Packet

\* Every step keeps what the threads know.
LEMMA HandsStep ==
  ASSUME DataOK, Flow, \A h \in Handler : Hands(h), [Next]_vars
  PROVE  \A g \in Handler : Hands(g)'
<1> USE DEF DataOK, Flow, Hands, Queued, Interruptible, counters, queues, work, Exists
<1>1. ASSUME NEW h \in Handler, StartApp(h)  PROVE \A g \in Handler : Hands(g)'
  BY <1>1 DEF StartApp, Main
<1>2. ASSUME NEW h \in Handler, StartAppFails(h)  PROVE \A g \in Handler : Hands(g)'
  BY <1>2 DEF StartAppFails, Main
<1>3. ASSUME NEW h \in Handler, StartOther(h)  PROVE \A g \in Handler : Hands(g)'
  BY <1>3 DEF StartOther, Main
<1>4. ASSUME NEW h \in Handler, Push(h)  PROVE \A g \in Handler : Hands(g)'
  <2> SUFFICES ASSUME NEW g \in Handler  PROVE Hands(g)'
    OBVIOUS
  <2>1. queue[h] \in Seq(Packet) /\ Len(Track(h)) + 1 \in Packet
    BY <1>4, NextPacket DEF Push
  <2>2. /\ Append(queue[h], Len(Track(h)) + 1) # <<>>
        /\ queue[h] # <<>> => Len(Append(queue[h], Len(Track(h)) + 1)) > 1
    BY <2>1, PushMoves
  <2>3. QED
    BY <1>4, <2>2 DEF Push, Main, PostAll
<1>5. ASSUME NEW h \in Handler, HandleDirectly(h)  PROVE \A g \in Handler : Hands(g)'
  BY <1>5 DEF HandleDirectly
<1>6. ASSUME NEW h \in Handler, MarkAlive(h)  PROVE \A g \in Handler : Hands(g)'
  BY <1>6 DEF MarkAlive, Goto
<1>7. ASSUME NEW h \in Handler, TestLoop(h)  PROVE \A g \in Handler : Hands(g)'
  BY <1>7 DEF TestLoop, Goto
<1>8. ASSUME NEW h \in Handler, Wait(h)  PROVE \A g \in Handler : Hands(g)'
  BY <1>8 DEF Wait, Goto
<1>9. ASSUME NEW h \in Handler, TestAwake(h)  PROVE \A g \in Handler : Hands(g)'
  BY <1>9 DEF TestAwake, Goto
<1>10. ASSUME NEW h \in Handler, MarkWorking(h)  PROVE \A g \in Handler : Hands(g)'
  BY <1>10 DEF MarkWorking, Goto
<1>11. ASSUME NEW h \in Handler, Pull(h)  PROVE \A g \in Handler : Hands(g)'
  <2> SUFFICES ASSUME NEW g \in Handler  PROVE Hands(g)'
    OBVIOUS
  <2>1. queue[h] \in Seq(Packet) /\ queue[h] # <<>>
    BY <1>11 DEF Pull
  <2>2. Head(queue[h]) \in Packet /\ (Len(queue[h]) > 1 => Tail(queue[h]) # <<>>)
    BY <2>1, PullMoves
  <2>3. QED
    BY <1>11, <2>1, <2>2, PacketIsSome DEF Pull, Goto, PostAll
<1>12. ASSUME NEW h \in Handler, Handle(h)  PROVE \A g \in Handler : Hands(g)'
  BY <1>12 DEF Handle, Goto
<1>13. ASSUME NEW h \in Handler, MarkIdle(h)  PROVE \A g \in Handler : Hands(g)'
  BY <1>13 DEF MarkIdle, Goto
<1>14. ASSUME NEW h \in Handler, MarkDead(h)  PROVE \A g \in Handler : Hands(g)'
  BY <1>14 DEF MarkDead, Goto
<1>15. ASSUME NEW h \in Handler, LastUnlock(h)  PROVE \A g \in Handler : Hands(g)'
  BY <1>15 DEF LastUnlock, Goto
<1>16. ASSUME NEW h \in Handler, UseFreed(h)  PROVE \A g \in Handler : Hands(g)'
  BY <1>16 DEF UseFreed, Goto
<1>17. ASSUME AppsStarted  PROVE \A g \in Handler : Hands(g)'
  BY <1>17 DEF AppsStarted, Main
<1>18. ASSUME SpinEnds  PROVE \A g \in Handler : Hands(g)'
  BY <1>18 DEF SpinEnds, Main
<1>19. ASSUME SpinHangs  PROVE \A g \in Handler : Hands(g)'
  BY <1>19 DEF SpinHangs, Main
<1>20. ASSUME StartReturns  PROVE \A g \in Handler : Hands(g)'
  BY <1>20 DEF StartReturns, Main
<1>21. ASSUME PollFails  PROVE \A g \in Handler : Hands(g)'
  BY <1>21 DEF PollFails, Main
<1>22. ASSUME Teardown  PROVE \A g \in Handler : Hands(g)'
  BY <1>22 DEF Teardown, Main
<1>23. ASSUME Shutdown  PROVE \A g \in Handler : Hands(g)'
  BY <1>23 DEF Shutdown, Main
<1>24. ASSUME PostApps  PROVE \A g \in Handler : Hands(g)'
  BY <1>24 DEF PostApps, Main, PostAll
<1>25. ASSUME AppsGone  PROVE \A g \in Handler : Hands(g)'
  BY <1>25 DEF AppsGone, Main
<1>26. ASSUME StopApp  PROVE \A g \in Handler : Hands(g)'
  BY <1>26 DEF StopApp, Main, PostAll
<1>27. ASSUME StopOthers  PROVE \A g \in Handler : Hands(g)'
  BY <1>27 DEF StopOthers, Main, PostAll
<1>28. ASSUME StopAll  PROVE \A g \in Handler : Hands(g)'
  BY <1>28 DEF StopAll, Main, PostAll
<1>29. ASSUME AllGone  PROVE \A g \in Handler : Hands(g)'
  BY <1>29 DEF AllGone, Main
<1>30. ASSUME Delete  PROVE \A g \in Handler : Hands(g)'
  BY <1>30 DEF Delete, Main
<1>31. ASSUME UNCHANGED vars  PROVE \A g \in Handler : Hands(g)'
  BY <1>31 DEF vars
<1>32. QED
  BY <1>1, <1>2, <1>3, <1>4, <1>5, <1>6, <1>7, <1>8, <1>9, <1>10,
     <1>11, <1>12, <1>13, <1>14, <1>15, <1>16, <1>17, <1>18, <1>19, <1>20,
     <1>21, <1>22, <1>23, <1>24, <1>25, <1>26, <1>27, <1>28, <1>29, <1>30,
     <1>31
  DEF Next, HandlerThread, Starting, TearingDown


\* A sequence of consecutive numbers after a push and after a pull.
LEMMA PushNumbers ==
    ASSUME NEW q \in Seq(Packet), NEW m \in Nat, m + Len(q) + 1 \in Packet,
           \A i \in 1 .. Len(q) : q[i] = m + i
    PROVE  /\ Len(Append(q, m + Len(q) + 1)) = Len(q) + 1
           /\ \A i \in 1 .. Len(q) + 1 : Append(q, m + Len(q) + 1)[i] = m + i
<1> DEFINE r == Append(q, m + Len(q) + 1)
<1>1. /\ Len(r) = Len(q) + 1
      /\ \A i \in 1 .. Len(q) : r[i] = q[i]
      /\ r[Len(q) + 1] = m + Len(q) + 1
  BY AppendProperties
<1>2. Len(q) \in Nat
  BY LenProperties
<1> HIDE DEF r
<1>3. ASSUME NEW i \in 1 .. Len(q) + 1  PROVE r[i] = m + i
  BY <1>1, <1>2
<1>4. QED
  BY <1>1, <1>3 DEF r

\* A sequence of consecutive numbers without its head starts at the next one.
LEMMA PullNumbers ==
    ASSUME NEW q \in Seq(Packet), q # <<>>, NEW m \in Nat, \A i \in 1 .. Len(q) : q[i] = m + i
    PROVE  /\ Head(q) = m + 1
           /\ \A i \in 1 .. Len(Tail(q)) : Tail(q)[i] = m + 1 + i
<1>1. /\ Len(q) \in Nat \ {0} /\ Head(q) = q[1] /\ Len(Tail(q)) = Len(q) - 1
      /\ \A i \in 1 .. Len(q) - 1 : Tail(q)[i] = q[i + 1]
  BY PullMoves
<1>2. Head(q) = m + 1
  BY <1>1
<1>3. ASSUME NEW i \in 1 .. Len(q) - 1  PROVE Tail(q)[i] = m + 1 + i
  <2>1. i + 1 \in 1 .. Len(q)
    BY <1>1
  <2>2. Tail(q)[i] = m + (i + 1)
    BY <1>1, <2>1
  <2>3. QED
    BY <2>2
<1>4. QED
  BY <1>1, <1>2, <1>3

\* The numbers of a handler after each of the steps that move its packets.
LEMMA NumberedPush ==
    ASSUME DataOK, NEW h \in Handler, Numbered(h), Len(Track(h)) + 1 \in Packet,
           queue'[h] = Append(queue[h], Len(Track(h)) + 1), held'[h] = held[h],
           handled'[h] = handled[h]
    PROVE  Numbered(h)'
<1>1. PICK q \in Seq(Packet), n \in Nat : q = queue[h] /\ n = Len(handled[h])
  BY LenProperties DEF DataOK
<1>2. PICK k \in {0, 1} : k = IF held[h] = NoPacket THEN 0 ELSE 1
  OBVIOUS
<1>3. PICK m \in Nat : m = n + k
  OBVIOUS
<1>4. Len(Track(h)) = m + Len(q)
  BY <1>1, <1>2, <1>3, TrackLength
<1>5. \A i \in 1 .. Len(q) : q[i] = m + i
  BY <1>1, <1>2, <1>3 DEF Numbered
<1>6. queue'[h] = Append(q, m + Len(q) + 1) /\ m + Len(q) + 1 \in Packet
  BY <1>1, <1>4
<1>7. \A i \in 1 .. Len(queue'[h]) : queue'[h][i] = m + i
  BY <1>5, <1>6, PushNumbers
<1>8. Len(handled'[h]) = n /\ k = IF held'[h] = NoPacket THEN 0 ELSE 1
  BY <1>1, <1>2
<1>9. \A i \in 1 .. Len(queue'[h]) :
          queue'[h][i] = Len(handled'[h]) + (IF held'[h] = NoPacket THEN 0 ELSE 1) + i
  BY <1>3, <1>7, <1>8
<1>10. QED
  BY <1>9 DEF Numbered

\* The numbers after a pull by the thread.
LEMMA NumberedPull ==
    ASSUME DataOK, NEW h \in Handler, Numbered(h), queue[h] # <<>>, held[h] = NoPacket,
           queue'[h] = Tail(queue[h]), held'[h] = Head(queue[h]), handled'[h] = handled[h]
    PROVE  Numbered(h)'
<1>1. PICK q \in Seq(Packet), n \in Nat : q = queue[h] /\ n = Len(handled[h])
  BY LenProperties DEF DataOK
<1>a. \A i \in 1 .. Len(q) : q[i] = n + 0 + i
  BY <1>1 DEF Numbered
<1>2. \A i \in 1 .. Len(q) : q[i] = n + i
  BY <1>a
<1>3. held'[h] \in Packet
  BY <1>1, PullMoves
<1>4. /\ held'[h] = n + 1
      /\ \A i \in 1 .. Len(queue'[h]) : queue'[h][i] = n + 1 + i
  BY <1>1, <1>2, PullNumbers
<1>5. held'[h] # NoPacket
  BY <1>3, PacketIsSome
<1>6. QED
  BY <1>1, <1>4, <1>5 DEF Numbered

\* The numbers after the packet is handled, by the thread or directly.
LEMMA NumberedHandle ==
    ASSUME DataOK, NEW h \in Handler, Numbered(h), NEW p \in Packet, p = Len(handled[h]) + 1,
           held[h] \in {p, NoPacket}, held[h] = NoPacket => queue[h] = <<>>,
           queue'[h] = queue[h], held'[h] = NoPacket, handled'[h] = Append(handled[h], p)
    PROVE  Numbered(h)'
<1>1. PICK s \in Seq(Packet) : s = handled[h]
  BY DEF DataOK
<1>2. Len(s) \in Nat /\ p = 0 + Len(s) + 1
  BY <1>1, LenProperties
<1>3. \A i \in 1 .. Len(s) : s[i] = 0 + i
  BY <1>1 DEF Numbered
<1>4. /\ Len(handled'[h]) = Len(s) + 1
      /\ \A i \in 1 .. Len(s) + 1 : handled'[h][i] = 0 + i
  BY <1>1, <1>2, <1>3, PushNumbers
<1>5. \A i \in 1 .. Len(queue'[h]) : queue'[h][i] = Len(handled'[h]) + 0 + i
  <2>1. CASE held[h] = NoPacket
    <3>1. Len(queue'[h]) = 0
      BY <2>1, EmptySeq
    <3>2. QED
      BY <3>1
  <2>2. CASE held[h] = p
    <3>1. held[h] # NoPacket
      BY <2>2, PacketIsSome
    <3>2. \A i \in 1 .. Len(queue[h]) : queue[h][i] = Len(s) + 1 + i
      BY <1>1, <3>1 DEF Numbered
    <3>3. \A i \in 1 .. Len(queue'[h]) : queue'[h][i] = Len(s) + 1 + i
      BY <3>2
    <3>4. Len(handled'[h]) + 0 = Len(s) + 1
      BY <1>2, <1>4
    <3>5. QED
      BY <3>3, <3>4
  <2>3. QED
    BY <2>1, <2>2
<1>6. \A i \in 1 .. Len(handled'[h]) : handled'[h][i] = i
  BY <1>2, <1>4
<1>7. QED
  BY <1>5, <1>6 DEF Numbered

\* The numbers when the packets stay where they are.
LEMMA NumberedSame ==
    ASSUME NEW h, Numbered(h), queue'[h] = queue[h], held'[h] = held[h], handled'[h] = handled[h]
    PROVE  Numbered(h)'
BY DEF Numbered

\* The steps that move packets, and what the others leave alone.
LEMMA PacketsMove ==
    ASSUME [Next]_vars
    PROVE  \/ \E h \in Handler : Push(h) \/ HandleDirectly(h) \/ Pull(h) \/ Handle(h)
           \/ UNCHANGED <<queue, held, handled>>
BY DEF Next, vars, HandlerThread, Starting, TearingDown, Goto, Main, counters,
       queues, work, StartApp, StartAppFails, StartOther, MarkAlive, TestLoop, Wait,
       TestAwake, MarkWorking, MarkIdle, MarkDead, LastUnlock, UseFreed, AppsStarted, SpinEnds,
       SpinHangs, StartReturns, PollFails, Teardown, Shutdown, PostApps, AppsGone, StopApp,
       StopOthers, StopAll, AllGone, Delete

\* Every step keeps the numbers in order.
LEMMA NumberedStep ==
  ASSUME DataOK, \A h \in Handler : Hands(h) /\ Numbered(h), [Next]_vars
  PROVE  \A g \in Handler : Numbered(g)'
<1>1. ASSUME NEW h \in Handler, Push(h)  PROVE \A g \in Handler : Numbered(g)'
  <2> SUFFICES ASSUME NEW g \in Handler  PROVE Numbered(g)'
    OBVIOUS
  <2>1. g # h => queue'[g] = queue[g] /\ held'[g] = held[g] /\ handled'[g] = handled[g]
    BY <1>1 DEF Push, Main, queues, work
  <2>2. queue'[h] = Append(queue[h], Len(Track(h)) + 1) /\ held'[h] = held[h] /\ handled'[h] = handled[h]
    BY <1>1 DEF Push, Main, DataOK, work
  <2>3. Len(Track(h)) + 1 \in Packet
    BY <1>1, NextPacket DEF Push
  <2>4. Numbered(h)'
    BY <2>2, <2>3, NumberedPush
  <2>5. QED
    BY <2>1, <2>4, NumberedSame
<1>2. ASSUME NEW h \in Handler, HandleDirectly(h)  PROVE \A g \in Handler : Numbered(g)'
  <2> SUFFICES ASSUME NEW g \in Handler  PROVE Numbered(g)'
    OBVIOUS
  <2>1. g # h => queue'[g] = queue[g] /\ held'[g] = held[g] /\ handled'[g] = handled[g]
    BY <1>2 DEF HandleDirectly, queues, work
  <2>2. queue[h] = <<>> /\ held[h] = NoPacket
    BY <1>2 DEF HandleDirectly, Hands
  <2>3. Len(handled[h]) \in Nat /\ Len(queue[h]) = 0
    BY <2>2, LenProperties, EmptySeq DEF DataOK
  <2>4. PICK n \in Nat : n = Len(handled[h])
    BY <2>3
  <2>5. Len(Track(h)) = n + 0 + 0
    BY <2>2, <2>3, <2>4, TrackLength
  <2>6. Len(Track(h)) = n
    BY <2>5
  <2>7. n + 1 \in Packet
    BY <1>2, <2>6, NextPacket DEF HandleDirectly
  <2>8. /\ queue'[h] = queue[h] /\ held'[h] = NoPacket
        /\ handled'[h] = Append(handled[h], n + 1)
    BY <1>2, <2>2, <2>6 DEF HandleDirectly, DataOK, queues
  <2>9. Numbered(h)'
    BY <2>2, <2>4, <2>7, <2>8, NumberedHandle
  <2>10. QED
    BY <2>1, <2>9, NumberedSame
<1>3. ASSUME NEW h \in Handler, Pull(h)  PROVE \A g \in Handler : Numbered(g)'
  <2> SUFFICES ASSUME NEW g \in Handler  PROVE Numbered(g)'
    OBVIOUS
  <2>1. g # h => queue'[g] = queue[g] /\ held'[g] = held[g] /\ handled'[g] = handled[g]
    BY <1>3 DEF Pull, Goto, queues, work
  <2>2. /\ queue[h] # <<>> /\ held[h] = NoPacket /\ handled'[h] = handled[h]
        /\ queue'[h] = Tail(queue[h]) /\ held'[h] = Head(queue[h])
    BY <1>3 DEF Pull, Goto, DataOK, Hands
  <2>3. Numbered(h)'
    BY <2>2, NumberedPull
  <2>4. QED
    BY <2>1, <2>3, NumberedSame
<1>4. ASSUME NEW h \in Handler, Handle(h)  PROVE \A g \in Handler : Numbered(g)'
  <2> SUFFICES ASSUME NEW g \in Handler  PROVE Numbered(g)'
    OBVIOUS
  <2>1. g # h => queue'[g] = queue[g] /\ held'[g] = held[g] /\ handled'[g] = handled[g]
    BY <1>4 DEF Handle, Goto, queues, work
  <2>2. PICK p \in Packet : held[h] = p
    BY <1>4, PacketIsSome DEF Handle, Goto, DataOK, Hands
  <2>3. p = Len(handled[h]) + 1
    BY <2>2, PacketIsSome DEF Numbered
  <2>4. /\ queue'[h] = queue[h] /\ held'[h] = NoPacket
        /\ handled'[h] = Append(handled[h], p)
    BY <1>4, <2>2 DEF Handle, Goto, DataOK, queues
  <2>5. Numbered(h)
    OBVIOUS
  <2>6. held[h] \in {p, NoPacket} /\ held[h] # NoPacket
    BY <2>2, PacketIsSome
  <2>7. Numbered(h)'
    BY <2>3, <2>4, <2>5, <2>6, NumberedHandle
  <2>8. QED
    BY <2>1, <2>7, NumberedSame
<1>5. ASSUME UNCHANGED <<queue, held, handled>>  PROVE \A g \in Handler : Numbered(g)'
  BY <1>5, NumberedSame
<1>6. QED
  BY <1>1, <1>2, <1>3, <1>4, <1>5, PacketsMove

-----------------------------------------------------------------------------
\* The inductive invariant.
IInv ==
    /\ DataOK /\ Flow /\ CountersExact
    /\ \A h \in Handler : Hands(h) /\ Numbered(h)

\* The invariant is inductive: the counters, the knowledge of the main thread
\* and of the handlers, and the order of the packets hold together.
THEOREM InvCorrect == SafeSpec => []IInv
<1>1. Init => IInv
  <2> SUFFICES ASSUME Init  PROVE IInv
    OBVIOUS
  <2>1. <<>> \in Seq(Packet) /\ Len(<<>>) = 0
    BY EmptySeq
  <2>2. DataOK /\ Flow
    BY <2>1 DEF Init, DataOK, Flow, PC, Interruptible
  <2>3. AliveSet = {} /\ WorkingSet = {}
    BY DEF Init, AliveSet, WorkingSet, Counted
  <2>4. Cardinality(Handler) \in Nat /\ Cardinality({}) = 0
    BY HandlersAssumption, FS_CardinalityType, FS_EmptySet
  <2>5. CountersExact
    BY <2>3, <2>4 DEF Init, CountersExact
  <2>6. ASSUME NEW h \in Handler  PROVE Hands(h) /\ Numbered(h)
    <3>1. /\ pc[h] = "unborn" /\ token[h] = FALSE /\ held[h] = NoPacket
          /\ queue[h] = <<>> /\ handled[h] = <<>>
      BY <2>6 DEF Init
    <3>2. Hands(h)
      BY <3>1 DEF Hands
    <3>3. Len(queue[h]) = 0 /\ Len(handled[h]) = 0
      BY <3>1, <2>1
    <3>4. Numbered(h)
      BY <3>1, <3>3 DEF Numbered
    <3>5. QED
      BY <3>2, <3>4
  <2>7. QED
    BY <2>2, <2>5, <2>6 DEF IInv
<1>2. IInv /\ [Next]_vars => IInv'
  <2> SUFFICES ASSUME IInv, [Next]_vars  PROVE IInv'
    OBVIOUS
  <2>1. DataOK /\ Flow /\ CountersExact /\ \A h \in Handler : Hands(h) /\ Numbered(h)
    BY DEF IInv
  <2>2. DataOK'
    BY <2>1, DataStep
  <2>3. CountersExact'
    BY <2>1, CountersStep
  <2>4. Flow'
    BY <2>1, FlowStep
  <2>5. \A h \in Handler : Hands(h)'
    BY <2>1, HandsStep
  <2>6. \A h \in Handler : Numbered(h)'
    BY <2>1, NumberedStep
  <2>7. QED
    BY <2>2, <2>3, <2>4, <2>5, <2>6 DEF IInv
<1>3. QED
  BY <1>1, <1>2, PTL DEF SafeSpec

\* The types, with the bounds of the two counters that any handler thread
\* changes and the main thread reads without their lock.
THEOREM TypeCorrect == SafeSpec => []TypeOK
<1>1. IInv => TypeOK
  BY DEF IInv, DataOK, CountersExact, TypeOK
<1>2. QED
  BY <1>1, InvCorrect, PTL

\* A packet is handled once, in the order of its handler, by its thread or by
\* cerver_poll (), and a thread that wakes up to work finds one.
THEOREM OrderCorrect == SafeSpec => []InOrder
<1>1. IInv => InOrder
  BY PartsInOrder DEF IInv, InOrder, Hands
<1>2. QED
  BY <1>1, InvCorrect, PTL

\* The start waits for every app handler before packets come, and when the
\* teardown has seen the counter at 0 no thread has a packet or takes one.
THEOREM ServingCorrect == SafeSpec => []OnlyWhileServing
<1>1. IInv => OnlyWhileServing
  BY DEF IInv, Flow, OnlyWhileServing
<1>2. QED
  BY <1>1, InvCorrect, PTL

-----------------------------------------------------------------------------
(* The life of a cerver: cerver_start () and cerver_teardown ()            *)

SPC == {"idle", "init", "handlers", "threads", "check", "poll", "returned"}
TPC == {"idle", "stopped", "hold", "clients", "shutdown", "handlers", "delete", "done"}
ThreadPC == {"none", "failed", "check", "work", "end", "gone"}

LifeTypes ==
    /\ lifeConfig \in Configs
    /\ running \in BOOLEAN /\ failed \in BOOLEAN /\ pollFailed \in BOOLEAN
    /\ handlersAlive \in Nat /\ turn \in Nat /\ starts \in 0 .. lifeConfig.starts
    /\ pcS \in SPC /\ pcT \in TPC
    /\ thread \in [L!Kind -> [L!Start -> ThreadPC]] /\ deletes \in [L!Kind -> Nat]

\* The teardown begins between two calls of the thread that starts, which does
\* not start again; nothing then runs that could set isRunning, and the handlers
\* are waited for.
EndIsLast ==
    /\ pcT \notin {"idle", "stopped"} => L!Quiet
    /\ pcT \in {"handlers", "delete", "done"} => ~ running
    /\ pcT \in {"delete", "done"} => handlersAlive = 0

\* In the first start the socket is open only while isRunning says that somebody
\* has to close it, unless a poll has failed.
OpenIsRunning ==
    starts <= 1 /\ ~ pollFailed /\ (sock = "open" \/ pcS = "init") => running

\* The threads of this start: those that have not had their turn are not there.
TurnsInOrder ==
    /\ pcS # "idle" => starts >= 1
    /\ \A k \in L!Kind, n \in L!Start : n > starts => thread[k][n] = "none"
    /\ pcS \in {"init", "handlers"} => \A k \in L!Kind : thread[k][starts] = "none"
    /\ pcS = "threads" =>
           turn >= 1 /\ \A i \in 1 .. Len(L!Kinds) : i >= turn => thread[L!Kinds[i]][starts] = "none"

NothingFailed == \A k \in L!Kind \ L!Tolerated : thread[k][starts] # "failed"
ErrorsAreNoticed ==
    /\ pcS \in {"init", "handlers"} => ~ failed
    /\ pcS = "threads" /\ ~ failed => NothingFailed
    /\ pcS \in {"check", "poll"} => NothingFailed

\* After one start the thread that has deleted its arguments has ended.
DeletesOnce ==
    starts <= 1 => \A k \in L!Kind : deletes[k] = 0 \/ (deletes[k] = 1 /\ thread[k][1] = "gone")

LifeInv == LifeTypes /\ EndIsLast /\ OpenIsRunning /\ TurnsInOrder /\ ErrorsAreNoticed /\ DeletesOnce

\* One thread of one start goes on.
LEMMA ThreadWritten ==
  ASSUME NEW k \in L!Kind, NEW n \in L!Start, NEW to \in ThreadPC,
         thread \in [L!Kind -> [L!Start -> ThreadPC]], thread' = [thread EXCEPT ![k][n] = to]
  PROVE  /\ thread' \in [L!Kind -> [L!Start -> ThreadPC]]
         /\ thread'[k][n] = to
         /\ \A j \in L!Kind, m \in L!Start : ~ (j = k /\ m = n) => thread'[j][m] = thread[j][m]
OBVIOUS

\* What is configured.
LEMMA ConfigIs ==
  ASSUME lifeConfig \in Configs
  PROVE  /\ lifeConfig.starts \in Nat /\ \A m \in 1 .. lifeConfig.starts : m \in L!Start
         /\ Len(L!Kinds) \in Nat /\ DOMAIN L!Kinds = 1 .. Len(L!Kinds)
         /\ \A i \in 1 .. Len(L!Kinds) : L!Kinds[i] \in L!Kind
         /\ \A i, j \in 1 .. Len(L!Kinds) : L!Kinds[i] = L!Kinds[j] => i = j
         /\ \A m \in L!Start : m \in Nat /\ m >= 1
<1>1. L!Kinds \in Seq(STRING) /\ IsInjective(L!Kinds) /\ lifeConfig.starts \in Nat
  BY ServingAssumption DEF L!Kinds
<1>2. Len(L!Kinds) \in Nat /\ DOMAIN L!Kinds = 1 .. Len(L!Kinds)
  BY <1>1
<1>3. \A i \in 1 .. Len(L!Kinds) : L!Kinds[i] \in L!ToSet(L!Kinds)
  BY <1>2 DEF L!ToSet
<1>4. \A i \in 1 .. Len(L!Kinds) : L!Kinds[i] \in L!Kind
  BY <1>3 DEF L!Kind, L!Kinds
<1>5. \A i, j \in 1 .. Len(L!Kinds) : L!Kinds[i] = L!Kinds[j] => i = j
  BY <1>1, <1>2 DEF IsInjective
<1>6. /\ \A m \in 1 .. lifeConfig.starts : m \in L!Start
      /\ \A m \in L!Start : m \in Nat /\ m >= 1
  BY ServingAssumption DEF L!Start
<1>7. QED
  BY <1>1, <1>2, <1>4, <1>5, <1>6

\* A start that has begun is one of the starts.
LEMMA StartsIsStart ==
  ASSUME LifeTypes
  PROVE  starts \in Nat /\ (starts >= 1 => starts \in L!Start)
BY ConfigIs DEF LifeTypes

LEMMA LifeInitHolds ==
  ASSUME L!Init
  PROVE  LifeInv
<1>1. LifeTypes
  <2>1. thread \in [L!Kind -> [L!Start -> ThreadPC]]
    BY DEF L!Init, ThreadPC
  <2>2. QED
    <3>1. starts \in 0 .. lifeConfig.starts
      BY ConfigIs DEF L!Init
    <3>2. deletes \in [L!Kind -> Nat]
      BY DEF L!Init
    <3>3. QED
      BY <2>1, <3>1, <3>2 DEF L!Init, LifeTypes, SPC, TPC
<1>2. EndIsLast /\ OpenIsRunning /\ ErrorsAreNoticed /\ DeletesOnce
  BY DEF L!Init, EndIsLast, OpenIsRunning, ErrorsAreNoticed, DeletesOnce
<1>3. TurnsInOrder
  <2>1. \A k \in L!Kind, n \in L!Start : thread[k][n] = "none"
    BY DEF L!Init
  <2>2. QED
    BY <2>1 DEF L!Init, TurnsInOrder
<1>4. QED
  BY <1>1, <1>2, <1>3 DEF LifeInv

\* The thread that starts, up to the detached threads.
LEMMA BeginKeeps ==
  ASSUME LifeInv, L!Begin \/ L!InitFails \/ L!OneTimeInit \/ L!HandlersStart
  PROVE  LifeInv'
<1> USE DEF LifeInv, L!SGoto, L!loops
<1>1. thread' = thread /\ deletes' = deletes /\ lifeConfig' = lifeConfig
  BY DEF L!Begin, L!InitFails, L!OneTimeInit, L!HandlersStart
<1>2. LifeTypes'
  <2>1. starts' \in 0 .. lifeConfig.starts /\ handlersAlive' \in Nat /\ turn' \in Nat
    BY ConfigIs DEF LifeTypes, L!Begin, L!InitFails, L!OneTimeInit, L!HandlersStart
  <2>2. running' \in BOOLEAN /\ failed' \in BOOLEAN /\ pollFailed' \in BOOLEAN
    BY DEF LifeTypes, L!Begin, L!InitFails, L!OneTimeInit, L!HandlersStart
  <2>3. pcS' \in SPC /\ pcT' \in TPC
    BY DEF LifeTypes, L!Begin, L!InitFails, L!OneTimeInit, L!HandlersStart, SPC
  <2>4. QED
    BY <1>1, <2>1, <2>2, <2>3 DEF LifeTypes
<1>3. EndIsLast'
  BY DEF EndIsLast, L!Begin, L!InitFails, L!OneTimeInit, L!HandlersStart, L!Quiet
<1>4. OpenIsRunning'
  BY DEF LifeTypes, OpenIsRunning, L!Begin, L!InitFails, L!OneTimeInit, L!HandlersStart
<1>5. starts \in Nat /\ (starts' = starts \/ (L!Begin /\ starts' = starts + 1 /\ starts' \in L!Start))
  BY <1>2, StartsIsStart, ServingAssumption DEF LifeTypes, L!Begin, L!InitFails, L!OneTimeInit, L!HandlersStart, L!Start
<1>6. \A n \in L!Start : n \in Nat
  BY ServingAssumption DEF L!Start
<1>7. TurnsInOrder'
  <2>1. CASE L!Begin
    <3>1. \A k \in L!Kind : thread[k][starts + 1] = "none"
      BY <1>5, <1>6, <2>1 DEF TurnsInOrder, L!Begin
    <3>2. \A n \in L!Start : n > starts + 1 => n > starts
      BY <1>5, <1>6
    <3>3. QED
      BY <1>1, <1>5, <2>1, <3>1, <3>2 DEF TurnsInOrder, L!Begin
  <2>2. CASE L!InitFails \/ L!OneTimeInit
    BY <1>1, <1>5, <2>2 DEF TurnsInOrder, L!InitFails, L!OneTimeInit
  <2>3. CASE L!HandlersStart
    <3>1. \A i \in 1 .. Len(L!Kinds) : L!Kinds[i] \in L!Kind
      BY ServingAssumption DEF LifeTypes, L!Kinds, L!Kind, L!ToSet
    <3>2. \A i \in 1 .. Len(L!Kinds) : thread[L!Kinds[i]][starts] = "none"
      BY <2>3, <3>1 DEF TurnsInOrder, L!HandlersStart
    <3>3. L!Kinds' = L!Kinds
      BY <1>1 DEF L!Kinds
    <3>4. QED
      BY <1>1, <1>5, <2>3, <3>2, <3>3 DEF TurnsInOrder, L!HandlersStart
  <2>4. QED
    BY <2>1, <2>2, <2>3
<1>8. ErrorsAreNoticed'
  <2>1. NothingFailed' \/ ~ L!HandlersStart
    BY <1>1 DEF NothingFailed, TurnsInOrder, L!HandlersStart
  <2>2. QED
    BY <1>1, <2>1 DEF ErrorsAreNoticed, L!Begin, L!InitFails, L!OneTimeInit, L!HandlersStart
<1>9. DeletesOnce'
  BY <1>1, <1>5 DEF DeletesOnce
<1>10. QED
  BY <1>2, <1>3, <1>4, <1>7, <1>8, <1>9

\* A detached thread is created, or not.
LEMMA StartThreadKeeps ==
  ASSUME LifeInv, L!StartThread \/ L!ThreadFails
  PROVE  LifeInv'
<1> USE DEF LifeInv
<1>1. /\ pcS = "threads" /\ turn \in 1 .. Len(L!Kinds) /\ turn' = turn + 1
      /\ UNCHANGED <<lifeConfig, running, sock, handlersAlive, pcS, starts, pcT, deletes, pollFailed>>
  BY ServingAssumption DEF LifeTypes, TurnsInOrder, L!StartThread, L!ThreadFails, L!Kinds
<1>2. PICK k : k = L!Kinds[turn]
  OBVIOUS
<1>3. PICK to \in {"check", "failed"} :
        /\ thread' = [thread EXCEPT ![k][starts] = to]
        /\ IF to = "check" THEN failed' = failed ELSE failed' = (failed \/ k \notin L!Tolerated)
  BY <1>2 DEF L!StartThread, L!ThreadFails
<1>4. k \in L!Kind /\ starts \in L!Start /\ starts >= 1 /\ starts \in Nat
  BY <1>1, <1>2, ServingAssumption, StartsIsStart DEF LifeTypes, TurnsInOrder, L!Kinds, L!Kind, L!ToSet
<1>5. /\ thread' \in [L!Kind -> [L!Start -> ThreadPC]]
      /\ thread'[k][starts] = to
      /\ \A j \in L!Kind, m \in L!Start : ~ (j = k /\ m = starts) => thread'[j][m] = thread[j][m]
  BY <1>3, <1>4, ThreadWritten DEF LifeTypes, ThreadPC
<1>6. LifeTypes'
  <2>1. failed' \in BOOLEAN
    BY <1>3 DEF LifeTypes
  <2>2. turn' \in Nat
    BY <1>1 DEF LifeTypes
  <2>3. QED
    BY <1>1, <1>5, <2>1, <2>2 DEF LifeTypes
<1>7. EndIsLast' /\ OpenIsRunning'
  BY <1>1 DEF EndIsLast, OpenIsRunning, L!Quiet
<1>8. thread[k][starts] = "none"
  BY <1>1, <1>2 DEF TurnsInOrder, LifeTypes
<1>9. L!Kinds' = L!Kinds
  BY <1>1 DEF L!Kinds
<1>10. TurnsInOrder'
  <2>1. \A j \in L!Kind, n \in L!Start : n > starts => thread'[j][n] = "none"
    <3>1. \A n \in L!Start : n \in Nat /\ (n > starts => n # starts)
      BY <1>4, ConfigIs DEF LifeTypes
    <3>2. QED
      BY <1>4, <1>5, <3>1 DEF TurnsInOrder
  <2>2. ASSUME NEW i \in 1 .. Len(L!Kinds), i >= turn + 1  PROVE thread'[L!Kinds[i]][starts] = "none"
    <3>1. Len(L!Kinds) \in Nat /\ i # turn /\ i >= turn /\ DOMAIN L!Kinds = 1 .. Len(L!Kinds)
      BY <1>1, <2>2, ServingAssumption DEF LifeTypes, L!Kinds
    <3>2. L!Kinds[i] \in L!Kind /\ L!Kinds[i] # k
      BY <1>1, <1>2, <3>1, ConfigIs DEF LifeTypes
    <3>3. QED
      BY <1>1, <1>4, <1>5, <3>1, <3>2 DEF TurnsInOrder
  <2>3. QED
    BY <1>1, <1>4, <1>9, <2>1, <2>2 DEF TurnsInOrder
<1>11. ErrorsAreNoticed'
  <2>1. ASSUME ~ failed'  PROVE NothingFailed'
    <3>1. NothingFailed /\ (to = "failed" => k \in L!Tolerated)
      BY <1>1, <1>3, <2>1 DEF ErrorsAreNoticed, LifeTypes
    <3>2. QED
      BY <1>1, <1>4, <1>5, <3>1 DEF NothingFailed
  <2>2. QED
    BY <1>1, <2>1 DEF ErrorsAreNoticed
<1>12. DeletesOnce'
  BY <1>1, <1>4, <1>5, <1>8 DEF DeletesOnce
<1>13. QED
  BY <1>6, <1>7, <1>10, <1>11, <1>12

\* A detached thread goes on, and at its end deletes the arguments of the user.
LEMMA LoopKeeps ==
  ASSUME LifeInv, NEW k \in L!Kind, NEW n \in L!Start, L!Check(k, n) \/ L!Work(k, n) \/ L!Finish(k, n)
  PROVE  LifeInv'
<1> USE DEF LifeInv
<1>1. UNCHANGED <<lifeConfig, sock, handlersAlive, L!starting, pcT>>
  BY DEF L!Check, L!Work, L!Finish
<1>2. PICK to \in ThreadPC :
        /\ thread' = [thread EXCEPT ![k][n] = to] /\ to \notin {"none", "failed"}
        /\ thread[k][n] \in {"check", "work", "end"} /\ (to = "gone" <=> L!Finish(k, n))
  BY DEF L!Check, L!Work, L!Finish, L!Step, ThreadPC
<1>3. /\ thread' \in [L!Kind -> [L!Start -> ThreadPC]]
      /\ thread'[k][n] = to
      /\ \A j \in L!Kind, m \in L!Start : ~ (j = k /\ m = n) => thread'[j][m] = thread[j][m]
  BY <1>2, ThreadWritten DEF LifeTypes
<1>4. n \in Nat /\ n >= 1 /\ n <= starts /\ starts \in Nat /\ starts \in L!Start
  <2>1. n \in Nat /\ n >= 1 /\ starts \in Nat /\ (starts >= 1 => starts \in L!Start)
    BY ConfigIs, StartsIsStart DEF LifeTypes
  <2>2. ~ n > starts
    BY <1>2, <2>1 DEF TurnsInOrder
  <2>3. QED
    BY <2>1, <2>2
<1>5. \/ running' = running /\ pollFailed' = pollFailed
      \/ running' = FALSE /\ pollFailed' = (pollFailed \/ running)
  BY DEF L!Check, L!Work, L!Finish, L!PollOf
<1>6. deletes' \in [L!Kind -> Nat] /\ \A j \in L!Kind :
          deletes'[j] = deletes[j] \/ (L!Finish(k, n) /\ j = k /\ deletes'[j] = deletes[j] + 1)
  BY DEF LifeTypes, L!Check, L!Work, L!Finish
<1>7. LifeTypes'
  <2>1. running' \in BOOLEAN /\ pollFailed' \in BOOLEAN
    BY <1>5 DEF LifeTypes
  <2>2. QED
    BY <1>1, <1>3, <1>6, <2>1 DEF LifeTypes, L!starting
<1>8. EndIsLast' /\ OpenIsRunning'
  BY <1>1, <1>5 DEF LifeTypes, EndIsLast, OpenIsRunning, L!Quiet, L!starting
<1>9. L!Kinds' = L!Kinds /\ starts' = starts /\ pcS' = pcS /\ turn' = turn /\ failed' = failed
  BY <1>1 DEF L!Kinds, L!starting
<1>10. \A j \in L!Kind, m \in L!Start :
           /\ thread'[j][m] = "none" <=> thread[j][m] = "none"
           /\ thread'[j][m] = "failed" <=> thread[j][m] = "failed"
           /\ thread[j][m] = "gone" => thread'[j][m] = "gone"
  BY <1>2, <1>3
<1>11. TurnsInOrder'
  <2>1. \A i \in 1 .. Len(L!Kinds) : L!Kinds[i] \in L!Kind
    BY ServingAssumption DEF LifeTypes, L!Kinds, L!Kind, L!ToSet
  <2>2. QED
    BY <1>4, <1>9, <1>10, <2>1 DEF TurnsInOrder
<1>12. ErrorsAreNoticed'
  BY <1>4, <1>9, <1>10 DEF ErrorsAreNoticed, NothingFailed
<1>13. DeletesOnce'
  <2> SUFFICES ASSUME starts <= 1, NEW j \in L!Kind
               PROVE  deletes'[j] = 0 \/ (deletes'[j] = 1 /\ thread'[j][1] = "gone")
    BY <1>9 DEF DeletesOnce
  <2>1. n = 1 /\ 1 \in L!Start
    BY <1>4
  <2>2. CASE deletes'[j] = deletes[j]
    BY <1>10, <2>1, <2>2 DEF DeletesOnce
  <2>3. CASE L!Finish(k, n) /\ j = k /\ deletes'[j] = deletes[j] + 1
    <3>1. deletes[j] = 0
      BY <1>2, <2>1, <2>3 DEF DeletesOnce
    <3>2. QED
      BY <1>2, <1>3, <2>1, <2>3, <3>1
  <2>4. QED
    BY <1>6, <2>2, <2>3
<1>14. QED
  BY <1>7, <1>8, <1>11, <1>12, <1>13

\* The end of cerver_start (), polling, and the calls that stop and tear down.
LEMMA ScalarsKeep ==
  ASSUME LifeInv,
         \/ L!StartFails \/ L!Listen \/ L!PollCheck \/ L!MainPoll \/ L!HandlerEnds \/ L!Shutdown \/ L!Teardown
         \/ L!DestroyOnHold \/ L!DestroyClients \/ L!TeardownStops \/ L!TeardownWaits \/ L!Delete
  PROVE  LifeInv'
<1> USE DEF LifeInv, L!SGoto, L!TGoto, L!loops, L!starting
<1> USE DEF L!StartFails, L!Listen, L!PollCheck, L!MainPoll, L!HandlerEnds, L!Shutdown, L!Teardown,
            L!DestroyOnHold, L!DestroyClients, L!TeardownStops, L!TeardownWaits, L!Delete, L!Free, L!PollOf, L!Stop, L!CloseSock
<1>1. UNCHANGED <<lifeConfig, thread, deletes, turn, failed, starts>>
  OBVIOUS
<1>2. LifeTypes'
  <2>1. running' \in BOOLEAN /\ pollFailed' \in BOOLEAN
    BY DEF LifeTypes
  <2>2. handlersAlive' \in Nat
    BY DEF LifeTypes
  <2>3. pcS' \in SPC /\ pcT' \in TPC
    BY DEF LifeTypes, SPC, TPC
  <2>4. QED
    BY <1>1, <2>1, <2>2, <2>3 DEF LifeTypes
<1>3. EndIsLast'
  BY DEF EndIsLast, L!Quiet, LifeTypes
<1>4. OpenIsRunning'
  <2>1. pcS' = "init" => pcS = "init"
    BY DEF LifeTypes
  <2>2. CASE L!MainPoll
    BY <1>1, <2>1, <2>2 DEF LifeTypes, OpenIsRunning
  <2>3. CASE L!Shutdown \/ L!TeardownStops
    <3>1. pcS # "init" /\ pcS' = pcS /\ pollFailed' = pollFailed
      BY <2>3 DEF EndIsLast, L!Quiet
    <3>2. \/ running' = running /\ sock' = sock
          \/ sock' # "open"
      BY <2>3
    <3>3. QED
      BY <1>1, <3>1, <3>2 DEF OpenIsRunning
  <2>4. CASE L!Teardown \/ L!DestroyOnHold \/ L!DestroyClients \/ L!TeardownWaits \/ L!Delete
    BY <2>4 DEF OpenIsRunning
  <2>5. CASE L!StartFails \/ L!Listen \/ L!PollCheck \/ L!HandlerEnds
    BY <2>5 DEF OpenIsRunning
  <2>6. QED
    BY <2>2, <2>3, <2>4, <2>5
<1>5. L!Kinds' = L!Kinds /\ (pcS' = pcS \/ (pcS' \in {"check", "poll", "returned"} /\ pcS # "idle"))
  BY <1>1 DEF L!Kinds
<1>6. TurnsInOrder'
  BY <1>1, <1>5 DEF TurnsInOrder
<1>7. ErrorsAreNoticed'
  <2>1. NothingFailed' <=> NothingFailed
    BY <1>1 DEF NothingFailed
  <2>2. QED
    BY <1>1, <1>5, <2>1 DEF ErrorsAreNoticed, LifeTypes
<1>8. DeletesOnce'
  BY <1>1 DEF DeletesOnce
<1>9. QED
  BY <1>2, <1>3, <1>4, <1>6, <1>7, <1>8

\* A crash, and a step that is not one of this part, leave all as it is.
LEMMA LifeStays ==
  ASSUME LifeInv,
         UNCHANGED <<lifeConfig, running, sock, handlersAlive, L!starting, pcT, thread, deletes,
                     pollFailed>>
  PROVE  LifeInv'
BY DEF LifeInv, LifeTypes, EndIsLast, OpenIsRunning, TurnsInOrder, ErrorsAreNoticed, DeletesOnce, L!Quiet,
       NothingFailed, L!Kinds, L!starting

\* The invariant holds of a cerver with any detached threads and any number of
\* starts (cerver.c, admin.c).
THEOREM LifeInvariant == L!Init /\ [][L!Next]_(L!vars) => []LifeInv
<1>1. L!Init => LifeInv
  BY LifeInitHolds
<1>2. LifeInv /\ [L!Next]_(L!vars) => LifeInv'
  <2> SUFFICES ASSUME LifeInv, [L!Next]_(L!vars)  PROVE LifeInv'
    OBVIOUS
  <2>1. CASE L!Begin \/ L!InitFails \/ L!OneTimeInit \/ L!HandlersStart
    BY <2>1, BeginKeeps
  <2>2. CASE L!StartThread \/ L!ThreadFails
    BY <2>2, StartThreadKeeps
  <2>3. ASSUME NEW k \in L!Kind, NEW n \in L!Start, L!ThreadStep(k, n)  PROVE LifeInv'
    <3>1. CASE L!ThreadUsesFreed(k, n)
      BY <3>1, LifeStays DEF L!ThreadUsesFreed, L!Crash
    <3>2. QED
      BY <2>3, <3>1, LoopKeeps DEF L!ThreadStep
  <2>4. CASE \/ L!StartFails \/ L!Listen \/ L!PollCheck \/ L!MainPoll \/ L!HandlerEnds \/ L!Shutdown \/ L!Teardown
             \/ L!DestroyOnHold \/ L!DestroyClients \/ L!TeardownStops \/ L!TeardownWaits \/ L!Delete
    BY <2>4, ScalarsKeep
  <2>5. CASE L!MainUsesFreed
    BY <2>5, LifeStays DEF L!MainUsesFreed, L!Crash
  <2>6. CASE UNCHANGED L!vars
    BY <2>6, LifeStays DEF L!vars, L!loops
  <2>7. QED
    BY <2>1, <2>2, <2>3, <2>4, <2>5, <2>6
       DEF L!Next, L!AliveStart, L!AliveThreads, L!AliveHandler, L!AliveEnd, L!StartCall, L!EndCall
<1>3. QED
  BY <1>1, <1>2, PTL

\* What cerver_start () and cerver_teardown () promise follows.
LEMMA LifeInvSuffices == LifeInv => L!LifecycleSound
<1> SUFFICES ASSUME LifeInv  PROVE L!LifecycleSound
  OBVIOUS
<1>1. pcT = "done" => handlersAlive = 0 /\ (sock # "open" \/ pollFailed \/ starts > 1)
  BY StartsIsStart DEF LifeInv, LifeTypes, EndIsLast, OpenIsRunning
<1>2. starts = 1 => \A k \in L!Kind : deletes[k] <= 1
  BY DEF LifeInv, LifeTypes, DeletesOnce
<1>3. QED
  BY <1>1, <1>2 DEF LifeInv, ErrorsAreNoticed, NothingFailed, L!LifecycleSound

-----------------------------------------------------------------------------
(* Each part on its own                                                    *)

\* A step is one of the life of the cerver or leaves it.
LEMMA LifeBehaves == PartsSpec => L!Init /\ [][L!Next]_(L!vars)
<1>1. PartsInit => L!Init
  BY DEF PartsInit
<1>2. [PartsNext]_allVars => [L!Next]_(L!vars)
  <2>1. UNCHANGED lifeVars => UNCHANGED L!vars
    BY DEF lifeVars, L!vars, L!starting, L!loops
  <2>2. QED
    BY <2>1 DEF PartsNext, OfHandlers, OfLife, allVars
<1>3. QED
  BY <1>1, <1>2, PTL DEF PartsSpec

\* A step is one of the packet handlers or leaves them.
LEMMA HandlersBehave == PartsSpec => SafeSpec
<1>1. PartsInit => Init
  BY DEF PartsInit
<1>2. [PartsNext]_allVars => [Next]_vars
  BY DEF PartsNext, OfHandlers, OfLife, allVars
<1>3. QED
  BY <1>1, <1>2, PTL DEF PartsSpec, SafeSpec

\* When the cerver polls, what cerver_start () looks at was started; when the
\* teardown has returned, no handler runs and the socket is closed, unless a
\* failed poll has stopped the cerver first or it was started again; and the
\* arguments of an update are deleted once (cerver.c, admin.c).
THEOREM PartsLifecycle == PartsSpec => []LifecycleSound
<1>1. LifeInv => LifecycleSound
  BY LifeInvSuffices DEF LifecycleSound
<1>2. QED
  BY <1>1, LifeBehaves, LifeInvariant, PTL

\* The packet handlers of such a cerver handle each packet once and in order, and
\* only while it serves (handler.c).
THEOREM PartsOrder == PartsSpec => [](InOrder /\ OnlyWhileServing)
BY HandlersBehave, OrderCorrect, ServingCorrect, PTL
=============================================================================
