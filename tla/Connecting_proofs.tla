-------------------------- MODULE Connecting_proofs --------------------------
(***************************************************************************)
(* The side that connects, for any number of connections, handlers, packets*)
(* and entries: no connection is deleted that a thread of it uses, packets *)
(* are sent in the order in which they were given, and the arguments of an *)
(* action are deleted once.                                                *)
(***************************************************************************)
EXTENDS Connecting, FiniteSetTheorems, SequenceTheorems, TLAPS

(***************************************************************************)
(* The client and its connections                                          *)
(***************************************************************************)
UpdatePC == {"none", "begin", "test", "recv", "close", "inactive", "remove", "await", "wait", "stop",
             "stopped", "finish", "signal", "ended"}

Types ==
    /\ listed \subseteq Conn /\ early \subseteq Conn /\ target \in Conn
    /\ state \in [Conn -> {"none", "ready", "unavailable", "working"}]
    /\ active \in [Conn -> BOOLEAN] /\ updating \in [Conn -> BOOLEAN]
    /\ freed \in [Conn -> {"no", "end", "teardown"}]
    /\ DOMAIN pc = Thread /\ \A c \in Conn : pc[c] \in UpdatePC
    /\ spc \in [Conn -> {"none", "test", "wait", "pull", "ended"}]

\* An update thread that runs has announced itself, until it holds the mutex for
\* the last time; threads are only created for a connection that has none.
Announced == \A c \in Conn : updating[c] <=> pc[c] \notin {"none", "begin", "signal", "ended"}
Started ==
    /\ \A c \in Conn : state[c] \in {"none", "unavailable"} => pc[c] = "none" /\ spc[c] = "none"
    /\ pc[App] = "start" =>
           /\ state[target] = "ready" /\ freed[target] = "no"
           /\ pc[target] = "none" /\ spc[target] = "none"

\* The connection that the application ends: its update thread was seen or does
\* not begin any more, it is not active once it has been closed, and nobody finds
\* it once it has been removed.
EndPC == {"request", "close", "inactive", "remove", "await", "wait", "wake", "post"}
Ending ==
    /\ pc[App] \in EndPC =>
           state[target] \in {"ready", "working"} /\ (target \in early \/ pc[target] # "begin")
    /\ pc[App] \in {"remove", "await", "wait", "wake", "post"} => ~ active[target]
    /\ pc[App] \in {"await", "wait", "wake", "post"} => target \notin listed
    /\ pc[App] \in {"wake", "post"} =>
           target \in early \/ pc[target] \in Over \/ (target \in Queued /\ pc[target] = "signal")

\* A thread that waits for itself has removed its connection.
Waiting == \A c \in Conn : pc[c] \in {"await", "wait"} => c \notin listed
TearingDown == pc[App] \in {"teardown", "handlers"} => \A c \in listed \ early : pc[c] \in Over

\* What is deleted is not started again.
Deleted ==
    \A c \in Conn :
        /\ freed[c] = "end" => ~ active[c] /\ state[c] # "none"
        /\ freed[c] = "teardown" => pc[App] = "gone"

IInv == Types /\ Announced /\ Started /\ Ending /\ Waiting /\ TearingDown /\ Deleted /\ DeletedIsUnused

LEMMA ThreadsDiffer == App \in Thread /\ App \notin Conn /\ Conn \subseteq Thread
BY ConnectingAssumption DEF Thread

LEMMA ClientInitHolds == Init => IInv
<1> SUFFICES ASSUME Init  PROVE IInv
  OBVIOUS
<1>1. target \in Conn
  BY ConnectingAssumption DEF Init
<1>2. /\ DOMAIN pc = Thread /\ pc[App] = "idle" /\ \A c \in Conn : pc[c] = "none"
      /\ early = {} /\ \A c \in Conn : spc[c] = "none" /\ freed[c] = "no" /\ ~ updating[c]
  BY ThreadsDiffer DEF Init
<1>3. Types
  BY <1>1, <1>2 DEF Init, Types, UpdatePC
<1>4. Announced
  BY <1>2 DEF Announced
<1>5. Started /\ Ending /\ Waiting /\ TearingDown /\ Deleted /\ DeletedIsUnused
  BY <1>2 DEF Started, Ending, EndPC, Waiting, TearingDown, Deleted, DeletedIsUnused
<1>6. QED
  BY <1>3, <1>4, <1>5 DEF IInv

\* The names of the threads.
\* Most of what the other end and the handlers do is not seen here.
LEMMA UnseenKeeps ==
  ASSUME IInv, UNCHANGED <<listed, state, active, updating, freed, pc, target, early, spc>>
  PROVE  IInv'
BY DEF IInv, Types, Announced, Started, Ending, Waiting, TearingDown, Deleted, DeletedIsUnused

LEMMA UnseenStep ==
  ASSUME IInv,
         \/ \E c \in Conn : PeerSends(c) \/ PeerCloses(c) \/ SendPacket(c)
         \/ \E w \in Worker : HandlerTest(w) \/ HandlerWork(w)
         \/ UNCHANGED vars
  PROVE  IInv'
BY UnseenKeeps
   DEF PeerSends, PeerCloses, SendPacket, HandlerTest, HandlerWork, vars, connVars, sendVars

LEMMA ConnectKeeps ==
  ASSUME IInv, NEW c \in Conn, Connect(c)
  PROVE  IInv'
<1> USE ThreadsDiffer DEF Connect, sendVars, handlerVars, IInv, Types
<1>1. Types'
  BY DEF UpdatePC
<1>2. Announced' /\ Started' /\ Waiting'
  BY DEF UpdatePC, Announced, Started, Waiting
<1>3. Ending' /\ TearingDown'
  BY DEF Ending, EndPC, Over, TearingDown, Announced, Started
<1>4. Deleted' /\ DeletedIsUnused'
  BY DEF Ending, EndPC, Over, TearingDown, Waiting, Announced, Started, Deleted, DeletedIsUnused
<1>5. QED
  BY <1>1, <1>2, <1>3, <1>4

LEMMA StartClientKeeps ==
  ASSUME IInv, NEW c \in Conn, StartClient(c)
  PROVE  IInv'
<1> USE ThreadsDiffer DEF StartClient, Goto, connVars, sendVars, peerVars, IInv, Types
<1>1. Types'
  BY DEF UpdatePC
<1>2. Announced' /\ Started' /\ Waiting'
  BY DEF UpdatePC, Announced, Started, Waiting, Deleted
<1>3. Ending' /\ TearingDown'
  BY DEF Ending, EndPC, Over, TearingDown, Announced, Started
<1>4. Deleted' /\ DeletedIsUnused'
  BY DEF Ending, EndPC, Over, TearingDown, Waiting, Announced, Started, Deleted, DeletedIsUnused
<1>5. QED
  BY <1>1, <1>2, <1>3, <1>4

LEMMA StartConnectionKeeps ==
  ASSUME IInv, StartConnection
  PROVE  IInv'
<1> USE ThreadsDiffer DEF StartConnection, handlerVars, peerVars, IInv, Types
<1>1. Types'
  BY DEF UpdatePC
<1>2. Announced' /\ Started' /\ Waiting'
  BY DEF UpdatePC, Announced, Started, Waiting
<1>3. Ending' /\ TearingDown'
  BY DEF Ending, EndPC, Over, TearingDown, Announced, Started
<1>4. Deleted' /\ DeletedIsUnused'
  BY DEF Ending, EndPC, Over, TearingDown, Waiting, Announced, Started, Deleted, DeletedIsUnused
<1>5. QED
  BY <1>1, <1>2, <1>3, <1>4

LEMMA CallEndKeeps ==
  ASSUME IInv, NEW c \in Conn, CallEnd(c)
  PROVE  IInv'
<1> USE ThreadsDiffer DEF CallEnd, Goto, connVars, sendVars, handlerVars, peerVars, IInv, Types
<1>1. Types'
  BY DEF UpdatePC
<1>2. Announced' /\ Started' /\ Waiting'
  BY DEF UpdatePC, Announced, Started, Waiting
<1>3. Ending' /\ TearingDown'
  BY DEF Ending, EndPC, Over, TearingDown, Announced, Started
<1>4. Deleted' /\ DeletedIsUnused'
  BY DEF Ending, EndPC, Over, TearingDown, Waiting, Announced, Started, Deleted, DeletedIsUnused
<1>5. QED
  BY <1>1, <1>2, <1>3, <1>4

LEMMA CloseKeeps ==
  ASSUME IInv, NEW t \in Thread, Close(t)
  PROVE  IInv'
<1> USE ThreadsDiffer DEF Close, Goto, Of, sendVars, handlerVars, IInv, Types
<1>1. Types'
  BY DEF UpdatePC
<1>2. Announced' /\ Started' /\ Waiting'
  BY DEF UpdatePC, Announced, Started, Waiting
<1>3. Ending' /\ TearingDown'
  BY DEF Ending, EndPC, Over, TearingDown, Announced, Started
<1>4. Deleted' /\ DeletedIsUnused'
  BY DEF Ending, EndPC, Over, TearingDown, Waiting, Announced, Started, Deleted, DeletedIsUnused
<1>5. QED
  BY <1>1, <1>2, <1>3, <1>4

LEMMA SetInactiveKeeps ==
  ASSUME IInv, NEW t \in Thread, SetInactive(t)
  PROVE  IInv'
<1> USE ThreadsDiffer DEF SetInactive, Goto, Of, sendVars, handlerVars, peerVars, IInv, Types
<1>1. Types'
  BY DEF UpdatePC
<1>2. Announced' /\ Started' /\ Waiting'
  BY DEF UpdatePC, Announced, Started, Waiting
<1>3. Ending' /\ TearingDown'
  BY DEF Ending, EndPC, Over, TearingDown, Announced, Started
<1>4. Deleted' /\ DeletedIsUnused'
  BY DEF Ending, EndPC, Over, TearingDown, Waiting, Announced, Started, Deleted, DeletedIsUnused
<1>5. QED
  BY <1>1, <1>2, <1>3, <1>4

LEMMA RemoveConnectionKeeps ==
  ASSUME IInv, NEW t \in Thread, RemoveConnection(t)
  PROVE  IInv'
<1> USE ThreadsDiffer DEF RemoveConnection, Goto, Of, sendVars, handlerVars, peerVars, IInv, Types
<1>1. Types'
  BY DEF UpdatePC
<1>2. Announced' /\ Started' /\ Waiting'
  BY DEF UpdatePC, Announced, Started, Waiting
<1>3. Ending' /\ TearingDown'
  BY DEF Ending, EndPC, Over, TearingDown, Announced, Started
<1>4. Deleted' /\ DeletedIsUnused'
  BY DEF Ending, EndPC, Over, TearingDown, Waiting, Announced, Started, Deleted, DeletedIsUnused
<1>5. QED
  BY <1>1, <1>2, <1>3, <1>4

LEMMA AwaitUpdateKeeps ==
  ASSUME IInv, NEW t \in Thread, AwaitUpdate(t)
  PROVE  IInv'
<1> USE ThreadsDiffer DEF AwaitUpdate, Goto, Of, connVars, sendVars, handlerVars, peerVars, IInv, Types
<1>1. Types'
  BY DEF UpdatePC, Announced
<1>2. Announced' /\ Started' /\ Waiting'
  BY DEF UpdatePC, Announced, Started, Waiting
<1>3. Ending' /\ TearingDown'
  BY DEF Ending, EndPC, Over, TearingDown, Announced, Started
<1>4. Deleted' /\ DeletedIsUnused'
  BY DEF Ending, EndPC, Over, TearingDown, Waiting, Announced, Started, Deleted, DeletedIsUnused
<1>5. QED
  BY <1>1, <1>2, <1>3, <1>4

LEMMA WaitForUpdateKeeps ==
  ASSUME IInv, NEW t \in Thread, WaitForUpdate(t)
  PROVE  IInv'
<1> USE ThreadsDiffer DEF WaitForUpdate, Goto, Of, connVars, sendVars, handlerVars, peerVars, IInv, Types
<1>1. Types'
  BY DEF UpdatePC, Announced
<1>2. Announced' /\ Started' /\ Waiting'
  BY DEF UpdatePC, Announced, Started, Waiting
<1>3. Ending' /\ TearingDown'
  BY DEF Ending, EndPC, Over, TearingDown, Announced, Started
<1>4. Deleted' /\ DeletedIsUnused'
  BY DEF Ending, EndPC, Over, TearingDown, Waiting, Announced, Started, Deleted, DeletedIsUnused
<1>5. QED
  BY <1>1, <1>2, <1>3, <1>4

LEMMA WakeSendKeeps ==
  ASSUME IInv, NEW t \in Thread, WakeSend(t)
  PROVE  IInv'
<1> USE ThreadsDiffer DEF WakeSend, Goto, Of, connVars, handlerVars, peerVars, IInv, Types
<1>1. Types'
  BY DEF UpdatePC, Announced
<1>2. Announced' /\ Started' /\ Waiting'
  BY DEF UpdatePC, Announced, Started, Waiting
<1>3. Ending' /\ TearingDown'
  BY DEF Ending, EndPC, Over, TearingDown, Announced, Started
<1>4. Deleted' /\ DeletedIsUnused'
  BY DEF Ending, EndPC, Over, TearingDown, Waiting, Announced, Started, Deleted, DeletedIsUnused
<1>5. QED
  BY <1>1, <1>2, <1>3, <1>4

LEMMA DeleteConnectionKeeps ==
  ASSUME IInv, NEW t \in Thread, DeleteConnection(t)
  PROVE  IInv'
<1> USE ThreadsDiffer DEF DeleteConnection, Goto, Of, sendVars, handlerVars, peerVars, IInv, Types
<1>1. Types'
  BY DEF UpdatePC
<1>2. Announced' /\ Started' /\ Waiting'
  BY DEF UpdatePC, Announced, Started, Waiting
<1>3. Ending' /\ TearingDown'
  BY DEF Ending, EndPC, Over, TearingDown, Announced, Started
<1>4. Deleted' /\ DeletedIsUnused'
  BY DEF Ending, EndPC, Over, TearingDown, Waiting, Announced, Started, Deleted, DeletedIsUnused, UpdatePC
<1>5. QED
  BY <1>1, <1>2, <1>3, <1>4

LEMMA DisconnectAllKeeps ==
  ASSUME IInv, NEW t \in Thread, DisconnectAll(t)
  PROVE  IInv'
<1> USE ThreadsDiffer DEF DisconnectAll, Goto, sendVars, handlerVars, IInv, Types
<1>1. Types'
  BY DEF UpdatePC
<1>2. Announced' /\ Started' /\ Waiting'
  BY DEF UpdatePC, Announced, Started, Waiting
<1>3. Ending' /\ TearingDown'
  BY DEF Ending, EndPC, Over, TearingDown, Announced, Started
<1>4. Deleted' /\ DeletedIsUnused'
  BY DEF Ending, EndPC, Over, TearingDown, Waiting, Announced, Started, Deleted, DeletedIsUnused
<1>5. QED
  BY <1>1, <1>2, <1>3, <1>4

LEMMA StopRunningKeeps ==
  ASSUME IInv, NEW t \in Thread, StopRunning(t)
  PROVE  IInv'
<1> USE ThreadsDiffer DEF StopRunning, Goto, connVars, sendVars, handlerVars, peerVars, IInv, Types
<1>1. Types'
  BY DEF UpdatePC
<1>2. Announced' /\ Started' /\ Waiting'
  BY DEF UpdatePC, Announced, Started, Waiting
<1>3. Ending' /\ TearingDown'
  BY DEF Ending, EndPC, Over, TearingDown, Announced, Started
<1>4. Deleted' /\ DeletedIsUnused'
  BY DEF Ending, EndPC, Over, TearingDown, Waiting, Announced, Started, Deleted, DeletedIsUnused
<1>5. QED
  BY <1>1, <1>2, <1>3, <1>4

LEMMA UpdateBeginKeeps ==
  ASSUME IInv, NEW c \in Conn, UpdateBegin(c)
  PROVE  IInv'
<1> USE ThreadsDiffer DEF UpdateBegin, Goto, sendVars, handlerVars, peerVars, IInv, Types
<1>1. Types'
  BY DEF UpdatePC
<1>2. Announced' /\ Started' /\ Waiting'
  BY DEF UpdatePC, Announced, Started, Waiting
<1>3. Ending' /\ TearingDown'
  BY DEF Ending, EndPC, Over, TearingDown, Announced, Started
<1>4. Deleted' /\ DeletedIsUnused'
  BY DEF Ending, EndPC, Over, TearingDown, Waiting, Announced, Started, Deleted, DeletedIsUnused
<1>5. QED
  BY <1>1, <1>2, <1>3, <1>4

LEMMA UpdateTestKeeps ==
  ASSUME IInv, NEW c \in Conn, UpdateTest(c)
  PROVE  IInv'
<1> USE ThreadsDiffer DEF UpdateTest, Goto, connVars, sendVars, handlerVars, peerVars, IInv, Types
<1>1. Types'
  BY DEF UpdatePC
<1>2. Announced' /\ Started' /\ Waiting'
  BY DEF UpdatePC, Announced, Started, Waiting
<1>3. Ending' /\ TearingDown'
  BY DEF Ending, EndPC, Over, TearingDown, Announced, Started
<1>4. Deleted' /\ DeletedIsUnused'
  BY DEF Ending, EndPC, Over, TearingDown, Waiting, Announced, Started, Deleted, DeletedIsUnused
<1>5. QED
  BY <1>1, <1>2, <1>3, <1>4

LEMMA UpdateReceivesKeeps ==
  ASSUME IInv, NEW c \in Conn, UpdateReceives(c)
  PROVE  IInv'
<1> USE ThreadsDiffer DEF UpdateReceives, Dispatch, connVars, sendVars, IInv, Types
<1>1. Types'
  BY DEF UpdatePC
<1>2. Announced' /\ Started' /\ Waiting'
  BY DEF UpdatePC, Announced, Started, Waiting
<1>3. Ending' /\ TearingDown'
  BY DEF Ending, EndPC, Over, TearingDown, Announced, Started
<1>4. Deleted' /\ DeletedIsUnused'
  BY DEF Ending, EndPC, Over, TearingDown, Waiting, Announced, Started, Deleted, DeletedIsUnused
<1>5. QED
  BY <1>1, <1>2, <1>3, <1>4

LEMMA UpdateTimesOutKeeps ==
  ASSUME IInv, NEW c \in Conn, UpdateTimesOut(c)
  PROVE  IInv'
<1> USE ThreadsDiffer DEF UpdateTimesOut, Goto, connVars, sendVars, handlerVars, peerVars, IInv, Types
<1>1. Types'
  BY DEF UpdatePC
<1>2. Announced' /\ Started' /\ Waiting'
  BY DEF UpdatePC, Announced, Started, Waiting
<1>3. Ending' /\ TearingDown'
  BY DEF Ending, EndPC, Over, TearingDown, Announced, Started
<1>4. Deleted' /\ DeletedIsUnused'
  BY DEF Ending, EndPC, Over, TearingDown, Waiting, Announced, Started, Deleted, DeletedIsUnused
<1>5. QED
  BY <1>1, <1>2, <1>3, <1>4

LEMMA UpdateFailsKeeps ==
  ASSUME IInv, NEW c \in Conn, UpdateFails(c)
  PROVE  IInv'
<1> USE ThreadsDiffer DEF UpdateFails, Goto, connVars, sendVars, handlerVars, peerVars, IInv, Types
<1>1. Types'
  BY DEF UpdatePC
<1>2. Announced' /\ Started' /\ Waiting'
  BY DEF UpdatePC, Announced, Started, Waiting
<1>3. Ending' /\ TearingDown'
  BY DEF Ending, EndPC, Over, TearingDown, Announced, Started
<1>4. Deleted' /\ DeletedIsUnused'
  BY DEF Ending, EndPC, Over, TearingDown, Waiting, Announced, Started, Deleted, DeletedIsUnused
<1>5. QED
  BY <1>1, <1>2, <1>3, <1>4

LEMMA UpdateFinishKeeps ==
  ASSUME IInv, NEW c \in Conn, UpdateFinish(c)
  PROVE  IInv'
<1> USE ThreadsDiffer DEF UpdateFinish, Goto, sendVars, handlerVars, peerVars, IInv, Types
<1>1. Types'
  BY DEF UpdatePC
<1>2. Announced' /\ Started' /\ Waiting'
  BY DEF UpdatePC, Announced, Started, Waiting
<1>3. Ending' /\ TearingDown'
  BY DEF Ending, EndPC, Over, TearingDown, Announced, Started
<1>4. Deleted' /\ DeletedIsUnused'
  BY DEF Ending, EndPC, Over, TearingDown, Waiting, Announced, Started, Deleted, DeletedIsUnused
<1>5. QED
  BY <1>1, <1>2, <1>3, <1>4

LEMMA UpdateSignalKeeps ==
  ASSUME IInv, NEW c \in Conn, UpdateSignal(c)
  PROVE  IInv'
<1> USE ThreadsDiffer DEF UpdateSignal, Goto, connVars, sendVars, handlerVars, peerVars, IInv, Types
<1>1. Types'
  BY DEF UpdatePC
<1>2. Announced' /\ Started' /\ Waiting'
  BY DEF UpdatePC, Announced, Started, Waiting
<1>3. Ending' /\ TearingDown'
  BY DEF Ending, EndPC, Over, TearingDown, Announced, Started
<1>4. Deleted' /\ DeletedIsUnused'
  BY DEF Ending, EndPC, Over, TearingDown, Waiting, Announced, Started, Deleted, DeletedIsUnused
<1>5. QED
  BY <1>1, <1>2, <1>3, <1>4

LEMMA CallRequestKeeps ==
  ASSUME IInv, NEW c \in Conn, CallRequest(c)
  PROVE  IInv'
<1> USE ThreadsDiffer DEF CallRequest, Goto, connVars, sendVars, handlerVars, peerVars, IInv, Types
<1>1. Types'
  BY DEF UpdatePC
<1>2. Announced' /\ Started' /\ Waiting'
  BY DEF UpdatePC, Announced, Started, Waiting
<1>3. Ending' /\ TearingDown'
  BY DEF Ending, EndPC, Over, TearingDown, Announced, Started
<1>4. Deleted' /\ DeletedIsUnused'
  BY DEF Ending, EndPC, Over, TearingDown, Waiting, Announced, Started, Deleted, DeletedIsUnused
<1>5. QED
  BY <1>1, <1>2, <1>3, <1>4

LEMMA RequestReceivesKeeps ==
  ASSUME IInv, RequestReceives
  PROVE  IInv'
<1> USE ThreadsDiffer DEF RequestReceives, Dispatch, connVars, sendVars, IInv, Types
<1>1. Types'
  BY DEF UpdatePC
<1>2. Announced' /\ Started' /\ Waiting'
  BY DEF UpdatePC, Announced, Started, Waiting
<1>3. Ending' /\ TearingDown'
  BY DEF Ending, EndPC, Over, TearingDown, Announced, Started
<1>4. Deleted' /\ DeletedIsUnused'
  BY DEF Ending, EndPC, Over, TearingDown, Waiting, Announced, Started, Deleted, DeletedIsUnused
<1>5. QED
  BY <1>1, <1>2, <1>3, <1>4

LEMMA RequestFailsKeeps ==
  ASSUME IInv, RequestFails
  PROVE  IInv'
<1> USE ThreadsDiffer DEF RequestFails, Goto, connVars, sendVars, handlerVars, peerVars, IInv, Types
<1>1. Types'
  BY DEF UpdatePC
<1>2. Announced' /\ Started' /\ Waiting'
  BY DEF UpdatePC, Announced, Started, Waiting
<1>3. Ending' /\ TearingDown'
  BY DEF Ending, EndPC, Over, TearingDown, Announced, Started
<1>4. Deleted' /\ DeletedIsUnused'
  BY DEF Ending, EndPC, Over, TearingDown, Waiting, Announced, Started, Deleted, DeletedIsUnused
<1>5. QED
  BY <1>1, <1>2, <1>3, <1>4

LEMMA RequestRetriesKeeps ==
  ASSUME IInv, RequestRetries
  PROVE  IInv'
<1> USE ThreadsDiffer DEF RequestRetries, Goto, connVars, sendVars, handlerVars, peerVars, IInv, Types
<1>1. Types'
  BY DEF UpdatePC
<1>2. Announced' /\ Started' /\ Waiting'
  BY DEF UpdatePC, Announced, Started, Waiting
<1>3. Ending' /\ TearingDown'
  BY DEF Ending, EndPC, Over, TearingDown, Announced, Started
<1>4. Deleted' /\ DeletedIsUnused'
  BY DEF Ending, EndPC, Over, TearingDown, Waiting, Announced, Started, Deleted, DeletedIsUnused
<1>5. QED
  BY <1>1, <1>2, <1>3, <1>4

LEMMA SendTestKeeps ==
  ASSUME IInv, NEW c \in Conn, SendTest(c)
  PROVE  IInv'
<1> USE ThreadsDiffer DEF SendTest, connVars, handlerVars, peerVars, IInv, Types
<1>1. Types'
  BY DEF UpdatePC
<1>2. Announced' /\ Started' /\ Waiting'
  BY DEF UpdatePC, Announced, Started, Waiting
<1>3. Ending' /\ TearingDown'
  BY DEF Ending, EndPC, Over, TearingDown, Announced, Started
<1>4. Deleted' /\ DeletedIsUnused'
  BY DEF Ending, EndPC, Over, TearingDown, Waiting, Announced, Started, Deleted, DeletedIsUnused
<1>5. QED
  BY <1>1, <1>2, <1>3, <1>4

LEMMA SendWaitKeeps ==
  ASSUME IInv, NEW c \in Conn, SendWait(c)
  PROVE  IInv'
<1> USE ThreadsDiffer DEF SendWait, connVars, handlerVars, peerVars, IInv, Types
<1>1. Types'
  BY DEF UpdatePC
<1>2. Announced' /\ Started' /\ Waiting'
  BY DEF UpdatePC, Announced, Started, Waiting
<1>3. Ending' /\ TearingDown'
  BY DEF Ending, EndPC, Over, TearingDown, Announced, Started
<1>4. Deleted' /\ DeletedIsUnused'
  BY DEF Ending, EndPC, Over, TearingDown, Waiting, Announced, Started, Deleted, DeletedIsUnused
<1>5. QED
  BY <1>1, <1>2, <1>3, <1>4

LEMMA SendPullKeeps ==
  ASSUME IInv, NEW c \in Conn, SendPull(c)
  PROVE  IInv'
<1> USE ThreadsDiffer DEF SendPull, connVars, handlerVars, peerVars, IInv, Types
<1>1. Types'
  BY DEF UpdatePC
<1>2. Announced' /\ Started' /\ Waiting'
  BY DEF UpdatePC, Announced, Started, Waiting
<1>3. Ending' /\ TearingDown'
  BY DEF Ending, EndPC, Over, TearingDown, Announced, Started
<1>4. Deleted' /\ DeletedIsUnused'
  BY DEF Ending, EndPC, Over, TearingDown, Waiting, Announced, Started, Deleted, DeletedIsUnused
<1>5. QED
  BY <1>1, <1>2, <1>3, <1>4

LEMMA TeardownKeeps ==
  ASSUME IInv, Teardown
  PROVE  IInv'
<1> USE ThreadsDiffer DEF Teardown, Goto, connVars, sendVars, handlerVars, peerVars, IInv, Types
<1>1. Types'
  BY DEF UpdatePC
<1>2. Announced' /\ Started' /\ Waiting'
  BY DEF UpdatePC, Announced, Started, Waiting
<1>3. Ending' /\ TearingDown'
  BY DEF Ending, EndPC, Over, TearingDown, Announced, Started
<1>4. Deleted' /\ DeletedIsUnused'
  BY DEF Ending, EndPC, Over, TearingDown, Waiting, Announced, Started, Deleted, DeletedIsUnused
<1>5. QED
  BY <1>1, <1>2, <1>3, <1>4

LEMMA TeardownAsyncKeeps ==
  ASSUME IInv, TeardownAsync
  PROVE  IInv'
<1> USE ThreadsDiffer DEF TeardownAsync, Goto, connVars, sendVars, handlerVars, peerVars, IInv, Types
<1>1. Types'
  BY DEF UpdatePC
<1>2. Announced' /\ Started' /\ Waiting'
  BY DEF UpdatePC, Announced, Started, Waiting
<1>3. Ending' /\ TearingDown'
  BY DEF Ending, EndPC, Over, TearingDown, Announced, Started
<1>4. Deleted' /\ DeletedIsUnused'
  BY DEF Ending, EndPC, Over, TearingDown, Waiting, Announced, Started, Deleted, DeletedIsUnused
<1>5. QED
  BY <1>1, <1>2, <1>3, <1>4

LEMMA TeardownSleepKeeps ==
  ASSUME IInv, TeardownSleep
  PROVE  IInv'
<1> USE ThreadsDiffer DEF TeardownSleep, Goto, connVars, sendVars, handlerVars, peerVars, IInv, Types
<1>1. Types'
  BY DEF UpdatePC
<1>2. Announced' /\ Started' /\ Waiting'
  BY DEF UpdatePC, Announced, Started, Waiting
<1>3. Ending' /\ TearingDown'
  BY DEF Ending, EndPC, Over, TearingDown, Announced, Started, Waiting
<1>4. Deleted' /\ DeletedIsUnused'
  BY DEF Ending, EndPC, Over, TearingDown, Waiting, Announced, Started, Deleted, DeletedIsUnused
<1>5. QED
  BY <1>1, <1>2, <1>3, <1>4

LEMMA TeardownCloseKeeps ==
  ASSUME IInv, TeardownClose
  PROVE  IInv'
<1> USE ThreadsDiffer DEF TeardownClose, Goto, sendVars, handlerVars, IInv, Types
<1>1. Types'
  BY DEF UpdatePC
<1>2. Announced' /\ Started' /\ Waiting'
  BY DEF UpdatePC, Announced, Started, Waiting
<1>3. Ending' /\ TearingDown'
  BY DEF Ending, EndPC, Over, TearingDown, Announced, Started
<1>4. Deleted' /\ DeletedIsUnused'
  BY DEF Ending, EndPC, Over, TearingDown, Waiting, Announced, Started, Deleted, DeletedIsUnused
<1>5. QED
  BY <1>1, <1>2, <1>3, <1>4

LEMMA TeardownHandlersKeeps ==
  ASSUME IInv, TeardownHandlers
  PROVE  IInv'
<1> USE ThreadsDiffer DEF TeardownHandlers, Goto, connVars, sendVars, peerVars, IInv, Types
<1>1. Types'
  BY DEF UpdatePC
<1>2. Announced' /\ Started' /\ Waiting'
  BY DEF UpdatePC, Announced, Started, Waiting
<1>3. Ending' /\ TearingDown'
  BY DEF Ending, EndPC, Over, TearingDown, Announced, Started
<1>4. Deleted' /\ DeletedIsUnused'
  BY DEF Ending, EndPC, Over, TearingDown, Waiting, Announced, Started, Deleted, DeletedIsUnused
<1>5. QED
  BY <1>1, <1>2, <1>3, <1>4

LEMMA TeardownDeleteKeeps ==
  ASSUME IInv, TeardownDelete
  PROVE  IInv'
<1> USE ThreadsDiffer DEF TeardownDelete, Goto, sendVars, handlerVars, peerVars, IInv, Types
<1>1. Types'
  BY DEF UpdatePC
<1>2. Announced' /\ Started' /\ Waiting'
  BY DEF UpdatePC, Announced, Started, Waiting
<1>3. Ending' /\ TearingDown'
  BY DEF Ending, EndPC, Over, TearingDown, Announced, Started
<1>4. Deleted' /\ DeletedIsUnused'
  BY DEF Ending, EndPC, Over, TearingDown, Waiting, Announced, Started, Deleted, DeletedIsUnused
<1>5. QED
  BY <1>1, <1>2, <1>3, <1>4

\* DeletedIsUnused with what it rests on.
THEOREM ClientInvariant == Spec => []IInv
<1>1. Init => IInv
  BY ClientInitHolds
<1>2. IInv /\ [Next]_vars => IInv'
  <2> SUFFICES ASSUME IInv, [Next]_vars  PROVE IInv'
    OBVIOUS
  <2>1. CASE \/ \E c \in Conn : PeerSends(c) \/ PeerCloses(c) \/ SendPacket(c)
             \/ \E w \in Worker : HandlerTest(w) \/ HandlerWork(w)
             \/ UNCHANGED vars
    BY <2>1, UnseenStep
  <2>2. CASE \E t \in Thread : EndStep(t)
    BY <2>2, CloseKeeps, SetInactiveKeeps, RemoveConnectionKeeps, AwaitUpdateKeeps,
       WaitForUpdateKeeps, WakeSendKeeps, DeleteConnectionKeeps DEF EndStep
  <2>3. CASE \E t \in Thread : DisconnectAll(t) \/ StopRunning(t)
    BY <2>3, DisconnectAllKeeps, StopRunningKeeps
  <2>4. CASE \E c \in Conn : UpdateBegin(c) \/ UpdateTest(c) \/ UpdateReceives(c) \/ UpdateTimesOut(c)
                               \/ UpdateFails(c) \/ UpdateFinish(c) \/ UpdateSignal(c)
    BY <2>4, UpdateBeginKeeps, UpdateTestKeeps, UpdateReceivesKeeps, UpdateTimesOutKeeps,
       UpdateFailsKeeps, UpdateFinishKeeps, UpdateSignalKeeps
  <2>5. CASE \E c \in Conn : SendStep(c)
    BY <2>5, SendTestKeeps, SendWaitKeeps, SendPullKeeps DEF SendStep
  <2>6. CASE \E c \in Conn : Connect(c) \/ StartClient(c) \/ CallEnd(c) \/ CallRequest(c)
    BY <2>6, ConnectKeeps, StartClientKeeps, CallEndKeeps, CallRequestKeeps
  <2>7. CASE StartConnection \/ RequestReceives \/ RequestFails \/ RequestRetries
    BY <2>7, StartConnectionKeeps, RequestReceivesKeeps, RequestFailsKeeps, RequestRetriesKeeps
  <2>8. CASE Teardown \/ TeardownAsync \/ TeardownSleep \/ TeardownClose \/ TeardownHandlers \/ TeardownDelete
    BY <2>8, TeardownKeeps, TeardownAsyncKeeps, TeardownSleepKeeps, TeardownCloseKeeps,
       TeardownHandlersKeeps, TeardownDeleteKeeps
  <2>9. QED
    BY <2>1, <2>2, <2>3, <2>4, <2>5, <2>6, <2>7, <2>8, ThreadsDiffer
    DEF Next, UpdateStep, HandlerStep, AppStep, Calls
<1>3. QED
  BY <1>1, <1>2, PTL DEF Spec

-----------------------------------------------------------------------------
(* What the send thread sends                                              *)

\* The packets of a connection are numbered as they are given, and those in its
\* queue come after the last one that was sent, unless the thread gave up.
Numbered ==
    /\ sent \in [Conn -> Nat] /\ jobs \in [Conn -> Seq(Nat)]
    /\ \A c \in Conn : spc[c] # "ended" => \A i \in 1 .. Len(jobs[c]) : jobs[c][i] = sent[c] + i

LEMMA SendPacketNumbers ==
  ASSUME IInv, Numbered, NEW c \in Conn, SendPacket(c)
  PROVE  Numbered' /\ sent' = sent
<1> DEFINE n == sent[c] + Len(jobs[c]) + 1
<1>1. /\ jobs' = [jobs EXCEPT ![c] = Append(@, n)] /\ sent' = sent /\ spc' = spc
      /\ sent[c] \in Nat /\ jobs[c] \in Seq(Nat) /\ n \in Nat
  BY DEF SendPacket, Numbered
<1>2. jobs' \in [Conn -> Seq(Nat)] /\ jobs'[c] = Append(jobs[c], n)
      /\ \A d \in Conn : d # c => jobs'[d] = jobs[d]
  BY <1>1 DEF Numbered
<1>3. \A i \in 1 .. Len(jobs'[c]) : jobs'[c][i] = IF i = Len(jobs[c]) + 1 THEN n ELSE jobs[c][i]
  BY <1>1, <1>2
<1>4. Len(jobs'[c]) = Len(jobs[c]) + 1
  BY <1>1, <1>2
<1>5. ASSUME NEW d \in Conn, spc'[d] # "ended", NEW i \in 1 .. Len(jobs'[d])
      PROVE  jobs'[d][i] = sent'[d] + i
  <2>1. CASE d = c
    <3>1. spc[c] # "ended" /\ sent'[c] = sent[c] /\ Len(jobs[c]) \in Nat
      BY <1>1, <1>5, <2>1
    <3>2. CASE i = Len(jobs[c]) + 1
      BY <1>1, <1>3, <2>1, <3>1, <3>2
    <3>3. CASE i # Len(jobs[c]) + 1
      <4>1. i \in 1 .. Len(jobs[c])
        BY <1>4, <2>1, <3>1, <3>3
      <4>2. jobs'[c][i] = jobs[c][i]
        BY <1>3, <2>1, <3>3
      <4>3. QED
        BY <2>1, <3>1, <4>1, <4>2 DEF Numbered
    <3>4. QED
      BY <3>2, <3>3
  <2>2. CASE d # c
    BY <1>1, <1>2, <1>5, <2>2 DEF Numbered
  <2>3. QED
    BY <2>1, <2>2
<1>6. sent' \in [Conn -> Nat]
  BY <1>1 DEF Numbered
<1>7. QED
  BY <1>1, <1>2, <1>5, <1>6 DEF Numbered

LEMMA SendPullNumbers ==
  ASSUME IInv, Numbered, NEW c \in Conn, SendPull(c)
  PROVE  Numbered' /\ sent' \in [Conn -> Nat] /\ \A d \in Conn : sent'[d] \in {sent[d], sent[d] + 1}
<1>1. sent[c] \in Nat /\ jobs[c] \in Seq(Nat) /\ spc[c] = "pull"
  BY DEF Numbered, SendPull
<1>2. CASE jobs[c] = <<>>
  BY <1>1, <1>2 DEF Numbered, SendPull, IInv, Types
<1>3. CASE jobs[c] # <<>>
  <2>1. /\ Head(jobs[c]) = jobs[c][1] /\ jobs[c][1] = sent[c] + 1 /\ Tail(jobs[c]) \in Seq(Nat)
        /\ \A i \in 1 .. Len(Tail(jobs[c])) : Tail(jobs[c])[i] = jobs[c][i + 1] /\ i + 1 \in 1 .. Len(jobs[c])
    BY <1>1, <1>3 DEF Numbered
  <2>2. /\ jobs' \in [Conn -> Seq(Nat)] /\ jobs'[c] = Tail(jobs[c])
        /\ \A d \in Conn : d # c => jobs'[d] = jobs[d] /\ spc'[d] = spc[d]
    BY <1>3, <2>1 DEF Numbered, SendPull, IInv, Types
  <2>3. \/ sent' = [sent EXCEPT ![c] = sent[c] + 1]
        \/ sent' = sent /\ spc'[c] = "ended"
    BY <1>3, <2>1 DEF SendPull, IInv, Types
  <2>4. /\ sent' \in [Conn -> Nat] /\ \A d \in Conn : d # c => sent'[d] = sent[d]
        /\ sent'[c] = sent[c] + 1 \/ (sent'[c] = sent[c] /\ spc'[c] = "ended")
    BY <1>1, <2>3 DEF Numbered
  <2>5. spc'[c] # "ended" => \A i \in 1 .. Len(jobs'[c]) : jobs'[c][i] = sent'[c] + i
    <3> SUFFICES ASSUME spc'[c] # "ended", NEW i \in 1 .. Len(Tail(jobs[c]))
                 PROVE  Tail(jobs[c])[i] = sent'[c] + i
      BY <2>2
    <3>1. jobs[c][i + 1] = sent[c] + (i + 1)
      BY <1>1, <2>1 DEF Numbered
    <3>2. i \in Int /\ sent'[c] = sent[c] + 1
      BY <2>4
    <3>3. QED
      BY <1>1, <2>1, <3>1, <3>2
  <2>6. QED
    BY <2>2, <2>4, <2>5 DEF Numbered
<1>4. QED
  BY <1>2, <1>3

\* No other step sends, and a thread that sends begins with a new connection.
LEMMA OthersDoNotSend ==
  ASSUME IInv, Numbered, [Next]_vars
  PROVE  \/ UNCHANGED <<sent, jobs>> /\ \A c \in Conn : spc[c] = "ended" => spc'[c] = "ended"
         \/ \E c \in Conn : SendPacket(c) \/ SendPull(c)
<1> USE DEF connVars, sendVars, handlerVars, peerVars
<1>1. CASE \E c \in Conn : PeerSends(c) \/ PeerCloses(c)
  BY <1>1 DEF PeerSends, PeerCloses
<1>2. CASE \E t \in Thread : EndStep(t) \/ DisconnectAll(t) \/ StopRunning(t)
  BY <1>2 DEF EndStep, Close, SetInactive, RemoveConnection, AwaitUpdate, WaitForUpdate, WakeSend,
              DeleteConnection,               DisconnectAll, StopRunning
<1>3. CASE \E c \in Conn : UpdateBegin(c) \/ UpdateTest(c) \/ UpdateReceives(c) \/ UpdateTimesOut(c)
                         \/ UpdateFails(c) \/ UpdateFinish(c) \/ UpdateSignal(c)
  BY <1>3 DEF UpdateBegin, UpdateTest, UpdateReceives, UpdateTimesOut, UpdateFails, UpdateFinish,
              UpdateSignal
<1>4. CASE \E c \in Conn : SendTest(c) \/ SendWait(c)
  BY <1>4 DEF SendTest, SendWait, IInv, Types
<1>5. CASE \E w \in Worker : HandlerStep(w)
  BY <1>5 DEF HandlerStep, HandlerTest, HandlerWork
<1>6. CASE StartConnection
  <2>1. spc[target] = "none" /\ target \in Conn
    BY <1>6 DEF StartConnection, IInv, Types, Started
  <2>2. QED
    BY <1>6, <2>1 DEF StartConnection, IInv, Types
<1>7. CASE RequestReceives \/ RequestFails \/ RequestRetries
  BY <1>7 DEF RequestReceives, RequestFails, RequestRetries
<1>8. CASE \E c \in Conn : Connect(c) \/ StartClient(c) \/ CallEnd(c) \/ CallRequest(c)
  BY <1>8 DEF Connect, StartClient, CallEnd, CallRequest
<1>9. CASE Teardown \/ TeardownAsync \/ TeardownSleep \/ TeardownClose \/ TeardownHandlers \/ TeardownDelete
  BY <1>9 DEF Teardown, TeardownAsync, TeardownSleep, TeardownClose, TeardownHandlers, TeardownDelete
<1>10. CASE UNCHANGED vars
  BY <1>10 DEF vars
<1>11. QED
  BY <1>1, <1>2, <1>3, <1>4, <1>5, <1>6, <1>7, <1>8, <1>9, <1>10, ThreadsDiffer
  DEF Next, UpdateStep, SendStep, AppStep, Calls

\* What connection_send_thread () sends of a queue is numbered without a gap,
\* although jobs and tokens come from other threads.
THEOREM SentCorrect == Spec => SendsInOrder
<1>1. Init => Numbered
  BY DEF Init, Numbered
<1>2. IInv /\ Numbered /\ [Next]_vars => Numbered' /\ [\A c \in Queued : sent'[c] \in {sent[c], sent[c] + 1}]_sent
  <2> SUFFICES ASSUME IInv, Numbered, [Next]_vars
               PROVE  Numbered' /\ [\A c \in Queued : sent'[c] \in {sent[c], sent[c] + 1}]_sent
    OBVIOUS
  <2>1. CASE UNCHANGED <<sent, jobs>> /\ \A c \in Conn : spc[c] = "ended" => spc'[c] = "ended"
    BY <2>1 DEF Numbered
  <2>2. CASE \E c \in Conn : SendPacket(c) \/ SendPull(c)
    BY <2>2, SendPacketNumbers, SendPullNumbers, ConnectingAssumption
  <2>3. QED
    BY <2>1, <2>2, OthersDoNotSend
<1>3. QED
  BY <1>1, <1>2, ClientInvariant, PTL DEF Spec, SendsInOrder

-----------------------------------------------------------------------------
(***************************************************************************)
(* The tables of events and errors                                         *)
(***************************************************************************)
EventTypes ==
    /\ table \in E!Table /\ callers \subseteq Trigger
    /\ shared \in BOOLEAN /\ overlap \in BOOLEAN /\ own \in BOOLEAN
    /\ DOMAIN entry = Entry
    /\ \A e \in Entry : entry[e] = Nil \/ entry[e] \in [thread : BOOLEAN, drop : BOOLEAN]
    /\ slot = Nil \/ slot \in E!Used
    /\ DOMAIN epc = Trigger /\ \A t \in Trigger : epc[t] \in {"idle", "run", "call", "drop"}
    /\ DOMAIN event = Trigger /\ \A t \in Trigger : event[t] = Nil <=> epc[t] = "idle"
    /\ \A t \in Trigger : event[t] = Nil \/ event[t] \in E!Used
    /\ DOMAIN change = Trigger
    /\ \A t \in Trigger : change[t] \in {"none", "test", "delete", "clear", "store"}
    /\ DOMAIN new = Trigger /\ \A t \in Trigger : new[t] = Nil \/ new[t] \in E!Used
    /\ \A t \in Trigger : change[t] = "none" => new[t] = Nil
    /\ \A t \in Trigger : change[t] = "store" => new[t] # Nil
    /\ \A t \in Trigger \ callers : change[t] = "none" /\ epc[t] = "idle"

\* What was registered was deleted, is in the table or about to be.
Accounted == E!Used = deleted \cup (({slot} \cup {new[t] : t \in Trigger}) \ {Nil})

\* The one thread that changes the table knows what is in it.
OneChanges ==
    /\ \A t, u \in Trigger : change[t] # "none" /\ t # u => change[u] = "none"
    /\ slot \in deleted => \E t \in Trigger : change[t] = "clear"
    /\ \A t \in Trigger :
         /\ change[t] = "delete" => slot # Nil
         /\ change[t] = "clear" => slot \in deleted
         /\ change[t] = "store" => slot = Nil
         /\ new[t] # Nil => new[t] \notin deleted /\ new[t] # slot
DeletedOnce == ~ overlap => twice = {} /\ Accounted /\ OneChanges

\* A thread that is alone finds in the table what it read from it, changes the
\* table only between its triggers, and a work runs only while it waits for it.
OneCaller == Cardinality(callers) = 1 /\ (\A e \in E!Used : ~ entry[e].thread) /\ ~ own
UsedAlone ==
    /\ ~ shared /\ ~ overlap
    /\ \A t \in Trigger : epc[t] # "idle" => t \in callers /\ slot = event[t] /\ change[t] = "none"
    /\ \A w \in works : \E t \in callers : epc[t] = "call" /\ w = E!Data(event[t])

EventInv == EventTypes /\ DeletedOnce /\ (OneCaller => UsedAlone)

LEMMA SameCardinality == \A S : E!Cardinality(S) = Cardinality(S)
BY DEF E!Cardinality, Cardinality

LEMMA TheCaller ==
  ASSUME EventTypes, OneCaller
  PROVE  \E t \in Trigger : callers = {t}
BY FS_Subset, FS_Singleton, ConnectingAssumption DEF EventTypes, OneCaller

LEMMA DataEntry ==
  ASSUME EventTypes, NEW e
  PROVE  E!Data(e).entry = e
BY DEF EventTypes, E!Table, E!Data, E!CerverEventData, E!CerverErrorData, E!ClientEventData, E!ClientErrorData

LEMMA NilIsUnused == Nil \notin E!Used /\ Nil \notin Entry
BY ConnectingAssumption DEF E!Used

LEMMA EventInitHolds == E!Init => EventInv
<1> SUFFICES ASSUME E!Init  PROVE EventInv
  OBVIOUS
<1>1. E!Used = {}
  BY DEF E!Init, E!Used
<1>2. EventTypes /\ UsedAlone
  BY <1>1 DEF E!Init, EventTypes, UsedAlone
<1>3. Accounted /\ OneChanges
  BY <1>1 DEF E!Init, Accounted, OneChanges
<1>4. QED
  BY <1>2, <1>3 DEF E!Init, EventInv, DeletedOnce

\* A thread that is alone and changes the table is in no trigger, and no work runs.
LEMMA NotHeld ==
  ASSUME EventInv, OneCaller, NEW t \in callers, change[t] # "none" \/ epc[t] = "idle"
  PROVE  /\ ~ shared /\ ~ overlap /\ works = {} /\ callers = {t}
         /\ \A u \in Trigger : epc[u] = "idle" /\ event[u] = Nil
         /\ \A u \in Trigger : u # t => change[u] = "none"
<1>1. callers = {t} /\ t \in Trigger
  BY TheCaller DEF EventInv
<1>2. \A u \in Trigger : epc[u] = "idle"
  BY <1>1 DEF EventInv, UsedAlone
<1>3. works = {} /\ ~ shared /\ ~ overlap
  BY <1>1, <1>2 DEF EventInv, UsedAlone
<1>4. \A u \in Trigger : event[u] = Nil /\ (u # t => change[u] = "none")
  BY <1>1, <1>2 DEF EventInv, EventTypes
<1>5. QED
  BY <1>1, <1>2, <1>3, <1>4

\* A change that begins while another runs is an overlap.
LEMMA BeginsAlone ==
  ASSUME EventInv, NEW t \in callers, E!Begin(t)
  PROVE  /\ overlap' \in BOOLEAN /\ change[t] = "none" /\ new[t] = Nil
         /\ ~ overlap' => /\ ~ overlap /\ twice = {} /\ Accounted /\ OneChanges
                          /\ \A u \in Trigger : change[u] = "none" /\ new[u] = Nil
                          /\ slot \notin deleted
         /\ OneCaller => ~ overlap'
<1>1. t \in Trigger /\ overlap' \in BOOLEAN /\ change[t] = "none" /\ new[t] = Nil
  BY DEF E!Begin, EventInv, EventTypes
<1>2. ASSUME ~ overlap'
      PROVE  /\ ~ overlap /\ twice = {} /\ Accounted /\ OneChanges
             /\ \A u \in Trigger : change[u] = "none" /\ new[u] = Nil
             /\ slot \notin deleted
  <2>1. ~ overlap /\ \A u \in Trigger : change[u] = "none"
    BY <1>1, <1>2 DEF E!Begin
  <2>2. twice = {} /\ Accounted /\ OneChanges
    BY <2>1 DEF EventInv, DeletedOnce
  <2>3. \A u \in Trigger : new[u] = Nil
    BY <2>1 DEF EventInv, EventTypes
  <2>4. slot \notin deleted
    BY <2>1, <2>2 DEF OneChanges
  <2>5. QED
    BY <2>1, <2>2, <2>3, <2>4
<1>3. ASSUME OneCaller
      PROVE  ~ overlap'
  <2>1. callers = {t} /\ UsedAlone
    BY <1>3, TheCaller DEF EventInv
  <2>2. QED
    BY <2>1 DEF E!Begin, UsedAlone, EventInv, EventTypes
<1>4. QED
  BY <1>1, <1>2, <1>3

\* What is registered stays known as it was registered.
LEMMA RegisterUses ==
  ASSUME EventTypes, NEW e \in Entry \ E!Used, NEW r \in [thread : BOOLEAN, drop : BOOLEAN],
         entry' = [entry EXCEPT ![e] = r]
  PROVE  /\ DOMAIN entry' = Entry /\ entry'[e] = r /\ \A d \in Entry \ {e} : entry'[d] = entry[d]
         /\ E!Used' = E!Used \cup {e} /\ e # Nil
<1>1. DOMAIN entry' = Entry /\ entry'[e] = r /\ \A d \in Entry \ {e} : entry'[d] = entry[d]
  BY DEF EventTypes
<1>2. E!Used' = E!Used \cup {e}
  BY <1>1, ConnectingAssumption DEF E!Used
<1>3. QED
  BY <1>1, <1>2, ConnectingAssumption

LEMMA RegisterKeepsEvents ==
  ASSUME EventInv, NEW t \in callers, E!Register(t)
  PROVE  EventInv'
<1>1. PICK e \in Entry \ E!Used, thread \in BOOLEAN, drop \in BOOLEAN :
           /\ epc[t] \in {"idle", "call"} /\ E!Begin(t)
           /\ entry' = [entry EXCEPT ![e] = [thread |-> thread, drop |-> drop]]
           /\ new' = [new EXCEPT ![t] = e]
           /\ change' = [change EXCEPT ![t] = "test"]
           /\ own' = (own \/ epc[t] = "call")
           /\ UNCHANGED <<table, callers, slot, deleted, twice, epc, event, works, shared>>
  BY DEF E!Register
<1> DEFINE r == [thread |-> thread, drop |-> drop]
<1>2. r \in [thread : BOOLEAN, drop : BOOLEAN] /\ entry' = [entry EXCEPT ![e] = r]
  BY <1>1
<1>3. /\ DOMAIN entry' = Entry /\ entry'[e] = r /\ \A d \in Entry \ {e} : entry'[d] = entry[d]
      /\ E!Used' = E!Used \cup {e} /\ e # Nil /\ t \in Trigger
  BY <1>2, RegisterUses DEF EventInv, EventTypes
<1>4. /\ DOMAIN new' = Trigger /\ new'[t] = e /\ \A u \in Trigger \ {t} : new'[u] = new[u]
      /\ DOMAIN change' = Trigger /\ change'[t] = "test" /\ \A u \in Trigger \ {t} : change'[u] = change[u]
  BY <1>1, <1>3 DEF EventInv, EventTypes
<1>5. EventTypes'
  <2>1. overlap' \in BOOLEAN /\ own' \in BOOLEAN
    BY <1>1, BeginsAlone DEF EventInv, EventTypes
  <2>2. \A d \in Entry : entry'[d] = Nil \/ entry'[d] \in [thread : BOOLEAN, drop : BOOLEAN]
    BY <1>2, <1>3 DEF EventInv, EventTypes
  <2>3. QED
    BY <1>1, <1>3, <1>4, <2>1, <2>2 DEF EventInv, EventTypes
<1>6. DeletedOnce'
  <2> SUFFICES ASSUME ~ overlap'
               PROVE  (twice = {} /\ Accounted /\ OneChanges)'
    BY DEF DeletedOnce
  <2>1. /\ twice = {} /\ Accounted /\ OneChanges /\ slot \notin deleted
        /\ \A u \in Trigger : change[u] = "none" /\ new[u] = Nil
    BY <1>1, BeginsAlone
  <2>2. e \notin deleted /\ e # slot
    <3>1. e \notin E!Used /\ e # Nil
      BY <1>3
    <3>2. deleted \subseteq E!Used /\ (slot = Nil \/ slot \in E!Used)
      BY <2>1 DEF Accounted, EventInv, EventTypes
    <3>3. QED
      BY <3>1, <3>2
  <2>3. Accounted'
    BY <1>1, <1>3, <1>4, <2>1 DEF Accounted
  <2>4. OneChanges'
    BY <1>1, <1>3, <1>4, <2>1, <2>2 DEF OneChanges
  <2>5. QED
    BY <1>1, <2>1, <2>3, <2>4
<1>7. ASSUME OneCaller'
      PROVE  UsedAlone'
  <2>1. OneCaller /\ epc[t] = "idle"
    BY <1>1, <1>3, <1>7 DEF OneCaller, E!Used
  <2>2. works = {} /\ ~ shared /\ \A u \in Trigger : epc[u] = "idle"
    BY <2>1, NotHeld
  <2>3. QED
    BY <1>1, <2>1, <2>2, BeginsAlone DEF UsedAlone
<1>8. QED
  BY <1>5, <1>6, <1>7 DEF EventInv

\* A change begins, by unregistering or by the drop of a trigger.
LEMMA BeginKeepsEvents ==
  ASSUME EventInv, NEW t \in callers, E!Begin(t),
         change' = [change EXCEPT ![t] = "test"], own' \in BOOLEAN, ~ own' => ~ own,
         UNCHANGED <<table, callers, slot, entry, deleted, twice, new, works, shared>>,
         \/ UNCHANGED <<epc, event>> /\ (own' \/ epc[t] = "idle")
         \/ /\ epc[t] = "drop" /\ epc' = [epc EXCEPT ![t] = "idle"]
            /\ event' = [event EXCEPT ![t] = Nil]
  PROVE  EventInv'
<1>1. /\ t \in Trigger /\ E!Used' = E!Used
      /\ DOMAIN change' = Trigger /\ change'[t] = "test" /\ \A u \in Trigger \ {t} : change'[u] = change[u]
  BY DEF EventInv, EventTypes, E!Used
<1>2. EventTypes'
  <2>1. overlap' \in BOOLEAN
    BY BeginsAlone
  <2>2. /\ DOMAIN epc' = Trigger /\ \A u \in Trigger : epc'[u] \in {"idle", "run", "call", "drop"}
        /\ DOMAIN event' = Trigger /\ \A u \in Trigger : event'[u] = Nil <=> epc'[u] = "idle"
        /\ \A u \in Trigger : event'[u] = Nil \/ event'[u] \in E!Used
        /\ \A u \in Trigger \ callers : epc'[u] = "idle"
    BY <1>1 DEF EventInv, EventTypes
  <2>3. QED
    BY <1>1, <2>1, <2>2 DEF EventInv, EventTypes
<1>3. DeletedOnce'
  <2> SUFFICES ASSUME ~ overlap'
               PROVE  (twice = {} /\ Accounted /\ OneChanges)'
    BY DEF DeletedOnce
  <2>1. /\ twice = {} /\ Accounted /\ OneChanges /\ slot \notin deleted
        /\ \A u \in Trigger : change[u] = "none" /\ new[u] = Nil
    BY BeginsAlone
  <2>2. QED
    BY <1>1, <2>1 DEF Accounted, OneChanges
<1>4. ASSUME OneCaller'
      PROVE  UsedAlone'
  <2>1. OneCaller
    BY <1>1, <1>4 DEF OneCaller
  <2>2. UsedAlone /\ callers = {t} /\ ~ overlap'
    BY <2>1, TheCaller, BeginsAlone DEF EventInv
  <2>3. \A u \in Trigger : epc'[u] = "idle"
    <3>1. CASE UNCHANGED <<epc, event>>
      <4>1. ~ own'
        BY <1>4 DEF OneCaller
      <4>2. epc[t] = "idle"
        BY <1>1, <3>1, <4>1 DEF EventInv, EventTypes
      <4>3. \A u \in Trigger : epc[u] = "idle"
        BY <2>1, <4>2, NotHeld
      <4>4. QED
        BY <3>1, <4>3
    <3>2. CASE epc' = [epc EXCEPT ![t] = "idle"]
      BY <1>1, <2>2, <3>2 DEF UsedAlone, EventInv, EventTypes
    <3>3. QED
      BY <3>1, <3>2
  <2>4. epc[t] # "call"
    <3>1. CASE UNCHANGED <<epc, event>>
      BY <1>1, <2>3, <3>1
    <3>2. QED
      BY <3>1
  <2>5. works = {}
    BY <2>2, <2>4 DEF UsedAlone
  <2>6. QED
    BY <2>2, <2>3, <2>5 DEF UsedAlone
<1>5. QED
  BY <1>2, <1>3, <1>4 DEF EventInv

LEMMA UnregisterKeepsEvents ==
  ASSUME EventInv, NEW t \in callers, E!Unregister(t)
  PROVE  EventInv'
<1>1. /\ own' = (own \/ epc[t] = "call") /\ E!Begin(t) /\ epc[t] \in {"idle", "call"}
      /\ change' = [change EXCEPT ![t] = "test"]
      /\ UNCHANGED <<table, callers, slot, entry, deleted, twice, epc, event, new, works, shared>>
  BY DEF E!Unregister
<1>2. own' \in BOOLEAN /\ (~ own' => ~ own) /\ (own' \/ epc[t] = "idle")
  BY <1>1 DEF EventInv, EventTypes
<1>3. QED
  BY <1>1, <1>2, BeginKeepsEvents

\* The steps of a change: what it deletes is in the table, and nobody has it.
LEMMA ChangeKeepsEvents ==
  ASSUME EventInv, NEW t \in callers, E!Test(t) \/ E!Delete(t) \/ E!Clear(t) \/ E!Store(t)
  PROVE  EventInv'
<1>1. /\ change[t] # "none" /\ t \in Trigger /\ E!Used' = E!Used
      /\ change' = [change EXCEPT ![t] = change'[t]]
      /\ change'[t] \in {"none", "delete", "clear", "store"}
      /\ UNCHANGED <<table, callers, entry, epc, event, works, overlap, own>>
  BY DEF E!Test, E!Delete, E!Clear, E!Store, E!AfterUnregister, E!Used, EventInv, EventTypes
<1>2. DOMAIN change' = Trigger /\ \A u \in Trigger \ {t} : change'[u] = change[u]
  BY <1>1 DEF EventInv, EventTypes
<1>3. EventTypes'
  <2>1. /\ shared' \in BOOLEAN /\ (slot' = Nil \/ slot' \in E!Used)
        /\ DOMAIN new' = Trigger /\ \A u \in Trigger : new'[u] = Nil \/ new'[u] \in E!Used
    BY <1>1 DEF E!Test, E!Delete, E!Clear, E!Store, EventInv, EventTypes
  <2>2. /\ \A u \in Trigger \ {t} : new'[u] = new[u]
        /\ change'[t] = "none" => new'[t] = Nil
        /\ change'[t] = "store" => new'[t] # Nil
    BY <1>1 DEF E!Test, E!Delete, E!Clear, E!Store, E!AfterUnregister, EventInv, EventTypes
  <2>3. QED
    BY <1>1, <1>2, <2>1, <2>2 DEF EventInv, EventTypes
<1>4. DeletedOnce'
  <2> SUFFICES ASSUME ~ overlap'
               PROVE  (twice = {} /\ Accounted /\ OneChanges)'
    BY DEF DeletedOnce
  <2>1. /\ twice = {} /\ Accounted /\ OneChanges
        /\ \A u \in Trigger \ {t} : change[u] = "none" /\ new[u] = Nil
    BY <1>1 DEF EventInv, DeletedOnce, OneChanges, EventTypes
  <2>2. Nil \notin E!Used
    BY NilIsUnused
  <2>3. CASE E!Test(t)
    <3>1. /\ change[t] = "test" /\ UNCHANGED <<slot, deleted, twice, new>>
          /\ change'[t] = IF slot = Nil THEN E!AfterUnregister(t) ELSE "delete"
      BY <1>1, <2>3 DEF E!Test, EventInv, EventTypes
    <3>2. slot \notin deleted
      BY <2>1, <3>1 DEF OneChanges
    <3>3. QED
      BY <1>1, <1>2, <2>1, <3>1, <3>2 DEF Accounted, OneChanges, E!AfterUnregister
  <2>4. CASE E!Delete(t)
    <3>1. /\ change[t] = "delete" /\ change'[t] = "clear" /\ UNCHANGED <<slot, new>>
          /\ deleted' = deleted \cup ({slot} \ {Nil}) /\ twice' = twice \cup ({slot} \cap deleted)
      BY <1>1, <2>4 DEF E!Delete, EventInv, EventTypes
    <3>2. slot # Nil /\ slot \notin deleted
      BY <1>1, <2>1, <3>1 DEF OneChanges
    <3>3. twice' = {} /\ Accounted'
      BY <1>1, <2>1, <3>1, <3>2 DEF Accounted
    <3>4. OneChanges'
      BY <1>1, <1>2, <2>1, <3>1, <3>2 DEF OneChanges
    <3>5. QED
      BY <3>3, <3>4
  <2>5. CASE E!Clear(t)
    <3>1. /\ change[t] = "clear" /\ slot' = Nil /\ UNCHANGED <<deleted, twice, new>>
          /\ change'[t] = E!AfterUnregister(t)
      BY <1>1, <2>5 DEF E!Clear, EventInv, EventTypes
    <3>2. slot \in deleted /\ Nil \notin deleted
      BY <1>1, <2>1, <2>2, <3>1 DEF OneChanges, Accounted
    <3>3. Accounted'
      BY <1>1, <2>1, <3>1, <3>2 DEF Accounted
    <3>4. OneChanges'
      BY <1>1, <1>2, <2>1, <3>1, <3>2 DEF OneChanges, E!AfterUnregister
    <3>5. QED
      BY <2>1, <3>1, <3>3, <3>4
  <2>6. CASE E!Store(t)
    <3>1. /\ change[t] = "store" /\ slot' = new[t] /\ UNCHANGED <<deleted, twice>>
          /\ change'[t] = "none" /\ new' = [new EXCEPT ![t] = Nil]
      BY <1>1, <2>6 DEF E!Store, EventInv, EventTypes
    <3>2. new'[t] = Nil /\ \A u \in Trigger \ {t} : new'[u] = new[u]
      BY <1>1, <3>1 DEF EventInv, EventTypes
    <3>3. slot = Nil /\ new[t] # Nil /\ new[t] \notin deleted
      BY <1>1, <2>1, <3>1 DEF OneChanges, EventInv, EventTypes
    <3>4. Accounted'
      BY <1>1, <2>1, <3>1, <3>2, <3>3 DEF Accounted
    <3>5. OneChanges'
      BY <1>1, <1>2, <2>1, <3>1, <3>2, <3>3 DEF OneChanges
    <3>6. QED
      BY <2>1, <3>1, <3>4, <3>5
  <2>7. QED
    BY <2>3, <2>4, <2>5, <2>6
<1>5. ASSUME OneCaller'
      PROVE  UsedAlone'
  <2>1. OneCaller
    BY <1>1, <1>5 DEF OneCaller
  <2>2. /\ ~ shared /\ ~ overlap /\ works = {}
        /\ \A u \in Trigger : epc[u] = "idle" /\ event[u] = Nil
    BY <1>1, <2>1, NotHeld
  <2>3. slot # Nil => ~ E!HeldBy(slot)
    BY <2>2 DEF E!HeldBy
  <2>4. ~ shared'
    BY <2>2, <2>3 DEF E!Test, E!Delete, E!Clear, E!Store
  <2>5. QED
    BY <1>1, <2>2, <2>4 DEF UsedAlone
<1>6. QED
  BY <1>3, <1>4, <1>5 DEF EventInv

LEMMA ReadKeepsEvents ==
  ASSUME EventInv, NEW t \in callers, E!Read(t)
  PROVE  EventInv'
<1>1. /\ epc[t] = "idle" /\ change[t] = "none" /\ slot # Nil /\ t \in Trigger
      /\ epc' = [epc EXCEPT ![t] = "run"] /\ event' = [event EXCEPT ![t] = slot]
      /\ shared' = (shared \/ slot \in deleted)
      /\ UNCHANGED <<table, callers, slot, entry, deleted, twice, change, new, works, overlap, own>>
      /\ E!Used' = E!Used
  BY DEF E!Read, E!Used, EventInv, EventTypes
<1>2. EventTypes' /\ DeletedOnce'
  BY <1>1 DEF EventInv, EventTypes, DeletedOnce, Accounted, OneChanges
<1>3. ASSUME OneCaller'
      PROVE  UsedAlone'
  <2>1. OneCaller /\ UsedAlone
    BY <1>1, <1>3 DEF EventInv, OneCaller
  <2>2. works = {} /\ \A u \in Trigger : change[u] = "none"
    BY <1>1, <2>1, NotHeld
  <2>3. slot \notin deleted
    BY <2>1, <2>2 DEF UsedAlone, EventInv, DeletedOnce, OneChanges
  <2>4. QED
    BY <1>1, <2>1, <2>2, <2>3 DEF UsedAlone, EventInv, EventTypes
<1>4. QED
  BY <1>2, <1>3 DEF EventInv

LEMMA RunKeepsEvents ==
  ASSUME EventInv, NEW t \in callers, E!Run(t)
  PROVE  EventInv'
<1>1. /\ epc[t] = "run" /\ t \in Trigger /\ works' = works \cup {E!Data(event[t])}
      /\ epc' = [epc EXCEPT ![t] = IF entry[event[t]].thread THEN "drop" ELSE "call"]
      /\ UNCHANGED <<table, callers, slot, entry, deleted, twice, event, change, new, shared, overlap, own>>
      /\ E!Used' = E!Used
  BY DEF E!Run, E!Used, EventInv, EventTypes
<1>2. EventTypes' /\ DeletedOnce'
  BY <1>1 DEF EventInv, EventTypes, DeletedOnce, Accounted, OneChanges
<1>3. ASSUME OneCaller'
      PROVE  UsedAlone'
  <2>1. OneCaller /\ UsedAlone
    BY <1>1, <1>3 DEF EventInv, OneCaller
  <2>2. callers = {t}
    BY <2>1, TheCaller DEF EventInv
  <2>3. event[t] = slot /\ slot # Nil /\ event[t] \in E!Used
    BY <1>1, <2>1 DEF UsedAlone, EventInv, EventTypes
  <2>4. epc'[t] = "call" /\ \A u \in Trigger \ {t} : epc'[u] = epc[u]
    BY <1>1, <2>1, <2>3 DEF EventInv, EventTypes, OneCaller
  <2>5. works' = {E!Data(event[t])}
    BY <1>1, <2>1, <2>2 DEF UsedAlone
  <2>6. E!Data(event[t])' = E!Data(event[t])
    BY <1>1 DEF E!Data, E!CerverEventData, E!CerverErrorData, E!ClientEventData, E!ClientErrorData
  <2>7. QED
    BY <1>1, <2>1, <2>2, <2>3, <2>4, <2>5, <2>6 DEF UsedAlone
<1>4. QED
  BY <1>2, <1>3 DEF EventInv

LEMMA WorkReturnsKeepsEvents ==
  ASSUME EventInv, NEW t \in callers, E!WorkReturns(t)
  PROVE  EventInv'
<1>1. /\ epc[t] = "call" /\ t \in Trigger /\ works' = works \ {E!Data(event[t])}
      /\ epc' = [epc EXCEPT ![t] = "drop"]
      /\ UNCHANGED <<table, callers, slot, entry, deleted, twice, event, change, new, shared, overlap, own>>
      /\ E!Used' = E!Used
  BY DEF E!WorkReturns, E!Used, EventInv, EventTypes
<1>2. EventTypes' /\ DeletedOnce'
  BY <1>1 DEF EventInv, EventTypes, DeletedOnce, Accounted, OneChanges
<1>3. ASSUME OneCaller'
      PROVE  UsedAlone'
  <2>1. OneCaller /\ UsedAlone
    BY <1>1, <1>3 DEF EventInv, OneCaller
  <2>2. callers = {t}
    BY <2>1, TheCaller DEF EventInv
  <2>3. works' = {}
    BY <1>1, <2>1, <2>2 DEF UsedAlone
  <2>4. QED
    BY <1>1, <2>1, <2>2, <2>3 DEF UsedAlone, EventInv, EventTypes
<1>4. QED
  BY <1>2, <1>3 DEF EventInv

LEMMA ThreadEndsKeepsEvents ==
  ASSUME EventInv, E!ThreadEnds
  PROVE  EventInv'
<1>1. PICK w \in works :
           /\ entry[w.entry].thread /\ works' = works \ {w}
           /\ UNCHANGED <<table, callers, slot, entry, deleted, twice, epc, event, change, new, shared,
                          overlap, own>>
  BY DEF E!ThreadEnds
<1>2. E!Used' = E!Used
  BY <1>1 DEF E!Used
<1>3. EventTypes' /\ DeletedOnce'
  BY <1>1, <1>2 DEF EventInv, EventTypes, DeletedOnce, Accounted, OneChanges
<1>4. ASSUME OneCaller'
      PROVE  FALSE
  <2>1. OneCaller /\ UsedAlone
    BY <1>1, <1>2, <1>4 DEF EventInv, OneCaller
  <2>2. PICK t \in callers : epc[t] = "call" /\ w = E!Data(event[t])
    BY <1>1, <2>1 DEF UsedAlone
  <2>3. event[t] \in E!Used /\ w.entry = event[t]
    BY <2>1, <2>2, DataEntry DEF EventInv, EventTypes
  <2>4. QED
    BY <1>1, <2>1, <2>3 DEF OneCaller
<1>5. QED
  BY <1>3, <1>4 DEF EventInv

LEMMA DropKeepsEvents ==
  ASSUME EventInv, NEW t \in callers, E!Drop(t)
  PROVE  EventInv'
<1>1. /\ epc[t] = "drop" /\ t \in Trigger
      /\ epc' = [epc EXCEPT ![t] = "idle"] /\ event' = [event EXCEPT ![t] = Nil]
      /\ UNCHANGED <<table, callers, slot, entry, deleted, twice, new, works, shared, own>>
      /\ E!Used' = E!Used /\ own \in BOOLEAN
  BY DEF E!Drop, E!Used, EventInv, EventTypes
<1>2. CASE E!Begin(t) /\ change' = [change EXCEPT ![t] = "test"]
  BY <1>1, <1>2, BeginKeepsEvents
<1>3. CASE UNCHANGED <<change, overlap>>
  <2>1. EventTypes' /\ DeletedOnce'
    BY <1>1, <1>3 DEF EventInv, EventTypes, DeletedOnce, Accounted, OneChanges
  <2>2. ASSUME OneCaller'
        PROVE  UsedAlone'
    <3>1. OneCaller /\ UsedAlone
      BY <1>1, <2>2 DEF EventInv, OneCaller
    <3>2. callers = {t}
      BY <3>1, TheCaller DEF EventInv
    <3>3. works' = {}
      BY <1>1, <3>1, <3>2 DEF UsedAlone
    <3>4. \A u \in Trigger : epc'[u] = "idle"
      BY <1>1, <3>1, <3>2 DEF UsedAlone, EventInv, EventTypes
    <3>5. QED
      BY <1>1, <1>3, <3>1, <3>3, <3>4 DEF UsedAlone
  <2>3. QED
    BY <2>1, <2>2 DEF EventInv
<1>4. QED
  BY <1>2, <1>3 DEF E!Drop

LEMMA EventsKeepInv == EventInv /\ [E!Next]_(E!vars) => EventInv'
<1> SUFFICES ASSUME EventInv, [E!Next]_(E!vars)
             PROVE  EventInv'
  OBVIOUS
<1>1. CASE \E t \in callers : E!Step(t)
  BY <1>1, RegisterKeepsEvents, UnregisterKeepsEvents, ChangeKeepsEvents, ReadKeepsEvents,
     RunKeepsEvents, WorkReturnsKeepsEvents, DropKeepsEvents DEF E!Step
<1>2. CASE E!ThreadEnds
  BY <1>2, ThreadEndsKeepsEvents
<1>3. CASE UNCHANGED E!vars
  <2>1. UNCHANGED <<table, callers, slot, entry, deleted, twice, epc, event, change, new, works, shared,
                    overlap, own>>
    BY <1>3 DEF E!vars
  <2>2. E!Used' = E!Used /\ OneCaller' = OneCaller
    BY <2>1 DEF E!Used, OneCaller
  <2>3. UsedAlone => UsedAlone'
    BY <2>1 DEF UsedAlone, E!Data, E!CerverEventData, E!CerverErrorData, E!ClientEventData, E!ClientErrorData
  <2>4. QED
    BY <2>1, <2>2, <2>3 DEF EventInv, EventTypes, DeletedOnce, Accounted, OneChanges
<1>4. QED
  BY <1>1, <1>2, <1>3 DEF E!Next, E!CerverEvents, E!CerverErrors, E!ClientEvents, E!ClientErrors

LEMMA EventInvImplies == EventInv => ArgumentsDeletedOnce
BY SameCardinality DEF EventInv, DeletedOnce, Accounted, OneChanges, OneCaller, UsedAlone,
   ArgumentsDeletedOnce, E!ArgumentsDeletedOnce

-----------------------------------------------------------------------------
(***************************************************************************)
(* The parts together                                                      *)
(***************************************************************************)
\* A step of the parts is one of the client, one of the events, or leaves both.
LEMMA PartsBehave == PartsSpec => Spec /\ E!Spec
<1>1. PartsInit => Init /\ E!Init
  BY DEF PartsInit
<1>2. [PartsNext]_allVars => [Next]_vars /\ [E!Next]_(E!vars)
  <2>1. UNCHANGED clientVars => UNCHANGED vars
    BY DEF clientVars, vars, connVars, sendVars, handlerVars, peerVars
  <2>2. UNCHANGED eventVars => UNCHANGED E!vars
    BY DEF eventVars, E!vars
  <2>3. QED
    BY <2>1, <2>2 DEF PartsNext, OfClient, OfEvents, allVars
<1>3. QED
  BY <1>1, <1>2, PTL DEF PartsSpec, Spec, E!Spec

\* client_connection_end () and client_teardown () delete no connection that a
\* thread uses, whatever connections, handlers and packets there are, unless the
\* call met the first or the last steps of the update thread.
THEOREM PartsDeleteUnused == PartsSpec => []DeletedIsUnused
<1>1. IInv => DeletedIsUnused
  BY DEF IInv
<1>2. QED
  BY <1>1, ClientInvariant, PartsBehave, PTL

\* connection_send_thread () sends what connection_send_packet () was given in
\* its order, none twice and none left out, whatever is closed meanwhile.
THEOREM PartsSendInOrder == PartsSpec => SendsInOrder
BY SentCorrect, PartsBehave, PTL

\* The registration of an action and its deletion (events.c, errors.c,
\* client.c): arguments are deleted once while no two changes of the table
\* overlap, and never while they are used if one thread registers and triggers,
\* and no work has a thread of its own or changes the table.
THEOREM PartsDeleteOnce == PartsSpec => []ArgumentsDeletedOnce
BY EventInitHolds, EventsKeepInv, EventInvImplies, PartsBehave, PTL DEF E!Spec
=============================================================================
