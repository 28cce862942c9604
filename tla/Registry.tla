------------------------------ MODULE Registry ------------------------------
(***************************************************************************)
(* The clients of a cerver with CERVER_HANDLER_TYPE_POLL and no auth: how  *)
(* a connection is accepted, put in the map from sock fds to clients, the  *)
(* poll array and the tree of clients, handled, and taken out of them      *)
(* again (handler.c, client.c, connection.c).                              *)
(*                                                                         *)
(* The poll thread walks the array; new connections are accepted by the    *)
(* same thread or, when the cerver has a thpool, by its workers.  Every    *)
(* structure has a mutex, so one operation on it is one step; nothing      *)
(* covers two of them, so each has a step of its own.  The kernel gives    *)
(* the number of a closed descriptor to the next connection.               *)
(*                                                                         *)
(* Without auth a client has exactly one connection, and both are named    *)
(* by the number of the accepted connection.  The statistics are left out. *)
(***************************************************************************)
EXTENDS Integers, Sequences, SequencesExt, FiniteSets

CONSTANTS P,            \* the thread in cerver_poll ()
          Workers,      \* the threads of the thpool, {} without a thpool
          NConn,        \* bound: the connections that are made in one run
          NFd,          \* bound: the descriptors the process may have open
          NSlots,       \* max_n_fds when the cerver starts
          Garbage,      \* what memory returned by realloc () may hold
          Asks          \* what a client that is still there may ask for

ASSUME RegistryAssumption ==
    /\ P \notin Workers
    /\ NConn \in Nat /\ NFd \in Nat /\ NSlots \in Nat \ {0}
    /\ Garbage \subseteq Int
    /\ Asks \subseteq {"close", "disconnect"}

Conn == 1 .. NConn
Fd == 1 .. NFd
None == 0               \* no connection
Free == -1              \* the fd of a free slot, and of an ended connection
Thread == {P} \union Workers

VARIABLES open,         \* the kernel: the connection behind each descriptor
          peer,         \* the other end of each connection
          mem,          \* the memory of the connection and its client
          sockFd,       \* connection->socket->sock_fd
          id,           \* client->id
          nextId,       \* next_client_id
          slots,        \* cerver->fds from index 1 on
          sockMap,      \* cerver->client_sock_fd_map
          clients,      \* cerver->clients
          jobs,         \* whether the thpool has a job to accept (more are like one)
          pc, conn,     \* of each thread: its place and its connection
          idx, rogue    \* of the poll thread: the index and a fd without client

kernel == <<open, peer>>
objects == <<mem, sockFd, id, nextId>>
tables == <<slots, sockMap, clients>>
walk == <<idx, rogue>>
vars == <<kernel, objects, tables, jobs, pc, conn, walk>>

Init ==
    /\ open = [f \in Fd |-> None]
    /\ peer = [c \in Conn |-> "there"]
    /\ mem = [c \in Conn |-> "unused"]
    /\ sockFd = [c \in Conn |-> Free]
    /\ id = [c \in Conn |-> 0]
    /\ nextId = 0
    /\ slots = [i \in 1 .. NSlots |-> Free]
    /\ sockMap = [f \in Fd |-> None]
    /\ clients = {}
    /\ jobs = FALSE
    /\ pc = [t \in Thread |-> IF t = P THEN "poll" ELSE "idle"]
    /\ conn = [t \in Thread |-> None]
    /\ idx = 0
    /\ rogue = Free

Goto(t, from, to) == pc[t] = from /\ pc' = [pc EXCEPT ![t] = to]

\* Freed memory has been used in a way that matters: anything may follow.
Crashed == \E t \in Thread : pc[t] = "crashed"
Crash(t, from) == Goto(t, from, "crashed") /\ UNCHANGED <<kernel, objects, tables, jobs, conn, walk>>

SlotOf(f) == {i \in DOMAIN slots : slots[i] = f}
LowestOf(S) == CHOOSE x \in S : \A y \in S : x <= y

Unpoll(f) ==
    slots' = IF SlotOf(f) = {} THEN slots ELSE [slots EXCEPT ![LowestOf(SlotOf(f))] = Free]

Unmap(f) == sockMap' = [g \in Fd |-> IF g = f THEN None ELSE sockMap[g]]

Close(f) == [g \in Fd |-> IF g = f THEN None ELSE open[g]]

\* avl_remove_node () takes out a client with the same id.
TakeOut(c) ==
    LET same == {d \in clients : id[d] = id[c]}
    IN  IF same = {} THEN clients' = clients
        ELSE \E d \in same : clients' = clients \ {d}

-----------------------------------------------------------------------------
(* Registration, by the poll thread or by a worker                         *)

\* Where a thread goes when cerver_accept () returns.
Accepted(t, from) ==
    /\ Goto(t, from, IF t = P THEN "walk" ELSE "idle")
    /\ idx' = IF t = P THEN 1 ELSE idx
    /\ conn' = [conn EXCEPT ![t] = None]

NothingToAccept(t) ==
    /\ Accepted(t, "accept")
    /\ UNCHANGED <<kernel, objects, tables, jobs, rogue>>

\* accept (), connection_create () and client_create () up to the read of
\* next_client_id.
Accept(t) ==
    /\ \E c \in Conn : mem[c] = "unused"
    /\ \E f \in Fd : open[f] = None
    /\ LET c == LowestOf({d \in Conn : mem[d] = "unused"})
           f == LowestOf({g \in Fd : open[g] = None})
       IN  /\ open' = [open EXCEPT ![f] = c]
           /\ mem' = [mem EXCEPT ![c] = "live"]
           /\ sockFd' = [sockFd EXCEPT ![c] = f]
           /\ id' = [id EXCEPT ![c] = nextId]
           /\ conn' = [conn EXCEPT ![t] = c]
    /\ Goto(t, "accept", "count")
    /\ UNCHANGED <<peer, nextId, tables, jobs, walk>>

\* next_client_id += 1, which no mutex protects.
CountClient(t) ==
    /\ Goto(t, "count", "map")
    /\ nextId' = id[conn[t]] + 1
    /\ UNCHANGED <<kernel, mem, sockFd, id, tables, jobs, conn, walk>>

\* connection_register_to_cerver (): htab_insert () refuses a key it has,
\* and then the client is dropped.
Map(t) ==
    LET f == sockFd[conn[t]]
    IN  /\ Goto(t, "map", IF sockMap[f] = None THEN "register" ELSE "dropUnmap")
        /\ sockMap' = IF sockMap[f] = None THEN [sockMap EXCEPT ![f] = conn[t]] ELSE sockMap
        /\ UNCHANGED <<kernel, objects, slots, clients, jobs, conn, walk>>

\* cerver_poll_register_connection () when the array has a free slot.
Register(t) ==
    /\ Goto(t, "register", "insert")
    /\ SlotOf(Free) # {}
    /\ slots' = [slots EXCEPT ![LowestOf(SlotOf(Free))] = sockFd[conn[t]]]
    /\ UNCHANGED <<kernel, objects, sockMap, clients, jobs, conn, walk>>

\* The array is full: realloc () doubles it, the loop that should free the
\* new slots compares instead, and the second try takes a slot that happens
\* to hold -1.
GrowAndRegister(t) ==
    /\ pc[t] = "register" /\ SlotOf(Free) = {}
    /\ \E new \in [1 .. Len(slots) + 1 -> Garbage] :
         LET found == {i \in DOMAIN new : new[i] = Free}
         IN  /\ slots' = slots \o (IF found = {} THEN new
                                   ELSE [new EXCEPT ![LowestOf(found)] = sockFd[conn[t]]])
             /\ Goto(t, "register", IF found = {} THEN "dropUnmap" ELSE "insert")
    /\ UNCHANGED <<kernel, objects, sockMap, clients, jobs, conn, walk>>

\* client_register_to_cerver_internal ()
Insert(t) ==
    /\ Goto(t, "insert", "activate")
    /\ mem[conn[t]] # "freed"
    /\ clients' = clients \union {conn[t]}
    /\ UNCHANGED <<kernel, objects, slots, sockMap, jobs, conn, walk>>

\* connection->active is set and the info packet is sent.
Activate(t) ==
    /\ Accepted(t, "activate")
    /\ mem[conn[t]] = "live"
    /\ UNCHANGED <<kernel, objects, tables, jobs, rogue>>

\* The poll thread has freed the client that is being registered.
UseFreed(t) ==
    \/ Crash(t, "insert") /\ mem[conn[t]] = "freed"
    \/ Crash(t, "activate") /\ mem[conn[t]] # "live"

-----------------------------------------------------------------------------
(* The walk of cerver_poll_handle ()                                       *)

PollReturns ==
    /\ Goto(P, "poll", "walk")
    /\ idx' = 0
    /\ UNCHANGED <<kernel, objects, tables, jobs, conn, rogue>>

\* Index 0 is the socket of the cerver.
AcceptHere ==
    /\ idx = 0 /\ Workers = {}
    /\ Goto(P, "walk", "accept")
    /\ UNCHANGED <<kernel, objects, tables, jobs, conn, walk>>

AcceptInThpool ==
    /\ idx = 0 /\ Workers # {}
    /\ Goto(P, "walk", "walk")
    /\ jobs' = TRUE
    /\ idx' = 1
    /\ UNCHANGED <<kernel, objects, tables, conn, rogue>>

\* A thread of the thpool takes the job.
StartAccept(t) ==
    /\ jobs
    /\ Goto(t, "idle", "accept")
    /\ jobs' = FALSE
    /\ UNCHANGED <<kernel, objects, tables, conn, walk>>

EndOfWalk ==
    /\ idx > Len(slots)
    /\ Goto(P, "walk", "poll")
    /\ UNCHANGED <<kernel, objects, tables, jobs, conn, walk>>

AtSlot == idx \in DOMAIN slots

SkipSlot ==
    /\ AtSlot /\ slots[idx] < 0
    /\ Goto(P, "walk", "walk")
    /\ idx' = idx + 1
    /\ UNCHANGED <<kernel, objects, tables, jobs, conn, rogue>>

Mapped(f) == f \in Fd /\ sockMap[f] # None

\* cerver_receive_create_normal (): the client of the fd and its connection.
Lookup ==
    /\ AtSlot /\ Mapped(slots[idx])
    /\ LET c == sockMap[slots[idx]]
       IN  /\ Goto(P, "walk", IF mem[c] = "live" /\ sockFd[c] = slots[idx] THEN "receive" ELSE "crashed")
           /\ conn' = [conn EXCEPT ![P] = c]
    /\ UNCHANGED <<kernel, objects, tables, jobs, walk>>

\* A fd that no client has is taken out of the array and the map and closed.
Rogue ==
    /\ AtSlot /\ slots[idx] >= 0 /\ ~ Mapped(slots[idx])
    /\ Goto(P, "walk", "rogueUnpoll")
    /\ rogue' = slots[idx]
    /\ UNCHANGED <<kernel, objects, tables, jobs, conn, idx>>

RoguePoll ==
    /\ Goto(P, "rogueUnpoll", "rogueUnmap")
    /\ Unpoll(rogue)
    /\ UNCHANGED <<kernel, objects, sockMap, clients, jobs, conn, walk>>

RogueMap ==
    /\ Goto(P, "rogueUnmap", "rogueClose")
    /\ Unmap(rogue)
    /\ UNCHANGED <<kernel, objects, slots, clients, jobs, conn, walk>>

RogueClose ==
    /\ Goto(P, "rogueClose", "walk")
    /\ open' = Close(rogue)
    /\ rogue' = Free
    /\ idx' = idx + 1
    /\ UNCHANGED <<peer, objects, tables, jobs, conn>>

\* What is left of a receive without a client is handled when poll () has
\* reported data: its socket is NULL.
RogueIsRead == Crash(P, "rogueClose")

\* poll () reports nothing of this fd, or a packet that changes no structure.
Receive ==
    /\ Goto(P, "receive", "walk")
    /\ peer[conn[P]] = "there"
    /\ idx' = idx + 1
    /\ conn' = [conn EXCEPT ![P] = None]
    /\ UNCHANGED <<kernel, objects, tables, jobs, rogue>>

\* Fault: a connection whose peer is gone is skipped.
LeaveSkipped ==
    /\ Goto(P, "receive", "walk")
    /\ idx' = idx + 1
    /\ conn' = [conn EXCEPT ![P] = None]
    /\ UNCHANGED <<kernel, objects, tables, jobs, rogue>>

\* recv () fails, the peer has hung up, or it has asked for
\* CLIENT_PACKET_TYPE_CLOSE_CONNECTION: client_remove_connection_by_sock_fd ().
Leave ==
    /\ Goto(P, "receive", "leaveUnpoll")
    /\ peer[conn[P]] = "gone" \/ "close" \in Asks
    /\ UNCHANGED <<kernel, objects, tables, jobs, conn, walk>>

\* CLIENT_PACKET_TYPE_DISCONNECT: client_drop ().
Disconnect ==
    /\ Goto(P, "receive", "dropUnmap")
    /\ peer[conn[P]] = "there" /\ "disconnect" \in Asks
    /\ UNCHANGED <<kernel, objects, tables, jobs, conn, walk>>

-----------------------------------------------------------------------------
(* Removal                                                                 *)

\* Fault: the socket is closed before it is out of the map.
LeavePollAndClose ==
    /\ Goto(P, "leaveUnpoll", "leaveUnmap")
    /\ Unpoll(sockFd[conn[P]])
    /\ open' = Close(sockFd[conn[P]])
    /\ UNCHANGED <<peer, objects, sockMap, clients, jobs, conn, walk>>

LeavePoll ==
    /\ Goto(P, "leaveUnpoll", "leaveUnmap")
    /\ Unpoll(sockFd[conn[P]])
    /\ UNCHANGED <<kernel, objects, sockMap, clients, jobs, conn, walk>>

\* Fault: the fd stays in the map.
LeaveMapForgotten ==
    /\ Goto(P, "leaveUnmap", "leaveClose")
    /\ UNCHANGED <<kernel, objects, tables, jobs, conn, walk>>

LeaveMap ==
    /\ Goto(P, "leaveUnmap", "leaveClose")
    /\ Unmap(sockFd[conn[P]])
    /\ UNCHANGED <<kernel, objects, slots, clients, jobs, conn, walk>>

\* connection_drop (): the socket is closed, the connection freed.
LeaveClose ==
    /\ Goto(P, "leaveClose", "leaveRemove")
    /\ open' = Close(sockFd[conn[P]])
    /\ sockFd' = [sockFd EXCEPT ![conn[P]] = Free]
    /\ mem' = [mem EXCEPT ![conn[P]] = "closed"]
    /\ UNCHANGED <<peer, id, nextId, tables, jobs, conn, walk>>

\* Fault: the client stays in the tree.
LeaveClientsForgotten ==
    /\ Goto(P, "leaveRemove", "leaveFree")
    /\ UNCHANGED <<kernel, objects, tables, jobs, conn, walk>>

LeaveClients ==
    /\ Goto(P, "leaveRemove", "leaveFree")
    /\ TakeOut(conn[P])
    /\ UNCHANGED <<kernel, objects, slots, sockMap, jobs, conn, walk>>

\* client_delete (): the connection is already gone.
LeaveFree ==
    /\ Goto(P, "leaveFree", "walk")
    /\ mem' = [mem EXCEPT ![conn[P]] = "freed"]
    /\ conn' = [conn EXCEPT ![P] = None]
    /\ idx' = idx + 1
    /\ UNCHANGED <<kernel, sockFd, id, nextId, tables, jobs, rogue>>

\* The peer had asked, in a packet that may have come before it went: the
\* buffer of that packet is gone on with through the receive handle that the
\* connection held.
ClosedIsRead == Crash(P, "leaveFree") /\ "close" \in Asks

\* client_drop (): the maps come first, and the connection is deleted with
\* the client.
DropMap(t) ==
    /\ Goto(t, "dropUnmap", "dropUnpoll")
    /\ Unmap(sockFd[conn[t]])
    /\ UNCHANGED <<kernel, objects, slots, clients, jobs, conn, walk>>

DropPoll(t) ==
    /\ Goto(t, "dropUnpoll", "dropRemove")
    /\ Unpoll(sockFd[conn[t]])
    /\ UNCHANGED <<kernel, objects, sockMap, clients, jobs, conn, walk>>

DropClients(t) ==
    /\ Goto(t, "dropRemove", "dropFree")
    /\ TakeOut(conn[t])
    /\ UNCHANGED <<kernel, objects, slots, sockMap, jobs, conn, walk>>

\* connection_delete () frees the socket first and then closes the fd it
\* reads from it: the fd is closed, or it never is.
DropFree(t) ==
    /\ Goto(t, "dropFree", "dropped")
    /\ mem' = [mem EXCEPT ![conn[t]] = "freed"]
    /\ \/ open' = Close(sockFd[conn[t]])
       \/ open' = open
    /\ UNCHANGED <<peer, sockFd, id, nextId, tables, jobs, conn, walk>>

\* A client that disconnects is not reported as dropped, so that the rest
\* of the buffer is handled with its freed receive handle: the loop ends or
\* not.  A registration that failed drops the freed connection again.
Dropped(t) ==
    \/ Crash(t, "dropped")
    \/ /\ t = P /\ idx > 0
       /\ Goto(t, "dropped", "walk")
       /\ conn' = [conn EXCEPT ![t] = None]
       /\ idx' = idx + 1
       /\ UNCHANGED <<kernel, objects, tables, jobs, rogue>>

-----------------------------------------------------------------------------
\* The other end closes its socket or is lost.
PeerGoes(c) ==
    /\ mem[c] # "unused" /\ peer[c] = "there"
    /\ peer' = [peer EXCEPT ![c] = "gone"]
    /\ UNCHANGED <<open, objects, tables, jobs, pc, conn, walk>>

Registration(t) ==
    \/ NothingToAccept(t) \/ Accept(t) \/ CountClient(t)
    \/ Map(t) \/ Register(t) \/ GrowAndRegister(t)
    \/ Insert(t) \/ Activate(t) \/ UseFreed(t)

Dropping(t) == DropMap(t) \/ DropPoll(t) \/ DropClients(t) \/ DropFree(t) \/ Dropped(t)

Leaving == LeavePoll \/ LeaveMap \/ LeaveClose \/ LeaveClients \/ LeaveFree \/ ClosedIsRead

Walk ==
    \/ PollReturns \/ AcceptHere \/ AcceptInThpool \/ EndOfWalk \/ SkipSlot \/ Lookup
    \/ Rogue \/ RoguePoll \/ RogueMap \/ RogueClose \/ RogueIsRead
    \/ Receive \/ Leave \/ Disconnect
    \/ Leaving

Next ==
    /\ ~ Crashed
    /\ \/ Walk
       \/ \E t \in Thread : Registration(t) \/ Dropping(t)
       \/ \E t \in Workers : StartAccept(t)
       \/ \E c \in Conn : PeerGoes(c)

ThreadStep(t) ==
    /\ ~ Crashed
    /\ \/ t = P /\ Walk
       \/ t \in Workers /\ StartAccept(t)
       \/ Registration(t) \/ Dropping(t)

\* Every thread goes on while it can; the peers do what they want.
Spec == Init /\ [][Next]_vars /\ \A t \in Thread : WF_vars(ThreadStep(t))

-----------------------------------------------------------------------------
(***************************************************************************)
(* Properties                                                              *)
(***************************************************************************)
TypeOK ==
    /\ open \in [Fd -> Conn \union {None}]
    /\ peer \in [Conn -> {"there", "gone"}]
    /\ mem \in [Conn -> {"unused", "live", "closed", "freed"}]
    /\ sockFd \in [Conn -> Fd \union {Free}]
    /\ id \in [Conn -> Nat] /\ nextId \in Nat
    /\ slots \in Seq(Fd \union {Free} \union Garbage)
    /\ sockMap \in [Fd -> Conn \union {None}]
    /\ clients \subseteq Conn
    /\ jobs \in BOOLEAN
    /\ conn \in [Thread -> Conn \union {None}]
    /\ idx \in Nat /\ rogue \in Int

\* No thread uses a client or a connection that has been freed.  It fails as
\* soon as a worker of the thpool registers what the poll thread already
\* handles, and as soon as a client asks for the end of its connection.
NeverCrashes == ~ Crashed

\* When the poll thread waits, the four places that know a connection agree:
\* a descriptor is open exactly when it is mapped and polled, once, and its
\* client is in the tree; nothing that has been freed is left anywhere.  And
\* whatever the threads are doing, a connection that has been freed has no
\* open descriptor.
Agree ==
    /\ \A f \in Fd : open[f] # None => mem[open[f]] = "live"
    /\ pc[P] = "poll" =>
        /\ \A f \in Fd : sockMap[f] = open[f] /\ Cardinality(SlotOf(f)) = (IF open[f] = None THEN 0 ELSE 1)
        /\ clients = {open[f] : f \in Fd} \ {None}
        /\ clients = {c \in Conn : mem[c] = "live"}

\* The map never sends a descriptor to a client that does not own it, not
\* even while the kernel gives the same number to the next connection; and every
\* polled descriptor has a client, so that the poll thread never takes a
\* connection that is being registered for a rogue one.
MapIsOwned ==
    /\ \A f \in Fd : sockMap[f] # None => open[f] = sockMap[f] /\ sockFd[sockMap[f]] = f
    /\ pc[P] = "walk" => \A f \in Fd : SlotOf(f) # {} => sockMap[f] # None

\* Whatever it is doing, the cerver gets rid of a connection whose peer is
\* gone: its descriptor is closed and its memory freed.
CleanedUp == \A c \in Conn : peer[c] = "gone" ~> mem[c] = "freed" /\ \A f \in Fd : open[f] # c
=============================================================================
