------------------------------ MODULE Sessions ------------------------------
(***************************************************************************)
(* Clients with several connections: a cerver that requires auth and uses  *)
(* sessions gives each client an id, and a later connection that sends the *)
(* id as its token joins the client (auth.c, client.c).  The thread of the *)
(* connections on hold creates and joins.  Whoever receives removes: the   *)
(* poll thread with CERVER_HANDLER_TYPE_POLL, a thread of each connection  *)
(* with CERVER_HANDLER_TYPE_THREADS (handler.c), which runs in the thpool  *)
(* as long as that seems to have a thread left.                            *)
(*                                                                         *)
(* A descriptor is named by its connection.  What happens to a connection  *)
(* on hold before its auth succeeds is in OnHold.                          *)
(***************************************************************************)
EXTENDS Integers, Sequences, SequencesExt, FiniteSets

CONSTANTS NConn, NClient,   \* bounds: the connections and clients of one run
          Id,               \* the session ids that may be generated
          Types,            \* the handler types, of "poll" and "threads"
          Pool              \* threads of the thpool, 0 with handle_detachable_threads

Conn == 1 .. NConn
Client == 1 .. NClient
None == 0
Poller == 0                      \* the poll thread; the others are named by their connection
Thread == {Poller} \union Conn
Free == -1                  \* a socket without descriptor
Freed == -2
Unmade == -3

VARIABLES handler_type,
          mem, sock,        \* connections: memory, connection->socket
          holder,           \* sockets: whose descriptor is its sock_fd
          sockets_pool,
          clientMem, session_id, connections,   \* clients
          clients, sockMap, \* cerver->clients, cerver->client_sock_fd_map
          polled,           \* the connections in cerver->fds
          crossed,          \* history: the clients that were removed while the thread of the
                            \* connections on hold was busy with them
          held,             \* the connections on hold
          pooled,           \* the connections whose thread is one of the thpool
          pcH, connH, clientH,      \* the thread of the connections on hold
          pc, crClient, crConn, crSock,     \* of each thread that receives
          victim, onlyOne, after    \* of a removal: its connection, whether the client
                                    \* goes with it, and where it returns to

objects == <<mem, sock, holder, sockets_pool, clientMem, session_id, connections>>
tables == <<clients, sockMap, polled, held, pooled>>
hold == <<pcH, connH, clientH>>
receive == <<crClient, crConn, crSock>>
removal == <<victim, onlyOne, after>>
vars == <<handler_type, crossed, objects, tables, hold, pc, receive, removal>>

Init ==
    /\ handler_type \in Types
    /\ mem = [c \in Conn |-> "unused"] /\ sock = [c \in Conn |-> None]
    /\ holder = [s \in Conn |-> IF s = 1 THEN Free ELSE Unmade] /\ sockets_pool = <<1>>
    /\ clientMem = [k \in Client |-> "unused"] /\ session_id = [k \in Client |-> None]
    /\ connections = [k \in Client |-> <<>>]
    /\ clients = {} /\ sockMap = [c \in Conn |-> None] /\ polled = {} /\ held = {} /\ pooled = {}
    /\ pcH = "poll" /\ connH = None /\ clientH = None
    /\ pc = [t \in Thread |-> IF t = Poller THEN "poll" ELSE "none"]
    /\ crClient = [t \in Thread |-> None] /\ crConn = [t \in Thread |-> None]
    /\ crSock = [t \in Thread |-> None]
    /\ crossed = {} /\ victim = [t \in Thread |-> None] /\ onlyOne = [t \in Thread |-> FALSE]
    /\ after = [t \in Thread |-> "none"]

LowestOf(S) == CHOOSE x \in S : \A y \in S : x <= y

Crashed == pcH = "crashed" \/ \E t \in Thread : pc[t] = "crashed"

IsLive(k, c) == clientMem[k] = "live" /\ mem[c] = "live"

\* A connection is accepted and put on hold; its socket comes from the pool,
\* which creates none when it is empty.
Accept ==
    /\ pc[Poller] = "poll"
    /\ \E c \in Conn : mem[c] = "unused"
    /\ LET c == LowestOf({d \in Conn : mem[d] = "unused"})
           s == IF sockets_pool # <<>> THEN Head(sockets_pool)
                ELSE LowestOf({n \in Conn : holder[n] = Unmade})
       IN  /\ mem' = [mem EXCEPT ![c] = "live"]
           /\ sock' = [sock EXCEPT ![c] = s]
           /\ holder' = [holder EXCEPT ![s] = c]
           /\ held' = held \union {c}
    /\ sockets_pool' = IF sockets_pool # <<>> THEN Tail(sockets_pool) ELSE <<>>
    /\ UNCHANGED <<handler_type, clientMem, session_id, connections, clients, sockMap, polled,
                   pooled, hold, pc, receive, removal>>

-----------------------------------------------------------------------------
(* The thread of the connections on hold                                   *)

\* connection_drop (): the socket goes back to the pool.
DropConnection(c) ==
    /\ mem' = [mem EXCEPT ![c] = "freed"]
    /\ holder' = [holder EXCEPT ![sock[c]] = Free]
    /\ sockets_pool' = Append(sockets_pool, sock[c])
    /\ sock' = [sock EXCEPT ![c] = None]

StepH(from, to) ==
    /\ pcH = from /\ pcH' = to
    /\ UNCHANGED <<handler_type, pc, receive, removal>>

\* auth_with_defined_method () succeeds: a client with this connection and a
\* new session id, which nobody else knows yet; ids are numbered as they come.
CreateClient(c) ==
    /\ c \in held /\ \E k \in Client : clientMem[k] = "unused"
    /\ StepH("poll", "unhold")
    /\ LET k == LowestOf({j \in Client : clientMem[j] = "unused"})
       IN  /\ clientMem' = [clientMem EXCEPT ![k] = "live"]
           /\ connections' = [connections EXCEPT ![k] = <<c>>]
           /\ \E i \in Id : i <= k /\ session_id' = [session_id EXCEPT ![k] = i]
           /\ clientH' = k
    /\ connH' = c
    /\ UNCHANGED <<mem, sock, holder, sockets_pool, tables>>

\* The session id generator fails: the client is deleted again and its
\* connection dropped from the structures of those on hold.  auth_try () returns
\* no error, and the rest of the buffer is handled with what was freed.
GenerateFails(c) ==
    /\ c \in held
    /\ StepH("poll", "poll") \/ StepH("poll", "crashed")
    /\ held' = held \ {c}
    /\ DropConnection(c)
    /\ UNCHANGED <<clientMem, session_id, connections, clients, sockMap, polled, pooled, connH, clientH>>

\* client_get_by_session_id (); a token that no client has is a failed auth.
FindByToken(c) ==
    /\ c \in held
    /\ StepH("poll", "join")
    /\ clientH' \in clients
    /\ connH' = c
    /\ UNCHANGED <<objects, tables>>

\* connection_register_to_client (): the client is used outside the lock of
\* the tree in which it was found.
JoinClient ==
    /\ pcH = "join" /\ clientMem[clientH] = "live"
    /\ StepH("join", "joinMap")
    /\ connections' = [connections EXCEPT ![clientH] = Append(@, connH)]
    /\ UNCHANGED <<mem, sock, holder, sockets_pool, clientMem, session_id, tables, connH, clientH>>

\* Fault: the connection is registered to the client but not to the cerver.
JoinWithoutMap ==
    /\ pcH = "joinMap" /\ mem[connH] = "live"
    /\ StepH("joinMap", "unholdJoined")
    /\ UNCHANGED <<objects, tables, connH, clientH>>

\* connection_register_to_cerver ()
JoinMap ==
    /\ pcH = "joinMap" /\ mem[connH] = "live"
    /\ StepH("joinMap", "unholdJoined")
    /\ sockMap' = [sockMap EXCEPT ![connH] = clientH]
    /\ UNCHANGED <<objects, clients, polled, held, pooled, connH, clientH>>

\* on_hold_connection_remove ()
Unhold ==
    /\ pcH \in {"unhold", "unholdJoined"} /\ mem[connH] = "live"
    /\ StepH("unhold", "map") \/ StepH("unholdJoined", "match")
    /\ held' = held \ {connH}
    /\ UNCHANGED <<objects, clients, sockMap, polled, pooled, connH, clientH>>

\* client_register_to_cerver (): the map, the poll array if there is one, the
\* tree.
RegisterMap ==
    /\ StepH("map", IF handler_type = "poll" THEN "register" ELSE "insert")
    /\ sockMap' = [sockMap EXCEPT ![connH] = clientH]
    /\ UNCHANGED <<objects, clients, polled, held, pooled, connH, clientH>>

RegisterPoll ==
    /\ StepH("register", "insert")
    /\ polled' = polled \union {connH}
    /\ UNCHANGED <<objects, clients, sockMap, held, pooled, connH, clientH>>

Insert ==
    /\ pcH = "insert" /\ IsLive(clientH, connH)
    /\ StepH("insert", "welcome")
    /\ clients' = clients \union {clientH}
    /\ UNCHANGED <<objects, sockMap, polled, held, pooled, connH, clientH>>

FinishH(from) == StepH(from, "poll") /\ connH' = None /\ clientH' = None

\* The session id is sent; the poll thread knows the connection already.
Welcome ==
    /\ pcH = "welcome" /\ IsLive(clientH, connH)
    /\ IF handler_type = "poll" THEN FinishH("welcome")
       ELSE StepH("welcome", "select") /\ UNCHANGED <<connH, clientH>>
    /\ UNCHANGED <<objects, tables>>

\* The joined client is looked up again, by the descriptor.
Match ==
    /\ pcH = "match" /\ mem[connH] = "live"
    /\ IF sockMap[connH] = None THEN FinishH("match")
       ELSE StepH("match", "selectJoined") /\ clientH' = sockMap[connH] /\ UNCHANGED connH
    /\ UNCHANGED <<objects, tables>>

\* cerver_handler_register_connection () with the poll thread.
SelectPoll ==
    /\ pcH = "selectJoined" /\ mem[connH] = "live" /\ handler_type = "poll"
    /\ StepH("selectJoined", "announce")
    /\ polled' = polled \union {connH}
    /\ UNCHANGED <<objects, clients, sockMap, held, pooled, connH, clientH>>

\* The threads of the thpool that are counted as working.
Working == {c \in pooled : pc[c] # "queued"}

\* A thread for the connection: it becomes a job of the thpool unless that is
\* full, or has a thread of its own, which may not be created.
SelectThread ==
    /\ pcH \in {"select", "selectJoined"} /\ mem[connH] = "live" /\ handler_type = "threads"
    /\ pcH' = IF pcH = "select" THEN "poll" ELSE "announce"
    /\ \/ /\ pc' = [pc EXCEPT ![connH] = "queued"]
          /\ pooled' = IF Cardinality(Working) < Pool THEN pooled \union {connH} ELSE pooled
          /\ crClient' = [crClient EXCEPT ![connH] = clientH]
          /\ crConn' = [crConn EXCEPT ![connH] = connH]
          /\ crSock' = [crSock EXCEPT ![connH] = sock[connH]]
       \/ Cardinality(Working) >= Pool /\ UNCHANGED <<pc, pooled, receive>>
    /\ connH' = IF pcH = "select" THEN None ELSE connH
    /\ clientH' = IF pcH = "select" THEN None ELSE clientH
    /\ UNCHANGED <<handler_type, objects, clients, sockMap, polled, held, removal>>

\* The success packet for a connection that has joined.
Announce ==
    /\ pcH = "announce" /\ IsLive(clientH, connH)
    /\ FinishH("announce")
    /\ UNCHANGED <<objects, tables>>

\* The client or the connection has been freed meanwhile.
UseFreedH ==
    /\ \/ pcH = "join" /\ clientMem[clientH] = "freed"
       \/ pcH \in {"joinMap", "unholdJoined", "match", "select", "selectJoined"} /\ mem[connH] = "freed"
       \/ pcH \in {"insert", "welcome", "announce"} /\ ~ IsLive(clientH, connH)
    /\ StepH(pcH, "crashed")
    /\ UNCHANGED <<objects, tables, connH, clientH>>

-----------------------------------------------------------------------------
(* The threads that receive                                                *)

Goto(t, from, to) ==
    /\ pc[t] = from /\ pc' = [pc EXCEPT ![t] = to]
    /\ UNCHANGED <<handler_type, hold>>

Crash(t, from) == Goto(t, from, "crashed") /\ UNCHANGED <<objects, tables, receive, removal>>

\* What client_remove_connection_by_sock_fd () is called with.
RemoveConnection(t, from, k, c, to) ==
    /\ Goto(t, from, "size")
    /\ crClient' = [crClient EXCEPT ![t] = k]
    /\ victim' = [victim EXCEPT ![t] = c]
    /\ after' = [after EXCEPT ![t] = to]
    /\ UNCHANGED <<objects, tables, crConn, crSock, onlyOne>>

\* The poll thread finds the client of a polled descriptor.  recv () fails or
\* the packet is CLIENT_PACKET_TYPE_CLOSE_CONNECTION; other packets change
\* nothing here.
PollLeaves(c) ==
    /\ c \in polled /\ sockMap[c] # None /\ clientMem[sockMap[c]] = "live"
    /\ RemoveConnection(Poller, "poll", sockMap[c], c, "poll")

\* CLIENT_PACKET_TYPE_DISCONNECT: client_drop ().
PollDisconnects(c) ==
    /\ c \in polled /\ sockMap[c] # None /\ clientMem[sockMap[c]] = "live"
    /\ Goto(Poller, "poll", "dropUnmap")
    /\ crClient' = [crClient EXCEPT ![Poller] = sockMap[c]]
    /\ UNCHANGED <<objects, tables, crConn, crSock, removal>>

\* A descriptor without client is closed; its number is not used again here.
PollRogue(c) ==
    /\ c \in polled /\ sockMap[c] = None
    /\ Goto(Poller, "poll", "poll")
    /\ polled' = polled \ {c}
    /\ UNCHANGED <<objects, clients, sockMap, held, pooled, receive, removal>>

PollUsesFreed(c) ==
    /\ c \in polled /\ sockMap[c] # None /\ clientMem[sockMap[c]] = "freed"
    /\ Crash(Poller, "poll")

\* cerver_receive_threads () begins, in the thpool when a thread is left.
Begin(c) ==
    /\ c \in pooled => Cardinality(Working) < Pool
    /\ Goto(c, "queued", "loop")
    /\ UNCHANGED <<objects, tables, receive, removal>>

\* The descriptor that recv () is called with is the one of its socket.
ThreadFails(c) ==
    /\ pc[c] = "loop" /\ holder[crSock[c]] # Freed
    /\ Goto(c, "loop", "exit")
    /\ UNCHANGED <<objects, tables, receive, removal>>

ThreadCloses(c) ==
    /\ pc[c] = "loop" /\ holder[crSock[c]] \in Conn /\ mem[crConn[c]] = "live"
    /\ RemoveConnection(c, "loop", crClient[c], crConn[c], "loop")

\* Something is received after the connection, or the socket, was freed; or
\* the client disconnects: client_drop () takes its connections out of the
\* poll array, which does not exist.
ThreadCrashes(c) ==
    /\ pc[c] = "loop"
    /\ \/ holder[crSock[c]] = Freed
       \/ holder[crSock[c]] \in Conn
    /\ Crash(c, "loop")

\* What the thread received with is forgotten when it ends.
EndReceive(t) ==
    /\ crClient' = [crClient EXCEPT ![t] = None]
    /\ crConn' = [crConn EXCEPT ![t] = None]
    /\ crSock' = [crSock EXCEPT ![t] = None]
    /\ pooled' = pooled \ {t}

ThreadExits(c) ==
    /\ pc[c] = "exit"
    /\ \/ /\ holder[crSock[c]] = Free
          /\ Goto(c, "exit", "done") /\ EndReceive(c)
          /\ UNCHANGED <<objects, clients, sockMap, polled, held, removal>>
       \/ /\ holder[crSock[c]] \in Conn
          /\ RemoveConnection(c, "exit", crClient[c], holder[crSock[c]], "done")
       \/ /\ holder[crSock[c]] = Freed
          /\ Crash(c, "exit")

-----------------------------------------------------------------------------
(* client_remove_connection_by_sock_fd ()                                  *)

\* The thread goes on receiving or ends.
Return(t, from) ==
    /\ Goto(t, from, after[t])
    /\ IF after[t] = "loop" THEN UNCHANGED <<receive, pooled>> ELSE EndReceive(t)
    /\ after' = [after EXCEPT ![t] = "none"]
    /\ victim' = [victim EXCEPT ![t] = None]
    /\ onlyOne' = [onlyOne EXCEPT ![t] = FALSE]

\* The number of connections decides what is removed.
Count(t) ==
    /\ pc[t] = "size" /\ clientMem[crClient[t]] = "live"
    /\ LET list == connections[crClient[t]]
           first == IF handler_type = "poll" THEN "unpoll" ELSE "unmap"
       IN  \/ /\ Len(list) = 0
              /\ Goto(t, "size", "remove")
              /\ UNCHANGED <<removal, receive, pooled>>
           \/ /\ Len(list) = 1
              /\ Goto(t, "size", first)
              /\ victim' = [victim EXCEPT ![t] = list[1]]
              /\ onlyOne' = [onlyOne EXCEPT ![t] = TRUE]
              /\ UNCHANGED <<after, receive, pooled>>
           \/ /\ Len(list) > 1 /\ victim[t] \in ToSet(list)
              /\ Goto(t, "size", first)
              /\ onlyOne' = [onlyOne EXCEPT ![t] = FALSE]
              /\ UNCHANGED <<victim, after, receive, pooled>>
           \/ /\ Len(list) > 1 /\ victim[t] \notin ToSet(list)
              /\ Return(t, "size")
    /\ UNCHANGED <<objects, clients, sockMap, polled, held>>

Unpoll(t) ==
    /\ pc[t] = "unpoll" /\ mem[victim[t]] = "live"
    /\ Goto(t, "unpoll", "unmap")
    /\ polled' = polled \ {victim[t]}
    /\ UNCHANGED <<objects, clients, sockMap, held, pooled, receive, removal>>

Unmap(t) ==
    /\ pc[t] = "unmap" /\ mem[victim[t]] = "live"
    /\ Goto(t, "unmap", "unlist")
    /\ sockMap' = [sockMap EXCEPT ![victim[t]] = None]
    /\ UNCHANGED <<objects, clients, polled, held, pooled, receive, removal>>

\* client_connection_drop (): only a connection of the client is dropped, and
\* the client with its last one.
Unlist(t) ==
    /\ pc[t] = "unlist" /\ clientMem[crClient[t]] = "live"
    /\ LET k == crClient[t]
       IN  IF victim[t] \in ToSet(connections[k])
             THEN /\ connections' = [connections EXCEPT ![k] = RemoveFirst(@, victim[t])]
                  /\ DropConnection(victim[t])
                  /\ IF onlyOne[t] THEN Goto(t, "unlist", "remove") /\ UNCHANGED <<removal, receive, pooled>>
                     ELSE Return(t, "unlist")
             ELSE /\ Return(t, "unlist")
                  /\ UNCHANGED <<mem, sock, holder, sockets_pool, connections>>
    /\ UNCHANGED <<clientMem, session_id, clients, sockMap, polled, held>>

\* client_remove_from_cerver (): a client with the same session id.
TakeOut(k) == \E j \in clients : session_id[j] = session_id[k] /\ clients' = clients \ {j}

RemoveClient(t) ==
    /\ pc[t] \in {"remove", "dropRemove"} /\ clientMem[crClient[t]] = "live"
    /\ Goto(t, "remove", "delete") \/ Goto(t, "dropRemove", "dropDelete")
    /\ \/ TakeOut(crClient[t])
       \/ (\A j \in clients : session_id[j] # session_id[crClient[t]]) /\ UNCHANGED clients
    /\ UNCHANGED <<objects, sockMap, polled, held, pooled, receive, removal>>

\* client_delete (): with all the connections it has by now.
Delete(k) ==
    LET gone == ToSet(connections[k])
    IN  /\ clientMem' = [clientMem EXCEPT ![k] = "freed"]
        /\ connections' = [connections EXCEPT ![k] = <<>>]
        /\ mem' = [c \in Conn |-> IF c \in gone THEN "freed" ELSE mem[c]]
        /\ holder' = [s \in Conn |-> IF holder[s] \in gone THEN Freed ELSE holder[s]]
        /\ sock' = [c \in Conn |-> IF c \in gone THEN None ELSE sock[c]]
        /\ UNCHANGED <<sockets_pool, session_id>>

DeleteClient(t) ==
    /\ pc[t] = "delete" /\ clientMem[crClient[t]] = "live"
    /\ Return(t, "delete")
    /\ Delete(crClient[t])
    /\ UNCHANGED <<clients, sockMap, polled, held>>

\* After a packet that asked for the end of its connection, the buffer is gone
\* on with through the receive handle that was freed with it.
UseFreed(t) ==
    \/ Crash(t, "size") /\ clientMem[crClient[t]] = "freed"
    \/ Crash(t, "unpoll") /\ mem[victim[t]] = "freed"
    \/ Crash(t, "unmap") /\ mem[victim[t]] = "freed"
    \/ Crash(t, "unlist") /\ clientMem[crClient[t]] = "freed"
    \/ Crash(t, "remove") /\ clientMem[crClient[t]] = "freed"
    \/ Crash(t, "delete") /\ clientMem[crClient[t]] = "freed"
    \/ (Crash(t, "unlist") \/ Crash(t, "delete")) /\ after[t] # "done"

Removal(t) ==
    Count(t) \/ Unpoll(t) \/ Unmap(t) \/ Unlist(t) \/ RemoveClient(t) \/ DeleteClient(t) \/ UseFreed(t)

\* client_drop () by the poll thread: the client's connections are taken out
\* of the map and then out of the poll array.
DropMaps ==
    /\ Goto(Poller, "dropUnmap", "dropUnpoll")
    /\ sockMap' = [c \in Conn |-> IF c \in ToSet(connections[crClient[Poller]]) THEN None ELSE sockMap[c]]
    /\ UNCHANGED <<objects, clients, polled, held, pooled, receive, removal>>

DropPolls ==
    /\ Goto(Poller, "dropUnpoll", "dropRemove")
    /\ polled' = polled \ ToSet(connections[crClient[Poller]])
    /\ UNCHANGED <<objects, clients, sockMap, held, pooled, receive, removal>>

\* The rest of the buffer is handled with the freed receive handle.
DropDelete ==
    /\ Goto(Poller, "dropDelete", "poll") \/ Goto(Poller, "dropDelete", "crashed")
    /\ EndReceive(Poller) /\ Delete(crClient[Poller])
    /\ UNCHANGED <<clients, sockMap, polled, held, removal>>

-----------------------------------------------------------------------------
OnHoldThread ==
    \/ \E c \in Conn : CreateClient(c) \/ GenerateFails(c) \/ FindByToken(c)
    \/ JoinClient \/ JoinMap \/ Unhold \/ RegisterMap \/ RegisterPoll \/ Insert \/ Welcome
    \/ Match \/ SelectPoll \/ SelectThread \/ Announce \/ UseFreedH

PollThread ==
    \/ \E c \in Conn : PollLeaves(c) \/ PollDisconnects(c) \/ PollRogue(c) \/ PollUsesFreed(c)
    \/ DropMaps \/ DropPolls \/ DropDelete
    \/ Removal(Poller)

ConnThread(c) ==
    Begin(c) \/ ThreadFails(c) \/ ThreadCloses(c) \/ ThreadCrashes(c) \/ ThreadExits(c) \/ Removal(c)

\* A thread is removing client k; the thread of those on hold is busy with it.
Removing(k) ==
    \E t \in Thread : crClient[t] = k /\ pc[t] \notin {"poll", "none", "queued", "loop", "exit", "done"}
Busy(k) == pcH # "poll" /\ clientH = k

Next ==
    /\ ~ Crashed
    /\ Accept \/ OnHoldThread \/ PollThread \/ \E c \in Conn : ConnThread(c)
    /\ crossed' = crossed \union {k \in Client : Removing(k)' /\ Busy(k)'}

Spec == Init /\ [][Next]_vars

-----------------------------------------------------------------------------
(***************************************************************************)
(* Properties                                                              *)
(***************************************************************************)
\* No thread is in the middle of an operation.
AtRest == pcH = "poll" /\ \A t \in Thread : pc[t] \in {"poll", "none", "queued", "loop", "done"}

DistinctIds == \A j, k \in Client : session_id[j] = session_id[k] => j = k \/ session_id[j] = None

\* When no thread is in the middle of an operation, and as long as session
\* ids differ, this is so of every client that was not removed while the
\* thread of those on hold was busy with it: it is in the tree as long as it
\* lives, its connections live and are not on hold, the map leads from them,
\* and from no other, to it, and exactly they are polled.  With the poll thread
\* it has a connection; two threads may remove its last two at the same time.
SessionsAgree ==
    AtRest /\ DistinctIds =>
        /\ \A k \in Client \ crossed :
             LET its == ToSet(connections[k])
             IN  /\ clientMem[k] = "live" <=> k \in clients
                 /\ clientMem[k] = "live" /\ handler_type = "poll" => its # {}
                 /\ IsInjective(connections[k])
                 /\ its = {c \in Conn : sockMap[c] = k}
                 /\ \A c \in its : mem[c] = "live" /\ c \notin held
        /\ crossed = {} =>
             /\ handler_type = "poll" => polled = UNION {ToSet(connections[k]) : k \in Client}
             /\ {c \in Conn : mem[c] = "live"} = held \union UNION {ToSet(connections[k]) : k \in Client}
=============================================================================
