----------------------------- MODULE ClientSide ------------------------------
(***************************************************************************)
(* client.c and connection.c on the side that connects: an application     *)
(* thread connects and starts connections, sends through their queues,     *)
(* asks for an answer without a thread, ends connections and tears the     *)
(* client down; each started connection has an update thread that receives *)
(* and dispatches packets, and may have a send thread; the client has a    *)
(* handler thread for the packets of the application.  The other end sends *)
(* packets and closes.                                                     *)
(*                                                                         *)
(* client_connection_end () is run by the application, and by an update    *)
(* thread for its own connection when a receive fails or the other end     *)
(* asks to close: it then waits for updating, which that thread itself     *)
(* would have to reset.  The first test of updating is made without the    *)
(* mutex, so that it may come between the reset and the unlock.            *)
(*                                                                         *)
(* Assumed of time: the four seconds of client_teardown () are longer than *)
(* the timeout of a receive, and the second for which client_connection_   *)
(* end () sleeps when there is a send queue is long enough for the send    *)
(* thread to end and for the update thread to unlock.  close () and the    *)
(* reset of the descriptor are one step.  A thread whose connection has    *)
(* been deleted goes on as with memory that is still as it was; that there *)
(* is none is what DeletedIsUnused says, with its exceptions.              *)
(***************************************************************************)
EXTENDS Naturals, Sequences, FiniteSets

CONSTANTS Conn,          \* the connections of the client
          Queued,        \* those with a send queue (use_send_queue)
          Worker,        \* bound: the handler threads that are ever started
          Inbox, Sends   \* bounds: packets that are on the way or
                         \* wait for the handler, packets given to a queue

VARIABLES running,       \* client->running
          listed,        \* client->connections
          state, active, updating, sock,  \* of each connection
          freed,         \* by whom it was deleted: "no", "end" or "teardown"
          pc, target,    \* of the application and of the update threads
          op,            \* the call that the application is in
          spc, jobs, token, sent,   \* send thread, its queue and semaphore, what it sent
          hpc, hjobs, htoken,       \* handler threads, their queue and semaphore
          peer, inbox,   \* the other end, and what it has sent
          early          \* history: deleted, perhaps, while the update thread
                         \* starts or ends

connVars == <<listed, state, active, updating, sock, freed>>
sendVars == <<spc, jobs, token, sent>>
handlerVars == <<hpc, hjobs, htoken>>
peerVars == <<peer, inbox>>
vars == <<running, connVars, pc, target, op, sendVars, handlerVars, peerVars, early>>

App == "app"
Thread == Conn \cup {App}
Kind == {"app", "close", "disconnect"}
Over == {"none", "ended"}

Init ==
    /\ running = FALSE /\ listed = Conn
    /\ state = [c \in Conn |-> "none"]
    /\ active = [c \in Conn |-> FALSE] /\ updating = [c \in Conn |-> FALSE]
    /\ sock = [c \in Conn |-> "closed"] /\ freed = [c \in Conn |-> "no"]
    /\ pc = [t \in Thread |-> IF t = App THEN "idle" ELSE "none"]
    /\ target = CHOOSE c \in Conn : TRUE
    /\ op = "none"
    /\ spc = [c \in Conn |-> "none"] /\ jobs = [c \in Conn |-> <<>>]
    /\ token = [c \in Conn |-> FALSE] /\ sent = [c \in Conn |-> 0]
    /\ hpc = [w \in Worker |-> "none"] /\ hjobs = 0 /\ htoken = FALSE
    /\ peer = [c \in Conn |-> "none"] /\ inbox = [c \in Conn |-> <<>>]
    /\ early = {}

Goto(t, from, to) == pc[t] = from /\ pc' = [pc EXCEPT ![t] = to]
\* The connection that a thread works on.
Of(t) == IF t = App THEN target ELSE t
Alive == {w \in Worker : hpc[w] \notin Over}

-----------------------------------------------------------------------------
\* The other end.
PeerSends(c) ==
    /\ peer[c] = "open" /\ Len(inbox[c]) + hjobs < Inbox
    /\ \E k \in Kind : inbox' = [inbox EXCEPT ![c] = Append(@, k)]
    /\ UNCHANGED <<running, connVars, pc, target, op, sendVars, handlerVars, peer, early>>

PeerCloses(c) ==
    /\ peer[c] = "open"
    /\ peer' = [peer EXCEPT ![c] = "shut"]
    /\ UNCHANGED <<running, connVars, pc, target, op, sendVars, handlerVars, inbox, early>>

-----------------------------------------------------------------------------
\* connection_connect (): only a connection that has not been tried.
Connect(c) ==
    /\ pc[App] = "idle" /\ freed[c] = "no" /\ state[c] = "none"
    /\ sock' = [sock EXCEPT ![c] = "open"]
    /\ \/ /\ state' = [state EXCEPT ![c] = "ready"]
          /\ active' = [active EXCEPT ![c] = TRUE]
          /\ peer' = [peer EXCEPT ![c] = "open"]
       \/ /\ state' = [state EXCEPT ![c] = "unavailable"]
          /\ UNCHANGED <<active, peer>>
    /\ UNCHANGED <<running, listed, updating, freed, pc, target, op, sendVars, handlerVars, inbox, early>>

\* client_start (): the handlers are started by the first connection, and by
\* the first after the client stopped running.
StartClient(c) ==
    /\ state[c] = "ready" /\ active[c] /\ pc[c] = "none" /\ spc[c] = "none"
    /\ Goto(App, "idle", "start") /\ target' = c
    /\ \/ /\ running
          /\ UNCHANGED <<running, hpc>>
       \/ /\ ~ running /\ running' = TRUE
          /\ \E w \in Worker : hpc[w] \in Over /\ hpc' = [hpc EXCEPT ![w] = "test"]
    /\ UNCHANGED <<connVars, op, sendVars, hjobs, htoken, peerVars, early>>

\* connection_start (): the threads of the connection, each of which may not be
\* created; then the connection is not working.
StartConnection ==
    /\ pc[App] = "start"
    /\ \E update, send \in BOOLEAN :
         /\ send => target \in Queued
         /\ pc' = [pc EXCEPT ![App] = "idle", ![target] = IF update THEN "begin" ELSE "none"]
         /\ spc' = [spc EXCEPT ![target] = IF send THEN "test" ELSE "none"]
         /\ state' = IF update /\ (send \/ target \notin Queued) THEN [state EXCEPT ![target] = "working"]
                     ELSE state
    /\ UNCHANGED <<running, listed, active, updating, sock, freed, target, op, jobs, token, sent,
                   handlerVars, peerVars, early>>

\* connection_send_packet (), with the jobs numbered as they are given.
SendPacket(c) ==
    /\ pc[App] = "idle" /\ c \in Queued /\ state[c] = "working" /\ freed[c] = "no"
    /\ sent[c] + Len(jobs[c]) < Sends
    /\ jobs' = [jobs EXCEPT ![c] = Append(@, sent[c] + Len(@) + 1)]
    /\ token' = [token EXCEPT ![c] = TRUE]
    /\ UNCHANGED <<running, connVars, pc, target, op, spc, sent, handlerVars, peerVars, early>>

-----------------------------------------------------------------------------
\* The application calls client_connection_end () or client_connection_close ().
CallEnd(c) ==
    /\ freed[c] = "no" /\ state[c] \in {"ready", "working"}
    /\ Goto(App, "idle", "close") /\ target' = c
    /\ op' \in {"end", "close"}
    /\ early' = IF pc[c] = "begin" THEN early \cup {c} ELSE early
    /\ UNCHANGED <<running, connVars, sendVars, handlerVars, peerVars>>

\* client_connection_terminate () and connection_end (): the other end is told
\* of the close if the connection is active.
Close(t) ==
    LET c == Of(t) IN
    /\ Goto(t, "close", IF active[c] THEN "inactive" ELSE "remove")
    /\ sock' = IF active[c] THEN [sock EXCEPT ![c] = "closed"] ELSE sock
    /\ peer' = IF active[c] THEN [peer EXCEPT ![c] = "shut"] ELSE peer
    /\ UNCHANGED <<running, listed, state, active, updating, freed, target, op, sendVars, handlerVars,
                   inbox, early>>

SetInactive(t) ==
    /\ Goto(t, "inactive", "remove")
    /\ active' = [active EXCEPT ![Of(t)] = FALSE]
    /\ UNCHANGED <<running, listed, state, updating, sock, freed, target, op, sendVars, handlerVars,
                   peerVars, early>>

\* client_connection_close () ends here.
RemoveConnection(t) ==
    /\ Goto(t, "remove", IF t = App /\ op = "close" THEN "idle" ELSE "await")
    /\ listed' = IF pc'[t] = "await" THEN listed \ {Of(t)} ELSE listed
    /\ UNCHANGED <<running, state, active, updating, sock, freed, target, op, sendVars, handlerVars,
                   peerVars, early>>

\* Fault: the connection is deleted without waiting for its thread.
AwaitUpdateNot(t) ==
    /\ Goto(t, "await", "wake")
    /\ UNCHANGED <<running, connVars, target, op, sendVars, handlerVars, peerVars, early>>

\* The test without the mutex, which may read what the update thread has just
\* reset; only the second of a connection with a queue lets it unlock then.
AwaitUpdate(t) ==
    LET c == Of(t) IN
    /\ Goto(t, "await", IF updating[c] THEN "wait" ELSE "wake")
    /\ early' = IF pc[c] = "signal" /\ c \notin Queued THEN early \cup {c} ELSE early
    /\ UNCHANGED <<running, connVars, target, op, sendVars, handlerVars, peerVars>>

\* The loop around pthread_cond_wait () ends with the mutex.
WaitForUpdate(t) ==
    /\ ~ updating[Of(t)] /\ pc[Of(t)] # "signal"
    /\ Goto(t, "wait", "wake")
    /\ UNCHANGED <<running, connVars, target, op, sendVars, handlerVars, peerVars, early>>

WakeSend(t) ==
    /\ Goto(t, "wake", "post")
    /\ token' = IF Of(t) \in Queued THEN [token EXCEPT ![Of(t)] = TRUE] ELSE token
    /\ UNCHANGED <<running, connVars, target, op, spc, jobs, sent, handlerVars, peerVars, early>>

\* connection_delete (), with a queue after a second.  A request of the application goes
\* back to its loop with the connection that is gone.
DeleteConnection(t) ==
    LET c == Of(t) IN
    /\ spc[c] \in Over /\ (c \in Queued => pc[c] # "signal")
    /\ Goto(t, "post", IF op = "request" THEN "lost" ELSE "idle")
    /\ freed' = [freed EXCEPT ![c] = "end"]
    /\ running' = IF op = "request" /\ listed = {} THEN FALSE ELSE running
    /\ UNCHANGED <<listed, state, active, updating, sock, target, op, sendVars, handlerVars, peerVars, early>>

EndStep(t) ==
    \/ Close(t) \/ SetInactive(t) \/ RemoveConnection(t) \/ AwaitUpdate(t) \/ WaitForUpdate(t)
    \/ WakeSend(t) \/ DeleteConnection(t)

-----------------------------------------------------------------------------
\* What recv () gives: a packet, nothing in time, or a failure.
HasPacket(c) == sock[c] = "open" /\ inbox[c] # <<>>
Fails(c) == sock[c] = "closed" \/ (peer[c] = "shut" /\ inbox[c] = <<>>)

\* client_packet_handler () with the packet that was received.
Dispatch(t, c, done) ==
    LET k == Head(inbox[c]) IN
    /\ inbox' = [inbox EXCEPT ![c] = Tail(@)]
    /\ pc' = [pc EXCEPT ![t] = CASE k = "close" -> "close" [] k = "disconnect" -> "stop" [] OTHER -> done]
    /\ hjobs' = IF k = "app" THEN hjobs + 1 ELSE hjobs
    /\ htoken' = (htoken \/ k = "app")

\* client_got_disconnected (): every connection is ended, then the client
\* is not running.
DisconnectAll(t) ==
    /\ Goto(t, "stop", "stopped")
    /\ sock' = [c \in Conn |-> IF c \in listed /\ active[c] THEN "closed" ELSE sock[c]]
    /\ peer' = [c \in Conn |-> IF c \in listed /\ active[c] THEN "shut" ELSE peer[c]]
    /\ active' = [c \in Conn |-> active[c] /\ c \notin listed]
    /\ UNCHANGED <<running, listed, state, updating, freed, target, op, sendVars, handlerVars, inbox, early>>

StopRunning(t) ==
    /\ Goto(t, "stopped", IF t = App THEN "idle" ELSE "test")
    /\ running' = FALSE
    /\ UNCHANGED <<connVars, target, op, sendVars, handlerVars, peerVars, early>>

-----------------------------------------------------------------------------
\* connection_update_thread ().
UpdateBegin(c) ==
    /\ Goto(c, "begin", "test")
    /\ updating' = [updating EXCEPT ![c] = TRUE]
    /\ UNCHANGED <<running, listed, state, active, sock, freed, target, op, sendVars, handlerVars, peerVars, early>>

UpdateTest(c) ==
    /\ Goto(c, "test", IF running /\ active[c] THEN "recv" ELSE "finish")
    /\ UNCHANGED <<running, connVars, target, op, sendVars, handlerVars, peerVars, early>>

UpdateReceives(c) ==
    /\ pc[c] = "recv" /\ HasPacket(c)
    /\ Dispatch(c, c, "test")
    /\ UNCHANGED <<running, connVars, target, op, sendVars, hpc, peer, early>>

UpdateTimesOut(c) ==
    /\ ~ HasPacket(c) /\ ~ Fails(c)
    /\ Goto(c, "recv", "test")
    /\ UNCHANGED <<running, connVars, target, op, sendVars, handlerVars, peerVars, early>>

\* client_receive_handle_failed (): an active connection is ended.
UpdateFails(c) ==
    /\ Fails(c)
    /\ Goto(c, "recv", IF active[c] THEN "close" ELSE "finish")
    /\ UNCHANGED <<running, connVars, target, op, sendVars, handlerVars, peerVars, early>>

\* Fault: the thread ends and leaves the connection updating.
UpdateFinishSilently(c) ==
    /\ Goto(c, "finish", "ended")
    /\ UNCHANGED <<running, connVars, target, op, sendVars, handlerVars, peerVars, early>>

\* The mutex is taken, and updating reset.
UpdateFinish(c) ==
    /\ Goto(c, "finish", "signal")
    /\ updating' = [updating EXCEPT ![c] = FALSE]
    /\ UNCHANGED <<running, listed, state, active, sock, freed, target, op, sendVars, handlerVars, peerVars, early>>

\* Signal and unlock.
UpdateSignal(c) ==
    /\ Goto(c, "signal", "ended")
    /\ UNCHANGED <<running, connVars, target, op, sendVars, handlerVars, peerVars, early>>

-----------------------------------------------------------------------------
\* client_request_to_cerver () of a connection without a thread: its loop ends
\* with a packet and at nothing else.
CallRequest(c) ==
    /\ state[c] = "ready" /\ freed[c] = "no" /\ pc[c] = "none"
    /\ Goto(App, "idle", "request") /\ target' = c /\ op' = "request"
    /\ UNCHANGED <<running, connVars, sendVars, handlerVars, peerVars, early>>

RequestReceives ==
    /\ pc[App] = "request" /\ HasPacket(target)
    /\ Dispatch(App, target, "idle")
    /\ op' = "end"
    /\ UNCHANGED <<running, connVars, target, sendVars, hpc, peer, early>>

RequestFails ==
    /\ Fails(target) /\ active[target]
    /\ Goto(App, "request", "close")
    /\ UNCHANGED <<running, connVars, target, op, sendVars, handlerVars, peerVars, early>>

RequestRetries ==
    /\ ~ HasPacket(target) /\ ~ (Fails(target) /\ active[target])
    /\ Goto(App, "request", "request")
    /\ UNCHANGED <<running, connVars, target, op, sendVars, handlerVars, peerVars, early>>

-----------------------------------------------------------------------------
\* connection_send_thread ().
SendTest(c) ==
    /\ spc[c] = "test"
    /\ spc' = [spc EXCEPT ![c] = IF active[c] THEN "wait" ELSE "ended"]
    /\ UNCHANGED <<running, connVars, pc, target, op, jobs, token, sent, handlerVars, peerVars, early>>

SendWait(c) ==
    /\ spc[c] = "wait" /\ token[c]
    /\ token' = [token EXCEPT ![c] = FALSE]
    /\ spc' = [spc EXCEPT ![c] = IF active[c] THEN "pull" ELSE "ended"]
    /\ UNCHANGED <<running, connVars, pc, target, op, jobs, sent, handlerVars, peerVars, early>>

\* Fault: the semaphore is not posted again for the next packet.
SendPullWithoutPost(c) ==
    /\ spc[c] = "pull"
    /\ jobs' = IF jobs[c] = <<>> THEN jobs ELSE [jobs EXCEPT ![c] = Tail(@)]
    /\ sent' = IF jobs[c] = <<>> THEN sent ELSE [sent EXCEPT ![c] = Head(jobs[c])]
    /\ spc' = [spc EXCEPT ![c] = "test"]
    /\ UNCHANGED <<running, connVars, pc, target, op, token, handlerVars, peerVars, early>>

\* Fault: a packet that cannot be sent is left out, and the thread goes on.
SendPullGoesOn(c) ==
    /\ spc[c] = "pull"
    /\ jobs' = IF jobs[c] = <<>> THEN jobs ELSE [jobs EXCEPT ![c] = Tail(@)]
    /\ token' = IF Len(jobs[c]) > 1 THEN [token EXCEPT ![c] = TRUE] ELSE token
    /\ \/ /\ sock[c] = "open" \/ jobs[c] = <<>>
          /\ sent' = IF jobs[c] = <<>> THEN sent ELSE [sent EXCEPT ![c] = Head(jobs[c])]
       \/ /\ sock[c] = "closed" \/ peer[c] = "shut"
          /\ UNCHANGED sent
    /\ spc' = [spc EXCEPT ![c] = "test"]
    /\ UNCHANGED <<running, connVars, pc, target, op, handlerVars, peerVars, early>>

\* job_queue_pull () posts again while there are more; a packet that cannot be
\* sent ends the thread.
SendPull(c) ==
    /\ spc[c] = "pull"
    /\ jobs' = IF jobs[c] = <<>> THEN jobs ELSE [jobs EXCEPT ![c] = Tail(@)]
    /\ token' = IF Len(jobs[c]) > 1 THEN [token EXCEPT ![c] = TRUE] ELSE token
    /\ \/ /\ sock[c] = "open" \/ jobs[c] = <<>>
          /\ sent' = IF jobs[c] = <<>> THEN sent ELSE [sent EXCEPT ![c] = Head(jobs[c])]
          /\ spc' = [spc EXCEPT ![c] = "test"]
       \/ /\ sock[c] = "closed" \/ peer[c] = "shut"
          /\ jobs[c] # <<>>
          /\ spc' = [spc EXCEPT ![c] = "ended"]
          /\ UNCHANGED sent
    /\ UNCHANGED <<running, connVars, pc, target, op, handlerVars, peerVars, early>>

-----------------------------------------------------------------------------
\* A handler thread of the client: handler_do_while_client ().
HandlerTest(w) ==
    /\ hpc[w] = "test"
    /\ hpc' = [hpc EXCEPT ![w] = IF running THEN "wait" ELSE "ended"]
    /\ UNCHANGED <<running, connVars, pc, target, op, sendVars, hjobs, htoken, peerVars, early>>

HandlerWork(w) ==
    /\ hpc[w] = "wait" /\ htoken
    /\ hpc' = [hpc EXCEPT ![w] = "test"]
    /\ hjobs' = IF running /\ hjobs > 0 THEN hjobs - 1 ELSE hjobs
    /\ htoken' = (running /\ hjobs > 1)
    /\ UNCHANGED <<running, connVars, pc, target, op, sendVars, peerVars, early>>

-----------------------------------------------------------------------------
\* client_teardown (), and client_teardown_async (), which starts further on.
Teardown ==
    /\ Goto(App, "idle", "sleep") /\ op' = "teardown"
    /\ running' = FALSE
    /\ UNCHANGED <<connVars, target, sendVars, handlerVars, peerVars, early>>

TeardownAsync ==
    /\ Goto(App, "idle", "teardown") /\ op' = "async"
    /\ early' = early \cup {c \in listed : pc[c] \notin Over}
    /\ UNCHANGED <<running, connVars, target, sendVars, handlerVars, peerVars>>

\* The update threads that are not blocked have ended by then.
TeardownSleep ==
    /\ \A c \in Conn : pc[c] \in Over \cup {"wait"}
    /\ Goto(App, "sleep", "teardown")
    /\ UNCHANGED <<running, connVars, target, op, sendVars, handlerVars, peerVars, early>>

\* client_connection_close () of every connection.
TeardownClose ==
    /\ Goto(App, "teardown", "handlers")
    /\ sock' = [c \in Conn |-> IF c \in listed /\ active[c] THEN "closed" ELSE sock[c]]
    /\ peer' = [c \in Conn |-> IF c \in listed /\ active[c] THEN "shut" ELSE peer[c]]
    /\ active' = [c \in Conn |-> active[c] /\ c \notin listed]
    /\ UNCHANGED <<running, listed, state, updating, freed, target, op, sendVars, handlerVars, inbox, early>>

\* client_handlers_destroy (): posts until they have all ended.
TeardownHandlers ==
    /\ Alive # {}
    /\ Goto(App, "handlers", "handlers")
    /\ htoken' = TRUE
    /\ UNCHANGED <<running, connVars, target, op, sendVars, hpc, hjobs, peerVars, early>>

TeardownDelete ==
    /\ Alive = {}
    /\ Goto(App, "handlers", "gone")
    /\ freed' = [c \in Conn |-> IF c \in listed THEN "teardown" ELSE freed[c]]
    /\ UNCHANGED <<running, listed, state, active, updating, sock, target, op, sendVars, handlerVars, peerVars, early>>

-----------------------------------------------------------------------------
UpdateStep(c) ==
    \/ UpdateBegin(c) \/ UpdateTest(c) \/ UpdateReceives(c) \/ UpdateTimesOut(c) \/ UpdateFails(c)
    \/ UpdateFinish(c) \/ UpdateSignal(c) \/ DisconnectAll(c) \/ StopRunning(c) \/ EndStep(c)
SendStep(c) == SendTest(c) \/ SendWait(c) \/ SendPull(c)
HandlerStep(w) == HandlerTest(w) \/ HandlerWork(w)
AppStep ==
    \/ StartConnection \/ EndStep(App) \/ DisconnectAll(App) \/ StopRunning(App)
    \/ RequestReceives \/ RequestFails \/ RequestRetries
    \/ TeardownSleep \/ TeardownClose \/ TeardownHandlers \/ TeardownDelete
Calls ==
    \/ \E c \in Conn : Connect(c) \/ StartClient(c) \/ SendPacket(c) \/ CallEnd(c) \/ CallRequest(c)
    \/ Teardown \/ TeardownAsync

Next ==
    \/ \E c \in Conn : PeerSends(c) \/ PeerCloses(c) \/ UpdateStep(c) \/ SendStep(c)
    \/ \E w \in Worker : HandlerStep(w)
    \/ AppStep \/ Calls

\* The threads run; what the other end and the application decide is free.
Spec == Init /\ [][Next]_vars
FairSpec ==
    /\ Spec /\ WF_vars(AppStep)
    /\ \A c \in Conn : WF_vars(UpdateStep(c)) /\ WF_vars(SendStep(c))
    /\ \A w \in Worker : WF_vars(HandlerStep(w))

-----------------------------------------------------------------------------
\* client_connection_end () deletes a connection that none of its threads uses
\* any more, and a teardown one that is not being updated, unless the call came
\* before the update thread had announced itself, read updating between its
\* reset and the unlock, or was client_teardown_async ().
DeletedIsUnused ==
    \A c \in Conn \ early :
        /\ freed[c] # "no" => pc[c] \in Over
        /\ freed[c] = "end" => spc[c] \in Over /\ c \notin listed

\* The packets given to the queue of a connection are sent in their order, none
\* twice and none left out.
SendsInOrder == [][\A c \in Queued : sent'[c] \in {sent[c], sent[c] + 1}]_sent

\* client_connection_end () returns, unless the update thread of the connection
\* is in that function as well; client_teardown () returns; and the queue of an
\* active connection is emptied, unless its thread could not be created or has
\* given up.
CallsEnd ==
    /\ \A c \in Conn :
           pc[App] \in {"close", "wait", "post"} /\ target = c ~>
               pc[App] \in {"idle", "lost"} \/ pc[c] = "wait"
    /\ pc[App] = "sleep" ~> pc[App] = "gone"
    /\ \A c \in Queued : jobs[c] # <<>> /\ active[c] /\ spc[c] # "none" ~>
           jobs[c] = <<>> \/ ~ active[c] \/ spc[c] = "ended"
=============================================================================
