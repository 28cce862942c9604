------------------------------- MODULE Admins --------------------------------
(***************************************************************************)
(* The admins of a cerver (admin.c): the on hold thread authenticates      *)
(* their connections and registers them (auth.c), the admin poll thread    *)
(* handles and removes them, and a thread of the user broadcasts.          *)
(*                                                                         *)
(* The poll array has its mutex and the list of admins that of the list,   *)
(* so one operation on either is a step; what a thread reads outside them  *)
(* is one too.  An admin and its client are one: they are created, listed  *)
(* and deleted together.  crashed says that memory was used that another   *)
(* thread had freed, or that was freed before; then nothing more happens.  *)
(* The structures of the connections on hold are those of OnHold.          *)
(***************************************************************************)
EXTENDS Integers, Sequences, SequencesExt, FiniteSets

CONSTANTS NConn, NAdmin, NFd,  \* bounds: connections, admins, descriptors
          NSlots,              \* admin_cerver->max_n_fds
          Id                   \* what admin_create () may make of the time and a random number

None == 0
Free == -1
Conn == 1 .. NConn
Admin == 1 .. NAdmin
Fd == 1 .. NFd
Slot == 1 .. NSlots

VARIABLES open, peer,      \* the kernel: the connection of a descriptor; its other end
          mem, sockFd,     \* of each connection: "unused", "hold", "live", "freed"
          owner,           \* of each connection: the admin whose client has it
          admem, ids,      \* of each admin
          admins,          \* admin_cerver->admins
          slots, ready,    \* admin_cerver->fds: fd and revents
          current_connections,
          pcH, connH, adminH, seen, \* the on hold thread; the end of the list it has read
          pcA, connA, adminA, idx,  \* the admin poll thread
          last, asked,     \* whether it removes the only connection, and because of a packet
          pcU, at, sent, there,     \* the broadcast
          confused,        \* history: see AdminsAgree
          stranded,        \* history: connections that the full array did not take
          crashed

kernel == <<open, peer>>
objects == <<mem, sockFd, owner, admem, ids>>
array == <<slots, ready, current_connections>>
hold == <<pcH, connH, adminH, seen>>
walk == <<pcA, connA, adminA, idx, last, asked>>
broadcast == <<pcU, at, sent, there>>
history == <<confused, stranded>>
vars == <<kernel, objects, admins, array, hold, walk, broadcast, history, crashed>>

Init ==
    /\ open = [f \in Fd |-> None] /\ peer = [c \in Conn |-> "there"]
    /\ mem = [c \in Conn |-> "unused"] /\ sockFd = [c \in Conn |-> Free]
    /\ owner = [c \in Conn |-> None]
    /\ admem = [a \in Admin |-> "unused"] /\ ids = [a \in Admin |-> None]
    /\ admins = <<>>
    /\ slots = [i \in Slot |-> Free] /\ ready = [i \in Slot |-> FALSE]
    /\ current_connections = 0
    /\ pcH = "idle" /\ connH = None /\ adminH = None /\ seen = None
    /\ pcA = "poll" /\ connA = None /\ adminA = None /\ idx = 0 /\ last = FALSE /\ asked = FALSE
    /\ pcU = "idle" /\ at = None /\ sent = {} /\ there = {}
    /\ confused = FALSE /\ stranded = {} /\ crashed = FALSE

MinOf(S) == CHOOSE x \in S : \A y \in S : x <= y
Listed == ToSet(admins)
Connections(a) == {c \in Conn : owner[c] = a}
Close(fds) == open' = [f \in Fd |-> IF f \in fds THEN None ELSE open[f]]

\* The first admin of the list that has a connection of this descriptor, and
\* whether the search reads a deleted one.
Position(f) == SelectInSeq(admins, LAMBDA a : \E c \in Connections(a) : sockFd[c] = f)
BySockFd(f) == IF Position(f) = 0 THEN None ELSE admins[Position(f)]
ReadsFreed == \E a \in Listed : admem[a] = "freed"

\* The first place of the array with this value.
IndexOf(fd) == {i \in Slot : slots[i] = fd}

\* admin_cerver_poll_unregister_sock_fd (); each descriptor is there once.
Unpoll(fds) ==
    /\ slots' = [i \in Slot |-> IF slots[i] \in fds THEN Free ELSE slots[i]]
    /\ current_connections' = current_connections - Cardinality({i \in Slot : slots[i] \in fds})
    /\ UNCHANGED ready

Poll(fd) ==
    /\ slots' = [slots EXCEPT ![MinOf(IndexOf(Free))] = fd]
    /\ current_connections' = current_connections + 1
    /\ UNCHANGED ready

\* dlist_remove () compares ids; the first that is the same is taken out.
Unlist(a) ==
    LET i == SelectInSeq(admins, LAMBDA b : ids[b] = ids[a]) IN
    /\ admins' = IF i = 0 THEN admins ELSE RemoveAt(admins, i)
    /\ confused' = (confused \/ (i # 0 /\ admins[i] # a))
    /\ UNCHANGED stranded

Crash ==
    /\ crashed' = TRUE
    /\ UNCHANGED <<kernel, objects, admins, array, hold, walk, broadcast, history>>

-----------------------------------------------------------------------------
(* The on hold thread                                                      *)

\* A connection is put on hold by the cerver, and dropped after its last try.
Connect(c) ==
    /\ mem[c] = "unused" /\ (c > 1 => mem[c - 1] # "unused")
    /\ \E f \in Fd : open[f] = None
    /\ LET f == MinOf({g \in Fd : open[g] = None})
       IN  open' = [open EXCEPT ![f] = c] /\ sockFd' = [sockFd EXCEPT ![c] = f]
    /\ mem' = [mem EXCEPT ![c] = "hold"]
    /\ UNCHANGED <<peer, owner, admem, ids, admins, array, hold, walk, broadcast, history, crashed>>

HoldStep(from, to) == pcH = from /\ pcH' = to

AuthFails(c) ==
    /\ pcH = "idle" /\ mem[c] = "hold"
    /\ Close({sockFd[c]}) /\ mem' = [mem EXCEPT ![c] = "freed"] /\ sockFd' = [sockFd EXCEPT ![c] = Free]
    /\ UNCHANGED <<peer, owner, admem, ids, admins, array, hold, walk, broadcast, history, crashed>>

\* admin_auth_try () with the method of the user: the connection gets a client,
\* leaves the structures on hold, and the client becomes an admin.
AuthNew(c, a) ==
    /\ HoldStep("idle", "poll") /\ mem[c] = "hold"
    /\ admem[a] = "unused" /\ (a > 1 => admem[a - 1] # "unused")
    /\ admem' = [admem EXCEPT ![a] = "live"]
    /\ \E i \in Id : ids' = [ids EXCEPT ![a] = i]
    /\ owner' = [owner EXCEPT ![c] = a] /\ mem' = [mem EXCEPT ![c] = "live"]
    /\ connH' = c /\ adminH' = a
    /\ UNCHANGED <<kernel, sockFd, admins, array, seen, walk, broadcast, history, crashed>>

\* admin_cerver_register_admin (): the array first.
RegisterPoll ==
    /\ IndexOf(Free) # {} /\ HoldStep("poll", "end")
    /\ Poll(sockFd[connH])
    /\ UNCHANGED <<kernel, objects, admins, connH, adminH, seen, walk, broadcast, history, crashed>>

\* The array is full: the only connection is dropped and the admin deleted.
RegisterFails ==
    /\ IndexOf(Free) = {} /\ HoldStep("poll", "idle")
    /\ Close({sockFd[connH]})
    /\ mem' = [mem EXCEPT ![connH] = "freed"] /\ sockFd' = [sockFd EXCEPT ![connH] = Free]
    /\ owner' = [owner EXCEPT ![connH] = None] /\ admem' = [admem EXCEPT ![adminH] = "freed"]
    /\ connH' = None /\ adminH' = None
    /\ UNCHANGED <<peer, ids, admins, array, seen, walk, broadcast, history, crashed>>

\* The end of the list is read before the lock of the insertion.
ReadEnd ==
    /\ HoldStep("end", "insert")
    /\ seen' = IF admins = <<>> THEN None ELSE Last(admins)
    /\ UNCHANGED <<kernel, objects, admins, array, connH, adminH, walk, broadcast, history, crashed>>

InsertAdmin ==
    /\ seen \in Listed \cup {None} /\ HoldStep("insert", "send")
    /\ admins' = IF seen = None THEN <<adminH>> \o admins
                 ELSE InsertAt(admins, SelectInSeq(admins, LAMBDA a : a = seen) + 1, adminH)
    /\ seen' = None
    /\ UNCHANGED <<kernel, objects, array, connH, adminH, walk, broadcast, history, crashed>>

\* admin_auth_try () with a token: the admin of the session.
AuthToken(c) ==
    /\ HoldStep("idle", "join") /\ mem[c] = "hold" /\ ~ ReadsFreed
    /\ \E a \in Listed : adminH' = a
    /\ connH' = c
    /\ UNCHANGED <<kernel, objects, admins, array, seen, walk, broadcast, history, crashed>>

JoinClient ==
    /\ HoldStep("join", "find") /\ admem[adminH] = "live"
    /\ owner' = [owner EXCEPT ![connH] = adminH] /\ mem' = [mem EXCEPT ![connH] = "live"]
    /\ UNCHANGED <<kernel, sockFd, admem, ids, admins, array, connH, adminH, seen, walk, broadcast,
                   history, crashed>>

\* Nothing happens with a connection whose admin is not found.
FindJoined ==
    /\ pcH = "find" /\ mem[connH] = "live" /\ ~ ReadsFreed
    /\ LET a == BySockFd(sockFd[connH])
       IN  /\ HoldStep("find", IF a = None THEN "idle" ELSE "pollJoined")
           /\ adminH' = a /\ connH' = IF a = None THEN None ELSE connH
           /\ stranded' = IF a = None THEN stranded \cup {connH} ELSE stranded
    /\ UNCHANGED <<kernel, objects, admins, array, seen, walk, broadcast, confused, crashed>>

\* Whether the array takes the connection is not looked at.
PollJoined ==
    /\ HoldStep("pollJoined", "send") /\ mem[connH] = "live"
    /\ IF IndexOf(Free) # {} THEN Poll(sockFd[connH]) /\ UNCHANGED stranded
       ELSE stranded' = stranded \cup {connH} /\ UNCHANGED array
    /\ confused' = (confused \/ adminH \notin Listed)
    /\ UNCHANGED <<kernel, objects, admins, connH, adminH, seen, walk, broadcast, crashed>>

\* The answer, and the event.
SendSuccess ==
    /\ HoldStep("send", "idle") /\ mem[connH] = "live"
    /\ connH' = None /\ adminH' = None
    /\ UNCHANGED <<kernel, objects, admins, array, seen, walk, broadcast, history, crashed>>

HoldUsesFreed ==
    /\ \/ pcH = "insert" /\ seen \notin Listed \cup {None}
       \/ pcH = "idle" /\ ReadsFreed /\ \E c \in Conn : mem[c] = "hold"
       \/ pcH = "join" /\ admem[adminH] = "freed"
       \/ pcH \in {"find", "pollJoined", "send"} /\ (mem[connH] # "live" \/ (pcH = "find" /\ ReadsFreed))
    /\ Crash

-----------------------------------------------------------------------------
(* The admin poll thread                                                   *)

WalkStep(from, to) == pcA = from /\ pcA' = to
Forget == connA' = None /\ adminA' = None /\ last' = FALSE /\ asked' = FALSE
GoOn(from) == WalkStep(from, "walk") /\ idx' = idx + 1 /\ Forget

\* poll () reports what has come and what is gone; a free place gets nothing.
PollReturns ==
    /\ WalkStep("poll", "walk") /\ idx' = 1
    /\ \E talks \in SUBSET Slot :
           ready' = [i \in Slot |->
               slots[i] # Free /\ (i \in talks \/ open[slots[i]] = None \/ peer[open[slots[i]]] = "gone")]
    /\ \E i \in Slot : ready'[i]
    /\ UNCHANGED <<kernel, objects, admins, slots, current_connections, hold, connA, adminA, last, asked,
                   broadcast, history, crashed>>

EndOfWalk ==
    /\ idx > NSlots /\ WalkStep("walk", "poll") /\ idx' = 0
    /\ ready' = [i \in Slot |-> FALSE]
    /\ UNCHANGED <<kernel, objects, admins, slots, current_connections, hold, connA, adminA, last, asked,
                   broadcast, history, crashed>>

At == pcA = "walk" /\ idx <= NSlots
Skip ==
    /\ At /\ GoOn("walk")
    /\ \/ slots[idx] = Free
       \/ ~ ReadsFreed /\ BySockFd(slots[idx]) # None /\ ~ ready[idx]
    /\ UNCHANGED <<kernel, objects, admins, array, hold, broadcast, history, crashed>>

\* cerver_receive_create_admin () finds the admin and the connection.
Lookup ==
    /\ At /\ slots[idx] # Free /\ ready[idx] /\ ~ ReadsFreed
    /\ LET a == BySockFd(slots[idx]) IN
           /\ a # None /\ adminA' = a
           /\ connA' = MinOf({c \in Connections(a) : sockFd[c] = slots[idx]})
    /\ WalkStep("walk", "handle")
    /\ UNCHANGED <<kernel, objects, admins, array, hold, idx, last, asked, broadcast, history, crashed>>

\* It finds none: the descriptor leaves the array and is closed, also when its
\* admin is about to be inserted.  Then it is received from, without a socket.
Rogue ==
    /\ At /\ slots[idx] # Free /\ ~ ReadsFreed /\ BySockFd(slots[idx]) = None
    /\ IF ready[idx] THEN Crash
       ELSE /\ Close({slots[idx]}) /\ Unpoll({slots[idx]}) /\ GoOn("walk") /\ confused' = TRUE
            /\ UNCHANGED <<peer, objects, admins, hold, broadcast, stranded, crashed>>

\* A packet that does not touch the structures.
Receive ==
    /\ GoOn("handle") /\ peer[connA] = "there"
    /\ UNCHANGED <<kernel, objects, admins, array, hold, broadcast, history, crashed>>

\* recv () fails, or CLIENT_PACKET_TYPE_CLOSE_CONNECTION.
BeginRemove ==
    /\ WalkStep("handle", "remove")
    /\ asked' \in {peer[connA] = "there"}
    /\ UNCHANGED <<kernel, objects, admins, array, hold, connA, adminA, idx, last, broadcast, history,
                   crashed>>

\* CLIENT_PACKET_TYPE_DISCONNECT: admin_cerver_drop_admin ().
Disconnect ==
    /\ WalkStep("handle", "unlist") /\ peer[connA] = "there"
    /\ UNCHANGED <<kernel, objects, admins, array, hold, connA, adminA, idx, last, asked, broadcast,
                   history, crashed>>

\* admin_remove_connection_by_sock_fd ()
RemovePoll ==
    /\ WalkStep("remove", "close") /\ IndexOf(sockFd[connA]) # {}
    /\ last' = (Cardinality(Connections(adminA)) = 1)
    /\ Unpoll({sockFd[connA]})
    /\ UNCHANGED <<kernel, objects, admins, hold, connA, adminA, idx, asked, broadcast, history, crashed>>

\* It is not in the array: nothing is done.
RemoveNothing ==
    /\ GoOn("remove") /\ IndexOf(sockFd[connA]) = {}
    /\ UNCHANGED <<kernel, objects, admins, array, hold, broadcast, history, crashed>>

\* client_connection_drop ()
DropConnection ==
    /\ pcA = "close" /\ Close({sockFd[connA]})
    /\ mem' = [mem EXCEPT ![connA] = "freed"] /\ sockFd' = [sockFd EXCEPT ![connA] = Free]
    /\ owner' = [owner EXCEPT ![connA] = None]
    /\ IF last THEN WalkStep("close", "unlist") /\ UNCHANGED <<connA, adminA, idx, last, asked>>
       ELSE GoOn("close")
    /\ UNCHANGED <<peer, admem, ids, admins, array, hold, broadcast, history, crashed>>

\* A packet asked for it: the buffer it came in is gone on with through the
\* receive handle of a connection that is freed.
GoesOnWithFreed ==
    /\ \/ pcA = "close" /\ ~ last /\ asked
       \/ pcA = "delete" /\ (last => asked)
    /\ Crash

\* Fault: the connections of the admin stay in the array.
UnlistOnly ==
    /\ WalkStep("unlist", "delete") /\ Unlist(adminA)
    /\ UNCHANGED <<kernel, objects, array, hold, connA, adminA, idx, last, asked, broadcast, crashed>>

\* admin_cerver_unregister_admin (): all its connections leave the array.
UnlistAdmin ==
    /\ WalkStep("unlist", "delete") /\ Unlist(adminA)
    /\ IF admins' = admins THEN UNCHANGED array ELSE Unpoll({sockFd[c] : c \in Connections(adminA)})
    /\ UNCHANGED <<kernel, objects, hold, connA, adminA, idx, last, asked, broadcast, crashed>>

\* admin_delete (): connection_delete () frees the socket before it reads the
\* descriptor to close from it, so that it is closed or not.
DeleteAdmin ==
    /\ GoOn("delete")
    /\ admem' = [admem EXCEPT ![adminA] = "freed"]
    /\ \E closed \in SUBSET Connections(adminA) : Close({sockFd[c] : c \in closed})
    /\ mem' = [c \in Conn |-> IF owner[c] = adminA THEN "freed" ELSE mem[c]]
    /\ sockFd' = [c \in Conn |-> IF owner[c] = adminA THEN Free ELSE sockFd[c]]
    /\ owner' = [c \in Conn |-> IF owner[c] = adminA THEN None ELSE owner[c]]
    /\ UNCHANGED <<peer, ids, admins, array, hold, broadcast, history, crashed>>

WalkUsesFreed == At /\ slots[idx] # Free /\ ReadsFreed /\ Crash

-----------------------------------------------------------------------------
(* admin_cerver_broadcast_to_admins () and its two variants                *)

Begin ==
    /\ pcU = "idle" /\ pcU' = "send"
    /\ at' = (IF admins = <<>> THEN None ELSE Head(admins)) /\ there' = Listed
    /\ UNCHANGED <<kernel, objects, admins, array, hold, walk, sent, history, crashed>>

\* admin_send_packet () to the first connection, and the next element.
SendTo ==
    LET i == SelectInSeq(admins, LAMBDA a : a = at) IN
    /\ pcU = "send" /\ at \in Listed /\ Connections(at) # {} /\ admem[at] = "live"
    /\ sent' = sent \cup {at}
    /\ at' = IF i < Len(admins) THEN admins[i + 1] ELSE None
    /\ UNCHANGED <<kernel, objects, admins, array, hold, walk, pcU, there, history, crashed>>

\* The element or the admin was freed, or its only connection was.
BroadcastUsesFreed ==
    /\ pcU = "send" /\ at # None
    /\ at \notin Listed \/ Connections(at) = {} \/ admem[at] = "freed"
    /\ Crash

Sent ==
    /\ pcU = "send" /\ at = None /\ pcU' = "done"
    /\ UNCHANGED <<kernel, objects, admins, array, hold, walk, at, sent, there, history, crashed>>

-----------------------------------------------------------------------------
PeerGoes(c) ==
    /\ mem[c] \in {"hold", "live"} /\ peer[c] = "there"
    /\ peer' = [peer EXCEPT ![c] = "gone"]
    /\ UNCHANGED <<open, objects, admins, array, hold, walk, broadcast, history, crashed>>

HoldThread ==
    \/ \E c \in Conn : AuthFails(c) \/ AuthToken(c) \/ \E a \in Admin : AuthNew(c, a)
    \/ RegisterPoll \/ RegisterFails \/ ReadEnd \/ InsertAdmin
    \/ JoinClient \/ FindJoined \/ PollJoined \/ SendSuccess \/ HoldUsesFreed

PollThread ==
    \/ PollReturns \/ EndOfWalk \/ Skip \/ Lookup \/ Rogue
    \/ Receive \/ BeginRemove \/ Disconnect \/ RemovePoll \/ RemoveNothing \/ DropConnection
    \/ GoesOnWithFreed \/ UnlistAdmin \/ DeleteAdmin \/ WalkUsesFreed

Broadcast == Begin \/ SendTo \/ BroadcastUsesFreed \/ Sent

Next ==
    /\ ~ crashed
    /\ \/ HoldThread \/ PollThread \/ Broadcast
       \/ \E c \in Conn : Connect(c) \/ PeerGoes(c)

Spec == Init /\ [][Next]_vars

-----------------------------------------------------------------------------
\* Between two walks and two authentications the four places that know an admin
\* agree: its connections are open and polled, once, except those that the
\* full array did not take; the list has the live admins, each once and with a
\* connection.  That holds until an admin is closed while it is registered, or
\* gets another connection while it is dropped, or another one with the same id
\* is taken out of the list.  The count of the connections is that of the array
\* whatever happens.
AdminsAgree ==
    /\ current_connections = Cardinality({i \in Slot : slots[i] # Free})
    /\ pcA = "poll" /\ pcH = "idle" /\ ~ confused =>
           /\ \A c \in Conn : mem[c] = "live" =>
                 /\ owner[c] \in Listed /\ open[sockFd[c]] = c
                 /\ Cardinality(IndexOf(sockFd[c])) = (IF c \in stranded THEN 0 ELSE 1)
           /\ \A i \in Slot : slots[i] # Free => \E c \in Conn : mem[c] = "live" /\ sockFd[c] = slots[i]
           /\ \A a \in Admin : admem[a] = "live" <=> a \in Listed
           /\ \A a \in Listed : Connections(a) # {}
           /\ Cardinality(Listed) = Len(admins)
    \* A broadcast reaches every admin that stays in the list, or the process crashes.
    /\ pcU = "done" => there \cap Listed \subseteq sent
=============================================================================
