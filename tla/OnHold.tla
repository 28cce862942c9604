------------------------------- MODULE OnHold -------------------------------
(***************************************************************************)
(* Connections of a cerver that requires auth (auth.c): the poll thread    *)
(* accepts a connection and puts it on hold; the on hold thread walks its  *)
(* own poll array, handles the auth packets and gives a connection that    *)
(* has authenticated to the main structures, where the poll thread handles *)
(* it.                                                                     *)
(*                                                                         *)
(* The poll array of the on hold thread has no mutex, so that both threads *)
(* change it; its map has one.  Nothing is looked up in the tree of the    *)
(* connections on hold: it is left out, and with it that a connection the  *)
(* map refuses stays in it when it is freed.  Left out are also sessions,  *)
(* admins and on_hold_check_packets.  The main structures are those of     *)
(* Registry: here a connection is in them or not.                          *)
(***************************************************************************)
EXTENDS Integers, FiniteSets

CONSTANTS NConn,        \* bound: the connections that are made in one run
          NFd,          \* bound: the descriptors the process may have open
          NHold,        \* max_on_hold_connections
          MaxTries,     \* CONNECTION_DEFAULT_MAX_AUTH_TRIES
          MaxBad,       \* on_hold_max_bad_packets
          Packets       \* the packets that are sent on hold

ASSUME OnHoldAssumption ==
    /\ NConn \in Nat /\ NFd \in Nat /\ NHold \in Nat
    /\ MaxTries \in Nat \ {0} /\ MaxBad \in Nat \ {0}
    /\ Packets \subseteq {"goodAuth", "wrongAuth", "bad"}

Conn == 1 .. NConn
Fd == 1 .. NFd
None == 0
Free == -1

VARIABLES open,             \* the kernel: the connection behind each descriptor
          peer,             \* the other end of each connection
          mem,              \* the memory of each connection
          sockFd,           \* connection->socket->sock_fd
          tries, bad,       \* auth_tries and bad_packets
          passed,           \* history: the connections whose auth succeeded
          holdFds, holdMap, \* hold_fds and on_hold_connection_sock_fd_map
          main,             \* the connections in the main structures
          pcP, connP,       \* the poll thread
          pcH, connH,       \* the on hold thread
          idx, rogue        \* its place in the array, and a fd without connection

conns == <<mem, sockFd, tries, bad, passed>>
threadP == <<pcP, connP>>
threadH == <<pcH, connH, idx, rogue>>
vars == <<open, peer, conns, holdFds, holdMap, main, threadP, threadH>>

Init ==
    /\ open = [f \in Fd |-> None]
    /\ peer = [c \in Conn |-> "there"]
    /\ mem = [c \in Conn |-> "unused"]
    /\ sockFd = [c \in Conn |-> Free]
    /\ tries = [c \in Conn |-> MaxTries]
    /\ bad = [c \in Conn |-> 0]
    /\ passed = {}
    /\ holdFds = [i \in 1 .. NHold |-> Free]
    /\ holdMap = [f \in Fd |-> None]
    /\ main = {}
    /\ pcP = "poll" /\ connP = None
    /\ pcH = "poll" /\ connH = None /\ idx = 1 /\ rogue = Free

LowestOf(S) == CHOOSE x \in S : \A y \in S : x <= y
SlotOf(f) == {i \in DOMAIN holdFds : holdFds[i] = f}

\* A connection is over at both ends when its descriptor is closed.
Close(f) ==
    /\ open' = [g \in Fd |-> IF g = f THEN None ELSE open[g]]
    /\ peer' = [c \in Conn |-> IF c = open[f] THEN "gone" ELSE peer[c]]

\* connection_drop (): what freed memory still holds is of no interest.
Drop(c) ==
    /\ Close(sockFd[c])
    /\ mem' = [mem EXCEPT ![c] = "freed"]
    /\ sockFd' = [sockFd EXCEPT ![c] = Free]
    /\ tries' = [tries EXCEPT ![c] = MaxTries]
    /\ bad' = [bad EXCEPT ![c] = 0]
FreeSlot(f) == IF SlotOf(f) = {} THEN holdFds ELSE [holdFds EXCEPT ![LowestOf(SlotOf(f))] = Free]

StepP(from, to) == pcP = from /\ pcP' = to /\ UNCHANGED threadH
StepH(from, to) == pcH = from /\ pcH' = to /\ UNCHANGED threadP

\* Freed memory has been used: anything may follow.
Crashed == pcP = "crashed" \/ pcH = "crashed"

-----------------------------------------------------------------------------
(* The poll thread                                                         *)

Accept ==
    /\ StepP("poll", "holdPoll")
    /\ \E c \in Conn : mem[c] = "unused"
    /\ \E f \in Fd : open[f] = None
    /\ LET c == LowestOf({d \in Conn : mem[d] = "unused"})
           f == LowestOf({g \in Fd : open[g] = None})
       IN  /\ open' = [open EXCEPT ![f] = c]
           /\ mem' = [mem EXCEPT ![c] = "live"]
           /\ sockFd' = [sockFd EXCEPT ![c] = f]
           /\ connP' = c
    /\ UNCHANGED <<peer, tries, bad, passed, holdFds, holdMap, main>>

\* on_hold_poll_register_connection ()
HoldPoll ==
    /\ IF SlotOf(Free) = {}
         THEN StepP("holdPoll", "reject") /\ UNCHANGED holdFds
         ELSE /\ StepP("holdPoll", "holdMap")
              /\ holdFds' = [holdFds EXCEPT ![LowestOf(SlotOf(Free))] = sockFd[connP]]
    /\ UNCHANGED <<open, peer, conns, holdMap, main, connP>>

\* htab_insert () refuses a key it has; the slot is not given back then, nor is
\* the connection taken out of the tree again.
HoldMap ==
    /\ pcP = "holdMap"
    /\ LET f == sockFd[connP]
       IN  IF holdMap[f] = None
             THEN /\ StepP("holdMap", "welcome")
                  /\ holdMap' = [holdMap EXCEPT ![f] = connP]
             ELSE StepP("holdMap", "reject") /\ UNCHANGED holdMap
    /\ UNCHANGED <<open, peer, conns, holdFds, main, connP>>

\* connection->active is set and the info packet sent.
Welcome ==
    /\ pcP = "welcome"
    /\ StepP("welcome", IF mem[connP] = "live" THEN "poll" ELSE "crashed")
    /\ connP' = None
    /\ UNCHANGED <<open, peer, conns, holdFds, holdMap, main>>

\* The connection that could not be put on hold is dropped.
Reject ==
    /\ StepP("reject", "poll")
    /\ Drop(connP)
    /\ connP' = None
    /\ UNCHANGED <<passed, holdFds, holdMap, main>>

\* A client in the main structures is lost or closes its connection.
LeaveMain(c) ==
    /\ StepP("poll", "poll")
    /\ c \in main /\ mem[c] = "live"
    /\ main' = main \ {c}
    /\ Drop(c)
    /\ UNCHANGED <<passed, holdFds, holdMap, connP>>

\* The poll thread finds in the main structures what has been freed.
UseFreedMain ==
    /\ StepP("poll", "crashed")
    /\ \E c \in main : mem[c] = "freed"
    /\ UNCHANGED <<open, peer, conns, holdFds, holdMap, main, connP>>

-----------------------------------------------------------------------------
(* The on hold thread                                                      *)

HPollReturns ==
    /\ StepH("poll", "walk")
    /\ idx' = 1
    /\ UNCHANGED <<open, peer, conns, holdFds, holdMap, main, connH, rogue>>

EndOfWalk ==
    /\ idx > NHold
    /\ StepH("walk", "poll")
    /\ UNCHANGED <<open, peer, conns, holdFds, holdMap, main, connH, idx, rogue>>

NextSlot(from) ==
    /\ StepH(from, "walk")
    /\ idx' = idx + 1
    /\ connH' = None
    /\ rogue' = Free

SkipSlot ==
    /\ pcH = "walk" /\ idx <= NHold /\ holdFds[idx] = Free
    /\ NextSlot("walk")
    /\ UNCHANGED <<open, peer, conns, holdFds, holdMap, main>>

\* cerver_receive_create_on_hold () for every fd of the array, whether poll
\* () has reported it or not.
Lookup ==
    /\ pcH = "walk" /\ idx <= NHold /\ holdFds[idx] # Free
    /\ holdMap[holdFds[idx]] # None
    /\ StepH("walk", IF mem[holdMap[holdFds[idx]]] = "live" THEN "receive" ELSE "crashed")
    /\ connH' = holdMap[holdFds[idx]]
    /\ UNCHANGED <<open, peer, conns, holdFds, holdMap, main, idx, rogue>>

\* A fd without connection is taken out of the array and closed.
Rogue ==
    /\ pcH = "walk" /\ idx <= NHold /\ holdFds[idx] # Free
    /\ holdMap[holdFds[idx]] = None
    /\ StepH("walk", "rogueClose")
    /\ rogue' = holdFds[idx]
    /\ holdFds' = FreeSlot(holdFds[idx])
    /\ UNCHANGED <<open, peer, conns, holdMap, main, connH, idx>>

RogueClose ==
    /\ pcH = "rogueClose"
    /\ NextSlot("rogueClose")
    /\ Close(rogue)
    /\ UNCHANGED <<conns, holdFds, holdMap, main>>

\* The descriptor of the connection is open and its other end is there.
Reaches(c) == LET k == open[sockFd[c]] IN IF k = None THEN FALSE ELSE peer[k] = "there"

NothingReceived ==
    /\ pcH = "receive" /\ Reaches(connH)
    /\ NextSlot("receive")
    /\ UNCHANGED <<open, peer, conns, holdFds, holdMap, main>>

Received ==
    /\ pcH = "receive" /\ Reaches(connH) /\ Packets # {}
    /\ StepH("receive", "handle")
    /\ UNCHANGED <<open, peer, conns, holdFds, holdMap, main, connH, idx, rogue>>

\* The peer is gone, or the descriptor has been closed.
ReceiveFails ==
    /\ pcH = "receive" /\ ~ Reaches(connH)
    /\ StepH("receive", "dropPoll")
    /\ UNCHANGED <<open, peer, conns, holdFds, holdMap, main, connH, idx, rogue>>

\* A packet is handled, or a connection that is registered in the main
\* structures is dropped, after the poll thread has freed it.
UseFreedHeld ==
    /\ pcH \notin {"poll", "walk", "rogueClose", "handled", "crashed"} /\ mem[connH] = "freed"
    /\ StepH(pcH, "crashed")
    /\ UNCHANGED <<open, peer, conns, holdFds, holdMap, main, connH, idx, rogue>>

\* auth_failed (): the last try is followed by a drop.
WrongAuth ==
    /\ pcH = "handle" /\ mem[connH] = "live" /\ "wrongAuth" \in Packets
    /\ tries' = [tries EXCEPT ![connH] = @ - 1]
    /\ StepH("handle", IF tries'[connH] = 0 THEN "dropPoll" ELSE "handled")
    /\ UNCHANGED <<open, peer, mem, sockFd, bad, passed, holdFds, holdMap, main, connH, idx, rogue>>

\* Fault: the client is registered before its connection is off hold.
GoodAuthRegistersFirst ==
    /\ pcH = "handle" /\ mem[connH] = "live" /\ "goodAuth" \in Packets
    /\ StepH("handle", "unholdPoll")
    /\ passed' = passed \union {connH}
    /\ main' = main \union {connH}
    /\ UNCHANGED <<open, peer, mem, sockFd, tries, bad, holdFds, holdMap, connH, idx, rogue>>

\* Fault: the bad packets of a connection are counted but not acted on.
BadPacketIsIgnored ==
    /\ pcH = "handle" /\ mem[connH] = "live" /\ "bad" \in Packets
    /\ bad' = [bad EXCEPT ![connH] = IF @ < MaxBad THEN @ + 1 ELSE @]
    /\ StepH("handle", "handled")
    /\ UNCHANGED <<open, peer, mem, sockFd, tries, passed, holdFds, holdMap, main, connH, idx, rogue>>

\* cerver_on_hold_handle_max_bad_packets ()
BadPacket ==
    /\ pcH = "handle" /\ mem[connH] = "live" /\ "bad" \in Packets
    /\ bad' = [bad EXCEPT ![connH] = @ + 1]
    /\ StepH("handle", IF bad'[connH] >= MaxBad THEN "dropPoll" ELSE "handled")
    /\ UNCHANGED <<open, peer, mem, sockFd, tries, passed, holdFds, holdMap, main, connH, idx, rogue>>

GoodAuth ==
    /\ pcH = "handle" /\ mem[connH] = "live" /\ "goodAuth" \in Packets
    /\ StepH("handle", "unholdPoll")
    /\ passed' = passed \union {connH}
    /\ UNCHANGED <<open, peer, mem, sockFd, tries, bad, holdFds, holdMap, main, connH, idx, rogue>>

\* The next packet of the buffer, or the next slot.
Handled ==
    /\ \/ StepH("handled", "handle") /\ UNCHANGED <<connH, idx, rogue>>
       \/ NextSlot("handled")
    /\ UNCHANGED <<open, peer, conns, holdFds, holdMap, main>>

\* on_hold_connection_remove () and the registration of the new client.
UnholdPoll ==
    /\ pcH = "unholdPoll" /\ mem[connH] = "live"
    /\ StepH("unholdPoll", IF SlotOf(sockFd[connH]) = {} THEN "register" ELSE "unholdMap")
    /\ holdFds' = FreeSlot(sockFd[connH])
    /\ UNCHANGED <<open, peer, conns, holdMap, main, connH, idx, rogue>>

UnholdMap ==
    /\ pcH = "unholdMap" /\ mem[connH] = "live"
    /\ StepH("unholdMap", "register")
    /\ holdMap' = [holdMap EXCEPT ![sockFd[connH]] = None]
    /\ UNCHANGED <<open, peer, conns, holdFds, main, connH, idx, rogue>>

\* client_register_to_cerver (): a fd that is mapped already makes it drop
\* the client, which is used afterwards.
RegisterInMain ==
    /\ pcH = "register" /\ mem[connH] = "live"
    /\ LET known == \E d \in main : sockFd[d] = sockFd[connH]
       IN  /\ StepH("register", IF known THEN "crashed" ELSE "announce")
           /\ main' = IF known THEN main ELSE main \union {connH}
    /\ bad' = [bad EXCEPT ![connH] = 0]
    /\ UNCHANGED <<open, peer, mem, sockFd, tries, passed, holdFds, holdMap, connH, idx, rogue>>

\* The success packet is sent and the events are triggered; the packets
\* left in the buffer are handled next.
Announce ==
    /\ pcH = "announce" /\ mem[connH] = "live"
    /\ StepH("announce", "handled")
    /\ UNCHANGED <<open, peer, conns, holdFds, holdMap, main, connH, idx, rogue>>

\* on_hold_connection_drop (): what is not in the array is left in the map.
DropPoll ==
    /\ pcH = "dropPoll" /\ mem[connH] = "live"
    /\ StepH("dropPoll", IF SlotOf(sockFd[connH]) = {} THEN "dropEnd" ELSE "dropMap")
    /\ holdFds' = FreeSlot(sockFd[connH])
    /\ UNCHANGED <<open, peer, conns, holdMap, main, connH, idx, rogue>>

\* Fault: the connection stays in the map.
DropMapForgotten ==
    /\ pcH = "dropMap" /\ mem[connH] = "live"
    /\ StepH("dropMap", "dropEnd")
    /\ UNCHANGED <<open, peer, conns, holdFds, holdMap, main, connH, idx, rogue>>

DropMap ==
    /\ pcH = "dropMap" /\ mem[connH] = "live"
    /\ StepH("dropMap", "dropEnd")
    /\ holdMap' = [holdMap EXCEPT ![sockFd[connH]] = None]
    /\ UNCHANGED <<open, peer, conns, holdFds, main, connH, idx, rogue>>

\* After a packet, the size of its buffer is read from the receive handle that
\* the connection held.  After the last wrong auth auth_try () does not return
\* that it has been dropped, so that the rest of the buffer may be handled.
DropEnd ==
    /\ pcH = "dropEnd" /\ mem[connH] = "live"
    /\ \/ NextSlot("dropEnd")
       \/ /\ tries[connH] = 0
          /\ StepH("dropEnd", "handled")
          /\ UNCHANGED <<connH, idx, rogue>>
       \/ /\ tries[connH] = 0 \/ bad[connH] >= MaxBad
          /\ StepH("dropEnd", "crashed")
          /\ UNCHANGED <<connH, idx, rogue>>
    /\ Drop(connH)
    /\ UNCHANGED <<passed, holdFds, holdMap, main>>

-----------------------------------------------------------------------------
PeerGoes(c) ==
    /\ mem[c] = "live" /\ peer[c] = "there"
    /\ peer' = [peer EXCEPT ![c] = "gone"]
    /\ UNCHANGED <<open, conns, holdFds, holdMap, main, threadP, threadH>>

PollThread ==
    \/ Accept \/ HoldPoll \/ HoldMap \/ Welcome \/ Reject
    \/ \E c \in Conn : LeaveMain(c)
    \/ UseFreedMain

OnHoldThread ==
    \/ HPollReturns \/ EndOfWalk \/ SkipSlot \/ Lookup \/ Rogue \/ RogueClose
    \/ NothingReceived \/ Received \/ ReceiveFails
    \/ UseFreedHeld \/ WrongAuth \/ BadPacket \/ GoodAuth \/ Handled
    \/ UnholdPoll \/ UnholdMap \/ RegisterInMain \/ Announce
    \/ DropPoll \/ DropMap \/ DropEnd

Next ==
    /\ ~ Crashed
    /\ PollThread \/ OnHoldThread \/ \E c \in Conn : PeerGoes(c)

Spec == Init /\ [][Next]_vars

-----------------------------------------------------------------------------
(***************************************************************************)
(* Properties                                                              *)
(***************************************************************************)
TypeOK ==
    /\ open \in [Fd -> Conn \union {None}]
    /\ peer \in [Conn -> {"there", "gone"}]
    /\ mem \in [Conn -> {"unused", "live", "freed"}]
    /\ sockFd \in [Conn -> Fd \union {Free}]
    /\ tries \in [Conn -> 0 .. MaxTries] /\ bad \in [Conn -> 0 .. MaxBad]
    /\ passed \subseteq Conn /\ main \subseteq Conn
    /\ holdFds \in [1 .. NHold -> Fd \union {Free}]
    /\ holdMap \in [Fd -> Conn \union {None}]
    /\ connP \in Conn \union {None} /\ connH \in Conn \union {None}
    /\ idx \in Nat /\ rogue \in Fd \union {Free}

\* The map of the connections on hold never leads the on hold thread to a
\* connection that has been freed, by itself or by the poll thread.
HoldMapIsLive == \A f \in Fd : holdMap[f] # None => mem[holdMap[f]] = "live"

\* A connection is on hold or in the main structures, never in both, so that
\* the two threads do not both receive from it; in the main ones are only
\* connections whose auth succeeded.
OneOwner == \A c \in main : c \in passed /\ \A f \in Fd : holdMap[f] # c

\* A connection that has used up its auth tries or its bad packets is dropped
\* before anything else of it is handled.
LimitsHold ==
    \A c \in Conn :
        tries[c] = 0 \/ bad[c] >= MaxBad =>
            \/ mem[c] = "freed"
            \/ connH = c /\ pcH \in {"dropPoll", "dropMap", "dropEnd"}

\* A descriptor is closed only by the thread that removes its connection.
\* It fails when the on hold thread walks over a connection the poll thread
\* is still putting on hold.
ClosesOwn ==
    [][\A f \in Fd : open[f] # None /\ open'[f] # open[f] => mem'[open[f]] = "freed"]_vars
=============================================================================
