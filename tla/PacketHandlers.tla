--------------------------- MODULE PacketHandlers ----------------------------
(***************************************************************************)
(* What becomes of a packet that was received: by a cerver (handler.c), by *)
(* a client (client.c) or from an admin (admin.c).  A receiver counts it,  *)
(* checks its version if it was told to, counts it again by its type, and  *)
(* handles it: the handlers of the library delete it, those of the user    *)
(* get it at once or through a queue.  The counters are plain integers     *)
(* that all the receivers of one cerver, or of one client, increment.  The *)
(* check copies the version from a pointer that is set for packets to be   *)
(* sent and never for one that was received.                               *)
(***************************************************************************)
EXTENDS Naturals, Sequences, FiniteSets

CONSTANTS Receiver,      \* threads that receive; the admins have one
          NPackets,      \* bound: the packets that come
          Arriving,      \* the types of those
          Config,        \* how the user's handlers are set: see ConfigType
          Nil

Type == {"none", "cerver", "client", "error", "request", "auth", "game", "app", "app_error",
         "custom", "test", "bad"}
\* check: check_packets; handler: that of app, app error and custom packets, or
\* "multiple", of which a packet names one; delete: its _delete_packet.
ConfigType == [side : {"cerver", "client", "admin"}, check : BOOLEAN, files : BOOLEAN,
               handler : {"none", "direct", "queue", "multiple"}, delete : BOOLEAN]

\* The counters of the requests for a file and of the uploads.
FileCounter == {"requests", "sent", "bad_sent", "bad_requests",
                "uploads", "uploaded", "bad_received", "bad_uploads"}
Counter == {"received"} \cup Type \cup FileCounter

Packet == 1 .. NPackets

VARIABLES config,
          type,          \* of each packet
          version,       \* whether it has "data", that would start with the version, or "none"
          fate,          \* of each packet: "coming", "held", "queued", "deleted", "users", "lost"
          why,           \* history: what lost it
          stats,         \* the counters
          pc, packet,    \* of each receiver: where it is, with which packet
          counter, read, \* the counter it increments and what it read
          next,          \* where it goes then
          queue,         \* the packets in the queue of a handler
          twice,         \* history: a packet was deleted twice
          raced          \* history: an increment was lost

receivers == <<pc, packet, counter, read, next>>
packets == <<type, version, fate, why, queue, twice>>
vars == <<config, receivers, packets, stats, raced>>

Init ==
    /\ config \in Config
    /\ type = [p \in Packet |-> Nil] /\ version = [p \in Packet |-> Nil]
    /\ fate = [p \in Packet |-> "coming"] /\ why = [p \in Packet |-> Nil]
    /\ stats = [c \in Counter |-> 0]
    /\ pc = [r \in Receiver |-> "idle"] /\ packet = [r \in Receiver |-> Nil]
    /\ counter = [r \in Receiver |-> Nil] /\ read = [r \in Receiver |-> 0]
    /\ next = [r \in Receiver |-> Nil]
    /\ queue = <<>> /\ twice = FALSE /\ raced = FALSE

Came == {p \in Packet : fate[p] # "coming"}

\* The counter of a type, Nil for the types that are passed over.
CerverCounts(t) == IF t \in {"none", "cerver"} THEN Nil ELSE t
ClientCounts(t) == IF t \in {"none", "client"} THEN Nil ELSE t
AdminCounts(t) == IF t \in {"client", "request", "app", "app_error", "custom"} THEN t ELSE "bad"
Counts(t) ==
    CASE config.side = "cerver" -> CerverCounts(t)
      [] config.side = "client" -> ClientCounts(t)
      [] config.side = "admin" -> AdminCounts(t)

-----------------------------------------------------------------------------
At(r, stage) == pc[r] = stage
Goto(r, stage) == pc' = [pc EXCEPT ![r] = stage]
Moves(r, from, to) == At(r, from) /\ Goto(r, to) /\ UNCHANGED <<packet, counter, read, next>>
\* stats->c += 1, and then.
Increment(r, c, stage) ==
    /\ Goto(r, "load") /\ counter' = [counter EXCEPT ![r] = c] /\ next' = [next EXCEPT ![r] = stage]
    /\ UNCHANGED read
Finish(r) == Goto(r, "idle") /\ packet' = [packet EXCEPT ![r] = Nil] /\ UNCHANGED <<counter, read, next>>

Dispose(p, how, reason) ==
    /\ fate' = [fate EXCEPT ![p] = how] /\ why' = [why EXCEPT ![p] = reason]
    /\ twice' = (twice \/ (how = "deleted" /\ fate[p] = "deleted"))

Load(r) ==
    /\ At(r, "load") /\ Goto(r, "store")
    /\ read' = [read EXCEPT ![r] = stats[counter[r]]]
    /\ UNCHANGED <<config, packet, counter, next, packets, stats, raced>>
Store(r) ==
    /\ At(r, "store") /\ Goto(r, next[r])
    /\ stats' = [stats EXCEPT ![counter[r]] = read[r] + 1]
    /\ raced' = (raced \/ stats[counter[r]] # read[r])
    /\ read' = [read EXCEPT ![r] = 0]
    /\ UNCHANGED <<config, packet, counter, next, packets>>

\* cerver_packet_select_handler (): a packet has come.
Receive(r) ==
    /\ At(r, "idle") /\ (config.side = "admin" => \A o \in Receiver \ {r} : At(o, "idle"))
    /\ \E p \in Packet, t \in Arriving, v \in {"data", "none"} :
           /\ p = Cardinality(Came) + 1
           /\ ~ config.check => v = "data"
           /\ type' = [type EXCEPT ![p] = t] /\ version' = [version EXCEPT ![p] = v]
           /\ fate' = [fate EXCEPT ![p] = "held"]
           /\ packet' = [packet EXCEPT ![r] = p]
    /\ Increment(r, "received", "check")
    /\ UNCHANGED <<config, why, queue, twice, stats, raced>>

PassUnchecked(r) ==
    /\ ~ config.check
    /\ Moves(r, "check", "dispatch") /\ UNCHANGED <<fate, why, twice>>

\* memcpy () from packet->data_ptr, which is NULL: the process crashes.
CopyVersion(r) ==
    /\ config.check /\ version[packet[r]] = "data"
    /\ Moves(r, "check", "crashed") /\ UNCHANGED <<fate, why, twice>>

\* "No packet version to check!"
NoVersion(r) ==
    /\ config.check /\ version[packet[r]] = "none"
    /\ Finish(r) /\ Dispose(packet[r], "lost", "version")

CheckVersion(r) ==
    /\ At(r, "check")
    /\ PassUnchecked(r) \/ CopyVersion(r) \/ NoVersion(r)
    /\ UNCHANGED <<config, type, version, queue, stats, raced>>

\* Fault: packets of clients are not counted.
DispatchUncounted(r) ==
    LET c == Counts(type[packet[r]]) IN
    /\ At(r, "dispatch")
    /\ IF c = Nil
       THEN Finish(r) /\ Dispose(packet[r], "lost", "type")
       ELSE /\ IF c = "client" THEN Goto(r, "handle") /\ UNCHANGED <<counter, read, next>>
               ELSE Increment(r, c, "handle")
            /\ UNCHANGED <<packet, fate, why, twice>>
    /\ UNCHANGED <<config, type, version, queue, stats, raced>>

Dispatch(r) ==
    LET c == Counts(type[packet[r]]) IN
    /\ At(r, "dispatch")
    /\ IF c = Nil
       THEN Finish(r) /\ Dispose(packet[r], "lost", "type")
       ELSE Increment(r, c, "handle") /\ UNCHANGED <<packet, fate, why, twice>>
    /\ UNCHANGED <<config, type, version, queue, stats, raced>>

\* Where a packet goes whose type was counted.
Handled(p) == Counts(type[p])
Handles(r, types) == At(r, "handle") /\ Handled(packet[r]) \in types

\* What the library handles itself is deleted at once; a client does nothing
\* with the packets of a game, a cerver does not delete them.
HandleOwn(r) ==
    /\ Handles(r, {"cerver", "client", "error", "auth", "test", "bad"})
       \/ (Handles(r, {"game"}) /\ config.side = "client")
    /\ Moves(r, "handle", "delete")
    /\ UNCHANGED <<config, packets, stats, raced>>

GamePacket(r) ==
    /\ Handles(r, {"game"}) /\ config.side = "cerver"
    /\ Finish(r) /\ Dispose(packet[r], "lost", "game")
    /\ UNCHANGED <<config, type, version, queue, stats, raced>>

\* The user's handlers.  A client has no flag: it deletes what was handled.
Deletes == config.side = "client" \/ config.delete

\* A job cannot be created, or names a handler that is not there.
NoHandler(r) ==
    /\ Handles(r, {"app", "app_error", "custom"}) /\ config.handler # "direct"
    /\ Finish(r) /\ Dispose(packet[r], "lost", "handler")
    /\ UNCHANGED <<config, type, version, queue, stats, raced>>

DirectHandle(r) ==
    /\ Handles(r, {"app", "app_error", "custom"}) /\ config.handler = "direct"
    /\ IF Deletes
       THEN Moves(r, "handle", "delete") /\ UNCHANGED <<fate, why, twice>>
       ELSE Finish(r) /\ Dispose(packet[r], "users", Nil)
    /\ UNCHANGED <<config, type, version, queue, stats, raced>>

PushJob(r) ==
    /\ Handles(r, {"app", "app_error", "custom"}) /\ config.handler \in {"queue", "multiple"}
    /\ Finish(r) /\ Dispose(packet[r], "queued", Nil)
    /\ queue' = Append(queue, packet[r])
    /\ UNCHANGED <<config, type, version, stats, raced>>

\* handler_do_while_cerver () and those of clients and admins.
HandlerThread ==
    /\ queue # <<>> /\ queue' = Tail(queue)
    /\ Dispose(Head(queue), IF Deletes THEN "deleted" ELSE "users", Nil)
    /\ UNCHANGED <<config, receivers, type, version, stats, raced>>

-----------------------------------------------------------------------------
(* Requests: of a file, or to receive one                                  *)

\* Not a cerver of files, a client that cannot receive, or another request.
RefuseRequest(r) ==
    /\ Handles(r, {"request"}) /\ Moves(r, "handle", "delete")
    /\ UNCHANGED <<config, packets, stats, raced>>

RequestGetFile(r) ==
    /\ Handles(r, {"request"}) /\ (config.files \/ config.side = "client")
    /\ Increment(r, "requests", "get_file")
    /\ UNCHANGED <<config, packet, packets, stats, raced>>
GetFile(r) ==
    /\ At(r, "get_file")
    /\ \E outcome \in {"sent", "bad_sent", "bad_requests"} : Increment(r, outcome, "delete")
    /\ UNCHANGED <<config, packet, packets, stats, raced>>

RequestSendFile(r) ==
    /\ Handles(r, {"request"}) /\ config.files
    /\ Increment(r, "uploads", "send_file")
    /\ UNCHANGED <<config, packet, packets, stats, raced>>
SendFile(r) ==
    /\ At(r, "send_file")
    /\ \E outcome \in {"uploaded", "bad_received", "bad_uploads"} : Increment(r, outcome, "delete")
    /\ UNCHANGED <<config, packet, packets, stats, raced>>

\* packet_delete ().
Delete(r) ==
    /\ At(r, "delete") /\ Finish(r) /\ Dispose(packet[r], "deleted", Nil)
    /\ UNCHANGED <<config, type, version, queue, stats, raced>>

Crashed == \E r \in Receiver : At(r, "crashed")

Next ==
    /\ ~ Crashed
    /\ \/ \E r \in Receiver :
              \/ Load(r) \/ Store(r) \/ Receive(r) \/ CheckVersion(r) \/ Dispatch(r)
              \/ HandleOwn(r) \/ GamePacket(r) \/ NoHandler(r) \/ DirectHandle(r) \/ PushJob(r)
              \/ RefuseRequest(r) \/ RequestGetFile(r) \/ GetFile(r) \/ RequestSendFile(r) \/ SendFile(r)
              \/ Delete(r)
       \/ HandlerThread

Spec == Init /\ [][Next]_vars

-----------------------------------------------------------------------------
TypesTotal ==
    stats["none"] + stats["cerver"] + stats["client"] + stats["error"] + stats["request"] + stats["auth"]
    + stats["game"] + stats["app"] + stats["app_error"] + stats["custom"] + stats["test"] + stats["bad"]
SentTotal == stats["sent"] + stats["bad_sent"] + stats["bad_requests"]
UploadTotal == stats["uploaded"] + stats["bad_received"] + stats["bad_uploads"]

\* Between two packets, and unless two receivers incremented a counter at once,
\* every packet is in the counter of its type or was passed over, and every
\* request for a file in that of its outcome; a packet is deleted once, and it
\* is forgotten only because it has no version, for its type, or for a handler
\* that is not there.
PacketsAccounted ==
    /\ ~ twice
    /\ (\A r \in Receiver : pc[r] = "idle") =>
           /\ ~ raced =>
                 /\ stats["received"] = Cardinality(Came)
                 /\ TypesTotal = Cardinality({p \in Came : why[p] \notin {"version", "type"}})
                 /\ stats["requests"] = SentTotal
                 /\ stats["uploads"] = UploadTotal
           /\ \A p \in Came :
                 /\ fate[p] = "queued" <=> \E i \in DOMAIN queue : queue[i] = p
                 /\ fate[p] # "held"
                 /\ fate[p] = "users" => ~ config.delete
                 /\ fate[p] = "lost" /\ ~ config.check => type[p] \notin {"error", "request", "auth", "test", "bad"}
=============================================================================
