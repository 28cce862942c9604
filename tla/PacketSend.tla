----------------------------- MODULE PacketSend ------------------------------
(***************************************************************************)
(* packets.c and files.c, the ways a packet gets into a socket that several *)
(* threads write to.  Each sender sends one packet, of a header and its    *)
(* data, in one of the ways of Way.  send () takes as much as fits, or     *)
(* fails; what is on the wire stays there.                                 *)
(*                                                                         *)
(*   tcp     packet_send (), packet_send_to_socket ()                      *)
(*   split   packet_send_split (), the header and then the data            *)
(*   pieces  packet_send_pieces (), the header and then each piece         *)
(*   route   packet_route_between_connections (), the data by splice ()    *)
(*   file    file_send (), the header unsafe and then sendfile () once     *)
(*   queue   packet_send_actual (), by the send thread of a connection     *)
(*                                                                         *)
(* All but the last hold the write mutex of the socket.                    *)
(***************************************************************************)
EXTENDS Naturals, Sequences, FiniteSets

CONSTANTS Sender, Free,  \* Free: nobody has the mutex
          HeaderSize, DataSize,
          Pieces         \* what packet_send_pieces () sends: a sequence of sizes

\* What a way of sending is made of: the buffers in their order, those that
\* are left after one call whatever it took, if total_sent is the sum of the
\* calls, the buffers whose failure the sender is told of, and those whose
\* failure does not stop the others.
PacketSend == [locks |-> TRUE, buffers |-> <<HeaderSize + DataSize>>, once |-> {},
               sums |-> FALSE, told |-> {1}, skipped |-> {}]
PacketSendActual == [PacketSend EXCEPT !.locks = FALSE]
PacketSendSplit == [locks |-> TRUE, buffers |-> <<HeaderSize, DataSize>>, once |-> {},
                    sums |-> TRUE, told |-> {1}, skipped |-> {}]
PacketSendPieces == [locks |-> TRUE, buffers |-> <<HeaderSize>> \o Pieces, once |-> {},
                     sums |-> TRUE, told |-> {1}, skipped |-> 2 .. Len(Pieces)]
PacketRoute == [locks |-> TRUE, buffers |-> <<HeaderSize, DataSize>>, once |-> {1, 2},
                sums |-> FALSE, told |-> {1, 2}, skipped |-> {}]
FileSend == [locks |-> TRUE, buffers |-> <<HeaderSize, DataSize>>, once |-> {2},
             sums |-> FALSE, told |-> {1, 2}, skipped |-> {}]

Ways == [tcp |-> PacketSend, queue |-> PacketSendActual, split |-> PacketSendSplit,
         pieces |-> PacketSendPieces, route |-> PacketRoute, file |-> FileSend]
Way == DOMAIN Ways

VARIABLES write_mutex,
          way, pc,
          piece,         \* the buffer of the packet that a sender is at
          left,          \* what is left of it
          total,         \* what the caller gets as total_sent
          retval,
          wire,          \* the bytes in the socket, each by who sent it
          lossy          \* history: the senders whose send () failed or was short

vars == <<write_mutex, way, pc, piece, left, total, retval, wire, lossy>>

Of(s) == Ways[way[s]]

Init ==
    /\ write_mutex = Free /\ wire = <<>> /\ lossy = {}
    /\ way \in [Sender -> Way]
    /\ pc = [s \in Sender |-> "idle"]
    /\ piece = [s \in Sender |-> 1] /\ left = [s \in Sender |-> 0]
    /\ total = [s \in Sender |-> 0]
    /\ retval = [s \in Sender |-> 1]

Goto(s, from, to) == pc[s] = from /\ pc' = [pc EXCEPT ![s] = to]

\* Fault: the mutex is not waited for.
LockAny(s) ==
    /\ Goto(s, "idle", "send")
    /\ write_mutex' = IF Of(s).locks THEN s ELSE write_mutex
    /\ left' = [left EXCEPT ![s] = Of(s).buffers[1]]
    /\ UNCHANGED <<way, piece, total, retval, wire, lossy>>

Lock(s) ==
    /\ Goto(s, "idle", "send")
    /\ IF Of(s).locks THEN write_mutex = Free /\ write_mutex' = s ELSE UNCHANGED write_mutex
    /\ left' = [left EXCEPT ![s] = Of(s).buffers[1]]
    /\ UNCHANGED <<way, piece, total, retval, wire, lossy>>

\* send () or splice () of n bytes of the buffer.
Write(s, n) ==
    /\ wire' = wire \o [i \in 1 .. n |-> s]
    /\ left' = [left EXCEPT ![s] = @ - n]
    /\ lossy' = IF n < left[s] THEN lossy \cup {s} ELSE lossy

\* packet_send_tcp_actual () reports the last part.
Count(s, n) == total' = [total EXCEPT ![s] = IF Of(s).sums THEN @ + n ELSE n]

Send(s) ==
    \E n \in 1 .. left[s] :
        /\ pc[s] = "send" /\ Write(s, n) /\ Count(s, n)
        /\ UNCHANGED <<write_mutex, way, pc, piece, retval>>

\* The next buffer; the header of a routed packet and the contents of a file
\* go by one call, whatever it sends.  The data of a routed packet are counted
\* as they come, and what is moved of them may be less.
Advance(s) ==
    /\ pc[s] = "send"
    /\ left[s] = 0 \/ (piece[s] \in Of(s).once /\ left[s] < Of(s).buffers[piece[s]])
    /\ IF piece[s] < Len(Of(s).buffers)
       THEN /\ piece' = [piece EXCEPT ![s] = @ + 1]
            /\ left' = [left EXCEPT ![s] = Of(s).buffers[piece[s] + 1]]
            /\ UNCHANGED <<pc, retval>>
       ELSE /\ retval' = [retval EXCEPT ![s] = 0]
            /\ pc' = [pc EXCEPT ![s] = "unlock"]
            /\ UNCHANGED <<piece, left>>
    /\ UNCHANGED <<write_mutex, way, total, wire, lossy>>

\* send () fails.  After the header, packet_send_split () gives up and
\* packet_send_pieces () goes on with the next piece; both return 0.
SendFails(s) ==
    /\ pc[s] = "send" /\ left[s] > 0
    /\ lossy' = lossy \cup {s}
    /\ IF piece[s] \in Of(s).skipped
       THEN /\ piece' = [piece EXCEPT ![s] = @ + 1]
            /\ left' = [left EXCEPT ![s] = Of(s).buffers[piece[s] + 1]]
            /\ UNCHANGED <<pc, retval>>
       ELSE /\ retval' = [retval EXCEPT ![s] = IF piece[s] \in Of(s).told THEN 1 ELSE 0]
            /\ pc' = [pc EXCEPT ![s] = "unlock"]
            /\ UNCHANGED <<piece, left>>
    /\ UNCHANGED <<write_mutex, way, total, wire>>

Unlock(s) ==
    /\ Goto(s, "unlock", "done")
    /\ write_mutex' = IF Of(s).locks THEN Free ELSE write_mutex
    /\ UNCHANGED <<way, piece, left, total, retval, wire, lossy>>

Next == \E s \in Sender : Lock(s) \/ Send(s) \/ Advance(s) \/ SendFails(s) \/ Unlock(s)
Spec == Init /\ [][Next]_vars

-----------------------------------------------------------------------------
Sent(s) == Cardinality({i \in DOMAIN wire : wire[i] = s})
Whole == HeaderSize + DataSize

\* The bytes of two packets are not mixed, unless one is sent from a queue.
\* A packet whose calls were neither short nor failed is sent whole, its sender
\* is told so and how much it was; one that is reported sent without it is
\* split, in pieces, routed or a file.
PacketsWhole ==
    /\ \A i, k \in DOMAIN wire : \A j \in i .. k :
           wire[i] = wire[k] =>
               wire[j] = wire[i] \/ "queue" \in {way[wire[i]], way[wire[j]]}
    /\ \A s \in Sender : pc[s] = "done" =>
           /\ s \notin lossy => retval[s] = 0 /\ Sent(s) = Whole
           /\ s \notin lossy /\ way[s] \in {"tcp", "queue", "split", "pieces"} => total[s] = Whole
           /\ retval[s] = 0 /\ way[s] \in {"tcp", "queue"} => Sent(s) = Whole
=============================================================================
