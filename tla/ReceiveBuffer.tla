--------------------------- MODULE ReceiveBuffer ---------------------------
(***************************************************************************)
(* cerver_receive_handle_buffer () of handler.c: how the bytes that recv   *)
(* () returns for one connection are cut into packets.  TCP cuts the       *)
(* stream anywhere, so a header or a packet may be split between buffers;  *)
(* the ReceiveHandle of the connection carries the state from one buffer   *)
(* to the next.                                                            *)
(*                                                                         *)
(* A byte is its offset in the stream of the connection.  A header or a    *)
(* packet is the range of bytes it was copied from, with a flag that says  *)
(* whether the range has no gap.  The size a header carries is the peer's  *)
(* choice, made when the code reads it.                                    *)
(*                                                                         *)
(* The handler of a packet deletes it, or has it deleted by a thread, and  *)
(* the code then takes the size of the packet it goes past from the memory *)
(* that was freed.  Two actions stand for what it finds: the size, as long *)
(* as nothing else was put there (WholePacket), or anything                *)
(* (WholePacketReused), after which nothing more is said of the stream.    *)
(* check_packets is off, as it is by default: see PacketHandlers.          *)
(***************************************************************************)
EXTENDS Integers

CONSTANTS HeaderSize,   \* sizeof (PacketHeader)
          MaxSize,      \* max_received_packet_size
          PacketSize,   \* the values packet_size has in the headers
          Chunk,        \* the numbers of bytes a recv () may return
          StreamBound   \* bound: the bytes a peer sends in one run

ASSUME ReceiveAssumption ==
    /\ HeaderSize \in Nat \ {0}
    /\ MaxSize \in Nat
    /\ PacketSize \subseteq Nat
    /\ Chunk \subseteq Nat \ {0}
    /\ StreamBound \in Nat

VARIABLES pc,
          state,              \* receive_handle->state
          base,               \* the stream offset of the first byte of the buffer
          received,           \* receive_handle->received_size
          buffer_pos,
          remaining,          \* remaining_buffer_size
          header,             \* the header that is being read
          remaining_header,
          packet_size,
          spare,              \* receive_handle->spare_packet
          last                \* history: the last packet that was handled

bufferVars == <<base, received, buffer_pos, remaining>>
headerVars == <<header, remaining_header, packet_size>>
vars == <<pc, state, bufferVars, headerVars, spare, last>>

State == {"NORMAL", "SPLIT_HEADER", "SPLIT_PACKET", "COMP_HEADER", "LOST"}

Span(from, len) == [from |-> from, len |-> len, ok |-> TRUE]

\* The n bytes from "at" on are put behind what r holds; the buffer really
\* has the first "there" of them.
Extend(r, at, n, there) ==
    [from |-> r.from, len |-> r.len + n, ok |-> r.ok /\ n <= there /\ at = r.from + r.len]

At(pos) == base + pos

\* The packets that have been handled end where the next one starts.
Boundary == last.header.from + last.header.len + last.data.len

Init ==
    /\ pc = "recv"
    /\ state = "NORMAL"
    /\ base = 0 /\ received = 0 /\ buffer_pos = 0 /\ remaining = 0
    /\ header = Span(0, 0)
    /\ remaining_header = 0
    /\ packet_size = 0
    /\ spare = [header |-> Span(0, 0), data |-> Span(0, 0), remaining |-> 0]
    /\ last = [header |-> Span(0, 0), data |-> Span(0, 0)]

-----------------------------------------------------------------------------
\* while ((buffer_pos < receive_handle->received_size) && !stop_handler).  What
\* stops the loop has ended the connection, of which the receive handle is a
\* part: it is read after it was freed.
Continue(stop) ==
    IF stop THEN pc' \in {"ended", "crashed"}
            ELSE pc' = IF buffer_pos' < received' THEN "header" ELSE "recv"

Handle(h, d) == last' = [header |-> h, data |-> d]

\* recv () returned n bytes, of which the code has used "used" when it
\* enters the loop.
Buffer(n, used) ==
    /\ pc = "recv"
    /\ At(received) + n <= StreamBound
    /\ base' = At(received)
    /\ received' = n
    /\ buffer_pos' = used
    /\ remaining' = n - used

ReceiveNormal(n) ==
    /\ state \in {"NORMAL", "COMP_HEADER"}
    /\ Buffer(n, 0)
    /\ Continue(FALSE)
    /\ UNCHANGED <<state, headerVars, spare, last>>

\* Fault: the missing bytes of the header are copied but not skipped.
FinishHeaderInPlace(n) ==
    /\ state = "SPLIT_HEADER"
    /\ Buffer(n, 0)
    /\ header' = Extend(header, At(received), remaining_header, n)
    /\ packet_size' \in PacketSize
    /\ remaining_header' = 0
    /\ state' = "COMP_HEADER"
    /\ Continue(FALSE)
    /\ UNCHANGED <<spare, last>>

\* The missing bytes of a split header are copied without a look at how
\* many have been received.
FinishHeader(n) ==
    /\ state = "SPLIT_HEADER"
    /\ Buffer(n, remaining_header)
    /\ header' = Extend(header, At(received), remaining_header, n)
    /\ packet_size' \in PacketSize
    /\ remaining_header' = 0
    /\ state' = "COMP_HEADER"
    /\ Continue(FALSE)
    /\ UNCHANGED <<spare, last>>

FinishPacket(n, stop) ==
    /\ state = "SPLIT_PACKET"
    /\ spare.remaining <= n
    /\ Buffer(n, spare.remaining)
    /\ Handle(spare.header, Extend(spare.data, At(received), spare.remaining, n))
    /\ state' = "NORMAL"
    /\ Continue(stop)
    /\ UNCHANGED <<headerVars, spare>>

MoreOfPacket(n) ==
    /\ state = "SPLIT_PACKET"
    /\ n < spare.remaining
    /\ Buffer(n, 0)
    /\ spare' = [spare EXCEPT !.data = Extend(@, At(received), n, n),
                              !.remaining = @ - n]
    /\ UNCHANGED <<pc, state, headerVars, last>>

\* In the state LOST no buffer is looked at: its bytes are not counted.
ReceiveLost(n) ==
    /\ pc = "recv"
    /\ state = "LOST"
    /\ received' = n
    /\ UNCHANGED <<pc, state, base, buffer_pos, remaining, headerVars, spare, last>>

-----------------------------------------------------------------------------
\* One turn of the loop of cerver_receive_handle_buffer_actual ().
ReadHeader ==
    /\ pc = "header" /\ state = "NORMAL"
    /\ remaining >= HeaderSize
    /\ header' = Span(At(buffer_pos), HeaderSize)
    /\ packet_size' \in PacketSize
    /\ buffer_pos' = buffer_pos + HeaderSize
    /\ remaining' = remaining - HeaderSize
    /\ pc' = "check"
    /\ UNCHANGED <<state, base, received, remaining_header, spare, last>>

SplitHeader ==
    /\ pc = "header" /\ state = "NORMAL"
    /\ remaining < HeaderSize
    /\ header' = Span(At(buffer_pos), remaining)
    /\ remaining_header' = HeaderSize - remaining
    /\ buffer_pos' = buffer_pos + remaining
    /\ state' = "SPLIT_HEADER"
    /\ received' = received
    /\ Continue(FALSE)
    /\ UNCHANGED <<base, remaining, packet_size, spare, last>>

UseSpareHeader ==
    /\ pc = "header" /\ state = "COMP_HEADER"
    /\ state' = "NORMAL"
    /\ pc' = "check"
    /\ UNCHANGED <<bufferVars, headerVars, spare, last>>

ValidSize == packet_size > 0 /\ packet_size <= MaxSize
DataSize == packet_size - HeaderSize

InvalidSize ==
    /\ pc = "check"
    /\ ~ ValidSize
    /\ state' = "LOST"
    /\ pc' = "recv"
    /\ UNCHANGED <<bufferVars, headerVars, spare, last>>

\* The size of the data wraps around, no buffer of that size exists, and
\* the packet that was not created is used.
SizeBelowHeader ==
    /\ pc = "check"
    /\ ValidSize /\ DataSize < 0
    /\ pc' = "crashed"
    /\ UNCHANGED <<state, bufferVars, headerVars, spare, last>>

HeaderOnly(stop) ==
    /\ pc = "check"
    /\ ValidSize /\ DataSize = 0
    /\ Handle(header, Span(At(buffer_pos), 0))
    /\ UNCHANGED <<state, bufferVars, headerVars, spare>>
    /\ Continue(stop)

\* Fault: what is left of the buffer is not counted down.
WholePacketNotCounted(stop) ==
    /\ pc = "check"
    /\ ValidSize /\ DataSize > 0 /\ DataSize <= remaining
    /\ Handle(header, Span(At(buffer_pos), DataSize))
    /\ buffer_pos' = buffer_pos + DataSize
    /\ UNCHANGED <<state, base, received, remaining, headerVars, spare>>
    /\ Continue(stop)

WholePacket(stop) ==
    /\ pc = "check"
    /\ ValidSize /\ DataSize > 0 /\ DataSize <= remaining
    /\ Handle(header, Span(At(buffer_pos), DataSize))
    /\ buffer_pos' = buffer_pos + DataSize
    /\ remaining' = remaining - DataSize
    /\ UNCHANGED <<state, base, received, headerVars, spare>>
    /\ Continue(stop)

\* The memory of the packet was used again: the next turn of the loop starts
\* anywhere.
WholePacketReused ==
    /\ pc = "check"
    /\ ValidSize /\ DataSize > 0 /\ DataSize <= remaining
    /\ Handle(header, Span(At(buffer_pos), DataSize))
    /\ pc' = "astray"
    /\ UNCHANGED <<state, bufferVars, headerVars, spare>>

SplitPacket ==
    /\ pc = "check"
    /\ ValidSize /\ DataSize > remaining
    /\ spare' = [header |-> header,
                 data |-> Span(At(buffer_pos), remaining),
                 remaining |-> DataSize - remaining]
    /\ IF remaining > 0
         THEN /\ buffer_pos' = buffer_pos + DataSize
              /\ remaining' = remaining - DataSize
         ELSE UNCHANGED <<buffer_pos, remaining>>
    /\ state' = "SPLIT_PACKET"
    /\ UNCHANGED <<base, received, headerVars, last>>
    /\ Continue(FALSE)

Receive ==
    \E n \in Chunk :
        \/ ReceiveNormal(n)
        \/ FinishHeader(n)
        \/ \E stop \in BOOLEAN : FinishPacket(n, stop)
        \/ MoreOfPacket(n)
        \/ ReceiveLost(n)

Loop ==
    \/ ReadHeader
    \/ SplitHeader
    \/ UseSpareHeader
    \/ InvalidSize
    \/ SizeBelowHeader
    \/ \E stop \in BOOLEAN : HeaderOnly(stop) \/ WholePacket(stop)
    \/ WholePacketReused
    \/ SplitPacket

Next == Receive \/ Loop

\* The peer goes on sending and the thread goes on handling.
Spec == Init /\ [][Next]_vars /\ WF_vars(Receive) /\ WF_vars(Loop)

-----------------------------------------------------------------------------
(***************************************************************************)
(* Properties                                                              *)
(***************************************************************************)
SpanType == [from : Nat, len : Nat, ok : BOOLEAN]

\* The type invariant: no offset, length or position is ever negative.
TypeOK ==
    /\ pc \in {"recv", "header", "check", "ended", "crashed", "astray"}
    /\ state \in State
    /\ base \in Nat /\ received \in Nat /\ buffer_pos \in Nat /\ remaining \in Int
    /\ header \in SpanType
    /\ remaining_header \in 0 .. HeaderSize
    /\ packet_size \in Nat
    /\ spare \in [header : SpanType, data : SpanType, remaining : Nat]
    /\ last \in [header : SpanType, data : SpanType]

\* The packets given to the handler are those of the stream: each starts
\* where the one before it ended, its data follows its header without a
\* gap, and it is as long as its header says, however the stream was cut
\* into buffers (handler.c 1418-1842).  packet_size is that of the last header
\* that was read.
Framed ==
    [][last' # last =>
           /\ last'.header.ok /\ last'.header.len = HeaderSize
           /\ last'.header.from = Boundary
           /\ last'.data.ok
           /\ last'.data.from = last'.header.from + HeaderSize
           /\ last'.data.len = packet_size - HeaderSize]_vars

\* remaining_buffer_size is a size_t that the code lets wrap around; in the
\* loop it is always what is left of the buffer, so that a wrapped value is
\* never read (handler.c 1628 and 1739).
RemainingExact ==
    pc \in {"header", "check"} => remaining = received - buffer_pos /\ remaining >= 0

\* Between two buffers nothing of the stream is forgotten: what has not
\* been handled is exactly the partial header or the spare packet.
NothingForgotten ==
    pc = "recv" =>
        CASE state = "NORMAL"       -> At(received) = Boundary
          [] state = "SPLIT_HEADER" -> At(received) = Boundary + header.len
          [] state = "COMP_HEADER"  -> At(received) = Boundary + HeaderSize
          [] state = "SPLIT_PACKET" -> At(received) = Boundary + HeaderSize + spare.data.len
          [] OTHER -> TRUE

\* A header has only bytes that have been received.  It fails when a header
\* arrives in three buffers.
HeaderIsReceived == header.ok
=============================================================================
