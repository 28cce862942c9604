--------------------------- MODULE Packets_proofs ---------------------------
(***************************************************************************)
(* The stream of a connection is cut into its packets whatever the sizes   *)
(* of packets and buffers are, as long as a recv () never returns less     *)
(* than what is missing of a split header.  And what is done with a packet *)
(* is right whatever the packets, buffers, pieces and files are, and       *)
(* however many threads receive and send them.                             *)
(***************************************************************************)
EXTENDS Packets, FiniteSetTheorems, SequenceTheorems, TLAPS

HeaderAtBoundary(h) == h.from = Boundary /\ h.len = HeaderSize /\ h.ok = TRUE

InLoop ==
    /\ pc \in {"header", "check"} => remaining = received - buffer_pos /\ remaining >= 0
    /\ pc = "header" => buffer_pos < received /\ state \in {"NORMAL", "COMP_HEADER"}
    /\ pc = "header" /\ state = "NORMAL" => At(buffer_pos) = Boundary
    /\ pc = "header" /\ state = "COMP_HEADER" => At(buffer_pos) = Boundary + HeaderSize
    /\ pc = "check" => /\ state = "NORMAL"
                       /\ HeaderAtBoundary(header)
                       /\ At(buffer_pos) = Boundary + HeaderSize

BetweenBuffers ==
    /\ state = "NORMAL" /\ pc = "recv" => At(received) = Boundary
    /\ state = "COMP_HEADER" =>
           /\ HeaderAtBoundary(header)
           /\ pc = "recv" => At(received) = Boundary + HeaderSize
    /\ state = "SPLIT_HEADER" =>
           /\ pc = "recv"
           /\ header.from = Boundary /\ header.ok = TRUE /\ header.len > 0
           /\ header.len + remaining_header = HeaderSize
           /\ At(received) = Boundary + header.len
    /\ state = "SPLIT_PACKET" =>
           /\ pc = "recv"
           /\ HeaderAtBoundary(spare.header)
           /\ spare.data.ok = TRUE
           /\ spare.data.from = Boundary + HeaderSize
           /\ At(received) = Boundary + HeaderSize + spare.data.len
           /\ spare.data.len + spare.remaining = packet_size - HeaderSize

IInv == TypeOK /\ InLoop /\ BetweenBuffers

WholeHeaders == \A n \in Chunk : n + 1 >= HeaderSize

\* The fields of a range, whatever they are.
LEMMA FieldsOf ==
    ASSUME NEW from \in Nat, NEW len \in Nat, NEW ok \in BOOLEAN
    PROVE  /\ [from |-> from, len |-> len, ok |-> ok] \in SpanType
           /\ [from |-> from, len |-> len, ok |-> ok].from = from
           /\ [from |-> from, len |-> len, ok |-> ok].len = len
           /\ [from |-> from, len |-> len, ok |-> ok].ok = ok
BY DEF SpanType

\* Extending a range adds to its length and keeps its start; the result has
\* no gap when the new bytes are there and follow the old ones.
LEMMA ExtendType ==
    ASSUME NEW r \in SpanType, NEW at \in Nat, NEW n \in Nat, NEW there \in Nat
    PROVE  /\ Extend(r, at, n, there) \in SpanType
           /\ Extend(r, at, n, there).from = r.from
           /\ Extend(r, at, n, there).len = r.len + n
           /\ (r.ok = TRUE /\ n <= there /\ at = r.from + r.len)
                => Extend(r, at, n, there).ok = TRUE
<1> DEFINE gapless == r.ok /\ n <= there /\ at = r.from + r.len
<1>1. Extend(r, at, n, there)
        = [from |-> r.from, len |-> r.len + n, ok |-> gapless]
  BY DEF Extend
<1>2. gapless \in BOOLEAN /\ r.from \in Nat /\ r.len + n \in Nat
  BY DEF SpanType
<1>3. (r.ok = TRUE /\ n <= there /\ at = r.from + r.len) => gapless = TRUE
  OBVIOUS
<1> HIDE DEF gapless
<1> QED  BY <1>1, <1>2, <1>3, FieldsOf

\* A new range has its start, its length and no gap.
LEMMA RangeIs ==
    ASSUME NEW from \in Nat, NEW len \in Nat
    PROVE  /\ Span(from, len) \in SpanType
           /\ Span(from, len).from = from
           /\ Span(from, len).len = len
           /\ Span(from, len).ok = TRUE
BY DEF Span, SpanType

\* Nothing has been received and nothing waits (receive.c).
LEMMA InitIInv == Init => IInv
BY ReceiveAssumption DEF Init, IInv, TypeOK, InLoop, BetweenBuffers, Span, SpanType,
   Boundary, At, HeaderAtBoundary, State

\* recv () returns at least one byte and at least what a header may miss.
LEMMA ChunkType ==
    ASSUME WholeHeaders, NEW n \in Chunk
    PROVE  n \in Nat /\ n > 0 /\ n + 1 >= HeaderSize
<1>1. n \in Nat \ {0}
  BY ReceiveAssumption
<1> QED  BY <1>1 DEF WholeHeaders

\* What the header that is being read and the spare packet are made of.
FieldTypes ==
    /\ header \in SpanType /\ spare.header \in SpanType /\ spare.data \in SpanType
    /\ spare.remaining \in Nat
    /\ last.header \in SpanType /\ last.data \in SpanType
    /\ header.from \in Nat /\ header.len \in Nat /\ header.ok \in BOOLEAN
    /\ spare.data.from \in Nat /\ spare.data.len \in Nat
    /\ last.header.from \in Nat /\ last.header.len \in Nat /\ last.data.len \in Nat
    /\ base \in Nat /\ received \in Nat /\ buffer_pos \in Nat /\ remaining \in Int
    /\ remaining_header \in 0 .. HeaderSize /\ packet_size \in Nat
    /\ Boundary \in Nat

\* What the type invariant says of each field of the receive handle.
LEMMA TypesOf == TypeOK => FieldTypes
<1> SUFFICES ASSUME TypeOK PROVE FieldTypes
  OBVIOUS
<1>1. /\ header \in SpanType /\ spare.header \in SpanType /\ spare.data \in SpanType
      /\ spare.remaining \in Nat
      /\ last.header \in SpanType /\ last.data \in SpanType
  BY DEF TypeOK
<1>2. /\ header.from \in Nat /\ header.len \in Nat /\ header.ok \in BOOLEAN
      /\ spare.data.from \in Nat /\ spare.data.len \in Nat
      /\ last.header.from \in Nat /\ last.header.len \in Nat /\ last.data.len \in Nat
  BY <1>1 DEF SpanType
<1> QED  BY <1>1, <1>2 DEF TypeOK, Boundary, FieldTypes

\* A packet that is handled moves the boundary to its own end.
LEMMA HandleMoves ==
    ASSUME NEW h \in SpanType, NEW d \in SpanType, Handle(h, d)
    PROVE  /\ last' \in [header : SpanType, data : SpanType]
           /\ Boundary' = h.from + h.len + d.len
           /\ last'.header = h /\ last'.data = d
BY DEF Handle, Boundary

\* What putting the received bytes behind a split header or a spare packet
\* gives.
LEMMA HeaderExtends ==
    ASSUME FieldTypes, NEW n \in Nat,
           NEW h, h = Extend(header, At(received), remaining_header, n)
    PROVE  /\ h \in SpanType /\ h.from = header.from
           /\ h.len = header.len + remaining_header
           /\ (header.ok = TRUE /\ remaining_header <= n
                 /\ At(received) = header.from + header.len) => h.ok = TRUE
<1>1. /\ At(received) \in Nat /\ remaining_header \in Nat /\ header \in SpanType
  BY ReceiveAssumption DEF FieldTypes, At
<1>2. h \in SpanType
  BY <1>1, ExtendType
<1>3. h.from = header.from
  BY DEF Extend
<1>4. h.len = header.len + remaining_header
  BY DEF Extend
<1>5. (header.ok = TRUE /\ remaining_header <= n
         /\ At(received) = header.from + header.len) => h.ok = TRUE
  BY DEF Extend
<1> QED  BY <1>2, <1>3, <1>4, <1>5

\* The data of the spare packet grows by what packet_add_data () copies.
LEMMA SpareExtends ==
    ASSUME FieldTypes, NEW n \in Nat, NEW k \in Nat, k <= n
    PROVE  LET d == Extend(spare.data, At(received), k, n)
           IN  /\ d \in SpanType /\ d.from = spare.data.from
               /\ d.len = spare.data.len + k
               /\ (spare.data.ok = TRUE /\ At(received) = spare.data.from + spare.data.len)
                    => d.ok = TRUE
<1>1. /\ At(received) \in Nat /\ spare.data \in SpanType
  BY ReceiveAssumption DEF FieldTypes, At
<1> DEFINE d == Extend(spare.data, At(received), k, n)
<1>2. d \in SpanType
  BY <1>1, ExtendType
<1>3. d.from = spare.data.from
  BY DEF Extend
<1>4. d.len = spare.data.len + k
  BY DEF Extend
<1>5. (spare.data.ok = TRUE /\ At(received) = spare.data.from + spare.data.len) => d.ok = TRUE
  BY DEF Extend
<1> HIDE DEF d
<1>6. /\ d \in SpanType /\ d.from = spare.data.from
      /\ d.len = spare.data.len + k
      /\ (spare.data.ok = TRUE /\ At(received) = spare.data.from + spare.data.len) => d.ok = TRUE
  BY <1>2, <1>3, <1>4, <1>5
<1> QED  BY <1>6 DEF d

\* Completing a split header leaves the handle at its data.
LEMMA FinishHeaderPreserves ==
    ASSUME IInv, NEW n \in Nat, n > 0, n + 1 >= HeaderSize, FinishHeader(n)
    PROVE  IInv'
<1>t. FieldTypes
  BY TypesOf DEF IInv
<1>1. PICK h : h = Extend(header, At(received), remaining_header, n)
  OBVIOUS
<1>2. /\ h \in SpanType /\ h.from = header.from
      /\ h.len = header.len + remaining_header
      /\ (header.ok = TRUE /\ remaining_header <= n
            /\ At(received) = header.from + header.len) => h.ok = TRUE
  BY <1>t, <1>1, HeaderExtends
<1>3. /\ pc = "recv" /\ state = "SPLIT_HEADER" /\ header' = h
      /\ Boundary' = Boundary
  BY <1>1 DEF FinishHeader, Buffer, Boundary
<1>4. /\ header.from = Boundary /\ header.ok = TRUE /\ header.len > 0
      /\ header.len + remaining_header = HeaderSize
      /\ At(received) = Boundary + header.len
  BY <1>3 DEF IInv, BetweenBuffers
<1>5. remaining_header <= n
  BY <1>t, <1>4, ReceiveAssumption DEF FieldTypes
<1>6. HeaderAtBoundary(header)'
  BY <1>2, <1>3, <1>4, <1>5 DEF HeaderAtBoundary
<1>7. TypeOK'
  BY <1>t, <1>2, <1>3, <1>5, ReceiveAssumption
  DEF FieldTypes, FinishHeader, Buffer, Continue, At, IInv, TypeOK, State
<1>8. /\ base' = Boundary + header.len /\ received' = n
      /\ buffer_pos' = remaining_header /\ remaining' = n - remaining_header
      /\ state' = "COMP_HEADER"
      /\ pc' = IF buffer_pos' < received' THEN "header" ELSE "recv"
  BY <1>3, <1>4 DEF FinishHeader, Buffer, Continue
<1> QED  BY <1>t, <1>3, <1>4, <1>5, <1>6, <1>7, <1>8, ReceiveAssumption
         DEF FieldTypes, At, IInv, InLoop, BetweenBuffers

\* Completing the spare packet moves the boundary to its end.
LEMMA FinishPacketPreserves ==
    ASSUME IInv, NEW n \in Nat, n > 0, NEW stop \in BOOLEAN, FinishPacket(n, stop)
    PROVE  IInv'
<1>t. FieldTypes
  BY TypesOf DEF IInv
<1>1. PICK d : d = Extend(spare.data, At(received), spare.remaining, n)
  OBVIOUS
<1>2. spare.remaining <= n /\ pc = "recv" /\ state = "SPLIT_PACKET"
  BY DEF FinishPacket, Buffer
<1>3. /\ d \in SpanType /\ d.from = spare.data.from
      /\ d.len = spare.data.len + spare.remaining
  <2>1. spare.remaining \in Nat
    BY <1>t DEF FieldTypes
  <2>2. spare.remaining <= n
    BY <1>2
  <2> QED  BY <1>t, <1>1, <2>1, <2>2, SpareExtends
<1>4. Handle(spare.header, d) /\ spare.header \in SpanType
  BY <1>t, <1>1 DEF FinishPacket, FieldTypes
<1>5. /\ last' \in [header : SpanType, data : SpanType]
      /\ Boundary' = spare.header.from + spare.header.len + d.len
  BY <1>3, <1>4, HandleMoves
<1>6. /\ spare.header.from = Boundary /\ spare.header.len = HeaderSize
      /\ At(received) = Boundary + HeaderSize + spare.data.len
  BY <1>2 DEF IInv, BetweenBuffers, HeaderAtBoundary
<1>7. Boundary' = At(received) + spare.remaining
  BY <1>t, <1>3, <1>5, <1>6, ReceiveAssumption DEF FieldTypes
<1>8. /\ base' = At(received) /\ received' = n
      /\ buffer_pos' = spare.remaining /\ remaining' = n - spare.remaining
      /\ state' = "NORMAL"
      /\ pc' \in {"recv", "header", "ended", "crashed"}
      /\ pc' = "header" => buffer_pos' < received'
      /\ pc' = "recv" => ~ (buffer_pos' < received')
      /\ UNCHANGED <<headerVars, spare>>
  BY DEF FinishPacket, Buffer, Continue
<1>9. TypeOK'
  BY <1>t, <1>5, <1>8, ReceiveAssumption
  DEF FieldTypes, At, IInv, TypeOK, State, headerVars
<1> QED  BY <1>t, <1>2, <1>7, <1>8, <1>9, ReceiveAssumption
         DEF FieldTypes, At, IInv, InLoop, BetweenBuffers

\* A buffer that is too small only makes the spare packet longer.
LEMMA MoreOfPacketPreserves ==
    ASSUME IInv, NEW n \in Nat, n > 0, MoreOfPacket(n)
    PROVE  IInv'
<1>t. FieldTypes
  BY TypesOf DEF IInv
<1>1. PICK d : d = Extend(spare.data, At(received), n, n)
  OBVIOUS
<1>2. n < spare.remaining /\ pc = "recv" /\ state = "SPLIT_PACKET"
  BY DEF MoreOfPacket, Buffer
<1>3. /\ d \in SpanType /\ d.from = spare.data.from
      /\ d.len = spare.data.len + n
      /\ (spare.data.ok = TRUE /\ At(received) = spare.data.from + spare.data.len)
           => d.ok = TRUE
  <2>1. n <= n
    OBVIOUS
  <2> QED  BY <1>t, <1>1, <2>1, SpareExtends
<1>4. spare' = [spare EXCEPT !.data = d, !.remaining = @ - n]
  BY <1>1 DEF MoreOfPacket
<1>5. /\ spare' \in [header : SpanType, data : SpanType, remaining : Nat]
      /\ spare'.header = spare.header /\ spare'.data = d
      /\ spare'.remaining = spare.remaining - n
  <2>1. spare \in [header : SpanType, data : SpanType, remaining : Nat]
    BY DEF IInv, TypeOK
  <2>2. spare.remaining - n \in Nat
    BY <1>t, <1>2 DEF FieldTypes
  <2> QED  BY <1>3, <1>4, <2>1, <2>2
<1>6. /\ HeaderAtBoundary(spare.header) /\ spare.data.ok = TRUE
      /\ spare.data.from = Boundary + HeaderSize
      /\ At(received) = Boundary + HeaderSize + spare.data.len
      /\ spare.data.len + spare.remaining = packet_size - HeaderSize
  BY <1>2 DEF IInv, BetweenBuffers
<1>7. /\ base' = At(received) /\ received' = n
      /\ buffer_pos' = 0 /\ remaining' = n - 0
      /\ state' = "SPLIT_PACKET" /\ pc' = "recv"
      /\ UNCHANGED <<headerVars, last>>
      /\ Boundary' = Boundary
  BY <1>2 DEF MoreOfPacket, Buffer, Boundary
<1>8. TypeOK'
  BY <1>t, <1>5, <1>7, ReceiveAssumption
  DEF FieldTypes, At, IInv, TypeOK, State, headerVars
<1>9. HeaderAtBoundary(spare.header)' /\ spare'.data.ok = TRUE
      /\ spare'.data.from = (Boundary + HeaderSize)'
  BY <1>3, <1>5, <1>6, <1>7, <1>t, ReceiveAssumption DEF HeaderAtBoundary, FieldTypes
<1>10. At(received)' = (Boundary + HeaderSize + spare.data.len)'
  BY <1>3, <1>5, <1>6, <1>7, <1>t, ReceiveAssumption DEF At, FieldTypes
<1>11. spare'.data.len + spare'.remaining = packet_size' - HeaderSize
  BY <1>3, <1>5, <1>6, <1>7, <1>t DEF headerVars, FieldTypes
<1> QED  BY <1>7, <1>8, <1>9, <1>10, <1>11 DEF IInv, InLoop, BetweenBuffers

\* No recv () breaks the invariant.
LEMMA ReceivePreserves ==
    ASSUME IInv, WholeHeaders, Receive
    PROVE  IInv'
<1> PICK n \in Chunk :
        \/ ReceiveNormal(n)
        \/ FinishHeader(n)
        \/ \E stop \in BOOLEAN : FinishPacket(n, stop)
        \/ MoreOfPacket(n)
        \/ ReceiveLost(n)
  BY DEF Receive
<1>0. n \in Nat /\ n > 0 /\ n + 1 >= HeaderSize
  BY ChunkType
<1>t. FieldTypes
  BY TypesOf DEF IInv
<1>1. CASE ReceiveNormal(n)
  BY <1>t, <1>0, <1>1, ReceiveAssumption
  DEF FieldTypes, At, IInv, ReceiveNormal, Buffer, Continue, TypeOK, InLoop,
      BetweenBuffers, headerVars, Boundary, HeaderAtBoundary
<1>2. CASE FinishHeader(n)
  BY <1>0, <1>2, FinishHeaderPreserves
<1>3. CASE \E stop \in BOOLEAN : FinishPacket(n, stop)
  BY <1>0, <1>3, FinishPacketPreserves
<1>4. CASE MoreOfPacket(n)
  BY <1>0, <1>4, MoreOfPacketPreserves
<1>5. CASE ReceiveLost(n)
  BY <1>t, <1>0, <1>5
  DEF FieldTypes, IInv, ReceiveLost, TypeOK, InLoop, BetweenBuffers, headerVars,
      Boundary, HeaderAtBoundary
<1> QED  BY <1>1, <1>2, <1>3, <1>4, <1>5

\* A complete header is read at the boundary.
LEMMA ReadHeaderPreserves ==
    ASSUME IInv, ReadHeader
    PROVE  IInv'
<1>t. FieldTypes
  BY TypesOf DEF IInv
<1>1. /\ At(buffer_pos) = Boundary /\ remaining = received - buffer_pos
      /\ remaining >= HeaderSize /\ buffer_pos < received
  BY DEF ReadHeader, IInv, InLoop
<1>2. /\ header' = Span(At(buffer_pos), HeaderSize)
      /\ Boundary' = Boundary
      /\ base' = base /\ buffer_pos' = buffer_pos + HeaderSize
      /\ remaining' = remaining - HeaderSize
      /\ pc' = "check" /\ state' = "NORMAL" /\ received' = received
  BY DEF ReadHeader, Boundary
<1>3. At(buffer_pos) \in Nat /\ HeaderSize \in Nat
  BY <1>t, ReceiveAssumption DEF FieldTypes, At
<1>4. header' \in SpanType /\ HeaderAtBoundary(header)'
  BY <1>1, <1>2, <1>3, RangeIs DEF HeaderAtBoundary
<1>5. TypeOK'
  BY <1>t, <1>2, <1>3, <1>4, ReceiveAssumption
  DEF FieldTypes, IInv, TypeOK, State, ReadHeader
<1>6. At(buffer_pos)' = Boundary' + HeaderSize
  BY <1>t, <1>1, <1>2, <1>3 DEF At, FieldTypes
<1> QED  BY <1>t, <1>1, <1>2, <1>3, <1>4, <1>5, <1>6 DEF IInv, InLoop, BetweenBuffers, FieldTypes

\* A partial header starts at the boundary and uses up the buffer.
LEMMA SplitHeaderPreserves ==
    ASSUME IInv, SplitHeader
    PROVE  IInv'
<1>t. FieldTypes
  BY TypesOf DEF IInv
<1>1. /\ At(buffer_pos) = Boundary /\ remaining = received - buffer_pos
      /\ remaining >= 0 /\ remaining < HeaderSize /\ buffer_pos < received
  BY DEF SplitHeader, IInv, InLoop
<1>2. /\ header' = Span(At(buffer_pos), remaining)
      /\ remaining_header' = HeaderSize - remaining
      /\ Boundary' = Boundary
      /\ base' = base /\ buffer_pos' = buffer_pos + remaining
      /\ remaining' = remaining
      /\ state' = "SPLIT_HEADER" /\ received' = received
      /\ pc' = IF buffer_pos' < received' THEN "header" ELSE "recv"
  BY DEF SplitHeader, Boundary, Continue
<1>3. At(buffer_pos) \in Nat /\ HeaderSize \in Nat /\ remaining \in Nat /\ remaining > 0
  BY <1>t, <1>1, ReceiveAssumption DEF FieldTypes, At
<1>4. /\ header' \in SpanType /\ header'.from = Boundary' /\ header'.len = remaining
      /\ header'.ok = TRUE
  BY <1>1, <1>2, <1>3, RangeIs
<1>5. pc' = "recv"
  BY <1>t, <1>1, <1>2, <1>3 DEF FieldTypes
<1>6. TypeOK'
  BY <1>t, <1>1, <1>2, <1>3, <1>4, <1>5, ReceiveAssumption
  DEF FieldTypes, IInv, TypeOK, State, SplitHeader
<1>7. At(received)' = Boundary' + header'.len
  BY <1>t, <1>1, <1>2, <1>3, <1>4 DEF At, FieldTypes
<1> QED  BY <1>t, <1>1, <1>2, <1>3, <1>4, <1>5, <1>6, <1>7 DEF IInv, InLoop, BetweenBuffers, FieldTypes

\* In "check" the header is the next one of the stream.
LEMMA InCheck ==
    ASSUME IInv, pc = "check"
    PROVE  /\ FieldTypes
           /\ state = "NORMAL"
           /\ header.from = Boundary /\ header.len = HeaderSize /\ header.ok = TRUE
           /\ At(buffer_pos) = Boundary + HeaderSize /\ At(buffer_pos) \in Nat
           /\ remaining = received - buffer_pos /\ remaining \in Nat
           /\ HeaderSize \in Nat /\ DataSize \in Int
<1>1. FieldTypes
  BY TypesOf DEF IInv
<1> QED  BY <1>1, ReceiveAssumption DEF IInv, InLoop, HeaderAtBoundary, FieldTypes, At, DataSize

\* A packet without data ends where its header ends.
LEMMA HeaderOnlyPreserves ==
    ASSUME IInv, NEW stop \in BOOLEAN, HeaderOnly(stop)
    PROVE  IInv'
<1>1. /\ pc = "check" /\ DataSize = 0
      /\ Handle(header, Span(At(buffer_pos), 0))
      /\ UNCHANGED <<state, bufferVars, headerVars, spare>>
      /\ pc' \in {"recv", "header", "ended", "crashed"}
      /\ pc' = "header" => buffer_pos' < received'
      /\ pc' = "recv" => ~ (buffer_pos' < received')
  BY DEF HeaderOnly, Continue
<1>c. /\ FieldTypes
      /\ state = "NORMAL"
      /\ header.from = Boundary /\ header.len = HeaderSize /\ header.ok = TRUE
      /\ At(buffer_pos) = Boundary + HeaderSize /\ At(buffer_pos) \in Nat
      /\ remaining = received - buffer_pos /\ remaining \in Nat
      /\ HeaderSize \in Nat
  BY <1>1, InCheck
<1>2. PICK d : d = Span(At(buffer_pos), 0)
  OBVIOUS
<1>3. d \in SpanType /\ d.len = 0
  BY <1>c, <1>2 DEF Span, SpanType
<1>4. /\ last' \in [header : SpanType, data : SpanType]
      /\ Boundary' = header.from + header.len + d.len
  BY <1>1, <1>2, <1>3, <1>c, HandleMoves DEF FieldTypes
<1>5. Boundary' = At(buffer_pos)
  BY <1>3, <1>4, <1>c DEF FieldTypes
<1>6. TypeOK'
  BY <1>1, <1>4, <1>c DEF FieldTypes, IInv, TypeOK, bufferVars, headerVars, State
<1> QED  BY <1>1, <1>5, <1>6, <1>c
         DEF IInv, InLoop, BetweenBuffers, FieldTypes, bufferVars, At

\* A packet that is whole in the buffer moves the boundary to its end.
LEMMA WholePacketPreserves ==
    ASSUME IInv, NEW stop \in BOOLEAN, WholePacket(stop)
    PROVE  IInv'
<1>1. /\ pc = "check" /\ DataSize > 0 /\ DataSize <= remaining
      /\ Handle(header, Span(At(buffer_pos), DataSize))
      /\ buffer_pos' = buffer_pos + DataSize
      /\ remaining' = remaining - DataSize
      /\ UNCHANGED <<state, base, received, headerVars, spare>>
      /\ pc' \in {"recv", "header", "ended", "crashed"}
      /\ pc' = "header" => buffer_pos' < received'
      /\ pc' = "recv" => ~ (buffer_pos' < received')
  BY DEF WholePacket, Continue
<1>c. /\ FieldTypes
      /\ state = "NORMAL"
      /\ header.from = Boundary /\ header.len = HeaderSize /\ header.ok = TRUE
      /\ At(buffer_pos) = Boundary + HeaderSize /\ At(buffer_pos) \in Nat
      /\ remaining = received - buffer_pos /\ remaining \in Nat
      /\ HeaderSize \in Nat /\ DataSize \in Int
  BY <1>1, InCheck
<1>n. DataSize \in Nat
  BY <1>1, <1>c
<1>2. PICK d : d = Span(At(buffer_pos), DataSize)
  OBVIOUS
<1>3. d \in SpanType /\ d.len = DataSize
  BY <1>c, <1>n, <1>2, RangeIs
<1>4. /\ last' \in [header : SpanType, data : SpanType]
      /\ Boundary' = header.from + header.len + d.len
  BY <1>1, <1>2, <1>3, <1>c, HandleMoves DEF FieldTypes
<1>5. Boundary' = At(buffer_pos)'
  BY <1>1, <1>3, <1>4, <1>n, <1>c DEF FieldTypes, At
<1>6. TypeOK'
  BY <1>1, <1>4, <1>c, <1>n DEF FieldTypes, IInv, TypeOK, headerVars, State
<1> QED  BY <1>1, <1>5, <1>6, <1>c, <1>n
         DEF IInv, InLoop, BetweenBuffers, FieldTypes, At

\* The spare packet has all that was left of the buffer.
LEMMA SplitPacketPreserves ==
    ASSUME IInv, SplitPacket
    PROVE  IInv'
<1>1. /\ pc = "check" /\ DataSize > remaining
      /\ spare' = [header |-> header,
                   data |-> Span(At(buffer_pos), remaining),
                   remaining |-> DataSize - remaining]
      /\ IF remaining > 0
           THEN /\ buffer_pos' = buffer_pos + DataSize
                /\ remaining' = remaining - DataSize
           ELSE UNCHANGED <<buffer_pos, remaining>>
      /\ state' = "SPLIT_PACKET"
      /\ UNCHANGED <<base, received, headerVars, last>>
      /\ Boundary' = Boundary
      /\ pc' = IF buffer_pos' < received' THEN "header" ELSE "recv"
  BY DEF SplitPacket, Continue, Boundary
<1>c. /\ FieldTypes
      /\ state = "NORMAL"
      /\ header.from = Boundary /\ header.len = HeaderSize /\ header.ok = TRUE
      /\ At(buffer_pos) = Boundary + HeaderSize /\ At(buffer_pos) \in Nat
      /\ remaining = received - buffer_pos /\ remaining \in Nat
      /\ HeaderSize \in Nat /\ DataSize \in Int
  BY <1>1, InCheck
<1>2. PICK d : d = Span(At(buffer_pos), remaining)
  OBVIOUS
<1>3. d \in SpanType /\ d.from = At(buffer_pos) /\ d.len = remaining /\ d.ok = TRUE
  BY <1>c, <1>2 DEF Span, SpanType
<1>4. /\ spare' \in [header : SpanType, data : SpanType, remaining : Nat]
      /\ spare'.header = header /\ spare'.data = d
      /\ spare'.remaining = DataSize - remaining
  <2>1. DataSize - remaining \in Nat /\ header \in SpanType
    BY <1>1, <1>c DEF FieldTypes
  <2> QED  BY <1>1, <1>2, <1>3, <2>1
<1>5. pc' = "recv" /\ buffer_pos' \in Nat /\ remaining' \in Int
  BY <1>1, <1>c DEF FieldTypes
<1>6. TypeOK'
  BY <1>1, <1>4, <1>5, <1>c DEF FieldTypes, IInv, TypeOK, headerVars, State
<1>7. /\ HeaderAtBoundary(spare.header)'
      /\ spare'.data.ok = TRUE /\ spare'.data.from = Boundary' + HeaderSize
      /\ At(received)' = Boundary' + HeaderSize + spare'.data.len
  BY <1>1, <1>3, <1>4, <1>c DEF HeaderAtBoundary, At, FieldTypes
<1>8. spare'.data.len + spare'.remaining = packet_size' - HeaderSize
  BY <1>1, <1>3, <1>4, <1>c DEF headerVars, DataSize, FieldTypes
<1> QED  BY <1>1, <1>5, <1>6, <1>7, <1>8, <1>c DEF IInv, InLoop, BetweenBuffers

\* After a packet whose memory was used again nothing is said.
LEMMA WholePacketReusedPreserves ==
    ASSUME IInv, WholePacketReused
    PROVE  IInv'
<1>1. /\ pc = "check" /\ DataSize > 0
      /\ Handle(header, Span(At(buffer_pos), DataSize))
      /\ UNCHANGED <<state, bufferVars, headerVars, spare>>
      /\ pc' = "astray"
  BY DEF WholePacketReused
<1>c. /\ FieldTypes
      /\ state = "NORMAL"
      /\ At(buffer_pos) \in Nat
      /\ DataSize \in Int
  BY <1>1, InCheck
<1>2. PICK d : d = Span(At(buffer_pos), DataSize)
  OBVIOUS
<1>3. DataSize \in Nat
  BY <1>1, <1>c
<1>4. d \in SpanType
  BY <1>c, <1>2, <1>3, RangeIs
<1>5. last' \in [header : SpanType, data : SpanType]
  BY <1>1, <1>2, <1>4, <1>c, HandleMoves DEF FieldTypes
<1>6. TypeOK'
  BY <1>1, <1>5, <1>c DEF FieldTypes, IInv, TypeOK, bufferVars, headerVars, State
<1> QED  BY <1>1, <1>6, <1>c DEF IInv, InLoop, BetweenBuffers

\* A header taken from the handle, a bad size and a size below that of a
\* header leave the boundary alone.
LEMMA OtherStepsPreserve ==
    ASSUME IInv, UseSpareHeader \/ InvalidSize \/ SizeBelowHeader
    PROVE  IInv'
<1>t. FieldTypes
  BY TypesOf DEF IInv
<1>1. CASE UseSpareHeader
  BY <1>t, <1>1
  DEF UseSpareHeader, FieldTypes, IInv, TypeOK, State, InLoop, BetweenBuffers, bufferVars,
      headerVars, Boundary, HeaderAtBoundary, At
<1>2. CASE InvalidSize
  BY <1>t, <1>2
  DEF InvalidSize, FieldTypes, IInv, TypeOK, State, InLoop, BetweenBuffers, bufferVars,
      headerVars, Boundary, HeaderAtBoundary, At
<1>3. CASE SizeBelowHeader
  BY <1>t, <1>3
  DEF SizeBelowHeader, FieldTypes, IInv, TypeOK, State, InLoop, BetweenBuffers, bufferVars,
      headerVars, Boundary, HeaderAtBoundary, At
<1> QED  BY <1>1, <1>2, <1>3

\* The invariant is about vars only.
LEMMA StutterPreserves == IInv /\ UNCHANGED vars => IInv'
BY DEF vars, bufferVars, headerVars, IInv, TypeOK, InLoop, BetweenBuffers, Boundary,
   HeaderAtBoundary, At

\* No step breaks the invariant.
LEMMA NextPreserves ==
    ASSUME WholeHeaders, IInv, [Next]_vars
    PROVE  IInv'
<1>1. CASE Receive
  BY <1>1, ReceivePreserves
<1>2. CASE Loop
  <2>1. CASE ReadHeader
    BY <2>1, ReadHeaderPreserves
  <2>2. CASE SplitHeader
    BY <2>2, SplitHeaderPreserves
  <2>3. CASE UseSpareHeader \/ InvalidSize \/ SizeBelowHeader
    BY <2>3, OtherStepsPreserve
  <2>4. ASSUME NEW stop \in BOOLEAN, HeaderOnly(stop) \/ WholePacket(stop) PROVE IInv'
    BY <2>4, HeaderOnlyPreserves, WholePacketPreserves
  <2>5. CASE SplitPacket
    BY <2>5, SplitPacketPreserves
  <2>6. CASE WholePacketReused
    BY <2>6, WholePacketReusedPreserves
  <2> QED  BY <1>2, <2>1, <2>2, <2>3, <2>4, <2>5, <2>6 DEF Loop
<1>3. CASE UNCHANGED vars
  BY <1>3, StutterPreserves
<1> QED  BY <1>1, <1>2, <1>3 DEF Next

\* The invariant of the framing, for every header size, packet size and
\* buffer size with which a split header is completed by the next buffer.
THEOREM InvCorrect ==
    ASSUME WholeHeaders
    PROVE  Spec => []IInv
<1>1. Init => IInv
  BY InitIInv
<1>2. IInv /\ [Next]_vars => IInv'
  BY NextPreserves
<1> QED  BY <1>1, <1>2, PTL DEF Spec

\* No offset, length or position is negative or out of its range.
THEOREM TypeCorrect ==
    ASSUME WholeHeaders
    PROVE  Spec => []TypeOK
<1>1. IInv => TypeOK
  BY DEF IInv
<1> QED  BY <1>1, InvCorrect, PTL

\* What the loop takes for the rest of the buffer is the rest of the buffer.
THEOREM RemainingCorrect ==
    ASSUME WholeHeaders
    PROVE  Spec => []RemainingExact
<1>1. IInv => RemainingExact
  BY DEF IInv, InLoop, RemainingExact
<1> QED  BY <1>1, InvCorrect, PTL

\* Between two buffers exactly the partial header or the spare packet is
\* left of the stream.
THEOREM NothingForgottenCorrect ==
    ASSUME WholeHeaders
    PROVE  Spec => []NothingForgotten
<1>1. IInv => NothingForgotten
  BY DEF IInv, TypeOK, State, BetweenBuffers, NothingForgotten
<1> QED  BY <1>1, InvCorrect, PTL

\* What Framed says of a packet with the header h and the data d.
Contiguous(h, d) ==
    /\ h.ok /\ h.len = HeaderSize
    /\ h.from = Boundary
    /\ d.ok
    /\ d.from = h.from + HeaderSize
    /\ d.len = packet_size - HeaderSize

\* A packet given to the handler is the next one of the stream.
LEMMA HandledIsContiguous ==
    ASSUME IInv,
           \/ \E n \in Nat, stop \in BOOLEAN : FinishPacket(n, stop)
           \/ \E stop \in BOOLEAN : HeaderOnly(stop) \/ WholePacket(stop)
           \/ WholePacketReused
    PROVE  Contiguous(last'.header, last'.data)
<1>t. FieldTypes
  BY TypesOf DEF IInv
<1>1. ASSUME NEW n \in Nat, NEW stop \in BOOLEAN, FinishPacket(n, stop)
      PROVE  Contiguous(last'.header, last'.data)
  <2>1. PICK d : d = Extend(spare.data, At(received), spare.remaining, n)
    OBVIOUS
  <2>2. /\ spare.remaining <= n /\ state = "SPLIT_PACKET"
        /\ last' = [header |-> spare.header, data |-> d]
    BY <1>1, <2>1 DEF FinishPacket, Handle
  <2>3. /\ spare.header.from = Boundary /\ spare.header.len = HeaderSize
        /\ spare.header.ok = TRUE /\ spare.data.ok = TRUE
        /\ spare.data.from = Boundary + HeaderSize
        /\ At(received) = spare.data.from + spare.data.len
        /\ spare.data.len + spare.remaining = packet_size - HeaderSize
    BY <2>2, <1>t, ReceiveAssumption DEF IInv, BetweenBuffers, HeaderAtBoundary, FieldTypes
  <2>4. spare.remaining \in Nat
    BY <1>t DEF FieldTypes
  <2>5. d.from = spare.data.from /\ d.ok = TRUE /\ d.len = packet_size - HeaderSize
    BY <1>t, <2>1, <2>2, <2>3, <2>4, SpareExtends
  <2> QED  BY <2>2, <2>3, <2>5 DEF Contiguous
<1>2. ASSUME pc = "check", NEW k \in Nat, k = DataSize, Handle(header, Span(At(buffer_pos), k))
      PROVE  Contiguous(last'.header, last'.data)
  <2>1. PICK d : d = Span(At(buffer_pos), k)
    OBVIOUS
  <2>2. /\ header.from = Boundary /\ header.len = HeaderSize /\ header.ok = TRUE
        /\ At(buffer_pos) = Boundary + HeaderSize /\ At(buffer_pos) \in Nat
    BY <1>2, InCheck
  <2>3. d.from = At(buffer_pos) /\ d.ok = TRUE /\ d.len = packet_size - HeaderSize
    BY <1>2, <2>1, <2>2, RangeIs DEF DataSize
  <2>4. last' = [header |-> header, data |-> d]
    BY <1>2, <2>1 DEF Handle
  <2> QED  BY <2>2, <2>3, <2>4 DEF Contiguous
<1>3. ASSUME NEW stop \in BOOLEAN, HeaderOnly(stop) \/ WholePacket(stop)
      PROVE  Contiguous(last'.header, last'.data)
  <2>1. CASE HeaderOnly(stop)
    BY <2>1, <1>2 DEF HeaderOnly
  <2>2. CASE WholePacket(stop)
    <3>1. pc = "check" /\ Handle(header, Span(At(buffer_pos), DataSize)) /\ DataSize > 0
      BY <2>2 DEF WholePacket
    <3>2. DataSize \in Nat
      BY <3>1, InCheck
    <3> QED  BY <3>1, <3>2, <1>2
  <2> QED  BY <1>3, <2>1, <2>2
<1>4. CASE WholePacketReused
  <2>1. pc = "check" /\ Handle(header, Span(At(buffer_pos), DataSize)) /\ DataSize > 0
    BY <1>4 DEF WholePacketReused
  <2>2. DataSize \in Nat
    BY <2>1, InCheck
  <2> QED  BY <2>1, <2>2, <1>2
<1> QED  BY <1>1, <1>3, <1>4

\* The packets that are handled are those of the stream, one after the other.
THEOREM FramedCorrect ==
    ASSUME WholeHeaders
    PROVE  Spec => Framed
<1> DEFINE Step == last' # last =>
                       /\ last'.header.ok /\ last'.header.len = HeaderSize
                       /\ last'.header.from = Boundary
                       /\ last'.data.ok
                       /\ last'.data.from = last'.header.from + HeaderSize
                       /\ last'.data.len = packet_size - HeaderSize
<1>1. ASSUME IInv, [Next]_vars PROVE [Step]_vars
  <2>1. Contiguous(last'.header, last'.data) => Step
    BY DEF Contiguous
  <2>2. CASE Receive
    <3>1. PICK n \in Chunk :
              \/ ReceiveNormal(n)
              \/ FinishHeader(n)
              \/ \E stop \in BOOLEAN : FinishPacket(n, stop)
              \/ MoreOfPacket(n)
              \/ ReceiveLost(n)
      BY <2>2 DEF Receive
    <3>2. CASE \E stop \in BOOLEAN : FinishPacket(n, stop)
      <4>1. n \in Nat
        BY ReceiveAssumption
      <4> QED  BY <1>1, <2>1, <3>2, <4>1, HandledIsContiguous
    <3>3. CASE ReceiveNormal(n) \/ FinishHeader(n) \/ MoreOfPacket(n) \/ ReceiveLost(n)
      BY <3>3 DEF ReceiveNormal, FinishHeader, MoreOfPacket, ReceiveLost
    <3> QED  BY <3>1, <3>2, <3>3
  <2>3. CASE Loop
    <3>1. CASE \/ \E stop \in BOOLEAN : HeaderOnly(stop) \/ WholePacket(stop)
               \/ WholePacketReused
      BY <1>1, <2>1, <3>1, HandledIsContiguous
    <3>2. CASE ReadHeader \/ SplitHeader \/ UseSpareHeader \/ InvalidSize \/ SizeBelowHeader
                 \/ SplitPacket
      BY <3>2 DEF ReadHeader, SplitHeader, UseSpareHeader, InvalidSize, SizeBelowHeader, SplitPacket
    <3> QED  BY <2>3, <3>1, <3>2 DEF Loop
  <2>4. CASE UNCHANGED vars
    BY <2>4
  <2> QED  BY <1>1, <2>2, <2>3, <2>4 DEF Next
<1>2. Spec => []IInv
  BY InvCorrect
<1> QED  BY <1>1, <1>2, PTL DEF Spec, Framed

-----------------------------------------------------------------------------
(* What each part assumes of its constants                                 *)

LEMMA HandleConf ==
    /\ IsFiniteSet(Receiver) /\ NPackets \in Nat
    /\ Arriving \subseteq P!Type /\ Config \subseteq P!ConfigType
    /\ Nil \notin P!Type \cup {"version", "type"}
BY PacketsAssumption

LEMMA DataConf == Size \subseteq Nat /\ Nil \notin Memory /\ Inline \notin Memory /\ Inline # Nil
BY PacketsAssumption

LEMMA SendConf ==
    /\ FreeMutex \notin Sender /\ HeaderSize \in Nat \ {0} /\ Payload \in Nat
    /\ Pieces \in Seq(0 .. Payload)
    /\ \E upto \in [0 .. Len(Pieces) -> 0 .. Payload] :
           /\ upto[0] = 0 /\ upto[Len(Pieces)] = Payload
           /\ \A i \in 1 .. Len(Pieces) : upto[i] = upto[i - 1] + Pieces[i]
BY PacketsAssumption, ReceiveAssumption

\* Each part's cardinality is the same.
LEMMA CardinalityIs ==
    \A S : /\ P!Cardinality(S) = Cardinality(S) /\ D!Cardinality(S) = Cardinality(S)
           /\ W!Cardinality(S) = Cardinality(S) /\ (P!IsFiniteSet(S) <=> IsFiniteSet(S))
BY DEF P!Cardinality, D!Cardinality, W!Cardinality, Cardinality, P!IsFiniteSet, IsFiniteSet

LEMMA FileConf == FileLength \subseteq Nat /\ BufferSize \in Nat \ {0} /\ Beyond \in Nat
BY PacketsAssumption

-----------------------------------------------------------------------------
(* Handling: what becomes of a packet                                      *)

Stage == {"idle", "load", "store", "check", "crashed", "dispatch", "handle", "get_file", "send_file", "delete"}
Outcomes == {"sent", "bad_sent", "bad_requests"}
UploadOutcomes == {"uploaded", "bad_received", "bad_uploads"}

\* Where a receiver goes that has incremented a counter.
NextOf(c) ==
    CASE c = "received" -> "check" [] c \in P!Type -> "handle" [] c = "requests" -> "get_file"
      [] c = "uploads" -> "send_file" [] OTHER -> "delete"

HandleTypes ==
    /\ config \in P!ConfigType
    /\ type \in [P!Packet -> P!Type \cup {Nil}]
    /\ fate \in [P!Packet -> {"coming", "held", "queued", "deleted", "users", "lost"}]
    /\ why \in [P!Packet -> {"version", "type", "game", "handler", Nil}]
    /\ stats \in [P!Counter -> Nat]
    /\ ppc \in [Receiver -> Stage] /\ handling \in [Receiver -> P!Packet \cup {Nil}]
    /\ counter \in [Receiver -> P!Counter \cup {Nil}] /\ read \in [Receiver -> Nat]
    /\ next \in [Receiver -> Stage \cup {Nil}]
    /\ queue \in Seq(P!Packet) /\ raced \in BOOLEAN
    /\ \A r \in Receiver :
           ppc[r] \in {"load", "store"} => counter[r] \in P!Counter /\ next[r] = NextOf(counter[r])
    /\ \E k \in 0 .. NPackets : P!Came = 1 .. k

\* A packet that is held has one receiver, one that is queued one place.
Held ==
    /\ \A r \in Receiver : ppc[r] # "idle" => handling[r] \in P!Packet /\ fate[handling[r]] = "held"
    /\ \A r, q \in Receiver : ppc[r] # "idle" /\ ppc[q] # "idle" /\ handling[r] = handling[q] => r = q
    /\ \A p \in P!Packet : fate[p] = "held" => \E r \in Receiver : ppc[r] # "idle" /\ handling[r] = p
Queued ==
    /\ \A i \in 1 .. Len(queue) : fate[queue[i]] = "queued"
    /\ \A i, j \in 1 .. Len(queue) : queue[i] = queue[j] => i = j
    /\ \A p \in P!Packet : fate[p] = "queued" => \E i \in 1 .. Len(queue) : queue[i] = p

Fates ==
    /\ ~ deletedTwice
    /\ \A p \in P!Packet :
           /\ fate[p] # "coming" => type[p] \in P!Type
           /\ fate[p] # "lost" => why[p] = Nil
           /\ fate[p] = "users" => ~ config.delete
           /\ fate[p] = "lost" /\ ~ config.check =>
                  type[p] \notin {"error", "request", "auth", "test", "bad"}

\* The increments that are under way, and the packets and requests that are not
\* counted yet.
Counting(r, counters) == ppc[r] \in {"load", "store"} /\ counter[r] \in counters
Arrives(r) == Counting(r, {"received"})
Untyped(r) == ppc[r] \in {"check", "crashed", "dispatch"} \/ Counting(r, {"received"} \cup P!Type)
Requested(r) == ppc[r] = "get_file" \/ Counting(r, Outcomes)
Uploads(r) == ppc[r] = "send_file" \/ Counting(r, UploadOutcomes)
Arrivals == {r \in Receiver : Arrives(r)}
Untypeds == {r \in Receiver : Untyped(r)}
Requesteds == {r \in Receiver : Requested(r)}
Uploadings == {r \in Receiver : Uploads(r)}
Typed == {p \in P!Came : why[p] \notin {"version", "type"}}

Tally ==
    ~ raced =>
        /\ stats["received"] + Cardinality(Arrivals) = Cardinality(P!Came)
        /\ P!TypesTotal + Cardinality(Untypeds) = Cardinality(Typed)
        /\ stats["requests"] = P!SentTotal + Cardinality(Requesteds)
        /\ stats["uploads"] = P!UploadTotal + Cardinality(Uploadings)

HandleInv == HandleTypes /\ Held /\ Queued /\ Fates /\ Tally

\* What a type is counted as.
LEMMA CountsIs ==
  ASSUME config \in P!ConfigType, NEW t \in P!Type
  PROVE  /\ P!Counts(t) \in P!Type \cup {Nil}
         /\ P!Counts(t) = Nil => t \in {"none", "cerver", "client"}
         /\ P!Counts(t) \in {"game", "app", "app_error", "custom"} => t = P!Counts(t)
<1>1. config.side \in {"cerver", "client", "admin"}
  BY DEF P!ConfigType
<1>2. Nil \notin P!Type
  BY HandleConf
<1>3. CASE config.side = "cerver"
  <2>1. P!Counts(t) = P!CerverCounts(t)
    BY <1>3 DEF P!Counts
  <2>2. QED
    BY <1>2, <2>1 DEF P!CerverCounts, P!Type
<1>4. CASE config.side = "client"
  <2>1. P!Counts(t) = P!ClientCounts(t)
    BY <1>4 DEF P!Counts
  <2>2. QED
    BY <1>2, <2>1 DEF P!ClientCounts, P!Type
<1>5. CASE config.side = "admin"
  <2>1. P!Counts(t) = P!AdminCounts(t)
    BY <1>5 DEF P!Counts
  <2>2. QED
    BY <1>2, <2>1 DEF P!AdminCounts, P!Type
<1>6. QED
  BY <1>1, <1>3, <1>4, <1>5

LEMMA NextOfIs ==
  /\ NextOf("received") = "check" /\ NextOf("requests") = "get_file" /\ NextOf("uploads") = "send_file"
  /\ \A t \in P!Type : NextOf(t) = "handle"
  /\ \A c \in Outcomes \cup UploadOutcomes : NextOf(c) = "delete"
  /\ \A c \in P!Counter : NextOf(c) \in Stage \ {"idle"}
BY DEF NextOf, P!Type, Outcomes, UploadOutcomes, Stage

\* A set of which one element may come or go.
LEMMA OneChanges ==
  ASSUME NEW S, NEW T, IsFiniteSet(S), NEW x, \A y : y # x => (y \in T <=> y \in S)
  PROVE  /\ IsFiniteSet(T) /\ Cardinality(S) \in Nat /\ Cardinality(T) \in Nat
         /\ x \in S /\ x \in T => Cardinality(T) = Cardinality(S)
         /\ x \notin S /\ x \notin T => Cardinality(T) = Cardinality(S)
         /\ x \notin S /\ x \in T => Cardinality(T) = Cardinality(S) + 1
         /\ x \in S /\ x \notin T => Cardinality(T) = Cardinality(S) - 1
<1>1. CASE x \in T
  <2>1. T = S \cup {x}
    BY <1>1
  <2>2. QED
    BY <1>1, <2>1, FS_AddElement, FS_CardinalityType
<1>2. CASE x \notin T
  <2>1. T = S \ {x}
    BY <1>2
  <2>2. QED
    BY <1>2, <2>1, FS_RemoveElement, FS_CardinalityType
<1>3. QED
  BY <1>1, <1>2

LEMMA HandleFinite ==
  ASSUME HandleTypes
  PROVE  /\ IsFiniteSet(P!Came) /\ Cardinality(P!Came) \in Nat
         /\ IsFiniteSet(Typed) /\ Cardinality(Typed) \in Nat
         /\ IsFiniteSet(Arrivals) /\ IsFiniteSet(Untypeds)
         /\ IsFiniteSet(Requesteds) /\ IsFiniteSet(Uploadings)
         /\ \A c \in P!Counter : stats[c] \in Nat
<1>1. IsFiniteSet(P!Came)
  BY FS_Interval, HandleConf DEF HandleTypes
<1>2. Typed \in SUBSET P!Came
  BY DEF Typed
<1>3. IsFiniteSet(Typed)
  BY <1>1, <1>2, FS_Subset
<1>4. /\ Arrivals \in SUBSET Receiver /\ Untypeds \in SUBSET Receiver
      /\ Requesteds \in SUBSET Receiver /\ Uploadings \in SUBSET Receiver
  BY DEF Arrivals, Untypeds, Requesteds, Uploadings
<1>5. /\ IsFiniteSet(Arrivals) /\ IsFiniteSet(Untypeds)
      /\ IsFiniteSet(Requesteds) /\ IsFiniteSet(Uploadings)
  BY <1>4, FS_Subset, HandleConf
<1>6. QED
  BY <1>1, <1>3, <1>5, FS_CardinalityType DEF HandleTypes

\* A step that counts nothing.
LEMMA TallyStays ==
  ASSUME Tally, stats' = stats, raced' = raced, P!Came' = P!Came, Typed' = Typed,
         \A r \in Receiver : /\ Arrives(r)' <=> Arrives(r)
                             /\ Untyped(r)' <=> Untyped(r)
                             /\ Requested(r)' <=> Requested(r)
                             /\ Uploads(r)' <=> Uploads(r)
  PROVE  Tally'
<1>1. Arrivals' = Arrivals /\ Untypeds' = Untypeds /\ Requesteds' = Requesteds /\ Uploadings' = Uploadings
  BY DEF Arrivals, Untypeds, Requesteds, Uploadings
<1>2. P!TypesTotal' = P!TypesTotal /\ P!SentTotal' = P!SentTotal /\ P!UploadTotal' = P!UploadTotal
  BY DEF P!TypesTotal, P!SentTotal, P!UploadTotal
<1>3. QED
  BY <1>1, <1>2 DEF Tally

\* A receiver that keeps its packet.
LEMMA PacketsStay ==
  ASSUME Held, Queued, Fates, UNCHANGED <<config, type, fate, why, handling, queue, deletedTwice>>,
         \A r \in Receiver : ppc'[r] = "idle" <=> ppc[r] = "idle"
  PROVE  Held' /\ Queued' /\ Fates' /\ P!Came' = P!Came /\ Typed' = Typed
BY DEF Held, Queued, Fates, P!Came, Typed

\* A receiver that is done with its packet, and where it leaves it.
LEMMA FinishKeeps ==
  ASSUME HandleInv, NEW r \in Receiver, ppc[r] # "idle", P!Finish(r),
         NEW how \in {"lost", "users", "deleted", "queued"},
         NEW reason \in {"version", "type", "game", "handler", Nil},
         P!Dispose(handling[r], how, reason), UNCHANGED <<config, type, stats, raced>>,
         queue' = IF how = "queued" THEN Append(queue, handling[r]) ELSE queue,
         how # "lost" => reason = Nil, how = "users" => ~ config.delete,
         how = "lost" /\ ~ config.check =>
             type[handling[r]] \notin {"error", "request", "auth", "test", "bad"}
  PROVE  /\ HandleTypes' /\ Held' /\ Queued' /\ Fates' /\ P!Came' = P!Came
         /\ Typed' = IF reason \in {"version", "type"} THEN Typed \ {handling[r]} ELSE Typed
         /\ handling[r] \in Typed
         /\ \A q \in Receiver : q # r => ppc'[q] = ppc[q] /\ counter'[q] = counter[q]
         /\ ppc'[r] = "idle"
<1> DEFINE p == handling[r]
<1>1. HandleTypes /\ Held /\ Queued /\ Fates
  BY DEF HandleInv
<1>2. p \in P!Packet /\ fate[p] = "held" /\ why[p] = Nil /\ type[p] \in P!Type
  BY <1>1 DEF Held, Fates
<1>3. /\ ppc' = [ppc EXCEPT ![r] = "idle"] /\ handling' = [handling EXCEPT ![r] = Nil]
      /\ UNCHANGED <<counter, read, next>>
  BY DEF P!Finish, P!Goto
<1>4. /\ fate' = [fate EXCEPT ![p] = how] /\ why' = [why EXCEPT ![p] = reason]
      /\ deletedTwice' = (deletedTwice \/ (how = "deleted" /\ fate[p] = "deleted"))
  BY DEF P!Dispose
<1> HIDE DEF p
<1>5. /\ ppc'[r] = "idle" /\ \A q \in Receiver : q # r => ppc'[q] = ppc[q] /\ handling'[q] = handling[q]
      /\ fate'[p] = how /\ why'[p] = reason
      /\ \A o \in P!Packet : o # p => fate'[o] = fate[o] /\ why'[o] = why[o]
  BY <1>1, <1>2, <1>3, <1>4 DEF HandleTypes
<1>6. P!Came' = P!Came /\ p \in P!Came
  BY <1>2, <1>5 DEF P!Came
<1>7. Typed' = (IF reason \in {"version", "type"} THEN Typed \ {p} ELSE Typed) /\ p \in Typed
  BY <1>2, <1>5, <1>6, HandleConf DEF Typed, P!Came
<1>8. /\ queue' \in Seq(P!Packet) /\ Len(queue) \in Nat /\ queue \in Seq(P!Packet)
      /\ how # "queued" => queue' = queue
      /\ how = "queued" => /\ Len(queue') = Len(queue) + 1 /\ queue'[Len(queue) + 1] = p
                           /\ \A i \in 1 .. Len(queue) : queue'[i] = queue[i]
  <2>1. queue \in Seq(P!Packet) /\ Len(queue) \in Nat
    BY <1>1 DEF HandleTypes
  <2>2. /\ Append(queue, p) \in Seq(P!Packet) /\ Len(Append(queue, p)) = Len(queue) + 1
        /\ Append(queue, p)[Len(queue) + 1] = p
        /\ \A i \in 1 .. Len(queue) : Append(queue, p)[i] = queue[i]
    BY <1>2, <2>1
  <2>3. QED
    BY <2>1, <2>2 DEF p
<1>9. HandleTypes'
  <2>1. ppc' \in [Receiver -> Stage] /\ handling' \in [Receiver -> P!Packet \cup {Nil}]
    BY <1>1, <1>3 DEF HandleTypes, Stage
  <2>2. fate' \in [P!Packet -> {"coming", "held", "queued", "deleted", "users", "lost"}]
    BY <1>1, <1>4 DEF HandleTypes
  <2>3. why' \in [P!Packet -> {"version", "type", "game", "handler", Nil}]
    BY <1>1, <1>4 DEF HandleTypes
  <2>4. \A q \in Receiver :
           ppc'[q] \in {"load", "store"} => counter'[q] \in P!Counter /\ next'[q] = NextOf(counter'[q])
    BY <1>1, <1>3, <1>5 DEF HandleTypes
  <2>5. QED
    BY <1>1, <1>3, <1>6, <1>8, <2>1, <2>2, <2>3, <2>4 DEF HandleTypes
<1>10. \A q \in Receiver : q # r /\ ppc[q] # "idle" => handling[q] # p
  BY <1>1 DEF Held, p
<1>11. Held'
  <2>1. \A q \in Receiver : ppc'[q] # "idle" =>
            /\ q # r /\ ppc[q] # "idle" /\ handling'[q] = handling[q] /\ handling[q] # p
            /\ handling[q] \in P!Packet /\ fate'[handling[q]] = "held"
    BY <1>1, <1>5, <1>10 DEF Held
  <2>2. ASSUME NEW o \in P!Packet, fate'[o] = "held"
        PROVE  \E q \in Receiver : ppc'[q] # "idle" /\ handling'[q] = o
    <3>1. o # p /\ fate[o] = "held"
      BY <1>5, <2>2
    <3>2. PICK q \in Receiver : ppc[q] # "idle" /\ handling[q] = o
      BY <1>1, <3>1 DEF Held
    <3>3. QED
      BY <1>5, <3>1, <3>2 DEF p
  <2>3. QED
    BY <1>1, <2>1, <2>2 DEF Held
<1>12. Queued'
  <2>1. \A i \in 1 .. Len(queue) : queue[i] \in P!Packet /\ queue[i] # p /\ fate'[queue[i]] = "queued"
    BY <1>1, <1>2, <1>5, <1>8 DEF Queued
  <2>2. CASE how # "queued"
    <3>1. \A o \in P!Packet : fate'[o] = "queued" => fate[o] = "queued"
      BY <1>5, <2>2
    <3>2. QED
      BY <1>1, <1>8, <2>1, <2>2, <3>1 DEF Queued
  <2>3. CASE how = "queued"
    <3>1. \A i \in 1 .. Len(queue') :
              \/ i \in 1 .. Len(queue) /\ queue'[i] = queue[i]
              \/ i = Len(queue) + 1 /\ queue'[i] = p
      BY <1>8, <2>3
    <3>2. \A i \in 1 .. Len(queue') : fate'[queue'[i]] = "queued"
      BY <1>5, <2>1, <2>3, <3>1
    <3>3. \A i, j \in 1 .. Len(queue') : queue'[i] = queue'[j] => i = j
      BY <1>1, <2>1, <3>1 DEF Queued
    <3>4. ASSUME NEW o \in P!Packet, fate'[o] = "queued"
          PROVE  \E i \in 1 .. Len(queue') : queue'[i] = o
      <4>1. CASE o = p
        <5>1. Len(queue) + 1 \in 1 .. Len(queue')
          BY <1>8, <2>3
        <5>2. QED
          BY <1>8, <2>3, <4>1, <5>1
      <4>2. CASE o # p
        <5>1. PICK i \in 1 .. Len(queue) : queue[i] = o
          BY <1>1, <1>5, <3>4, <4>2 DEF Queued
        <5>2. i \in 1 .. Len(queue')
          BY <1>8, <2>3
        <5>3. QED
          BY <1>8, <2>3, <5>1, <5>2
      <4>3. QED
        BY <4>1, <4>2
    <3>5. QED
      BY <3>2, <3>3, <3>4 DEF Queued
  <2>4. QED
    BY <2>2, <2>3
<1>13. Fates'
  <2>1. ~ deletedTwice'
    BY <1>1, <1>2, <1>4 DEF Fates
  <2>2. \A o \in P!Packet : o # p => /\ fate'[o] = fate[o] /\ why'[o] = why[o] /\ type'[o] = type[o]
    BY <1>5
  <2>3. QED
    BY <1>1, <1>2, <1>5, <2>1, <2>2 DEF Fates, p
<1>14. QED
  BY <1>3, <1>5, <1>6, <1>7, <1>9, <1>11, <1>12, <1>13 DEF p

LEMMA TotalsAre ==
  ASSUME stats \in [P!Counter -> Nat]
  PROVE  P!TypesTotal \in Nat /\ P!SentTotal \in Nat /\ P!UploadTotal \in Nat
<1>1. \A c \in P!Type \cup P!FileCounter : c \in P!Counter /\ stats[c] \in Nat
  BY DEF P!Counter
<1>2. QED
  BY <1>1 DEF P!TypesTotal, P!SentTotal, P!UploadTotal, P!Type, P!FileCounter

\* The stages at which a packet is disposed of, and the reasons.
LEMMA Finishes ==
  ASSUME HandleInv, NEW r \in Receiver, ppc[r] \in {"check", "dispatch", "handle", "delete"}, P!Finish(r),
         NEW how \in {"lost", "users", "deleted", "queued"},
         NEW reason \in {"version", "type", "game", "handler", Nil},
         P!Dispose(handling[r], how, reason), UNCHANGED <<config, type, stats, raced>>,
         queue' = IF how = "queued" THEN Append(queue, handling[r]) ELSE queue,
         how # "lost" => reason = Nil, how = "users" => ~ config.delete,
         how = "lost" /\ ~ config.check =>
             type[handling[r]] \notin {"error", "request", "auth", "test", "bad"},
         reason \in {"version", "type"} <=> ppc[r] \in {"check", "dispatch"}
  PROVE  HandleInv'
<1> DEFINE uncounted == ppc[r] \in {"check", "dispatch"}
<1>1. /\ HandleTypes' /\ Held' /\ Queued' /\ Fates' /\ P!Came' = P!Came
      /\ Typed' = IF reason \in {"version", "type"} THEN Typed \ {handling[r]} ELSE Typed
      /\ handling[r] \in Typed
      /\ \A q \in Receiver : q # r => ppc'[q] = ppc[q] /\ counter'[q] = counter[q]
      /\ ppc'[r] = "idle"
  BY FinishKeeps
<1>2. HandleTypes /\ Tally
  BY DEF HandleInv
<1>3. /\ \A q \in Receiver : q # r => /\ Arrives(q)' <=> Arrives(q)
                                      /\ Untyped(q)' <=> Untyped(q)
                                      /\ Requested(q)' <=> Requested(q)
                                      /\ Uploads(q)' <=> Uploads(q)
      /\ ~ Arrives(r) /\ ~ Requested(r) /\ ~ Uploads(r) /\ (Untyped(r) <=> uncounted)
      /\ ~ Arrives(r)' /\ ~ Requested(r)' /\ ~ Uploads(r)' /\ ~ Untyped(r)'
  BY <1>1 DEF Arrives, Untyped, Requested, Uploads, Counting
<1>4. CASE ~ uncounted
  <2>1. Typed' = Typed
    BY <1>1, <1>4
  <2>2. QED
    BY <1>1, <1>2, <1>3, <1>4, <2>1, TallyStays DEF HandleInv
<1>5. CASE uncounted
  <2>1. Cardinality(Typed') = Cardinality(Typed) - 1
    <3>1. Typed' = Typed \ {handling[r]}
      BY <1>1, <1>5
    <3>2. QED
      BY <1>1, <1>2, <3>1, HandleFinite, FS_RemoveElement
  <2>2. Arrivals' = Arrivals /\ Requesteds' = Requesteds /\ Uploadings' = Uploadings
    BY <1>3 DEF Arrivals, Requesteds, Uploadings
  <2>3. Cardinality(Untypeds') = Cardinality(Untypeds) - 1 /\ Cardinality(Untypeds) \in Nat
    <3>1. r \in Untypeds /\ r \notin Untypeds' /\ \A y : y # r => (y \in Untypeds' <=> y \in Untypeds)
      BY <1>3, <1>5 DEF Untypeds
    <3>2. IsFiniteSet(Untypeds)
      BY <1>2, HandleFinite
    <3>3. QED
      BY <3>1, <3>2, OneChanges
  <2>4. P!TypesTotal' = P!TypesTotal /\ P!SentTotal' = P!SentTotal /\ P!UploadTotal' = P!UploadTotal
    BY DEF P!TypesTotal, P!SentTotal, P!UploadTotal
  <2>5. P!TypesTotal \in Nat
    BY <1>2, TotalsAre DEF HandleTypes
  <2>6. ASSUME ~ raced, P!TypesTotal + Cardinality(Untypeds) = Cardinality(Typed)
        PROVE  P!TypesTotal + Cardinality(Untypeds') = Cardinality(Typed')
    BY <1>2, <2>1, <2>3, <2>5, <2>6, HandleFinite
  <2>7. Tally'
    BY <1>1, <1>2, <2>2, <2>4, <2>6 DEF Tally
  <2>8. QED
    BY <1>1, <2>7 DEF HandleInv
<1>6. QED
  BY <1>4, <1>5

\* A receiver goes on with its packet.
LEMMA StageKeeps ==
  ASSUME HandleInv, NEW r \in Receiver, ppc[r] # "idle", NEW stage \in Stage \ {"idle"}, P!Goto(r, stage),
         UNCHANGED <<config, type, fate, why, handling, queue, deletedTwice>>
  PROVE  /\ Held' /\ Queued' /\ Fates' /\ P!Came' = P!Came /\ Typed' = Typed
         /\ ppc' \in [Receiver -> Stage] /\ ppc'[r] = stage
         /\ \A q \in Receiver : q # r => ppc'[q] = ppc[q]
<1>1. HandleTypes /\ Held /\ Queued /\ Fates
  BY DEF HandleInv
<1>2. ppc' \in [Receiver -> Stage] /\ ppc'[r] = stage /\ \A q \in Receiver : q # r => ppc'[q] = ppc[q]
  BY <1>1 DEF P!Goto, HandleTypes
<1>3. \A q \in Receiver : ppc'[q] = "idle" <=> ppc[q] = "idle"
  BY <1>2
<1>4. QED
  BY <1>1, <1>2, <1>3, PacketsStay

LEMMA MovesKeep ==
  ASSUME HandleInv, NEW r \in Receiver, NEW from, NEW to, P!Moves(r, from, to),
         (from = "check" /\ to \in {"dispatch", "crashed"}) \/ (from = "handle" /\ to = "delete"),
         UNCHANGED <<config, type, fate, why, queue, deletedTwice, stats, raced>>
  PROVE  HandleInv'
<1>1. HandleTypes /\ Tally
  BY DEF HandleInv
<1>2. ppc[r] = from /\ P!Goto(r, to) /\ UNCHANGED <<handling, counter, read, next>> /\ to \in Stage \ {"idle"}
  BY DEF P!Moves, P!At, Stage
<1>3. /\ Held' /\ Queued' /\ Fates' /\ P!Came' = P!Came /\ Typed' = Typed
      /\ ppc' \in [Receiver -> Stage] /\ ppc'[r] = to
      /\ \A q \in Receiver : q # r => ppc'[q] = ppc[q]
  BY <1>2, StageKeeps
<1>4. HandleTypes'
  <2>1. \A q \in Receiver : ppc'[q] \in {"load", "store"} => ppc[q] \in {"load", "store"}
    BY <1>3
  <2>2. QED
    BY <1>1, <1>2, <1>3, <2>1 DEF HandleTypes
<1>5. \A q \in Receiver : /\ Arrives(q)' <=> Arrives(q)
                          /\ Untyped(q)' <=> Untyped(q)
                          /\ Requested(q)' <=> Requested(q)
                          /\ Uploads(q)' <=> Uploads(q)
  BY <1>2, <1>3 DEF Arrives, Untyped, Requested, Uploads, Counting
<1>6. QED
  BY <1>1, <1>3, <1>4, <1>5, TallyStays DEF HandleInv

LEMMA IncrementKeeps ==
  ASSUME HandleInv, NEW r \in Receiver, NEW c, NEW stage, P!Increment(r, c, stage),
         \/ ppc[r] = "dispatch" /\ c \in P!Type /\ stage = "handle"
         \/ ppc[r] = "handle" /\ c = "requests" /\ stage = "get_file"
         \/ ppc[r] = "handle" /\ c = "uploads" /\ stage = "send_file"
         \/ ppc[r] = "get_file" /\ c \in Outcomes /\ stage = "delete"
         \/ ppc[r] = "send_file" /\ c \in UploadOutcomes /\ stage = "delete",
         UNCHANGED <<config, type, fate, why, handling, queue, deletedTwice, stats, raced>>
  PROVE  HandleInv'
<1>1. HandleTypes /\ Tally
  BY DEF HandleInv
<1>2. /\ P!Goto(r, "load") /\ counter' = [counter EXCEPT ![r] = c] /\ next' = [next EXCEPT ![r] = stage]
      /\ read' = read /\ "load" \in Stage \ {"idle"}
  BY DEF P!Increment, Stage
<1>3. /\ Held' /\ Queued' /\ Fates' /\ P!Came' = P!Came /\ Typed' = Typed
      /\ ppc' \in [Receiver -> Stage] /\ ppc'[r] = "load"
      /\ \A q \in Receiver : q # r => ppc'[q] = ppc[q]
  BY <1>2, StageKeeps
<1>4. c \in P!Counter /\ stage = NextOf(c) /\ stage \in Stage
  BY NextOfIs DEF P!Counter, P!FileCounter, Outcomes, UploadOutcomes
<1>5. /\ counter' \in [Receiver -> P!Counter \cup {Nil}] /\ next' \in [Receiver -> Stage \cup {Nil}]
      /\ counter'[r] = c /\ next'[r] = stage
      /\ \A q \in Receiver : q # r => counter'[q] = counter[q] /\ next'[q] = next[q]
  BY <1>1, <1>2, <1>4 DEF HandleTypes
<1>6. HandleTypes'
  <2>1. \A q \in Receiver :
           ppc'[q] \in {"load", "store"} => counter'[q] \in P!Counter /\ next'[q] = NextOf(counter'[q])
    BY <1>1, <1>3, <1>4, <1>5 DEF HandleTypes
  <2>2. QED
    BY <1>1, <1>2, <1>3, <1>5, <2>1 DEF HandleTypes
<1>7. \A q \in Receiver : /\ Arrives(q)' <=> Arrives(q)
                          /\ Untyped(q)' <=> Untyped(q)
                          /\ Requested(q)' <=> Requested(q)
                          /\ Uploads(q)' <=> Uploads(q)
  <2>1. /\ Arrives(r)' <=> Arrives(r)
        /\ Untyped(r)' <=> Untyped(r)
        /\ Requested(r)' <=> Requested(r)
        /\ Uploads(r)' <=> Uploads(r)
    BY <1>3, <1>5 DEF Arrives, Untyped, Requested, Uploads, Counting, P!Type, Outcomes, UploadOutcomes
  <2>2. QED
    BY <1>3, <1>5, <2>1 DEF Arrives, Untyped, Requested, Uploads, Counting
<1>8. QED
  BY <1>1, <1>3, <1>6, <1>7, TallyStays DEF HandleInv

LEMMA LoadKeeps ==
  ASSUME HandleInv, NEW r \in Receiver, P!Load(r)
  PROVE  HandleInv'
<1>1. HandleTypes /\ Tally
  BY DEF HandleInv
<1>2. /\ ppc[r] = "load" /\ P!Goto(r, "store") /\ read' = [read EXCEPT ![r] = stats[counter[r]]]
      /\ UNCHANGED <<config, handling, counter, next, type, fate, why, queue, deletedTwice, stats, raced>>
      /\ "store" \in Stage \ {"idle"}
  BY DEF P!Load, P!At, P!packets, Stage
<1>3. /\ Held' /\ Queued' /\ Fates' /\ P!Came' = P!Came /\ Typed' = Typed
      /\ ppc' \in [Receiver -> Stage] /\ ppc'[r] = "store"
      /\ \A q \in Receiver : q # r => ppc'[q] = ppc[q]
  BY <1>2, StageKeeps
<1>4. HandleTypes'
  <2>1. stats[counter[r]] \in Nat
    BY <1>1, <1>2 DEF HandleTypes
  <2>2. read' \in [Receiver -> Nat]
    BY <1>1, <1>2, <2>1 DEF HandleTypes
  <2>3. \A q \in Receiver : ppc'[q] \in {"load", "store"} => ppc[q] \in {"load", "store"}
    BY <1>2, <1>3
  <2>4. QED
    BY <1>1, <1>2, <1>3, <2>2, <2>3 DEF HandleTypes
<1>5. \A q \in Receiver : /\ Arrives(q)' <=> Arrives(q)
                          /\ Untyped(q)' <=> Untyped(q)
                          /\ Requested(q)' <=> Requested(q)
                          /\ Uploads(q)' <=> Uploads(q)
  BY <1>2, <1>3 DEF Arrives, Untyped, Requested, Uploads, Counting
<1>6. QED
  BY <1>1, <1>2, <1>3, <1>4, <1>5, TallyStays DEF HandleInv

\* One more in a counter.
LEMMA SumsGrow ==
  ASSUME stats \in [P!Counter -> Nat], NEW c \in P!Counter, stats' = [stats EXCEPT ![c] = stats[c] + 1]
  PROVE  /\ P!TypesTotal \in Nat /\ P!SentTotal \in Nat /\ P!UploadTotal \in Nat
         /\ stats["received"] \in Nat /\ stats["requests"] \in Nat /\ stats["uploads"] \in Nat
         /\ c \in P!Type => P!TypesTotal' = P!TypesTotal + 1
         /\ c \notin P!Type => P!TypesTotal' = P!TypesTotal
         /\ c \in Outcomes => P!SentTotal' = P!SentTotal + 1
         /\ c \notin Outcomes => P!SentTotal' = P!SentTotal
         /\ c \in UploadOutcomes => P!UploadTotal' = P!UploadTotal + 1
         /\ c \notin UploadOutcomes => P!UploadTotal' = P!UploadTotal
         /\ \A k \in {"received", "requests", "uploads"} :
                stats'[k] = IF c = k THEN stats[k] + 1 ELSE stats[k]
<1>1. /\ \A t \in P!Type : t \in P!Counter /\ stats[t] \in Nat /\ stats'[t] = IF c = t THEN stats[t] + 1 ELSE stats[t]
      /\ \A t \in P!FileCounter \cup {"received"} :
             t \in P!Counter /\ stats[t] \in Nat /\ stats'[t] = IF c = t THEN stats[t] + 1 ELSE stats[t]
  BY DEF P!Counter
<1>2. P!TypesTotal \in Nat /\ P!SentTotal \in Nat /\ P!UploadTotal \in Nat
  BY TotalsAre
<1>3. c \in P!Type => P!TypesTotal' = P!TypesTotal + 1
  BY <1>1, SMTT(60) DEF P!TypesTotal, P!Type
<1>4. c \notin P!Type => P!TypesTotal' = P!TypesTotal
  BY <1>1 DEF P!TypesTotal, P!Type
<1>5. /\ c \in Outcomes => P!SentTotal' = P!SentTotal + 1
      /\ c \notin Outcomes => P!SentTotal' = P!SentTotal
  BY <1>1 DEF P!SentTotal, Outcomes, P!FileCounter
<1>6. /\ c \in UploadOutcomes => P!UploadTotal' = P!UploadTotal + 1
      /\ c \notin UploadOutcomes => P!UploadTotal' = P!UploadTotal
  BY <1>1 DEF P!UploadTotal, UploadOutcomes, P!FileCounter
<1>7. /\ \A k \in {"received", "requests", "uploads"} :
             stats[k] \in Nat /\ stats'[k] = IF c = k THEN stats[k] + 1 ELSE stats[k]
  BY <1>1 DEF P!FileCounter
<1>8. QED
  BY <1>2, <1>3, <1>4, <1>5, <1>6, <1>7

\* What was read is what is in the counter, or the increment is lost.
LEMMA StoreKeeps ==
  ASSUME HandleInv, NEW r \in Receiver, P!Store(r)
  PROVE  HandleInv'
<1> DEFINE c == counter[r]
<1>1. HandleTypes /\ Tally
  BY DEF HandleInv
<1>2. /\ ppc[r] = "store" /\ P!Goto(r, next[r]) /\ read' = [read EXCEPT ![r] = 0]
      /\ stats' = [stats EXCEPT ![c] = read[r] + 1]
      /\ raced' = (raced \/ stats[c] # read[r])
      /\ UNCHANGED <<config, handling, counter, next, type, fate, why, queue, deletedTwice>>
  BY DEF P!Store, P!At, P!packets
<1>3. c \in P!Counter /\ next[r] = NextOf(c) /\ next[r] \in Stage \ {"idle"}
  BY <1>1, <1>2, NextOfIs DEF HandleTypes
<1>4. /\ Held' /\ Queued' /\ Fates' /\ P!Came' = P!Came /\ Typed' = Typed
      /\ ppc' \in [Receiver -> Stage] /\ ppc'[r] = NextOf(c)
      /\ \A q \in Receiver : q # r => ppc'[q] = ppc[q]
  BY <1>2, <1>3, StageKeeps
<1> HIDE DEF c
<1>5. NextOf(c) \notin {"load", "store"}
  BY DEF NextOf
<1>6. HandleTypes'
  <2>1. read[r] \in Nat
    BY <1>1 DEF HandleTypes
  <2>2. stats' \in [P!Counter -> Nat] /\ read' \in [Receiver -> Nat]
    <3>1. read[r] + 1 \in Nat /\ 0 \in Nat
      BY <2>1
    <3>2. stats \in [P!Counter -> Nat] /\ read \in [Receiver -> Nat]
      BY <1>1 DEF HandleTypes
    <3>3. QED
      BY <1>2, <3>1, <3>2
  <2>3. \A q \in Receiver : ppc'[q] \in {"load", "store"} => ppc[q] \in {"load", "store"}
    BY <1>4, <1>5
  <2>4. raced' \in BOOLEAN
    BY <1>2
  <2>5. QED
    BY <1>1, <1>2, <1>4, <2>2, <2>3, <2>4 DEF HandleTypes
<1>7. \A q \in Receiver : q # r => /\ Arrives(q)' <=> Arrives(q)
                                   /\ Untyped(q)' <=> Untyped(q)
                                   /\ Requested(q)' <=> Requested(q)
                                   /\ Uploads(q)' <=> Uploads(q)
  BY <1>2, <1>4 DEF Arrives, Untyped, Requested, Uploads, Counting
<1>8. /\ Arrives(r) <=> c = "received"
      /\ Untyped(r) <=> c \in {"received"} \cup P!Type
      /\ Requested(r) <=> c \in Outcomes
      /\ Uploads(r) <=> c \in UploadOutcomes
  BY <1>2 DEF Arrives, Untyped, Requested, Uploads, Counting, c
<1>9. /\ ~ Arrives(r)' /\ (Untyped(r)' <=> c = "received")
      /\ Requested(r)' <=> c = "requests"
      /\ Uploads(r)' <=> c = "uploads"
  <2>1. ~ Arrives(r)' /\ (Untyped(r)' <=> NextOf(c) = "check")
        /\ (Requested(r)' <=> NextOf(c) = "get_file") /\ (Uploads(r)' <=> NextOf(c) = "send_file")
    <3>1. NextOf(c) \notin {"dispatch", "crashed"}
      BY DEF NextOf
    <3>2. QED
      BY <1>4, <1>5, <3>1 DEF Arrives, Untyped, Requested, Uploads, Counting
  <2>2. /\ NextOf(c) = "check" <=> c = "received"
        /\ NextOf(c) = "get_file" <=> c = "requests"
        /\ NextOf(c) = "send_file" <=> c = "uploads"
    <3>1. CASE c = "received"
      BY <3>1 DEF NextOf, P!Type
    <3>2. CASE c \in P!Type
      BY <3>2 DEF NextOf, P!Type
    <3>3. CASE c \in {"requests", "uploads"}
      BY <3>3 DEF NextOf, P!Type
    <3>4. CASE c \notin P!Type \cup {"received", "requests", "uploads"}
      BY <3>4 DEF NextOf
    <3>5. QED
      BY <3>1, <3>2, <3>3, <3>4
  <2>3. QED
    BY <2>1, <2>2
<1>10. Tally'
  <2> SUFFICES ASSUME ~ raced'
               PROVE  /\ stats'["received"] + Cardinality(Arrivals') = Cardinality(P!Came)
                      /\ P!TypesTotal' + Cardinality(Untypeds') = Cardinality(Typed)
                      /\ stats'["requests"] = P!SentTotal' + Cardinality(Requesteds')
                      /\ stats'["uploads"] = P!UploadTotal' + Cardinality(Uploadings')
    BY <1>4 DEF Tally
  <2>1. ~ raced /\ stats' = [stats EXCEPT ![c] = stats[c] + 1]
    BY <1>2
  <2>2. /\ stats["received"] + Cardinality(Arrivals) = Cardinality(P!Came)
        /\ P!TypesTotal + Cardinality(Untypeds) = Cardinality(Typed)
        /\ stats["requests"] = P!SentTotal + Cardinality(Requesteds)
        /\ stats["uploads"] = P!UploadTotal + Cardinality(Uploadings)
    BY <1>1, <2>1 DEF Tally
  <2>3. /\ P!TypesTotal \in Nat /\ P!SentTotal \in Nat /\ P!UploadTotal \in Nat
        /\ stats["received"] \in Nat /\ stats["requests"] \in Nat /\ stats["uploads"] \in Nat
        /\ c \in P!Type => P!TypesTotal' = P!TypesTotal + 1
        /\ c \notin P!Type => P!TypesTotal' = P!TypesTotal
        /\ c \in Outcomes => P!SentTotal' = P!SentTotal + 1
        /\ c \notin Outcomes => P!SentTotal' = P!SentTotal
        /\ c \in UploadOutcomes => P!UploadTotal' = P!UploadTotal + 1
        /\ c \notin UploadOutcomes => P!UploadTotal' = P!UploadTotal
        /\ \A k \in {"received", "requests", "uploads"} :
               stats'[k] = IF c = k THEN stats[k] + 1 ELSE stats[k]
    BY <1>1, <1>3, <2>1, SumsGrow DEF HandleTypes
  <2>4. IsFiniteSet(Arrivals) /\ IsFiniteSet(Untypeds) /\ IsFiniteSet(Requesteds) /\ IsFiniteSet(Uploadings)
    BY <1>1, HandleFinite
  <2>5. stats'["received"] + Cardinality(Arrivals') = Cardinality(P!Came)
    <3>1. /\ r \notin Arrivals' /\ (r \in Arrivals <=> c = "received")
          /\ \A y : y # r => (y \in Arrivals' <=> y \in Arrivals)
      BY <1>7, <1>8, <1>9 DEF Arrivals
    <3>2. /\ Cardinality(Arrivals) \in Nat /\ Cardinality(Arrivals') \in Nat
          /\ c = "received" => Cardinality(Arrivals') = Cardinality(Arrivals) - 1
          /\ c # "received" => Cardinality(Arrivals') = Cardinality(Arrivals)
      BY <2>4, <3>1, OneChanges
    <3>3. QED
      BY <2>2, <2>3, <3>2
  <2>6. P!TypesTotal' + Cardinality(Untypeds') = Cardinality(Typed)
    <3>1. /\ r \in Untypeds' <=> c = "received"
          /\ r \in Untypeds <=> c \in {"received"} \cup P!Type
          /\ \A y : y # r => (y \in Untypeds' <=> y \in Untypeds)
      BY <1>7, <1>8, <1>9 DEF Untypeds
    <3>2. "received" \notin P!Type
      BY DEF P!Type
    <3>3. /\ Cardinality(Untypeds) \in Nat /\ Cardinality(Untypeds') \in Nat
          /\ c \in P!Type => Cardinality(Untypeds') = Cardinality(Untypeds) - 1
          /\ c \notin P!Type => Cardinality(Untypeds') = Cardinality(Untypeds)
      BY <2>4, <3>1, <3>2, OneChanges
    <3>4. QED
      BY <2>2, <2>3, <3>3
  <2>7. stats'["requests"] = P!SentTotal' + Cardinality(Requesteds')
    <3>1. /\ r \in Requesteds' <=> c = "requests"
          /\ r \in Requesteds <=> c \in Outcomes
          /\ \A y : y # r => (y \in Requesteds' <=> y \in Requesteds)
      BY <1>7, <1>8, <1>9 DEF Requesteds
    <3>2. "requests" \notin Outcomes
      BY DEF Outcomes
    <3>3. /\ Cardinality(Requesteds) \in Nat /\ Cardinality(Requesteds') \in Nat
          /\ c \in Outcomes => Cardinality(Requesteds') = Cardinality(Requesteds) - 1
          /\ c = "requests" => Cardinality(Requesteds') = Cardinality(Requesteds) + 1
          /\ c \notin Outcomes /\ c # "requests" => Cardinality(Requesteds') = Cardinality(Requesteds)
      BY <2>4, <3>1, <3>2, OneChanges
    <3>4. QED
      BY <2>2, <2>3, <3>2, <3>3
  <2>8. stats'["uploads"] = P!UploadTotal' + Cardinality(Uploadings')
    <3>1. /\ r \in Uploadings' <=> c = "uploads"
          /\ r \in Uploadings <=> c \in UploadOutcomes
          /\ \A y : y # r => (y \in Uploadings' <=> y \in Uploadings)
      BY <1>7, <1>8, <1>9 DEF Uploadings
    <3>2. "uploads" \notin UploadOutcomes
      BY DEF UploadOutcomes
    <3>3. /\ Cardinality(Uploadings) \in Nat /\ Cardinality(Uploadings') \in Nat
          /\ c \in UploadOutcomes => Cardinality(Uploadings') = Cardinality(Uploadings) - 1
          /\ c = "uploads" => Cardinality(Uploadings') = Cardinality(Uploadings) + 1
          /\ c \notin UploadOutcomes /\ c # "uploads" => Cardinality(Uploadings') = Cardinality(Uploadings)
      BY <2>4, <3>1, <3>2, OneChanges
    <3>4. QED
      BY <2>2, <2>3, <3>2, <3>3
  <2>9. QED
    BY <2>5, <2>6, <2>7, <2>8
<1>11. QED
  BY <1>4, <1>6, <1>10 DEF HandleInv

LEMMA PacketComes ==
  ASSUME HandleInv, NEW r \in Receiver, P!Receive(r)
  PROVE  HandleInv'
<1>1. HandleTypes /\ Held /\ Queued /\ Fates /\ Tally
  BY DEF HandleInv
<1>2. /\ ppc[r] = "idle" /\ P!Increment(r, "received", "check")
      /\ UNCHANGED <<config, why, queue, deletedTwice, stats, raced>>
  BY DEF P!Receive, P!At
<1>3. PICK p \in P!Packet, t \in Arriving :
        /\ p = Cardinality(P!Came) + 1
        /\ type' = [type EXCEPT ![p] = t] /\ fate' = [fate EXCEPT ![p] = "held"]
        /\ handling' = [handling EXCEPT ![r] = p]
  BY CardinalityIs DEF P!Receive
<1>4. PICK k \in 0 .. NPackets : P!Came = 1 .. k
  BY <1>1 DEF HandleTypes
<1>5. Cardinality(P!Came) = k /\ p = k + 1 /\ k \in Nat /\ t \in P!Type
  BY <1>3, <1>4, FS_Interval, HandleConf
<1>6. p \notin P!Came /\ fate[p] = "coming" /\ why[p] = Nil /\ Nil \notin {"version", "type"}
  <2>1. p \notin P!Came
    BY <1>4, <1>5
  <2>2. fate[p] = "coming"
    BY <1>3, <2>1 DEF P!Came
  <2>3. QED
    BY <1>1, <2>1, <2>2, HandleConf DEF Fates
<1>7. /\ ppc' = [ppc EXCEPT ![r] = "load"] /\ counter' = [counter EXCEPT ![r] = "received"]
      /\ next' = [next EXCEPT ![r] = "check"] /\ read' = read
  BY <1>2 DEF P!Increment, P!Goto
<1>8. /\ ppc'[r] = "load" /\ counter'[r] = "received" /\ next'[r] = "check" /\ handling'[r] = p
      /\ \A q \in Receiver : q # r => /\ ppc'[q] = ppc[q] /\ counter'[q] = counter[q]
                                       /\ next'[q] = next[q] /\ handling'[q] = handling[q]
      /\ fate'[p] = "held" /\ type'[p] = t
      /\ \A o \in P!Packet : o # p => fate'[o] = fate[o] /\ type'[o] = type[o]
  BY <1>1, <1>3, <1>7, NextOfIs DEF HandleTypes, P!Counter
<1>9. P!Came' = P!Came \cup {p} /\ Typed' = Typed \cup {p} /\ p \notin Typed
  <2>1. P!Came' = P!Came \cup {p}
    BY <1>3, <1>8 DEF P!Came
  <2>2. QED
    BY <1>2, <1>6, <2>1 DEF Typed
<1>10. HandleTypes'
  <2>1. /\ ppc' \in [Receiver -> Stage] /\ handling' \in [Receiver -> P!Packet \cup {Nil}]
        /\ counter' \in [Receiver -> P!Counter \cup {Nil}] /\ next' \in [Receiver -> Stage \cup {Nil}]
    BY <1>1, <1>3, <1>7 DEF HandleTypes, Stage, P!Counter
  <2>2. type' \in [P!Packet -> P!Type \cup {Nil}]
    BY <1>1, <1>3, <1>5 DEF HandleTypes
  <2>3. fate' \in [P!Packet -> {"coming", "held", "queued", "deleted", "users", "lost"}]
    BY <1>1, <1>3 DEF HandleTypes
  <2>4. \A q \in Receiver :
           ppc'[q] \in {"load", "store"} => counter'[q] \in P!Counter /\ next'[q] = NextOf(counter'[q])
    BY <1>1, <1>8, NextOfIs DEF HandleTypes, P!Counter
  <2>5. k + 1 \in 0 .. NPackets /\ P!Came' = 1 .. k + 1
    BY <1>3, <1>4, <1>5, <1>9, HandleConf DEF P!Packet
  <2>6. QED
    BY <1>1, <1>2, <1>7, <2>1, <2>2, <2>3, <2>4, <2>5 DEF HandleTypes
<1>11. \A q \in Receiver : ppc[q] # "idle" => handling[q] # p /\ q # r
  BY <1>1, <1>2, <1>6 DEF Held
<1>12. Held'
  <2>1. \A q \in Receiver : ppc'[q] # "idle" => handling'[q] \in P!Packet /\ fate'[handling'[q]] = "held"
    BY <1>1, <1>8, <1>11 DEF Held
  <2>2. \A q, o \in Receiver : ppc'[q] # "idle" /\ ppc'[o] # "idle" /\ handling'[q] = handling'[o] => q = o
    BY <1>1, <1>8, <1>11 DEF Held
  <2>3. \A o \in P!Packet : fate'[o] = "held" => \E q \in Receiver : ppc'[q] # "idle" /\ handling'[q] = o
    BY <1>1, <1>8, <1>11 DEF Held
  <2>4. QED
    BY <2>1, <2>2, <2>3 DEF Held
<1>13. Queued'
  <2>1. \A i \in 1 .. Len(queue) : queue[i] \in P!Packet /\ queue[i] # p
    BY <1>1, <1>6 DEF Queued, HandleTypes
  <2>2. QED
    BY <1>1, <1>2, <1>8, <2>1 DEF Queued
<1>14. Fates'
  BY <1>1, <1>2, <1>5, <1>6, <1>8 DEF Fates
<1>15. Tally'
  <2>1. Cardinality(P!Came') = Cardinality(P!Came) + 1 /\ Cardinality(Typed') = Cardinality(Typed) + 1
    BY <1>1, <1>6, <1>9, HandleFinite, FS_AddElement
  <2>2. \A q \in Receiver : q # r => /\ Arrives(q)' <=> Arrives(q)
                                     /\ Untyped(q)' <=> Untyped(q)
                                     /\ Requested(q)' <=> Requested(q)
                                     /\ Uploads(q)' <=> Uploads(q)
    BY <1>8 DEF Arrives, Untyped, Requested, Uploads, Counting
  <2>3. /\ ~ Arrives(r) /\ ~ Untyped(r) /\ ~ Requested(r) /\ ~ Uploads(r)
        /\ Arrives(r)' /\ Untyped(r)' /\ ~ Requested(r)' /\ ~ Uploads(r)'
    BY <1>2, <1>8 DEF Arrives, Untyped, Requested, Uploads, Counting, Outcomes, UploadOutcomes
  <2>4. Requesteds' = Requesteds /\ Uploadings' = Uploadings
    BY <2>2, <2>3 DEF Requesteds, Uploadings
  <2>5. /\ Cardinality(Arrivals') = Cardinality(Arrivals) + 1
        /\ Cardinality(Untypeds') = Cardinality(Untypeds) + 1
        /\ Cardinality(Arrivals) \in Nat /\ Cardinality(Untypeds) \in Nat
    <3>1. Arrivals' = Arrivals \cup {r} /\ r \notin Arrivals
          /\ Untypeds' = Untypeds \cup {r} /\ r \notin Untypeds
      BY <2>2, <2>3 DEF Arrivals, Untypeds
    <3>2. QED
      BY <1>1, <3>1, HandleFinite, FS_AddElement, FS_CardinalityType
  <2>6. P!TypesTotal' = P!TypesTotal /\ P!SentTotal' = P!SentTotal /\ P!UploadTotal' = P!UploadTotal
    BY <1>2 DEF P!TypesTotal, P!SentTotal, P!UploadTotal
  <2>7. P!TypesTotal \in Nat /\ stats["received"] \in Nat
    BY <1>1, TotalsAre DEF HandleTypes, P!Counter
  <2>8. ASSUME stats["received"] + Cardinality(Arrivals) = Cardinality(P!Came),
               P!TypesTotal + Cardinality(Untypeds) = Cardinality(Typed)
        PROVE  /\ stats["received"] + Cardinality(Arrivals') = Cardinality(P!Came')
               /\ P!TypesTotal + Cardinality(Untypeds') = Cardinality(Typed')
    BY <2>1, <2>5, <2>7, <2>8
  <2>9. QED
    BY <1>1, <1>2, <2>4, <2>6, <2>8 DEF Tally
<1>16. QED
  BY <1>10, <1>12, <1>13, <1>14, <1>15 DEF HandleInv

LEMMA CheckVersionKeeps ==
  ASSUME HandleInv, NEW r \in Receiver, P!CheckVersion(r)
  PROVE  HandleInv'
<1>1. /\ ppc[r] = "check" /\ UNCHANGED <<config, type, version, queue, stats, raced>>
      /\ P!PassUnchecked(r) \/ P!CopyVersion(r) \/ P!NoVersion(r)
  BY DEF P!CheckVersion, P!At
<1>2. CASE P!PassUnchecked(r)
  BY <1>1, <1>2, MovesKeep DEF P!PassUnchecked
<1>3. CASE P!CopyVersion(r)
  BY <1>1, <1>3, MovesKeep DEF P!CopyVersion
<1>4. CASE P!NoVersion(r)
  BY <1>1, <1>4, Finishes DEF P!NoVersion
<1>5. QED
  BY <1>1, <1>2, <1>3, <1>4

LEMMA TypeKnown ==
  ASSUME HandleInv, NEW r \in Receiver, ppc[r] # "idle"
  PROVE  LET t == type[handling[r]] IN
         /\ P!Counts(t) \in P!Type \cup {Nil}
         /\ P!Counts(t) = Nil => t \in {"none", "cerver", "client"}
         /\ P!Counts(t) \in {"game", "app", "app_error", "custom"} => t = P!Counts(t)
<1>1. type[handling[r]] \in P!Type /\ config \in P!ConfigType
  BY DEF HandleInv, HandleTypes, Held, Fates
<1>2. QED
  BY <1>1, CountsIs

LEMMA DispatchKeeps ==
  ASSUME HandleInv, NEW r \in Receiver, P!Dispatch(r)
  PROVE  HandleInv'
<1> DEFINE t == type[handling[r]]
           c == P!Counts(t)
<1>1. /\ ppc[r] = "dispatch" /\ UNCHANGED <<config, type, version, queue, stats, raced>>
      /\ IF c = Nil
         THEN P!Finish(r) /\ P!Dispose(handling[r], "lost", "type")
         ELSE P!Increment(r, c, "handle") /\ UNCHANGED <<handling, fate, why, deletedTwice>>
  BY DEF P!Dispatch, P!At
<1>2. c \in P!Type \cup {Nil} /\ (c = Nil => t \in {"none", "cerver", "client"})
  BY <1>1, TypeKnown
<1>3. CASE c = Nil
  <2>1. t \notin {"error", "request", "auth", "test", "bad"}
    BY <1>2, <1>3
  <2>2. QED
    BY <1>1, <1>3, <2>1, Finishes
<1>4. CASE c # Nil
  BY <1>1, <1>2, <1>4, IncrementKeeps
<1>5. QED
  BY <1>3, <1>4

\* The handlers of the library and of the user.
LEMMA HandlersKeep ==
  ASSUME HandleInv, NEW r \in Receiver,
         \/ P!HandleOwn(r) \/ P!GamePacket(r) \/ P!NoHandler(r) \/ P!DirectHandle(r) \/ P!PushJob(r)
         \/ P!RefuseRequest(r) \/ P!Delete(r)
  PROVE  HandleInv'
<1>1. CASE P!HandleOwn(r)
  BY <1>1, MovesKeep DEF P!HandleOwn, P!packets
<1>2. CASE P!RefuseRequest(r)
  BY <1>2, MovesKeep DEF P!RefuseRequest, P!packets
<1>3. CASE P!GamePacket(r)
  <2>1. /\ ppc[r] = "handle" /\ P!Counts(type[handling[r]]) = "game"
        /\ P!Finish(r) /\ P!Dispose(handling[r], "lost", "game")
        /\ UNCHANGED <<config, type, version, queue, stats, raced>>
    BY <1>3 DEF P!GamePacket, P!Handles, P!Handled, P!At
  <2>2. type[handling[r]] = "game"
    BY <2>1, TypeKnown
  <2>3. type[handling[r]] \notin {"error", "request", "auth", "test", "bad"}
    BY <2>2
  <2>4. "game" \notin {"version", "type"} /\ ppc[r] \notin {"check", "dispatch"}
    BY <2>1
  <2>5. QED
    BY <2>1, <2>3, <2>4, Finishes
<1>4. CASE P!NoHandler(r)
  <2>1. /\ ppc[r] = "handle" /\ P!Counts(type[handling[r]]) \in {"app", "app_error", "custom"}
        /\ P!Finish(r) /\ P!Dispose(handling[r], "lost", "handler")
        /\ UNCHANGED <<config, type, version, queue, stats, raced>>
    BY <1>4 DEF P!NoHandler, P!Handles, P!Handled, P!At
  <2>2. type[handling[r]] \in {"app", "app_error", "custom"}
    BY <2>1, TypeKnown
  <2>3. type[handling[r]] \notin {"error", "request", "auth", "test", "bad"}
    BY <2>2
  <2>4. "handler" \notin {"version", "type"} /\ ppc[r] \notin {"check", "dispatch"}
    BY <2>1
  <2>5. QED
    BY <2>1, <2>3, <2>4, Finishes
<1>5. CASE P!DirectHandle(r)
  <2>1. ppc[r] = "handle" /\ UNCHANGED <<config, type, version, queue, stats, raced>>
    BY <1>5 DEF P!DirectHandle, P!Handles, P!At
  <2>2. CASE P!Deletes
    <3>1. P!Moves(r, "handle", "delete") /\ UNCHANGED <<fate, why, deletedTwice>>
      BY <1>5, <2>2 DEF P!DirectHandle
    <3>2. QED
      BY <2>1, <3>1, MovesKeep
  <2>3. CASE ~ P!Deletes
    <3>1. P!Finish(r) /\ P!Dispose(handling[r], "users", Nil) /\ ~ config.delete
      BY <1>5, <2>3 DEF P!DirectHandle, P!Deletes
    <3>2. Nil \notin {"version", "type"} /\ ppc[r] \notin {"check", "dispatch"}
      BY <2>1, HandleConf
    <3>3. QED
      BY <2>1, <3>1, <3>2, Finishes
  <2>4. QED
    BY <2>2, <2>3
<1>6. CASE P!PushJob(r)
  <2>1. /\ ppc[r] = "handle" /\ UNCHANGED <<config, type, version, stats, raced>>
        /\ P!Finish(r) /\ P!Dispose(handling[r], "queued", Nil) /\ queue' = Append(queue, handling[r])
    BY <1>6 DEF P!PushJob, P!Handles, P!At
  <2>2. Nil \notin {"version", "type"} /\ ppc[r] \notin {"check", "dispatch"}
    BY <2>1, HandleConf
  <2>3. QED
    BY <2>1, <2>2, Finishes
<1>7. CASE P!Delete(r)
  <2>1. /\ ppc[r] = "delete" /\ UNCHANGED <<config, type, version, queue, stats, raced>>
        /\ P!Finish(r) /\ P!Dispose(handling[r], "deleted", Nil)
    BY <1>7 DEF P!Delete, P!At
  <2>2. Nil \notin {"version", "type"} /\ ppc[r] \notin {"check", "dispatch"}
    BY <2>1, HandleConf
  <2>3. QED
    BY <2>1, <2>2, Finishes
<1>8. QED
  BY <1>1, <1>2, <1>3, <1>4, <1>5, <1>6, <1>7

LEMMA RequestsKeep ==
  ASSUME HandleInv, NEW r \in Receiver,
         P!RequestGetFile(r) \/ P!GetFile(r) \/ P!RequestSendFile(r) \/ P!SendFile(r)
  PROVE  HandleInv'
<1>1. UNCHANGED <<config, handling, type, fate, why, queue, deletedTwice, stats, raced>>
  BY DEF P!RequestGetFile, P!GetFile, P!RequestSendFile, P!SendFile, P!packets
<1>2. CASE P!RequestGetFile(r)
  <2>1. ppc[r] = "handle" /\ P!Increment(r, "requests", "get_file")
    BY <1>2 DEF P!RequestGetFile, P!Handles, P!At
  <2>2. QED
    BY <1>1, <2>1, IncrementKeeps
<1>3. CASE P!RequestSendFile(r)
  <2>1. ppc[r] = "handle" /\ P!Increment(r, "uploads", "send_file")
    BY <1>3 DEF P!RequestSendFile, P!Handles, P!At
  <2>2. QED
    BY <1>1, <2>1, IncrementKeeps
<1>4. CASE P!GetFile(r)
  <2>1. PICK c \in Outcomes : ppc[r] = "get_file" /\ P!Increment(r, c, "delete")
    BY <1>4 DEF P!GetFile, P!At, Outcomes
  <2>2. QED
    BY <1>1, <2>1, IncrementKeeps
<1>5. CASE P!SendFile(r)
  <2>1. PICK c \in UploadOutcomes : ppc[r] = "send_file" /\ P!Increment(r, c, "delete")
    BY <1>5 DEF P!SendFile, P!At, UploadOutcomes
  <2>2. QED
    BY <1>1, <2>1, IncrementKeeps
<1>6. QED
  BY <1>2, <1>3, <1>4, <1>5

LEMMA HandlerThreadKeeps ==
  ASSUME HandleInv, P!HandlerThread
  PROVE  HandleInv'
<1> DEFINE p == Head(queue)
           how == IF P!Deletes THEN "deleted" ELSE "users"
<1>1. HandleTypes /\ Held /\ Queued /\ Fates /\ Tally
  BY DEF HandleInv
<1>2. /\ queue # <<>> /\ queue' = Tail(queue)
      /\ fate' = [fate EXCEPT ![p] = how] /\ why' = [why EXCEPT ![p] = Nil]
      /\ deletedTwice' = (deletedTwice \/ (how = "deleted" /\ fate[p] = "deleted"))
      /\ UNCHANGED <<config, ppc, handling, counter, read, next, type, stats, raced>>
  BY DEF P!HandlerThread, P!Dispose, P!receivers
<1>3. /\ queue \in Seq(P!Packet) /\ Len(queue) \in Nat /\ Len(queue) > 0 /\ p = queue[1] /\ p \in P!Packet
      /\ queue' \in Seq(P!Packet) /\ Len(queue') = Len(queue) - 1
      /\ \A i \in 1 .. Len(queue) - 1 : i + 1 \in 1 .. Len(queue) /\ queue'[i] = queue[i + 1]
  BY <1>1, <1>2 DEF HandleTypes
<1>4. how \in {"deleted", "users"} /\ (how = "users" => ~ config.delete)
  BY DEF P!Deletes
<1> HIDE DEF p, how
<1>5. fate[p] = "queued" /\ why[p] = Nil /\ type[p] \in P!Type
  <2>1. fate[p] = "queued"
    BY <1>1, <1>3 DEF Queued
  <2>2. QED
    BY <1>1, <1>3, <2>1 DEF Fates
<1>6. why' = why /\ fate'[p] = how /\ \A o \in P!Packet : o # p => fate'[o] = fate[o]
  BY <1>1, <1>2, <1>3, <1>5 DEF HandleTypes
<1>7. P!Came' = P!Came
  BY <1>4, <1>5, <1>6 DEF P!Came
<1>8. Typed' = Typed
  BY <1>6, <1>7 DEF Typed
<1>9. HandleTypes'
  <2>1. fate' \in [P!Packet -> {"coming", "held", "queued", "deleted", "users", "lost"}]
    BY <1>1, <1>2, <1>4 DEF HandleTypes
  <2>2. QED
    BY <1>1, <1>2, <1>3, <1>6, <1>7, <2>1 DEF HandleTypes
<1>10. Held'
  BY <1>1, <1>2, <1>4, <1>5, <1>6 DEF Held
<1>11. Queued'
  <2>1. \A i \in 1 .. Len(queue') :
            /\ i + 1 \in 1 .. Len(queue) /\ queue'[i] = queue[i + 1] /\ queue[i + 1] # p
            /\ queue[i + 1] \in P!Packet
    <3> SUFFICES ASSUME NEW i \in 1 .. Len(queue')
                 PROVE  /\ i + 1 \in 1 .. Len(queue) /\ queue'[i] = queue[i + 1] /\ queue[i + 1] # p
                        /\ queue[i + 1] \in P!Packet
      OBVIOUS
    <3>1. i + 1 \in 1 .. Len(queue) /\ i + 1 # 1 /\ 1 \in 1 .. Len(queue) /\ queue'[i] = queue[i + 1]
      BY <1>3
    <3>2. QED
      BY <1>1, <1>3, <3>1 DEF Queued
  <2>2. \A i \in 1 .. Len(queue') : fate'[queue'[i]] = "queued"
    BY <1>1, <1>6, <2>1 DEF Queued
  <2>3. \A i, j \in 1 .. Len(queue') : queue'[i] = queue'[j] => i = j
    <3> SUFFICES ASSUME NEW i \in 1 .. Len(queue'), NEW j \in 1 .. Len(queue'), queue'[i] = queue'[j]
                 PROVE  i = j
      OBVIOUS
    <3>1. i + 1 = j + 1
      BY <1>1, <2>1 DEF Queued
    <3>2. QED
      BY <3>1
  <2>4. ASSUME NEW o \in P!Packet, fate'[o] = "queued"
        PROVE  \E i \in 1 .. Len(queue') : queue'[i] = o
    <3>1. o # p /\ fate[o] = "queued"
      BY <1>4, <1>6, <2>4
    <3>2. PICK j \in 1 .. Len(queue) : queue[j] = o
      BY <1>1, <3>1 DEF Queued
    <3>3. j # 1 /\ j - 1 \in 1 .. Len(queue') /\ (j - 1) + 1 = j
      BY <1>3, <3>1, <3>2
    <3>4. queue'[j - 1] = queue[j]
      BY <2>1, <3>3
    <3>5. QED
      BY <3>2, <3>3, <3>4
  <2>5. QED
    BY <2>2, <2>3, <2>4 DEF Queued
<1>12. Fates'
  <2>1. ~ deletedTwice'
    BY <1>1, <1>2, <1>5 DEF Fates
  <2>2. QED
    BY <1>1, <1>2, <1>4, <1>5, <1>6, <2>1 DEF Fates
<1>13. Tally'
  <2>1. \A q \in Receiver : /\ Arrives(q)' <=> Arrives(q)
                            /\ Untyped(q)' <=> Untyped(q)
                            /\ Requested(q)' <=> Requested(q)
                            /\ Uploads(q)' <=> Uploads(q)
    BY <1>2 DEF Arrives, Untyped, Requested, Uploads, Counting
  <2>2. QED
    BY <1>1, <1>2, <1>7, <1>8, <2>1, TallyStays
<1>14. QED
  BY <1>9, <1>10, <1>11, <1>12, <1>13 DEF HandleInv

LEMMA HandleInitHolds ==
  ASSUME P!Init
  PROVE  HandleInv
<1>1. /\ config \in P!ConfigType
      /\ type = [p \in P!Packet |-> Nil] /\ fate = [p \in P!Packet |-> "coming"] /\ why = [p \in P!Packet |-> Nil]
      /\ stats = [c \in P!Counter |-> 0]
      /\ ppc = [r \in Receiver |-> "idle"] /\ handling = [r \in Receiver |-> Nil]
      /\ counter = [r \in Receiver |-> Nil] /\ read = [r \in Receiver |-> 0]
      /\ next = [r \in Receiver |-> Nil]
      /\ queue = <<>> /\ deletedTwice = FALSE /\ raced = FALSE
  BY HandleConf DEF P!Init
<1>2. P!Came = {} /\ {} = 1 .. 0 /\ Typed = {}
  BY <1>1 DEF P!Came, Typed
<1>3. HandleTypes
  <2>1. 0 \in 0 .. NPackets
    BY HandleConf
  <2>2. queue \in Seq(P!Packet)
    BY <1>1
  <2>3. \E k \in 0 .. NPackets : P!Came = 1 .. k
    BY <1>2, <2>1
  <2>4. QED
    BY <1>1, <2>2, <2>3 DEF HandleTypes, Stage
<1>4. Held /\ Queued /\ Fates
  <2>1. Len(queue) = 0 /\ 1 .. 0 = {}
    BY <1>1
  <2>2. QED
    BY <1>1, <2>1 DEF Held, Queued, Fates
<1>5. Tally
  <2>1. Arrivals = {} /\ Untypeds = {} /\ Requesteds = {} /\ Uploadings = {}
    BY <1>1 DEF Arrivals, Untypeds, Requesteds, Uploadings, Arrives, Untyped, Requested, Uploads, Counting
  <2>2. \A c \in {"received"} \cup P!Type \cup P!FileCounter : stats[c] = 0
    BY <1>1 DEF P!Counter
  <2>3. P!TypesTotal = 0 /\ P!SentTotal = 0 /\ P!UploadTotal = 0 /\ stats["received"] = 0
        /\ stats["requests"] = 0 /\ stats["uploads"] = 0
    BY <2>2 DEF P!TypesTotal, P!SentTotal, P!UploadTotal, P!Type, P!FileCounter
  <2>4. Cardinality({}) = 0
    BY FS_EmptySet
  <2>5. QED
    BY <1>2, <2>1, <2>3, <2>4 DEF Tally
<1>6. QED
  BY <1>3, <1>4, <1>5 DEF HandleInv

\* However many receivers count packets at once, each packet has one owner, and
\* unless an increment is lost, what is counted is what came.
THEOREM HandleInvariant == P!Init /\ [][P!Next]_(P!vars) => []HandleInv
<1>1. P!Init => HandleInv
  BY HandleInitHolds
<1>2. HandleInv /\ [P!Next]_(P!vars) => HandleInv'
  <2> SUFFICES ASSUME HandleInv, [P!Next]_(P!vars)  PROVE HandleInv'
    OBVIOUS
  <2>1. CASE UNCHANGED P!vars
    <3>1. UNCHANGED <<config, ppc, handling, counter, read, next, type, fate, why, queue, deletedTwice, stats, raced>>
      BY <2>1 DEF P!vars, P!receivers, P!packets
    <3>2. Held' /\ Queued' /\ Fates' /\ P!Came' = P!Came /\ Typed' = Typed
      BY <3>1, PacketsStay DEF HandleInv
    <3>3. HandleTypes'
      BY <3>1, <3>2 DEF HandleInv, HandleTypes
    <3>4. Tally'
      BY <3>1, <3>2, TallyStays DEF HandleInv, Arrives, Untyped, Requested, Uploads, Counting
    <3>5. QED
      BY <3>2, <3>3, <3>4 DEF HandleInv
  <2>2. CASE P!HandlerThread
    BY <2>2, HandlerThreadKeeps
  <2>3. ASSUME NEW r \in Receiver,
               \/ P!Load(r) \/ P!Store(r) \/ P!Receive(r) \/ P!CheckVersion(r) \/ P!Dispatch(r)
               \/ P!HandleOwn(r) \/ P!GamePacket(r) \/ P!NoHandler(r) \/ P!DirectHandle(r) \/ P!PushJob(r)
               \/ P!RefuseRequest(r) \/ P!RequestGetFile(r) \/ P!GetFile(r) \/ P!RequestSendFile(r) \/ P!SendFile(r)
               \/ P!Delete(r)
        PROVE  HandleInv'
    BY <2>3, LoadKeeps, StoreKeeps, PacketComes, CheckVersionKeeps, DispatchKeeps, HandlersKeep,
       RequestsKeep
  <2>4. QED
    BY <2>1, <2>2, <2>3 DEF P!Next
<1>3. QED
  BY <1>1, <1>2, PTL

LEMMA HandleInvSuffices == HandleInv => P!PacketsAccounted
<1> SUFFICES ASSUME HandleInv  PROVE P!PacketsAccounted
  OBVIOUS
<1>1. HandleTypes /\ Held /\ Queued /\ Fates /\ Tally
  BY DEF HandleInv
<1>2. ASSUME \A r \in Receiver : ppc[r] = "idle", ~ raced
      PROVE  /\ stats["received"] = Cardinality(P!Came)
             /\ P!TypesTotal = Cardinality({p \in P!Came : why[p] \notin {"version", "type"}})
             /\ stats["requests"] = P!SentTotal
             /\ stats["uploads"] = P!UploadTotal
  <2>1. Arrivals = {} /\ Untypeds = {} /\ Requesteds = {} /\ Uploadings = {}
    BY <1>2 DEF Arrivals, Untypeds, Requesteds, Uploadings, Arrives, Untyped, Requested, Uploads, Counting
  <2>2. Cardinality({}) = 0
    BY FS_EmptySet
  <2>3. P!TypesTotal \in Nat /\ P!SentTotal \in Nat /\ P!UploadTotal \in Nat /\ stats["received"] \in Nat
    BY <1>1, TotalsAre DEF HandleTypes, P!Counter
  <2>4. /\ stats["received"] + 0 = Cardinality(P!Came) /\ P!TypesTotal + 0 = Cardinality(Typed)
        /\ stats["requests"] = P!SentTotal + 0 /\ stats["uploads"] = P!UploadTotal + 0
    BY <1>1, <1>2, <2>1, <2>2 DEF Tally
  <2>5. QED
    BY <2>3, <2>4 DEF Typed
<1>3. ASSUME \A r \in Receiver : ppc[r] = "idle", NEW p \in P!Came
      PROVE  /\ fate[p] = "queued" <=> \E i \in DOMAIN queue : queue[i] = p
             /\ fate[p] # "held"
             /\ fate[p] = "users" => ~ config.delete
             /\ fate[p] = "lost" /\ ~ config.check =>
                    type[p] \notin {"error", "request", "auth", "test", "bad"}
  <2>1. p \in P!Packet /\ DOMAIN queue = 1 .. Len(queue)
    BY <1>1 DEF P!Came, HandleTypes
  <2>2. fate[p] # "held"
    BY <1>1, <1>3, <2>1 DEF Held
  <2>3. fate[p] = "queued" <=> \E i \in DOMAIN queue : queue[i] = p
    BY <1>1, <2>1 DEF Queued
  <2>4. QED
    BY <1>1, <2>1, <2>2, <2>3 DEF Fates
<1>4. ~ deletedTwice
  BY <1>1 DEF Fates
<1>5. QED
  BY <1>2, <1>3, <1>4, CardinalityIs DEF P!PacketsAccounted

-----------------------------------------------------------------------------
(* The buffers of a packet: packets.c                                      *)

\* The buffers that were ever allocated are numbered without a gap.
HeapTypes ==
    /\ \E n \in Nat : D!Exists = 1 .. n
    /\ size \in [D!Exists -> Nat] /\ owner \in [D!Exists -> {"packet", "user"}]
    /\ live \subseteq D!Exists /\ D!Exists \subseteq Memory
    /\ data_size \in Nat /\ data_end \in Nat /\ remaining_data \in Nat
    /\ data_ref \in BOOLEAN /\ packet_ref \in BOOLEAN /\ packet_length \in Nat

\* A buffer that the packet points to is live, of its size and of its owner.
DataHeld ==
    /\ data # Nil =>
           /\ data \in live /\ data_size = size[data]
           /\ owner[data] = IF data_ref THEN "user" ELSE "packet"
    /\ data # Nil /\ ~ data_ref => data_end + remaining_data = data_size
    /\ data = Nil \/ data_ref => remaining_data = 0
    /\ data = Nil => ~ data_ref
PacketHeld ==
    /\ packet \notin {Nil, Inline} =>
           /\ packet \in live /\ packet_length = size[packet]
           /\ owner[packet] = IF packet_ref THEN "user" ELSE "packet"
    /\ packet = Inline => packet_ref
    /\ packet # Nil => packet # data

NothingLost == \A b \in live : owner[b] = "packet" => b \in {data, packet}

DataInv ==
    HeapTypes /\ (plain => DataHeld /\ PacketHeld /\ NothingLost /\ ~ overrun /\ ~ bad_free)

\* The buffer that malloc () returns.
LEMMA NewBuffer ==
  ASSUME HeapTypes, NEW new, NEW n \in Nat, NEW who \in {"packet", "user"}, NEW b,
         D!Allocate(new, n, who, b)
  PROVE  /\ new \notin D!Exists /\ D!Exists' = D!Exists \cup {new}
         /\ \E k \in Nat : D!Exists' = 1 .. k
         /\ size' \in [D!Exists' -> Nat] /\ owner' \in [D!Exists' -> {"packet", "user"}]
         /\ size'[new] = n /\ owner'[new] = who
         /\ \A x \in D!Exists : size'[x] = size[x] /\ owner'[x] = owner[x]
         /\ live' = (live \cup {new}) \ {b} /\ live' \subseteq D!Exists' /\ D!Exists' \subseteq Memory
<1>1. PICK k \in Nat : D!Exists = 1 .. k
  BY DEF HeapTypes
<1>2. Cardinality(1 .. k) = k
  BY <1>1, FS_Interval
<1>3. new = k + 1 /\ new \in Memory
  BY <1>1, <1>2, CardinalityIs DEF D!Allocate
<1>4. new \notin D!Exists /\ D!Exists \cup {new} = 1 .. k + 1
  BY <1>1, <1>3
<1>5. /\ size' = [x \in D!Exists \cup {new} |-> IF x = new THEN n ELSE size[x]]
      /\ owner' = [x \in D!Exists \cup {new} |-> IF x = new THEN who ELSE owner[x]]
      /\ live' = (live \cup {new}) \ {b}
  BY DEF D!Allocate
<1>6. D!Exists' = D!Exists \cup {new}
  BY <1>5 DEF D!Exists
<1>7. size' \in [D!Exists' -> Nat] /\ owner' \in [D!Exists' -> {"packet", "user"}]
  BY <1>5, <1>6 DEF HeapTypes
<1>8. /\ size'[new] = n /\ owner'[new] = who
      /\ \A x \in D!Exists : size'[x] = size[x] /\ owner'[x] = owner[x]
  BY <1>4, <1>5
<1>9. live' \subseteq D!Exists' /\ D!Exists' \subseteq Memory
  BY <1>3, <1>5, <1>6 DEF HeapTypes
<1>10. QED
  BY <1>3, <1>4, <1>5, <1>6, <1>7, <1>8, <1>9

\* Null is no buffer, and neither is the header inside the structure.
LEMMA NoBuffer ==
  ASSUME HeapTypes
  PROVE  Nil \notin D!Exists /\ Inline \notin D!Exists /\ Nil \notin live /\ Inline \notin live
BY DataConf DEF HeapTypes

\* The calls that fill the data with a new buffer.
LEMMA DataCallsKeep ==
  ASSUME DataInv, plain, NEW new \in Memory, NEW n \in Size,
         D!CreateData(new, n) \/ D!SetData(new, n) \/ D!AppendData(new, n) \/ D!SetDataRef(new, n)
  PROVE  DataInv'
<1>1. HeapTypes /\ DataHeld /\ PacketHeld /\ NothingLost /\ ~ overrun /\ ~ bad_free /\ n \in Nat
  BY DataConf DEF DataInv
<1>2. Nil \notin D!Exists /\ Inline \notin D!Exists /\ Nil \notin live /\ Inline \notin live
  BY <1>1, NoBuffer
<1>3. PICK k \in Nat, who \in {"packet", "user"}, b \in {Nil, data} :
        /\ D!Allocate(new, k, who, b)
        /\ data' = new /\ data_size' = k /\ data_end' \in Nat /\ remaining_data' \in Nat
        /\ data_ref' \in BOOLEAN
        /\ UNCHANGED <<D!packetVars, overrun>>
        /\ plain' => /\ data = Nil \/ data_ref \/ b = data
                     /\ ~ bad_free'
                     /\ b # packet \/ packet = Nil
                     /\ who = IF data_ref' THEN "user" ELSE "packet"
                     /\ ~ data_ref' => data_end' + remaining_data' = k
                     /\ data_ref' => remaining_data' = 0
  <2>1. CASE D!CreateData(new, n)
    <3>1. /\ D!Allocate(new, n, "packet", Nil) /\ data' = new /\ data_size' = n
          /\ data_end' = 0 /\ remaining_data' = n /\ data_ref' = data_ref
          /\ UNCHANGED <<D!packetVars, overrun, bad_free>> /\ plain' = (plain /\ data = Nil)
      BY <2>1 DEF D!CreateData
    <3>2. plain' => data = Nil /\ ~ data_ref
      BY <1>1, <3>1 DEF DataHeld
    <3>3. data_ref' \in BOOLEAN
      BY <1>1, <3>1 DEF HeapTypes
    <3>4. 0 + n = n /\ "packet" \in {"packet", "user"}
      BY <1>1
    <3>5. Nil # packet \/ packet = Nil
      OBVIOUS
    <3>6. QED
      BY <1>1, <3>1, <3>2, <3>3, <3>4, <3>5
  <2>2. CASE D!SetData(new, n)
    <3>1. /\ D!Allocate(new, n, "packet", D!DataToFree) /\ data' = new /\ data_size' = n
          /\ data_end' = n /\ remaining_data' = remaining_data /\ data_ref' = data_ref
          /\ UNCHANGED <<D!packetVars, overrun>> /\ plain' = (plain /\ ~ data_ref /\ remaining_data = 0)
          /\ bad_free' = (bad_free \/ ~ D!MayFree(D!DataToFree))
      BY <2>2 DEF D!SetData
    <3>2. plain' => ~ data_ref /\ remaining_data = 0 /\ D!DataToFree = data
      BY <3>1 DEF D!DataToFree
    <3>3. plain' => D!MayFree(D!DataToFree) /\ ~ bad_free'
      BY <1>1, <3>1, <3>2 DEF DataHeld, D!MayFree
    <3>4. data_ref' \in BOOLEAN /\ remaining_data \in Nat /\ n + 0 = n /\ D!DataToFree \in {Nil, data}
      BY <1>1, <3>1 DEF HeapTypes, D!DataToFree
    <3>5. plain' => D!DataToFree # packet \/ packet = Nil
      BY <1>1, <3>2 DEF PacketHeld
    <3>6. QED
      BY <1>1, <3>1, <3>2, <3>3, <3>4, <3>5
  <2>3. CASE D!AppendData(new, n)
    <3> DEFINE k == (IF data = Nil THEN 0 ELSE data_size) + n
    <3>1. /\ D!Allocate(new, k, "packet", data) /\ data' = new /\ data_size' = k
          /\ data_end' = k /\ remaining_data' = remaining_data /\ data_ref' = data_ref
          /\ UNCHANGED <<D!packetVars, overrun>> /\ plain' = (plain /\ ~ data_ref /\ remaining_data = 0)
          /\ bad_free' = (bad_free \/ ~ D!MayFree(data))
      BY <2>3 DEF D!AppendData
    <3>2. plain' => ~ data_ref /\ remaining_data = 0
      BY <3>1
    <3>3. plain' => D!MayFree(data) /\ ~ bad_free'
      BY <1>1, <3>1, <3>2 DEF DataHeld, D!MayFree
    <3>4. data_ref' \in BOOLEAN /\ remaining_data \in Nat /\ k \in Nat /\ k + 0 = k
      BY <1>1, <3>1 DEF HeapTypes
    <3>5. data # packet \/ packet = Nil
      BY <1>1 DEF PacketHeld
    <3> HIDE DEF k
    <3>6. QED
      BY <1>1, <3>1, <3>2, <3>3, <3>4, <3>5
  <2>4. CASE D!SetDataRef(new, n)
    <3>1. /\ D!Allocate(new, n, "user", D!DataToFree) /\ data' = new /\ data_size' = n
          /\ data_end' = data_end /\ remaining_data' = remaining_data /\ data_ref' = TRUE
          /\ UNCHANGED <<D!packetVars, overrun>> /\ plain' = (plain /\ remaining_data = 0)
          /\ bad_free' = (bad_free \/ ~ D!MayFree(D!DataToFree))
      BY <2>4 DEF D!SetDataRef
    <3>2. plain' => remaining_data = 0
      BY <3>1
    <3>3. D!MayFree(D!DataToFree) /\ ~ bad_free'
      BY <1>1, <3>1 DEF DataHeld, D!MayFree, D!DataToFree
    <3>4. remaining_data \in Nat /\ data_end \in Nat /\ D!DataToFree \in {Nil, data}
      BY <1>1 DEF HeapTypes, D!DataToFree
    <3>5. (data = Nil \/ data_ref \/ D!DataToFree = data) /\ (D!DataToFree # packet \/ packet = Nil)
      BY <1>1 DEF PacketHeld, D!DataToFree
    <3>6. QED
      BY <1>1, <3>1, <3>2, <3>3, <3>4, <3>5
  <2>5. QED
    BY <2>1, <2>2, <2>3, <2>4
<1>4. /\ new \notin D!Exists /\ D!Exists' = D!Exists \cup {new}
      /\ \E m \in Nat : D!Exists' = 1 .. m
      /\ size' \in [D!Exists' -> Nat] /\ owner' \in [D!Exists' -> {"packet", "user"}]
      /\ size'[new] = k /\ owner'[new] = who
      /\ \A x \in D!Exists : size'[x] = size[x] /\ owner'[x] = owner[x]
      /\ live' = (live \cup {new}) \ {b} /\ live' \subseteq D!Exists' /\ D!Exists' \subseteq Memory
  BY <1>1, <1>3, NewBuffer
<1>5. HeapTypes'
  BY <1>1, <1>3, <1>4 DEF HeapTypes, D!packetVars
<1>6. ASSUME plain'  PROVE (DataHeld /\ PacketHeld /\ NothingLost /\ ~ overrun /\ ~ bad_free)'
  <2>1. /\ data = Nil \/ data_ref \/ b = data
        /\ b # packet \/ packet = Nil
        /\ who = IF data_ref' THEN "user" ELSE "packet"
        /\ ~ data_ref' => data_end' + remaining_data' = k
        /\ data_ref' => remaining_data' = 0
        /\ ~ overrun' /\ ~ bad_free'
        /\ UNCHANGED <<packet, packet_length, packet_ref>>
    BY <1>1, <1>3, <1>6 DEF D!packetVars
  <2>2. live \subseteq D!Exists /\ new # Nil /\ new # Inline
    BY <1>1, DataConf DEF HeapTypes
  <2>3. new \in live' /\ new # b
    <3>1. data = Nil \/ data \in D!Exists
      BY <1>1, <2>2 DEF DataHeld
    <3>2. QED
      BY <1>4, <2>1, <2>2, <3>1
  <2>4. DataHeld'
    BY <1>3, <1>4, <2>1, <2>2, <2>3 DEF DataHeld
  <2>5. PacketHeld'
    BY <1>1, <1>3, <1>4, <2>1, <2>2 DEF PacketHeld
  <2>6. NothingLost'
    BY <1>1, <1>3, <1>4, <2>1, <2>2 DEF NothingLost, DataHeld
  <2>7. QED
    BY <2>1, <2>4, <2>5, <2>6
<1>7. QED
  BY <1>5, <1>6 DEF DataInv

\* The calls that put a new buffer in the place of the packet.
LEMMA PacketCallsKeep ==
  ASSUME DataInv, plain, NEW new \in Memory, NEW n \in Nat,
         D!SetPacket(new, n) \/ D!SetPacketRef(new, n) \/ D!Generate(new)
  PROVE  DataInv'
<1>1. HeapTypes /\ DataHeld /\ PacketHeld /\ NothingLost /\ ~ overrun /\ ~ bad_free /\ n \in Nat
  BY DEF DataInv
<1>2. Nil \notin D!Exists /\ Inline \notin D!Exists /\ Nil \notin live /\ Inline \notin live
  BY <1>1, NoBuffer
<1>3. PICK k \in Nat, who \in {"packet", "user"}, b \in {Nil, packet} :
        /\ D!Allocate(new, k, who, b)
        /\ packet' = new /\ packet_length' = k /\ packet_ref' \in BOOLEAN
        /\ UNCHANGED D!dataVars
        /\ plain' => /\ packet = Nil \/ packet_ref \/ b = packet
                     /\ b # Inline
                     /\ who = IF packet_ref' THEN "user" ELSE "packet"
                     /\ ~ bad_free' /\ ~ overrun'
  <2>1. CASE D!SetPacket(new, n)
    <3>1. /\ D!Allocate(new, n, "packet", D!PacketToFree) /\ packet' = new /\ packet_length' = n
          /\ packet_ref' = packet_ref /\ plain' = (plain /\ ~ packet_ref)
          /\ bad_free' = (bad_free \/ ~ D!MayFree(D!PacketToFree)) /\ overrun' = overrun
          /\ UNCHANGED D!dataVars
      BY <2>1 DEF D!SetPacket
    <3>2. plain' => ~ packet_ref /\ D!PacketToFree = packet /\ packet # Inline
      BY <1>1, <3>1 DEF D!PacketToFree, PacketHeld
    <3>3. plain' => D!MayFree(D!PacketToFree) /\ ~ bad_free'
      BY <1>1, <3>1, <3>2 DEF PacketHeld, D!MayFree
    <3>4. D!PacketToFree \in {Nil, packet} /\ packet_ref' \in BOOLEAN
      BY <1>1, <3>1 DEF D!PacketToFree, HeapTypes
    <3>5. QED
      BY <1>1, <3>1, <3>2, <3>3, <3>4
  <2>2. CASE D!SetPacketRef(new, n)
    <3>1. /\ D!Allocate(new, n, "user", D!PacketToFree) /\ packet' = new /\ packet_length' = n
          /\ packet_ref' = TRUE /\ overrun' = overrun
          /\ bad_free' = (bad_free \/ ~ D!MayFree(D!PacketToFree))
          /\ UNCHANGED D!dataVars
      BY <2>2 DEF D!SetPacketRef
    <3>2. D!MayFree(D!PacketToFree) /\ ~ bad_free'
      BY <1>1, <3>1 DEF PacketHeld, D!MayFree, D!PacketToFree
    <3>3. /\ D!PacketToFree \in {Nil, packet} /\ D!PacketToFree # Inline
          /\ packet = Nil \/ packet_ref \/ D!PacketToFree = packet
      BY <1>1, DataConf DEF D!PacketToFree, PacketHeld
    <3>4. QED
      BY <1>1, <3>1, <3>2, <3>3
  <2>3. CASE D!Generate(new)
    <3>1. /\ D!Allocate(new, D!Header + data_size, "packet", packet) /\ packet' = new
          /\ packet_length' = D!Header + data_size
          /\ packet_ref' = packet_ref /\ plain' = (plain /\ ~ packet_ref)
          /\ bad_free' = (bad_free \/ ~ D!MayFree(packet))
          /\ overrun' = (overrun \/ (data # Nil /\ data_size > size[data]))
          /\ UNCHANGED D!dataVars
      BY <2>3 DEF D!Generate
    <3>2. D!Header + data_size \in Nat /\ data_size \in Nat
      BY <1>1 DEF HeapTypes, D!Header
    <3>3. ~ overrun'
      <4>1. data # Nil => ~ data_size > size[data]
        BY <1>1, <3>2 DEF DataHeld
      <4>2. QED
        BY <1>1, <3>1, <4>1
    <3>4. plain' => ~ packet_ref /\ packet # Inline
      BY <1>1, <3>1 DEF PacketHeld
    <3>5. plain' => D!MayFree(packet) /\ ~ bad_free'
      BY <1>1, <3>1, <3>4 DEF PacketHeld, D!MayFree
    <3>6. packet_ref' \in BOOLEAN
      BY <1>1, <3>1 DEF HeapTypes
    <3> HIDE DEF D!Header
    <3>7. QED
      BY <3>1, <3>2, <3>3, <3>4, <3>5, <3>6
  <2>4. QED
    BY <2>1, <2>2, <2>3
<1>4. /\ new \notin D!Exists /\ D!Exists' = D!Exists \cup {new}
      /\ \E m \in Nat : D!Exists' = 1 .. m
      /\ size' \in [D!Exists' -> Nat] /\ owner' \in [D!Exists' -> {"packet", "user"}]
      /\ size'[new] = k /\ owner'[new] = who
      /\ \A x \in D!Exists : size'[x] = size[x] /\ owner'[x] = owner[x]
      /\ live' = (live \cup {new}) \ {b} /\ live' \subseteq D!Exists' /\ D!Exists' \subseteq Memory
  BY <1>1, <1>3, NewBuffer
<1>5. UNCHANGED <<data, data_size, data_end, remaining_data, data_ref>>
  BY <1>3 DEF D!dataVars
<1>6. HeapTypes'
  BY <1>1, <1>3, <1>4, <1>5 DEF HeapTypes
<1>7. ASSUME plain'  PROVE (DataHeld /\ PacketHeld /\ NothingLost /\ ~ overrun /\ ~ bad_free)'
  <2>1. /\ packet = Nil \/ packet_ref \/ b = packet
        /\ b # Inline /\ ~ bad_free' /\ ~ overrun'
        /\ who = IF packet_ref' THEN "user" ELSE "packet"
    BY <1>3, <1>7
  <2>2. live \subseteq D!Exists /\ new # Nil /\ new # Inline
    BY <1>1, DataConf DEF HeapTypes
  <2>3. /\ packet \in {Nil, Inline} \/ packet \in D!Exists
        /\ data = Nil \/ data \in D!Exists
        /\ packet # Nil => packet # data
    BY <1>1, <2>2 DEF PacketHeld, DataHeld
  <2>4. new \in live' /\ new # b /\ new # data /\ (data # Nil => data # b)
    BY <1>2, <1>4, <2>1, <2>2, <2>3
  <2>5. DataHeld'
    BY <1>1, <1>4, <1>5, <2>2, <2>3, <2>4 DEF DataHeld
  <2>6. PacketHeld'
    BY <1>3, <1>4, <1>5, <2>1, <2>2, <2>4 DEF PacketHeld
  <2>7. NothingLost'
    <3> SUFFICES ASSUME NEW c \in live', owner'[c] = "packet"
                 PROVE  c \in {data, new}
      BY <1>3, <1>5 DEF NothingLost
    <3>1. CASE c = new
      BY <3>1
    <3>2. CASE c # new
      <4>1. c \in live /\ c # b /\ owner[c] = "packet"
        BY <1>4, <2>2, <3>2
      <4>2. c \in {data, packet}
        BY <1>1, <4>1 DEF NothingLost
      <4>3. c = packet => FALSE
        BY <1>1, <1>2, <2>1, <4>1 DEF PacketHeld
      <4>4. QED
        BY <4>2, <4>3
    <3>3. QED
      BY <3>1, <3>2
  <2>8. QED
    BY <2>1, <2>5, <2>6, <2>7
<1>8. QED
  BY <1>6, <1>7 DEF DataInv

LEMMA AddDataKeeps ==
  ASSUME DataInv, plain, NEW n \in Size, D!AddData(n)
  PROVE  DataInv'
<1>1. /\ HeapTypes /\ DataHeld /\ PacketHeld /\ NothingLost /\ ~ overrun /\ ~ bad_free
      /\ n \in Nat /\ n <= remaining_data /\ data_end \in Nat /\ remaining_data \in Nat
      /\ data_size \in Nat
  BY DataConf DEF DataInv, HeapTypes, D!AddData
<1>2. /\ data_end' = data_end + n /\ remaining_data' = remaining_data - n
      /\ overrun' = (overrun \/ (n > 0 /\ data_end + n > size[data]))
      /\ UNCHANGED <<size, owner, live, data, data_size, data_ref, packet, packet_length, packet_ref,
                     plain, bad_free>>
  BY DEF D!AddData, D!heap, D!packetVars
<1>3. D!Exists' = D!Exists /\ data_end' \in Nat /\ remaining_data' \in Nat
  BY <1>1, <1>2 DEF D!Exists
<1>4. HeapTypes' /\ PacketHeld' /\ NothingLost'
  BY <1>1, <1>2, <1>3 DEF HeapTypes, PacketHeld, NothingLost
<1>5. n > 0 => data # Nil /\ ~ data_ref
  BY <1>1 DEF DataHeld
<1>6. n > 0 => data_end + remaining_data = data_size /\ data_size = size[data]
  BY <1>1, <1>5 DEF DataHeld
<1>7. ~ overrun'
  <2>1. ~ (n > 0 /\ data_end + n > size[data])
    BY <1>1, <1>6
  <2>2. QED
    BY <1>1, <1>2, <2>1
<1>8. DataHeld'
  BY <1>1, <1>2 DEF DataHeld
<1>9. QED
  BY <1>1, <1>2, <1>4, <1>7, <1>8 DEF DataInv

LEMMA AllocationFailsKeeps ==
  ASSUME DataInv, D!AllocationFails
  PROVE  DataInv'
<1>1. /\ ~ plain' /\ UNCHANGED <<size, owner, data_end, remaining_data, data_ref, packet_length, packet_ref>>
      /\ live' \subseteq live /\ (data_size' = 0 \/ data_size' = data_size)
  BY DEF D!AllocationFails, D!FreeOnly, D!heap, D!packetVars
<1>2. D!Exists' = D!Exists
  BY <1>1 DEF D!Exists
<1>3. HeapTypes'
  BY <1>1, <1>2 DEF DataInv, HeapTypes
<1>4. QED
  BY <1>1, <1>3 DEF DataInv

LEMMA DeleteKeeps ==
  ASSUME DataInv, plain, D!Delete
  PROVE  DataInv'
<1>1. HeapTypes /\ DataHeld /\ PacketHeld /\ NothingLost /\ ~ overrun /\ ~ bad_free
  BY DEF DataInv
<1>2. /\ live' = live \ {D!DataToFree, D!PacketToFree}
      /\ data' = Nil /\ data_size' = 0 /\ data_end' = 0 /\ remaining_data' = 0 /\ data_ref' = FALSE
      /\ packet' = Nil /\ packet_length' = 0 /\ packet_ref' = FALSE
      /\ UNCHANGED <<size, owner, overrun>>
      /\ bad_free' = (bad_free \/ ~ D!MayFree(D!DataToFree) \/ ~ D!MayFree(D!PacketToFree))
  BY DEF D!Delete
<1>3. D!Exists' = D!Exists
  BY <1>2 DEF D!Exists
<1>4. HeapTypes'
  BY <1>1, <1>2, <1>3 DEF HeapTypes
<1>5. D!MayFree(D!DataToFree) /\ D!MayFree(D!PacketToFree)
  BY <1>1 DEF D!MayFree, D!DataToFree, D!PacketToFree, DataHeld, PacketHeld
<1>6. \A b \in live' : owner'[b] # "packet"
  <2> SUFFICES ASSUME NEW b \in live', owner[b] = "packet"  PROVE FALSE
    BY <1>2
  <2>1. b \in live /\ b # D!DataToFree /\ b # D!PacketToFree /\ b # Nil /\ b # Inline
    BY <1>1, <1>2, NoBuffer
  <2>2. b \in {data, packet}
    BY <1>1, <2>1 DEF NothingLost
  <2>3. QED
    BY <1>1, <2>1, <2>2 DEF D!DataToFree, D!PacketToFree, DataHeld, PacketHeld
<1>7. DataHeld' /\ PacketHeld' /\ NothingLost'
  BY <1>2, <1>6, DataConf DEF DataHeld, PacketHeld, NothingLost
<1>8. QED
  BY <1>1, <1>2, <1>4, <1>5, <1>7 DEF DataInv

LEMMA DataInitHolds ==
  ASSUME D!Init
  PROVE  DataInv
<1>1. /\ size = <<>> /\ owner = <<>> /\ live = {}
      /\ data = Nil /\ data_size = 0 /\ data_end = 0 /\ remaining_data = 0 /\ data_ref = FALSE
      /\ overrun = FALSE /\ bad_free = FALSE
      /\ \/ packet = Nil /\ packet_length = 0 /\ packet_ref = FALSE
         \/ packet = Inline /\ packet_length = D!Header /\ packet_ref = TRUE
  BY DEF D!Init
<1>2. D!Exists = {} /\ {} = 1 .. 0
  BY <1>1 DEF D!Exists
<1>3. size \in [D!Exists -> Nat] /\ owner \in [D!Exists -> {"packet", "user"}]
  BY <1>1, <1>2
<1>4. HeapTypes
  <2>1. live \subseteq D!Exists /\ D!Exists \subseteq Memory /\ 0 \in Nat /\ D!Header \in Nat
    BY <1>1, <1>2 DEF D!Header
  <2>2. \E n \in Nat : D!Exists = 1 .. n
    BY <1>2, <2>1
  <2>3. packet_length \in Nat /\ packet_ref \in BOOLEAN /\ data_ref \in BOOLEAN
    BY <1>1, <2>1
  <2>4. QED
    BY <1>1, <1>3, <2>1, <2>2, <2>3 DEF HeapTypes
<1>5. DataHeld /\ PacketHeld /\ NothingLost
  BY <1>1, DataConf DEF DataHeld, PacketHeld, NothingLost
<1>6. QED
  BY <1>1, <1>4, <1>5 DEF DataInv

\* Buffers of any sizes are the packet's or the user's, and one of the packet's
\* is what it points to.
THEOREM DataInvariant == D!Init /\ [][D!Next]_(D!vars) => []DataInv
<1>1. D!Init => DataInv
  BY DataInitHolds
<1>2. DataInv /\ [D!Next]_(D!vars) => DataInv'
  <2> SUFFICES ASSUME DataInv, [D!Next]_(D!vars)  PROVE DataInv'
    OBVIOUS
  <2>1. CASE UNCHANGED D!vars
    <3>1. UNCHANGED <<size, owner, live, data, data_size, data_end, remaining_data, data_ref,
                      packet, packet_length, packet_ref, plain, overrun, bad_free>>
      BY <2>1 DEF D!vars, D!heap, D!dataVars, D!packetVars
    <3>2. QED
      BY <3>1 DEF DataInv, HeapTypes, D!Exists, DataHeld, PacketHeld, NothingLost
  <2>2. CASE D!Next
    <3>0. plain
      BY <2>2 DEF D!Next
    <3>1. ASSUME NEW new \in Memory, NEW n \in Size,
                 \/ D!CreateData(new, n) \/ D!SetData(new, n) \/ D!AppendData(new, n)
                 \/ D!SetDataRef(new, n) \/ D!SetPacket(new, n) \/ D!SetPacketRef(new, n)
          PROVE  DataInv'
      BY <3>0, <3>1, DataCallsKeep, PacketCallsKeep, DataConf
    <3>2. ASSUME NEW new \in Memory, D!Generate(new)  PROVE DataInv'
      BY <3>0, <3>2, PacketCallsKeep, 0 \in Nat
    <3>3. QED
      BY <2>2, <3>0, <3>1, <3>2, AddDataKeeps, AllocationFailsKeeps, DeleteKeeps DEF D!Next
  <2>3. QED
    BY <2>1, <2>2
<1>3. QED
  BY <1>1, <1>2, PTL

LEMMA DataInvSuffices == DataInv => D!BuffersSound
<1> SUFFICES ASSUME DataInv, plain  PROVE D!BuffersSound
  BY DEF D!BuffersSound
<1>1. HeapTypes /\ DataHeld /\ PacketHeld /\ NothingLost /\ ~ overrun /\ ~ bad_free
  BY DEF DataInv
<1>2. QED
  BY <1>1 DEF DataHeld, PacketHeld, NothingLost, D!BuffersSound

-----------------------------------------------------------------------------
(* Sending: the ways a packet gets into the socket                         *)

SendTypes ==
    /\ way \in [Sender -> W!Way]
    /\ wpc \in [Sender -> {"idle", "send", "unlock", "done"}]
    /\ piece \in [Sender -> Nat \ {0}] /\ left \in [Sender -> Nat]
    /\ total \in [Sender -> Nat] /\ retval \in [Sender -> {0, 1}]
    /\ wire \in Seq(Sender) /\ lossy \subseteq Sender

\* What the first buffers of a way are together.
ReachOf(w, upto) ==
    /\ upto \in [0 .. Len(W!Ways[w].buffers) -> Nat]
    /\ upto[0] = 0 /\ upto[Len(W!Ways[w].buffers)] = W!Whole
    /\ \A i \in 1 .. Len(W!Ways[w].buffers) : upto[i] = upto[i - 1] + W!Ways[w].buffers[i]
Reach(s) == CHOOSE upto : ReachOf(way[s], upto)

Queues(s) == way[s] = "queue"
Wires(s) == {i \in 1 .. Len(wire) : wire[i] = s}

OneLocks == \A s \in Sender : wpc[s] \in {"send", "unlock"} /\ ~ Queues(s) => write_mutex = s

\* The bytes of a packet lie together, those that were sent last at the end.
Together ==
    \A i, k \in 1 .. Len(wire) : \A j \in i .. k :
        wire[i] = wire[k] => wire[j] = wire[i] \/ Queues(wire[i]) \/ Queues(wire[j])
AtEnd ==
    /\ \A s \in Sender : wpc[s] = "idle" => Wires(s) = {}
    /\ \A s \in Sender : wpc[s] = "send" /\ ~ Queues(s) =>
           \A i, j \in 1 .. Len(wire) : i < j /\ wire[i] = s => wire[j] = s \/ Queues(wire[j])

\* What was sent and is left.
Counted(s) ==
    /\ wpc[s] = "idle" => piece[s] = 1 /\ total[s] = 0 /\ retval[s] = 1
    /\ wpc[s] = "send" => piece[s] <= Len(W!Of(s).buffers) /\ retval[s] = 1
    /\ wpc[s] = "send" /\ s \notin lossy =>
           /\ W!Sent(s) + left[s] = Reach(s)[piece[s]]
           /\ left[s] \in {0, W!Of(s).buffers[piece[s]]}
           /\ W!Of(s).sums => total[s] = W!Sent(s)
           /\ left[s] = 0 /\ way[s] \in {"tcp", "queue"} => total[s] = W!Sent(s)
    /\ wpc[s] = "send" /\ way[s] \in {"tcp", "queue"} => W!Sent(s) + left[s] = W!Whole
    /\ wpc[s] \in {"unlock", "done"} =>
           /\ s \notin lossy => retval[s] = 0 /\ W!Sent(s) = W!Whole
           /\ s \notin lossy /\ way[s] \in {"tcp", "queue", "split", "pieces"} => total[s] = W!Whole
           /\ retval[s] = 0 /\ way[s] \in {"tcp", "queue"} => W!Sent(s) = W!Whole

SendInv == SendTypes /\ OneLocks /\ Together /\ AtEnd /\ \A s \in Sender : Counted(s)

\* What the ways of sending have in common, and how they differ.
WayFacts(w) ==
    /\ W!Ways[w].buffers \in Seq(Nat) /\ Len(W!Ways[w].buffers) > 0
    /\ \A i \in W!Ways[w].skipped : i \in Nat /\ i < Len(W!Ways[w].buffers)
    /\ \E upto : ReachOf(w, upto)
    /\ W!Ways[w].sums \in BOOLEAN /\ W!Ways[w].locks \in BOOLEAN
    /\ W!Ways[w].locks <=> w # "queue"
    /\ w \in {"split", "pieces"} => W!Ways[w].sums
    /\ w \in {"tcp", "queue"} =>
           /\ Len(W!Ways[w].buffers) = 1 /\ W!Ways[w].skipped = {} /\ W!Ways[w].once = {}
           /\ W!Ways[w].told = {1} /\ ~ W!Ways[w].sums /\ W!Ways[w].buffers[1] = W!Whole

\* A packet of one or of two buffers.
LEMMA ReachOne ==
  ASSUME NEW w, W!Ways[w].buffers = <<HeaderSize + Payload>>
  PROVE  \E upto : ReachOf(w, upto)
<1> DEFINE u == [i \in 0 .. 1 |-> IF i = 0 THEN 0 ELSE HeaderSize + Payload]
<1>1. Len(W!Ways[w].buffers) = 1 /\ W!Ways[w].buffers[1] = HeaderSize + Payload
  OBVIOUS
<1>2. HeaderSize + Payload \in Nat /\ u \in [0 .. 1 -> Nat]
  BY SendConf
<1>3. u[0] = 0 /\ u[1] = HeaderSize + Payload /\ \A i \in 1 .. 1 : i = 1 /\ i - 1 = 0
  OBVIOUS
<1> HIDE DEF u
<1>4. ReachOf(w, u)
  BY <1>1, <1>2, <1>3 DEF ReachOf, W!Whole
<1>5. QED
  BY <1>4

LEMMA ReachTwo ==
  ASSUME NEW w, W!Ways[w].buffers = <<HeaderSize, Payload>>
  PROVE  \E upto : ReachOf(w, upto)
<1> DEFINE u == [i \in 0 .. 2 |-> IF i = 0 THEN 0 ELSE IF i = 1 THEN HeaderSize ELSE HeaderSize + Payload]
<1>1. /\ Len(W!Ways[w].buffers) = 2 /\ W!Ways[w].buffers[1] = HeaderSize
      /\ W!Ways[w].buffers[2] = Payload
  OBVIOUS
<1>2. u \in [0 .. 2 -> Nat] /\ HeaderSize \in Nat /\ Payload \in Nat
  BY SendConf
<1>3. u[0] = 0 /\ u[1] = HeaderSize /\ u[2] = HeaderSize + Payload
  OBVIOUS
<1> HIDE DEF u
<1>4. \A i \in 1 .. 2 : u[i] = u[i - 1] + W!Ways[w].buffers[i]
  <2>1. u[1] = u[1 - 1] + W!Ways[w].buffers[1]
    BY <1>1, <1>2, <1>3
  <2>2. u[2] = u[2 - 1] + W!Ways[w].buffers[2]
    BY <1>1, <1>2, <1>3
  <2>3. \A i \in 1 .. 2 : i = 1 \/ i = 2
    OBVIOUS
  <2>4. QED
    BY <2>1, <2>2, <2>3
<1>5. ReachOf(w, u)
  BY <1>1, <1>2, <1>3, <1>4 DEF ReachOf, W!Whole
<1>6. QED
  BY <1>5

\* The pieces follow the header, and their sizes add up to that of the data.
LEMMA ReachPieces ==
  ASSUME NEW w, W!Ways[w].buffers = <<HeaderSize>> \o Pieces
  PROVE  \E upto : ReachOf(w, upto)
<1>1. PICK u \in [0 .. Len(Pieces) -> 0 .. Payload] :
        /\ u[0] = 0 /\ u[Len(Pieces)] = Payload
        /\ \A i \in 1 .. Len(Pieces) : u[i] = u[i - 1] + Pieces[i]
  BY SendConf
<1>2. /\ Pieces \in Seq(Nat) /\ Len(Pieces) \in Nat /\ HeaderSize \in Nat /\ Payload \in Nat
      /\ \A i \in 0 .. Len(Pieces) : u[i] \in Nat
  <2>1. Pieces \in Seq(0 .. Payload) /\ Payload \in Nat /\ HeaderSize \in Nat /\ Len(Pieces) \in Nat
    BY SendConf
  <2>2. Pieces \in Seq(Nat)
    <3>1. 0 .. Payload \subseteq Nat
      BY <2>1
    <3> HIDE DEF W!Whole
    <3>2. QED
      BY <2>1, <3>1, SeqMonotonic
  <2>3. \A i \in 0 .. Len(Pieces) : u[i] \in 0 .. Payload
    BY <1>1
  <2>4. QED
    BY <2>1, <2>2, <2>3
<1> DEFINE v == [i \in 0 .. Len(Pieces) + 1 |-> IF i = 0 THEN 0 ELSE HeaderSize + u[i - 1]]
           b == <<HeaderSize>> \o Pieces
<1>3. b \in Seq(Nat) /\ Len(b) = Len(Pieces) + 1 /\ b[1] = HeaderSize
      /\ \A i \in 2 .. Len(Pieces) + 1 : b[i] = Pieces[i - 1]
  BY <1>2
<1>4. v \in [0 .. Len(Pieces) + 1 -> Nat]
  BY <1>2
<1>5. /\ v[0] = 0 /\ \A i \in 1 .. Len(Pieces) + 1 : v[i] = HeaderSize + u[i - 1]
  <2>1. /\ 0 \in 0 .. Len(Pieces) + 1
        /\ \A i \in 1 .. Len(Pieces) + 1 : i \in 0 .. Len(Pieces) + 1 /\ i # 0
    BY <1>2
  <2> HIDE DEF b
  <2>2. QED
    BY <2>1, Zenon
<1> HIDE DEF v, b
<1>6. v[Len(Pieces) + 1] = HeaderSize + Payload
  <2>1. Len(Pieces) + 1 \in 1 .. Len(Pieces) + 1 /\ (Len(Pieces) + 1) - 1 = Len(Pieces)
    BY <1>2
  <2>2. QED
    BY <1>1, <1>5, <2>1
<1>7. \A i \in 1 .. Len(Pieces) + 1 : v[i] = v[i - 1] + b[i]
  <2> SUFFICES ASSUME NEW i \in 1 .. Len(Pieces) + 1  PROVE v[i] = v[i - 1] + b[i]
    OBVIOUS
  <2>1. CASE i = 1
    BY <1>1, <1>2, <1>3, <1>5, <2>1
  <2>2. CASE i # 1
    <3>1. i - 1 \in 1 .. Len(Pieces) /\ i - 1 \in 1 .. Len(Pieces) + 1 /\ i \in 2 .. Len(Pieces) + 1
          /\ (i - 1) - 1 \in 0 .. Len(Pieces)
      BY <1>2, <2>2
    <3>2. u[i - 1] = u[(i - 1) - 1] + Pieces[i - 1]
      BY <1>1, <3>1
    <3>3. v[i] = HeaderSize + u[i - 1] /\ v[i - 1] = HeaderSize + u[(i - 1) - 1] /\ b[i] = Pieces[i - 1]
      BY <1>3, <1>5, <3>1
    <3>4. u[(i - 1) - 1] \in Nat /\ Pieces[i - 1] \in Nat
      BY <1>2, <3>1
    <3>5. QED
      BY <1>2, <3>2, <3>3, <3>4
  <2>3. QED
    BY <2>1, <2>2
<1>8. W!Ways[w].buffers = b
  BY DEF b
<1>9. ReachOf(w, v)
  BY <1>3, <1>4, <1>5, <1>6, <1>7, <1>8 DEF ReachOf, W!Whole
<1>10. QED
  BY <1>9

LEMMA WaysAre == \A w \in W!Way : WayFacts(w)
<1>0. /\ HeaderSize \in Nat /\ Payload \in Nat
      /\ <<HeaderSize + Payload>> \in Seq(Nat) /\ <<HeaderSize, Payload>> \in Seq(Nat)
  BY SendConf
<1>1. W!Way = {"tcp", "queue", "split", "pieces", "route", "file"}
  BY DEF W!Way, W!Ways
<1>2. WayFacts("tcp")
  <2>1. W!Ways["tcp"] = [locks |-> TRUE, buffers |-> <<HeaderSize + Payload>>, once |-> {},
                       sums |-> FALSE, told |-> {1}, skipped |-> {}]
    BY DEF W!Ways, W!PacketSend
  <2>2. \E upto : ReachOf("tcp", upto)
    BY <2>1, ReachOne
  <2>3. QED
    BY <1>0, <2>1, <2>2 DEF WayFacts, W!Whole
<1>3. WayFacts("queue")
  <2>1. W!Ways["queue"] = [locks |-> FALSE, buffers |-> <<HeaderSize + Payload>>, once |-> {},
                       sums |-> FALSE, told |-> {1}, skipped |-> {}]
    BY DEF W!Ways, W!PacketSend, W!PacketSendActual
  <2>2. \E upto : ReachOf("queue", upto)
    BY <2>1, ReachOne
  <2>3. QED
    BY <1>0, <2>1, <2>2 DEF WayFacts, W!Whole
<1>4. WayFacts("split")
  <2>1. W!Ways["split"] = W!PacketSendSplit
    BY DEF W!Ways
  <2>2. \E upto : ReachOf("split", upto)
    BY <2>1, ReachTwo DEF W!PacketSendSplit
  <2>3. QED
    BY <1>0, <2>1, <2>2 DEF WayFacts, W!PacketSendSplit
<1>5. WayFacts("pieces")
  <2>1. W!Ways["pieces"] = W!PacketSendPieces
    BY DEF W!Ways
  <2>2. \E upto : ReachOf("pieces", upto)
    BY <2>1, ReachPieces DEF W!PacketSendPieces
  <2>3. /\ Len(<<HeaderSize>> \o Pieces) = Len(Pieces) + 1
        /\ <<HeaderSize>> \o Pieces \in Seq(Nat) /\ Len(Pieces) \in Nat
    BY SendConf
  <2>4. QED
    BY <2>1, <2>2, <2>3 DEF WayFacts, W!PacketSendPieces
<1>6. WayFacts("route")
  <2>1. W!Ways["route"] = W!PacketRoute
    BY DEF W!Ways
  <2>2. \E upto : ReachOf("route", upto)
    BY <2>1, ReachTwo DEF W!PacketRoute
  <2>3. QED
    BY <1>0, <2>1, <2>2 DEF WayFacts, W!PacketRoute
<1>7. WayFacts("file")
  <2>1. W!Ways["file"] = W!FileSend
    BY DEF W!Ways
  <2>2. \E upto : ReachOf("file", upto)
    BY <2>1, ReachTwo DEF W!FileSend
  <2>3. QED
    BY <1>0, <2>1, <2>2 DEF WayFacts, W!FileSend
<1>8. QED
  BY <1>1, <1>2, <1>3, <1>4, <1>5, <1>6, <1>7

\* What a send () adds to the wire.
LEMMA WireGrows ==
  ASSUME wire \in Seq(Sender), NEW s \in Sender, NEW n \in Nat \ {0},
         wire' = wire \o [i \in 1 .. n |-> s]
  PROVE  /\ wire' \in Seq(Sender) /\ Len(wire') = Len(wire) + n /\ Len(wire) \in Nat
         /\ \A i \in 1 .. Len(wire) : i \in 1 .. Len(wire') /\ wire'[i] = wire[i] /\ wire[i] \in Sender
         /\ \A i \in 1 .. Len(wire') : i \notin 1 .. Len(wire) => i > Len(wire) /\ wire'[i] = s
<1> DEFINE more == [i \in 1 .. n |-> s]
<1>1. more \in Seq(Sender) /\ Len(more) = n /\ \A i \in 1 .. n : more[i] = s
  OBVIOUS
<1>2. wire' = wire \o more
  OBVIOUS
<1> HIDE DEF more
<1>3. wire' \in Seq(Sender) /\ Len(wire') = Len(wire) + n /\ Len(wire) \in Nat
  BY <1>1, <1>2
<1>4. \A i \in 1 .. Len(wire) : i \in 1 .. Len(wire') /\ wire'[i] = wire[i] /\ wire[i] \in Sender
  BY <1>1, <1>2, <1>3
<1>5. ASSUME NEW i \in 1 .. Len(wire'), i \notin 1 .. Len(wire)
      PROVE  i > Len(wire) /\ wire'[i] = s
  <2>1. i > Len(wire) /\ i - Len(wire) \in 1 .. n
    BY <1>3, <1>5
  <2>2. wire'[i] = more[i - Len(wire)]
    BY <1>1, <1>2, <1>3, <2>1
  <2>3. QED
    BY <1>1, <2>1, <2>2
<1>6. QED
  BY <1>3, <1>4, <1>5

LEMMA SentIs ==
  ASSUME wire \in Seq(Sender)
  PROVE  \A s : /\ W!Sent(s) = Cardinality(Wires(s)) /\ IsFiniteSet(Wires(s)) /\ W!Sent(s) \in Nat
                /\ Wires(s) = {} => W!Sent(s) = 0
<1> TAKE s
<1>1. W!Sent(s) = Cardinality(Wires(s))
  <2>1. DOMAIN wire = 1 .. Len(wire)
    OBVIOUS
  <2>2. {i \in DOMAIN wire : wire[i] = s} = Wires(s)
    BY <2>1 DEF Wires
  <2>3. QED
    BY <2>2, CardinalityIs DEF W!Sent
<1>2. IsFiniteSet(1 .. Len(wire)) /\ Wires(s) \in SUBSET (1 .. Len(wire))
  BY FS_Interval DEF Wires
<1>3. IsFiniteSet(Wires(s))
  BY <1>2, FS_Subset
<1>4. QED
  BY <1>1, <1>3, FS_CardinalityType, FS_EmptySet

LEMMA SentGrows ==
  ASSUME wire \in Seq(Sender), NEW s \in Sender, NEW n \in Nat \ {0},
         wire' = wire \o [i \in 1 .. n |-> s]
  PROVE  /\ W!Sent(s)' = W!Sent(s) + n
         /\ \A t \in Sender : t # s => W!Sent(t)' = W!Sent(t) /\ Wires(t)' = Wires(t)
<1>1. /\ wire' \in Seq(Sender) /\ Len(wire') = Len(wire) + n /\ Len(wire) \in Nat
      /\ \A i \in 1 .. Len(wire) : i \in 1 .. Len(wire') /\ wire'[i] = wire[i]
      /\ \A i \in 1 .. Len(wire') : i \notin 1 .. Len(wire) => i > Len(wire) /\ wire'[i] = s
  BY WireGrows
<1>0. \A t : W!Sent(t)' = Cardinality(Wires(t)')
  <2>1. wire' \in Seq(Sender) => DOMAIN wire' = 1 .. Len(wire')
    OBVIOUS
  <2>2. \A t : {i \in DOMAIN wire' : wire'[i] = t} = Wires(t)'
    BY <1>1, <2>1 DEF Wires
  <2>3. QED
    BY <2>2, CardinalityIs DEF W!Sent
<1>2. ASSUME NEW t \in Sender, t # s  PROVE W!Sent(t)' = W!Sent(t) /\ Wires(t)' = Wires(t)
  <2>1. Wires(t)' = Wires(t)
    BY <1>1, <1>2 DEF Wires
  <2>2. W!Sent(t)' = Cardinality(Wires(t)')
    BY <1>0
  <2>3. QED
    BY <2>1, <2>2, SentIs
<1>3. W!Sent(s)' = W!Sent(s) + n
  <2> DEFINE old == Wires(s)
             added == Len(wire) + 1 .. Len(wire) + n
  <2>1. Wires(s)' = old \cup added
    BY <1>1 DEF Wires
  <2>2. W!Sent(s)' = Cardinality(old \cup added)
    BY <1>0, <2>1
  <2>3. IsFiniteSet(old) /\ Cardinality(old) = W!Sent(s) /\ W!Sent(s) \in Nat
    BY SentIs
  <2>4. old \cap added = {}
    BY <1>1 DEF Wires
  <2>5. IsFiniteSet(added) /\ Cardinality(added) = n
    <3>1. Len(wire) + 1 \in Int /\ Len(wire) + n \in Int /\ ~ Len(wire) + 1 > Len(wire) + n
          /\ (Len(wire) + n) - (Len(wire) + 1) + 1 = n
      BY <1>1
    <3>2. QED
      BY <3>1, FS_Interval
  <2> HIDE DEF old, added
  <2>6. Cardinality(old \cup added) = Cardinality(old) + Cardinality(added) - Cardinality(old \cap added)
    BY <2>3, <2>5, FS_Union
  <2>7. Cardinality(old \cap added) = 0
    BY <2>4, FS_EmptySet
  <2>8. QED
    BY <2>2, <2>3, <2>5, <2>6, <2>7
<1>4. QED
  BY <1>2, <1>3

LEMMA ReachIs ==
  ASSUME SendTypes, NEW s \in Sender
  PROVE  /\ WayFacts(way[s]) /\ ReachOf(way[s], Reach(s)) /\ W!Of(s) = W!Ways[way[s]]
         /\ way[s] \in W!Way
<1>1. WayFacts(way[s]) /\ way[s] \in W!Way
  BY WaysAre DEF SendTypes
<1>2. \E upto : ReachOf(way[s], upto)
  BY <1>1 DEF WayFacts
<1>3. QED
  BY <1>1, <1>2 DEF Reach, W!Of

\* A sender that does not move is counted as before.
LEMMA CountedStays ==
  ASSUME NEW s \in Sender, Counted(s), way' = way, W!Sent(s)' = W!Sent(s), s \in lossy' <=> s \in lossy,
         wpc'[s] = wpc[s], piece'[s] = piece[s], left'[s] = left[s], total'[s] = total[s],
         retval'[s] = retval[s]
  PROVE  Counted(s)'
<1>1. W!Of(s)' = W!Of(s) /\ Reach(s)' = Reach(s)
  BY DEF W!Of, Reach, ReachOf
<1>2. QED
  BY <1>1 DEF Counted

\* The bytes on the wire stay where they are when nothing is sent.
LEMMA WireStays ==
  ASSUME UNCHANGED <<wire, way>>, Together, AtEnd,
         \A s \in Sender : /\ wpc'[s] = "idle" => wpc[s] = "idle"
                           /\ wpc'[s] = "send" => wpc[s] \in {"idle", "send"}
  PROVE  Together' /\ AtEnd' /\ \A s \in Sender : W!Sent(s)' = W!Sent(s)
<1>1. Together' /\ \A s \in Sender : W!Sent(s)' = W!Sent(s) /\ Wires(s)' = Wires(s)
  BY DEF Together, Queues, W!Sent, Wires
<1>2. \A s \in Sender : wpc'[s] = "idle" => Wires(s)' = {}
  BY <1>1 DEF AtEnd
<1>3. ASSUME NEW s \in Sender, wpc'[s] = "send", ~ Queues(s),
             NEW i \in 1 .. Len(wire), NEW j \in 1 .. Len(wire), i < j, wire[i] = s
      PROVE  wire[j] = s \/ Queues(wire[j])
  <2>1. wpc[s] = "send"
    BY <1>3 DEF AtEnd, Wires
  <2>2. QED
    BY <1>3, <2>1 DEF AtEnd
<1>4. QED
  BY <1>1, <1>2, <1>3 DEF AtEnd, Queues

LEMMA LockKeeps ==
  ASSUME SendInv, NEW s \in Sender, W!Lock(s)
  PROVE  SendInv'
<1>1. SendTypes /\ OneLocks /\ Together /\ AtEnd /\ \A t \in Sender : Counted(t)
  BY DEF SendInv
<1>2. /\ wpc[s] = "idle" /\ wpc' = [wpc EXCEPT ![s] = "send"]
      /\ left' = [left EXCEPT ![s] = W!Of(s).buffers[1]]
      /\ UNCHANGED <<way, piece, total, retval, wire, lossy>>
      /\ IF W!Of(s).locks THEN write_mutex = FreeMutex /\ write_mutex' = s ELSE UNCHANGED write_mutex
  BY DEF W!Lock, W!Goto
<1> DEFINE b == W!Of(s).buffers
           u == Reach(s)
<1>3. /\ WayFacts(way[s]) /\ ReachOf(way[s], u) /\ W!Of(s) = W!Ways[way[s]]
  BY <1>1, ReachIs
<1>4. b \in Seq(Nat) /\ Len(b) \in Nat /\ Len(b) > 0 /\ 1 \in 1 .. Len(b) /\ b[1] \in Nat
  BY <1>3 DEF WayFacts
<1>5. u[1] = b[1]
  <2>1. u[0] = 0 /\ u[1] = u[1 - 1] + b[1] /\ 1 - 1 = 0
    BY <1>3, <1>4 DEF ReachOf
  <2>2. QED
    BY <1>4, <2>1
<1>6. /\ wpc'[s] = "send" /\ left'[s] = b[1]
      /\ \A t \in Sender : t # s => wpc'[t] = wpc[t] /\ left'[t] = left[t]
  BY <1>1, <1>2 DEF SendTypes
<1>7. SendTypes'
  <2>1. wpc' \in [Sender -> {"idle", "send", "unlock", "done"}]
    BY <1>1, <1>2 DEF SendTypes
  <2>2. left' \in [Sender -> Nat]
    BY <1>1, <1>2, <1>4 DEF SendTypes
  <2>3. QED
    BY <1>1, <1>2, <2>1, <2>2 DEF SendTypes
<1>8. OneLocks'
  <2>1. W!Of(s).locks <=> ~ Queues(s)
    BY <1>3 DEF WayFacts, Queues
  <2>2. \A t \in Sender : Queues(t)' = Queues(t)
    BY <1>2 DEF Queues
  <2>3. CASE Queues(s)
    BY <1>1, <1>2, <1>6, <2>1, <2>2, <2>3 DEF OneLocks
  <2>4. CASE ~ Queues(s)
    BY <1>1, <1>2, <1>6, <2>1, <2>2, <2>4, SendConf DEF OneLocks
  <2>5. QED
    BY <2>3, <2>4
<1>9. Together' /\ AtEnd' /\ \A t \in Sender : W!Sent(t)' = W!Sent(t)
  BY <1>1, <1>2, <1>6, WireStays
<1>10. \A t \in Sender : t # s => Counted(t)'
  BY <1>1, <1>2, <1>6, <1>9, CountedStays
<1>11. Counted(s)'
  <2>1. W!Of(s)' = W!Of(s) /\ Reach(s)' = Reach(s)
    BY <1>2 DEF W!Of, Reach, ReachOf
  <2>2. W!Sent(s) = 0 /\ piece[s] = 1 /\ total[s] = 0 /\ retval[s] = 1
    BY <1>1, <1>2, SentIs DEF AtEnd, Counted, SendTypes
  <2>3. way[s] \in {"tcp", "queue"} => b[1] = W!Whole
    BY <1>3 DEF WayFacts
  <2>4. 0 + b[1] = b[1] /\ 1 <= Len(b)
    BY <1>4
  <2> HIDE DEF b, u
  <2>5. /\ Reach(s)' = u /\ W!Of(s)'.buffers = b /\ W!Of(s)'.sums = W!Of(s).sums
    BY <2>1 DEF b, u
  <2>6. /\ wpc'[s] = "send" /\ piece'[s] = 1 /\ total'[s] = 0 /\ retval'[s] = 1 /\ left'[s] = b[1]
        /\ W!Sent(s)' = 0 /\ way' = way /\ lossy' = lossy
    BY <1>2, <1>6, <1>9, <2>2
  <2>7. QED
    BY <1>5, <2>1, <2>3, <2>4, <2>5, <2>6 DEF Counted, b
<1>12. QED
  BY <1>7, <1>8, <1>9, <1>10, <1>11 DEF SendInv

\* Nobody else's bytes come between those of a sender that has the mutex.
LEMMA SendKeepsWire ==
  ASSUME SendInv, NEW s \in Sender, NEW n \in Nat \ {0}, wpc[s] = "send", UNCHANGED <<way, wpc>>,
         wire' = wire \o [i \in 1 .. n |-> s]
  PROVE  Together' /\ AtEnd'
<1>1. SendTypes /\ OneLocks /\ Together /\ AtEnd
  BY DEF SendInv
<1>2. /\ wire' \in Seq(Sender) /\ Len(wire') = Len(wire) + n /\ Len(wire) \in Nat
      /\ \A i \in 1 .. Len(wire) : i \in 1 .. Len(wire') /\ wire'[i] = wire[i] /\ wire[i] \in Sender
      /\ \A i \in 1 .. Len(wire') : i \notin 1 .. Len(wire) => i > Len(wire) /\ wire'[i] = s
  BY <1>1, WireGrows DEF SendTypes
<1>3. \A t : Queues(t)' = Queues(t)
  BY DEF Queues
<1>4. \A t \in Sender : t # s => Wires(t)' = Wires(t)
  BY <1>2 DEF Wires
<1>5. Together'
  <2> SUFFICES ASSUME NEW i \in 1 .. Len(wire'), NEW k \in 1 .. Len(wire'), NEW j \in i .. k,
                      wire'[i] = wire'[k], wire'[j] # wire'[i]
               PROVE  Queues(wire'[i]) \/ Queues(wire'[j])
    BY <1>2, <1>3 DEF Together
  <2>1. j \in 1 .. Len(wire') /\ i <= j /\ j <= k /\ i \in Int /\ j \in Int /\ k \in Int
    BY <1>2
  <2>2. CASE k \in 1 .. Len(wire)
    <3>1. i \in 1 .. Len(wire) /\ j \in 1 .. Len(wire)
      BY <1>2, <2>1, <2>2
    <3>2. wire'[i] = wire[i] /\ wire'[j] = wire[j] /\ wire'[k] = wire[k]
      BY <1>2, <2>2, <3>1
    <3>3. QED
      BY <1>1, <2>2, <3>1, <3>2 DEF Together
  <2>3. CASE k \notin 1 .. Len(wire)
    <3>1. wire'[k] = s
      BY <1>2, <2>3
    <3>2. j \in 1 .. Len(wire)
      BY <1>2, <2>1, <3>1
    <3>3. i \in 1 .. Len(wire) /\ i # j
      BY <1>2, <2>1, <3>2
    <3>4. i < j /\ wire[i] = s /\ wire'[j] = wire[j] /\ wire'[i] = s
      BY <1>2, <2>1, <3>1, <3>2, <3>3
    <3>5. QED
      BY <1>1, <3>2, <3>3, <3>4 DEF AtEnd
  <2>4. QED
    BY <2>2, <2>3
<1>6. AtEnd'
  <2>1. \A t \in Sender : wpc'[t] = "idle" => Wires(t)' = {}
    BY <1>1, <1>4 DEF AtEnd
  <2>2. ASSUME NEW t \in Sender, wpc[t] = "send", ~ Queues(t),
               NEW i \in 1 .. Len(wire'), NEW j \in 1 .. Len(wire'), i < j, wire'[i] = t
        PROVE  wire'[j] = t \/ Queues(wire'[j])
    <3>1. CASE j \in 1 .. Len(wire)
      <4>1. i \in 1 .. Len(wire)
        BY <1>2, <2>2, <3>1
      <4>2. wire[i] = t /\ wire'[j] = wire[j]
        BY <1>2, <2>2, <3>1, <4>1
      <4>3. QED
        BY <1>1, <2>2, <3>1, <4>1, <4>2 DEF AtEnd
    <3>2. CASE j \notin 1 .. Len(wire)
      <4>1. wire'[j] = s
        BY <1>2, <3>2
      <4>2. t = s \/ Queues(s)
        BY <1>1, <2>2 DEF OneLocks
      <4>3. QED
        BY <4>1, <4>2
    <3>3. QED
      BY <3>1, <3>2
  <2>3. QED
    BY <1>3, <2>1, <2>2 DEF AtEnd
<1>7. QED
  BY <1>5, <1>6

LEMMA SendKeeps ==
  ASSUME SendInv, NEW s \in Sender, W!Send(s)
  PROVE  SendInv'
<1>1. SendTypes /\ OneLocks /\ Together /\ AtEnd /\ \A t \in Sender : Counted(t)
  BY DEF SendInv
<1>2. PICK n \in 1 .. left[s] :
        /\ wire' = wire \o [i \in 1 .. n |-> s]
        /\ left' = [left EXCEPT ![s] = left[s] - n]
        /\ lossy' = IF n < left[s] THEN lossy \cup {s} ELSE lossy
        /\ total' = [total EXCEPT ![s] = IF W!Of(s).sums THEN total[s] + n ELSE n]
  BY DEF W!Send, W!Write, W!Count
<1>3. wpc[s] = "send" /\ UNCHANGED <<write_mutex, way, wpc, piece, retval>>
  BY DEF W!Send
<1>4. n \in Nat \ {0} /\ n <= left[s] /\ left[s] \in Nat /\ left[s] - n \in Nat /\ total[s] \in Nat
  BY <1>1 DEF SendTypes
<1>5. /\ W!Sent(s)' = W!Sent(s) + n /\ W!Sent(s) \in Nat
      /\ \A t \in Sender : t # s => W!Sent(t)' = W!Sent(t)
  BY <1>1, <1>2, <1>4, SentGrows, SentIs DEF SendTypes
<1>6. /\ left'[s] = left[s] - n
      /\ total'[s] = IF W!Of(s).sums THEN total[s] + n ELSE n
      /\ \A t \in Sender : t # s => left'[t] = left[t] /\ total'[t] = total[t]
                                    /\ (t \in lossy' <=> t \in lossy)
  BY <1>1, <1>2 DEF SendTypes
<1>7. SendTypes'
  <2>1. left' \in [Sender -> Nat]
    BY <1>1, <1>2, <1>4 DEF SendTypes
  <2>2. total' \in [Sender -> Nat]
    <3>1. (IF W!Of(s).sums THEN total[s] + n ELSE n) \in Nat
      <4>1. total[s] + n \in Nat /\ n \in Nat
        BY <1>4
      <4>2. QED
        BY <4>1
    <3>2. QED
      BY <1>1, <1>2, <3>1 DEF SendTypes
  <2>3. wire' \in Seq(Sender)
    BY <1>1, <1>2, <1>4, WireGrows DEF SendTypes
  <2>4. QED
    BY <1>1, <1>2, <1>3, <2>1, <2>2, <2>3 DEF SendTypes
<1>8. OneLocks'
  BY <1>1, <1>3 DEF OneLocks, Queues
<1>9. Together' /\ AtEnd'
  BY <1>2, <1>3, <1>4, SendKeepsWire
<1>10. \A t \in Sender : t # s => Counted(t)'
  BY <1>1, <1>3, <1>5, <1>6, CountedStays
<1>11. Counted(s)'
  <2>1. W!Of(s)' = W!Of(s) /\ Reach(s)' = Reach(s)
    BY <1>3 DEF W!Of, Reach, ReachOf
  <2>2. W!Sent(s)' + left'[s] = W!Sent(s) + left[s]
    BY <1>4, <1>5, <1>6
  <2>3. s \notin lossy' => s \notin lossy /\ n = left[s] /\ left'[s] = 0
    <3>1. s \notin lossy' => s \notin lossy /\ ~ n < left[s]
      BY <1>2
    <3>2. ~ n < left[s] => n = left[s] /\ left'[s] = 0
      BY <1>4, <1>6
    <3>3. QED
      BY <3>1, <3>2
  <2>4. s \notin lossy' /\ W!Of(s).sums => total'[s] = W!Sent(s)'
    BY <1>1, <1>3, <1>5, <1>6, <2>3 DEF Counted
  <2>5. s \notin lossy' /\ way[s] \in {"tcp", "queue"} => total'[s] = W!Sent(s)'
    <3> SUFFICES ASSUME s \notin lossy', way[s] \in {"tcp", "queue"}  PROVE total'[s] = W!Sent(s)'
      OBVIOUS
    <3>1. WayFacts(way[s]) /\ W!Of(s) = W!Ways[way[s]]
      BY <1>1, ReachIs
    <3>2. ~ W!Of(s).sums /\ W!Of(s).buffers[1] = W!Whole /\ Len(W!Of(s).buffers) = 1
      BY <3>1 DEF WayFacts
    <3>3. piece[s] = 1
      <4>1. piece[s] <= 1 /\ piece[s] \in Nat \ {0}
        BY <1>1, <1>3, <3>2 DEF Counted, SendTypes
      <4>2. QED
        BY <4>1
    <3>4. left[s] \in {0, W!Whole} /\ W!Sent(s) + left[s] = W!Whole
      BY <1>1, <1>3, <2>3, <3>2, <3>3 DEF Counted
    <3>5. W!Sent(s) + n = n
      BY <1>4, <1>5, <2>3, <3>4
    <3>6. QED
      BY <1>5, <1>6, <3>2, <3>5
  <2>6. QED
    BY <1>1, <1>3, <2>1, <2>2, <2>3, <2>4, <2>5 DEF Counted
<1>12. QED
  BY <1>7, <1>8, <1>9, <1>10, <1>11 DEF SendInv

\* A sender goes on with the next buffer, or is done.
LEMMA AdvanceKeeps ==
  ASSUME SendInv, NEW s \in Sender, W!Advance(s)
  PROVE  SendInv'
<1>1. SendTypes /\ OneLocks /\ Together /\ AtEnd /\ \A t \in Sender : Counted(t)
  BY DEF SendInv
<1> DEFINE b == W!Of(s).buffers
           u == Reach(s)
           more == piece[s] < Len(b)
<1>2. /\ wpc[s] = "send" /\ UNCHANGED <<write_mutex, way, total, wire, lossy>>
      /\ left[s] = 0 \/ (piece[s] \in W!Of(s).once /\ left[s] < b[piece[s]])
      /\ more => /\ piece' = [piece EXCEPT ![s] = piece[s] + 1]
                 /\ left' = [left EXCEPT ![s] = b[piece[s] + 1]]
                 /\ UNCHANGED <<wpc, retval>>
      /\ ~ more => /\ retval' = [retval EXCEPT ![s] = 0]
                   /\ wpc' = [wpc EXCEPT ![s] = "unlock"]
                   /\ UNCHANGED <<piece, left>>
  BY DEF W!Advance
<1>3. /\ WayFacts(way[s]) /\ ReachOf(way[s], u) /\ W!Of(s) = W!Ways[way[s]]
  BY <1>1, ReachIs
<1>4. /\ b \in Seq(Nat) /\ Len(b) \in Nat /\ piece[s] \in Nat \ {0} /\ piece[s] <= Len(b)
      /\ left[s] \in Nat /\ b[piece[s]] \in Nat
  <2>1. b \in Seq(Nat)
    BY <1>3 DEF WayFacts
  <2>2. Len(b) \in Nat /\ piece[s] \in Nat \ {0} /\ piece[s] <= Len(b) /\ left[s] \in Nat
    BY <1>1, <1>2, <2>1 DEF SendTypes, Counted
  <2>3. QED
    BY <2>1, <2>2
<1>5. more => piece[s] + 1 \in 1 .. Len(b) /\ b[piece[s] + 1] \in Nat
  BY <1>4
<1> HIDE DEF more
<1>6. /\ more => piece'[s] = piece[s] + 1 /\ left'[s] = b[piece[s] + 1] /\ wpc'[s] = "send" /\ retval'[s] = retval[s]
      /\ ~ more => retval'[s] = 0 /\ wpc'[s] = "unlock"
      /\ \A t \in Sender : t # s => /\ wpc'[t] = wpc[t] /\ left'[t] = left[t] /\ piece'[t] = piece[t]
                                    /\ retval'[t] = retval[t]
  BY <1>1, <1>2 DEF SendTypes
<1>7. SendTypes'
  <2>1. CASE more
    <3>1. piece[s] + 1 \in Nat \ {0} /\ b[piece[s] + 1] \in Nat
      BY <1>4, <1>5, <2>1
    <3> HIDE DEF b
    <3>2. piece' \in [Sender -> Nat \ {0}] /\ left' \in [Sender -> Nat]
      BY <1>1, <1>2, <2>1, <3>1 DEF SendTypes
    <3>3. QED
      BY <1>1, <1>2, <2>1, <3>2 DEF SendTypes
  <2>2. CASE ~ more
    <3>1. wpc' \in [Sender -> {"idle", "send", "unlock", "done"}] /\ retval' \in [Sender -> {0, 1}]
      BY <1>1, <1>2, <2>2 DEF SendTypes
    <3>2. QED
      BY <1>1, <1>2, <2>2, <3>1 DEF SendTypes
  <2>3. QED
    BY <2>1, <2>2
<1>8. OneLocks'
  BY <1>1, <1>2, <1>6 DEF OneLocks, Queues
<1>9. Together' /\ AtEnd' /\ \A t \in Sender : W!Sent(t)' = W!Sent(t)
  BY <1>1, <1>2, <1>6, WireStays
<1>10. \A t \in Sender : t # s => Counted(t)'
  BY <1>1, <1>2, <1>6, <1>9, CountedStays
<1>11. s \notin lossy => left[s] = 0 /\ W!Sent(s) = u[piece[s]] /\ (W!Of(s).sums => total[s] = W!Sent(s))
  <2> SUFFICES ASSUME s \notin lossy
               PROVE  left[s] = 0 /\ W!Sent(s) = u[piece[s]] /\ (W!Of(s).sums => total[s] = W!Sent(s))
    OBVIOUS
  <2>1. left[s] \in {0, b[piece[s]]} /\ W!Sent(s) + left[s] = u[piece[s]] /\ (W!Of(s).sums => total[s] = W!Sent(s))
    BY <1>1, <1>2 DEF Counted
  <2>2. left[s] = 0
    BY <1>2, <1>4, <2>1
  <2>3. W!Sent(s) \in Nat
    BY <1>1, SentIs DEF SendTypes
  <2>4. W!Sent(s) = u[piece[s]]
    BY <2>1, <2>2, <2>3
  <2>5. QED
    BY <2>1, <2>2, <2>4
<1>12. Counted(s)'
  <2>1. W!Of(s)' = W!Of(s) /\ Reach(s)' = Reach(s)
    BY <1>2 DEF W!Of, Reach, ReachOf
  <2>2. way[s] \in {"tcp", "queue"} => ~ more /\ left[s] = 0 /\ W!Sent(s) = W!Whole
    <3> SUFFICES ASSUME way[s] \in {"tcp", "queue"}  PROVE ~ more /\ left[s] = 0 /\ W!Sent(s) = W!Whole
      OBVIOUS
    <3>1. Len(b) = 1 /\ W!Of(s).once = {}
      BY <1>3 DEF WayFacts
    <3>2. ~ more
      BY <1>4, <3>1 DEF more
    <3>3. left[s] = 0 /\ W!Sent(s) + left[s] = W!Whole /\ W!Sent(s) \in Nat
      BY <1>1, <1>2, <3>1, SentIs DEF Counted, SendTypes
    <3>4. QED
      BY <3>2, <3>3
  <2>3. CASE more
    <3>1. s \notin lossy => W!Sent(s) + b[piece[s] + 1] = u[piece[s] + 1]
      <4>1. (piece[s] + 1) - 1 = piece[s]
        BY <1>4
      <4>2. u[piece[s] + 1] = u[piece[s]] + b[piece[s] + 1]
        BY <1>3, <1>5, <2>3, <4>1 DEF ReachOf
      <4>3. QED
        BY <1>11, <4>2
    <3>2. piece[s] + 1 <= Len(b)
      BY <1>4, <1>5, <2>3
    <3>3. /\ wpc'[s] = "send" /\ piece'[s] = piece[s] + 1 /\ left'[s] = b[piece[s] + 1] /\ retval'[s] = retval[s]
          /\ way' = way /\ total' = total /\ lossy' = lossy /\ W!Sent(s)' = W!Sent(s)
      BY <1>2, <1>6, <1>9, <2>3
    <3>4. retval[s] = 1 /\ way[s] \notin {"tcp", "queue"}
      BY <1>1, <1>2, <2>2, <2>3 DEF Counted
    <3>5. /\ Reach(s)' = u /\ W!Of(s)'.buffers = b /\ W!Of(s)'.sums = W!Of(s).sums
      BY <2>1
    <3> HIDE DEF b, u
    <3>6. QED
      BY <1>11, <3>1, <3>2, <3>3, <3>4, <3>5 DEF Counted
  <2>4. CASE ~ more
    <3>1. piece[s] = Len(b)
      BY <1>4, <2>4 DEF more
    <3>2. s \notin lossy => W!Sent(s) = W!Whole
      BY <1>3, <1>11, <3>1 DEF ReachOf
    <3>3. /\ wpc'[s] = "unlock" /\ retval'[s] = 0
          /\ way' = way /\ total' = total /\ lossy' = lossy /\ W!Sent(s)' = W!Sent(s)
      BY <1>2, <1>6, <1>9, <2>4
    <3>4. s \notin lossy /\ way[s] \in {"split", "pieces"} => total[s] = W!Whole
      BY <1>3, <1>11, <3>2 DEF WayFacts
    <3>5. s \notin lossy /\ way[s] \in {"tcp", "queue"} => total[s] = W!Whole
      BY <1>1, <1>2, <2>2 DEF Counted
    <3>6. QED
      BY <2>2, <3>2, <3>3, <3>4, <3>5 DEF Counted
  <2>5. QED
    BY <2>3, <2>4
<1>13. QED
  BY <1>7, <1>8, <1>9, <1>10, <1>12 DEF SendInv

LEMMA SendFailsKeeps ==
  ASSUME SendInv, NEW s \in Sender, W!SendFails(s)
  PROVE  SendInv'
<1>1. SendTypes /\ OneLocks /\ Together /\ AtEnd /\ \A t \in Sender : Counted(t)
  BY DEF SendInv
<1> DEFINE b == W!Of(s).buffers
           goesOn == piece[s] \in W!Of(s).skipped
           told == IF piece[s] \in W!Of(s).told THEN 1 ELSE 0
<1>2. /\ wpc[s] = "send" /\ UNCHANGED <<write_mutex, way, total, wire>>
      /\ lossy' = lossy \cup {s}
      /\ goesOn => /\ piece' = [piece EXCEPT ![s] = piece[s] + 1]
                   /\ left' = [left EXCEPT ![s] = b[piece[s] + 1]]
                   /\ UNCHANGED <<wpc, retval>>
      /\ ~ goesOn => /\ retval' = [retval EXCEPT ![s] = told]
                     /\ wpc' = [wpc EXCEPT ![s] = "unlock"]
                     /\ UNCHANGED <<piece, left>>
  BY DEF W!SendFails
<1>3. WayFacts(way[s]) /\ W!Of(s) = W!Ways[way[s]]
  BY <1>1, ReachIs
<1>4. b \in Seq(Nat) /\ Len(b) \in Nat /\ piece[s] \in Nat \ {0} /\ piece[s] <= Len(b) /\ told \in {0, 1}
  <2>1. b \in Seq(Nat)
    BY <1>3 DEF WayFacts
  <2>2. QED
    BY <1>1, <1>2, <2>1 DEF SendTypes, Counted
<1>5. goesOn => piece[s] + 1 \in 1 .. Len(b) /\ b[piece[s] + 1] \in Nat
  <2>1. goesOn => piece[s] < Len(b)
    BY <1>3 DEF WayFacts
  <2> HIDE DEF goesOn
  <2>2. QED
    BY <1>4, <2>1
<1>6. way[s] \in {"tcp", "queue"} => ~ goesOn /\ told = 1
  <2> SUFFICES ASSUME way[s] \in {"tcp", "queue"}  PROVE ~ goesOn /\ told = 1
    OBVIOUS
  <2>1. Len(b) = 1 /\ W!Of(s).skipped = {} /\ W!Of(s).told = {1}
    BY <1>3 DEF WayFacts
  <2>2. piece[s] = 1
    BY <1>4, <2>1
  <2>3. QED
    BY <2>1, <2>2
<1> HIDE DEF goesOn, told
<1>7. /\ goesOn => piece'[s] = piece[s] + 1 /\ left'[s] = b[piece[s] + 1] /\ wpc'[s] = "send" /\ retval'[s] = retval[s]
      /\ ~ goesOn => retval'[s] = told /\ wpc'[s] = "unlock"
      /\ \A t \in Sender : t # s => /\ wpc'[t] = wpc[t] /\ left'[t] = left[t] /\ piece'[t] = piece[t]
                                    /\ retval'[t] = retval[t] /\ (t \in lossy' <=> t \in lossy)
  BY <1>1, <1>2 DEF SendTypes
<1>8. SendTypes'
  <2>1. CASE goesOn
    <3>1. piece[s] + 1 \in Nat \ {0} /\ b[piece[s] + 1] \in Nat
      BY <1>4, <1>5, <2>1
    <3> HIDE DEF b
    <3>2. piece' \in [Sender -> Nat \ {0}] /\ left' \in [Sender -> Nat]
      BY <1>1, <1>2, <2>1, <3>1 DEF SendTypes
    <3>3. QED
      BY <1>1, <1>2, <2>1, <3>2 DEF SendTypes
  <2>2. CASE ~ goesOn
    <3>1. wpc' \in [Sender -> {"idle", "send", "unlock", "done"}] /\ retval' \in [Sender -> {0, 1}]
      BY <1>1, <1>2, <1>4, <2>2 DEF SendTypes
    <3>2. QED
      BY <1>1, <1>2, <2>2, <3>1 DEF SendTypes
  <2>3. QED
    BY <2>1, <2>2
<1>9. OneLocks'
  BY <1>1, <1>2, <1>7 DEF OneLocks, Queues
<1>10. Together' /\ AtEnd' /\ \A t \in Sender : W!Sent(t)' = W!Sent(t)
  BY <1>1, <1>2, <1>7, WireStays
<1>11. \A t \in Sender : t # s => Counted(t)'
  BY <1>1, <1>2, <1>7, <1>10, CountedStays
<1>12. Counted(s)'
  <2>1. W!Of(s)' = W!Of(s)
    BY <1>2 DEF W!Of
  <2>2. s \in lossy' /\ way' = way
    BY <1>2
  <2>3. CASE goesOn
    <3>1. /\ wpc'[s] = "send" /\ piece'[s] = piece[s] + 1 /\ retval'[s] = 1
          /\ piece'[s] <= Len(W!Of(s)'.buffers) /\ way[s] \notin {"tcp", "queue"}
      BY <1>1, <1>2, <1>4, <1>5, <1>6, <1>7, <2>1, <2>3 DEF Counted
    <3>2. QED
      BY <2>2, <3>1 DEF Counted
  <2>4. CASE ~ goesOn
    BY <1>6, <1>7, <2>2, <2>4 DEF Counted
  <2>5. QED
    BY <2>3, <2>4
<1>13. QED
  BY <1>8, <1>9, <1>10, <1>11, <1>12 DEF SendInv

LEMMA UnlockKeeps ==
  ASSUME SendInv, NEW s \in Sender, W!Unlock(s)
  PROVE  SendInv'
<1>1. SendTypes /\ OneLocks /\ Together /\ AtEnd /\ \A t \in Sender : Counted(t)
  BY DEF SendInv
<1>2. /\ wpc[s] = "unlock" /\ wpc' = [wpc EXCEPT ![s] = "done"]
      /\ write_mutex' = (IF W!Of(s).locks THEN FreeMutex ELSE write_mutex)
      /\ UNCHANGED <<way, piece, left, total, retval, wire, lossy>>
  BY DEF W!Unlock, W!Goto
<1>3. wpc'[s] = "done" /\ \A t \in Sender : t # s => wpc'[t] = wpc[t]
  BY <1>1, <1>2 DEF SendTypes
<1>4. SendTypes'
  <2>1. wpc' \in [Sender -> {"idle", "send", "unlock", "done"}]
    BY <1>1, <1>2 DEF SendTypes
  <2>2. QED
    BY <1>1, <1>2, <2>1 DEF SendTypes
<1>5. OneLocks'
  <2> SUFFICES ASSUME NEW t \in Sender, wpc'[t] \in {"send", "unlock"}, ~ Queues(t)
               PROVE  write_mutex' = t
    BY <1>2 DEF OneLocks, Queues
  <2>1. t # s /\ wpc[t] \in {"send", "unlock"} /\ write_mutex = t
    BY <1>1, <1>3 DEF OneLocks
  <2>2. W!Of(s).locks <=> ~ Queues(s)
    BY <1>1, ReachIs DEF WayFacts, Queues
  <2>3. ~ W!Of(s).locks
    BY <1>1, <1>2, <2>1, <2>2 DEF OneLocks
  <2>4. QED
    BY <1>2, <2>1, <2>3
<1>6. Together' /\ AtEnd' /\ \A t \in Sender : W!Sent(t)' = W!Sent(t)
  BY <1>1, <1>2, <1>3, WireStays
<1>7. \A t \in Sender : t # s => Counted(t)'
  BY <1>1, <1>2, <1>3, <1>6, CountedStays
<1>8. Counted(s)'
  BY <1>1, <1>2, <1>3, <1>6 DEF Counted
<1>9. QED
  BY <1>4, <1>5, <1>6, <1>7, <1>8 DEF SendInv

LEMMA SendInitHolds ==
  ASSUME W!Init
  PROVE  SendInv
<1>1. /\ wire = <<>> /\ lossy = {} /\ way \in [Sender -> W!Way]
      /\ wpc = [s \in Sender |-> "idle"] /\ piece = [s \in Sender |-> 1]
      /\ left = [s \in Sender |-> 0] /\ total = [s \in Sender |-> 0] /\ retval = [s \in Sender |-> 1]
  BY DEF W!Init
<1>2. wire \in Seq(Sender) /\ Len(wire) = 0 /\ \A i : i \notin 1 .. Len(wire)
  BY <1>1
<1>3. SendTypes
  BY <1>1, <1>2 DEF SendTypes
<1>4. OneLocks /\ Together /\ AtEnd
  BY <1>1, <1>2 DEF OneLocks, Together, AtEnd, Wires
<1>5. \A s \in Sender : Counted(s)
  BY <1>1 DEF Counted
<1>6. QED
  BY <1>3, <1>4, <1>5 DEF SendInv

\* However many threads send on a socket, in whatever way, those that hold its
\* mutex keep their bytes together, and are counted right.
THEOREM SendInvariant == W!Init /\ [][W!Next]_(W!vars) => []SendInv
<1>1. W!Init => SendInv
  BY SendInitHolds
<1>2. SendInv /\ [W!Next]_(W!vars) => SendInv'
  <2> SUFFICES ASSUME SendInv, [W!Next]_(W!vars)  PROVE SendInv'
    OBVIOUS
  <2>1. CASE UNCHANGED W!vars
    <3>1. UNCHANGED <<write_mutex, way, wpc, piece, left, total, retval, wire, lossy>>
      BY <2>1 DEF W!vars
    <3>2. SendTypes' /\ OneLocks'
      BY <3>1 DEF SendInv, SendTypes, OneLocks, Queues
    <3>3. Together' /\ AtEnd' /\ \A s \in Sender : W!Sent(s)' = W!Sent(s)
      BY <3>1, WireStays DEF SendInv
    <3>4. \A s \in Sender : Counted(s)'
      BY <3>1, <3>3, CountedStays DEF SendInv
    <3>5. QED
      BY <3>2, <3>3, <3>4 DEF SendInv
  <2>2. CASE W!Next
    <3>1. PICK s \in Sender : W!Lock(s) \/ W!Send(s) \/ W!Advance(s) \/ W!SendFails(s) \/ W!Unlock(s)
      BY <2>2 DEF W!Next
    <3>2. QED
      BY <3>1, LockKeeps, SendKeeps, AdvanceKeeps, SendFailsKeeps, UnlockKeeps
  <2>3. QED
    BY <2>1, <2>2
<1>3. QED
  BY <1>1, <1>2, PTL

LEMMA SendInvSuffices == SendInv => W!PacketsWhole
<1> SUFFICES ASSUME SendInv  PROVE W!PacketsWhole
  OBVIOUS
<1>1. wire \in Seq(Sender) /\ DOMAIN wire = 1 .. Len(wire)
  BY DEF SendInv, SendTypes
<1>2. ASSUME NEW i \in DOMAIN wire, NEW k \in DOMAIN wire, NEW j \in i .. k, wire[i] = wire[k]
      PROVE  wire[j] = wire[i] \/ "queue" \in {way[wire[i]], way[wire[j]]}
  <2>1. i \in 1 .. Len(wire) /\ k \in 1 .. Len(wire)
    BY <1>1
  <2>2. wire[j] = wire[i] \/ Queues(wire[i]) \/ Queues(wire[j])
    BY <1>2, <2>1 DEF SendInv, Together
  <2>3. QED
    BY <2>2 DEF Queues
<1>3. ASSUME NEW s \in Sender, wpc[s] = "done"
      PROVE  /\ s \notin lossy => retval[s] = 0 /\ W!Sent(s) = W!Whole
             /\ s \notin lossy /\ way[s] \in {"tcp", "queue", "split", "pieces"} => total[s] = W!Whole
             /\ retval[s] = 0 /\ way[s] \in {"tcp", "queue"} => W!Sent(s) = W!Whole
  BY <1>3 DEF SendInv, Counted
<1>4. QED
  BY <1>2, <1>3 DEF W!PacketsWhole

-----------------------------------------------------------------------------
(* Files: file_receive_actual ()                                           *)

FileTypes ==
    /\ fpc \in {"open", "write", "receive", "move", "done"}
    /\ filelen \in Nat /\ file_data_len \in 0 .. filelen /\ file_left \in Nat /\ position \in Nat
    /\ available \in Nat /\ pipe \in Seq(Nat) /\ file \in Seq(Nat)
    /\ got \in {0, 1} /\ short \in BOOLEAN

\* What was taken from the socket lies in its order in the file, and then in the
\* pipe.
Rising ==
    /\ \A i, j \in 1 .. Len(file) : i < j => file[i] < file[j]
    /\ \A i, j \in 1 .. Len(pipe) : i < j => pipe[i] < pipe[j]
    /\ \A i \in 1 .. Len(file), j \in 1 .. Len(pipe) : file[i] < pipe[j]
    /\ \A i \in 1 .. Len(file) : file[i] <= position
    /\ \A i \in 1 .. Len(pipe) : pipe[i] <= position

\* What may still be asked for does not go past the end of the file.
Within ==
    /\ fpc \in {"open", "write"} =>
           position = file_data_len /\ pipe = <<>> /\ file = <<>> /\ ~ short
    /\ fpc = "receive" => file_left > 0 /\ position + file_left <= filelen
    /\ fpc = "move" => file_left > 0 /\ position + file_left <= filelen + F!Asked
    /\ position <= filelen
    /\ got = 0 => fpc = "done"

\* Without a short call the length is exact.
Exact ==
    ~ short =>
        /\ \A i \in 1 .. Len(file) : file[i] = i
        /\ fpc = "receive" => position + file_left = filelen /\ pipe = <<>> /\ Len(file) = position
        /\ fpc = "move" =>
               /\ position + file_left = filelen + F!Asked
               /\ Len(file) + F!Asked = position /\ Len(pipe) = F!Asked
               /\ \A i \in 1 .. Len(pipe) : pipe[i] = Len(file) + i
        /\ got = 0 => position = filelen /\ pipe = <<>> /\ Len(file) = filelen

FileInv == FileTypes /\ Rising /\ Within /\ Exact

\* The bytes that follow the first ones.
LEMMA NumbersAre ==
  ASSUME NEW from \in Nat, NEW n \in Nat
  PROVE  /\ F!Numbers(from, n) \in Seq(Nat) /\ Len(F!Numbers(from, n)) = n
         /\ \A i \in 1 .. n : F!Numbers(from, n)[i] = from + i
BY DEF F!Numbers

\* A concatenation, element by element.
LEMMA Joined ==
  ASSUME NEW s \in Seq(Nat), NEW t \in Seq(Nat)
  PROVE  /\ s \o t \in Seq(Nat) /\ Len(s \o t) = Len(s) + Len(t)
         /\ \A i \in 1 .. Len(s) : (s \o t)[i] = s[i]
         /\ \A i \in Len(s) + 1 .. Len(s) + Len(t) : i - Len(s) \in 1 .. Len(t) /\ (s \o t)[i] = t[i - Len(s)]
OBVIOUS

\* The two parts of a sequence that is cut after n.
LEMMA Parted ==
  ASSUME NEW s \in Seq(Nat), NEW n \in 1 .. Len(s)
  PROVE  /\ SubSeq(s, 1, n) \in Seq(Nat) /\ Len(SubSeq(s, 1, n)) = n
         /\ \A i \in 1 .. n : SubSeq(s, 1, n)[i] = s[i]
         /\ SubSeq(s, n + 1, Len(s)) \in Seq(Nat) /\ Len(SubSeq(s, n + 1, Len(s))) = Len(s) - n
         /\ \A i \in 1 .. Len(s) - n : SubSeq(s, n + 1, Len(s))[i] = s[n + i]
<1>1. n \in Int /\ Len(s) \in Int /\ n + 1 \in Int /\ 1 \in Int /\ 1 <= n /\ n <= Len(s)
  OBVIOUS
<1>2. /\ \A i \in 1 .. n : s[i] \in Nat
      /\ \A i \in n + 1 .. Len(s) : s[i] \in Nat
  BY <1>1
<1>3. /\ SubSeq(s, 1, n) \in Seq(Nat) /\ Len(SubSeq(s, 1, n)) = IF 1 <= n THEN n - 1 + 1 ELSE 0
      /\ \A i \in 1 .. n - 1 + 1 : SubSeq(s, 1, n)[i] = s[1 + i - 1]
  BY <1>1, <1>2, SubSeqProperties
<1>4. /\ SubSeq(s, n + 1, Len(s)) \in Seq(Nat)
      /\ Len(SubSeq(s, n + 1, Len(s))) = IF n + 1 <= Len(s) THEN Len(s) - (n + 1) + 1 ELSE 0
      /\ \A i \in 1 .. Len(s) - (n + 1) + 1 : SubSeq(s, n + 1, Len(s))[i] = s[n + 1 + i - 1]
  BY <1>1, <1>2, SubSeqProperties
<1>5. Len(SubSeq(s, 1, n)) = n /\ Len(SubSeq(s, n + 1, Len(s))) = Len(s) - n
  BY <1>1, <1>3, <1>4
<1>6. /\ \A i \in 1 .. n : i \in 1 .. n - 1 + 1 /\ 1 + i - 1 = i
      /\ \A i \in 1 .. Len(s) - n : i \in 1 .. Len(s) - (n + 1) + 1 /\ n + 1 + i - 1 = n + i
  BY <1>1
<1>7. /\ \A i \in 1 .. n : SubSeq(s, 1, n)[i] = s[i]
      /\ \A i \in 1 .. Len(s) - n : SubSeq(s, n + 1, Len(s))[i] = s[n + i]
  BY <1>3, <1>4, <1>6, Zenon
<1>8. QED
  BY <1>3, <1>4, <1>5, <1>7

LEMMA AskedIs ==
  ASSUME FileTypes
  PROVE  F!Asked \in Nat /\ F!Asked <= file_left /\ (file_left > 0 => F!Asked > 0)
BY FileConf DEF FileTypes, F!Asked

LEMMA FileInitHolds ==
  ASSUME F!Init
  PROVE  FileInv
<1>1. filelen \in Nat /\ file_data_len \in 0 .. filelen
  BY FileConf DEF F!Init
<1>2. FileTypes
  <2>1. position \in Nat /\ available \in Nat /\ pipe \in Seq(Nat) /\ file \in Seq(Nat)
    BY <1>1 DEF F!Init
  <2>2. short \in BOOLEAN
    BY DEF F!Init
  <2>3. QED
    BY <1>1, <2>1, <2>2 DEF F!Init, FileTypes
<1>3. Rising /\ Within /\ Exact
  BY <1>1 DEF F!Init, Rising, Within, Exact
<1>4. QED
  BY <1>2, <1>3 DEF FileInv

LEMMA FileBegins ==
  ASSUME FileInv, F!OtherSends \/ F!Open \/ F!Fails
  PROVE  FileInv'
<1>1. UNCHANGED <<filelen, file_data_len, file_left, position, pipe, file, got, short>> /\ F!Asked' = F!Asked
  BY DEF F!OtherSends, F!Open, F!Fails, F!Asked
<1>2. fpc' = fpc \/ (fpc = "open" /\ fpc' = "write") \/ fpc' = "done"
  BY DEF F!OtherSends, F!Open, F!Fails
<1>3. available' \in Nat
  BY DEF FileInv, FileTypes, F!OtherSends, F!Open, F!Fails
<1>4. FileTypes'
  BY <1>1, <1>2, <1>3 DEF FileInv, FileTypes
<1>5. Rising' /\ Within' /\ Exact'
  BY <1>1, <1>2 DEF FileInv, Rising, Within, Exact
<1>6. QED
  BY <1>4, <1>5 DEF FileInv

LEMMA WriteFirstKeeps ==
  ASSUME FileInv, F!WriteFirst
  PROVE  FileInv'
<1>1. /\ fpc = "write" /\ position = file_data_len /\ pipe = <<>> /\ got # 0
      /\ file_data_len \in Nat /\ filelen \in Nat /\ file_data_len <= filelen
      /\ UNCHANGED <<filelen, file_data_len, available, position, pipe, got>>
  BY DEF FileInv, FileTypes, Within, F!WriteFirst
<1>2. file_left' = filelen - file_data_len /\ file_left' \in Nat /\ fpc' = IF file_left' > 0 THEN "receive" ELSE "done"
  BY <1>1 DEF F!WriteFirst
<1>3. \/ /\ file' \in Seq(Nat) /\ Len(file') = file_data_len /\ short' = short
         /\ \A i \in 1 .. Len(file') : file'[i] = i
      \/ file' = <<>> /\ short'
  <2>1. /\ F!Numbers(0, file_data_len) \in Seq(Nat) /\ Len(F!Numbers(0, file_data_len)) = file_data_len
        /\ \A i \in 1 .. file_data_len : F!Numbers(0, file_data_len)[i] = i
    BY <1>1 DEF F!Numbers
  <2>2. QED
    BY <1>1, <2>1 DEF F!WriteFirst
<1>4. FileTypes'
  BY <1>1, <1>2, <1>3 DEF FileInv, FileTypes
<1>5. Rising'
  BY <1>1, <1>3 DEF Rising
<1>6. Within'
  BY <1>1, <1>2 DEF Within
<1>7. Exact'
  BY <1>1, <1>2, <1>3 DEF Exact
<1>8. QED
  BY <1>4, <1>5, <1>6, <1>7 DEF FileInv

LEMMA FileReceiveKeeps ==
  ASSUME FileInv, F!Receive
  PROVE  FileInv'
<1> USE DEF FileInv
<1>1. /\ fpc = "receive" /\ fpc' = "move" /\ got # 0
      /\ UNCHANGED <<filelen, file_data_len, file_left, available, file, got>> /\ F!Asked' = F!Asked
  BY DEF Within, F!Receive, F!Asked
<1>2. F!Asked \in Nat /\ F!Asked <= file_left /\ file_left > 0 /\ position + file_left <= filelen
  BY <1>1, AskedIs DEF Within
<1>3. PICK n \in 1 .. F!Asked :
        /\ pipe' = pipe \o F!Numbers(position, n) /\ position' = position + n
        /\ short' = (short \/ n < F!Asked)
  BY DEF F!Receive
<1>4. n \in Nat /\ n >= 1 /\ n <= F!Asked /\ position \in Nat /\ pipe \in Seq(Nat) /\ file \in Seq(Nat)
      /\ filelen \in Nat /\ file_left \in Nat
  BY <1>2 DEF FileTypes
<1>5. /\ pipe' \in Seq(Nat) /\ Len(pipe') = Len(pipe) + n
      /\ \A i \in 1 .. Len(pipe) : pipe'[i] = pipe[i]
      /\ \A i \in Len(pipe) + 1 .. Len(pipe) + n : pipe'[i] = position + (i - Len(pipe))
  <2> DEFINE t == F!Numbers(position, n)
  <2>1. t \in Seq(Nat) /\ Len(t) = n /\ \A i \in 1 .. n : t[i] = position + i
    BY <1>4, NumbersAre
  <2>2. pipe' = pipe \o t
    BY <1>3
  <2> HIDE DEF t
  <2>3. /\ pipe' \in Seq(Nat) /\ Len(pipe') = Len(pipe) + n
        /\ \A i \in 1 .. Len(pipe) : pipe'[i] = pipe[i]
        /\ \A i \in Len(pipe) + 1 .. Len(pipe) + n :
               i - Len(pipe) \in 1 .. n /\ pipe'[i] = t[i - Len(pipe)]
    BY <1>4, <2>1, <2>2, Joined
  <2>4. QED
    BY <2>1, <2>3
<1>6. FileTypes'
  BY <1>1, <1>3, <1>4, <1>5 DEF FileTypes
<1>7. Rising'
  <2>0. /\ Len(pipe) \in Nat
        /\ \A j \in 1 .. Len(pipe') :
               \/ j \in 1 .. Len(pipe) /\ pipe'[j] = pipe[j] /\ pipe[j] \in Nat
               \/ j > Len(pipe) /\ pipe'[j] = position + (j - Len(pipe)) /\ pipe'[j] > position
    <3>1. Len(pipe) \in Nat /\ \A j \in 1 .. Len(pipe) : pipe[j] \in Nat
      BY <1>4
    <3>2. ASSUME NEW j \in 1 .. Len(pipe'), j > Len(pipe)
          PROVE  pipe'[j] = position + (j - Len(pipe)) /\ pipe'[j] > position
      <4>1. j \in Len(pipe) + 1 .. Len(pipe) + n
        BY <1>4, <1>5, <3>1, <3>2
      <4>2. pipe'[j] = position + (j - Len(pipe))
        BY <1>5, <4>1
      <4>3. QED
        BY <1>4, <3>1, <4>1, <4>2
    <3>3. ASSUME NEW j \in 1 .. Len(pipe'), ~ j > Len(pipe)
          PROVE  j \in 1 .. Len(pipe) /\ pipe'[j] = pipe[j] /\ pipe[j] \in Nat
      BY <1>4, <1>5, <3>1, <3>3
    <3>4. QED
      BY <3>1, <3>2, <3>3
  <2>1. \A i \in 1 .. Len(pipe') : pipe'[i] <= position' /\ pipe'[i] \in Nat
    <3>1. position' = position + n /\ Len(pipe') = Len(pipe) + n /\ n \in Nat /\ position \in Nat
      BY <1>3, <1>4, <1>5
    <3>2. ASSUME NEW i \in 1 .. Len(pipe'), i > Len(pipe)
          PROVE  pipe'[i] <= position' /\ pipe'[i] \in Nat
      <4>1. pipe'[i] = position + (i - Len(pipe))
        BY <2>0, <3>2
      <4>2. QED
        BY <2>0, <3>1, <3>2, <4>1
    <3>3. ASSUME NEW i \in 1 .. Len(pipe), pipe'[i] = pipe[i], pipe[i] \in Nat
          PROVE  pipe'[i] <= position' /\ pipe'[i] \in Nat
      <4>1. pipe[i] <= position
        BY DEF Rising
      <4>2. QED
        BY <3>1, <3>3, <4>1
    <3>4. QED
      BY <2>0, <3>2, <3>3
  <2>2. \A i \in 1 .. Len(file), j \in 1 .. Len(pipe') : file[i] < pipe'[j]
    <3> SUFFICES ASSUME NEW i \in 1 .. Len(file), NEW j \in 1 .. Len(pipe')
                 PROVE  file[i] < pipe'[j]
      OBVIOUS
    <3>1. file[i] \in Nat /\ file[i] <= position
      BY <1>4 DEF Rising
    <3>2. CASE j \in 1 .. Len(pipe) /\ pipe'[j] = pipe[j]
      BY <3>2 DEF Rising
    <3>3. CASE pipe'[j] > position
      <4>1. pipe'[j] \in Nat /\ position \in Nat
        BY <1>4, <2>1
      <4>2. QED
        BY <3>1, <3>3, <4>1
    <3>4. QED
      BY <2>0, <3>2, <3>3
  <2>3. \A i, j \in 1 .. Len(pipe') : i < j => pipe'[i] < pipe'[j]
    <3> SUFFICES ASSUME NEW i \in 1 .. Len(pipe'), NEW j \in 1 .. Len(pipe'), i < j
                 PROVE  pipe'[i] < pipe'[j]
      OBVIOUS
    <3>1. CASE j \in 1 .. Len(pipe) /\ pipe'[j] = pipe[j]
      <4>1. i \in 1 .. Len(pipe) /\ pipe'[i] = pipe[i]
        BY <1>4, <2>0, <3>1
      <4>2. QED
        BY <3>1, <4>1 DEF Rising
    <3>2. CASE j > Len(pipe) /\ pipe'[j] = position + (j - Len(pipe)) /\ pipe'[j] > position
      <4>1. CASE i \in 1 .. Len(pipe) /\ pipe'[i] = pipe[i] /\ pipe[i] \in Nat
        BY <1>4, <3>2, <4>1 DEF Rising
      <4>2. CASE i > Len(pipe) /\ pipe'[i] = position + (i - Len(pipe))
        BY <1>4, <2>0, <3>2, <4>2
      <4>3. QED
        BY <2>0, <4>1, <4>2
    <3>3. QED
      BY <2>0, <3>1, <3>2
  <2>4. \A i \in 1 .. Len(file) : file[i] <= position'
    BY <1>3, <1>4 DEF Rising
  <2>5. QED
    BY <1>1, <2>1, <2>2, <2>3, <2>4 DEF Rising
<1>8. Within'
  BY <1>1, <1>2, <1>3, <1>4 DEF Within
<1>9. Exact'
  <2> SUFFICES ASSUME ~ short'
               PROVE  /\ \A i \in 1 .. Len(file) : file[i] = i
                      /\ position' + file_left = filelen + F!Asked
                      /\ Len(file) + F!Asked = position' /\ Len(pipe') = F!Asked
                      /\ \A i \in 1 .. Len(pipe') : pipe'[i] = Len(file) + i
    BY <1>1 DEF Exact
  <2>1. ~ short /\ n = F!Asked
    <3>1. ~ short /\ ~ n < F!Asked
      BY <1>3
    <3>2. QED
      BY <1>2, <1>4, <3>1
  <2>2. /\ \A i \in 1 .. Len(file) : file[i] = i
        /\ position + file_left = filelen /\ pipe = <<>> /\ Len(file) = position
    BY <1>1, <2>1 DEF Exact
  <2>3. QED
    BY <1>3, <1>4, <1>5, <2>1, <2>2
<1>10. QED
  BY <1>6, <1>7, <1>8, <1>9

LEMMA FileMoveKeeps ==
  ASSUME FileInv, F!Move
  PROVE  FileInv'
<1> USE DEF FileInv
<1>1. /\ fpc = "move" /\ got # 0 /\ file_left' = file_left - F!Asked
      /\ fpc' = (IF file_left' = 0 THEN "done" ELSE "receive") /\ got' = (IF file_left' = 0 THEN 0 ELSE got)
      /\ UNCHANGED <<filelen, file_data_len, available, position>>
  BY DEF Within, F!Move
<1>2. /\ F!Asked \in Nat /\ F!Asked <= file_left /\ file_left > 0 /\ position + file_left <= filelen + F!Asked
      /\ position <= filelen
  BY <1>1, AskedIs DEF Within
<1>3. PICK n \in 1 .. F!Asked :
        /\ n <= Len(pipe)
        /\ file' = file \o SubSeq(pipe, 1, n) /\ pipe' = SubSeq(pipe, n + 1, Len(pipe))
        /\ short' = (short \/ n < F!Asked)
  BY DEF F!Move
<1>4. n \in 1 .. Len(pipe) /\ position \in Nat /\ pipe \in Seq(Nat) /\ file \in Seq(Nat)
      /\ filelen \in Nat /\ file_left \in Nat /\ Len(pipe) \in Nat /\ Len(file) \in Nat
  BY <1>2, <1>3 DEF FileTypes
<1>5. /\ file' \in Seq(Nat) /\ Len(file') = Len(file) + n
      /\ \A i \in 1 .. Len(file) : file'[i] = file[i]
      /\ \A i \in Len(file) + 1 .. Len(file) + n : i - Len(file) \in 1 .. n /\ file'[i] = pipe[i - Len(file)]
      /\ pipe' \in Seq(Nat) /\ Len(pipe') = Len(pipe) - n
      /\ \A i \in 1 .. Len(pipe) - n : pipe'[i] = pipe[n + i]
  <2>1. /\ SubSeq(pipe, 1, n) \in Seq(Nat) /\ Len(SubSeq(pipe, 1, n)) = n
        /\ \A i \in 1 .. n : SubSeq(pipe, 1, n)[i] = pipe[i]
        /\ SubSeq(pipe, n + 1, Len(pipe)) \in Seq(Nat)
        /\ Len(SubSeq(pipe, n + 1, Len(pipe))) = Len(pipe) - n
        /\ \A i \in 1 .. Len(pipe) - n : SubSeq(pipe, n + 1, Len(pipe))[i] = pipe[n + i]
    BY <1>4, Parted
  <2>2. /\ file' \in Seq(Nat) /\ Len(file') = Len(file) + n
        /\ \A i \in 1 .. Len(file) : file'[i] = file[i]
        /\ \A i \in Len(file) + 1 .. Len(file) + n :
               i - Len(file) \in 1 .. n /\ file'[i] = SubSeq(pipe, 1, n)[i - Len(file)]
    BY <1>3, <1>4, <2>1, Joined
  <2>3. QED
    BY <1>3, <2>1, <2>2
<1>6. FileTypes'
  BY <1>1, <1>2, <1>3, <1>4, <1>5 DEF FileTypes
<1>7. Rising'
  <2>1. \A i \in 1 .. Len(pipe') : n + i \in 1 .. Len(pipe) /\ n + i > n /\ pipe'[i] = pipe[n + i]
    BY <1>4, <1>5
  <2>2. \A i \in 1 .. Len(file') :
            \/ i \in 1 .. Len(file) /\ file'[i] = file[i]
            \/ /\ i > Len(file) /\ i - Len(file) \in 1 .. Len(pipe) /\ i - Len(file) <= n
               /\ file'[i] = pipe[i - Len(file)]
    <3> SUFFICES ASSUME NEW i \in 1 .. Len(file')
                 PROVE  \/ i \in 1 .. Len(file) /\ file'[i] = file[i]
                        \/ /\ i > Len(file) /\ i - Len(file) \in 1 .. Len(pipe) /\ i - Len(file) <= n
                           /\ file'[i] = pipe[i - Len(file)]
      OBVIOUS
    <3>1. CASE i <= Len(file)
      <4>1. i \in 1 .. Len(file)
        BY <1>4, <1>5, <3>1
      <4>2. QED
        BY <1>5, <4>1
    <3>2. CASE i > Len(file)
      <4>1. i \in Len(file) + 1 .. Len(file) + n
        BY <1>4, <1>5, <3>2
      <4>2. i - Len(file) \in 1 .. n /\ file'[i] = pipe[i - Len(file)]
        BY <1>5, <4>1
      <4>3. QED
        BY <1>4, <3>2, <4>2
    <3>3. QED
      BY <1>4, <3>1, <3>2
  <2>3. \A i, j \in 1 .. Len(pipe') : i < j => pipe'[i] < pipe'[j]
    BY <1>4, <2>1 DEF Rising
  <2>4. \A i \in 1 .. Len(file'), j \in 1 .. Len(pipe') : file'[i] < pipe'[j]
    <3> SUFFICES ASSUME NEW i \in 1 .. Len(file'), NEW j \in 1 .. Len(pipe')
                 PROVE  file'[i] < pipe'[j]
      OBVIOUS
    <3>1. CASE i \in 1 .. Len(file) /\ file'[i] = file[i]
      BY <2>1, <3>1 DEF Rising
    <3>2. CASE i - Len(file) \in 1 .. Len(pipe) /\ i - Len(file) <= n /\ file'[i] = pipe[i - Len(file)]
      <4>1. i - Len(file) < n + j /\ n + j \in 1 .. Len(pipe)
        BY <1>4, <2>1, <3>2
      <4>2. QED
        BY <2>1, <3>2, <4>1 DEF Rising
    <3>3. QED
      BY <2>2, <3>1, <3>2
  <2>5. \A i, j \in 1 .. Len(file') : i < j => file'[i] < file'[j]
    <3> SUFFICES ASSUME NEW i \in 1 .. Len(file'), NEW j \in 1 .. Len(file'), i < j
                 PROVE  file'[i] < file'[j]
      OBVIOUS
    <3>1. CASE j \in 1 .. Len(file) /\ file'[j] = file[j]
      <4>1. i \in 1 .. Len(file)
        <5>1. i \in Int /\ j \in Int /\ i >= 1 /\ i < j /\ j <= Len(file)
          BY <1>4, <1>5, <3>1
        <5>2. QED
          BY <1>4, <5>1
      <4>2. file'[i] = file[i]
        BY <1>5, <4>1
      <4>3. QED
        BY <3>1, <4>1, <4>2 DEF Rising
    <3>2. CASE /\ j > Len(file) /\ j - Len(file) \in 1 .. Len(pipe)
               /\ file'[j] = pipe[j - Len(file)]
      <4>1. CASE i \in 1 .. Len(file) /\ file'[i] = file[i]
        BY <3>2, <4>1 DEF Rising
      <4>2. CASE i - Len(file) \in 1 .. Len(pipe) /\ file'[i] = pipe[i - Len(file)]
        <5>1. i - Len(file) < j - Len(file)
          BY <1>4
        <5>2. QED
          BY <3>2, <4>2, <5>1 DEF Rising
      <4>3. QED
        BY <2>2, <4>1, <4>2
    <3>3. QED
      BY <2>2, <3>1, <3>2
  <2>6. /\ \A i \in 1 .. Len(file') : file'[i] <= position
        /\ \A i \in 1 .. Len(pipe') : pipe'[i] <= position
    BY <1>4, <2>1, <2>2 DEF Rising
  <2>7. QED
    BY <1>1, <2>3, <2>4, <2>5, <2>6 DEF Rising
<1>8. Within'
  BY <1>1, <1>2, <1>4 DEF Within
<1>9. Exact'
  <2> SUFFICES ASSUME ~ short'
               PROVE  /\ \A i \in 1 .. Len(file') : file'[i] = i
                      /\ position + file_left' = filelen /\ pipe' = <<>> /\ Len(file') = position
    BY <1>1, <1>2, <1>4 DEF Exact
  <2>1. ~ short /\ n = F!Asked
    <3>1. ~ short /\ ~ n < F!Asked
      BY <1>3
    <3>2. QED
      BY <1>2, <1>3, <3>1
  <2>2. /\ \A i \in 1 .. Len(file) : file[i] = i
        /\ position + file_left = filelen + F!Asked
        /\ Len(file) + F!Asked = position /\ Len(pipe) = F!Asked
        /\ \A i \in 1 .. Len(pipe) : pipe[i] = Len(file) + i
    BY <1>1, <2>1 DEF Exact
  <2>3. pipe' = <<>>
    BY <1>5, <2>1, <2>2, <1>4
  <2>4. \A i \in 1 .. Len(file') : file'[i] = i
    <3> SUFFICES ASSUME NEW i \in 1 .. Len(file')  PROVE file'[i] = i
      OBVIOUS
    <3>1. CASE i <= Len(file)
      <4>1. i \in 1 .. Len(file)
        BY <1>4, <1>5, <3>1
      <4>2. QED
        BY <1>5, <2>2, <4>1
    <3>2. CASE i > Len(file)
      <4>0. i \in Len(file) + 1 .. Len(file) + n
        BY <1>4, <1>5, <3>2
      <4>1. i - Len(file) \in 1 .. n /\ file'[i] = pipe[i - Len(file)]
        BY <1>5, <4>0
      <4>2. pipe[i - Len(file)] = Len(file) + (i - Len(file))
        BY <2>1, <2>2, <4>1
      <4>3. QED
        BY <1>4, <4>1, <4>2
    <3>3. QED
      BY <1>4, <3>1, <3>2
  <2>5. position + file_left' = filelen /\ Len(file') = position
    BY <1>1, <1>2, <1>4, <1>5, <2>1, <2>2
  <2>6. QED
    BY <2>3, <2>4, <2>5
<1>10. QED
  BY <1>6, <1>7, <1>8, <1>9

\* A file of any length keeps its order, whatever comes and is moved at once.
THEOREM FileInvariant == F!Init /\ [][F!Next]_(F!vars) => []FileInv
<1>1. F!Init => FileInv
  BY FileInitHolds
<1>2. FileInv /\ [F!Next]_(F!vars) => FileInv'
  <2> SUFFICES ASSUME FileInv, [F!Next]_(F!vars)  PROVE FileInv'
    OBVIOUS
  <2>1. CASE UNCHANGED F!vars
    <3>1. F!Asked' = F!Asked
      BY <2>1 DEF F!vars, F!Asked
    <3>2. QED
      BY <2>1, <3>1 DEF F!vars, FileInv, FileTypes, Rising, Within, Exact
  <2>2. QED
    BY <2>1, FileBegins, WriteFirstKeeps, FileReceiveKeeps, FileMoveKeeps DEF F!Next
<1>3. QED
  BY <1>1, <1>2, PTL

LEMMA FileInvSuffices == FileInv => F!FileInOrder
<1> SUFFICES ASSUME FileInv  PROVE F!FileInOrder
  OBVIOUS
<1>1. file \in Seq(Nat) /\ Len(file) \in Nat /\ DOMAIN file = 1 .. Len(file)
  BY DEF FileInv, FileTypes
<1>2. ASSUME ~ short  PROVE file = F!Numbers(0, Len(file))
  <2>1. \A i \in 1 .. Len(file) : file[i] = i
    BY <1>2 DEF FileInv, Exact
  <2>2. QED
    BY <1>1, <2>1 DEF F!Numbers
<1>3. QED
  BY <1>1, <1>2 DEF FileInv, Within, Rising, Exact, F!FileInOrder

-----------------------------------------------------------------------------
(* The parts together                                                      *)

\* A step of the parts is one of a part or leaves it.
LEMMA PartsHandle == PartsSpec => P!Init /\ [][P!Next]_(P!vars)
<1>1. PartsInit => P!Init
  BY DEF PartsInit
<1>2. [PartsNext]_allVars => [P!Next]_(P!vars)
  <2>1. UNCHANGED handleVars => UNCHANGED P!vars
    BY DEF handleVars, P!vars, P!receivers, P!packets
  <2>2. QED
    BY <2>1 DEF PartsNext, OfStream, OfHandlers, OfData, OfSenders, OfFile, allVars
<1>3. QED
  BY <1>1, <1>2, PTL DEF PartsSpec

LEMMA PartsBuild == PartsSpec => D!Init /\ [][D!Next]_(D!vars)
<1>1. PartsInit => D!Init
  BY DEF PartsInit
<1>2. [PartsNext]_allVars => [D!Next]_(D!vars)
  <2>1. UNCHANGED dataVars => UNCHANGED D!vars
    BY DEF dataVars, D!vars, D!heap, D!dataVars, D!packetVars
  <2>2. QED
    BY <2>1 DEF PartsNext, OfStream, OfHandlers, OfData, OfSenders, OfFile, allVars
<1>3. QED
  BY <1>1, <1>2, PTL DEF PartsSpec

LEMMA PartsSend == PartsSpec => W!Init /\ [][W!Next]_(W!vars)
<1>1. PartsInit => W!Init
  BY DEF PartsInit
<1>2. [PartsNext]_allVars => [W!Next]_(W!vars)
  <2>1. UNCHANGED writeVars => UNCHANGED W!vars
    BY DEF writeVars, W!vars
  <2>2. QED
    BY <2>1 DEF PartsNext, OfStream, OfHandlers, OfData, OfSenders, OfFile, allVars
<1>3. QED
  BY <1>1, <1>2, PTL DEF PartsSpec

LEMMA PartsReceiveFile == PartsSpec => F!Init /\ [][F!Next]_(F!vars)
<1>1. PartsInit => F!Init
  BY DEF PartsInit
<1>2. [PartsNext]_allVars => [F!Next]_(F!vars)
  <2>1. UNCHANGED fileVars => UNCHANGED F!vars
    BY DEF fileVars, F!vars
  <2>2. QED
    BY <2>1 DEF PartsNext, OfStream, OfHandlers, OfData, OfSenders, OfFile, allVars
<1>3. QED
  BY <1>1, <1>2, PTL DEF PartsSpec

LEMMA PartsReceive == PartsSpec => Init /\ [][Next]_vars
<1>1. PartsInit => Init
  BY DEF PartsInit
<1>2. [PartsNext]_allVars => [Next]_vars
  BY DEF PartsNext, OfStream, OfHandlers, OfData, OfSenders, OfFile, allVars
<1>3. QED
  BY <1>1, <1>2, PTL DEF PartsSpec

\* Unless two receivers incremented a counter at once, every packet is in the
\* counter of its type or was passed over and every request in that of its
\* outcome; a packet is deleted once, and forgotten only for its version, its
\* type or a handler that is not there (handler.c, client.c, admin.c).
THEOREM PartsAccounted == PartsSpec => []PacketsAccounted
<1>1. HandleInv => PacketsAccounted
  BY HandleInvSuffices DEF PacketsAccounted
<1>2. QED
  BY <1>1, PartsHandle, HandleInvariant, PTL

\* A packet that is filled in one way never writes past a buffer, frees what is
\* not its own or loses a buffer, and what is sent is as long as its header says
\* (packets.c).
THEOREM PartsBuffers == PartsSpec => []BuffersSound
<1>1. DataInv => BuffersSound
  BY DataInvSuffices DEF BuffersSound
<1>2. QED
  BY <1>1, PartsBuild, DataInvariant, PTL

\* The bytes of two packets are not mixed on a socket unless one is sent from a
\* queue, and what a sender is told is what was sent (packets.c, files.c).
THEOREM PartsWhole == PartsSpec => []PacketsWhole
<1>1. SendInv => PacketsWhole
  BY SendInvSuffices DEF PacketsWhole
<1>2. QED
  BY <1>1, PartsSend, SendInvariant, PTL

\* What is received of a file is in its order, and all of it when no call was
\* short and the file is reported received (files.c).
THEOREM PartsFileInOrder == PartsSpec => []FileInOrder
<1>1. FileInv => FileInOrder
  BY FileInvSuffices DEF FileInOrder
<1>2. QED
  BY <1>1, PartsReceiveFile, FileInvariant, PTL

\* The stream of a connection loses no byte that was received (receive.c).
THEOREM PartsRemaining == ASSUME WholeHeaders PROVE PartsSpec => []RemainingExact
<1>1. Init => IInv
  BY InitIInv
<1>2. IInv /\ [Next]_vars => IInv'
  BY NextPreserves
<1>3. IInv => RemainingExact
  BY DEF IInv, InLoop, RemainingExact
<1>4. QED
  BY <1>1, <1>2, <1>3, PartsReceive, PTL
=============================================================================
