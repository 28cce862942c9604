------------------------------- MODULE Packets -------------------------------
(***************************************************************************)
(* What is done with packets, each on its own: a behaviour is one of a     *)
(* stream that is cut into packets, of receivers that handle packets, of   *)
(* the buffers of a packet, of senders on one socket, or of a file that is *)
(* received, and the others stay as they were made.                        *)
(***************************************************************************)
EXTENDS ReceiveBuffer, Sequences, FiniteSets

CONSTANTS Receiver, NPackets, Arriving, Config, Nil,    \* see PacketHandlers
          Memory, Size, Inline,                         \* see PacketData
          Sender, FreeMutex, Payload, Pieces,          \* see PacketSend
          FileLength, BufferSize, Beyond                \* see FileReceive

VARIABLES part,
          config, type, version, fate, why, stats, ppc, handling, counter, read, next, queue,
          deletedTwice, raced,
          size, owner, live, data, data_size, data_end, remaining_data, data_ref,
          packet, packet_length, packet_ref, plain, overrun, bad_free,
          write_mutex, way, wpc, piece, left, total, retval, wire, lossy,
          fpc, filelen, file_data_len, file_left, available, position, pipe, file, got, short

P == INSTANCE PacketHandlers WITH pc <- ppc, packet <- handling, twice <- deletedTwice
D == INSTANCE PacketData WITH packet_size <- packet_length
W == INSTANCE PacketSend WITH Free <- FreeMutex, DataSize <- Payload, pc <- wpc
F == INSTANCE FileReceive WITH pc <- fpc, len <- file_left, retval <- got

ASSUME PacketsAssumption ==
    /\ IsFiniteSet(Receiver) /\ NPackets \in Nat
    /\ Arriving \subseteq P!Type /\ Config \subseteq P!ConfigType
    /\ Size \subseteq Nat
    \* Null pointers and inner headers are no buffers, types or reasons.
    /\ Nil \notin Memory /\ Nil \notin P!Type \cup {"version", "type"}
    /\ Inline \notin Memory /\ Inline # Nil
    /\ FreeMutex \notin Sender
    /\ Payload \in Nat /\ FileLength \subseteq Nat
    /\ BufferSize \in Nat \ {0} /\ Beyond \in Nat
    \* The caller of packet_send_pieces () says how long the pieces are together.
    /\ Pieces \in Seq(0 .. Payload)
    /\ \E upto \in [0 .. Len(Pieces) -> 0 .. Payload] :
           /\ upto[0] = 0 /\ upto[Len(Pieces)] = Payload
           /\ \A i \in 1 .. Len(Pieces) : upto[i] = upto[i - 1] + Pieces[i]

handleVars == <<config, type, version, fate, why, stats, ppc, handling, counter, read, next, queue,
                deletedTwice, raced>>
dataVars == <<size, owner, live, data, data_size, data_end, remaining_data, data_ref,
              packet, packet_length, packet_ref, plain, overrun, bad_free>>
writeVars == <<write_mutex, way, wpc, piece, left, total, retval, wire, lossy>>
fileVars == <<fpc, filelen, file_data_len, file_left, available, position, pipe, file, got, short>>

allVars == <<part, vars, handleVars, dataVars, writeVars, fileVars>>

OfStream(A) == part = "receive" /\ A /\ UNCHANGED <<part, handleVars, dataVars, writeVars, fileVars>>
OfHandlers(A) == part = "handle" /\ A /\ UNCHANGED <<part, vars, dataVars, writeVars, fileVars>>
OfData(A) == part = "data" /\ A /\ UNCHANGED <<part, vars, handleVars, writeVars, fileVars>>
OfSenders(A) == part = "send" /\ A /\ UNCHANGED <<part, vars, handleVars, dataVars, fileVars>>
OfFile(A) == part = "file" /\ A /\ UNCHANGED <<part, vars, handleVars, dataVars, writeVars>>

PartsInit ==
    /\ part \in {"receive", "handle", "data", "send", "file"}
    /\ Init /\ P!Init /\ D!Init /\ W!Init /\ F!Init
PartsNext ==
    OfStream(Next) \/ OfHandlers(P!Next) \/ OfData(D!Next) \/ OfSenders(W!Next) \/ OfFile(F!Next)
PartsSpec == PartsInit /\ [][PartsNext]_allVars

\* Handling: see PacketHandlers.
PacketsAccounted == P!PacketsAccounted
\* Building and sending: see PacketData and PacketSend.
BuffersSound == D!BuffersSound
PacketsWhole == W!PacketsWhole
\* Files: see FileReceive.
FileInOrder == F!FileInOrder
=============================================================================
