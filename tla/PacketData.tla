----------------------------- MODULE PacketData ------------------------------
(***************************************************************************)
(* packets.c, the buffers of one Packet: its data, which is created with a *)
(* size and filled, set, appended to, or a reference to a buffer of the    *)
(* caller, and the packet that is generated from it to be sent.            *)
(*                                                                         *)
(* A buffer is a number; size and owner belong to it.  What is copied is   *)
(* left out, where it is copied to is kept.                                *)
(***************************************************************************)
EXTENDS Naturals, FiniteSets

CONSTANTS Memory,        \* bound: the buffers that are ever allocated, 1 .. n
          Size,          \* the sizes that callers ask for
          Nil,
          Inline         \* the header inside the structure, which is not malloc'ed

VARIABLES size, owner,   \* of the buffers that exist: "packet" or "user"
          live,          \* those that are allocated
          data, data_size, data_end, remaining_data, data_ref,
          packet, packet_size, packet_ref,
          plain,         \* history: the calls kept to one way of filling the packet
          overrun,       \* a copy went past the end of a buffer
          bad_free       \* something was freed that was not the packet's to free

heap == <<size, owner, live>>
dataVars == <<data, data_size, data_end, remaining_data, data_ref>>
packetVars == <<packet, packet_size, packet_ref>>
vars == <<heap, dataVars, packetVars, plain, overrun, bad_free>>

Header == 1
Exists == DOMAIN size

\* packet_new (), and packet_create_request () with its own header as packet.
Init ==
    /\ size = <<>> /\ owner = <<>> /\ live = {}
    /\ data = Nil /\ data_size = 0 /\ data_end = 0 /\ remaining_data = 0 /\ data_ref = FALSE
    /\ \/ packet = Nil /\ packet_size = 0 /\ packet_ref = FALSE
       \/ packet = Inline /\ packet_size = Header /\ packet_ref = TRUE
    /\ plain = TRUE /\ overrun = FALSE /\ bad_free = FALSE

\* A new buffer of n bytes: the heap after b is freed (Nil: none) as well.
Allocate(new, n, who, b) ==
    /\ new \in Memory /\ new = Cardinality(Exists) + 1
    /\ size' = [x \in Exists \cup {new} |-> IF x = new THEN n ELSE size[x]]
    /\ owner' = [x \in Exists \cup {new} |-> IF x = new THEN who ELSE owner[x]]
    /\ live' = (live \cup {new}) \ {b}

FreeOnly(b) == live' = live \ {b} /\ UNCHANGED <<size, owner>>
\* free (b), of a buffer of this packet or of something else.
MayFree(b) == b = Nil \/ (b \in live /\ owner[b] = "packet")
DataToFree == IF data_ref THEN Nil ELSE data
PacketToFree == IF packet_ref THEN Nil ELSE packet

-----------------------------------------------------------------------------
\* packet_create_data (): data that are filled with packet_add_data ().
CreateData(new, n) ==
    /\ Allocate(new, n, "packet", Nil)
    /\ data' = new /\ data_size' = n /\ data_end' = 0 /\ remaining_data' = n
    /\ plain' = (plain /\ data = Nil)
    /\ UNCHANGED <<data_ref, packetVars, overrun, bad_free>>

\* packet_set_data (): remaining_data and data_ref stay as they were.
SetData(new, n) ==
    /\ Allocate(new, n, "packet", DataToFree)
    /\ bad_free' = (bad_free \/ ~ MayFree(DataToFree))
    /\ data' = new /\ data_size' = n /\ data_end' = n
    /\ plain' = (plain /\ ~ data_ref /\ remaining_data = 0)
    /\ UNCHANGED <<remaining_data, data_ref, packetVars, overrun>>

\* packet_add_data (): only what remains is looked at.
AddData(n) ==
    /\ n <= remaining_data
    /\ overrun' = (overrun \/ (n > 0 /\ data_end + n > size[data]))
    /\ data_end' = data_end + n /\ remaining_data' = remaining_data - n
    /\ UNCHANGED <<heap, data, data_size, data_ref, packetVars, plain, bad_free>>

\* packet_append_data () with realloc (), which moves the buffer.
AppendData(new, n) ==
    /\ Allocate(new, (IF data = Nil THEN 0 ELSE data_size) + n, "packet", data)
    /\ bad_free' = (bad_free \/ ~ MayFree(data))
    /\ data' = new
    /\ data_size' = (IF data = Nil THEN 0 ELSE data_size) + n
    /\ data_end' = data_size'
    /\ plain' = (plain /\ ~ data_ref /\ remaining_data = 0)
    /\ UNCHANGED <<remaining_data, data_ref, packetVars, overrun>>

\* No memory for data: realloc () loses the old buffer, packet_set_data () has
\* freed it and keeps the size.
AllocationFails ==
    /\ data # Nil /\ data' = Nil
    /\ \/ data_size' = 0 /\ UNCHANGED heap
       \/ ~ data_ref /\ FreeOnly(data) /\ UNCHANGED data_size
    /\ plain' = FALSE
    /\ UNCHANGED <<data_end, remaining_data, data_ref, packetVars, overrun, bad_free>>

\* packet_set_data_ref ().
SetDataRef(new, n) ==
    /\ Allocate(new, n, "user", DataToFree)
    /\ bad_free' = (bad_free \/ ~ MayFree(DataToFree))
    /\ data' = new /\ data_size' = n /\ data_ref' = TRUE
    /\ plain' = (plain /\ remaining_data = 0)
    /\ UNCHANGED <<data_end, remaining_data, packetVars, overrun>>

-----------------------------------------------------------------------------
\* packet_set_packet (): packet_ref stays as it was.
SetPacket(new, n) ==
    /\ Allocate(new, n, "packet", PacketToFree)
    /\ bad_free' = (bad_free \/ ~ MayFree(PacketToFree))
    /\ packet' = new /\ packet_size' = n
    /\ plain' = (plain /\ ~ packet_ref)
    /\ UNCHANGED <<dataVars, packet_ref, overrun>>

SetPacketRef(new, n) ==
    /\ Allocate(new, n, "user", PacketToFree)
    /\ bad_free' = (bad_free \/ ~ MayFree(PacketToFree))
    /\ packet' = new /\ packet_size' = n /\ packet_ref' = TRUE
    /\ UNCHANGED <<dataVars, plain, overrun>>

\* Fault: the packet of before is not freed.
GenerateOver(new) ==
    /\ Allocate(new, Header + data_size, "packet", Nil)
    /\ packet' = new /\ packet_size' = Header + data_size
    /\ plain' = (plain /\ ~ packet_ref)
    /\ UNCHANGED <<dataVars, packet_ref, overrun, bad_free>>

\* packet_generate (): the header, then the data.
Generate(new) ==
    /\ Allocate(new, Header + data_size, "packet", packet)
    /\ bad_free' = (bad_free \/ ~ MayFree(packet))
    /\ overrun' = (overrun \/ (data # Nil /\ data_size > size[data]))
    /\ packet' = new /\ packet_size' = Header + data_size
    /\ plain' = (plain /\ ~ packet_ref)
    /\ UNCHANGED <<dataVars, packet_ref>>

\* packet_delete (): the structure is used again for the next packet.
Delete ==
    /\ live' = live \ {DataToFree, PacketToFree}
    /\ bad_free' = (bad_free \/ ~ MayFree(DataToFree) \/ ~ MayFree(PacketToFree))
    /\ data' = Nil /\ data_size' = 0 /\ data_end' = 0 /\ remaining_data' = 0 /\ data_ref' = FALSE
    /\ packet' = Nil /\ packet_size' = 0 /\ packet_ref' = FALSE
    /\ UNCHANGED <<size, owner, plain, overrun>>

\* What the calls make of a packet that was not filled in one way is undefined.
Next ==
    /\ plain
    /\ \/ \E new \in Memory, n \in Size :
              \/ CreateData(new, n) \/ SetData(new, n) \/ AppendData(new, n)
              \/ SetDataRef(new, n) \/ SetPacket(new, n) \/ SetPacketRef(new, n)
       \/ \E n \in Size : AddData(n)
       \/ \E new \in Memory : Generate(new)
       \/ AllocationFails \/ Delete

Spec == Init /\ [][Next]_vars

-----------------------------------------------------------------------------
\* A packet that is filled in one way never writes past a buffer or frees what
\* is not its own, every buffer it allocated is one it can still free, and what
\* is sent is as long as its header says.
BuffersSound ==
    plain =>
        /\ ~ overrun /\ ~ bad_free
        /\ {b \in live : owner[b] = "packet"} \subseteq {data, packet}
        /\ data # Nil => data \in live /\ data_size = size[data]
        /\ data # Nil /\ ~ data_ref => data_end + remaining_data = data_size
        /\ packet \notin {Nil, Inline} => packet \in live /\ packet_size = size[packet]
=============================================================================
