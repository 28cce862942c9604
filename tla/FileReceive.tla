----------------------------- MODULE FileReceive -----------------------------
(***************************************************************************)
(* files.c, file_receive_actual (): the file whose header has come in a    *)
(* packet is created, what came of it with the packet is written, and the  *)
(* rest is moved from the socket to a pipe and from the pipe to the file   *)
(* by splice (), at most BufferSize at a time.  The other end sends the    *)
(* file and then its next packets; a byte is its number in the stream.     *)
(***************************************************************************)
EXTENDS Naturals, Sequences

CONSTANTS FileLength,    \* the sizes of a file
          BufferSize,    \* buff_size, 4096 in the code
          Beyond         \* bound: the bytes that follow the file

VARIABLES pc, filelen, file_data_len,
          len,           \* what is left to receive
          available,     \* the bytes that the other end has sent
          position,      \* the bytes that were taken from the socket
          pipe,          \* the bytes in the pipe, in their order
          file,          \* the bytes in the file
          retval,
          short          \* history: a splice moved less than it was asked to

vars == <<pc, filelen, file_data_len, len, available, position, pipe, file, retval, short>>

Numbers(from, n) == [i \in 1 .. n |-> from + i]

\* The packet with the header held the first file_data_len bytes.
Init ==
    /\ pc = "open" /\ filelen \in FileLength /\ file_data_len \in 0 .. filelen
    /\ len = 0 /\ available = file_data_len /\ position = file_data_len
    /\ pipe = <<>> /\ file = <<>> /\ retval = 1 /\ short = FALSE

OtherSends ==
    /\ available < filelen + Beyond
    /\ available' = available + 1
    /\ UNCHANGED <<pc, filelen, file_data_len, len, position, pipe, file, retval, short>>

\* A file that cannot be created leaves its contents in the stream.
Open ==
    /\ pc = "open"
    /\ \/ pc' = "write"
       \/ pc' = "done"
    /\ UNCHANGED <<filelen, file_data_len, len, available, position, pipe, file, retval, short>>

\* write () of the part that is there; a failure is only logged.  A file that
\* came whole with its packet is done, with the return value of a failure.
WriteFirst ==
    /\ pc = "write"
    /\ \/ file' = Numbers(0, file_data_len) /\ UNCHANGED short
       \/ file_data_len > 0 /\ file' = <<>> /\ short' = TRUE
    /\ len' = filelen - file_data_len
    /\ pc' = IF len' > 0 THEN "receive" ELSE "done"
    /\ UNCHANGED <<filelen, file_data_len, available, position, pipe, retval>>

Asked == IF BufferSize > len THEN len ELSE BufferSize

\* file_receive_internal_receive ().
Receive ==
    /\ pc = "receive"
    /\ \E n \in 1 .. Asked :
           /\ n <= available - position
           /\ pipe' = pipe \o Numbers(position, n)
           /\ position' = position + n
           /\ short' = (short \/ n < Asked)
    /\ pc' = "move"
    /\ UNCHANGED <<filelen, file_data_len, len, available, file, retval>>

\* The other end has closed, or splice () fails.
Fails ==
    /\ pc \in {"receive", "move"} /\ pc' = "done"
    /\ UNCHANGED <<filelen, file_data_len, len, available, position, pipe, file, retval, short>>

\* Fault: the loop takes one byte more.
MoveOffByOne ==
    /\ pc = "move"
    /\ \E n \in 1 .. Asked :
           /\ n <= Len(pipe)
           /\ file' = file \o SubSeq(pipe, 1, n)
           /\ pipe' = SubSeq(pipe, n + 1, Len(pipe))
           /\ short' = (short \/ n < Asked)
    /\ len' = IF Asked = 1 THEN 1 ELSE len - Asked
    /\ pc' = IF len' = 0 THEN "done" ELSE "receive"
    /\ retval' = IF len' = 0 THEN 0 ELSE retval
    /\ UNCHANGED <<filelen, file_data_len, available, position>>

\* file_receive_internal_move (), after which len goes down by what was asked
\* for, whatever was received and moved.
Move ==
    /\ pc = "move"
    /\ \E n \in 1 .. Asked :
           /\ n <= Len(pipe)
           /\ file' = file \o SubSeq(pipe, 1, n)
           /\ pipe' = SubSeq(pipe, n + 1, Len(pipe))
           /\ short' = (short \/ n < Asked)
    /\ len' = len - Asked
    /\ pc' = IF len' = 0 THEN "done" ELSE "receive"
    /\ retval' = IF len' = 0 THEN 0 ELSE retval
    /\ UNCHANGED <<filelen, file_data_len, available, position>>

Next == OtherSends \/ Open \/ WriteFirst \/ Receive \/ Fails \/ Move
Spec == Init /\ [][Next]_vars

-----------------------------------------------------------------------------
\* No byte of another packet gets into the file, and its bytes are in order.  A
\* file that is reported as received is whole, and the next packet begins where
\* it ends, unless a call was short: the length goes down all the same.
FileInOrder ==
    /\ position <= filelen
    /\ ~ short => file = Numbers(0, Len(file))
    /\ \A i, j \in DOMAIN file : i < j => file[i] < file[j]
    /\ retval = 0 /\ ~ short => file = Numbers(0, filelen) /\ position = filelen /\ pipe = <<>>
=============================================================================
