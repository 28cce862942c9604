----------------------------- MODULE MCReceive -----------------------------
(* Small instances of what is done with packets.  The sizes of a stream    *)
(* are in units of a few bytes.                                            *)
EXTENDS Packets, TLC

CONSTANTS s1, s2, r1, r2,
          Parts          \* the parts that a behaviour may be of

\* The handlers of the user in each of the ways, of a cerver, of a client that
\* can receive files, and of the admins; and a cerver that checks versions.
MCConfig ==
    {[side |-> "cerver", check |-> FALSE, files |-> TRUE, handler |-> "multiple", delete |-> TRUE],
     [side |-> "cerver", check |-> FALSE, files |-> FALSE, handler |-> "direct", delete |-> FALSE],
     [side |-> "client", check |-> FALSE, files |-> TRUE, handler |-> "direct", delete |-> TRUE],
     [side |-> "client", check |-> FALSE, files |-> FALSE, handler |-> "queue", delete |-> TRUE],
     [side |-> "admin", check |-> FALSE, files |-> TRUE, handler |-> "queue", delete |-> FALSE],
     [side |-> "cerver", check |-> TRUE, files |-> FALSE, handler |-> "direct", delete |-> TRUE]}

MCMemory == 1 .. 4
MCFileLength == 1 .. 5
MCPieces == <<1, 1>>

\* Every way of sending, with one that is like it or one that is not.
MCWays == {<<"tcp", "split">>, <<"tcp", "queue">>, <<"pieces", "tcp">>, <<"split", "route">>,
           <<"route", "file">>, <<"pieces", "file">>, <<"queue", "file">>}
\* A part that does not run has one of its initial states.
MCInit ==
    /\ PartsInit /\ part \in Parts
    /\ part # "handle" => config = CHOOSE c \in MCConfig : TRUE
    /\ part # "data" => packet = Nil
    /\ <<way[s1], way[s2]>> \in IF part = "send" THEN MCWays ELSE {<<"tcp", "tcp">>}
    /\ part # "file" => filelen = 1 /\ file_data_len = 0
MCSpec == MCInit /\ [][PartsNext]_allVars
=============================================================================
