------------------------------ MODULE MCOnHold ------------------------------
(* Small instances of the tables that say who is connected.                *)
EXTENDS Tables, TLC

CONSTANTS w1, c1, c2,
          Parts          \* the parts that a behaviour may be of

\* realloc () may return a free slot, the descriptor 0 or a number that poll
\* () ignores.
MCGarbage == {-1, 0, -2}

MCInit ==
    /\ PartsInit /\ part \in Parts
    /\ part # "sessions" => handler_type = "poll"

\* Three connections, in an array whose new places are free, or two.
FewPlaces == memory'[3] = "unused" \/ \A i \in DOMAIN slots' : slots'[i] \notin {0, -2}
\* Three connections of admins with different ids, or two and a broadcast.
FewAdmins == adMem'[3] = "unused" \/ (pcU' = "idle" /\ ids'[1] # ids'[2])
\* Two clients may get the same session id; with a thread for each connection
\* they get different ones, and one connection at a time is on hold.
FewSessions == handler_type = "threads" => session_id'[2] # 1 /\ Cardinality(held') <= 1

MCNext ==
    \/ OfHold(Next) \/ OfRegistry(R!Next /\ FewPlaces) \/ OfLobbies(G!Next)
    \/ OfAdmins(A!Next /\ FewAdmins) \/ OfSessions(S!Next /\ FewSessions)
MCSpec == MCInit /\ [][MCNext]_allVars
=============================================================================
