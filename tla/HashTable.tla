----------------------------- MODULE HashTable ------------------------------
(***************************************************************************)
(* collections/htab.c: the table that leads from descriptors to clients    *)
(* and to connections on hold.  A bucket is the sequence of its nodes.     *)
(* The hash is the sum of the bytes of the key modulo the number of        *)
(* buckets, so that keys of different sizes can meet in one bucket.  Each  *)
(* call holds the mutex.                                                   *)
(***************************************************************************)
EXTENDS Naturals, Sequences, SequencesExt

CONSTANTS Key,            \* keys, each a sequence of bytes
          Value, Nil,
          Size            \* how many buckets, at least 1

VARIABLES table,          \* the nodes of each bucket
          count,          \* htab->count, and bucket->count of each bucket
          bucketCount, call

tableVars == <<table, count, bucketCount, call>>

Index == 0 .. Size - 1
Hash(k) == FoldLeft(LAMBDA sum, byte : (sum + byte) % Size, 0, k)

Init ==
    /\ table = [i \in Index |-> <<>>] /\ bucketCount = [i \in Index |-> 0]
    /\ count = 0 /\ call = <<"htab_create">>

\* The first node of the bucket whose key has the size and the bytes of k.
NodeOf(k) == SelectInSeq(table[Hash(k)], LAMBDA n : n.key = k)
Get(k) == IF NodeOf(k) = 0 THEN Nil ELSE table[Hash(k)][NodeOf(k)].val

\* The loop stops at the last node or at one with the key; a node is put
\* behind it if it has another key.
InsertKey(k, v) ==
    LET i == Hash(k)
        at == IF NodeOf(k) # 0 THEN NodeOf(k) ELSE Len(table[i])
        new == at = 0 \/ table[i][at].key # k
    IN  /\ call' = <<"htab_insert", k, IF new THEN 0 ELSE 1>>
        /\ IF new
           THEN /\ table' = [table EXCEPT ![i] = Append(@, [key |-> k, val |-> v])]
                /\ count' = count + 1 /\ bucketCount' = [bucketCount EXCEPT ![i] = @ + 1]
           ELSE UNCHANGED <<table, count, bucketCount>>

RemoveKey(k) ==
    LET i == Hash(k) IN
    /\ call' = <<"htab_remove", k, Get(k)>>
    /\ IF NodeOf(k) = 0
       THEN UNCHANGED <<table, count, bucketCount>>
       ELSE /\ table' = [table EXCEPT ![i] = RemoveAt(@, NodeOf(k))]
            /\ count' = count - 1 /\ bucketCount' = [bucketCount EXCEPT ![i] = @ - 1]

ContainsKey(k) ==
    /\ call' = <<"htab_contains_key", k, NodeOf(k) # 0>>
    /\ UNCHANGED <<table, count, bucketCount>>

GetKey(k) ==
    /\ call' = <<"htab_get", k, Get(k)>>
    /\ UNCHANGED <<table, count, bucketCount>>

CountKeys ==
    /\ call' = <<"htab_size", count>>
    /\ UNCHANGED <<table, count, bucketCount>>

Next ==
    \/ CountKeys
    \/ \E k \in Key : \/ RemoveKey(k) \/ ContainsKey(k) \/ GetKey(k)
                      \/ \E v \in Value : InsertKey(k, v)
Spec == Init /\ [][Next]_tableVars

-----------------------------------------------------------------------------
\* The table is a map, whatever keys meet in a bucket.
D == INSTANCE Dictionary WITH map <- [k \in Key |-> Get(k)]
=============================================================================
