----------------------------- MODULE Dictionary -----------------------------
(***************************************************************************)
(* What collections/htab.h promises: a map that keeps the first value of a *)
(* key until the key is removed.  call is the last call with its result.   *)
(***************************************************************************)
EXTENDS FiniteSets

CONSTANTS Key, Value, Nil

VARIABLES map, call

Init == map = [k \in Key |-> Nil] /\ call = <<"htab_create">>

Insert(k, v) ==
    LET new == map[k] = Nil IN
    /\ call' = <<"htab_insert", k, IF new THEN 0 ELSE 1>>
    /\ map' = IF new THEN [map EXCEPT ![k] = v] ELSE map

Remove(k) ==
    /\ call' = <<"htab_remove", k, map[k]>>
    /\ map' = [map EXCEPT ![k] = Nil]

Contains(k) == call' = <<"htab_contains_key", k, map[k] # Nil>> /\ UNCHANGED map

Get(k) == call' = <<"htab_get", k, map[k]>> /\ UNCHANGED map
Count == call' = <<"htab_size", Cardinality({k \in Key : map[k] # Nil})>> /\ UNCHANGED map

Next ==
    \/ Count
    \/ \E k \in Key : Remove(k) \/ Contains(k) \/ Get(k) \/ \E v \in Value : Insert(k, v)
Spec == Init /\ [][Next]_<<map, call>>
=============================================================================
