--------------------------- MODULE MCCollections ----------------------------
(* The collections, each on its own: a behaviour is one of the lists, of a *)
(* tree or of a table, and the others stay as they were made.              *)
EXTENDS Integers, Sequences, TLC

CONSTANTS l1, l2, l3, v1, v2, t1, t2, Nil,
          AtSize

VARIABLES part, heap, spoiled, listCall, walk, overlapped, tree, size, ids, ascending, largest, inserted,
          swapped, table, count, bucketCount, tableCall

List == {l1, l2, l3}
\* Two data that the comparator takes for equal.
KeyOfDatum(d) == IF d = 4 THEN 1 ELSE d
L == INSTANCE DoubleList WITH Datum <- {1, 2, 4}, Key <- KeyOfDatum, Condition <- {{1, 4}, {2}},
                              call <- listCall, Thread <- {t1, t2}
T == INSTANCE SearchTree WITH Id <- 1 .. 6, MaxInserted <- 7
\* In three buckets the first three keys meet, and the fourth is alone.
H == INSTANCE HashTable WITH Key <- {<<1>>, <<4>>, <<2, 2>>, <<0, 3>>}, Value <- {v1, v2}, Size <- 3,
                             call <- tableCall

treeVars == <<tree, size, ids, ascending, largest, inserted, swapped>>
tableVars == <<table, count, bucketCount, tableCall>>
listVars == <<heap, spoiled, listCall, walk, overlapped>>

\* Bound: while a call is in a list, no other call is in or changes other lists
\* only.
SameLists ==
    /\ walk'[t1] = {} \/ walk'[t2] = {} \/ walk'[t1] \cap walk'[t2] # {}
    /\ \A t \in {t1, t2} : walk[t] # {} /\ walk'[t] = walk[t] => heap' = heap

Init == part \in {"list", "tree", "table"} /\ L!Init /\ T!Init /\ H!Init
Next ==
    /\ UNCHANGED part
    /\ \/ part = "list" /\ L!Next /\ SameLists /\ UNCHANGED treeVars /\ UNCHANGED tableVars
       \/ part = "tree" /\ T!Next /\ UNCHANGED listVars /\ UNCHANGED tableVars
       \/ part = "table" /\ H!Next /\ UNCHANGED listVars /\ UNCHANGED treeVars
Spec == Init /\ [][Next]_<<part, listVars, treeVars, tableVars>>

\* Links and elements, and the position behind the last: see DoubleList.
WellLinked == L!WellLinked
\* Searches and balances: see SearchTree.
TreeSound == T!FindsAll /\ T!BalancedWhileAscending
\* The lists are sequences, and the table is a dictionary.
Implements == L!S!Spec /\ H!D!Spec

Symmetry == Permutations(List) \cup Permutations({t1, t2})
=============================================================================
