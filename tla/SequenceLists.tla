---------------------------- MODULE SequenceLists --------------------------
(***************************************************************************)
(* What the comments of collections/dlist.h promise of a double list: each *)
(* list is a sequence, and each call is an operation on sequences.  call   *)
(* is the last call with its result.                                       *)
(***************************************************************************)
EXTENDS Naturals, Sequences, SequencesExt

CONSTANTS List, Datum, Nil,
          Key(_),         \* what the comparator looks at
          Condition       \* the sets of data that a condition may match

VARIABLES items, call

Init == items = [l \in List |-> <<>>] /\ call = <<"dlist_init">>

Free == Datum \ UNION {ToSet(items[l]) : l \in List}
Keep(s, S) == SelectSeq(s, LAMBDA d : d \in S)
Drop(s, S) == SelectSeq(s, LAMBDA d : d \notin S)
AtOr(s, i) == IF i \in DOMAIN s THEN s[i] ELSE Nil

\* The first place where a larger element is, for an insertion in order.
OrderPlace(s, d) ==
    LET larger == {i \in DOMAIN s : Key(s[i]) > Key(d)}
    IN  IF larger = {} THEN Len(s) + 1 ELSE CHOOSE i \in larger : \A j \in larger : i <= j

\* Sorted, and equal elements stay in their order.
Sorted(s, t) ==
    /\ ToSet(s) = ToSet(t) /\ Len(s) = Len(t)
    /\ \A i, j \in DOMAIN t : i < j => Key(t[i]) <= Key(t[j])
    /\ \A k \in {Key(d) : d \in ToSet(s)} :
           SelectSeq(s, LAMBDA d : Key(d) = k) = SelectSeq(t, LAMBDA d : Key(d) = k)

Set(l, s) == items' = [items EXCEPT ![l] = s]

\* The call was given the position pos, and the datum becomes number i.
Insert(op, l, d, pos, i) ==
    /\ call' = <<op, l, d, pos>>
    /\ d \in Free /\ i \in 1 .. Len(items[l]) + 1
    /\ Set(l, InsertAt(items[l], i, d))

\* dlist_insert_at (): positions are those of C, from 0, and one that is greater
\* than the size means the end.
Place(p, n) == IF p > n THEN n + 1 ELSE p + 1

\* The call is one of these, with the list l.
Called(ops, l) == call'[1] \in ops /\ call'[2] = l

InsertNext ==
    \E l \in List, d \in Datum :
        LET s == items[l] IN
        /\ Called({"dlist_insert_at_start", "dlist_insert_at_end", "dlist_insert_in_order",
                   "dlist_insert_before", "dlist_insert_after", "dlist_insert_at"}, l)
        /\ call'[3] = d
        /\ \/ Insert("dlist_insert_at_start", l, d, 1, 1)
           \/ Insert("dlist_insert_at_end", l, d, Len(s) + 1, Len(s) + 1)
           \/ Insert("dlist_insert_in_order", l, d, OrderPlace(s, d), OrderPlace(s, d))
           \/ \E i \in DOMAIN s :
                  \/ Insert("dlist_insert_before", l, d, i, i)
                  \/ Insert("dlist_insert_after", l, d, i + 1, i + 1)
           \/ \E p \in 0 .. Len(s) + 1 :
                  Insert("dlist_insert_at", l, d, p, Place(p, Len(s)))

\* The removal of the element at i, and of nothing when there is none.
Take(op, l, i) ==
    /\ call' = <<op, l, AtOr(items[l], i)>>
    /\ Set(l, IF i \in DOMAIN items[l] THEN RemoveAt(items[l], i) ELSE items[l])

First(s, k) == SelectInSeq(s, LAMBDA d : Key(d) = k)

RemoveNext ==
    \E l \in List :
        LET s == items[l] IN
        /\ Called({"dlist_remove_start", "dlist_remove_end", "dlist_remove_element",
                   "dlist_remove_at", "dlist_remove", "dlist_remove_by_condition", "dlist_clear"}, l)
        /\ \/ Take("dlist_remove_start", l, 1)
           \/ Take("dlist_remove_end", l, Len(s))
           \/ \E i \in DOMAIN s : Take("dlist_remove_element", l, i)
           \/ \E i \in 0 .. Len(s) : Take("dlist_remove_at", l, i + 1)
           \/ \E d \in Datum : Take("dlist_remove", l, First(s, Key(d)))
           \/ \E S \in Condition :
                  /\ call' = <<"dlist_remove_by_condition", l, S, Len(Keep(s, S))>>
                  /\ Set(l, Drop(s, S))
           \/ call' = <<"dlist_clear", l>> /\ Set(l, <<>>)

ReadNext ==
    /\ UNCHANGED items
    /\ \E l \in List :
           LET s == items[l] IN
           /\ Called({"dlist_search", "dlist_get_at", "dlist_to_array"}, l)
           /\ \/ \E d \in Datum : call' = <<"dlist_search", l, Key(d), AtOr(s, First(s, Key(d)))>>
              \/ \E i \in 0 .. Len(s) : call' = <<"dlist_get_at", l, i, AtOr(s, i + 1)>>
              \/ call' = <<"dlist_to_array", l, Len(s), s>>

\* The operations on more than one list, and the sort.
WholeNext ==
    \E l, m \in List :
        LET s == items[l]
            half == (Len(s) + 1) \div 2
        IN
        /\ Called({"dlist_sort", "dlist_split_half", "dlist_merge_two", "dlist_split_by_condition",
                   "dlist_merge_two_by_condition"}, l)
        /\ \/ /\ call' = <<"dlist_sort", l>>
              /\ \E t \in [DOMAIN s -> ToSet(s)] : Sorted(s, t) /\ Set(l, t)
           \/ /\ call' = <<"dlist_split_half", l, m>> /\ l # m /\ items[m] = <<>>
              /\ IF Len(s) > 1
                 THEN items' = [items EXCEPT ![l] = SubSeq(s, 1, half),
                                             ![m] = SubSeq(s, half + 1, Len(s))]
                 ELSE UNCHANGED items
           \/ /\ call' = <<"dlist_merge_two", l, m>> /\ l # m
              /\ items' = [items EXCEPT ![l] = s \o items[m], ![m] = <<>>]
           \/ \E S \in Condition :
                  \/ /\ call' = <<"dlist_split_by_condition", l, m, S>> /\ l # m /\ items[m] = <<>>
                     /\ items' = [items EXCEPT ![l] = Drop(s, S), ![m] = Keep(s, S)]
                  \/ \E n \in List :
                         /\ call' = <<"dlist_merge_two_by_condition", l, m, n, S>>
                         /\ l # m /\ n \notin {l, m} /\ items[n] = <<>>
                         /\ items' = [items EXCEPT ![l] = Drop(s, S), ![m] = Drop(items[m], S),
                                                   ![n] = Keep(s, S) \o Keep(items[m], S)]

Next == InsertNext \/ RemoveNext \/ ReadNext \/ WholeNext
Spec == Init /\ [][Next]_<<items, call>>
=============================================================================
