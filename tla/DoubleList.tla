----------------------------- MODULE DoubleList -----------------------------
(***************************************************************************)
(* collections/dlist.c: double linked lists, down to the links.  A datum   *)
(* is in at most one list, so its list element is named like the datum.    *)
(*                                                                         *)
(* A call is one step when it holds the mutex of its list from the first   *)
(* to the last link it touches.  The searches, the reads by position, the  *)
(* walk of dlist_insert_at () and the merges hold none: such a call begins *)
(* in a step of its own, and the rest is one step as long as no other call *)
(* changes its lists meanwhile.  When one does, links of freed elements    *)
(* may be followed: overlapped is set, and nothing more is modelled.       *)
(*                                                                         *)
(* Four operations leave links that are not those of a double list:        *)
(*   dlist_sort ()             end stays where it was before               *)
(*   dlist_merge_two ()        the first of two has no prev                *)
(*   dlist_split_half ()       the new list has no end                     *)
(*   dlist_insert_after ()     in the middle, the next keeps its prev      *)
(* spoiled has the lists that one of them has returned; what later calls   *)
(* make of such a list depends on links that lead anywhere, and they are   *)
(* not modelled, but for those that only walk from start along next.       *)
(***************************************************************************)
EXTENDS Naturals, Sequences, SequencesExt, FiniteSets

CONSTANTS List, Datum, Nil, Key(_), Condition,
          Thread,       \* those that use the lists
          AtSize        \* whether dlist_insert_at () is asked for the position behind the last

VARIABLES heap,         \* prev and next of the elements; start, end and size
          spoiled, call,
          walk,         \* of each thread: the lists that a call without a mutex is in
          overlapped

lists == <<heap, spoiled, call>>
vars == <<lists, walk, overlapped>>

Init ==
    /\ heap = [prev |-> [d \in Datum |-> Nil], next |-> [d \in Datum |-> Nil],
               start |-> [l \in List |-> Nil], end |-> [l \in List |-> Nil],
               size |-> [l \in List |-> 0]]
    /\ spoiled = {} /\ call = <<"dlist_init">>
    /\ walk = [t \in Thread |-> {}] /\ overlapped = FALSE

-----------------------------------------------------------------------------
\* The internal functions, from one heap to the next.

\* What inserting at the start does in both dlist_internal_insert functions.
InsertStart(h, l, d) ==
    LET first == h.start[l] IN
    [h EXCEPT !.end[l] = IF h.size[l] = 0 THEN d ELSE @,
              !.prev = IF h.size[l] = 0 THEN [@ EXCEPT ![d] = Nil]
                       ELSE [@ EXCEPT ![d] = Nil, ![first] = d],
              !.next[d] = first, !.start[l] = d]

Grow(h, l) == [h EXCEPT !.size[l] = @ + 1]

InsertBefore(h, l, e, d) ==
    Grow(IF e = Nil \/ h.prev[e] = Nil
         THEN InsertStart(h, l, d)
         ELSE [h EXCEPT !.next = [@ EXCEPT ![h.prev[e]] = d, ![d] = e],
                        !.prev = [@ EXCEPT ![d] = h.prev[e], ![e] = d]],
         l)

\* The element behind e keeps its prev.
InsertAfterActual(h, l, e, d) ==
    IF e = Nil
    THEN InsertStart(h, l, d)
    ELSE [h EXCEPT !.end[l] = IF h.next[e] = Nil THEN d ELSE @,
                   !.next = [@ EXCEPT ![d] = h.next[e], ![e] = d],
                   !.prev[d] = e]
InsertAfter(h, l, e, d) == Grow(InsertAfterActual(h, l, e, d), l)

\* Fault: end is not moved when the last element is removed.
RemoveActualKeepsEnd(h, l, e) ==
    LET p == IF e = Nil THEN Nil ELSE h.prev[e]
        n == IF e = Nil THEN h.next[h.start[l]] ELSE h.next[e]
    IN  [h EXCEPT !.next = IF p = Nil THEN @ ELSE [@ EXCEPT ![p] = n],
                  !.prev = IF n = Nil THEN @ ELSE [@ EXCEPT ![n] = p],
                  !.start[l] = IF p = Nil THEN n ELSE @]

RemoveActual(h, l, e) ==
    IF e = Nil
    THEN LET second == h.next[h.start[l]] IN
         [h EXCEPT !.start[l] = second,
                   !.prev = IF second = Nil THEN @ ELSE [@ EXCEPT ![second] = Nil]]
    ELSE LET p == h.prev[e]
             n == h.next[e]
         IN  [h EXCEPT !.next = IF p = Nil THEN @ ELSE [@ EXCEPT ![p] = n],
                       !.prev = IF n = Nil THEN @ ELSE [@ EXCEPT ![n] = p],
                       !.start[l] = IF p = Nil THEN n ELSE @,
                       !.end[l] = IF n = Nil THEN p ELSE @]

Shrink(h, l) ==
    IF h.size[l] = 1
    THEN [h EXCEPT !.size[l] = 0, !.start[l] = Nil, !.end[l] = Nil]
    ELSE [h EXCEPT !.size[l] = @ - 1]

\* dlist_internal_remove_element (): the heap, with the element cleared as
\* freed memory has no links, and its datum.
RemoveElement(h, l, e) ==
    IF h.size[l] = 0
    THEN [heap |-> h, data |-> Nil]
    ELSE LET old == IF e = Nil THEN h.start[l] ELSE e
             r == Shrink(RemoveActual(h, l, e), l)
         IN  [heap |-> [r EXCEPT !.prev[old] = Nil, !.next[old] = Nil], data |-> old]

MoveElement(h, l, m, e, after) ==
    Grow(InsertAfterActual(Shrink(RemoveActual(h, l, e), l), m, after, e), m)

\* Both loops read next before the element is removed, n times.
RECURSIVE MoveMatches(_, _, _, _, _, _)
MoveMatches(h, l, m, e, n, S) ==
    IF n = 0 THEN h
    ELSE MoveMatches(IF e \in S THEN MoveElement(h, l, m, e, h.end[m]) ELSE h,
                     l, m, h.next[e], n - 1, S)

RECURSIVE RemoveMatches(_, _, _, _, _)
RemoveMatches(h, l, e, n, S) ==
    IF n = 0 THEN h
    ELSE RemoveMatches(IF e \in S THEN RemoveElement(h, l, e).heap ELSE h,
                       l, h.next[e], n - 1, S)

MergeTwo(h, l, m) ==
    LET one == h.size[l] # 0
        two == h.size[m] # 0
    IN  [h EXCEPT !.next = IF one THEN [@ EXCEPT ![h.end[l]] = h.start[m]] ELSE @,
                  !.start = [@ EXCEPT ![l] = IF one THEN @ ELSE h.start[m], ![m] = Nil],
                  !.end = [@ EXCEPT ![l] = IF two THEN h.end[m] ELSE @, ![m] = Nil],
                  !.size = [@ EXCEPT ![l] = @ + h.size[m], ![m] = 0]]

\* The elements from e on, along next; and along prev.
RECURSIVE Walk(_, _)
Walk(h, e) == IF e = Nil THEN <<>> ELSE <<e>> \o Walk(h, h.next[e])
RECURSIVE WalkBack(_, _)
WalkBack(h, e) == IF e = Nil THEN <<>> ELSE <<e>> \o WalkBack(h, h.prev[e])
Items(l) == Walk(heap, heap.start[l])

-----------------------------------------------------------------------------
\* The merge sort: functions from a heap and first elements to a heap and a
\* first element.

RECURSIVE LastOfHalf(_, _, _)
LastOfHalf(h, fast, slow) ==
    IF h.next[fast] # Nil /\ h.next[h.next[fast]] # Nil
    THEN LastOfHalf(h, h.next[h.next[fast]], h.next[slow])
    ELSE slow

RECURSIVE SortMerge(_, _, _)
SortMerge(h, a, b) ==
    IF a = Nil THEN [heap |-> h, head |-> b]
    ELSE IF b = Nil THEN [heap |-> h, head |-> a]
    ELSE LET least == IF Key(a) <= Key(b) THEN a ELSE b
             r == IF least = a THEN SortMerge(h, h.next[a], b) ELSE SortMerge(h, a, h.next[b])
         IN  [heap |-> [r.heap EXCEPT !.next[least] = r.head,
                                      !.prev = [@ EXCEPT ![r.head] = least, ![least] = Nil]],
              head |-> least]

RECURSIVE MergeSort(_, _)
MergeSort(h, head) ==
    IF head = Nil \/ h.next[head] = Nil
    THEN [heap |-> h, head |-> head]
    ELSE LET slow == LastOfHalf(h, head, head)
             second == h.next[slow]
             one == MergeSort([h EXCEPT !.next[slow] = Nil], head)
             two == MergeSort(one.heap, second)
         IN  SortMerge(two.heap, one.head, two.head)

-----------------------------------------------------------------------------
\* The calls.

Whole == List \ spoiled
Listed == UNION {ToSet(Items(l)) : l \in List}

Return(h, c, S) == heap' = h /\ call' = c /\ spoiled' = spoiled \cup S

InsertCall(op, l, d, i, h) ==
    /\ d \notin Listed
    /\ Return(h, <<op, l, d, i>>,
              IF op = "dlist_insert_after" /\ i <= heap.size[l] THEN {l} ELSE {})

InsertAtStart(l, d) == InsertCall("dlist_insert_at_start", l, d, 1, InsertBefore(heap, l, Nil, d))
InsertAtEnd(l, d) ==
    InsertCall("dlist_insert_at_end", l, d, heap.size[l] + 1, InsertAfter(heap, l, heap.end[l], d))
InsertBeforeElement(l, d) ==
    \E i \in DOMAIN Items(l) :
        InsertCall("dlist_insert_before", l, d, i, InsertBefore(heap, l, Items(l)[i], d))
InsertAfterElement(l, d) ==
    \E i \in DOMAIN Items(l) :
        InsertCall("dlist_insert_after", l, d, i + 1, InsertAfter(heap, l, Items(l)[i], d))

\* Positions count from 0.  The loop leaves le at NULL when pos is the size,
\* and NULL means the start.
InsertAtPosition(l, d, pos) ==
    LET n == heap.size[l] IN
    /\ pos = n /\ n # 0 => AtSize
    /\ InsertCall("dlist_insert_at", l, d, pos,
                  IF pos > n THEN InsertAfter(heap, l, heap.end[l], d)
                  ELSE InsertBefore(heap, l, IF pos \in {0, n} THEN Nil ELSE Items(l)[pos + 1], d))

\* Fault: before the first one that is not smaller.
InsertInOrderBeforeEqual(l, d) ==
    LET larger == SelectInSeq(Items(l), LAMBDA e : Key(e) >= Key(d)) IN
    InsertCall("dlist_insert_in_order", l, d,
               IF larger = 0 THEN heap.size[l] + 1 ELSE larger,
               IF heap.size[l] = 0 THEN InsertAfter(heap, l, Nil, d)
               ELSE IF larger = 0 THEN InsertAfter(heap, l, heap.end[l], d)
               ELSE InsertBefore(heap, l, IF larger = 1 THEN Nil ELSE Items(l)[larger], d))

\* Before the first larger one, or behind the end.
InsertInOrder(l, d) ==
    LET larger == SelectInSeq(Items(l), LAMBDA e : Key(e) > Key(d)) IN
    InsertCall("dlist_insert_in_order", l, d,
               IF larger = 0 THEN heap.size[l] + 1 ELSE larger,
               IF heap.size[l] = 0 THEN InsertAfter(heap, l, Nil, d)
               ELSE IF larger = 0 THEN InsertAfter(heap, l, heap.end[l], d)
               ELSE InsertBefore(heap, l, IF larger = 1 THEN Nil ELSE Items(l)[larger], d))

RemoveCall(op, l, e) ==
    LET r == RemoveElement(heap, l, e) IN Return(r.heap, <<op, l, r.data>>, {})

\* What the loops that count or compare stop at; the first one is removed as
\* NULL.
RemoveFound(op, l, i) ==
    IF i \in DOMAIN Items(l)
    THEN RemoveCall(op, l, IF i = 1 THEN Nil ELSE Items(l)[i])
    ELSE Return(heap, <<op, l, Nil>>, {})

RemoveStart(l) == RemoveCall("dlist_remove_start", l, Nil)
RemoveEnd(l) == RemoveCall("dlist_remove_end", l, heap.end[l])
RemoveTheElement(l) == \E i \in DOMAIN Items(l) : RemoveCall("dlist_remove_element", l, Items(l)[i])
RemoveAtIndex(l) == \E i \in 0 .. heap.size[l] : RemoveFound("dlist_remove_at", l, i + 1)
RemoveQuery(l) ==
    \E d \in Datum : RemoveFound("dlist_remove", l, SelectInSeq(Items(l), LAMBDA e : Key(e) = Key(d)))

RemoveByCondition(l) ==
    \E S \in Condition :
        Return(RemoveMatches(heap, l, heap.start[l], heap.size[l], S),
               <<"dlist_remove_by_condition", l, S, Cardinality(S \cap ToSet(Items(l)))>>, {})

RECURSIVE RemoveAll(_, _)
RemoveAll(h, l) == IF h.size[l] = 0 THEN h ELSE RemoveAll(RemoveElement(h, l, Nil).heap, l)
\* An empty list is one again, whatever its links were.
Clear(l) ==
    /\ heap' = RemoveAll(heap, l) /\ call' = <<"dlist_clear", l>>
    /\ spoiled' = spoiled \ {l}

\* What dlist_search (), dlist_get_element () and the walks of the other reads
\* find from start along next.
Search(l) ==
    \E d \in Datum :
        LET i == SelectInSeq(Items(l), LAMBDA e : Key(e) = Key(d)) IN
        Return(heap, <<"dlist_search", l, Key(d), IF i = 0 THEN Nil ELSE Items(l)[i]>>, {})

GetAt(l) ==
    \E i \in 0 .. heap.size[l] :
        Return(heap, <<"dlist_get_at", l, i, IF i < heap.size[l] THEN Items(l)[i + 1] ELSE Nil>>, {})
ToArray(l) == Return(heap, <<"dlist_to_array", l, heap.size[l], Items(l)>>, {})

\* end is not set again.
Sort(l) ==
    LET r == MergeSort(heap, heap.start[l]) IN
    Return(IF heap.size[l] > 1 THEN [r.heap EXCEPT !.start[l] = r.head] ELSE heap,
           <<"dlist_sort", l>>, IF heap.size[l] > 1 THEN {l} ELSE {})

\* The new list m gets a start and a size.
SplitHalf(l, m) ==
    LET n == heap.size[l]
        half == (n \div 2) + (n % 2)
        e == Items(l)[half + 1]
        p == heap.prev[e]
    IN  /\ heap.size[m] = 0
        /\ IF n > 1
           THEN Return([heap EXCEPT !.end[l] = p, !.next[p] = Nil, !.prev[e] = Nil,
                                    !.start[m] = e, !.size = [@ EXCEPT ![l] = half, ![m] = n - half]],
                       <<"dlist_split_half", l, m>>, {m})
           ELSE Return(heap, <<"dlist_split_half", l, m>>, {})

SplitByCondition(l, m) ==
    \E S \in Condition :
        /\ heap.size[m] = 0
        /\ Return(MoveMatches(heap, l, m, heap.start[l], heap.size[l], S),
                  <<"dlist_split_by_condition", l, m, S>>, {})

MergeTwoCall(l, m) ==
    Return(IF heap.size[l] = 0 /\ heap.size[m] = 0 THEN heap ELSE MergeTwo(heap, l, m),
           <<"dlist_merge_two", l, m>>,
           IF heap.size[l] > 0 /\ heap.size[m] > 0 THEN {l} ELSE {})

MergeTwoByCondition(l, m, n) ==
    \E S \in Condition :
        LET h == MoveMatches(heap, l, n, heap.start[l], heap.size[l], S) IN
        /\ heap.size[n] = 0
        /\ Return(MoveMatches(h, m, n, h.start[m], h.size[m], S),
                  <<"dlist_merge_two_by_condition", l, m, n, S>>, {})

-----------------------------------------------------------------------------
\* The threads.

Walked(T) == UNION {walk[t] : t \in T}
Overlaps == overlapped' = TRUE /\ UNCHANGED <<lists, walk>>

\* A call with the mutex of the list l, of a thread that is in no call.
Locked(l, A) ==
    /\ {t \in Thread : walk[t] = {}} # {}
    /\ \/ l \notin Walked(Thread) /\ A /\ UNCHANGED <<walk, overlapped>>
       \/ l \in Walked(Thread) /\ Overlaps

\* A call without: it enters its list, or the two that it merges, and does what
\* it does when it leaves them.
Enter(t) ==
    /\ walk[t] = {}
    /\ \E l, m \in List : walk' = [walk EXCEPT ![t] = {l, m}]
    /\ UNCHANGED <<lists, overlapped>>

Leave(t, S, A) ==
    /\ walk[t] = S
    /\ \/ /\ S \cap Walked(Thread \ {t}) = {}
          /\ A /\ walk' = [walk EXCEPT ![t] = {}] /\ UNCHANGED overlapped
       \/ S \cap Walked(Thread \ {t}) # {} /\ Overlaps

\* Those that only read may be in one list.
LeaveRead(t, l, A) ==
    /\ walk[t] = {l} /\ \A u \in Thread \ {t} : l \in walk[u] => walk[u] = {l}
    /\ A /\ walk' = [walk EXCEPT ![t] = {}] /\ UNCHANGED overlapped

Next ==
    /\ ~ overlapped
    /\ \/ \E l \in Whole :
           Locked(l, \/ \E d \in Datum : \/ InsertAtStart(l, d) \/ InsertAtEnd(l, d)
                                       \/ InsertBeforeElement(l, d) \/ InsertAfterElement(l, d)
                                       \/ InsertInOrder(l, d) \/ InsertAtPosition(l, d, 0)
                     \/ RemoveStart(l) \/ RemoveEnd(l) \/ RemoveTheElement(l)
                     \/ RemoveAtIndex(l) \/ RemoveQuery(l) \/ RemoveByCondition(l)
                     \/ Sort(l)
                     \/ \E m \in Whole \ {l} : SplitHalf(l, m) \/ SplitByCondition(l, m))
       \/ \E l \in List : Locked(l, Clear(l))
       \/ \E t \in Thread :
              \/ Enter(t)
              \/ \E l \in List : LeaveRead(t, l, Search(l) \/ GetAt(l) \/ ToArray(l))
              \/ \E l \in Whole, d \in Datum :
                     \E pos \in 1 .. heap.size[l] + 1 : Leave(t, {l}, InsertAtPosition(l, d, pos))
              \/ \E l, m \in Whole :
                     /\ l # m
                     /\ \/ Leave(t, {l, m}, MergeTwoCall(l, m))
                        \/ \E n \in Whole \ {l, m} : Leave(t, {l, m}, MergeTwoByCondition(l, m, n))

Spec == Init /\ [][Next]_vars

-----------------------------------------------------------------------------
\* As long as no change overlaps a call that holds no mutex, the links are those
\* of double lists: next leads from start to end and prev back, over as many
\* elements as size says.  Whatever a call returned, no element is lost or in
\* two lists: next leads from start over size elements.
WellLinked ==
    /\ \A l \in List : Len(Items(l)) = heap.size[l]
    /\ \A l, m \in List : l # m => ToSet(Items(l)) \cap ToSet(Items(m)) = {}
    /\ \A l \in Whole : WalkBack(heap, heap.end[l]) = Reverse(Items(l))

\* Each call does to the sequence of elements, and returns, what dlist.h says.
S == INSTANCE SequenceLists WITH items <- [l \in List |-> Items(l)]
=============================================================================
