----------------------------- MODULE SearchTree -----------------------------
(***************************************************************************)
(* collections/avl.c: the tree in which the cerver keeps its clients, as   *)
(* a value.  A node is a record; what the code does through AVLNode **     *)
(* gives the record that the parent gets.  Each call holds the mutex.      *)
(*                                                                         *)
(* balance is what the nodes say, which the code does not always keep up   *)
(* to date: a removal that swaps a node with its successor returns without *)
(* treating the right subtree, and the fix after a double rotation of an   *)
(* insertion reads the balance of a node that may be NULL.  The latter     *)
(* ends the process: Crashed.                                              *)
(***************************************************************************)
EXTENDS Integers, Sequences, FiniteSets

CONSTANTS Id,             \* what the comparator compares: client ids
          MaxInserted     \* bound: the insertions of a run

VARIABLES tree, size,
          ids,            \* history: the ids that were inserted and not removed
          ascending,      \* history: every insertion was of the largest id so far
          largest, inserted, \* history: the largest, and how many
          swapped         \* history: a node with two children was removed

vars == <<tree, size, ids, ascending, largest, inserted, swapped>>

Null == [id |-> 0]
Crashed == [id |-> -1]
IsNode(t) == t.id > 0

Init ==
    /\ tree = Null /\ size = 0 /\ ids = {}
    /\ ascending = TRUE /\ largest = 0 /\ inserted = 0 /\ swapped = FALSE

-----------------------------------------------------------------------------
NodeNew(k) == [id |-> k, left |-> Null, right |-> Null, balance |-> 0]

RightRotation(t) == [t.left EXCEPT !.right = [t EXCEPT !.left = t.left.right]]
LeftRotation(t) == [t.right EXCEPT !.left = [t EXCEPT !.right = t.right.left]]

BalanceFix(t, dependency) ==
    [t EXCEPT !.balance = 0,
              !.left.balance = CASE dependency = 1 -> -1 [] dependency \in {-1, 0} -> 0 [] OTHER -> @,
              !.right.balance = CASE dependency = -1 -> 1 [] dependency \in {0, 1} -> 0 [] OTHER -> @]

\* A subtree with the flag that tells the caller to look at its balance.
Flagged(t, flag) == [tree |-> t, flag |-> flag]

TreatLeftInsertion(p) ==
    LET t == [p EXCEPT !.balance = @ - 1]
        double == RightRotation([t EXCEPT !.left = LeftRotation(t.left)])
    IN  CASE t.balance = 0 -> Flagged(t, FALSE)
          [] t.balance = -2 /\ t.left.balance = -1 ->
                 Flagged([RightRotation(t) EXCEPT !.balance = 0, !.right.balance = 0], FALSE)
          [] t.balance = -2 /\ t.left.balance # -1 /\ IsNode(t.left.right) ->
                 Flagged(IF IsNode(double.left.right)
                         THEN BalanceFix(double, double.left.right.balance) ELSE Crashed, FALSE)
          [] t.balance = -2 /\ t.left.balance # -1 /\ ~ IsNode(t.left.right) -> Flagged(t, FALSE)
          [] OTHER -> Flagged(t, TRUE)

\* Fault: after a single rotation the node that went down keeps its balance.
TreatRightInsertionKeeps(p) ==
    LET t == [p EXCEPT !.balance = @ + 1] IN
    CASE t.balance = 0 -> Flagged(t, FALSE)
      [] t.balance = 2 -> Flagged([LeftRotation(t) EXCEPT !.balance = 0], FALSE)
      [] OTHER -> Flagged(t, TRUE)

TreatRightInsertion(p) ==
    LET t == [p EXCEPT !.balance = @ + 1]
        double == LeftRotation([t EXCEPT !.right = RightRotation(t.right)])
    IN  CASE t.balance = 0 -> Flagged(t, FALSE)
          [] t.balance = 2 /\ t.right.balance = 1 ->
                 Flagged([LeftRotation(t) EXCEPT !.balance = 0, !.left.balance = 0], FALSE)
          [] t.balance = 2 /\ t.right.balance # 1 /\ IsNode(t.right.left) ->
                 Flagged(IF IsNode(double.right.left)
                         THEN BalanceFix(double, double.right.left.balance) ELSE Crashed, FALSE)
          [] t.balance = 2 /\ t.right.balance # 1 /\ ~ IsNode(t.right.left) -> Flagged(t, FALSE)
          [] OTHER -> Flagged(t, TRUE)

TreatLeftReduction(p) ==
    LET t == [p EXCEPT !.balance = @ + 1]
        r == t.right
        double == LeftRotation([t EXCEPT !.right = RightRotation(r)])
    IN  CASE t.balance = 1 -> Flagged(t, FALSE)
          [] t.balance # 2 /\ t.balance # 1 -> Flagged(t, TRUE)
          [] t.balance = 2 /\ ~ IsNode(r) -> Flagged(t, TRUE)
          [] t.balance = 2 /\ IsNode(r) ->
             CASE r.balance = 1 ->
                      Flagged([LeftRotation(t) EXCEPT !.balance = 0, !.left.balance = 0], TRUE)
               [] r.balance = 0 ->
                      Flagged([LeftRotation(t) EXCEPT !.balance = -1, !.left.balance = 1], FALSE)
               [] r.balance = -1 ->
                      Flagged(IF IsNode(r.left) THEN BalanceFix(double, r.left.balance) ELSE Crashed, TRUE)
               [] OTHER -> Flagged(t, TRUE)

TreatRightReduction(p) ==
    LET t == [p EXCEPT !.balance = @ - 1]
        r == t.left
        double == RightRotation([t EXCEPT !.left = LeftRotation(r)])
    IN  CASE t.balance = -1 -> Flagged(t, FALSE)
          [] t.balance # -2 /\ t.balance # -1 -> Flagged(t, TRUE)
          [] t.balance = -2 /\ ~ IsNode(r) -> Flagged(t, TRUE)
          [] t.balance = -2 /\ IsNode(r) ->
             CASE r.balance = -1 ->
                      Flagged([RightRotation(t) EXCEPT !.balance = 0, !.right.balance = 0], TRUE)
               [] r.balance = 0 ->
                      Flagged([RightRotation(t) EXCEPT !.balance = 1, !.right.balance = -1], FALSE)
               [] r.balance = 1 ->
                      Flagged(IF IsNode(r.right) THEN BalanceFix(double, r.right.balance) ELSE Crashed, TRUE)
               [] OTHER -> Flagged(t, TRUE)

\* The parent of what a recursive call returned.
Attach(t, side, r, Treat(_)) ==
    LET p == IF side = "left" THEN [t EXCEPT !.left = r.tree] ELSE [t EXCEPT !.right = r.tree]
    IN  CASE r.tree = Crashed -> r
          [] r.tree # Crashed /\ r.flag -> Treat(p)
          [] OTHER -> Flagged(p, FALSE)

RECURSIVE InsertNode(_, _)
InsertNode(t, k) ==
    CASE ~ IsNode(t) -> Flagged(NodeNew(k), TRUE)
      [] IsNode(t) /\ t.id > k -> Attach(t, "left", InsertNode(t.left, k), TreatLeftInsertion)
      [] IsNode(t) /\ t.id <= k -> Attach(t, "right", InsertNode(t.right, k), TreatRightInsertion)

RECURSIVE Leftmost(_)
Leftmost(t) == IF IsNode(t.left) THEN Leftmost(t.left) ELSE t.id
RECURSIVE SetLeftmost(_, _)
SetLeftmost(t, k) ==
    IF IsNode(t.left) THEN [t EXCEPT !.left = SetLeftmost(@, k)] ELSE [t EXCEPT !.id = k]

\* In the case of two children the right subtree, with the id of its leftmost
\* node swapped, is not treated whatever its flag.
RECURSIVE RemoveNode(_, _)
RemoveNode(t, k) ==
    CASE ~ IsNode(t) -> Flagged(t, FALSE)
      [] IsNode(t) /\ t.id < k -> Attach(t, "right", RemoveNode(t.right, k), TreatRightReduction)
      [] IsNode(t) /\ t.id > k -> Attach(t, "left", RemoveNode(t.left, k), TreatLeftReduction)
      [] IsNode(t) /\ t.id = k /\ IsNode(t.left) /\ IsNode(t.right) ->
             LET r == RemoveNode(SetLeftmost(t.right, k), k) IN
             IF r.tree = Crashed THEN r
             ELSE Flagged([t EXCEPT !.id = Leftmost(t.right), !.right = r.tree], r.flag)
      [] OTHER -> Flagged(IF IsNode(t.left) THEN t.left ELSE t.right, TRUE)

\* avl_internal_get_node_data (): where the search for k ends.
RECURSIVE GetNode(_, _)
GetNode(t, k) ==
    IF ~ IsNode(t) \/ t.id = k THEN t
    ELSE IF t.id < k THEN GetNode(t.right, k) ELSE GetNode(t.left, k)

-----------------------------------------------------------------------------
\* Ids are given out once, so that none is inserted again while it is there.
Insert(k) ==
    /\ tree # Crashed /\ k \notin ids /\ inserted < MaxInserted
    /\ tree' = InsertNode(tree, k).tree
    /\ size' = size + 1
    /\ ids' = ids \cup {k} /\ inserted' = inserted + 1
    /\ ascending' = (ascending /\ k > largest) /\ largest' = IF k > largest THEN k ELSE largest
    /\ UNCHANGED swapped

Remove(k) ==
    LET found == GetNode(tree, k) IN
    /\ tree # Crashed
    /\ tree' = RemoveNode(tree, k).tree
    /\ size' = IF IsNode(found) THEN size - 1 ELSE size
    /\ ids' = ids \ {k}
    /\ swapped' = (swapped \/ (IsNode(found) /\ IsNode(found.left) /\ IsNode(found.right)))
    /\ UNCHANGED <<ascending, largest, inserted>>

\* avl_clear_tree ()
ClearTree ==
    /\ tree # Crashed
    /\ tree' = Null /\ ids' = {}
    /\ UNCHANGED <<size, ascending, largest, inserted, swapped>>

Next == (\E k \in Id : Insert(k) \/ Remove(k)) \/ ClearTree
Spec == Init /\ [][Next]_vars

-----------------------------------------------------------------------------
RECURSIVE Height(_)
Height(t) ==
    IF ~ IsNode(t) THEN 0
    ELSE 1 + LET l == Height(t.left)
                 r == Height(t.right)
             IN  IF l > r THEN l ELSE r

RECURSIVE Balanced(_)
Balanced(t) ==
    IsNode(t) => /\ t.balance = Height(t.right) - Height(t.left) /\ t.balance \in -1 .. 1
                 /\ Balanced(t.left) /\ Balanced(t.right)

\* A search finds exactly the ids that were inserted and not removed, however
\* the rotations have moved the nodes and whatever their balances say.
FindsAll == tree # Crashed => \A k \in Id : GetNode(tree, k).id = IF k \in ids THEN k ELSE 0

\* The ids of clients ascend: the tree stays balanced, and avl_insert_node () is
\* safe, until a node with two children is removed.
BalancedWhileAscending ==
    ascending /\ ~ swapped => tree # Crashed /\ Balanced(tree)

NeverCrashes == tree # Crashed
=============================================================================
